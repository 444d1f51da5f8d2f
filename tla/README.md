# Verification of parallelcoin

TLA+ models of the parts of parallelcoin that carry its state, the TLC runs
that check them on small instances, and TLAPS proofs of the main results for
every instance. All paths below are relative to the repository; `PROJECT.json`
holds the machine-readable index (components, runs, mutants, map from every
definition to its source lines, hazards, theorems).

    tlc -workers 2 -config MCBlockChain.cfg MCBlockChain    # one run
    tlapm BlockChainProofs.tla                              # the proofs about one module
    tlapm FFLDBProofs.tla                                   # likewise KeyStoreProofs, PeerProofs, RulesProofs, ScriptProofs, ScriptValProofs, WireProofs

## 1. Inventory

parallelcoin at this commit is a set of Go packages of a btcd-style node
(`cmd/pod` itself only prints its version). What keeps state:

| component | state | operations | hard behaviour |
|---|---|---|---|
| chain engine (`pkg/blockchain`: process, accept, chain, blockindex, chainview, chainio) | block index with status flags and dirty set, best chain view, state snapshot, database records (rows, payloads, hash and height index, spend journal, best state) | `ProcessBlock`, `maybeAcceptBlock`, `connectBestChain`, `reorganizeChain`, `connectBlock`, `disconnectBlock`, `CheckConnectBlockTemplate`, `initChainState` | the chain lock is released around every notification, also in the middle of a reorganization; several database transactions per block; errors that are ignored; crash between any two of them |
| validation rules (`validate`, `merkle`, `mediantime`, `weight`, `checkpoints`, `blacklist`) | none of their own | sanity, context and connection checks | boundaries of sums and heights |
| script validation pool (`scriptval`) | worker goroutines, three channels | `Validate` | early exit while others still send |
| utxo view, spend journal (`utxoviewpoint`, `chainio`, `compress`) | entries, modified flags | fetch, connect, disconnect, commit, encode | disconnect must invert connect |
| difficulty, subsidy (`difficulty`, `fork*`, `pkg/fork`, `pkg/hardfork`, `pkg/bits`) | tables | next bits, work, subsidy | rounding, heights of forks |
| ffldb (`pkg/database/ffldb`) | leveldb rows, write-back cache (two treaps), pending rows of a transaction, flat block files, write cursor | begin, put, delete, store block, commit, rollback, flush, close, open with reconciliation | snapshot against flush, half-written files, rollback that fails, crash before a sync |
| treaps (`pkg/util/treap`) | ordered map with priorities | put, delete, iterate | rotations, iterators over changing trees |
| peer (`pkg/peer`) | five goroutines, seven channels, pending messages, known inventory, expected responses | `AssociateConnection`, `QueueMessage`, `QueueInventory`, `Disconnect`, four handlers | goroutines that wait for each other while they end; random `select` |
| mru maps (`pkg/peer/mru*.go`) | list and map with a limit | add, exists, delete | eviction at the limit |
| wire (`pkg/wire`), btcjson | none | encode, decode, limits | version gates, length limits |
| txscript | two stacks, condition stack, counters | `Step`, opcodes | limits, unbalanced conditionals |
| keystore, hdkeychain, walletdb | keys, lock state, file | unlock, extend, save | partial failure of a save |
| interrupt, rununit, pipe | handler list, running flag | add handler, request, start, stop | unbuffered channels after the listener left |
| ecc, forkhash, base58, btcaddr, chaincfg, opts, spec, ... | constants or pure arithmetic | | |

Interactions. `ProcessBlock` stores blocks and index rows through ffldb
transactions and tells its subscribers through callbacks that run without the
chain lock; ffldb keeps committed rows in memory until a flush, so the chain
engine sees a *committed* and a *surviving* database that differ. The listeners
of a peer call into the node, which queues messages back to the same peer.

What makes each correct: the indexes on disk describe exactly the stored best
chain and can be loaded after a crash at any point; memory and database agree
whenever nobody is in between; invalid blocks never reach the main chain; a
transaction is atomic and what leveldb holds was committed; every indexed block
can be read; a peer sends messages in order and once, signals each done channel
once, and ends all its goroutines after a disconnect.

The hazards found while reading, each at its line and with the properties that
would catch it, are in `PROJECT.json`.

## 2. Modules

| module | models | used by |
|---|---|---|
| `BlockChain` | chain engine: concurrent callers, database errors, crashes, restart | `MCBlockChain`, `BlockChainProofs` |
| `Utxo` | views, journal and rows of unspent outputs, reorganizations over them | `MCUtxo` |
| `UtxoSet` | the abstract specification that `Utxo` implements | `Utxo` |
| `Compress` | VLQ, amount and script compression | `Utxo` |
| `Work` | compact targets, fork tables, both retarget rules and the controller's cache | `Locate` |
| `Locate` | the chain view's array, locators, inventory and hash ranges | `Rules` |
| `Rules` | the rules for headers, bodies and templates, checkpoints, subsidies | `MCRules`, `RulesProofs` |
| `ScriptVal` | the pool that validates scripts and the signature cache it shares | `MCScriptVal`, `ScriptValProofs` |
| `Signatures` | serializing, parsing and strictly checking signatures | `Script` |
| `Script` | the script engine with every opcode | `Templates`, `ScriptProofs` |
| `Templates` | script classes, builder, signing and merging | `MCScript` |
| `FFLDB` | transactions, cache, block files, recovery | `MCFFLDB`, `FFLDBProofs` |
| `TxStore` | the abstract specification that `FFLDB` implements: a transactional map | `FFLDB` |
| `Treap` | both treaps and their iterators over shared nodes | `Cursor` |
| `Cursor` | cursors, `ForEach`, buckets over three layers of rows | `MCCursor` |
| `Peer` | one connection and its goroutines | `MCPeer`, `PeerProofs` |
| `Wire` | payloads, limits, gates and framing of every message | `MCWire`, `WireProofs` |
| `KeyStore` | the legacy key store and its file | `MCKeyStore`, `KeyStoreProofs` |
| `BlockChainProofs`, `FFLDBProofs`, `KeyStoreProofs`, `PeerProofs`, `RulesProofs`, `ScriptProofs`, `ScriptValProofs`, `WireProofs` | TLAPS proofs about the module of that name | |

The modules divide one call of `ProcessBlock` by concern rather than by file:
`BlockChain` has its locks, transactions and crashes and takes the verdict of
each check as a constant; `Rules` computes the verdicts on header and body;
`Utxo` computes those on the outputs spent, and what happens to them;
`ScriptVal` and `Script` are the last check. `FFLDB` and `Cursor` are the
database below all of them.

### BlockChain

A caller of `ProcessBlock` is a small program; `pc[w]` is its next step. A step
is what happens between two points where others can run or the process can
die: a database transaction, or the stretch from taking to releasing the chain
lock. `store` and `flush` are `maybeAcceptBlock`, `best` is
`connectBestChain`, `connect`/`connected` and `disconnect`/`disconnected` are
the two functions before and after their transaction, `notify` is the window
without the lock, `finish`, `abort` and `accepted` are the ways out. `detach`
and `attach` are the lists of `getReorganizeNodes`.

A block is a model value. Its verdicts (`Sane`, `ContextOK`, `Connectable`) are
constants because they depend on the block and its ancestors only. `TotalTxns`,
the number of transactions up to a block, is a constant function that the
assumptions tie to the tree by its recursion equations. `Version514`
is the algorithm class that `maybeAcceptBlock` computes from the header; all
heights are before the hard forks, where there are two classes.

`db` is what transactions see, `disk` what a crash leaves: `Commit` lets the
write-back cache reach the disk after any commit, which is what ffldb does
(flush when the cache is full or old). `FFLDB` justifies this interface: it
implements `TxStore` (`ImplementsTxStore`, checked and proved), whose `rows`
and `disk` are the `db` and `disk` of this module. A database error is possible at each transaction
(`DbError`, at most `MaxFailures`), except during the reload.

Not in the model: the orphan pool. `ProcessBlock` returns the error of
`BlockByHash` for every block whose parent is not on the main chain
(`process.go:50-55`), before the code that would keep it as an orphan, so that
code is never reached. For the same reason only blocks whose parent is on the
main chain *at that moment* get in; side chains longer than one block arise
when the parent was on the main chain when the block was submitted.

### Utxo, UtxoSet, Compress

A row of `utxo` and an entry of `journal` are the cells that the code
serializes, so every read goes through the decoder of what an earlier write
encoded: header code with the coinbase bit, VLQ height, compressed amount and
script. A view maps outpoints to entries or nil with their modified, spent and
coinbase flags. A reorganization is checked on one view in one step, as under
the lock, then goes on block by block on a second view, with other callers and
crashes in between. `UtxoSet` knows none of this: its state is a chain and the
outputs that replaying it gives, and a step connects one valid block or
disconnects one. `ImplementsUtxoSet` is `UtxoSet`'s specification under the
mapping that decodes the rows.

### Work, Locate, Rules

A block node is the sequence of headers that leads to it, so an index is a set
of sequences closed under prefixes and the retarget rules read their ancestors
from the node. Targets have digits in base 4 instead of 256; the clamps,
divisions, the sign bit and the loss of digits are those of the code. The
Plan 9 rule averages in floating point in the code; the model uses fractions,
which is what the code approximates. `Rules` makes one step of a whole
`ProcessBlock` or template check. `Locate` keeps the array of `chainView` with
its capacity, because `setTip` reuses it.

### Script, Signatures, Templates

A step is a call of `Engine.Step`. Stack elements are byte sequences, so
arithmetic, minimal encodings and casts are checked on real bytes; digests, keys and
signatures are symbolic with the size they have. `Templates` lets several
signers call `SignTxOutput`, each with some of the keys and the script of the
previous one, while the transaction may be edited between two calls.

### ScriptVal

The coordinator and the workers of a call meet on channels without buffer; a send
and its receive are one step. All calls share one cache whose eviction takes
any entry.

### Cursor, Treap

Nodes live in a heap of records with ids, so immutable treaps share nodes as
they do in memory and an iterator may hold a node that was unlinked. A priority
is any of `Priorities`. A transaction has a snapshot of leveldb and cache and
its own pending treap; a cursor merges an iterator over each. `CursorFollowsRows`
compares a cursor with looking up every key. The moves for which the code does
not keep this promise are in `Liberties`, empty in the run, and listed in
section 5.

### Wire

A message is the tuple of its fields, a stream the sequence of cells that were
written. `Send` frames a message that the writer accepts, `SendCorrupt` frames one
that it may refuse or damages payload or frame, and `Read` is the reader's side with
all of its early returns. `result` says how far the message got and what reading it
returned; `later` is what was written behind the message, so that after each
refusal the model knows where the stream should stand.

### KeyStore

Every exported method that changes the store is an action. The curve is a parameter:
`ScalarBaseMult`, `ScalarMult`, `MulMod` and `ChainXor` are operators of which
`KeyDerivation` assumes what the code relies on, that a public key derived from the
public key of `k` is the public key of what is derived from `k`. The run takes a
small multiplicative group, where this holds for the reason it does on the curve.

Every method that holds the mutex is one step. `WriteIfDirty`, which takes two locks, is
two, and `MarkDirty`, which the caller has to call, is an action of its own. `PrivKey`
and the `unlock` it calls hold no lock, and each of their accesses to what others change is a
step: `PrivKeyCheck` reads the lock state, `PrivKeyDecrypt` the secret, which may be half
zeroed by then, `PrivKeySaved` finds a saved clear text, `PrivKeyCompare` compares with it,
and `PrivKeyCopy` reads it again for the copy, of which a `Lock` since the comparison may
have left nothing or some bytes; `PrivKeySave` is the path without a saved clear text.
`call` is the one such call under way, with the mark that a `Lock` has run since its last
step; `got` is the key `PrivKey` has returned in the last step.

### FFLDB

A goroutine with an open transaction has its snapshot (leveldb rows, then cache
layers, taken in two steps as in `dbCache.Snapshot`), its pending rows and its
pending blocks. The steps of a commit are those of `writePendingAndCommit`:
each block record is written in cells, so that a write can stop half way; a
failure leads to `handleRollback`, which may itself fail; then the cursor row,
and either the swap of the cached treaps or a flush (sync files, one leveldb
transaction, clear the cache) and a direct commit. `CrashAndOpen` loses
the memory and keeps the files at least up to their synced length, then
reconciles as `reconcileDB` does. leveldb and the file system are external: a
leveldb transaction happens at once or fails; unsynced cells survive a crash of
the process (the model does not lose them; whether they *would* be lost in a
power failure is what `FlushedBlocksSynced` asks).

`TxStore` is what the chain engine relies on: one writer at a time, whose view
is the committed rows and its own writes; `Commit` replaces the rows by the
view; `Flush` copies the rows to the disk at any time; `Lose` falls back to the
disk. The mapping takes `rows` to what leveldb and the cache hold together,
`disk` to leveldb, `holder` to the write lock and `view` to what the writer's
next read returns (`WriterView`). A whole commit, with its records, rollover,
cursor row, sync and flush, is one step of the abstract store and stutters
otherwise. Readers are left out of it: because their snapshot is taken in two
steps they do not see a committed state (section 5).

### Peer

`pc` has an entry per goroutine: the negotiator, `start`, the four handlers and
the callers of `QueueMessage`. A step is what a goroutine does between two
channel operations; the check of `Connected` and the send in `QueueMessage` are
two steps. Message contents are their commands. The stall handler's clock is
abstracted: a tick may find any expected response late. Channels of capacity
one keep their capacity; `outputQueue` and `outputInvChan` hold 1000 elements,
more than the model ever has. `written`, `unwritten`, `relayed`, `answered` and
`announced` are history variables.

## 3. Runs

| run | instance | shows |
|---|---|---|
| `chain_engine` | tree of 6 blocks with a heavier branch and an invalid one, 2 callers, 1 database error, 1 crash | memory, index and both database states stay consistent; invalid blocks stay out |
| `chain_live` | 3 blocks, 2 callers, 1 error, fairness | every call returns |
| `utxo` | 6 blocks at a time out of 2 branches that confirm the same transactions differently and branches that break one rule each, 2 callers, crashes | refinement of `UtxoSet`; the journal undoes the tip; a checked reorganization goes through |
| `rules` | 4 initial chains before, at and after the fork, 2 new blocks of any algorithm, bodies that break one rule each, with and without the fast-add flag, restarts | a header has one body; the next block is possible; templates connect; queries follow the best chain |
| `scriptval` | 2 calls, 3 workers each, a cache of 1 entry, fairness | verdicts, return of the call, end of all goroutines |
| `script` | every pair of opcodes on several stacks, conditional programs of 6 opcodes, multisig, script hash, lock times, every short signature encoding, outputs with up to 3 signings and edits | no panic or hang; conditionals, multisig and redeem scripts mean what they should; strict encodings are the canonical ones; signed outputs verify |
| `ffldb` | 1 key, 2 blocks of half a file and more, 2 goroutines, 2 commits, at most two faults in all (failures of file or leveldb operations, one crash) | refinement of `TxStore`: atomic commits, isolation of the writer, crashes that fall back to the last flush; leveldb holds a committed state; indexed blocks can be read; the database opens |
| `cursor` | 3 stored rows, 1 nested bucket, 3 writes, 2 priorities, a writer with a cursor and a reader | treap versions keep their rows; cursors and `ForEach` meet exactly the rows; `DeleteBucket` removes what was stored |
| `peer` | inbound, one caller that waits, one transaction announced twice, one message from the remote side (a ping, a second version or a malformed one) | order, one hand-off at a time, done channels signalled once |
| `peer_live` | inbound, a request and its answer, one block announcement, fairness | stall accounting, delivery, end of `queueHandler` |
| `wire` | every message with lists of 0, 1, limit and limit + 1 elements, versions on both sides of every gate, 9 ways of damaging a frame | writer and reader agree; refused messages are skipped; offsets are right |
| `keystore` | 2 passphrases, chain of 3 addresses, an import that the chain may reach, 1 script, 5 operations and 1 synchronisation with the steps of a `PrivKey` call, saves, crashes and reopenings | no key lost; `PrivKey` returns the right key, an error, or zeroed bytes if a `Lock` came between its comparison and its copy; watching-only copy agrees; files round-trip |

Why the bounds are enough to be interesting. In `chain_engine` two callers
can extend, fork and reorganize at the same time, the heavier invalid branch
makes a reorganization fail in its check phase, the one error and the one crash
fall on every transaction in turn, and the fast-added block takes the path
without validation. In `utxo` an output is created and spent in one block, a
reorganization of two blocks can be interrupted after each, and all six kinds
of scripts and amounts with and without trailing zeros are stored. In `rules`
the heights put the fork, a retarget interval and a halving within two blocks of
the tip. In `ffldb` the second block rolls over into a new file, a failed
write followed by a failed rollback, or by a crash, is possible, and a reader
spans a commit. In `cursor` three writes suffice for every shape of a treap of
three nodes and for a rotation below an open iterator. In `wire` the limits are
scaled to 3 and a count of 3 already needs a wide integer. In `peer` three
messages (verack, the caller's, and a reject or pong) meet one announcement in
the queues, and a disconnect falls between any two steps. In `keystore` five
operations allow import, lock, extension while locked, unlock and a change of
passphrase in any order, or leave three for what runs between the steps of `PrivKey`; longer
sequences of synchronisations are those of `MCKeyRollback.cfg`. In `scriptval` three workers compete for two or three
inputs, so that one fails while another is in the middle of an item.

Deadlock is checked in the runs of `BlockChain`, `FFLDB` and `ScriptVal`. A
peer ends, a script ends, and the other instances run out of blocks, messages or
operations, so their runs switch the check off.

Every property of a passing run has a mutant in `PROJECT.json`: a plausible bug
in one mapped definition under which TLC finds the property violated.

### Fairness

`BlockChain`: weak fairness of every step of a caller (a goroutine that can run
is run, database calls return) and strong fairness of taking the chain lock
(a Go `RWMutex` hands the lock to the waiter that starved). Submissions,
errors and crashes are not fair. `Peer`: weak fairness of each goroutine; a
write ends with success or error, and a pending read fails after the connection
was closed. Nothing is assumed of the remote side, and nothing about which
branch of a `select` is taken. `ScriptVal`: weak fairness of the coordinator
and of each worker, as the scheduler gives it; again nothing about `select`.

## 4. Proofs

Each proof module has an inductive invariant of its own, which TLC checked on the
configuration of the corresponding run before it was proved, and one lemma per
action, with one step per conjunct that the action can disturb.

| module | theorem | states | for every |
|---|---|---|---|
| `BlockChainProofs` | `TypeCorrect` | `TypeOK` | block tree, number of callers, errors and crashes |
| | `MainIndexCorrect` | `MainIndexMatchesBest` | |
| | `MemoryCorrect` | `MemoryMatchesDb` | |
| | `RestartCorrect` | `RestartSucceeds` | |
| | `CleanRowsCorrect` | `CleanRowsMatchDb` | |
| | `TipCorrect` | `TipMovesByOneBlock` | |
| | `FlagsCorrect` | `FlagsNeverUnset` | |
| | `StoredChainCorrect` | three of the parts of `ChainIsValid`, for any fast adds | |
| | `ChainCorrect` | `ChainIsValid` | the same, if fast adds would connect |
| `FFLDBProofs` | `ConsistentStore` | `StoreIsConsistent` | set of keys, values and blocks, file size of at least one record, number of goroutines, failures and crashes |
| | `AtomicCommit` | `CommitIsAtomic` | |
| | `StoreRefines` | `ImplementsTxStore` | |
| `PeerProofs` | `HandoffIsOrdered` | `HandoffInOrder` | number of callers, announcements and received messages, either direction |
| | `SignalledOnce` | `OnlyOnce` | |
| | `AnswerSettles` | `AnsweredIsNotPending` | |
| `ScriptValProofs` | `VerdictIsSound` | `VerdictSound` | number of calls, inputs and processors, size of the cache |
| | `CacheIsSound` | the cache holds verified signatures | |
| `RulesProofs` | `BestChainInView` | the array of the chain view is the best chain | set of blocks and bodies, initial chain, table of forks after the first, subsidy and retarget parameters |
| | `TemplatesAccepted` | `TemplatesConnect` | |
| | `HeaderCommits` | `BodyCommitted` | |
| | `QueriesAlwaysFollow` | `QueriesFollowChain` | also the chains of other nodes, length of the dense part of a locator, limit of an answer; heights below 2^30 |
| `KeyStoreProofs` | `StoreIsWhole` | the inductive invariant below | passphrases, key derivation, length of the chain, number of imports, scripts, saves and crashes; files of version 1.36.1 or later |
| | `KeysAreAlwaysKept` | `KeysAreKept` | |
| | `WatchingChainAlwaysAgrees` | `WatchingChainAgrees` | |
| | `FileAlwaysRoundTrips` | `FileRoundTrips` | |
| `ScriptProofs` | `EngineNeverStops` | `EngineNeverStuck` | scripts, redeem scripts, transactions and flags, all limits |
| | `ConditionalsAlwaysFollowBlocks` | `ConditionalsFollowBlocks` | also length and nesting |
| | `MultiSigAlwaysOrderedMatch` | `MultiSigIsOrderedMatch` | also numbers of keys and signatures |
| `WireProofs` | `RefusedSkips` | `RefusedIsSkipped` | set of messages and versions, all limits, the 9 ways of damaging a frame |

The invariants themselves are `Inductive`, `ChainInductive`, `StoreInvariant`,
`FreshTransactions`, `PeerInvariant`, `PoolInvariant` and `RulesInvariant`.

**BlockChain.** The assumptions are `TreeAssumption` (a path starts at the
genesis block and grows by one block; a block occurs on a path only at its
height), `AttributeAssumption` (with the equations of `TotalTxns`) and
`BoundAssumption`, which TLC evaluates in every run. `IInv` adds to the
properties: who holds the lock (`LockInv`: exactly the caller at a locked
label); what each caller knows about its lists (`CallInv`: the blocks it will
attach are indexed, none is the genesis block, and between its commit and its
update of memory the database is exactly one block ahead of or behind the tip);
and that the index, the rows and the payloads are closed under ancestors
(`IndexInv`, `StoreInv` for both database states). `MemoryMatchesDb` is not
inductive without `CallInv`: a second caller could commit in the window.
`StoreInv(disk)` follows because the disk only ever becomes a copy of the
committed state.

`ChainInv`, on top of `IInv`, is about verdicts: a block marked valid, the
parent of an indexed block, the tip, both stored best blocks and every block that
some caller has still to attach are *good* (they pass `checkConnectBlock` or are
fast adds), the blocks to attach are marked valid or are fast adds, and rows
never have a flag that memory lacks. A caller in the middle of a
reorganization needs this of its own list because others have the lock between
its steps. That no good block is ever marked invalid is inductive only under
`FastAdd \subseteq Connectable`, the hypothesis of `ChainCorrect`; it is what
the flag means (`process.go:20`: blocks "already known to fit into the chain").
Without it the property fails with three callers: one fast-adds a block that
would fail the check, a second one reorganizes it away while the first is
notifying, and a third, whose block was submitted on top of it before, starts a
reorganization back in which the check marks it as failed, below an indexed
block. `StoredChainCorrect` has what remains true without the hypothesis.

**FFLDB.** `ConstantAssumption` keeps keys, blocks, positions, the cursor row and
`None` apart and makes a file hold at least one record. The properties are not inductive: that an
indexed block can be read depends on what later writes may touch. `Floor` is
the position below which nothing is written or cut off: the write cursor, or,
while a commit writes or undoes blocks, the position from which it started.
`DataInv` says that leveldb, the committed rows and every open snapshot refer
only to complete records that end before it, that the stored cursor is not
after it, and that the files reach it without a gap; so a rollback, also one that
fails half way, and the reconciliation after a crash keep them.
`CacheInv` follows cache and leveldb along a flush, `RowInv` says where the cursor
row is, `LockInv` who may be in a commit. For the refinement
a transaction that just began must have nothing pending (`FreshInv`, proved on top
of `IInv`); then each step of `FFLDB` is mapped to a step of `TxStore` or a
stutter (`TxStoreStep`): `Begin` is `Begin`, the second half of the writer's
snapshot a stutter (`WriterView` is the committed rows until then, and no other
writer can commit), `Put`, `Delete` and the pending block rows are `Write`, the
last step of a commit is `Commit`, and a flush or a direct commit moves the disk.

**Peer.** `ConstantAssumption` names the commands and separates callers from
handlers. A message moves through `outputQueue`, `pendingMsgs`, `sendQueue` and
`outHandler`, and drains empty these while others still fill them, so
`IInv` counts: for each message with a done channel, the goroutine that has
still to queue it, its copies in the queues and its signals are together at most one
(`DoneInv`); likewise for writing (`WriteInv`) and, for a transaction, the
batches that carry it (`RelayInv`, zero while it is unknown). `OrderInv` says
that what `queueHandler` took and is not written is what `outHandler` has
followed by what is pending, as long as nobody disconnected; `StallInv` that an
answered request is neither expected nor about to be announced to the stall
handler. Counting is by cardinality of index sets, so that no induction over
sequences is needed.

**ScriptVal.** Besides types, `CollectAssumption` says that the collection of
inputs (a fold over transactions) is a sequence of inputs. `LoopInv`
is the bookkeeping that makes the early exits right: the results counted and the
goroutines that hold an item are together the items handed out, and each of
those was found valid or is still held. `CacheInv` is needed for it: a cache hit
skips the verification.

**Rules.** `RulesAssumption` says what a header record is, that bodies are
sequences of transactions, that the initial chains and those of other nodes share
their genesis block, that an answer may have a block (`MaxInv`), and that the first
fork has the two algorithms of `fork.Algos`; the later forks are arbitrary.
`setTip` walks down from the new tip and stops at the first node that is in place,
so it relies on everything below being right already, and `ProcessBlock` asks the
view whether the parent is on the main chain; `IInv` therefore joins "the array
up to its length is the best chain" with "the index is closed under
ancestors". From it the parent of an accepted block is on the best chain, the fork
point is at or above the parent, and the calls of `setTip` of a reorganization,
one per block, end with the new chain. `TemplatesConnect` follows because a
template is checked on the tip, which the view shows; that the limit of the
target is the same on both paths needs the classes of versions before the fork
(`SameAlgorithm`).

`BodyCommitted` is about a recursive function. The library's induction theorems
cannot be instantiated, so the recursion is unfolded by hand: a partial array of
each length exists and two of them agree (`PowersExist`, `StoreExists`), each by
taking the least number for which this fails, and then the equation of the
recursive function holds. Read from its end the array is a heap with the root at 1.
On each level the missing nodes come last (`MissingLast`) and, without repeated
transactions, no two nodes are equal (`NoTwins`); so from equal roots equal
children follow, also where a left child stands in for a missing right one, and
the trees and bodies are the same (`RootCommits`). `BodyInv` says that each
accepted block is stored with a body that passed. Hashes are tuples here, so
that two of them are equal only for equal arguments.

`QueriesFollowChain` needs the shape of a locator. The recursion of `blockLocator` is
unfolded as above (`WalkExists`) and followed entry by entry (`Running`, `WalkStep`):
all entries are ancestors of the node that asks, whether they were looked up in the array
or through parents (`LookupIs`); the first `denseEntries + 2` follow each other; each
later gap is at most one block longer than the distance already covered; the last entry
is the genesis block (`LocatorFacts`). So the first entry that is on the best chain is no further
below the fork than the asker is above it, and is the fork itself if that lies in
the dense part (`MeetingPoint`); from there `locateInventory` sends a run of the best chain
(`AnswerIs`). After k entries of the sparse part the step is a power of two that
still fits the chain, and the five tests of `fastLog2Floor` find at least
its exponent (`LogIsEnough`), so the room of `maxEntries` is enough. The hypothesis `HeightsFit`
keeps chains below 2^30 blocks, since the code keeps the step, which doubles, in an
int32 and the model in a natural number. The proof corrected the property: an earlier form
said that the answer is empty whenever the asker has the best chain. If it is ahead by more
than the dense part of its locator, the tip need not be an entry and it is sent
blocks that it has.

**Wire.** `EncodeAssumption` says that what `BtcEncode` returns for the messages of
the instance is a sequence of cells of at least one byte each, which is what the
element writers produce; `WireAssumption` names the ways of damaging a frame. The
proof is about the bytes, not about the decoders: `Framed` says of the message in
flight that taking as many bytes as its header announces leaves exactly what was
written behind it, or that the announcement is above `MaxMessagePayload`. The
message may have been cut, prolonged, miscounted or framed for another network, and
on a lost connection the announcement is one byte too many. `Size` and `TakeBytes`
are recursive functions over the cells and are unfolded by least counterexample
(`SizeSteps`, `TakeLeaves`). `ReadEndsAtNext` then goes through the returns of
`ReadMessageWithEncodingN`: each either skips or has read that many bytes, or
ends the connection, or refuses to skip.

**KeyStore.** `KeyStoreConstants` and `KeyDerivation` are the assumptions on the
constants. `IInv` says that the store in memory is *good*, and that the file is what
`writeTo` makes of a good store. In a good store the chain map is the chain derived
from the root key up to the last index, every address of it is present with the
index of its place, and every other key is an import; an address that holds its private key
has it encrypted under the passphrase in force, and what it has in the clear is that key
or nothing; an address lacks its key only in a watching-only store or from
`missingKeysStart` on; an unlocked store has the passphrase in force and no missing
keys. The parts about missing keys are what `ExtendActiveAddresses`, `Unlock` and
`ChangePassphrase` must keep together: the first, on a locked store, adds addresses
without a key, the second derives these keys one from the other starting at
`missingKeysStart`, the third encrypts again whatever is there. `KeysAreKept` alone is not
inductive: it does not say from which index on keys may be absent. The derived chain and
the walks over addresses are recursive functions, unfolded as for the merkle tree.
Reading back what was written gives a good store (`ReadGood`), which is what a reopened
store needs and most of `FileRoundTrips`.

For `PrivKey`, `IInv` has `CallGood`: the address of the call under way is in the store, a
locked store has no clear text of it, and what the call has compared is still there unless a
`Lock` has run since. `Follows` relates a store to the one an operation makes of it:
no address is lost, no clear text of an unlocked store disappears and none appears in a
locked one. Every operation but `Lock` leaves a store that follows the one before
(`CallFollows`), and `Lock` sets the mark of the call (`LockClears`), so at `PrivKeyCopy` the
clear text is the key, or the mark is set. `KeysAreKept` says exactly that: it is not
the promise of the comments, which fails (section 5). The proof is about one call
of `PrivKey` at a time.

The theorems have the hypothesis `RecentFile`: the store was created by this code or
read from a file of version 1.36.1 or later. For an older file `Unlock` treats an
address that has its key already as an error (`keystore.go:1086`), so the store can
never be unlocked.

**Script.** `ScriptAssumption` says that the limits are positive and that the scripts of the
instance are sequences; the scripts, the transactions and the flags are arbitrary. The run
checks the same properties under `SignSpec` of `Templates`, which starts engines with
`NewEngine` as `Init` does, after every signing and edit.

`EngineNeverStuck` needs to know where an engine stands when `Step` is called, since
`validPC` does not compare the offset with the script it is in. `EngineInv` says it of both
engines (`Ready`): the offset is inside the current script, which is one of two, or the third
after a script hash; between the opcodes of a script hash template the saved stack is not
empty. The latter is not true before the first opcode: it holds afterwards because `OP_HASH160`
failed otherwise (`HashNeedsStack`), and it is what `EnterRedeemScript` needs when it takes the last
saved element. Each handler is shown to leave the position and the scripts alone and to lock
a stack for good only with an error (`Kept`, `OpfuncHandled`).

For the conditionals `CondInv` adds `Blocks`: `condStack` has one element for each
conditional that encloses the offset, in order, and an element says "true" or "false" when its
conditional was decided and the offset is on the side it took or on the other, and "skip" when it was not
decided because an outer one was not executing. The top element alone is then
enough, because everything above an element that is not "true" is "skip". The steps are
the four conditional opcodes (`BlocksIf`, `BlocksElse`, `BlocksEndif`) and every other
one (`BlocksOther`); an else changes the parity of the else opcodes of the innermost block only.

`MultiSigIsOrderedMatch` compares a loop that takes the first key that fits with the existence
of an increasing assignment. `Match(G, k, s, ...)` says that the signatures after the first s have such an
assignment to the keys after the first k. A key that does not fit the next
signature can be left out (`MatchSkips`); one that fits can be taken, because an assignment that uses a later
key can be cut down (`MatchTakes`); if more signatures than keys are left there is none
(`MatchNeeds`). So each round keeps `LoopInv`, and what the loop returns is `Match` from the start
(`LoopDecides`; the recursion is unfolded as above). No error of the encoding checks can be
taken for a result of the loop (`SigErrorIs`).

Only model-checked, and why:

- Liveness (`CallsReturn`, `PoolEnds`, `QueuedIsWritten`, `QueueHandlerEnds`):
  out of the prover's reach.
- `NextBlockPossible`: products, quotients and averages of targets over a chain
  are beyond the arithmetic of the SMT solver.
- `Utxo` and its refinement of `UtxoSet`, `Cursor` and `Treap`,
  `Templates`, `Wire.SidesAgree` and `Wire.OffsetsMatchBytes`: their properties are about what recursive
  definitions and folds compute (connecting a block transaction by transaction,
  walking a treap, signing, encoding and
  decoding), which needs induction over data that the installed provers cannot do
  with the library's theorems. A recursive function can be unfolded by hand, as
  for the merkle tree, the frames of `Wire`, the chain of keys and the multisig loop; for
  these it has not been done.
- `RedeemScriptDecides` relates the results of two whole runs of the engine, and is not
  true for all limits: a signature script that fills the stack up to its limit before the last
  push fails in the spend and not in the redeem script alone. The run stays below the limits.

## 5. Where the code and its documentation disagree

Each of these is a property of a module that the code violates. They are kept out
of the index of runs; a configuration reproduces each one.

| configuration | property | what happens |
|---|---|---|
| `MCMostWork.cfg` (`MCBlockChain`) | `MostWorkSelected` | `chain.go:939` and `:943` promise the chain with the most cumulative work. The new node's `workSum` is overwritten with its own work (`chain.go:1026`) and compared with a field of the tip that holds the work of at most two blocks (`blockindex.go:98`). |
| `MCReorg.cfg` (`MCBlockChain`) | `ReorganizeKeepsTip` | `chain.go:817`: the check phase "catches these issues before ever modifying the chain". The lock is released around each notification (`chain.go:692`, `:587`); another caller moves the tip there and the rest of the reorganization fails half way. |
| `MCContext.cfg` (`MCBlockChain`) | `ContextRulesEnforced` | `accept.go:73`: "The block must pass all of the validation rules which depend on the position of the block". They are skipped when the version class equals the parent's (`accept.go:54`). |
| `MCUtxoRepeat.cfg` (`MCUtxo`) | `NoUnspentOverwritten` | `validate.go:63` says duplicates of unspent transactions are refused; the check is commented out (`validate.go:113`), so a repeated coinbase replaces the first one's outputs and a disconnect then deletes them. |
| `MCDifficulty.cfg` (`MCRules`) | `AnswerFollowsRetarget` | `difficulty.go:66`, `:70`: the difficulty "for the block after the passed previous block node". The controller answers from its cache for any node of the height computed last (`forkplan9controller.go:48`); after a restart that cache is empty and the answer is 0. |
| `MCSnapshot.cfg` (`MCFFLDB`) | `SnapshotAtAPointInTime` | `dbcache.go:359`: "at a particular point in time". leveldb and the cache are read in two steps (`dbcache.go:363`, `:370`) with room for a flush between them. |
| `MCSynced.cfg` (`MCFFLDB`) | `FlushedBlocksSynced` | `blockio.go:509`, `reconcile.go:92`: block data is synced before the metadata. A full file is closed without a sync (`blockio.go:364`). |
| `MCPeerNeg.cfg` (`MCPeer`) | `HandlersNeedNegotiation` | `peer.go:1901`: "The protocol has been negotiated successfully". The outbound branch tests a variable that is never set (`peer.go:1877`). |
| `MCPeerStall.cfg` (`MCPeer`) | `OutHandlerEnds` | `peer.go:1145`: the stall handler exits "once both" handlers are done. A closed channel is readable twice (`peer.go:1144`), it leaves early and `outHandler` waits for ever. |
| `MCKeyRollback.cfg` (`MCKeyStore`) | `SyncedToNamesItsBlock` | `keystore.go:1156`: "remove anything after and return". The slice also drops the block itself (`keystore.go:1163`). |

`MCCursor.cfg` with an element in `Liberties` allows a move after which
`CursorFollowsRows` fails:

- `"turn"`: `Prev` after `Next` moves only one of the merged iterators
  (`ffldb/db.go:321`; `database/interface.go:33` "moves the cursor one
  key/value pair backward").
- `"reposition"`: `First`, `Last` and `Seek` keep the old `seekKey`, so that
  a repositioned cursor reseeks from it after a change (`treapiter.go:90`, `:236`;
  `interface.go:10-12`).
- `"seek"`: a treap `Seek` below the start of the range of the iterator ends on a row
  outside of it and the iterator is exhausted, so pending and cached nested
  buckets are passed over.
- `"readonly"` (with `Walkers = {"r"}`): `cursor.Delete` does not check that the
  transaction is writable, as its comment says it does (`ffldb/db.go:188`).

With `INVARIANT DeletedBucketIsEmpty` the same configuration shows that
`DeleteBucket` deletes without telling its iterators (`ffldb/db.go:682`) and keeps
some of the rows that the same transaction put (`interface.go:76`).

`MCKeyStore.cfg` with `INVARIANT PrivKeyIsRight` is violated in eight states. The comments
promise that "The returned clear text private key will always be a copy that may be safely
used by the caller without worrying about it being zeroed during an address lock"
(`keystore.go:2131-2132`, and `:2265-2266`, "may be used safely even during an address
lock"). `unlock` compares `a.privKeyCT` with the decrypted key (`:2147`) and
reads the field again to copy it (`:2150-2151`) without a lock. The trace unlocks the
store, begins a `PrivKey` of the root address, whose clear text `Unlock` has saved, lets the
comparison succeed, and runs `Lock`, which zeroes and drops the bytes (`:2123-2124`): the
copy is of zeroed, partly zeroed or no bytes, and `PrivKey` returns it as a key with a nil
error. `PrivKeyIsRightOrZeroed` is what remains true.

Not reproduced by a configuration, found while reading: a short read puts a script
buffer back into the shared pool twice (`wire/msgtx.go:779`, once more by
`returnScriptBuffers`); `sign.go:228` says the last push is removed before the
merge recurses, and it is not; an inbound negotiator that fails after the timeout
blocks on `negotiateErr` (`peer.go:1884`); `CreateHardForkSubsidyTx` reads a fourth
key of a list of three on the main network; `CalcBlockSubsidy` always adds the
testnet amount; `WriteIfDirty` clears the mark after the rename, under a second lock,
so that a mark set in between is lost and the change is not saved by the next call
(`keystore.go:767-772`), and replaces the error of a failed write or sync by
that of `Close`, so that it returns nil with nothing saved; an error of `rand.Read`
(`keystore.go:2183`) ends `ChangePassphrase` with some keys under the new secret and the
others under the old one; `BlockByHash` loses the error of a failed read
(`chainio.go:1249-1255`), so that `ProcessBlock` returns a nil error for a block it has not
looked at; `ChangePassphrase` stops part way at the first
address that fails; a watching-only export that holds a script cannot be
opened again; the stxo path for a zero height looks the spending transaction up
instead of the spent one; `GetSigOpCost` drops an error.

## 6. Abstractions to know

- `NextBlockPossible` asks for a positive target only on chains on which time
  advances: with equal timestamps the Plan 9 average is zero.
- `TemplatesConnect` is stated without checkpoints and suspended addresses; the
  shipped lists are empty, and the template path does not look at the second.
- `SidesAgree` leaves out the asymmetries the code has on purpose or by history:
  the limit of `cfcheckpt` is only checked when reading, an empty alert payload is
  read and never written, an oversized header is not skipped, the relay flag of a
  version message is read under every protocol version.
- `FileRoundTrips` excludes the watching-only file with a script (above). Files
  of an older version can be read, but never be unlocked.
- `ImplementsUtxoSet` is checked on trees without repeated transactions (see
  `MCUtxoRepeat.cfg`). Entries written by an old release, with no height in the
  journal, are not generated.
- `Treap` does not claim heap order: deletion moves up the child with the higher
  priority although insertion keeps a min-heap; order of keys, counts and sizes hold.
- `StoredRowsDeleted` speaks of rows stored before the transaction only.
- `Templates`: redeem scripts are no script hashes themselves; one key is in one
  form (in two forms a merge loses a signature); signing that panics in the
  code (an unparsable key, an empty signature script of a script hash) is not
  called.
- `KeyStore`: the random source of `changeEncryptionKey` does not fail (section 5).
  `keyGenerator` and `addrMap[root]`, two copies in a watching-only export, are one record,
  and the program goes on with the exported store and may save it, as a caller that
  gives it a path would. Nothing is claimed about the dirty mark.
- `Peer`: `QueueInventory` is one step from its checks to the send. Of the deadlines the
  ones of `getdata` and `getheaders` are kept, and callers queue no version, `mempool` or
  `getblocks` message, which have deadlines too; no answer comes before its request is written. A
  tick between an answer and its arrival at the stall handler disconnects, in the code
  and in the model.
- `Rules`: the `workSum` field of the tip is the work of the tip with or without that of its
  parent, whichever; which of the two it is depends on what was made on top of it,
  which `BlockChain` follows and `Rules` does not.
- `Script`: `NewEngine` is called with an input of the transaction and with scripts that
  parse and keep the size limit. `removeOpcodeByData` drops pushes equal to the
  signature, where the code drops those that contain it.
- Crashes are crashes of the process. What a power failure may take is asked by
  `FlushedBlocksSynced` only.
- `ffldb` snapshots are two steps in `FFLDB` and one in `Cursor`.

## 7. Not modelled, and the plan

Out of reach or without behaviour: curve arithmetic and hashes, base58 and address
encodings, hierarchical derivation, option and parameter tables, rpc types, log
messages. Dead in this commit: the orphan pool, threshold states and version
bits, witness code, `forkplan9helpers.go`, `expdecay.go`. Left out by choice:
the index migration, bulk and region reads, the lock of `Close`, the limit of
the mru maps, the duplicate filters of the requests, the time source, interrupt
handlers and run units, the bbolt wrappers.

Next, in order:

1. `Utxo.JournalUndoesTip` with its folds unfolded by hand.
2. `Wire.OffsetsMatchBytes` for transactions.

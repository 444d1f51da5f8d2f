------------------------------- MODULE FFLDB --------------------------------
(***************************************************************************)
(* The database of pkg/database/ffldb: transactions over a leveldb store   *)
(* with a write-back cache in front of it (db.go, dbcache.go), and blocks  *)
(* in append-only flat files beside it (blockio.go, reconcile.go).  One    *)
(* write transaction runs at a time, readers run beside it on snapshots,   *)
(* every file or leveldb operation may fail, and the process may die.      *)
(*                                                                         *)
(* Keys and values are model values.  A block record takes two cells of a  *)
(* file, so that a write can stop half way.  leveldb itself is external:   *)
(* one of its transactions happens at once and is durable, or fails.       *)
(***************************************************************************)
EXTENDS Integers, Sequences, FiniteSets, SequencesExt

CONSTANTS
  None,          \* no value, no holder
  Keys,          \* metadata keys that transactions put and delete
  Values,
  Blocks,        \* blocks that transactions store
  Workers,       \* goroutines that run transactions
  MaxFileSize,   \* maxBlockFileSize, in cells
  MaxCommits,    \* bound on committed transactions in a behaviour
  MaxFailures,   \* bound on failed file and leveldb operations
  MaxCrashes     \* bound on crashes

WriteLoc == "writeloc"   \* writeLocKeyName: the write cursor row
BlockLen == 2            \* cells of a block record

Rows == Keys \cup Blocks \cup {WriteLoc}
Positions == [file : Nat, off : 0..MaxFileSize]

ASSUME ConstantAssumption ==
  /\ Keys \cap Blocks = {}
  /\ None \notin Positions
  /\ {None, WriteLoc} \cap (Keys \cup Blocks \cup Values \cup Workers) = {}
  /\ MaxFileSize \in Nat /\ MaxFileSize >= BlockLen
  /\ {MaxCommits, MaxFailures, MaxCrashes} \subseteq Nat

VARIABLES
  (* per goroutine: its transaction *)
  pc,             \* "idle" when it has none
  snap,           \* dbCacheSnapshot: what leveldb and the cache held
  pendingKeys,    \* row -> value to write, None when there is none
  pendingRemove,  \* rows to delete
  pendingBlocks,  \* blocks to write on commit, in order
  old,            \* write position saved by writePendingAndCommit
  (* shared *)
  writeLock,      \* holder of writeLock, or None
  closed,         \* db.closed
  cachedKeys,
  cachedRemove,
  wc,             \* write cursor: file number, offset, is the file open
  (* persistent *)
  ldb,            \* rows in leveldb
  files,          \* file number -> cells
  durable,        \* file number -> number of leading cells that were synced
  (* what the properties remember, and the budgets *)
  history,        \* the committed states, oldest first
  failures,
  crashes

txVars   == <<pc, snap, pendingKeys, pendingRemove, pendingBlocks, old>>
fileVars == <<wc, files, durable>>
vars     == <<txVars, writeLock, closed, cachedKeys, cachedRemove, ldb, fileVars, history, failures, crashes>>

-----------------------------------------------------------------------------
(* Rows, layers and views.                                                 *)

Empty == [r \in Rows |-> None]
NoSnap == [ldb |-> Empty, keys |-> Empty, remove |-> {}]

(* What is seen through a layer of rows to write and rows to delete.       *)
Overlay(base, keys, remove) ==
  [r \in Rows |-> IF r \in remove THEN None ELSE IF keys[r] # None THEN keys[r] ELSE base[r]]

(* dbCacheSnapshot.Get, for every row at once.                             *)
View(s) == Overlay(s.ldb, s.keys, s.remove)

(* The state of the database that the next snapshot should show.           *)
Committed == Overlay(ldb, cachedKeys, cachedRemove)

(* fetchKey: the pending state of the transaction first.                   *)
TxView(w) == Overlay(View(snap[w]), pendingKeys[w], pendingRemove[w])

Fail == failures < MaxFailures /\ failures' = failures + 1
Goto(w, label) == pc' = [pc EXCEPT ![w] = label]

-----------------------------------------------------------------------------
(* Transactions.                                                           *)

(* transaction.close: all pending data is dropped, the locks are released. *)
Close(w) ==
  /\ Goto(w, "idle")
  /\ snap' = [snap EXCEPT ![w] = NoSnap]
  /\ pendingKeys' = [pendingKeys EXCEPT ![w] = Empty]
  /\ pendingRemove' = [pendingRemove EXCEPT ![w] = {}]
  /\ pendingBlocks' = [pendingBlocks EXCEPT ![w] = <<>>]
  /\ old' = [old EXCEPT ![w] = [file |-> 0, off |-> 0]]
  /\ writeLock' = IF writeLock = w THEN None ELSE writeLock

(* begin, up to the leveldb half of Snapshot.  A transaction that is open  *)
(* holds closeLock for reading, so pc tells who keeps Close out.           *)
Begin(w, writable) ==
  /\ pc[w] = "idle"
  /\ ~closed
  /\ writable => writeLock = None
  /\ writeLock' = IF writable THEN w ELSE writeLock
  /\ snap' = [snap EXCEPT ![w] = [ldb |-> ldb, keys |-> Empty, remove |-> {}]]
  /\ Goto(w, "snapshot")
  /\ UNCHANGED <<pendingKeys, pendingRemove, pendingBlocks, old, closed, cachedKeys, cachedRemove,
                 ldb, fileVars, history, failures, crashes>>

(* The cache half of Snapshot, under cacheLock.                            *)
SnapshotCache(w) ==
  /\ pc[w] = "snapshot"
  /\ snap' = [snap EXCEPT ![w] = [ldb |-> @.ldb, keys |-> cachedKeys, remove |-> cachedRemove]]
  /\ Goto(w, "open")
  /\ UNCHANGED <<pendingKeys, pendingRemove, pendingBlocks, old, writeLock, closed, cachedKeys,
                 cachedRemove, ldb, fileVars, history, failures, crashes>>

Writable(w) == pc[w] = "open" /\ writeLock = w

PutKey(w, r, v) ==
  /\ pendingRemove' = [pendingRemove EXCEPT ![w] = @ \ {r}]
  /\ pendingKeys' = [pendingKeys EXCEPT ![w] = [@ EXCEPT ![r] = v]]

Put(w, k, v) ==
  /\ Writable(w)
  /\ PutKey(w, k, v)
  /\ UNCHANGED <<pc, snap, pendingBlocks, old, writeLock, closed, cachedKeys, cachedRemove,
                 ldb, fileVars, history, failures, crashes>>

Delete(w, k) ==
  /\ Writable(w)
  /\ pendingKeys' = [pendingKeys EXCEPT ![w] = [@ EXCEPT ![k] = None]]
  /\ pendingRemove' = [pendingRemove EXCEPT ![w] = @ \cup {k}]
  /\ UNCHANGED <<pc, snap, pendingBlocks, old, writeLock, closed, cachedKeys, cachedRemove,
                 ldb, fileVars, history, failures, crashes>>

HasBlock(w, b) == b \in ToSet(pendingBlocks[w]) \/ TxView(w)[b] # None

(* StoreBlock refuses a block that exists for this transaction.            *)
StoreBlock(w, b) ==
  /\ Writable(w)
  /\ ~HasBlock(w, b)
  /\ pendingBlocks' = [pendingBlocks EXCEPT ![w] = Append(@, b)]
  /\ UNCHANGED <<pc, snap, pendingKeys, pendingRemove, old, writeLock, closed, cachedKeys,
                 cachedRemove, ldb, fileVars, history, failures, crashes>>

(* Rollback, which also ends every read transaction.                       *)
Rollback(w) ==
  /\ pc[w] = "open"
  /\ Close(w)
  /\ UNCHANGED <<closed, cachedKeys, cachedRemove, ldb, fileVars, history, failures, crashes>>

(* Mutant: the position is taken at the start of the file.                 *)
CommitMutant(w) ==
  /\ Writable(w)
  /\ Len(history) <= MaxCommits
  /\ old' = [old EXCEPT ![w] = [file |-> wc.file, off |-> 0]]
  /\ Goto(w, "write")
  /\ UNCHANGED <<snap, pendingKeys, pendingRemove, pendingBlocks, writeLock, closed, cachedKeys,
                 cachedRemove, ldb, fileVars, history, failures, crashes>>

(* Commit saves the write position for a rollback of the files.            *)
Commit(w) ==
  /\ Writable(w)
  /\ Len(history) <= MaxCommits
  /\ old' = [old EXCEPT ![w] = [file |-> wc.file, off |-> wc.off]]
  /\ Goto(w, "write")
  /\ UNCHANGED <<snap, pendingKeys, pendingRemove, pendingBlocks, writeLock, closed, cachedKeys,
                 cachedRemove, ldb, fileVars, history, failures, crashes>>

-----------------------------------------------------------------------------
(* Block files.                                                            *)

Record(b) == [i \in 1..BlockLen |-> <<b, i>>]

WriteAt(cells, off, data) ==
  SubSeq(cells, 1, off) \o data \o SubSeq(cells, off + Len(data) + 1, Len(cells))

(* Where writeBlock writes: in the next file when this one would overflow. *)
NextPosition ==
  IF wc.off + BlockLen > MaxFileSize
    THEN [file |-> wc.file + 1, off |-> 0]
    ELSE [file |-> wc.file, off |-> wc.off]

(* Put f to the function files or durable, which may not have it yet.      *)
With(fn, f, value) == [n \in DOMAIN fn \cup {f} |-> IF n = f THEN value ELSE fn[n]]

Content(f) == IF f \in DOMAIN files THEN files[f] ELSE <<>>
DurableLen(f) == IF f \in DOMAIN durable THEN durable[f] ELSE 0

(* Of the synced cells, those before position p.                           *)
DurableBelow(p) == IF DurableLen(p.file) < p.off THEN DurableLen(p.file) ELSE p.off

(* The first n cells of the record of b reach the file at position p.      *)
WriteData(p, b, n) ==
  /\ files' = With(files, p.file, WriteAt(Content(p.file), p.off, SubSeq(Record(b), 1, n)))
  /\ durable' = With(durable, p.file, DurableBelow(p))
  /\ wc' = [file |-> p.file, off |-> p.off + n, open |-> TRUE]

(* writeBlock, then the block index row.                                   *)
WriteBlock(w) ==
  LET b == Head(pendingBlocks[w])
      p == NextPosition
  IN
  /\ pc[w] = "write"
  /\ pendingBlocks[w] # <<>>
  /\ WriteData(p, b, BlockLen)
  /\ PutKey(w, b, p)
  /\ pendingBlocks' = [pendingBlocks EXCEPT ![w] = Tail(@)]
  /\ UNCHANGED <<pc, snap, old, writeLock, closed, cachedKeys, cachedRemove, ldb, history, failures, crashes>>

(* writeBlock fails: the next file cannot be opened, or the write stops    *)
(* before the record is complete.                                          *)
WriteBlockFails(w) ==
  LET b == Head(pendingBlocks[w])
      p == NextPosition
  IN
  /\ pc[w] = "write"
  /\ pendingBlocks[w] # <<>>
  /\ Fail
  /\ \/ /\ p.file # wc.file \/ ~wc.open
        /\ wc' = [file |-> p.file, off |-> p.off, open |-> FALSE]
        /\ UNCHANGED <<files, durable>>
     \/ \E n \in 0..(BlockLen - 1) : WriteData(p, b, n)
  /\ Goto(w, "undo")
  /\ UNCHANGED <<snap, pendingKeys, pendingRemove, pendingBlocks, old, writeLock, closed,
                 cachedKeys, cachedRemove, ldb, history, crashes>>

(* handleRollback from cursor c to position p: the newer files are deleted *)
(* from the last one down, the file of p is opened if needed, truncated    *)
(* and synced.  A file that is not there cannot be deleted, which ends the *)
(* work as any failure does.  The cursor always ends at p.                 *)
Newer(c, p) == (p.file + 1)..c.file

Unlinked(fn, S) == [n \in DOMAIN fn \ S |-> fn[n]]

RollbackTo(c, p) ==
  IF c.file = p.file /\ c.off = p.off
    THEN UNCHANGED <<files, durable, wc, failures>>
    ELSE \/ (* everything succeeds *)
            /\ Newer(c, p) \subseteq DOMAIN files
            /\ files' = With(Unlinked(files, Newer(c, p)), p.file, SubSeq(Content(p.file), 1, p.off))
            /\ durable' = With(Unlinked(durable, Newer(c, p)), p.file, p.off)
            /\ wc' = [file |-> p.file, off |-> p.off, open |-> TRUE]
            /\ UNCHANGED failures
         \/ (* file f cannot be deleted *)
            \E f \in Newer(c, p) :
              /\ Newer(c, p) \ 0..f \subseteq DOMAIN files
              /\ IF f \in DOMAIN files THEN Fail ELSE UNCHANGED failures
              /\ files' = Unlinked(files, Newer(c, p) \ 0..f)
              /\ durable' = Unlinked(durable, Newer(c, p) \ 0..f)
              /\ wc' = [file |-> p.file, off |-> p.off, open |-> FALSE]
         \/ (* the file of p cannot be opened, truncated or synced *)
            /\ Newer(c, p) \subseteq DOMAIN files
            /\ Fail
            /\ \E open \in BOOLEAN, cells \in {Content(p.file), SubSeq(Content(p.file), 1, p.off)} :
                 /\ ~open => c.file > p.file \/ ~c.open
                 /\ files' = IF open THEN With(Unlinked(files, Newer(c, p)), p.file, cells)
                             ELSE Unlinked(files, Newer(c, p))
                 /\ wc' = [file |-> p.file, off |-> p.off, open |-> open]
                 /\ durable' = IF open THEN With(Unlinked(durable, Newer(c, p)), p.file, DurableBelow(p))
                               ELSE Unlinked(durable, Newer(c, p))

(* The rollback after a failed write; the transaction then closes.         *)
UndoWrites(w) ==
  /\ pc[w] = "undo"
  /\ RollbackTo(wc, old[w])
  /\ Close(w)
  /\ UNCHANGED <<closed, cachedKeys, cachedRemove, ldb, history, crashes>>

-----------------------------------------------------------------------------
(* dbCache.                                                                *)

(* All blocks are written: the cursor row is added, and needsFlush decides *)
(* from age and size, which are not modelled, between the cache and the    *)
(* disk.                                                                   *)
StoreCursor(w) ==
  /\ pc[w] = "write"
  /\ pendingBlocks[w] = <<>>
  /\ PutKey(w, WriteLoc, [file |-> wc.file, off |-> wc.off])
  /\ \E label \in {"cache", "sync"} : Goto(w, label)
  /\ UNCHANGED <<snap, pendingBlocks, old, writeLock, closed, cachedKeys, cachedRemove, ldb,
                 fileVars, history, failures, crashes>>

(* Mutant: a key that is put again stays in cachedRemove.                  *)
CacheRemoveMutant(keys, remove) == cachedRemove \cup remove

(* The cached removals after the transaction is applied.                   *)
CacheRemove(keys, remove) ==
  (cachedRemove \ {r \in Rows : keys[r] # None}) \cup remove

CacheKeys(keys, remove) ==
  [r \in Rows |-> IF r \in remove THEN None ELSE IF keys[r] # None THEN keys[r] ELSE cachedKeys[r]]

(* commitTx into the cache: both treaps are replaced under cacheLock.      *)
CommitToCache(w) ==
  /\ pc[w] = "cache"
  /\ cachedKeys' = CacheKeys(pendingKeys[w], pendingRemove[w])
  /\ cachedRemove' = CacheRemove(pendingKeys[w], pendingRemove[w])
  /\ history' = Append(history, Overlay(Committed, pendingKeys[w], pendingRemove[w]))
  /\ Close(w)
  /\ UNCHANGED <<closed, ldb, fileVars, failures, crashes>>

(* syncBlocks: the file of the write cursor only, when it is open.         *)
SyncBlocks == durable' = IF wc.open THEN With(durable, wc.file, Len(Content(wc.file))) ELSE durable

FlushSync(w) ==
  /\ pc[w] = "sync"
  /\ SyncBlocks
  /\ Goto(w, IF cachedKeys = Empty /\ cachedRemove = {} THEN "direct" ELSE "flush")
  /\ UNCHANGED <<snap, pendingKeys, pendingRemove, pendingBlocks, old, writeLock, closed,
                 cachedKeys, cachedRemove, ldb, wc, files, history, failures, crashes>>

(* commitTreaps: one leveldb transaction.                                  *)
CommitTreaps(keys, remove) == Overlay(ldb, keys, remove)

FlushCache(w) ==
  /\ pc[w] = "flush"
  /\ ldb' = CommitTreaps(cachedKeys, cachedRemove)
  /\ Goto(w, "clear")
  /\ UNCHANGED <<snap, pendingKeys, pendingRemove, pendingBlocks, old, writeLock, closed,
                 cachedKeys, cachedRemove, fileVars, history, failures, crashes>>

ClearCache(w) ==
  /\ pc[w] = "clear"
  /\ cachedKeys' = Empty
  /\ cachedRemove' = {}
  /\ Goto(w, "direct")
  /\ UNCHANGED <<snap, pendingKeys, pendingRemove, pendingBlocks, old, writeLock, closed, ldb,
                 fileVars, history, failures, crashes>>

(* After the flush the transaction itself goes straight to leveldb.        *)
CommitDirect(w) ==
  /\ pc[w] = "direct"
  /\ ldb' = CommitTreaps(pendingKeys[w], pendingRemove[w])
  /\ history' = Append(history, Overlay(Committed, pendingKeys[w], pendingRemove[w]))
  /\ Close(w)
  /\ UNCHANGED <<closed, cachedKeys, cachedRemove, fileVars, failures, crashes>>

(* A sync or a leveldb transaction fails: Commit returns the error.  The   *)
(* blocks that were written stay in the files.                             *)
CommitFails(w) ==
  /\ \/ pc[w] = "sync" /\ wc.open
     \/ pc[w] \in {"flush", "direct"}
  /\ Fail
  /\ Close(w)
  /\ UNCHANGED <<closed, cachedKeys, cachedRemove, ldb, fileVars, history, crashes>>

-----------------------------------------------------------------------------
(* Close, crash and open.                                                  *)

(* db.Close waits for every transaction, flushes, and closes the files     *)
(* even when the flush fails.                                              *)
CloseDb ==
  /\ ~closed
  /\ \A w \in Workers : pc[w] = "idle"
  /\ closed' = TRUE
  /\ \/ /\ SyncBlocks
        /\ ldb' = CommitTreaps(cachedKeys, cachedRemove)
        /\ UNCHANGED failures
     \/ /\ Fail
        /\ SyncBlocks \/ UNCHANGED durable
        /\ UNCHANGED ldb
  /\ cachedKeys' = Empty
  /\ cachedRemove' = {}
  /\ wc' = [file |-> wc.file, off |-> wc.off, open |-> FALSE]
  /\ UNCHANGED <<txVars, writeLock, files, history, crashes>>

(* scanBlockFiles: the end of the last file before the first gap.          *)
ScanPosition ==
  LET n == CHOOSE n \in 0..(Cardinality(DOMAIN files)) :
             n \notin DOMAIN files /\ \A m \in 0..(n - 1) : m \in DOMAIN files
  IN  IF n = 0 THEN [file |-> 0, off |-> 0, open |-> FALSE]
      ELSE [file |-> n - 1, off |-> Len(files[n - 1]), open |-> FALSE]

After(p, q) == p.file > q.file \/ (p.file = q.file /\ p.off > q.off)

(* openDB on what is on disk: newBlockStore and reconcileDB.               *)
Open ==
  /\ ~After(ldb[WriteLoc], ScanPosition)
  /\ IF After(ScanPosition, ldb[WriteLoc])
       THEN RollbackTo(ScanPosition, ldb[WriteLoc])
       ELSE wc' = ScanPosition /\ UNCHANGED <<files, durable, failures>>
  /\ closed' = FALSE
  /\ pc' = [w \in Workers |-> "idle"]
  /\ snap' = [w \in Workers |-> NoSnap]
  /\ pendingKeys' = [w \in Workers |-> Empty]
  /\ pendingRemove' = [w \in Workers |-> {}]
  /\ pendingBlocks' = [w \in Workers |-> <<>>]
  /\ old' = [w \in Workers |-> [file |-> 0, off |-> 0]]
  /\ writeLock' = None
  /\ cachedKeys' = Empty
  /\ cachedRemove' = {}
  /\ UNCHANGED <<ldb, history>>

Reopen == closed /\ Open /\ UNCHANGED crashes

(* The process dies at any point and the database is opened again.         *)
CrashAndOpen == crashes < MaxCrashes /\ crashes' = crashes + 1 /\ Open

-----------------------------------------------------------------------------
(* initDB, and an empty directory of block files.                          *)
InitialRows == [Empty EXCEPT ![WriteLoc] = [file |-> 0, off |-> 0]]

Init ==
  /\ pc = [w \in Workers |-> "idle"]
  /\ snap = [w \in Workers |-> NoSnap]
  /\ pendingKeys = [w \in Workers |-> Empty]
  /\ pendingRemove = [w \in Workers |-> {}]
  /\ pendingBlocks = [w \in Workers |-> <<>>]
  /\ old = [w \in Workers |-> [file |-> 0, off |-> 0]]
  /\ writeLock = None
  /\ closed = FALSE
  /\ cachedKeys = Empty
  /\ cachedRemove = {}
  /\ wc = [file |-> 0, off |-> 0, open |-> FALSE]
  /\ ldb = InitialRows
  /\ files = [f \in {} |-> <<>>]
  /\ durable = [f \in {} |-> 0]
  /\ history = <<InitialRows>>
  /\ failures = 0
  /\ crashes = 0

Next ==
  \/ \E w \in Workers :
       \/ \E writable \in BOOLEAN : Begin(w, writable)
       \/ SnapshotCache(w)
       \/ \E k \in Keys, v \in Values : Put(w, k, v)
       \/ \E k \in Keys : Delete(w, k)
       \/ \E b \in Blocks : StoreBlock(w, b)
       \/ Rollback(w)
       \/ Commit(w)
       \/ WriteBlock(w)
       \/ WriteBlockFails(w)
       \/ UndoWrites(w)
       \/ StoreCursor(w)
       \/ CommitToCache(w)
       \/ FlushSync(w)
       \/ FlushCache(w)
       \/ ClearCache(w)
       \/ CommitDirect(w)
       \/ CommitFails(w)
  \/ CloseDb
  \/ Reopen
  \/ CrashAndOpen

Spec == Init /\ [][Next]_vars
-----------------------------------------------------------------------------
(* Properties.                                                             *)

RowValues == Values \cup Positions \cup {None}

Labels == {"idle", "snapshot", "open", "write", "undo", "cache", "sync", "flush", "clear", "direct"}

(* Types of the variables; no block file grows past maxBlockFileSize.      *)
TypeOK ==
  /\ pc \in [Workers -> Labels]
  /\ snap \in [Workers -> [ldb : [Rows -> RowValues], keys : [Rows -> RowValues], remove : SUBSET Rows]]
  /\ pendingKeys \in [Workers -> [Rows -> RowValues]]
  /\ pendingRemove \in [Workers -> SUBSET Rows]
  /\ pendingBlocks \in [Workers -> Seq(Blocks)]
  /\ old \in [Workers -> Positions]
  /\ writeLock \in Workers \cup {None}
  /\ closed \in BOOLEAN
  /\ cachedKeys \in [Rows -> RowValues]
  /\ cachedRemove \in SUBSET Rows
  /\ wc \in [file : Nat, off : 0..MaxFileSize, open : BOOLEAN]
  /\ ldb \in [Rows -> RowValues]
  /\ \A f \in DOMAIN files : f \in Nat /\ Len(files[f]) <= MaxFileSize
  /\ \A f \in DOMAIN durable : f \in DOMAIN files /\ durable[f] \in 0..Len(files[f])
  /\ failures \in 0..MaxFailures
  /\ crashes \in 0..MaxCrashes

(* A write transaction reads the last committed state until it commits,    *)
(* although its snapshot is taken in two halves and kept while others run. *)
WriterSeesCommitted ==
  \A w \in Workers :
    writeLock = w /\ pc[w] \notin {"idle", "snapshot"} => View(snap[w]) = Committed

(* The committed contents change only when a transaction commits, and then *)
(* by all of its writes and removals at once; flushing, clearing the cache *)
(* and failing leave them as they are.                                     *)
CommitIsAtomic ==
  [][crashes' = crashes /\ ~closed' =>
       \/ Committed' = Committed
       \/ \E w \in Workers :
            writeLock = w /\ pc'[w] = "idle" /\ Committed' = Overlay(View(snap[w]), pendingKeys[w], pendingRemove[w])]_vars

(* What leveldb holds, hence what a crash falls back to, is at every step  *)
(* of a flush a state that was committed, never a part of one.             *)
LevelDbIsCommitted == ldb \in ToSet(history)

Holds(row, b) ==
  /\ row.file \in DOMAIN files
  /\ row.off + BlockLen <= Len(files[row.file])
  /\ SubSeq(files[row.file], row.off + 1, row.off + BlockLen) = Record(b)

(* Every block row in leveldb, in the cache or in a snapshot points at the *)
(* complete record of that block, whatever writes failed, were rolled back *)
(* only in part, or were cut off by a crash.                               *)
BlocksReadable ==
  \A rows \in {ldb, Committed} \cup {View(snap[w]) : w \in {x \in Workers : pc[x] # "idle"}} :
    \A b \in Blocks : rows[b] # None => Holds(rows[b], b)

(* The block files reach at least as far as leveldb says, so that after a  *)
(* crash reconcileDB never reports corruption.                             *)
OpenSucceeds == ~After(ldb[WriteLoc], ScanPosition)

(* At every step of commits, flushes, failed writes and crashes leveldb,   *)
(* the cache and the block files fit together: writers read the committed  *)
(* state, leveldb holds one, its block rows can be read, and the database  *)
(* opens again.                                                            *)
StoreIsConsistent ==
  TypeOK /\ WriterSeesCommitted /\ LevelDbIsCommitted /\ BlocksReadable /\ OpenSucceeds

(* What the open write transaction sees; the snapshot of one that just     *)
(* began is not complete yet, and nobody reads it.                         *)
WriterView ==
  IF writeLock = None THEN Committed
  ELSE IF pc[writeLock] = "snapshot" THEN Committed
  ELSE TxView(writeLock)

Promise == INSTANCE TxStore WITH rows <- Committed, disk <- ldb, holder <- writeLock,
                                 view <- WriterView, Initial <- InitialRows

(* Two-part snapshots, pending rows, two cached layers, flushes in the     *)
(* middle of a commit, failed writes, failed rollbacks and recovery        *)
(* together behave like a store with atomic transactions: a writer reads   *)
(* the committed rows and its own writes, its commit replaces them all at  *)
(* once, and a crash falls back to the committed rows that were flushed    *)
(* last (database.Tx).                                                     *)
ImplementsTxStore == Promise!Spec

(* dbcache.go:361: a snapshot shows the database at a particular point in  *)
(* time, that is, a state that was committed.                              *)
SnapshotAtAPointInTime ==
  \A w \in Workers : pc[w] = "open" => View(snap[w]) \in ToSet(history)

(* blockio.go:509: block data is synced before the metadata that refers to *)
(* it is written to leveldb.                                               *)
FlushedBlocksSynced ==
  \A b \in Blocks : ldb[b] # None => ldb[b].off + BlockLen <= DurableLen(ldb[b].file)
=============================================================================

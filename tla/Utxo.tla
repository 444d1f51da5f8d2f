-------------------------------- MODULE Utxo --------------------------------
(***************************************************************************)
(* The unspent output set (pkg/blockchain: utxoviewpoint.go, the utxo and  *)
(* spend journal parts of chainio.go, the part of validate.go that works   *)
(* on a view, and what connectBestChain and reorganizeChain do with        *)
(* views).  BlockChain models the index, the best state and their          *)
(* persistence; here the chain is a sequence of blocks and the rows of the *)
(* database are their serialized bytes.                                    *)
(*                                                                         *)
(* The chain lock is given up while a block (dis)connected by a            *)
(* reorganization is announced, so the steps of a reorganization are       *)
(* separate actions and several callers interleave.  Which side chain has  *)
(* more work is left open: any side block may start a reorganization.      *)
(***************************************************************************)
EXTENDS Compress, FiniteSetsExt, TLC

CONSTANTS
  Tx,                \* tx hash -> [in : inputs [prev, redeem], out : outputs [amount, script]]
  Block,             \* block hash -> [prev, txs], the first transaction the coinbase
  Genesis,
  Subsidy, CoinbaseMaturity, MaxSatoshi, MaxBlockSigOps,
  BadScripts, CheckpointHeight,
  Callers,           \* goroutines that call ProcessBlock
  MaxBlocks          \* bound on the blocks that are submitted

ASSUME UtxoAssumption ==
  /\ Genesis \notin DOMAIN Block
  /\ \A b \in DOMAIN Block :
       /\ Block[b].prev \in DOMAIN Block \cup {Genesis}
       /\ Tx[Block[b].txs[1]].in = <<>>
       /\ \A i \in 2..Len(Block[b].txs) : Tx[Block[b].txs[i]].in # <<>>

VARIABLES
  chain,     \* BestChain: the blocks behind the genesis block
  utxo,      \* the utxo bucket: outpoint -> bytes
  journal,   \* the spend journal bucket: block -> bytes
  index,     \* blocks in the index
  valid,     \* blocks known valid
  bad,       \* blocks known invalid (failed, or an ancestor failed)
  job        \* caller -> its reorganization

vars == <<chain, utxo, journal, index, valid, bad, job>>

Idle == [pc |-> "idle"]

-----------------------------------------------------------------------------
(* Blocks and transactions.                                                *)

Height == [b \in DOMAIN Block \cup {Genesis} |->
  LET h[k \in DOMAIN Block \cup {Genesis}] == IF k = Genesis THEN 0 ELSE h[Block[k].prev] + 1
  IN h[b]]

Tip == IF chain = <<>> THEN Genesis ELSE Last(chain)
IsCoinBase(t) == Tx[t].in = <<>>
IsUnspendable(script) == script.t \in {"return", "broken"}
countSpentOutputs(b) == FoldLeft(LAMBDA n, t : n + Len(Tx[t].in), 0, Tail(Block[b].txs))

-----------------------------------------------------------------------------
(* Rows.  The header code is the height with the coinbase flag below it.   *)

headerCode(height, cb) == 2 * height + (IF cb THEN 1 ELSE 0)

spentTxOutHeaderCode(s) == headerCode(s.height, s.cb)
utxoEntryHeaderCode(e) == headerCode(e.height, e.cb)

spentTxOutSerializeSize(s) ==
  serializeSizeVLQ(spentTxOutHeaderCode(s))
  + (IF s.height > 0 THEN serializeSizeVLQ(0) ELSE 0)
  + compressedTxOutSize(s.amount, s.script)

putSpentTxOut(s) ==
  putVLQ(spentTxOutHeaderCode(s))
  \o (IF s.height > 0 THEN putVLQ(0) ELSE <<>>)
  \o putCompressedTxOut(s.amount, s.script)

(* The cells of one spent output, and the output: a height of zero is the  *)
(* old format, without the reserved number.                                *)
Reserved(cells) == IF cells[1][2] \div 2 > 0 THEN 1 ELSE 0
StxoCells(cells) == 1 + Reserved(cells) + TxOutCells(SubSeq(cells, 2 + Reserved(cells), Len(cells)))

decodeSpentTxOut(cells) ==
  decodeCompressedTxOut(SubSeq(cells, 2 + Reserved(cells), Len(cells)))
  @@ [height |-> cells[1][2] \div 2, cb |-> cells[1][2] % 2 = 1]

(* Written in the reverse of the order in which they were spent.           *)
serializeSpendJournalEntry(stxos) == FlattenSeq([i \in DOMAIN stxos |-> putSpentTxOut(Reverse(stxos)[i])])

deserializeSpendJournalEntry(cells, b) ==
  LET n == countSpentOutputs(b)
      read(s, i) == IF s.in = <<>> THEN [s EXCEPT !.err = TRUE]
                    ELSE [s EXCEPT !.in = SubSeq(@, StxoCells(@) + 1, Len(@)),
                                   !.out = <<decodeSpentTxOut(s.in)>> \o @]
  IN FoldLeft(read, [err |-> FALSE, in |-> cells, out |-> <<>>], [i \in 1..n |-> i])

serializeUtxoEntry(e) == putVLQ(utxoEntryHeaderCode(e)) \o putCompressedTxOut(e.amount, e.script)

Nil == [nil |-> TRUE]
NewEntry(amount, script, height, cb, mod) ==
  [nil |-> FALSE, amount |-> amount, script |-> script, height |-> height, cb |-> cb,
   spent |-> FALSE, mod |-> mod]

deserializeUtxoEntry(cells) ==
  LET o == decodeCompressedTxOut(Tail(cells))
  IN NewEntry(o.amount, o.script, cells[1][2] \div 2, cells[1][2] % 2 = 1, FALSE)

dbFetchUtxoEntry(db, p) == IF p \in DOMAIN db THEN deserializeUtxoEntry(db[p]) ELSE Nil

(* The cursor seeks the key of output 0: the smallest key of the hash.     *)
dbFetchUtxoEntryByHash(db, t) ==
  LET ps == {p \in DOMAIN db : p[1] = t}
  IN IF ps = {} THEN Nil
     ELSE dbFetchUtxoEntry(db, CHOOSE p \in ps : \A q \in ps : p[2] <= q[2])

(* Only modified entries reach the database.                               *)
dbPutUtxoView(db, v) ==
  LET gone == {p \in DOMAIN v : ~v[p].nil /\ v[p].mod /\ v[p].spent}
      put == {p \in DOMAIN v : ~v[p].nil /\ v[p].mod /\ ~v[p].spent}
  IN [p \in put |-> serializeUtxoEntry(v[p])] @@ [p \in DOMAIN db \ gone |-> db[p]]

dbPutSpendJournalEntry(j, b, stxos) == (b :> serializeSpendJournalEntry(stxos)) @@ j
dbFetchSpendJournalEntry(j, b) == deserializeSpendJournalEntry(j[b], b)
dbRemoveSpendJournalEntry(j, b) == [k \in DOMAIN j \ {b} |-> j[k]]

-----------------------------------------------------------------------------
(* Views: outpoint -> entry, or Nil where the database had none.           *)

LookupEntry(v, p) == IF p \in DOMAIN v THEN v[p] ELSE Nil

SpendMutant(e) == [e EXCEPT !.spent = TRUE]
Spend(e) == IF e.spent THEN e ELSE [e EXCEPT !.spent = TRUE, !.mod = TRUE]

addTxOut(v, p, o, cb, height) ==
  IF IsUnspendable(o.script) THEN v
  ELSE (p :> NewEntry(o.amount, o.script, height, cb, TRUE)) @@ v

AddTxOuts(v, t, height) ==
  FoldLeft(LAMBDA w, i : addTxOut(w, <<t, i>>, Tx[t].out[i], IsCoinBase(t), height),
           v, [i \in 1..Len(Tx[t].out) |-> i])

(* s = [err, view, stxos].                                                 *)
connectTransaction(s, t, height) ==
  LET spend(a, i) ==
        LET e == LookupEntry(a.view, i.prev)
        IN IF a.err # "none" THEN a
           ELSE IF e.nil THEN [a EXCEPT !.err = "assert"]
           ELSE [a EXCEPT !.stxos = Append(@, [amount |-> e.amount, script |-> e.script,
                                               height |-> e.height, cb |-> e.cb]),
                          !.view[i.prev] = Spend(e)]
      done == FoldLeft(spend, s, Tx[t].in)
  IN IF done.err # "none" THEN done ELSE [done EXCEPT !.view = AddTxOuts(@, t, height)]

State(v) == [err |-> "none", view |-> v, stxos |-> <<>>]
connectTransactions(v, b) ==
  FoldLeft(LAMBDA s, t : connectTransaction(s, t, Height[b]), State(v), Block[b].txs)

fetchEntryByHash(v, db, t) ==
  LET known == {p \in DOMAIN v : p[1] = t /\ ~v[p].nil}
  IN IF known # {} THEN v[CHOOSE p \in known : \A q \in known : p[2] <= q[2]]
     ELSE dbFetchUtxoEntryByHash(db, t)

(* s = [err, view, stxos]: the outputs of t are marked spent, then its     *)
(* inputs are restored, last first, from the end of the journal entry.  A  *)
(* height of zero is the old journal format: height and flag are then      *)
(* looked up among the outputs of the transaction.                         *)
disconnectTransaction(s, t, first, height, db) ==
  LET drop(v, i) ==
        LET p == <<t, i>>
            e == LookupEntry(v, p)
            o == Tx[t].out[i]
        IN IF IsUnspendable(o.script) THEN v
           ELSE (p :> Spend(IF e.nil THEN NewEntry(o.amount, o.script, height, first, FALSE) ELSE e)) @@ v
      restore(a, i) ==
        LET x == Last(a.stxos)
            u == fetchEntryByHash(a.view, db, t)
            r == IF x.height = 0 THEN [x EXCEPT !.height = u.height, !.cb = u.cb] ELSE x
        IN IF a.err # "none" THEN a
           ELSE IF x.height = 0 /\ u.nil THEN [a EXCEPT !.err = "assert"]
           ELSE [a EXCEPT !.stxos = Front(@),
                          !.view = (i.prev :> NewEntry(r.amount, r.script, r.height, r.cb, TRUE)) @@ @]
      dropped == [s EXCEPT !.view = FoldLeft(drop, @, [i \in 1..Len(Tx[t].out) |-> i])]
  IN IF s.err # "none" THEN s
     ELSE IF first THEN dropped
     ELSE FoldLeft(restore, dropped, Reverse(Tx[t].in))

(* The order of the transactions swapped: the first one is undone first.   *)
disconnectTransactionsMutant(v, b, stxos, db) ==
  LET ts == Block[b].txs
  IN IF Len(stxos) # countSpentOutputs(b) THEN [State(v) EXCEPT !.err = "assert"]
     ELSE FoldLeft(LAMBDA s, k : disconnectTransaction(s, ts[k], k = 1, Height[b], db),
                   [State(v) EXCEPT !.stxos = stxos], [k \in 1..Len(ts) |-> k])

disconnectTransactions(v, b, stxos, db) ==
  LET ts == Block[b].txs
  IN IF Len(stxos) # countSpentOutputs(b) THEN [State(v) EXCEPT !.err = "assert"]
     ELSE FoldLeft(LAMBDA s, k : disconnectTransaction(s, ts[k], k = 1, Height[b], db),
                   [State(v) EXCEPT !.stxos = stxos], Reverse([k \in 1..Len(ts) |-> k]))

(* Spent entries leave the view; the flag of the others is toggled.        *)
commit(v) ==
  LET kept == {p \in DOMAIN v : ~v[p].nil /\ ~(v[p].mod /\ v[p].spent)}
  IN [p \in kept |-> [v[p] EXCEPT !.mod = ~@]]

fetchUtxosMain(v, ps, db) == [p \in ps |-> dbFetchUtxoEntry(db, p)] @@ v
fetchUtxos(v, ps, db) == fetchUtxosMain(v, ps \ DOMAIN v, db)

Position(b, t) == Max({k \in DOMAIN Block[b].txs : Block[b].txs[k] = t})
InFlight(b, k, t) == t \in Range(Block[b].txs) /\ Position(b, t) < k

(* Outputs of earlier transactions of the block are added to the view, the *)
(* other inputs that it lacks are loaded.                                  *)
fetchInputUtxos(v, b, db) ==
  LET ts == Block[b].txs
      inputs == FlattenSeq([k \in 1..Len(ts) |-> [i \in DOMAIN Tx[ts[k]].in |-> <<k, Tx[ts[k]].in[i].prev>>]])
      step(s, x) ==
        IF InFlight(b, x[1], x[2][1]) THEN [s EXCEPT !.view = AddTxOuts(@, x[2][1], Height[b])]
        ELSE IF x[2] \in DOMAIN s.view THEN s
        ELSE [s EXCEPT !.need = @ \cup {x[2]}]
      all == FoldLeft(step, [view |-> v, need |-> {}], inputs)
  IN fetchUtxosMain(all.view, all.need, db)

FetchUtxoView(t, db) ==
  fetchUtxosMain(<<>>, {<<t, i>> : i \in DOMAIN Tx[t].out} \cup {Tx[t].in[i].prev : i \in DOMAIN Tx[t].in}, db)

-----------------------------------------------------------------------------
(* Validation against a view.                                              *)

(* [err, fee].                                                             *)
CheckTransactionInputs(v, t, height) ==
  LET add(a, i) ==
        LET e == LookupEntry(v, i.prev)
        IN IF a.err # "none" THEN a
           ELSE IF e.nil \/ e.spent THEN [a EXCEPT !.err = "ErrMissingTxOut"]
           ELSE IF e.cb /\ height - e.height < CoinbaseMaturity THEN [a EXCEPT !.err = "ErrImmatureSpend"]
           ELSE IF e.amount > MaxSatoshi \/ a.fee + e.amount > MaxSatoshi THEN [a EXCEPT !.err = "ErrBadTxOutValue"]
           ELSE [a EXCEPT !.fee = @ + e.amount]
      in == FoldLeft(add, [err |-> "none", fee |-> 0], Tx[t].in)
      out == FoldLeft(LAMBDA n, o : n + o.amount, 0, Tx[t].out)
  IN IF IsCoinBase(t) \/ in.err # "none" THEN in
     ELSE IF in.fee < out THEN [in EXCEPT !.err = "ErrSpendTooHigh"]
     ELSE [in EXCEPT !.fee = @ - out]

CountSigOps(t) ==
  FoldLeft(LAMBDA n, o : n + IF o.script.t \in {"pkh", "pk"} THEN 1 ELSE 0, 0, Tx[t].out)

(* -1: an input is missing.                                                *)
CountP2SHSigOps(v, t) ==
  IF IsCoinBase(t) THEN 0
  ELSE IF \E i \in DOMAIN Tx[t].in : LookupEntry(v, Tx[t].in[i].prev).nil \/ v[Tx[t].in[i].prev].spent THEN -1
  ELSE FoldLeft(LAMBDA n, i : n + IF v[i.prev].script.t = "sh" THEN i.redeem ELSE 0, 0, Tx[t].in)

(* A missing input makes the cost zero: the error is not returned.         *)
GetSigOpCost(v, t) ==
  IF CountP2SHSigOps(v, t) = -1 THEN 0 ELSE CountSigOps(t) + CountP2SHSigOps(v, t)

checkConnectBlock(v, b, db) ==
  LET ts == Block[b].txs
      loaded == fetchInputUtxos(v, b, db)
      ops == FoldLeft(LAMBDA n, t : n + GetSigOpCost(loaded, t), 0, ts)
      spend(s, t, c) ==
        IF s.err # "none" THEN s
        ELSE IF c.err # "none" THEN [s EXCEPT !.err = c.err]
        ELSE [connectTransaction(s, t, Height[b]) EXCEPT !.fees = s.fees + c.fee]
      connect(s, t) == spend(s, t, CheckTransactionInputs(s.view, t, Height[b]))
      paid == FoldLeft(LAMBDA n, o : n + o.amount, 0, Tx[ts[1]].out)
      judge(all) ==
        IF ops > MaxBlockSigOps THEN [all EXCEPT !.err = "ErrTooManySigOps"]
        ELSE IF all.err # "none" THEN all
        ELSE IF paid > Subsidy + all.fees THEN [all EXCEPT !.err = "ErrBadCoinbaseValue"]
        ELSE IF Height[b] > CheckpointHeight /\ Range(ts) \cap BadScripts # {} THEN [all EXCEPT !.err = "ErrScriptValidation"]
        ELSE all
  IN judge(FoldLeft(connect, State(loaded) @@ [fees |-> 0], ts))

-----------------------------------------------------------------------------
(* The chain.                                                              *)

(* The database transactions of connectBlock and disconnectBlock: they     *)
(* refuse a block that is not next to the tip.  w = [chain, utxo, journal, *)
(* view, err].                                                             *)
TipOf(c) == IF c = <<>> THEN Genesis ELSE Last(c)

connectBlock(w, b, s) ==
  IF s.err # "none" \/ Block[b].prev # TipOf(w.chain) \/ Len(s.stxos) # countSpentOutputs(b)
  THEN [w EXCEPT !.err = TRUE]
  ELSE [chain |-> Append(w.chain, b), utxo |-> dbPutUtxoView(w.utxo, s.view),
        journal |-> dbPutSpendJournalEntry(w.journal, b, s.stxos), view |-> commit(s.view), err |-> FALSE]

disconnectBlock(w, b, s) ==
  IF s.err # "none" \/ b # TipOf(w.chain) THEN [w EXCEPT !.err = TRUE]
  ELSE [chain |-> Front(w.chain), utxo |-> dbPutUtxoView(w.utxo, s.view),
        journal |-> dbRemoveSpendJournalEntry(w.journal, b), view |-> commit(s.view), err |-> FALSE]

World(v) == [chain |-> chain, utxo |-> utxo, journal |-> journal, view |-> v, err |-> FALSE]

(* One step of the second phase of reorganizeChain, up to the place where  *)
(* the lock is given up.                                                   *)
Move(j) ==
  LET d == j.detach # <<>>
      b == IF d THEN Head(j.detach) ELSE Head(j.attach)
      move(v) == IF d THEN disconnectBlock(World(v), b, disconnectTransactions(v, b, Head(j.stxos), utxo))
                 ELSE connectBlock(World(v), b, connectTransactions(v, b))
  IN move(fetchInputUtxos(j.view, b, utxo))

ApplyMutant(c, j, w) ==
  /\ chain' = w.chain /\ utxo' = w.utxo /\ journal' = w.journal
  /\ job' = [job EXCEPT ![c] =
       IF w.err \/ (j.detach = <<>> /\ Len(j.attach) = 1) THEN Idle
       ELSE IF j.detach # <<>> THEN [j EXCEPT !.view = w.view, !.detach = Tail(@)]
       ELSE [j EXCEPT !.view = w.view, !.attach = Tail(@)]]

Apply(c, j, w) ==
  /\ chain' = w.chain /\ utxo' = w.utxo /\ journal' = w.journal
  /\ job' = [job EXCEPT ![c] =
       IF w.err \/ (j.detach = <<>> /\ Len(j.attach) = 1) THEN Idle
       ELSE IF j.detach # <<>> THEN [j EXCEPT !.view = w.view, !.detach = Tail(@), !.stxos = Tail(@)]
       ELSE [j EXCEPT !.view = w.view, !.attach = Tail(@)]]

(* Branches.                                                               *)
Ancestors(b) ==
  LET up[k \in DOMAIN Block \cup {Genesis}] == IF k = Genesis THEN <<>> ELSE Append(up[Block[k].prev], k)
  IN up[b]
Attach(b) == SelectSeq(Ancestors(b), LAMBDA k : k \notin Range(chain))
Detach(b) == Reverse(SelectSeq(chain, LAMBDA k : k \notin Range(Ancestors(b))))

(* The first phase: every block to detach is undone on a scratch view and  *)
(* every block to attach checked on it, before anything is written.        *)
CheckReorg(detach, attach) ==
  LET undone(s, r, stxos) == [s EXCEPT !.view = r.view, !.err = r.err, !.saved = Append(@, stxos)]
      undo(s, b, st) ==
        IF s.err # "none" THEN s
        ELSE IF st.err THEN [s EXCEPT !.err = "corrupt"]
        ELSE undone(s, disconnectTransactions(fetchInputUtxos(s.view, b, utxo), b, st.out, utxo), st.out)
      redone(s, b, r) ==
        IF r.err # "none" THEN [s EXCEPT !.err = r.err, !.at = b]
        ELSE [s EXCEPT !.view = r.view, !.ok = @ \cup {b}]
      redo(s, b) ==
        IF s.err # "none" THEN s
        ELSE redone(s, b, IF b \in valid THEN connectTransactions(fetchInputUtxos(s.view, b, utxo), b)
                          ELSE checkConnectBlock(s.view, b, utxo))
      start == [err |-> "none", view |-> <<>>, saved |-> <<>>, ok |-> {}, at |-> Genesis]
  IN FoldLeft(redo, FoldLeft(LAMBDA s, b : undo(s, b, dbFetchSpendJournalEntry(journal, b)), start, detach),
              attach)

Descends(b, a) == a \in Range(Ancestors(b))

(* connectBestChain for a new block, reorganizeChain up to its first       *)
(* database transaction included.                                          *)
Extend(c, b) ==
  /\ Block[b].prev = Tip
  /\ \E s \in {checkConnectBlock(<<>>, b, utxo)} :
       \/ /\ s.err # "none"
          /\ bad' = bad \cup {b}
          /\ UNCHANGED <<chain, utxo, journal, valid, job>>
       \/ /\ s.err = "none"
          /\ \E w \in {connectBlock(World(<<>>), b, s)} :
               chain' = w.chain /\ utxo' = w.utxo /\ journal' = w.journal
          /\ valid' = valid \cup {b}
          /\ UNCHANGED <<bad, job>>

StaysAside(b) == Block[b].prev # Tip /\ UNCHANGED <<chain, utxo, journal, valid, bad, job>>

InvalidBranch(b) ==
  /\ Block[b].prev # Tip
  /\ \E a \in Range(Attach(b)) : a \in bad
  /\ bad' = bad \cup {x \in Range(Attach(b)) : \E a \in bad : Descends(x, a)}
  /\ UNCHANGED <<chain, utxo, journal, valid, job>>

Reorganize(c, b) ==
  /\ Block[b].prev # Tip
  /\ \E attach \in {Attach(b)}, detach \in {Detach(b)} :
       /\ Range(attach) \cap bad = {}
       /\ \E p \in {CheckReorg(detach, attach)} :
            /\ valid' = valid \cup p.ok
            /\ \/ /\ p.err # "none"
                  /\ bad' = bad \cup {x \in Range(attach) : p.at # Genesis /\ Descends(x, p.at)
                                                              /\ p.err \notin {"assert", "corrupt"}}
                  /\ UNCHANGED <<chain, utxo, journal, job>>
               \/ /\ p.err = "none"
                  /\ \E j \in {[pc |-> "reorg", detach |-> detach, attach |-> attach,
                               stxos |-> p.saved, view |-> <<>>]} : \E w \in {Move(j)} : Apply(c, j, w)
                  /\ UNCHANGED bad

ProcessBlock(c, b) ==
  /\ job[c] = Idle
  /\ Cardinality(index) < MaxBlocks
  /\ b \notin index /\ Block[b].prev \in index \cup {Genesis}
  /\ Block[b].prev \notin bad
  /\ index' = index \cup {b}
  /\ Extend(c, b) \/ StaysAside(b) \/ InvalidBranch(b) \/ Reorganize(c, b)

(* The lock is taken again after the announcement.                         *)
ReorganizeStep(c) ==
  /\ job[c] # Idle
  /\ \E w \in {Move(job[c])} : Apply(c, job[c], w)
  /\ UNCHANGED <<index, valid, bad>>

(* The process ends and starts again: the database is all there is.        *)
Crash ==
  /\ \E c \in Callers : job[c] # Idle
  /\ job' = [c \in Callers |-> Idle]
  /\ UNCHANGED <<chain, utxo, journal, index, valid, bad>>

Init ==
  /\ chain = <<>> /\ utxo = <<>> /\ journal = <<>>
  /\ index = {} /\ valid = {} /\ bad = {}
  /\ job = [c \in Callers |-> Idle]

Next ==
  \/ \E c \in Callers, b \in DOMAIN Block : ProcessBlock(c, b)
  \/ \E c \in Callers : ReorganizeStep(c)
  \/ Crash

Spec == Init /\ [][Next]_vars

-----------------------------------------------------------------------------
(* Properties.                                                             *)

(* What FetchUtxoEntry reads for every stored outpoint.                    *)
Stored ==
  [p \in DOMAIN utxo |->
     LET e == dbFetchUtxoEntry(utxo, p)
     IN [amount |-> e.amount, script |-> e.script, height |-> e.height, cb |-> e.cb]]

Promise == INSTANCE UtxoSet WITH utxos <- Stored

(* Through extensions, reorganizations that other callers or a crash       *)
(* interrupt, and blocks whose checks are skipped because they were valid  *)
(* before, the stored outputs are those of the replayed main chain, which  *)
(* changes by one valid block at a time (connectBlock, disconnectBlock).   *)
ImplementsUtxoSet == Promise!Spec

(* The journal of the tip undoes it: disconnecting the last block on a     *)
(* fresh view gives the outputs of the chain without it, whatever happened *)
(* since it was written (disconnectTransactions, the spend journal).       *)
JournalUndoesTip ==
  chain # <<>> =>
    LET b == Last(chain)
        st == dbFetchSpendJournalEntry(journal, b)
        v == fetchInputUtxos(<<>>, b, utxo)
        w == disconnectBlock(World(v), b, disconnectTransactions(v, b, st.out, utxo))
    IN /\ ~st.err /\ ~w.err
       /\ [p \in DOMAIN w.utxo |-> serializeUtxoEntry(dbFetchUtxoEntry(w.utxo, p))]
          = [p \in DOMAIN Promise!Replay(Front(chain)) |-> serializeUtxoEntry(Promise!Replay(Front(chain))[p])]

(* A reorganization that passed its checks goes through: as long as nobody *)
(* else moved the tip, its next block is never refused (reorganizeChain    *)
(* "catches these issues before ever modifying the chain").                *)
CheckedReorgGoesThrough ==
  \A c \in Callers :
    LET j == job[c]
    IN (j # Idle /\ Tip = IF j.detach # <<>> THEN Head(j.detach) ELSE Block[Head(j.attach)].prev)
         => ~Move(j).err

(* Connecting a block never overwrites an output that is still unspent     *)
(* (the checks checkConnectBlock promises in its comment).                 *)
NoUnspentOverwritten ==
  [][\A b \in DOMAIN Block : chain' = Append(chain, b) =>
       \A k \in DOMAIN Block[b].txs, i \in 1..3 : <<Block[b].txs[k], i>> \notin DOMAIN utxo]_vars
=============================================================================

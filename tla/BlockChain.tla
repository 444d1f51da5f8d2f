----------------------------- MODULE BlockChain -----------------------------
(***************************************************************************)
(* The chain engine of pkg/blockchain: ProcessBlock, maybeAcceptBlock,     *)
(* connectBestChain, reorganizeChain, connectBlock and disconnectBlock,    *)
(* run by several concurrent callers over one chain lock, one in-memory    *)
(* block index and one database, with database errors, crashes and the     *)
(* reload done by initChainState.                                          *)
(*                                                                         *)
(* What is kept: every database transaction is a step of its own, every    *)
(* place where the chain lock is released around a notification is a step  *)
(* boundary, and every error path is followed to the return.  What is      *)
(* abstracted: a block is a model value whose verdicts (sanity, context,   *)
(* connection) are constants, because they depend on the block and its     *)
(* ancestors only; of the utxo set only the spend journal is kept.         *)
(***************************************************************************)
EXTENDS Integers, Sequences, FiniteSets, SequencesExt

CONSTANTS
  Blocks,       \* every block that callers may submit, and the genesis block
  Genesis,
  Prev,         \* Prev[b]: the block named by the PrevBlock field of b
  Path,         \* Path[b]: the blocks from Genesis to b, following Prev
  Work,         \* Work[b]: CalcWork of the header of b
  NumTx,        \* NumTx[b]: number of transactions of b
  TotalTxns,    \* TotalTxns[b]: number of transactions from Genesis to b
  Version514,   \* blocks whose header version is 514 (scrypt); others count as 2
  Sane,         \* pass checkBlockSanity, the checkpoint tests and the blacklist
  ContextOK,    \* pass checkBlockContext on top of their ancestors
  Connectable,  \* pass checkConnectBlock on top of their ancestors
  FastAdd,      \* are submitted with the BFFastAdd flag
  Workers,      \* concurrent callers of ProcessBlock
  MaxFailures,  \* bound on database errors in a behaviour
  MaxCrashes    \* bound on crashes in a behaviour

None == "none"

(* A block tree: every path starts at Genesis and grows by one block, and  *)
(* a block occurs on a path only at its own height.                        *)
ASSUME TreeAssumption ==
  /\ Genesis \in Blocks
  /\ Prev \in [Blocks \ {Genesis} -> Blocks]
  /\ Path \in [Blocks -> Seq(Blocks)]
  /\ Path[Genesis] = <<Genesis>>
  /\ \A b \in Blocks \ {Genesis} : Path[b] = Append(Path[Prev[b]], b)
  /\ \A b \in Blocks : \A i \in DOMAIN Path[b] : Path[Path[b][i]] = SubSeq(Path[b], 1, i)

ASSUME AttributeAssumption ==
  /\ Work \in [Blocks -> Nat \ {0}]
  /\ NumTx \in [Blocks -> Nat]
  /\ TotalTxns \in [Blocks -> Nat]
  /\ TotalTxns[Genesis] = NumTx[Genesis]
  /\ \A b \in Blocks \ {Genesis} : TotalTxns[b] = TotalTxns[Prev[b]] + NumTx[b]
  /\ {Version514, Sane, ContextOK, Connectable, FastAdd} \subseteq SUBSET Blocks

ASSUME BoundAssumption ==
  /\ None \notin Workers
  /\ MaxFailures \in Nat
  /\ MaxCrashes \in Nat

VARIABLES
  (* per call of ProcessBlock *)
  pc,           \* where each caller is
  blk,          \* the block it submits
  detach,       \* nodes it still has to disconnect, tip first
  attach,       \* nodes it still has to connect, lowest first
  reorg,        \* TRUE when it runs reorganizeChain
  ret,          \* what its last finished call returned
  (* in memory, shared *)
  chainLock,    \* holder of ChainLock, or None
  tip,          \* BestChain.Tip(); the view itself is Path[tip]
  snapshot,     \* stateSnapshot: best hash and TotalTxns
  status,       \* status flags per block; {} when it is not in the index
  dirty,        \* blockIndex.dirty
  workSum,      \* the mutable workSum field of each node; 0 stands for nil
  (* in the database *)
  db,           \* what transactions see: the last committed state
  disk,         \* what survives a crash: the last state the cache flushed
  failures,
  crashes

callVars == <<pc, blk, detach, attach, reorg, ret>>
memVars  == <<tip, snapshot, status, dirty, workSum>>
vars     == <<callVars, chainLock, memVars, db, disk, failures, crashes>>

-----------------------------------------------------------------------------
(* Block status and the block index.                                       *)

Flags == {"stored", "valid", "failed", "ancestor"}

Index == {b \in Blocks : status[b] # {}}

KnownValid(b)   == "valid" \in status[b]
KnownInvalid(b) == status[b] \cap {"failed", "ancestor"} # {}

SetStatusFlags(stat, S, flag) ==
  [b \in Blocks |-> IF b \in S THEN stat[b] \cup {flag} ELSE stat[b]]

Height(b) == Len(Path[b]) - 1

MainChain == ToSet(Path[tip])

(* The version that counts is 514 or, for anything else, 2.                *)
SameAlgo(a, b) == (a \in Version514) <=> (b \in Version514)

-----------------------------------------------------------------------------
(* Database transactions.  Commit publishes the new state; whether the     *)
(* write-back cache of ffldb also reaches the disk with it depends on its  *)
(* size and age, so it is a choice.                                        *)

Commit(newdb) ==
  /\ db' = newdb
  /\ disk' \in {disk, newdb}

NoCommit == UNCHANGED <<db, disk>>

DbRecord ==
  [blocks  : SUBSET Blocks,
   rows    : [Blocks -> SUBSET Flags],
   best    : Blocks,
   total   : Int,
   hashes  : SUBSET Blocks,
   heights : Seq(Blocks),
   journal : SUBSET Blocks]

Flushed(stat, dirt) == [b \in Blocks |-> IF b \in dirt THEN stat[b] ELSE db.rows[b]]

(* flushToDB with new values of status and dirty: on success all the dirty *)
(* rows are written and the dirty set is emptied.                          *)
FlushToDB(stat, dirt) ==
  /\ status' = stat
  /\ dirty' = {}
  /\ IF dirt = {} THEN NoCommit ELSE Commit([db EXCEPT !.rows = Flushed(stat, dirt)])

DbError == failures < MaxFailures /\ failures' = failures + 1

(* Mutant: the dirty set is emptied even when the write failed.            *)
FlushIgnoringErrorsMutant(stat, dirt) ==
  \/ FlushToDB(stat, dirt) /\ UNCHANGED failures
  \/ dirt # {} /\ DbError /\ status' = stat /\ dirty' = {} /\ NoCommit

(* flushIndexState: an error is ignored, and the rows stay dirty.          *)
FlushIgnoringErrors(stat, dirt) ==
  \/ FlushToDB(stat, dirt) /\ UNCHANGED failures
  \/ dirt # {} /\ DbError /\ status' = stat /\ dirty' = dirt /\ NoCommit

-----------------------------------------------------------------------------
(* Pieces of ProcessBlock and maybeAcceptBlock.                            *)

(* Mutant: only the main chain is searched for a duplicate.                *)
BlockExistsMutant(b) == b \in db.blocks /\ b \in db.hashes

BlockExists(b) == b \in Index \/ (b \in db.blocks /\ b \in db.hashes)

(* maybeAcceptBlock reaches checkBlockContext only when the version class  *)
(* changes from the parent and some ancestor has the class of the block.   *)
ContextChecked(b) ==
  /\ ~SameAlgo(b, Prev[b])
  /\ \E a \in ToSet(Path[Prev[b]]) : SameAlgo(a, b)

(* Everything from the lock to the first write, for a block whose parent   *)
(* was on the main chain when BlockByHash looked.                          *)
Admission(b) ==
  CASE BlockExists(b)                          -> "error"
    [] Prev[b] \notin Index                    -> "error"
    [] b \notin Sane                           -> "error"
    [] ~BlockExists(Prev[b])                   -> "orphan"
    [] KnownInvalid(Prev[b])                   -> "error"
    [] ContextChecked(b) /\ b \notin ContextOK -> "error"
    [] OTHER                                   -> "accept"

(* Mutant: the deferred unlock is missing.                                 *)
ReturnMutant(w, r) ==
  /\ pc' = [pc EXCEPT ![w] = "idle"]
  /\ ret' = [ret EXCEPT ![w] = r]
  /\ UNCHANGED chainLock
  /\ blk' = [blk EXCEPT ![w] = Genesis]
  /\ detach' = [detach EXCEPT ![w] = <<>>]
  /\ attach' = [attach EXCEPT ![w] = <<>>]
  /\ reorg' = [reorg EXCEPT ![w] = FALSE]

(* What the fields of the caller become when ProcessBlock returns r.       *)
Return(w, r) ==
  /\ pc' = [pc EXCEPT ![w] = "idle"]
  /\ ret' = [ret EXCEPT ![w] = r]
  /\ chainLock' = None
  /\ blk' = [blk EXCEPT ![w] = Genesis]
  /\ detach' = [detach EXCEPT ![w] = <<>>]
  /\ attach' = [attach EXCEPT ![w] = <<>>]
  /\ reorg' = [reorg EXCEPT ![w] = FALSE]

Goto(w, label) == pc' = [pc EXCEPT ![w] = label]

At(w, label) == pc[w] = label

-----------------------------------------------------------------------------
(* ProcessBlock.                                                           *)

(* Where BlockByHash finds a block: on the main chain.                     *)
BlockByHash == MainChain

(* Before taking the lock the parent is looked up with BlockByHash, which  *)
(* wants it on the main chain and reads it from the database.  The error   *)
(* of a failed read is lost, and the call returns as for a side chain.     *)
Submit(w, b) ==
  /\ At(w, "idle")
  /\ \/ /\ Prev[b] \in BlockByHash
        /\ Goto(w, "lock")
        /\ blk' = [blk EXCEPT ![w] = b]
        /\ ret' = [ret EXCEPT ![w] = None]
        /\ UNCHANGED failures
     \/ /\ IF Prev[b] \in BlockByHash THEN DbError ELSE UNCHANGED failures
        /\ ret' = [ret EXCEPT ![w] = IF Prev[b] \in BlockByHash THEN "side" ELSE "error"]
        /\ UNCHANGED <<pc, blk>>
  /\ UNCHANGED <<detach, attach, reorg, chainLock, memVars, db, disk, crashes>>

(* Take the lock and run every check that precedes the first write.        *)
Lock(w) ==
  /\ At(w, "lock")
  /\ chainLock = None
  /\ IF Admission(blk[w]) = "accept"
       THEN /\ chainLock' = w
            /\ Goto(w, "store")
            /\ UNCHANGED <<blk, detach, attach, reorg, ret>>
       ELSE Return(w, Admission(blk[w]))
  /\ UNCHANGED <<memVars, db, disk, failures, crashes>>

(* Mutant: Sub is called where Add is meant.                               *)
NewBlockNodeMutant(b, ws) ==
  [ws EXCEPT ![b] = Work[b] - ws[Prev[b]], ![Prev[b]] = Work[Prev[b]]]

(* The work of a new node, whose making also rewrites that of its parent.  *)
NewBlockNode(b, ws) ==
  [ws EXCEPT ![b] = Work[b] + Work[Prev[b]], ![Prev[b]] = Work[Prev[b]]]

(* Mutant: the new node is added without being marked dirty.               *)
StoreBlockMutant(w) ==
  LET b == blk[w] IN
  /\ At(w, "store")
  /\ Commit([db EXCEPT !.blocks = @ \cup {b}])
  /\ workSum' = NewBlockNode(b, workSum)
  /\ status' = [status EXCEPT ![b] = {"stored"}]
  /\ Goto(w, "flush")
  /\ UNCHANGED <<blk, detach, attach, reorg, ret, chainLock, tip, snapshot, dirty, failures, crashes>>

(* dbStoreBlock, then NewBlockNode and AddNode.                            *)
StoreBlock(w) ==
  LET b == blk[w] IN
  /\ At(w, "store")
  /\ Commit([db EXCEPT !.blocks = @ \cup {b}])
  /\ workSum' = NewBlockNode(b, workSum)
  /\ status' = [status EXCEPT ![b] = {"stored"}]
  /\ dirty' = dirty \cup {b}
  /\ Goto(w, "flush")
  /\ UNCHANGED <<blk, detach, attach, reorg, ret, chainLock, tip, snapshot, failures, crashes>>

FlushNewNode(w) ==
  /\ At(w, "flush")
  /\ FlushToDB(status, dirty)
  /\ Goto(w, "best")
  /\ UNCHANGED <<blk, detach, attach, reorg, ret, chainLock, tip, snapshot, workSum, failures, crashes>>

-----------------------------------------------------------------------------
(* connectBestChain.                                                       *)

(* The block extends the tip: validate it unless it is a fast add, record  *)
(* the verdict, and go on to connectBlock or return the rule error.  A     *)
(* fast add only needs its inputs to be found.                             *)
ExtendTip(w) ==
  LET b == blk[w]
      checked == b \notin FastAdd
      verdict == IF b \in Connectable THEN "valid" ELSE "failed"
  IN
  /\ At(w, "best")
  /\ Prev[b] = tip
  /\ IF checked
       THEN FlushIgnoringErrors(SetStatusFlags(status, {b}, verdict), dirty \cup {b})
       ELSE UNCHANGED <<status, dirty, db, disk, failures>>
  /\ \/ /\ checked => b \in Connectable
        /\ Goto(w, "connect")
        /\ attach' = [attach EXCEPT ![w] = <<b>>]
        /\ UNCHANGED <<blk, detach, reorg, ret, chainLock>>
     \/ b \notin Connectable /\ Return(w, "error")
  /\ UNCHANGED <<tip, snapshot, workSum, crashes>>

(* The block does not extend the tip: its workSum becomes its own work,    *)
(* and unless that exceeds the workSum field of the tip it stays on a side *)
(* chain.  The caller then releases the lock to notify.                    *)
StaysOnSideChain(w) ==
  LET b == blk[w] IN
  /\ At(w, "best")
  /\ Prev[b] # tip
  /\ Work[b] <= workSum[tip]
  /\ workSum' = [workSum EXCEPT ![b] = Work[b]]
  /\ Goto(w, "accepted")
  /\ ret' = [ret EXCEPT ![w] = "side"]
  /\ chainLock' = None
  /\ UNCHANGED <<blk, detach, attach, reorg, tip, snapshot, status, dirty, db, disk, failures, crashes>>

(* FindFork: two chains agree from the genesis block up to their fork, so  *)
(* the number of heights at which they agree is where it lies.             *)
ForkLength(a, b) ==
  Cardinality({i \in DOMAIN Path[a] \cap DOMAIN Path[b] : Path[a][i] = Path[b][i]})

ToAttach(b) == SubSeq(Path[b], ForkLength(b, tip) + 1, Len(Path[b]))
ToDetach(b) == Reverse(SubSeq(Path[tip], ForkLength(b, tip) + 1, Len(Path[tip])))

(* getReorganizeNodes: the lists and the statuses it leaves behind.  With  *)
(* an invalid ancestor the nodes above it are marked and the lists are     *)
(* empty, which reorganizeChain takes for nothing to do.                   *)
GetReorganizeNodes(b) ==
  LET nodes   == ToAttach(b)
      bad     == {i \in DOMAIN nodes : KnownInvalid(nodes[i])}
      above   == {nodes[i] : i \in {j \in DOMAIN nodes : \A k \in bad : k < j}}
      refuse(S) == [detach |-> <<>>, attach |-> <<>>, status |-> SetStatusFlags(status, S, "ancestor"), marked |-> S]
  IN  IF KnownInvalid(Prev[b]) THEN refuse({b})
      ELSE IF bad # {} THEN refuse(above)
      ELSE [detach |-> ToDetach(b), attach |-> nodes, status |-> status, marked |-> {}]

(* The check phase of reorganizeChain over the nodes to attach: those that *)
(* are not known valid are validated in order; the first that fails is     *)
(* marked, and every node after it gets the invalid-ancestor flag.         *)
CheckAttach(nodes, stat) ==
  LET todo == {i \in DOMAIN nodes : "valid" \notin stat[nodes[i]]}
      fail == {i \in todo : nodes[i] \notin Connectable}
      named(I) == {nodes[i] : i \in I}
      good  == named({i \in todo : \A j \in fail : i < j})
      bad   == named({i \in fail : \A j \in fail : i <= j})
      after == named({i \in DOMAIN nodes : \E j \in fail : j < i})
  IN  [ok |-> fail = {},
       status |-> SetStatusFlags(SetStatusFlags(SetStatusFlags(stat, good, "valid"), bad, "failed"), after, "ancestor"),
       marked |-> good \cup bad \cup after]

Continue(d, a) ==
  IF d # <<>> THEN "disconnect" ELSE IF a # <<>> THEN "connect" ELSE "finish"

(* The block has more work of its own than the tip's workSum field: find   *)
(* the nodes, check the whole reorganization, and start it or give up.     *)
StartReorganize(w) ==
  LET b == blk[w]
      lists == GetReorganizeNodes(b)
      check == CheckAttach(lists.attach, lists.status)
  IN
  /\ At(w, "best")
  /\ Prev[b] # tip
  /\ Work[b] > workSum[tip]
  /\ workSum' = [workSum EXCEPT ![b] = Work[b]]
  /\ status' = check.status
  /\ dirty' = dirty \cup lists.marked \cup check.marked
  /\ reorg' = [reorg EXCEPT ![w] = TRUE]
  /\ IF check.ok
       THEN /\ detach' = [detach EXCEPT ![w] = lists.detach]
            /\ attach' = [attach EXCEPT ![w] = lists.attach]
            /\ Goto(w, Continue(lists.detach, lists.attach))
       ELSE /\ Goto(w, "abort")
            /\ UNCHANGED <<detach, attach>>
  /\ UNCHANGED <<blk, ret, chainLock, tip, snapshot, db, disk, failures, crashes>>

-----------------------------------------------------------------------------
(* connectBlock and disconnectBlock: the assertion on the tip, the flush   *)
(* of dirty rows, one transaction, the update of memory, and a             *)
(* notification sent with the chain lock released.                         *)

FlushBeforeUpdate(w) ==
  /\ \/ At(w, "connect") /\ Prev[Head(attach[w])] = tip
     \/ At(w, "disconnect") /\ Head(detach[w]) = tip
  /\ dirty # {}
  /\ FlushToDB(status, dirty)
  /\ UNCHANGED <<callVars, chainLock, tip, snapshot, workSum, failures, crashes>>

AssertFails(w) ==
  /\ \/ At(w, "connect") /\ Prev[Head(attach[w])] # tip
     \/ At(w, "disconnect") /\ Head(detach[w]) # tip
  /\ Goto(w, "abort")
  /\ UNCHANGED <<blk, detach, attach, reorg, ret, chainLock, memVars, db, disk, failures, crashes>>

PutHeight(h, k, b) == [i \in DOMAIN h \cup {k} |-> IF i = k THEN b ELSE h[i]]
RemoveHeight(h, k) == [i \in DOMAIN h \ {k} |-> h[i]]

ConnectedDb(n) ==
  [db EXCEPT !.best = n,
             !.total = snapshot.total + NumTx[n],
             !.hashes = @ \cup {n},
             !.heights = PutHeight(@, Height(n) + 1, n),
             !.journal = @ \cup {n}]

(* Mutants: the hash entry is kept; the transactions of the new tip are    *)
(* subtracted instead of those of the removed block.                       *)
DisconnectedDbMutant1(n) ==
  [db EXCEPT !.best = Prev[n],
             !.total = snapshot.total - NumTx[n],
             !.heights = RemoveHeight(@, Height(n) + 1),
             !.journal = @ \ {n}]

DisconnectedDb(n) ==
  [db EXCEPT !.best = Prev[n],
             !.total = snapshot.total - NumTx[n],
             !.hashes = @ \ {n},
             !.heights = RemoveHeight(@, Height(n) + 1),
             !.journal = @ \ {n}]

(* Mutants: the status rows are not flushed first; the block need not      *)
(* extend the tip.                                                         *)
ConnectCommitMutant1(w) ==
  /\ At(w, "connect")
  /\ Prev[Head(attach[w])] = tip
  /\ Commit(ConnectedDb(Head(attach[w])))
  /\ Goto(w, "connected")
  /\ UNCHANGED <<blk, detach, attach, reorg, ret, chainLock, memVars, failures, crashes>>

ConnectCommitMutant2(w) ==
  /\ At(w, "connect")
  /\ dirty = {}
  /\ Commit(ConnectedDb(Head(attach[w])))
  /\ Goto(w, "connected")
  /\ UNCHANGED <<blk, detach, attach, reorg, ret, chainLock, memVars, failures, crashes>>

ConnectCommit(w) ==
  /\ At(w, "connect")
  /\ Prev[Head(attach[w])] = tip
  /\ dirty = {}
  /\ Commit(ConnectedDb(Head(attach[w])))
  /\ Goto(w, "connected")
  /\ UNCHANGED <<blk, detach, attach, reorg, ret, chainLock, memVars, failures, crashes>>

DisconnectCommit(w) ==
  /\ At(w, "disconnect")
  /\ Head(detach[w]) = tip
  /\ dirty = {}
  /\ Commit(DisconnectedDb(tip))
  /\ Goto(w, "disconnected")
  /\ UNCHANGED <<blk, detach, attach, reorg, ret, chainLock, memVars, failures, crashes>>

(* Mutant: the snapshot is not replaced.                                   *)
SetTipMutant(w, n) ==
  /\ tip' = n
  /\ chainLock' = None
  /\ Goto(w, "notify")
  /\ UNCHANGED <<blk, reorg, ret, snapshot, status, dirty, workSum, db, disk, failures, crashes>>

(* BestChain.SetTip, the new snapshot, and the unlock before notifying.    *)
SetTip(w, n) ==
  /\ tip' = n
  /\ snapshot' = [best |-> n, total |-> db.total]
  /\ chainLock' = None
  /\ Goto(w, "notify")
  /\ UNCHANGED <<blk, reorg, ret, status, dirty, workSum, db, disk, failures, crashes>>

ConnectInMemory(w) ==
  /\ At(w, "connected")
  /\ SetTip(w, Head(attach[w]))
  /\ attach' = [attach EXCEPT ![w] = Tail(@)]
  /\ UNCHANGED detach

DisconnectInMemory(w) ==
  /\ At(w, "disconnected")
  /\ SetTip(w, Prev[Head(detach[w])])
  /\ detach' = [detach EXCEPT ![w] = Tail(@)]
  /\ UNCHANGED attach

(* The notification has been sent; the lock is taken again.                *)
Relock(w) ==
  /\ At(w, "notify")
  /\ chainLock = None
  /\ chainLock' = w
  /\ Goto(w, Continue(detach[w], attach[w]))
  /\ UNCHANGED <<blk, detach, attach, reorg, ret, memVars, db, disk, failures, crashes>>

(* connectBestChain returns true: after extending the tip a block that is  *)
(* not yet known valid is marked, after a reorganization what is dirty is  *)
(* flushed; maybeAcceptBlock then releases the lock to notify.             *)
FinishConnect(w) ==
  LET b == blk[w]
      mark == ~reorg[w] /\ (b \in FastAdd \/ ~KnownValid(b))
  IN
  /\ At(w, "finish")
  /\ IF mark THEN FlushIgnoringErrors(SetStatusFlags(status, {b}, "valid"), dirty \cup {b})
     ELSE IF reorg[w] THEN FlushIgnoringErrors(status, dirty)
     ELSE UNCHANGED <<status, dirty, db, disk, failures>>
  /\ Goto(w, "accepted")
  /\ ret' = [ret EXCEPT ![w] = "main"]
  /\ chainLock' = None
  /\ UNCHANGED <<blk, detach, attach, reorg, tip, snapshot, workSum, crashes>>

(* connectBestChain returns an error after flushing what it marked.        *)
Abort(w) ==
  /\ At(w, "abort")
  /\ FlushIgnoringErrors(status, dirty)
  /\ Return(w, "error")
  /\ UNCHANGED <<tip, snapshot, workSum, crashes>>

(* Back from the NTBlockAccepted notification: the lock is taken, the      *)
(* empty orphan pool is searched, and the deferred unlock runs.            *)
Accepted(w) ==
  /\ At(w, "accepted")
  /\ chainLock = None
  /\ Return(w, ret[w])
  /\ UNCHANGED <<memVars, db, disk, failures, crashes>>

(* A database transaction fails and is rolled back.  In maybeAcceptBlock   *)
(* and while extending the tip the error is returned at once; from         *)
(* connectBlock and in a reorganization the index is flushed first.  The   *)
(* check phase of a reorganization may fail on any node it has to read,    *)
(* after it has marked the ones before.                                    *)
TransactionFails(w) ==
  LET b == blk[w]
      lists == GetReorganizeNodes(b)
  IN
  /\ DbError
  /\ \/ /\ \/ At(w, "store")
           \/ At(w, "flush") /\ dirty # {}
           \/ At(w, "best") /\ Prev[b] = tip
        /\ Return(w, "error")
        /\ UNCHANGED memVars
     \/ /\ At(w, "best") /\ Prev[b] # tip /\ Work[b] > workSum[tip]
        /\ workSum' = [workSum EXCEPT ![b] = Work[b]]
        /\ \E k \in DOMAIN lists.attach :
             LET check == CheckAttach(SubSeq(lists.attach, 1, k - 1), status) IN
             /\ check.ok
             /\ status' = check.status
             /\ dirty' = dirty \cup check.marked
        /\ Goto(w, "abort")
        /\ UNCHANGED <<blk, detach, attach, reorg, ret, chainLock, tip, snapshot>>
     \/ /\ At(w, "connect") \/ At(w, "disconnect")
        /\ Goto(w, "abort")
        /\ UNCHANGED <<blk, detach, attach, reorg, ret, chainLock, memVars>>
  /\ UNCHANGED <<db, disk, crashes>>

-----------------------------------------------------------------------------
(* CheckConnectBlockTemplate changes one thing: the node it builds for the *)
(* template rewrites the workSum field of the tip.                         *)
CheckConnectBlockTemplate(b) ==
  /\ chainLock = None
  /\ Prev[b] = tip
  /\ b \in Sane \cap ContextOK
  /\ workSum' = [workSum EXCEPT ![tip] = Work[tip]]
  /\ UNCHANGED <<callVars, chainLock, tip, snapshot, status, dirty, db, disk, failures, crashes>>

-----------------------------------------------------------------------------
(* Creation and reload.                                                    *)

(* createChainState.                                                       *)
GenesisDb ==
  [blocks |-> {Genesis}, rows |-> [b \in Blocks |-> IF b = Genesis THEN {"stored", "valid"} ELSE {}],
   best |-> Genesis, total |-> NumTx[Genesis],
   hashes |-> {Genesis}, heights |-> <<Genesis>>, journal |-> {}]

(* initBlockNode over the rows in height order: a node that has a child in *)
(* the index is left with its own work, a leaf with that of its parent     *)
(* added, and a lone genesis node with no work at all.                     *)
LoadedWork(rows) ==
  [b \in Blocks |->
     IF rows[b] = {} THEN 0
     ELSE IF \E c \in Blocks \ {Genesis} : rows[c] # {} /\ Prev[c] = b THEN Work[b]
     ELSE IF b = Genesis THEN 0
     ELSE Work[b] + Work[Prev[b]]]

(* The conditions under which initChainState reports no error.             *)
Loadable(d) ==
  /\ d.rows[Genesis] # {}
  /\ \A b \in Blocks \ {Genesis} : d.rows[b] # {} => d.rows[Prev[b]] # {}
  /\ d.rows[d.best] # {}
  /\ d.best \in d.blocks

(* The ancestors of the stored tip that are not yet marked valid.          *)
ToUpgrade(d) == {b \in ToSet(Path[d.best]) : "valid" \notin d.rows[b]}

(* The process dies, the cache with it, and initChainState reloads.        *)
CrashAndRestart ==
  LET stat == SetStatusFlags(disk.rows, ToUpgrade(disk), "valid")
      reloaded == [disk EXCEPT !.rows = stat]
  IN
  /\ crashes < MaxCrashes
  /\ crashes' = crashes + 1
  /\ Loadable(disk)
  /\ status' = stat
  /\ dirty' = {}
  /\ workSum' = LoadedWork(disk.rows)
  /\ tip' = disk.best
  /\ snapshot' = [best |-> disk.best, total |-> disk.total]
  /\ db' = reloaded
  /\ disk' \in {disk, reloaded}
  /\ chainLock' = None
  /\ pc' = [w \in Workers |-> "idle"]
  /\ blk' = [w \in Workers |-> Genesis]
  /\ detach' = [w \in Workers |-> <<>>]
  /\ attach' = [w \in Workers |-> <<>>]
  /\ reorg' = [w \in Workers |-> FALSE]
  /\ ret' = [w \in Workers |-> None]
  /\ UNCHANGED failures

-----------------------------------------------------------------------------
Init ==
  /\ pc = [w \in Workers |-> "idle"]
  /\ blk = [w \in Workers |-> Genesis]
  /\ detach = [w \in Workers |-> <<>>]
  /\ attach = [w \in Workers |-> <<>>]
  /\ reorg = [w \in Workers |-> FALSE]
  /\ ret = [w \in Workers |-> None]
  /\ chainLock = None
  /\ tip = Genesis
  /\ snapshot = [best |-> Genesis, total |-> NumTx[Genesis]]
  /\ status = GenesisDb.rows
  /\ dirty = {}
  /\ workSum = [b \in Blocks |-> IF b = Genesis THEN Work[b] ELSE 0]
  /\ db = GenesisDb
  /\ disk = GenesisDb
  /\ failures = 0
  /\ crashes = 0

(* The steps of a call after it was submitted.                             *)
Step(w) ==
  \/ Lock(w)
  \/ StoreBlock(w)
  \/ FlushNewNode(w)
  \/ ExtendTip(w)
  \/ StaysOnSideChain(w)
  \/ StartReorganize(w)
  \/ FlushBeforeUpdate(w)
  \/ AssertFails(w)
  \/ ConnectCommit(w)
  \/ DisconnectCommit(w)
  \/ ConnectInMemory(w)
  \/ DisconnectInMemory(w)
  \/ Relock(w)
  \/ FinishConnect(w)
  \/ Abort(w)
  \/ Accepted(w)

Next ==
  \/ \E w \in Workers, b \in Blocks \ {Genesis} : Submit(w, b)
  \/ \E w \in Workers : Step(w)
  \/ \E w \in Workers : TransactionFails(w)
  \/ \E b \in Blocks \ {Genesis} : CheckConnectBlockTemplate(b)
  \/ CrashAndRestart

Spec == Init /\ [][Next]_vars

(* The Go scheduler runs every goroutine that can run, and sync.RWMutex    *)
(* hands the lock to a waiter that has waited long enough, so a caller     *)
(* that can take the lock again and again is not passed over for ever.     *)
Fairness == \A w \in Workers : WF_vars(Step(w)) /\ SF_vars(Lock(w)) /\ SF_vars(Relock(w)) /\ SF_vars(Accepted(w))

FairSpec == Spec /\ Fairness
-----------------------------------------------------------------------------
(* Properties.                                                             *)

Labels == {"idle", "lock", "store", "flush", "best", "connect", "connected",
           "disconnect", "disconnected", "notify", "finish", "abort", "accepted"}

CallTypeOK ==
  /\ pc \in [Workers -> Labels]
  /\ blk \in [Workers -> Blocks]
  /\ detach \in [Workers -> Seq(Blocks)]
  /\ attach \in [Workers -> Seq(Blocks)]
  /\ reorg \in [Workers -> BOOLEAN]
  /\ ret \in [Workers -> {None, "main", "side", "orphan", "error"}]
  /\ chainLock \in Workers \cup {None}

MemTypeOK ==
  /\ tip \in Blocks
  /\ snapshot \in [best : Blocks, total : Int]
  /\ status \in [Blocks -> SUBSET Flags]
  /\ dirty \in SUBSET Blocks
  /\ workSum \in [Blocks -> Nat]

DbTypeOK ==
  /\ db \in DbRecord
  /\ disk \in DbRecord
  /\ failures \in 0..MaxFailures
  /\ crashes \in 0..MaxCrashes

(* Types of all the variables: of the calls, of memory and of the database.*)
TypeOK == CallTypeOK /\ MemTypeOK /\ DbTypeOK

(* Labels at which a caller holds the chain lock.                          *)
LockedLabels ==
  {"store", "flush", "best", "connect", "connected", "disconnect", "disconnected", "finish", "abort"}

MainIndexOf(d) ==
  /\ d.heights = Path[d.best]
  /\ d.hashes = ToSet(Path[d.best])
  /\ d.journal = ToSet(Path[d.best]) \ {Genesis}

(* The hash and height indexes and the spend journal of the committed      *)
(* database, and of the state a crash would fall back to, describe exactly *)
(* the chain of the stored best block (connectBlock and disconnectBlock    *)
(* update them in one transaction, in any interleaving of callers).        *)
MainIndexMatchesBest == MainIndexOf(db) /\ MainIndexOf(disk)

(* The stored transaction total is the one of the stored best chain,       *)
(* although each update starts from the in-memory snapshot.                *)
TotalMatchesBest == \A d \in {db, disk} : d.total = TotalTxns[d.best]

(* Except while a caller is between its commit and its update of memory,   *)
(* the in-memory tip and the snapshot are those of the committed database, *)
(* whoever else ran while the lock was released for a notification.        *)
MemoryMatchesDb ==
  (\A w \in Workers : pc[w] \notin {"connected", "disconnected"})
    => tip = db.best /\ snapshot = [best |-> db.best, total |-> db.total]

(* Whatever is on disk when the process dies, initChainState loads it: no  *)
(* row without its parent row, and the best block has a row and a payload. *)
RestartSucceeds == Loadable(db) /\ Loadable(disk)

(* Validity reaches the database no later than the best state that relies  *)
(* on it: after a crash only a fast-added block needs the upgrade to valid *)
(* that initChainState does for ancestors of the tip.                      *)
ValidityPersistedFirst == ToUpgrade(db) \cup ToUpgrade(disk) \subseteq FastAdd

(* No block on the main chain is marked invalid or fails validation.       *)
MainChainValid ==
  \A b \in MainChain \ {Genesis} : ~KnownInvalid(b) /\ b \in Connectable \cup FastAdd

(* The parent of an indexed block is indexed and not marked invalid, so    *)
(* getReorganizeNodes never meets an invalid ancestor and never returns    *)
(* the empty lists that connectBestChain would report as main chain.       *)
NoInvalidParent ==
  \A b \in Index \ {Genesis} : Prev[b] \in Index /\ ~KnownInvalid(Prev[b])

(* Whatever callers, failures and crashes do, the stored and the loaded    *)
(* chain consist of valid blocks that are known to be valid: the four      *)
(* statements above together.                                              *)
ChainIsValid == TotalMatchesBest /\ ValidityPersistedFirst /\ MainChainValid /\ NoInvalidParent

(* A node that is not dirty has its current status in the database, and a  *)
(* row that says the payload is stored has the payload.                    *)
CleanRowsMatchDb ==
  /\ \A b \in Blocks \ dirty : status[b] = db.rows[b]
  /\ \A d \in {db, disk}, b \in Blocks : "stored" \in d.rows[b] => b \in d.blocks

(* A status flag, once set, stays set while the process lives: no block is *)
(* entered twice into the index by racing callers.                         *)
FlagsNeverUnset ==
  [][crashes' = crashes => \A b \in Blocks : status[b] \subseteq status'[b]]_vars

(* The main chain changes one block at a time: a step of a live process    *)
(* moves the tip to a child or to the parent of the tip.                   *)
TipMovesByOneBlock ==
  [][crashes' = crashes =>
       \/ tip' = tip
       \/ tip' # Genesis /\ Prev[tip'] = tip
       \/ tip # Genesis /\ Prev[tip] = tip']_vars

(* Every call of ProcessBlock returns.                                     *)
CallsReturn == \A w \in Workers : pc[w] # "idle" ~> pc[w] = "idle"

(* chain.go:939: chain selection respects the most proof of work.  When no *)
(* call is running, no valid indexed chain has more work than the main one.*)
TotalWork(b) == FoldLeft(LAMBDA n, x : n + Work[x], 0, Path[b])

MostWorkSelected ==
  (\A w \in Workers : pc[w] = "idle") =>
    \A b \in Index : ToSet(Path[b]) \subseteq Connectable => TotalWork(b) <= TotalWork(tip)

(* chain.go:817: a reorganization that passed its checks cannot fail once  *)
(* the chain is being modified; connectBlock and disconnectBlock find the  *)
(* tip they assert.                                                        *)
ReorganizeKeepsTip ==
  \A w \in Workers :
    /\ pc[w] = "connect" => Prev[Head(attach[w])] = tip
    /\ pc[w] = "disconnect" => Head(detach[w]) = tip

(* accept.go:73: a block must pass the rules that depend on its position   *)
(* before it can become part of the main chain.                            *)
ContextRulesEnforced == MainChain \subseteq ContextOK \cup {Genesis}
=============================================================================

-------------------------- MODULE BlockChainProofs --------------------------
(***************************************************************************)
(* Proofs about BlockChain, for every block tree, every number of callers  *)
(* and any number of database errors and crashes.                          *)
(***************************************************************************)
EXTENDS BlockChain, FiniteSetTheorems, SequenceTheorems, TLAPS

(* The chain lock is held by the caller that is at a locked label.         *)
LockInv == \A w \in Workers : pc[w] \in LockedLabels <=> chainLock = w

(* What a caller knows about its block and its lists, and, between its     *)
(* commit and its update of memory, how the database is ahead of the tip.  *)
CallerInv(w) ==
  /\ pc[w] # "idle" => blk[w] # Genesis
  /\ pc[w] = "store" => Prev[blk[w]] \in Index /\ blk[w] \notin Index
  /\ pc[w] \notin {"idle", "lock", "store"} => blk[w] \in Index
  /\ \A i \in DOMAIN attach[w] : attach[w][i] \in Index \ {Genesis}
  /\ \A i \in DOMAIN detach[w] : detach[w][i] # Genesis
  /\ pc[w] \in {"connect", "connected"} => attach[w] # <<>>
  /\ pc[w] \in {"disconnect", "disconnected"} => detach[w] # <<>>
  /\ pc[w] = "connected" => Prev[Head(attach[w])] = tip /\ db.best = Head(attach[w])
  /\ pc[w] = "disconnected" => Head(detach[w]) = tip /\ db.best = Prev[tip]

CallInv == \A w \in Workers : CallerInv(w)

(* The in-memory index is closed under ancestors, holds the tip and only   *)
(* stored blocks, and differs from the rows of the database only where it  *)
(* is dirty.                                                               *)
IndexInv ==
  /\ \A b \in Index : ToSet(Path[b]) \subseteq Index
  /\ tip \in Index
  /\ Index \subseteq db.blocks
  /\ \A b \in Blocks \ dirty : status[b] = db.rows[b]
  /\ \A b \in Blocks : db.rows[b] # {} => b \in Index

(* The same for the rows of a database state, and its best block.          *)
RowsInv(d) ==
  /\ \A b \in Blocks : d.rows[b] # {} => \A a \in ToSet(Path[b]) : d.rows[a] # {}
  /\ \A b \in Blocks : d.rows[b] # {} => b \in d.blocks
  /\ d.rows[d.best] # {}

StoreInv(d) == d \in DbRecord /\ MainIndexOf(d) /\ RowsInv(d)

IInv ==
  /\ TypeOK
  /\ LockInv
  /\ CallInv
  /\ IndexInv
  /\ StoreInv(db)
  /\ StoreInv(disk)
  /\ MemoryMatchesDb

-----------------------------------------------------------------------------
(* Facts about the block tree.                                             *)

(* A path is not empty and ends with the block it leads to.                *)
LEMMA PathEnds ==
  ASSUME NEW b \in Blocks
  PROVE  /\ Path[b] \in Seq(Blocks)
         /\ Len(Path[b]) \in Nat \ {0}
         /\ Path[b][Len(Path[b])] = b
         /\ b \in ToSet(Path[b])
<1>1. /\ Path[b] \in Seq(Blocks)
      /\ Len(Path[b]) \in Nat \ {0}
      /\ Path[b][Len(Path[b])] = b
  <2>1. CASE b = Genesis
    BY <2>1, TreeAssumption
  <2>2. CASE b # Genesis
    BY <2>2, TreeAssumption
  <2> QED BY <2>1, <2>2
<1> QED BY <1>1 DEF ToSet

(* Genesis is the first block of every path, and occurs nowhere else.      *)
LEMMA PathStarts ==
  ASSUME NEW b \in Blocks, NEW i \in 1..Len(Path[b])
  PROVE  /\ Path[b][i] \in Blocks
         /\ Path[b][i] = Genesis <=> i = 1
<1>1. /\ Path[b] \in Seq(Blocks) /\ Path[b][i] \in Blocks /\ i \in DOMAIN Path[b]
  BY PathEnds
<1>2. Path[Path[b][i]] = SubSeq(Path[b], 1, i)
  BY <1>1, TreeAssumption
<1>3. Len(Path[Path[b][i]]) = i
  BY <1>1, <1>2
<1>4. ASSUME Path[b][i] = Genesis PROVE i = 1
  BY <1>3, <1>4, TreeAssumption
<1>5. ASSUME i = 1, Path[b][i] # Genesis PROVE FALSE
  <2> DEFINE c == Path[b][i]
  <2>1. c \in Blocks \ {Genesis} /\ Prev[c] \in Blocks /\ Path[c] = Append(Path[Prev[c]], c)
    BY <1>1, <1>5, TreeAssumption
  <2>2. Path[Prev[c]] \in Seq(Blocks) /\ Len(Path[Prev[c]]) \in Nat \ {0}
    BY <2>1, PathEnds
  <2>3. Len(Path[c]) = Len(Path[Prev[c]]) + 1
    BY <2>1, <2>2
  <2>4. Len(Path[c]) = 1
    BY <1>3, <1>5
  <2>5. \A n \in Nat \ {0} : n + 1 # 1
    OBVIOUS
  <2> QED BY <2>2, <2>3, <2>4, <2>5, Zenon
<1> QED BY <1>1, <1>4, <1>5

LEMMA GenesisOnPath ==
  ASSUME NEW b \in Blocks
  PROVE  Genesis \in ToSet(Path[b]) /\ ToSet(Path[b]) \subseteq Blocks
<1>1. Path[b] \in Seq(Blocks) /\ Len(Path[b]) \in Nat \ {0}
  BY PathEnds
<1>2. 1 \in 1..Len(Path[b])
  BY <1>1
<1>3. Path[b][1] = Genesis
  BY <1>2, PathStarts
<1> QED BY <1>1, <1>2, <1>3 DEF ToSet

(* The path of a child is the path of its parent and the child.            *)
LEMMA PathOfChild ==
  ASSUME NEW b \in Blocks \ {Genesis}
  PROVE  /\ Prev[b] \in Blocks
         /\ Prev[b] # b
         /\ ToSet(Path[b]) = ToSet(Path[Prev[b]]) \cup {b}
         /\ b \notin ToSet(Path[Prev[b]])
         /\ Prev[b] \in ToSet(Path[b])
<1> DEFINE p == Path[Prev[b]]
<1>1. Prev[b] \in Blocks /\ Path[b] = Append(p, b)
  BY TreeAssumption
<1>2. p \in Seq(Blocks) /\ Len(p) \in Nat \ {0} /\ Prev[b] \in ToSet(p)
  BY <1>1, PathEnds
<1> HIDE DEF p
<1>3. /\ Len(Path[b]) = Len(p) + 1
      /\ DOMAIN Path[b] = 1..(Len(p) + 1)
      /\ DOMAIN p = 1..Len(p)
      /\ \A i \in 1..Len(p) : Path[b][i] = p[i]
      /\ Path[b][Len(p) + 1] = b
  BY <1>1, <1>2
<1>4. ToSet(Path[b]) = ToSet(p) \cup {b}
  BY <1>2, <1>3 DEF ToSet
<1>5. ASSUME b \in ToSet(p) PROVE FALSE
  <2>1. PICK i \in 1..Len(p) : p[i] = b
    BY <1>2, <1>5 DEF ToSet
  <2>2. Path[b] = SubSeq(p, 1, i)
    BY <1>1, <1>2, <2>1, TreeAssumption DEF p
  <2>3. Len(Path[b]) = i
    BY <1>2, <2>1, <2>2
  <2> QED BY <1>2, <1>3, <2>1, <2>3
<1> QED BY <1>1, <1>2, <1>4, <1>5 DEF p

(* dbPutBlockIndex and dbRemoveBlockIndex turn the height index of the     *)
(* parent's chain into that of the child and back.                         *)
LEMMA HeightIndexOfChild ==
  ASSUME NEW b \in Blocks \ {Genesis}
  PROVE  /\ PutHeight(Path[Prev[b]], Height(b) + 1, b) = Path[b]
         /\ RemoveHeight(Path[b], Height(b) + 1) = Path[Prev[b]]
<1> DEFINE p == Path[Prev[b]]
<1>1. Prev[b] \in Blocks /\ Path[b] = Append(p, b)
  BY TreeAssumption
<1>2. p \in Seq(Blocks) /\ Len(p) \in Nat /\ p = [i \in 1..Len(p) |-> p[i]]
  BY <1>1, PathEnds, LenProperties
<1> HIDE DEF p
<1>3. /\ Path[b] \in Seq(Blocks)
      /\ Len(Path[b]) = Len(p) + 1
      /\ Path[b] = [i \in 1..(Len(p) + 1) |-> IF i = Len(p) + 1 THEN b ELSE p[i]]
  <2>1. /\ Path[b] \in Seq(Blocks)
        /\ Len(Path[b]) = Len(p) + 1
        /\ \A i \in 1..(Len(p) + 1) : Path[b][i] = IF i = Len(p) + 1 THEN b ELSE p[i]
    BY <1>1, <1>2
  <2>2. Path[b] \in [1..(Len(p) + 1) -> Blocks]
    BY <2>1, LenProperties
  <2> QED BY <2>1, <2>2
<1>4. Height(b) + 1 = Len(p) + 1
  BY <1>2, <1>3 DEF Height
<1>5. PutHeight(p, Len(p) + 1, b) = Path[b]
  <2>1. DOMAIN p \cup {Len(p) + 1} = 1..(Len(p) + 1)
    BY <1>2
  <2> QED BY <1>2, <1>3, <2>1 DEF PutHeight
<1>6. RemoveHeight(Path[b], Len(p) + 1) = p
  <2>1. (DOMAIN Path[b]) \ {Len(p) + 1} = 1..Len(p)
    BY <1>2, <1>3
  <2>2. \A i \in 1..Len(p) : Path[b][i] = p[i]
    BY <1>2, <1>3
  <2>3. RemoveHeight(Path[b], Len(p) + 1) = [i \in 1..Len(p) |-> Path[b][i]]
    BY <2>1 DEF RemoveHeight
  <2>4. [i \in 1..Len(p) |-> Path[b][i]] = [i \in 1..Len(p) |-> p[i]]
    BY <2>2
  <2> QED BY <1>2, <2>3, <2>4
<1> QED BY <1>4, <1>5, <1>6 DEF p

-----------------------------------------------------------------------------
(* Facts about status flags and about flushing the index.                  *)

LEMMA FlagsSet ==
  ASSUME NEW stat \in [Blocks -> SUBSET Flags], NEW S, NEW flag \in Flags
  PROVE  /\ SetStatusFlags(stat, S, flag) \in [Blocks -> SUBSET Flags]
         /\ \A b \in Blocks : stat[b] \subseteq SetStatusFlags(stat, S, flag)[b]
         /\ \A b \in Blocks \ S : SetStatusFlags(stat, S, flag)[b] = stat[b]
BY DEF SetStatusFlags

(* New values of status and dirty that keep the index as a set and leave   *)
(* no changed row clean.                                                   *)
Marked(stat, dirt) ==
  /\ stat \in [Blocks -> SUBSET Flags]
  /\ dirt \in SUBSET Blocks
  /\ \A b \in Blocks : stat[b] = {} <=> status[b] = {}
  /\ \A b \in Blocks \ dirt : stat[b] = db.rows[b]

(* flushToDB writes exactly the in-memory index, so the rows it leaves are *)
(* as closed as the index is; the best state is not touched.               *)
LEMMA FlushKeeps ==
  ASSUME TypeOK, IndexInv, StoreInv(db), StoreInv(disk), tip' = tip,
         NEW stat, NEW dirt, Marked(stat, dirt), FlushToDB(stat, dirt)
  PROVE  /\ status' \in [Blocks -> SUBSET Flags] /\ dirty' \in SUBSET Blocks
         /\ Index' = Index /\ IndexInv'
         /\ StoreInv(db') /\ StoreInv(disk')
         /\ db'.best = db.best /\ db'.total = db.total
<1> DEFINE rows == Flushed(stat, dirt)
           newdb == [db EXCEPT !.rows = rows]
<1>1. /\ status' = stat /\ dirty' = {}
      /\ Index' = Index
  BY DEF FlushToDB, Marked, Index
<1>2. rows = stat
  BY DEF Flushed, Marked
<1>3. /\ newdb \in DbRecord
      /\ newdb.rows = stat /\ newdb.best = db.best /\ newdb.blocks = db.blocks /\ newdb.total = db.total
      /\ newdb.hashes = db.hashes /\ newdb.heights = db.heights /\ newdb.journal = db.journal
  BY <1>2 DEF StoreInv, DbRecord, Marked
<1> HIDE DEF rows, newdb
<1>4. db.best \in Blocks /\ db.best \in Index
  BY DEF StoreInv, DbRecord, RowsInv, IndexInv
<1>5. StoreInv(newdb)
  <2>1. MainIndexOf(newdb)
    BY <1>3 DEF StoreInv, MainIndexOf
  <2>2. \A b \in Blocks : newdb.rows[b] # {} <=> b \in Index
    BY <1>3 DEF Marked, Index
  <2>3. \A b \in Blocks : ToSet(Path[b]) \subseteq Blocks
    BY GenesisOnPath
  <2>4. RowsInv(newdb)
    BY <1>3, <1>4, <2>2, <2>3 DEF RowsInv, IndexInv
  <2> QED BY <1>3, <2>1, <2>4 DEF StoreInv
<1>6. db' \in {db, newdb} /\ disk' \in {disk, newdb} /\ (dirt # {} => db' = newdb)
      /\ (dirt = {} => db' = db)
  BY DEF FlushToDB, Commit, NoCommit, rows, newdb
<1>7. StoreInv(db') /\ StoreInv(disk') /\ db'.best = db.best /\ db'.total = db.total
  BY <1>3, <1>5, <1>6
<1>8. db'.rows = stat /\ db'.blocks = db.blocks
  <2>1. CASE dirt = {}
    <3>1. \A b \in Blocks : stat[b] = db.rows[b]
      BY <2>1 DEF Marked
    <3>2. db.rows \in [Blocks -> SUBSET Flags] /\ stat \in [Blocks -> SUBSET Flags]
      BY DEF StoreInv, DbRecord, Marked
    <3>3. stat = db.rows
      BY <3>1, <3>2
    <3> QED BY <2>1, <1>6, <3>3
  <2>2. CASE dirt # {}
    BY <2>2, <1>3, <1>6
  <2> QED BY <2>1, <2>2
<1>9. IndexInv'
  <2>1. \A b \in Blocks : stat[b] # {} <=> b \in Index
    BY DEF Marked, Index
  <2>2. /\ \A b \in Index : ToSet(Path[b]) \subseteq Index
        /\ tip' \in Index
        /\ Index \subseteq db'.blocks
    BY <1>8 DEF IndexInv
  <2> QED BY <1>1, <1>8, <2>1, <2>2 DEF IndexInv
<1>10. status' \in [Blocks -> SUBSET Flags] /\ dirty' \in SUBSET Blocks
  BY <1>1 DEF Marked
<1> QED BY <1>1, <1>7, <1>9, <1>10

(* The same when the error of the flush is ignored.                        *)
LEMMA FlushIgnoringErrorsKeeps ==
  ASSUME TypeOK, IndexInv, StoreInv(db), StoreInv(disk), tip' = tip,
         NEW stat, NEW dirt, Marked(stat, dirt), FlushIgnoringErrors(stat, dirt)
  PROVE  /\ status' \in [Blocks -> SUBSET Flags] /\ dirty' \in SUBSET Blocks
         /\ Index' = Index /\ IndexInv'
         /\ StoreInv(db') /\ StoreInv(disk')
         /\ db'.best = db.best /\ db'.total = db.total
         /\ failures' \in 0..MaxFailures
<1>1. CASE FlushToDB(stat, dirt) /\ UNCHANGED failures
  BY <1>1, FlushKeeps DEF TypeOK, DbTypeOK
<1>2. CASE dirt # {} /\ DbError /\ status' = stat /\ dirty' = dirt /\ NoCommit
  <2>1. /\ db' = db /\ disk' = disk
        /\ status' \in [Blocks -> SUBSET Flags] /\ dirty' \in SUBSET Blocks
    BY <1>2 DEF NoCommit, Marked
  <2>2. Index' = Index
    BY <1>2 DEF Index, Marked
  <2>3. IndexInv'
    BY <1>2, <2>1, <2>2 DEF IndexInv, Marked
  <2>4. failures' \in 0..MaxFailures
    BY <1>2, BoundAssumption DEF DbError, TypeOK, DbTypeOK
  <2> QED BY <2>1, <2>2, <2>3, <2>4
<1> QED BY <1>1, <1>2 DEF FlushIgnoringErrors

-----------------------------------------------------------------------------
(* Facts about the lists of a reorganization.                              *)

(* Two chains agree at least on the genesis block.                         *)
LEMMA ForkLengthPositive ==
  ASSUME NEW a \in Blocks, NEW b \in Blocks
  PROVE  ForkLength(a, b) \in Nat \ {0}
<1> DEFINE S == {i \in DOMAIN Path[a] \cap DOMAIN Path[b] : Path[a][i] = Path[b][i]}
<1>1. /\ Len(Path[a]) \in Nat \ {0} /\ DOMAIN Path[a] = 1..Len(Path[a])
      /\ Len(Path[b]) \in Nat \ {0} /\ DOMAIN Path[b] = 1..Len(Path[b])
  BY PathEnds, LenProperties
<1>2. 1 \in S
  BY <1>1, PathStarts
<1>3. IsFiniteSet(S)
  <2>1. IsFiniteSet(1..Len(Path[a]))
    BY <1>1, FS_Interval
  <2>2. S \subseteq 1..Len(Path[a])
    BY <1>1
  <2> QED BY <2>1, <2>2, FS_Subset
<1> HIDE DEF S
<1>4. Cardinality(S) \in Nat /\ Cardinality(S) # 0
  BY <1>2, <1>3, FS_CardinalityType, FS_EmptySet
<1> QED BY <1>4 DEF ForkLength, S

(* The part of a path above a positive length has no genesis block.        *)
LEMMA PathSuffix ==
  ASSUME NEW b \in Blocks, NEW n \in Nat \ {0}
  PROVE  LET s == SubSeq(Path[b], n + 1, Len(Path[b]))
         IN  s \in Seq(Blocks) /\ \A i \in DOMAIN s : s[i] \in ToSet(Path[b]) \ {Genesis}
<1> DEFINE p == Path[b]
           s == SubSeq(p, n + 1, Len(p))
<1>1. p \in Seq(Blocks) /\ Len(p) \in Nat /\ DOMAIN p = 1..Len(p)
  BY PathEnds, LenProperties
<1>2. \A i \in 1..Len(p) : p[i] \in ToSet(p) /\ (p[i] = Genesis <=> i = 1)
  BY <1>1, PathStarts DEF ToSet
<1> HIDE DEF p
<1>3. /\ s \in Seq(Blocks)
      /\ Len(s) = IF n + 1 <= Len(p) THEN Len(p) - n ELSE 0
      /\ \A i \in 1..(Len(p) - n) : s[i] = p[n + i]
  BY <1>1
<1> HIDE DEF s
<1>4. ASSUME NEW i \in DOMAIN s PROVE s[i] \in ToSet(p) \ {Genesis}
  <2>1. i \in 1..Len(s)
    BY <1>3, <1>4, LenProperties
  <2>2. n \in Nat /\ n > 0 /\ i \in Nat /\ i > 0
    BY <2>1, <1>3
  <2>3. Len(s) = Len(p) - n /\ i <= Len(s)
    <3>1. CASE n + 1 <= Len(p)
      BY <1>3, <2>1, <3>1
    <3>2. CASE ~(n + 1 <= Len(p))
      <4>1. Len(s) = 0
        BY <1>3, <3>2
      <4> QED BY <2>1, <4>1
    <3> QED BY <3>1, <3>2
  <2>4. i \in 1..(Len(p) - n) /\ n + i \in 1..Len(p) /\ n + i # 1
    BY <1>1, <2>2, <2>3
  <2> QED BY <1>2, <1>3, <2>4
<1> QED BY <1>3, <1>4 DEF s, p

LEMMA ReversedSuffix ==
  ASSUME NEW s \in Seq(Blocks), \A i \in DOMAIN s : s[i] # Genesis
  PROVE  Reverse(s) \in Seq(Blocks) /\ \A i \in DOMAIN Reverse(s) : Reverse(s)[i] # Genesis
<1>1. Len(s) \in Nat /\ s \in [1..Len(s) -> Blocks] /\ DOMAIN s = 1..Len(s)
  BY LenProperties
<1>2. \A i \in 1..Len(s) : (Len(s) - i) + 1 \in 1..Len(s)
  BY <1>1
<1>3. Reverse(s) \in [1..Len(s) -> Blocks]
  BY <1>1, <1>2 DEF Reverse
<1>4. Reverse(s) \in Seq(Blocks)
  BY <1>1, <1>3, SeqDef
<1> QED BY <1>1, <1>2, <1>4 DEF Reverse

(* The check phase marks only nodes of its list, and adds flags.           *)
LEMMA CheckMarks ==
  ASSUME TypeOK, IndexInv, NEW nodes, \A i \in DOMAIN nodes : nodes[i] \in Index,
         NEW stat \in [Blocks -> SUBSET Flags], NEW marked \in SUBSET Index,
         \A x \in Blocks : status[x] \subseteq stat[x],
         \A x \in Blocks \ marked : stat[x] = status[x]
  PROVE  LET c == CheckAttach(nodes, stat)
         IN  Marked(c.status, dirty \cup marked \cup c.marked)
<1> DEFINE c == CheckAttach(nodes, stat)
           todo == {i \in DOMAIN nodes : "valid" \notin stat[nodes[i]]}
           fail == {i \in todo : nodes[i] \notin Connectable}
           good  == {nodes[i] : i \in {i \in todo : \A j \in fail : i < j}}
           bad   == {nodes[i] : i \in {i \in fail : \A j \in fail : i <= j}}
           after == {nodes[i] : i \in {i \in DOMAIN nodes : \E j \in fail : j < i}}
           s1 == SetStatusFlags(stat, good, "valid")
           s2 == SetStatusFlags(s1, bad, "failed")
           s3 == SetStatusFlags(s2, after, "ancestor")
<1>1. dirty \in SUBSET Blocks
  BY DEF TypeOK, MemTypeOK
<1>2. good \subseteq Index /\ bad \subseteq Index /\ after \subseteq Index
  OBVIOUS
<1>3. c.status = s3 /\ c.marked = good \cup bad \cup after
  BY DEF CheckAttach
<1> HIDE DEF good, bad, after
<1>4. /\ s3 \in [Blocks -> SUBSET Flags]
      /\ \A x \in Blocks : stat[x] \subseteq s3[x]
      /\ \A x \in Blocks \ (good \cup bad \cup after) : s3[x] = stat[x]
  <2>1. /\ s1 \in [Blocks -> SUBSET Flags]
        /\ \A x \in Blocks : stat[x] \subseteq s1[x]
        /\ \A x \in Blocks \ good : s1[x] = stat[x]
    BY FlagsSet DEF Flags
  <2> HIDE DEF s1
  <2>2. /\ s2 \in [Blocks -> SUBSET Flags]
        /\ \A x \in Blocks : s1[x] \subseteq s2[x]
        /\ \A x \in Blocks \ bad : s2[x] = s1[x]
    BY <2>1, FlagsSet DEF Flags
  <2> HIDE DEF s2
  <2>3. /\ s3 \in [Blocks -> SUBSET Flags]
        /\ \A x \in Blocks : s2[x] \subseteq s3[x]
        /\ \A x \in Blocks \ after : s3[x] = s2[x]
    BY <2>2, FlagsSet DEF Flags
  <2> HIDE DEF s3
  <2> QED BY <2>1, <2>2, <2>3
<1> HIDE DEF s3, c
<1>5. \A x \in Blocks \ (marked \cup c.marked) : c.status[x] = status[x]
  BY <1>3, <1>4
<1>6. \A x \in Blocks : status[x] \subseteq c.status[x]
  BY <1>3, <1>4
<1>7. \A x \in Blocks : c.status[x] = {} <=> status[x] = {}
  BY <1>2, <1>3, <1>5, <1>6 DEF Index
<1>8. \A x \in Blocks \ (dirty \cup marked \cup c.marked) : c.status[x] = db.rows[x]
  BY <1>5 DEF IndexInv
<1> QED BY <1>1, <1>2, <1>3, <1>4, <1>7, <1>8 DEF Marked, Index, c

(* getReorganizeNodes and the check phase: the lists hold indexed blocks   *)
(* other than genesis, and only indexed blocks are marked.                 *)
LEMMA ReorganizeLists ==
  ASSUME TypeOK, IndexInv, NEW b \in Index
  PROVE  LET l == GetReorganizeNodes(b)
             c == CheckAttach(l.attach, l.status)
         IN  /\ l.detach \in Seq(Blocks) /\ \A i \in DOMAIN l.detach : l.detach[i] # Genesis
             /\ l.attach \in Seq(Blocks) /\ \A i \in DOMAIN l.attach : l.attach[i] \in Index \ {Genesis}
             /\ Marked(c.status, dirty \cup l.marked \cup c.marked)
<1> DEFINE l == GetReorganizeNodes(b)
           c == CheckAttach(l.attach, l.status)
<1>0. b \in Blocks /\ tip \in Blocks /\ status \in [Blocks -> SUBSET Flags] /\ dirty \in SUBSET Blocks
  BY DEF Index, TypeOK, MemTypeOK
<1>1. ForkLength(b, tip) \in Nat \ {0}
  BY <1>0, ForkLengthPositive
<1>2. /\ ToAttach(b) \in Seq(Blocks)
      /\ \A i \in DOMAIN ToAttach(b) : ToAttach(b)[i] \in Index \ {Genesis}
  BY <1>0, <1>1, PathSuffix DEF ToAttach, IndexInv
<1>3. /\ ToDetach(b) \in Seq(Blocks)
      /\ \A i \in DOMAIN ToDetach(b) : ToDetach(b)[i] # Genesis
  BY <1>0, <1>1, PathSuffix, ReversedSuffix DEF ToDetach
<1>4. /\ l.detach \in Seq(Blocks) /\ \A i \in DOMAIN l.detach : l.detach[i] # Genesis
      /\ l.attach \in Seq(Blocks) /\ \A i \in DOMAIN l.attach : l.attach[i] \in Index \ {Genesis}
  BY <1>2, <1>3 DEF GetReorganizeNodes
<1>5. /\ l.status \in [Blocks -> SUBSET Flags]
      /\ l.marked \subseteq Index
      /\ \A x \in Blocks : status[x] \subseteq l.status[x]
      /\ \A x \in Blocks \ l.marked : l.status[x] = status[x]
  <2> DEFINE nodes == ToAttach(b)
             bad == {i \in DOMAIN nodes : KnownInvalid(nodes[i])}
             above == {nodes[i] : i \in {j \in DOMAIN nodes : \A k \in bad : k < j}}
  <2>1. above \subseteq Index
    BY <1>2
  <2>2. ASSUME NEW S, S \subseteq Index,
               l.marked = S, l.status = SetStatusFlags(status, S, "ancestor")
        PROVE  /\ l.status \in [Blocks -> SUBSET Flags]
               /\ l.marked \subseteq Index
               /\ \A x \in Blocks : status[x] \subseteq l.status[x]
               /\ \A x \in Blocks \ l.marked : l.status[x] = status[x]
    BY <1>0, <2>2, FlagsSet DEF Flags
  <2>3. CASE KnownInvalid(Prev[b])
    BY <2>3, <2>2 DEF GetReorganizeNodes
  <2>4. CASE ~KnownInvalid(Prev[b]) /\ bad # {}
    BY <2>4, <2>1, <2>2 DEF GetReorganizeNodes
  <2>5. CASE ~KnownInvalid(Prev[b]) /\ bad = {}
    BY <2>5, <1>0 DEF GetReorganizeNodes
  <2> QED BY <2>3, <2>4, <2>5
<1> HIDE DEF l
<1>6. Marked(c.status, dirty \cup l.marked \cup c.marked)
  BY <1>4, <1>5, CheckMarks
<1> QED BY <1>4, <1>6 DEF l, c

-----------------------------------------------------------------------------
(* Every step keeps the invariant.                                         *)

(* What does not depend on the index or the database.                      *)
LEMMA StoresUnchanged ==
  ASSUME IInv, UNCHANGED <<tip, status, dirty, db, disk>>
  PROVE  Index' = Index /\ IndexInv' /\ StoreInv(db)' /\ StoreInv(disk)'
BY DEF IInv, Index, IndexInv, StoreInv, MainIndexOf, RowsInv, DbRecord

(* A caller that does not move keeps what it knows, if the index does not  *)
(* shrink, does not grow while it holds a block to store, and the tip does  *)
(* not move between its commit and its update of memory.                   *)
LEMMA OtherCallers ==
  ASSUME NEW v \in Workers, CallerInv(v), Index \subseteq Index', pc[v] = "store" => Index' = Index,
         pc'[v] = pc[v], blk'[v] = blk[v], attach'[v] = attach[v], detach'[v] = detach[v],
         pc[v] \in {"connected", "disconnected"} => tip' = tip /\ db'.best = db.best
  PROVE  CallerInv(v)'
BY DEF CallerInv, LockedLabels

(* A caller that has stored its block moves to a label whose list, if it   *)
(* needs one, is not empty.                                                *)
LEMMA CallerMoves ==
  ASSUME CallTypeOK, NEW w \in Workers, CallerInv(w), pc[w] \notin {"idle", "lock", "store"}, Index' = Index,
         NEW label \in Labels \ {"idle", "store", "connected", "disconnected"},
         label = "connect" => attach[w] # <<>>, label = "disconnect" => detach[w] # <<>>,
         pc' = [pc EXCEPT ![w] = label], UNCHANGED <<blk, detach, attach>>
  PROVE  CallerInv(w)'
<1>1. pc'[w] = label /\ blk'[w] = blk[w] /\ attach'[w] = attach[w] /\ detach'[w] = detach[w]
  BY DEF CallTypeOK
<1>2. blk[w] # Genesis /\ blk[w] \in Index
  BY DEF CallerInv
<1>3. /\ \A i \in DOMAIN attach[w] : attach[w][i] \in Index \ {Genesis}
      /\ \A i \in DOMAIN detach[w] : detach[w][i] # Genesis
  BY DEF CallerInv
<1> QED BY <1>1, <1>2, <1>3 DEF CallerInv

(* Only one caller at a time is at a locked label.                         *)
LEMMA OneHolder ==
  ASSUME LockInv, NEW w \in Workers, chainLock \in {w, None}, NEW v \in Workers, v # w
  PROVE  pc[v] \notin LockedLabels
BY BoundAssumption DEF LockInv

(* A return clears the caller's fields and frees the lock.                 *)
LEMMA ReturnKeeps ==
  ASSUME CallTypeOK, LockInv, CallInv, Index' = Index,
         NEW w \in Workers, chainLock \in {w, None},
         NEW r \in {None, "main", "side", "orphan", "error"}, Return(w, r)
  PROVE  CallTypeOK' /\ LockInv' /\ CallInv'
<1>1. CallTypeOK'
  BY TreeAssumption DEF CallTypeOK, Return, Labels
<1>2. LockInv'
  BY OneHolder, BoundAssumption DEF CallTypeOK, LockInv, LockedLabels, Return
<1>3. CallInv'
  <2>1. ASSUME NEW v \in Workers, v # w PROVE CallerInv(v)'
    BY <2>1, OtherCallers, OneHolder DEF CallInv, CallTypeOK, Return, LockedLabels
  <2>2. CallerInv(w)'
    BY DEF CallTypeOK, CallerInv, Return
  <2> QED BY <2>1, <2>2 DEF CallInv
<1> QED BY <1>1, <1>2, <1>3

LEMMA InitIInv == Init => IInv
<1> SUFFICES ASSUME Init PROVE IInv
  OBVIOUS
<1>1. Genesis \in Blocks /\ Path[Genesis] = <<Genesis>> /\ ToSet(Path[Genesis]) = {Genesis}
      /\ NumTx[Genesis] \in Int /\ Work \in [Blocks -> Nat]
  BY TreeAssumption, AttributeAssumption DEF ToSet
<1>2. Index = {Genesis}
  BY <1>1 DEF Init, GenesisDb, Index
<1>3. GenesisDb \in DbRecord
  BY <1>1 DEF GenesisDb, DbRecord, Flags
<1>4. StoreInv(GenesisDb)
  BY <1>1, <1>3 DEF StoreInv, MainIndexOf, RowsInv, GenesisDb
<1>5. TypeOK
  BY <1>1, <1>3, BoundAssumption
  DEF Init, TypeOK, CallTypeOK, MemTypeOK, DbTypeOK, Labels, GenesisDb, Flags
<1>6. LockInv
  BY BoundAssumption DEF Init, LockInv, LockedLabels
<1>7. CallInv
  BY DEF Init, CallInv, CallerInv, LockedLabels
<1>8. IndexInv
  BY <1>1, <1>2 DEF Init, IndexInv, GenesisDb, Index
<1>9. MemoryMatchesDb
  BY DEF Init, MemoryMatchesDb, GenesisDb
<1> QED BY <1>4, <1>5, <1>6, <1>7, <1>8, <1>9 DEF IInv, Init

LEMMA SubmitKeeps ==
  ASSUME IInv, NEW w \in Workers, NEW b \in Blocks \ {Genesis}, Submit(w, b)
  PROVE  IInv'
<1> USE DEF Submit, Goto, At, memVars
<1>1. Index' = Index /\ IndexInv' /\ StoreInv(db)' /\ StoreInv(disk)'
  BY StoresUnchanged
<1>2. TypeOK'
  <2>1. CallTypeOK'
    BY ZenonT(40) DEF IInv, TypeOK, CallTypeOK, Labels
  <2>2. MemTypeOK'
    BY DEF IInv, TypeOK, MemTypeOK
  <2>3. DbTypeOK'
    BY BoundAssumption DEF IInv, TypeOK, DbTypeOK, DbError
  <2> QED BY <2>1, <2>2, <2>3 DEF TypeOK
<1>3. LockInv'
  BY DEF IInv, TypeOK, CallTypeOK, LockInv, LockedLabels
<1>4. CallInv'
  <2>1. ASSUME NEW v \in Workers, v # w PROVE CallerInv(v)'
    BY <1>1, <2>1, OtherCallers DEF IInv, CallInv, TypeOK, CallTypeOK
  <2>2. CallerInv(w)'
    BY <1>1 DEF IInv, TypeOK, CallTypeOK, CallInv, CallerInv, LockedLabels
  <2> QED BY <2>1, <2>2 DEF CallInv
<1>5. MemoryMatchesDb'
  BY DEF IInv, TypeOK, CallTypeOK, MemoryMatchesDb
<1> QED BY <1>1, <1>2, <1>3, <1>4, <1>5 DEF IInv

LEMMA LockKeeps ==
  ASSUME IInv, NEW w \in Workers, Lock(w)
  PROVE  IInv'
<1> USE DEF Lock, At, memVars
<1>1. Index' = Index /\ IndexInv' /\ StoreInv(db)' /\ StoreInv(disk)'
  BY StoresUnchanged
<1>2. Admission(blk[w]) \in {"accept", "orphan", "error"}
      /\ (Admission(blk[w]) = "accept" => Prev[blk[w]] \in Index /\ blk[w] \notin Index)
  BY DEF Admission, BlockExists
<1>3. CallTypeOK' /\ LockInv' /\ CallInv'
  <2>1. CASE Admission(blk[w]) # "accept"
    BY <1>1, <1>2, <2>1, ReturnKeeps DEF IInv, TypeOK
  <2>2. CASE Admission(blk[w]) = "accept"
    <3> USE DEF Goto
    <3>1. CallTypeOK'
      BY <2>2 DEF IInv, TypeOK, CallTypeOK, Labels
    <3>2. LockInv'
      BY <2>2, BoundAssumption DEF IInv, TypeOK, CallTypeOK, LockInv, LockedLabels
    <3>3. ASSUME NEW v \in Workers, v # w PROVE CallerInv(v)'
      BY <1>1, <2>2, <3>3, OtherCallers DEF IInv, CallInv, TypeOK, CallTypeOK
    <3>4. CallerInv(w)'
      BY <1>1, <1>2, <2>2 DEF IInv, TypeOK, CallTypeOK, CallInv, CallerInv, LockedLabels
    <3> QED BY <3>1, <3>2, <3>3, <3>4 DEF CallInv
  <2> QED BY <2>1, <2>2
<1>4. MemTypeOK' /\ DbTypeOK'
  BY DEF IInv, TypeOK, MemTypeOK, DbTypeOK
<1>5. MemoryMatchesDb'
  BY DEF IInv, TypeOK, CallTypeOK, MemoryMatchesDb, Goto, Return
<1> QED BY <1>1, <1>3, <1>4, <1>5 DEF IInv, TypeOK

LEMMA RelockKeeps ==
  ASSUME IInv, NEW w \in Workers, Relock(w)
  PROVE  IInv'
<1> USE DEF Relock, Goto, At, memVars
<1>1. Index' = Index /\ IndexInv' /\ StoreInv(db)' /\ StoreInv(disk)'
  BY StoresUnchanged
<1>2. TypeOK'
  BY DEF IInv, TypeOK, CallTypeOK, MemTypeOK, DbTypeOK, Labels, Continue
<1>3. LockInv'
  BY BoundAssumption DEF IInv, TypeOK, CallTypeOK, LockInv, LockedLabels, Continue
<1>4. CallInv'
  <2>1. ASSUME NEW v \in Workers, v # w PROVE CallerInv(v)'
    BY <1>1, <2>1, OtherCallers DEF IInv, CallInv, TypeOK, CallTypeOK
  <2>2. CallerInv(w)'
    BY <1>1, CallerMoves DEF IInv, CallInv, TypeOK, Labels, Continue
  <2> QED BY <2>1, <2>2 DEF CallInv
<1>5. MemoryMatchesDb'
  BY DEF IInv, TypeOK, CallTypeOK, MemoryMatchesDb, Continue
<1> QED BY <1>1, <1>2, <1>3, <1>4, <1>5 DEF IInv

LEMMA AcceptedKeeps ==
  ASSUME IInv, NEW w \in Workers, Accepted(w)
  PROVE  IInv'
<1> USE DEF Accepted, At, memVars
<1>1. Index' = Index /\ IndexInv' /\ StoreInv(db)' /\ StoreInv(disk)'
  BY StoresUnchanged
<1>2. ret[w] \in {None, "main", "side", "orphan", "error"}
  BY DEF IInv, TypeOK, CallTypeOK
<1>3. CallTypeOK' /\ LockInv' /\ CallInv'
  BY <1>1, <1>2, ReturnKeeps DEF IInv, TypeOK
<1>4. MemTypeOK' /\ DbTypeOK'
  BY DEF IInv, TypeOK, MemTypeOK, DbTypeOK
<1>5. MemoryMatchesDb'
  BY DEF IInv, TypeOK, CallTypeOK, MemoryMatchesDb, Return
<1> QED BY <1>1, <1>3, <1>4, <1>5 DEF IInv, TypeOK

LEMMA AssertFailsKeeps ==
  ASSUME IInv, NEW w \in Workers, AssertFails(w)
  PROVE  IInv'
<1> USE DEF AssertFails, Goto, At, memVars
<1>1. Index' = Index /\ IndexInv' /\ StoreInv(db)' /\ StoreInv(disk)'
  BY StoresUnchanged
<1>2. TypeOK'
  BY DEF IInv, TypeOK, CallTypeOK, MemTypeOK, DbTypeOK, Labels
<1>3. LockInv'
  BY DEF IInv, TypeOK, CallTypeOK, LockInv, LockedLabels
<1>4. CallInv'
  <2>1. ASSUME NEW v \in Workers, v # w PROVE CallerInv(v)'
    BY <1>1, <2>1, OtherCallers DEF IInv, CallInv, TypeOK, CallTypeOK
  <2>2. CallerInv(w)'
    BY <1>1, CallerMoves DEF IInv, CallInv, TypeOK, Labels
  <2> QED BY <2>1, <2>2 DEF CallInv
<1>5. MemoryMatchesDb'
  BY DEF IInv, TypeOK, CallTypeOK, MemoryMatchesDb
<1> QED BY <1>1, <1>2, <1>3, <1>4, <1>5 DEF IInv

(* The block is stored and its node added: its parent is in the index.     *)
LEMMA StoreBlockKeeps ==
  ASSUME IInv, NEW w \in Workers, StoreBlock(w)
  PROVE  IInv'
<1> DEFINE b == blk[w]
           newdb == [db EXCEPT !.blocks = @ \cup {b}]
<1> USE DEF At, memVars
<1>1. b \in Blocks \ {Genesis} /\ Prev[b] \in Index /\ chainLock = w
  BY DEF IInv, TypeOK, CallTypeOK, CallInv, CallerInv, LockInv, LockedLabels, StoreBlock
<1>2. /\ status' = [status EXCEPT ![b] = {"stored"}] /\ dirty' = dirty \cup {b} /\ tip' = tip
      /\ db' = newdb /\ disk' \in {disk, newdb} /\ snapshot' = snapshot
      /\ pc' = [pc EXCEPT ![w] = "flush"]
      /\ UNCHANGED <<blk, detach, attach, reorg, ret, chainLock, failures, crashes>>
      /\ workSum' = NewBlockNode(b, workSum)
  BY DEF StoreBlock, Commit, Goto
<1> HIDE DEF b
<1>3. /\ newdb \in DbRecord
      /\ newdb.rows = db.rows /\ newdb.best = db.best /\ newdb.blocks = db.blocks \cup {b} /\ newdb.total = db.total
      /\ newdb.hashes = db.hashes /\ newdb.heights = db.heights /\ newdb.journal = db.journal
  BY <1>1 DEF IInv, StoreInv, DbRecord
<1> HIDE DEF newdb
<1>4. StoreInv(newdb)
  BY <1>3 DEF IInv, StoreInv, MainIndexOf, RowsInv
<1>5. StoreInv(db') /\ StoreInv(disk')
  BY <1>2, <1>4 DEF IInv
<1>6. Index' = Index \cup {b}
  BY <1>1, <1>2 DEF IInv, TypeOK, MemTypeOK, Index
<1>7. IndexInv'
  <2>1. ToSet(Path[b]) \subseteq Index'
    BY <1>1, <1>6, PathOfChild DEF IInv, IndexInv
  <2>2. \A x \in Index' : ToSet(Path[x]) \subseteq Index'
    BY <1>6, <2>1 DEF IInv, IndexInv
  <2>3. \A x \in Blocks \ dirty' : status'[x] = db'.rows[x]
    BY <1>2, <1>3 DEF IInv, IndexInv, TypeOK, MemTypeOK
  <2>4. tip' \in Index' /\ Index' \subseteq db'.blocks /\ \A x \in Blocks : db'.rows[x] # {} => x \in Index'
    BY <1>2, <1>3, <1>6 DEF IInv, IndexInv
  <2> QED BY <2>2, <2>3, <2>4 DEF IndexInv
<1>8. CallTypeOK'
  BY <1>2 DEF IInv, TypeOK, CallTypeOK, Labels
<1>9. MemTypeOK'
  <2>1. workSum' \in [Blocks -> Nat]
    <3>1. Work[b] \in Nat /\ Work[Prev[b]] \in Nat /\ Work[b] + Work[Prev[b]] \in Nat
      BY <1>1, AttributeAssumption DEF Index
    <3> QED BY <1>1, <1>2, <3>1 DEF IInv, TypeOK, MemTypeOK, NewBlockNode
  <2>2. status' \in [Blocks -> SUBSET Flags] /\ dirty' \in SUBSET Blocks
    BY <1>1, <1>2 DEF IInv, TypeOK, MemTypeOK, Flags
  <2>3. tip' \in Blocks /\ snapshot' \in [best : Blocks, total : Int]
    BY <1>2 DEF IInv, TypeOK, MemTypeOK
  <2> QED BY <2>1, <2>2, <2>3 DEF MemTypeOK
<1>10. DbTypeOK'
  BY <1>2, <1>5 DEF IInv, TypeOK, DbTypeOK, StoreInv
<1>11. LockInv'
  BY <1>1, <1>2 DEF IInv, TypeOK, CallTypeOK, LockInv, LockedLabels
<1>12. CallInv'
  <2>1. ASSUME NEW v \in Workers, v # w PROVE CallerInv(v)'
    <3>1. pc[v] # "store"
      BY <1>1, <2>1, OneHolder DEF IInv, LockedLabels
    <3> QED BY <1>1, <1>2, <1>3, <1>6, <2>1, <3>1, OtherCallers DEF IInv, CallInv, TypeOK, CallTypeOK
  <2>2. CallerInv(w)'
    BY <1>1, <1>2, <1>6 DEF IInv, TypeOK, CallTypeOK, CallInv, CallerInv, b
  <2> QED BY <2>1, <2>2 DEF CallInv
<1>13. MemoryMatchesDb'
  BY <1>2, <1>3 DEF IInv, TypeOK, CallTypeOK, MemoryMatchesDb, StoreBlock
<1> QED BY <1>5, <1>7, <1>8, <1>9, <1>10, <1>11, <1>12, <1>13 DEF IInv, TypeOK

(* A step of w that moves neither the tip nor the best state, outside the  *)
(* window between a commit and the update of memory.                       *)
LEMMA MemoryKept ==
  ASSUME IInv, NEW w \in Workers,
         pc[w] \notin {"connected", "disconnected"}, \A v \in Workers \ {w} : pc'[v] = pc[v],
         tip' = tip, snapshot' = snapshot, db'.best = db.best, db'.total = db.total
  PROVE  MemoryMatchesDb'
BY DEF IInv, MemoryMatchesDb

(* A step of the lock holder w to another label, that does not touch its   *)
(* block, its lists or the lock.                                           *)
LEMMA GotoKeeps ==
  ASSUME IInv, NEW w \in Workers, pc[w] \in LockedLabels, NEW label \in LockedLabels, Goto(w, label),
         UNCHANGED <<blk, detach, attach, ret, chainLock, reorg>>, Index \subseteq Index', CallerInv(w)'
  PROVE  CallTypeOK' /\ LockInv' /\ CallInv'
<1> USE DEF Goto
<1>1. CallTypeOK'
  BY DEF IInv, TypeOK, CallTypeOK, Labels, LockedLabels
<1>2. LockInv'
  BY DEF IInv, TypeOK, CallTypeOK, LockInv
<1>3. ASSUME NEW v \in Workers, v # w PROVE CallerInv(v)'
  <2>1. pc[v] \notin LockedLabels
    BY <1>3, OneHolder DEF IInv, LockInv
  <2> QED BY <1>3, <2>1, OtherCallers DEF IInv, CallInv, TypeOK, CallTypeOK, LockedLabels
<1> QED BY <1>1, <1>2, <1>3 DEF CallInv

LEMMA FlushNewNodeKeeps ==
  ASSUME IInv, NEW w \in Workers, FlushNewNode(w)
  PROVE  IInv'
<1> USE DEF FlushNewNode, At
<1>1. Marked(status, dirty)
  BY DEF IInv, TypeOK, MemTypeOK, IndexInv, Marked
<1>2. /\ status' \in [Blocks -> SUBSET Flags] /\ dirty' \in SUBSET Blocks
      /\ Index' = Index /\ IndexInv' /\ StoreInv(db') /\ StoreInv(disk')
      /\ db'.best = db.best /\ db'.total = db.total
  BY <1>1, FlushKeeps DEF IInv
<1>3. CallerInv(w)'
  BY <1>2, CallerMoves DEF IInv, CallInv, TypeOK, Goto, Labels
<1>4. CallTypeOK' /\ LockInv' /\ CallInv'
  BY <1>2, <1>3, GotoKeeps DEF LockedLabels
<1>5. MemTypeOK' /\ DbTypeOK'
  BY <1>2 DEF IInv, TypeOK, MemTypeOK, DbTypeOK, StoreInv
<1>6. MemoryMatchesDb'
  BY <1>2, MemoryKept DEF Goto, IInv, TypeOK, CallTypeOK
<1> QED BY <1>2, <1>4, <1>5, <1>6 DEF IInv, TypeOK

LEMMA FlushBeforeUpdateKeeps ==
  ASSUME IInv, NEW w \in Workers, FlushBeforeUpdate(w)
  PROVE  IInv'
<1> USE DEF FlushBeforeUpdate, At, callVars
<1>1. Marked(status, dirty)
  BY DEF IInv, TypeOK, MemTypeOK, IndexInv, Marked
<1>2. /\ status' \in [Blocks -> SUBSET Flags] /\ dirty' \in SUBSET Blocks
      /\ Index' = Index /\ IndexInv' /\ StoreInv(db') /\ StoreInv(disk')
      /\ db'.best = db.best /\ db'.total = db.total
  BY <1>1, FlushKeeps DEF IInv
<1>3. CallInv'
  BY <1>2, OtherCallers DEF IInv, CallInv
<1>4. TypeOK' /\ LockInv'
  BY <1>2 DEF IInv, TypeOK, CallTypeOK, MemTypeOK, DbTypeOK, StoreInv, LockInv
<1>5. MemoryMatchesDb'
  BY <1>2 DEF IInv, MemoryMatchesDb
<1> QED BY <1>2, <1>3, <1>4, <1>5 DEF IInv

(* Recording a verdict on an indexed block.                                *)
LEMMA VerdictMarked ==
  ASSUME IInv, NEW b \in Index, NEW flag \in Flags
  PROVE  Marked(SetStatusFlags(status, {b}, flag), dirty \cup {b})
<1>1. status \in [Blocks -> SUBSET Flags] /\ dirty \in SUBSET Blocks /\ b \in Blocks /\ status[b] # {}
  BY DEF IInv, TypeOK, MemTypeOK, Index
<1>2. \A x \in Blocks \ dirty : status[x] = db.rows[x]
  BY DEF IInv, IndexInv
<1> QED BY <1>1, <1>2, FlagsSet DEF Marked

LEMMA ExtendTipKeeps ==
  ASSUME IInv, NEW w \in Workers, ExtendTip(w)
  PROVE  IInv'
<1> DEFINE b == blk[w]
           verdict == IF b \in Connectable THEN "valid" ELSE "failed"
<1>1. b \in Index \ {Genesis} /\ pc[w] = "best" /\ chainLock = w /\ tip' = tip
  BY DEF ExtendTip, At, IInv, CallInv, CallerInv, LockInv, LockedLabels
<1>2. Marked(SetStatusFlags(status, {b}, verdict), dirty \cup {b})
  BY <1>1, VerdictMarked DEF Flags
<1>3. /\ status' \in [Blocks -> SUBSET Flags] /\ dirty' \in SUBSET Blocks
      /\ Index' = Index /\ IndexInv' /\ StoreInv(db') /\ StoreInv(disk')
      /\ db'.best = db.best /\ db'.total = db.total
      /\ failures' \in 0..MaxFailures
  <2>1. CASE b \notin FastAdd
    <3>1. FlushIgnoringErrors(SetStatusFlags(status, {b}, verdict), dirty \cup {b})
      BY <2>1 DEF ExtendTip
    <3> QED BY <1>1, <1>2, <3>1, FlushIgnoringErrorsKeeps DEF IInv
  <2>2. CASE b \in FastAdd
    <3>1. UNCHANGED <<tip, status, dirty, db, disk, failures>>
      BY <1>1, <2>2 DEF ExtendTip
    <3> QED BY <3>1, StoresUnchanged DEF IInv, TypeOK, MemTypeOK, DbTypeOK
  <2> QED BY <2>1, <2>2
<1>4. CallTypeOK' /\ LockInv' /\ CallInv'
  <2>1. CASE Return(w, "error")
    BY <1>1, <1>3, <2>1, ReturnKeeps DEF IInv, TypeOK
  <2>2. CASE /\ Goto(w, "connect")
             /\ attach' = [attach EXCEPT ![w] = <<b>>]
             /\ UNCHANGED <<blk, detach, reorg, ret, chainLock>>
    <3>1. CallTypeOK'
      BY <1>1, <2>2 DEF IInv, TypeOK, CallTypeOK, Labels, Goto, Index
    <3>2. LockInv'
      BY <1>1, <2>2 DEF IInv, TypeOK, CallTypeOK, LockInv, LockedLabels, Goto
    <3>3. ASSUME NEW v \in Workers, v # w PROVE CallerInv(v)'
      BY <1>1, <1>3, <2>2, <3>3, OtherCallers DEF IInv, CallInv, TypeOK, CallTypeOK, Goto
    <3>4. CallerInv(w)'
      <4>1. attach'[w] = <<b>> /\ pc'[w] = "connect" /\ blk'[w] = b /\ detach'[w] = detach[w]
        BY <2>2 DEF IInv, TypeOK, CallTypeOK, Goto
      <4>2. <<b>> # <<>> /\ \A i \in DOMAIN <<b>> : <<b>>[i] = b
        OBVIOUS
      <4>3. \A i \in DOMAIN detach[w] : detach[w][i] # Genesis
        BY DEF IInv, CallInv, CallerInv
      <4> QED BY <1>1, <1>3, <4>1, <4>2, <4>3 DEF CallerInv
    <3> QED BY <3>1, <3>2, <3>3, <3>4 DEF CallInv
  <2> QED BY <2>1, <2>2 DEF ExtendTip
<1>5. MemTypeOK' /\ DbTypeOK'
  BY <1>3 DEF IInv, TypeOK, MemTypeOK, DbTypeOK, StoreInv, ExtendTip
<1>6. MemoryMatchesDb'
  BY <1>1, <1>3, MemoryKept DEF Goto, Return, IInv, TypeOK, CallTypeOK, ExtendTip
<1> QED BY <1>3, <1>4, <1>5, <1>6 DEF IInv, TypeOK

LEMMA StaysOnSideChainKeeps ==
  ASSUME IInv, NEW w \in Workers, StaysOnSideChain(w)
  PROVE  IInv'
<1> USE DEF StaysOnSideChain, At, Goto
<1>1. Index' = Index /\ IndexInv' /\ StoreInv(db)' /\ StoreInv(disk)'
  BY StoresUnchanged
<1>2. CallTypeOK'
  BY DEF IInv, TypeOK, CallTypeOK, Labels
<1>3. MemTypeOK' /\ DbTypeOK'
  BY AttributeAssumption DEF IInv, TypeOK, CallTypeOK, MemTypeOK, DbTypeOK
<1>4. LockInv'
  BY BoundAssumption DEF IInv, TypeOK, CallTypeOK, LockInv, LockedLabels
<1>5. CallInv'
  <2>1. ASSUME NEW v \in Workers, v # w PROVE CallerInv(v)'
    BY <1>1, <2>1, OtherCallers DEF IInv, CallInv, TypeOK, CallTypeOK
  <2>2. CallerInv(w)'
    BY <1>1, CallerMoves DEF IInv, CallInv, TypeOK, Labels
  <2> QED BY <2>1, <2>2 DEF CallInv
<1>6. MemoryMatchesDb'
  BY MemoryKept DEF IInv, TypeOK, CallTypeOK
<1> QED BY <1>1, <1>2, <1>3, <1>4, <1>5, <1>6 DEF IInv, TypeOK

(* The lists of a reorganization hold indexed blocks, and what it marks is *)
(* dirty.                                                                  *)
LEMMA StartReorganizeKeeps ==
  ASSUME IInv, NEW w \in Workers, StartReorganize(w)
  PROVE  IInv'
<1> DEFINE b == blk[w]
           l == GetReorganizeNodes(b)
           c == CheckAttach(l.attach, l.status)
<1>1. b \in Index \ {Genesis} /\ pc[w] = "best" /\ chainLock = w
  BY DEF StartReorganize, At, IInv, CallInv, CallerInv, LockInv, LockedLabels
<1>2. /\ l.detach \in Seq(Blocks) /\ \A i \in DOMAIN l.detach : l.detach[i] # Genesis
      /\ l.attach \in Seq(Blocks) /\ \A i \in DOMAIN l.attach : l.attach[i] \in Index \ {Genesis}
      /\ Marked(c.status, dirty \cup l.marked \cup c.marked)
  BY <1>1, ReorganizeLists DEF IInv
<1>3. /\ status' = c.status /\ dirty' = dirty \cup l.marked \cup c.marked
      /\ workSum' = [workSum EXCEPT ![b] = Work[b]]
      /\ reorg' = [reorg EXCEPT ![w] = TRUE]
      /\ UNCHANGED <<blk, ret, chainLock, tip, snapshot, db, disk, failures, crashes>>
  BY DEF StartReorganize
<1>4. \/ /\ pc' = [pc EXCEPT ![w] = "abort"]
         /\ UNCHANGED <<detach, attach>>
      \/ /\ detach' = [detach EXCEPT ![w] = l.detach]
         /\ attach' = [attach EXCEPT ![w] = l.attach]
         /\ pc' = [pc EXCEPT ![w] = Continue(l.detach, l.attach)]
  BY DEF StartReorganize, Goto
<1> HIDE DEF b, l, c
<1>5. Index' = Index
  BY <1>2, <1>3 DEF Index, Marked
<1>6. IndexInv' /\ StoreInv(db') /\ StoreInv(disk')
  BY <1>2, <1>3, <1>5 DEF IInv, IndexInv, Marked
<1>7. MemTypeOK'
  <2>1. workSum' \in [Blocks -> Nat]
    BY <1>1, <1>3, AttributeAssumption DEF IInv, TypeOK, MemTypeOK, Index
  <2> QED BY <1>2, <1>3, <2>1 DEF IInv, TypeOK, MemTypeOK, Marked
<1>8. DbTypeOK'
  BY <1>3 DEF IInv, TypeOK, DbTypeOK
<1>9. MemoryMatchesDb'
  BY <1>1, <1>3, <1>4, MemoryKept DEF IInv, TypeOK, CallTypeOK
<1>10. CallTypeOK'
  BY <1>2, <1>3, <1>4 DEF IInv, TypeOK, CallTypeOK, Labels, Continue
<1>11. LockInv'
  BY <1>1, <1>3, <1>4 DEF IInv, TypeOK, CallTypeOK, LockInv, LockedLabels, Continue
<1>12. CallInv'
  <2>1. ASSUME NEW v \in Workers, v # w PROVE CallerInv(v)'
    BY <1>3, <1>4, <1>5, <2>1, OtherCallers DEF IInv, CallInv, TypeOK, CallTypeOK
  <2>2. CallerInv(w)'
    <3>1. CASE pc' = [pc EXCEPT ![w] = "abort"] /\ UNCHANGED <<detach, attach>>
      BY <1>1, <1>3, <1>5, <3>1, CallerMoves DEF IInv, CallInv, TypeOK, Labels
    <3>2. CASE /\ detach' = [detach EXCEPT ![w] = l.detach]
               /\ attach' = [attach EXCEPT ![w] = l.attach]
               /\ pc' = [pc EXCEPT ![w] = Continue(l.detach, l.attach)]
      <4>1. detach'[w] = l.detach /\ attach'[w] = l.attach /\ blk'[w] = b
            /\ pc'[w] = Continue(l.detach, l.attach)
        BY <1>3, <3>2 DEF IInv, TypeOK, CallTypeOK, b
      <4> QED BY <1>1, <1>2, <1>5, <4>1 DEF CallerInv, Continue
    <3> QED BY <1>4, <3>1, <3>2
  <2> QED BY <2>1, <2>2 DEF CallInv
<1> QED BY <1>6, <1>7, <1>8, <1>9, <1>10, <1>11, <1>12 DEF IInv, TypeOK

(* With no row dirty, the index is what the database holds.                *)
LEMMA CleanIndex ==
  ASSUME IInv, dirty = {}
  PROVE  \A b \in Blocks : db.rows[b] # {} <=> b \in Index
BY DEF IInv, IndexInv, Index

(* While the lock holder is outside the window, memory and database agree. *)
LEMMA HolderSeesBest ==
  ASSUME IInv, NEW w \in Workers, pc[w] \in LockedLabels \ {"connected", "disconnected"}
  PROVE  tip = db.best /\ snapshot = [best |-> db.best, total |-> db.total]
<1>1. \A v \in Workers : pc[v] \notin {"connected", "disconnected"}
  BY DEF IInv, LockInv, LockedLabels
<1> QED BY <1>1 DEF IInv, MemoryMatchesDb

(* The five fields that connectBlock and disconnectBlock replace.          *)
LEMMA UpdatedRecord ==
  ASSUME NEW d \in DbRecord, NEW best \in Blocks, NEW total \in Int, NEW hashes \in SUBSET Blocks,
         NEW heights \in Seq(Blocks), NEW journal \in SUBSET Blocks
  PROVE  [d EXCEPT !.best = best, !.total = total, !.hashes = hashes,
                   !.heights = heights, !.journal = journal] \in DbRecord
BY DEF DbRecord

LEMMA ConnectCommitKeeps ==
  ASSUME IInv, NEW w \in Workers, ConnectCommit(w)
  PROVE  IInv'
<1> DEFINE n == Head(attach[w])
           newdb == ConnectedDb(n)
<1> USE DEF ConnectCommit, At, memVars
<1>1. /\ attach[w] \in Seq(Blocks) /\ attach[w] # <<>>
      /\ \A i \in DOMAIN attach[w] : attach[w][i] \in Index \ {Genesis}
      /\ chainLock = w
  BY DEF IInv, TypeOK, CallTypeOK, CallInv, CallerInv, LockInv, LockedLabels
<1>2. n \in Index \ {Genesis} /\ n \in Blocks \ {Genesis} /\ Prev[n] = tip /\ dirty = {}
  <2>1. 1 \in DOMAIN attach[w] /\ n = attach[w][1]
    BY <1>1
  <2> QED BY <1>1, <2>1 DEF Index
<1>3. tip = db.best /\ snapshot = [best |-> db.best, total |-> db.total]
  BY HolderSeesBest DEF LockedLabels
<1>4. db' = newdb /\ disk' \in {disk, newdb} /\ pc' = [pc EXCEPT ![w] = "connected"]
      /\ UNCHANGED <<blk, detach, attach, reorg, ret, chainLock, memVars, failures, crashes>>
  BY DEF Commit, Goto
<1> HIDE DEF n, ConnectCommit
<1>5. Height(n) + 1 \in Nat /\ NumTx[n] \in Int /\ db.total \in Int
  <2>1. Len(Path[n]) \in Nat \ {0}
    BY <1>2, PathEnds
  <2>2. \A k \in Nat \ {0} : (k - 1) + 1 \in Nat
    OBVIOUS
  <2>3. NumTx[n] \in Int /\ db.total \in Int
    BY <1>2, AttributeAssumption DEF IInv, StoreInv, DbRecord
  <2> QED BY <2>1, <2>2, <2>3 DEF Height
<1>6. db \in DbRecord /\ MainIndexOf(db) /\ RowsInv(db)
  BY DEF IInv, StoreInv
<1>7. /\ newdb.blocks = db.blocks /\ newdb.rows = db.rows /\ newdb.best = n
      /\ newdb.total = db.total + NumTx[n] /\ newdb.hashes = db.hashes \cup {n}
      /\ newdb.heights = PutHeight(db.heights, Height(n) + 1, n)
      /\ newdb.journal = db.journal \cup {n}
  BY <1>3, <1>6 DEF ConnectedDb, DbRecord
<1>8. newdb.heights = Path[n]
  BY <1>2, <1>3, <1>6, <1>7, HeightIndexOfChild DEF MainIndexOf
<1>9. newdb \in DbRecord
  <2>1. Path[n] \in Seq(Blocks)
    BY <1>2, PathEnds
  <2>2. /\ PutHeight(db.heights, Height(n) + 1, n) \in Seq(Blocks)
        /\ snapshot.total + NumTx[n] \in Int
        /\ db.hashes \cup {n} \in SUBSET Blocks /\ db.journal \cup {n} \in SUBSET Blocks
    BY <1>2, <1>3, <1>5, <1>6, <1>7, <1>8, <2>1 DEF DbRecord
  <2> QED BY <1>2, <1>6, <2>2, UpdatedRecord DEF ConnectedDb
<1> HIDE DEF newdb
<1>10. MainIndexOf(newdb)
  <2>1. ToSet(Path[n]) = ToSet(Path[Prev[n]]) \cup {n}
    BY <1>2, PathOfChild
  <2> QED BY <1>2, <1>3, <1>6, <1>7, <1>8, <2>1 DEF MainIndexOf
<1>11. RowsInv(newdb)
  BY <1>2, <1>6, <1>7, CleanIndex DEF RowsInv
<1>12. StoreInv(db') /\ StoreInv(disk')
  BY <1>4, <1>9, <1>10, <1>11 DEF IInv, StoreInv
<1>13. Index' = Index /\ IndexInv'
  BY <1>4, <1>7 DEF IInv, IndexInv, Index
<1>14. CallerInv(w)'
  <2>1. pc'[w] = "connected" /\ attach'[w] = attach[w] /\ blk'[w] = blk[w] /\ detach'[w] = detach[w]
        /\ tip' = tip /\ db'.best = n
    BY <1>4, <1>7 DEF IInv, TypeOK, CallTypeOK
  <2>2. blk[w] \in Index \ {Genesis} /\ \A i \in DOMAIN detach[w] : detach[w][i] # Genesis
    BY DEF IInv, CallInv, CallerInv, ConnectCommit
  <2> QED BY <1>1, <1>2, <1>13, <2>1, <2>2 DEF CallerInv, n
<1>15. CallTypeOK' /\ LockInv' /\ CallInv'
  <2>1. pc[w] \in LockedLabels /\ Goto(w, "connected") /\ "connected" \in LockedLabels
    BY DEF LockedLabels, ConnectCommit
  <2> QED BY <1>4, <1>13, <1>14, <2>1, GotoKeeps
<1>16. MemTypeOK' /\ DbTypeOK'
  BY <1>4, <1>12 DEF IInv, TypeOK, MemTypeOK, DbTypeOK, StoreInv
<1>17. MemoryMatchesDb'
  BY <1>4 DEF IInv, TypeOK, CallTypeOK, MemoryMatchesDb
<1> QED BY <1>12, <1>13, <1>15, <1>16, <1>17 DEF IInv, TypeOK

LEMMA DisconnectCommitKeeps ==
  ASSUME IInv, NEW w \in Workers, DisconnectCommit(w)
  PROVE  IInv'
<1> DEFINE newdb == DisconnectedDb(tip)
<1> USE DEF DisconnectCommit, At, memVars
<1>1. /\ detach[w] \in Seq(Blocks) /\ detach[w] # <<>>
      /\ \A i \in DOMAIN detach[w] : detach[w][i] # Genesis
      /\ chainLock = w
  BY DEF IInv, TypeOK, CallTypeOK, CallInv, CallerInv, LockInv, LockedLabels
<1>2. Head(detach[w]) = tip /\ tip \in Blocks \ {Genesis} /\ dirty = {}
  <2>1. 1 \in DOMAIN detach[w] /\ Head(detach[w]) = detach[w][1]
    BY <1>1
  <2> QED BY <1>1, <2>1 DEF IInv, TypeOK, MemTypeOK
<1>3. tip = db.best /\ snapshot = [best |-> db.best, total |-> db.total]
  BY HolderSeesBest DEF LockedLabels
<1>4. db' = newdb /\ disk' \in {disk, newdb} /\ pc' = [pc EXCEPT ![w] = "disconnected"]
      /\ UNCHANGED <<blk, detach, attach, reorg, ret, chainLock, memVars, failures, crashes>>
  BY DEF Commit, Goto
<1> HIDE DEF DisconnectCommit
<1>5. NumTx[tip] \in Int /\ db.total \in Int /\ Prev[tip] \in Blocks
  BY <1>2, AttributeAssumption, PathOfChild DEF IInv, StoreInv, DbRecord
<1>6. db \in DbRecord /\ MainIndexOf(db) /\ RowsInv(db)
  BY DEF IInv, StoreInv
<1>7. /\ newdb.blocks = db.blocks /\ newdb.rows = db.rows /\ newdb.best = Prev[tip]
      /\ newdb.total = db.total - NumTx[tip] /\ newdb.hashes = db.hashes \ {tip}
      /\ newdb.heights = RemoveHeight(db.heights, Height(tip) + 1)
      /\ newdb.journal = db.journal \ {tip}
  BY <1>3, <1>6 DEF DisconnectedDb, DbRecord
<1>8. newdb.heights = Path[Prev[tip]]
  BY <1>2, <1>3, <1>6, <1>7, HeightIndexOfChild DEF MainIndexOf
<1>9. newdb \in DbRecord
  <2>1. Path[Prev[tip]] \in Seq(Blocks)
    BY <1>5, PathEnds
  <2>2. /\ RemoveHeight(db.heights, Height(tip) + 1) \in Seq(Blocks)
        /\ snapshot.total - NumTx[tip] \in Int
        /\ db.hashes \ {tip} \in SUBSET Blocks /\ db.journal \ {tip} \in SUBSET Blocks
    BY <1>2, <1>3, <1>5, <1>6, <1>7, <1>8, <2>1 DEF DbRecord
  <2> QED BY <1>5, <1>6, <2>2, UpdatedRecord DEF DisconnectedDb
<1> HIDE DEF newdb
<1>10. MainIndexOf(newdb)
  <2>1. ToSet(Path[tip]) = ToSet(Path[Prev[tip]]) \cup {tip} /\ tip \notin ToSet(Path[Prev[tip]])
    BY <1>2, PathOfChild
  <2> QED BY <1>2, <1>3, <1>6, <1>7, <1>8, <2>1 DEF MainIndexOf
<1>11. RowsInv(newdb)
  <2>1. db.rows[Prev[tip]] # {}
    BY <1>2, <1>3, <1>6, PathOfChild DEF RowsInv
  <2> QED BY <1>6, <1>7, <2>1 DEF RowsInv
<1>12. StoreInv(db') /\ StoreInv(disk')
  BY <1>4, <1>9, <1>10, <1>11 DEF IInv, StoreInv
<1>13. Index' = Index /\ IndexInv'
  BY <1>4, <1>7 DEF IInv, IndexInv, Index
<1>14. CallerInv(w)'
  <2>1. pc'[w] = "disconnected" /\ attach'[w] = attach[w] /\ blk'[w] = blk[w] /\ detach'[w] = detach[w]
        /\ tip' = tip /\ db'.best = Prev[tip]
    BY <1>4, <1>7 DEF IInv, TypeOK, CallTypeOK
  <2>2. blk[w] \in Index \ {Genesis} /\ \A i \in DOMAIN attach[w] : attach[w][i] \in Index \ {Genesis}
    BY DEF IInv, CallInv, CallerInv, DisconnectCommit
  <2> QED BY <1>1, <1>2, <1>13, <2>1, <2>2 DEF CallerInv
<1>15. CallTypeOK' /\ LockInv' /\ CallInv'
  <2>1. pc[w] \in LockedLabels /\ Goto(w, "disconnected") /\ "disconnected" \in LockedLabels
    BY DEF LockedLabels, DisconnectCommit
  <2> QED BY <1>4, <1>13, <1>14, <2>1, GotoKeeps
<1>16. MemTypeOK' /\ DbTypeOK'
  BY <1>4, <1>12 DEF IInv, TypeOK, MemTypeOK, DbTypeOK, StoreInv
<1>17. MemoryMatchesDb'
  BY <1>4 DEF IInv, TypeOK, CallTypeOK, MemoryMatchesDb
<1> QED BY <1>12, <1>13, <1>15, <1>16, <1>17 DEF IInv, TypeOK

(* Memory catches up with the commit of the same caller.                   *)
LEMMA ConnectInMemoryKeeps ==
  ASSUME IInv, NEW w \in Workers, ConnectInMemory(w)
  PROVE  IInv'
<1> DEFINE n == Head(attach[w])
<1> USE DEF ConnectInMemory, SetTip, At, Goto
<1>1. /\ attach[w] \in Seq(Blocks) /\ attach[w] # <<>>
      /\ \A i \in DOMAIN attach[w] : attach[w][i] \in Index \ {Genesis}
      /\ chainLock = w /\ db.best = n
  BY DEF IInv, TypeOK, CallTypeOK, CallInv, CallerInv, LockInv, LockedLabels
<1>2. n \in Index \ {Genesis} /\ n \in Blocks
  <2>1. 1 \in DOMAIN attach[w] /\ n = attach[w][1]
    BY <1>1
  <2> QED BY <1>1, <2>1 DEF Index
<1>3. /\ Tail(attach[w]) \in Seq(Blocks)
      /\ \A i \in DOMAIN Tail(attach[w]) : Tail(attach[w])[i] \in Index \ {Genesis}
  <2>1. /\ Tail(attach[w]) \in Seq(Blocks)
        /\ Len(attach[w]) \in Nat
        /\ Len(Tail(attach[w])) = Len(attach[w]) - 1
        /\ \A i \in 1..Len(Tail(attach[w])) : Tail(attach[w])[i] = attach[w][i + 1]
    BY <1>1
  <2>2. \A i \in 1..(Len(attach[w]) - 1) : i + 1 \in 1..Len(attach[w])
    BY <2>1
  <2>3. DOMAIN Tail(attach[w]) = 1..Len(Tail(attach[w])) /\ DOMAIN attach[w] = 1..Len(attach[w])
    BY <1>1, <2>1
  <2> QED BY <1>1, <2>1, <2>2, <2>3
<1> HIDE DEF n
<1>4. Index' = Index /\ IndexInv' /\ StoreInv(db') /\ StoreInv(disk')
  <2>1. Index' = Index /\ tip' \in Index
    BY <1>2 DEF Index, n
  <2> QED BY <2>1 DEF IInv, IndexInv
<1>5. CallTypeOK'
  BY <1>3 DEF IInv, TypeOK, CallTypeOK, Labels
<1>6. MemTypeOK' /\ DbTypeOK'
  BY <1>2 DEF IInv, TypeOK, MemTypeOK, DbTypeOK, DbRecord, n
<1>7. LockInv'
  BY <1>1, BoundAssumption DEF IInv, TypeOK, CallTypeOK, LockInv, LockedLabels
<1>8. CallInv'
  <2>1. ASSUME NEW v \in Workers, v # w PROVE CallerInv(v)'
    <3>1. pc[v] \notin {"connected", "disconnected"}
      BY <1>1, <2>1, OneHolder DEF IInv, LockedLabels
    <3> QED BY <1>4, <2>1, <3>1, OtherCallers DEF IInv, CallInv, TypeOK, CallTypeOK
  <2>2. CallerInv(w)'
    <3>1. pc'[w] = "notify" /\ attach'[w] = Tail(attach[w]) /\ detach'[w] = detach[w] /\ blk'[w] = blk[w]
      BY DEF IInv, TypeOK, CallTypeOK
    <3>2. blk[w] \in Index \ {Genesis} /\ \A i \in DOMAIN detach[w] : detach[w][i] # Genesis
      BY DEF IInv, CallInv, CallerInv
    <3> QED BY <1>3, <1>4, <3>1, <3>2 DEF CallerInv
  <2> QED BY <2>1, <2>2 DEF CallInv
<1>9. MemoryMatchesDb'
  BY <1>1 DEF MemoryMatchesDb, n
<1> QED BY <1>4, <1>5, <1>6, <1>7, <1>8, <1>9 DEF IInv, TypeOK

LEMMA DisconnectInMemoryKeeps ==
  ASSUME IInv, NEW w \in Workers, DisconnectInMemory(w)
  PROVE  IInv'
<1> USE DEF DisconnectInMemory, SetTip, At, Goto
<1>1. /\ detach[w] \in Seq(Blocks) /\ detach[w] # <<>>
      /\ \A i \in DOMAIN detach[w] : detach[w][i] # Genesis
      /\ chainLock = w /\ Head(detach[w]) = tip /\ db.best = Prev[tip]
  BY DEF IInv, TypeOK, CallTypeOK, CallInv, CallerInv, LockInv, LockedLabels
<1>2. tip \in Blocks \ {Genesis}
  <2>1. 1 \in DOMAIN detach[w] /\ tip = detach[w][1]
    BY <1>1
  <2> QED BY <1>1, <2>1 DEF IInv, TypeOK, MemTypeOK
<1>3. /\ Tail(detach[w]) \in Seq(Blocks)
      /\ \A i \in DOMAIN Tail(detach[w]) : Tail(detach[w])[i] # Genesis
  <2>1. /\ Tail(detach[w]) \in Seq(Blocks)
        /\ Len(detach[w]) \in Nat
        /\ Len(Tail(detach[w])) = Len(detach[w]) - 1
        /\ \A i \in 1..Len(Tail(detach[w])) : Tail(detach[w])[i] = detach[w][i + 1]
    BY <1>1
  <2>2. \A i \in 1..(Len(detach[w]) - 1) : i + 1 \in 1..Len(detach[w])
    BY <2>1
  <2>3. DOMAIN Tail(detach[w]) = 1..Len(Tail(detach[w])) /\ DOMAIN detach[w] = 1..Len(detach[w])
    BY <1>1, <2>1
  <2> QED BY <1>1, <2>1, <2>2, <2>3
<1>4. Index' = Index /\ IndexInv' /\ StoreInv(db') /\ StoreInv(disk')
  <2>1. tip' = Prev[tip] /\ Prev[tip] \in ToSet(Path[tip])
    BY <1>1, <1>2, PathOfChild
  <2>2. Index' = Index /\ tip' \in Index
    BY <2>1 DEF IInv, IndexInv, Index
  <2> QED BY <2>2 DEF IInv, IndexInv
<1>5. CallTypeOK'
  BY <1>3 DEF IInv, TypeOK, CallTypeOK, Labels
<1>6. MemTypeOK' /\ DbTypeOK'
  <2>1. tip' \in Blocks
    BY <1>1, <1>2, PathOfChild
  <2> QED BY <2>1 DEF IInv, TypeOK, MemTypeOK, DbTypeOK, DbRecord
<1>7. LockInv'
  BY <1>1, BoundAssumption DEF IInv, TypeOK, CallTypeOK, LockInv, LockedLabels
<1>8. CallInv'
  <2>1. ASSUME NEW v \in Workers, v # w PROVE CallerInv(v)'
    <3>1. pc[v] \notin {"connected", "disconnected"}
      BY <1>1, <2>1, OneHolder DEF IInv, LockedLabels
    <3> QED BY <1>4, <2>1, <3>1, OtherCallers DEF IInv, CallInv, TypeOK, CallTypeOK
  <2>2. CallerInv(w)'
    <3>1. pc'[w] = "notify" /\ attach'[w] = attach[w] /\ detach'[w] = Tail(detach[w]) /\ blk'[w] = blk[w]
      BY DEF IInv, TypeOK, CallTypeOK
    <3>2. blk[w] \in Index \ {Genesis} /\ \A i \in DOMAIN attach[w] : attach[w][i] \in Index \ {Genesis}
      BY DEF IInv, CallInv, CallerInv
    <3> QED BY <1>3, <1>4, <3>1, <3>2 DEF CallerInv
  <2> QED BY <2>1, <2>2 DEF CallInv
<1>9. MemoryMatchesDb'
  BY <1>1 DEF MemoryMatchesDb
<1> QED BY <1>4, <1>5, <1>6, <1>7, <1>8, <1>9 DEF IInv, TypeOK

LEMMA FinishConnectKeeps ==
  ASSUME IInv, NEW w \in Workers, FinishConnect(w)
  PROVE  IInv'
<1> DEFINE b == blk[w]
<1>1. b \in Index \ {Genesis} /\ pc[w] = "finish" /\ chainLock = w /\ tip' = tip
  BY DEF FinishConnect, At, IInv, CallInv, CallerInv, LockInv, LockedLabels
<1>2. Marked(SetStatusFlags(status, {b}, "valid"), dirty \cup {b}) /\ Marked(status, dirty)
  BY <1>1, VerdictMarked DEF Flags, IInv, TypeOK, MemTypeOK, IndexInv, Marked
<1>3. /\ status' \in [Blocks -> SUBSET Flags] /\ dirty' \in SUBSET Blocks
      /\ Index' = Index /\ IndexInv' /\ StoreInv(db') /\ StoreInv(disk')
      /\ db'.best = db.best /\ db'.total = db.total
      /\ failures' \in 0..MaxFailures
  <2>1. CASE FlushIgnoringErrors(SetStatusFlags(status, {b}, "valid"), dirty \cup {b})
    BY <1>1, <1>2, <2>1, FlushIgnoringErrorsKeeps DEF IInv
  <2>2. CASE FlushIgnoringErrors(status, dirty)
    BY <1>1, <1>2, <2>2, FlushIgnoringErrorsKeeps DEF IInv
  <2>3. CASE UNCHANGED <<status, dirty, db, disk, failures>>
    BY <1>1, <2>3, StoresUnchanged DEF IInv, TypeOK, MemTypeOK, DbTypeOK
  <2> QED BY <2>1, <2>2, <2>3 DEF FinishConnect
<1>4. CallTypeOK' /\ LockInv'
  BY <1>1, BoundAssumption
  DEF FinishConnect, Goto, IInv, TypeOK, CallTypeOK, Labels, LockInv, LockedLabels
<1>5. CallInv'
  <2>1. ASSUME NEW v \in Workers, v # w PROVE CallerInv(v)'
    BY <1>1, <1>3, <2>1, OtherCallers DEF FinishConnect, Goto, IInv, CallInv, TypeOK, CallTypeOK
  <2>2. CallerInv(w)'
    BY <1>1, <1>3 DEF FinishConnect, Goto, IInv, TypeOK, CallTypeOK, CallInv, CallerInv
  <2> QED BY <2>1, <2>2 DEF CallInv
<1>6. MemTypeOK' /\ DbTypeOK'
  BY <1>3 DEF IInv, TypeOK, MemTypeOK, DbTypeOK, StoreInv, FinishConnect
<1>7. MemoryMatchesDb'
  BY <1>1, <1>3, MemoryKept DEF Goto, IInv, TypeOK, CallTypeOK, FinishConnect
<1> QED BY <1>3, <1>4, <1>5, <1>6, <1>7 DEF IInv, TypeOK

LEMMA AbortKeeps ==
  ASSUME IInv, NEW w \in Workers, Abort(w)
  PROVE  IInv'
<1>1. pc[w] = "abort" /\ chainLock = w /\ tip' = tip
  BY DEF Abort, At, IInv, LockInv, LockedLabels
<1>2. Marked(status, dirty)
  BY DEF IInv, TypeOK, MemTypeOK, IndexInv, Marked
<1>3. /\ status' \in [Blocks -> SUBSET Flags] /\ dirty' \in SUBSET Blocks
      /\ Index' = Index /\ IndexInv' /\ StoreInv(db') /\ StoreInv(disk')
      /\ db'.best = db.best /\ db'.total = db.total
      /\ failures' \in 0..MaxFailures
  BY <1>1, <1>2, FlushIgnoringErrorsKeeps DEF IInv, Abort
<1>4. CallTypeOK' /\ LockInv' /\ CallInv'
  BY <1>1, <1>3, ReturnKeeps DEF IInv, TypeOK, Abort
<1>5. MemTypeOK' /\ DbTypeOK'
  BY <1>3 DEF IInv, TypeOK, MemTypeOK, DbTypeOK, StoreInv, Abort
<1>6. MemoryMatchesDb'
  BY <1>1, <1>3, MemoryKept DEF Return, IInv, TypeOK, CallTypeOK, Abort
<1> QED BY <1>3, <1>4, <1>5, <1>6 DEF IInv, TypeOK

LEMMA TransactionFailsKeeps ==
  ASSUME IInv, NEW w \in Workers, TransactionFails(w)
  PROVE  IInv'
<1> DEFINE b == blk[w]
           l == GetReorganizeNodes(b)
           c(k) == CheckAttach(SubSeq(l.attach, 1, k - 1), status)
           Checked(k) == status' = c(k).status /\ dirty' = dirty \cup c(k).marked
<1>1. /\ pc[w] \in LockedLabels \ {"connected", "disconnected"} /\ chainLock = w
      /\ UNCHANGED <<tip, snapshot, db, disk, crashes>>
      /\ \/ UNCHANGED <<status, dirty>>
         \/ pc[w] = "best" /\ \E k \in DOMAIN l.attach : Checked(k)
  BY DEF TransactionFails, At, memVars, LockedLabels, IInv, LockInv
<1>2. status' \in [Blocks -> SUBSET Flags] /\ dirty' \in SUBSET Blocks /\ Index' = Index /\ IndexInv'
  <2>1. CASE UNCHANGED <<status, dirty>>
    BY <1>1, <2>1, StoresUnchanged DEF IInv, TypeOK, MemTypeOK
  <2>2. ASSUME pc[w] = "best", NEW k \in DOMAIN l.attach, Checked(k)
        PROVE  Marked(status', dirty')
    <3>1. b \in Index
      BY <2>2 DEF IInv, CallInv, CallerInv
    <3>2. l.attach \in Seq(Blocks) /\ \A i \in DOMAIN l.attach : l.attach[i] \in Index
      BY <3>1, ReorganizeLists DEF IInv
    <3> DEFINE nodes == SubSeq(l.attach, 1, k - 1)
    <3>3. \A i \in DOMAIN nodes : nodes[i] \in Index
      <4> HIDE DEF l
      <4>1. Len(l.attach) \in Nat /\ k \in 1..Len(l.attach) /\ DOMAIN l.attach = 1..Len(l.attach)
        BY <2>2, <3>2, LenProperties
      <4>2. nodes \in Seq(Blocks) /\ Len(nodes) = k - 1 /\ \A i \in 1..(k - 1) : nodes[i] = l.attach[i]
        BY <3>2, <4>1
      <4>3. DOMAIN nodes = 1..(k - 1) /\ 1..(k - 1) \subseteq 1..Len(l.attach)
        BY <4>1, <4>2
      <4> QED BY <3>2, <4>1, <4>2, <4>3
    <3> HIDE DEF nodes
    <3>4. Marked(CheckAttach(nodes, status).status, dirty \cup {} \cup CheckAttach(nodes, status).marked)
      BY <3>3, CheckMarks DEF IInv, TypeOK, MemTypeOK
    <3>5. dirty \cup {} \cup CheckAttach(nodes, status).marked = dirty'
      BY <2>2 DEF nodes
    <3> QED BY <2>2, <3>4, <3>5 DEF nodes
  <2>3. ASSUME Marked(status', dirty') PROVE Index' = Index /\ IndexInv'
    <3>1. Index' = Index
      BY <2>3 DEF Index, Marked
    <3> QED BY <1>1, <2>3, <3>1 DEF IInv, IndexInv, Marked
  <2> QED BY <1>1, <2>1, <2>2, <2>3 DEF Marked
<1>3. workSum' \in [Blocks -> Nat]
  <2>1. \A x \in Blocks : Work[x] \in Nat
    BY AttributeAssumption
  <2> QED BY <2>1 DEF TransactionFails, memVars, IInv, TypeOK, CallTypeOK, MemTypeOK
<1>4. MemTypeOK' /\ DbTypeOK' /\ StoreInv(db') /\ StoreInv(disk')
  BY <1>1, <1>2, <1>3, BoundAssumption DEF TransactionFails, DbError, IInv, TypeOK, MemTypeOK, DbTypeOK
<1>5. CallTypeOK' /\ LockInv' /\ CallInv'
  <2>1. CASE Return(w, "error")
    BY <1>1, <1>2, <2>1, ReturnKeeps DEF IInv, TypeOK
  <2>2. CASE /\ pc[w] \in {"best", "connect", "disconnect"} /\ Goto(w, "abort")
             /\ UNCHANGED <<blk, detach, attach, reorg, ret, chainLock>>
    <3>1. CallerInv(w)'
      <4>1. pc'[w] = "abort"
        BY <2>2 DEF IInv, TypeOK, CallTypeOK, Goto
      <4>2. CallerInv(w)
        BY DEF IInv, CallInv
      <4>3. blk[w] # Genesis /\ blk[w] \in Index
        BY <2>2, <4>2 DEF CallerInv
      <4>4. blk' = blk /\ attach' = attach /\ detach' = detach
        BY <2>2
      <4> QED BY <1>2, <4>1, <4>2, <4>3, <4>4 DEF CallerInv
    <3> QED BY <1>1, <1>2, <2>2, <3>1, GotoKeeps DEF LockedLabels
  <2> QED BY <2>1, <2>2 DEF TransactionFails, At
<1>6. MemoryMatchesDb'
  BY <1>1, MemoryKept DEF TransactionFails, Goto, Return, IInv, TypeOK, CallTypeOK
<1> QED BY <1>2, <1>4, <1>5, <1>6 DEF IInv, TypeOK

LEMMA TemplateKeeps ==
  ASSUME IInv, NEW b \in Blocks \ {Genesis}, CheckConnectBlockTemplate(b)
  PROVE  IInv'
<1> USE DEF CheckConnectBlockTemplate, callVars
<1>1. Index' = Index /\ IndexInv' /\ StoreInv(db)' /\ StoreInv(disk)'
  BY StoresUnchanged
<1>2. workSum' \in [Blocks -> Nat]
  BY AttributeAssumption DEF IInv, TypeOK, MemTypeOK
<1>3. TypeOK' /\ LockInv' /\ MemoryMatchesDb'
  BY <1>2 DEF IInv, TypeOK, CallTypeOK, MemTypeOK, DbTypeOK, LockInv, MemoryMatchesDb
<1>4. CallInv'
  BY <1>1, OtherCallers DEF IInv, CallInv
<1> QED BY <1>1, <1>3, <1>4 DEF IInv

(* Whatever was on disk is closed under ancestors, so the reload builds an *)
(* index that is, and marking the ancestors of the tip changes no row that *)
(* was absent.                                                             *)
LEMMA CrashKeeps ==
  ASSUME IInv, CrashAndRestart
  PROVE  IInv'
<1> DEFINE stat == SetStatusFlags(disk.rows, ToUpgrade(disk), "valid")
           reloaded == [disk EXCEPT !.rows = stat]
<1>1. disk \in DbRecord /\ MainIndexOf(disk) /\ RowsInv(disk)
  BY DEF IInv, StoreInv
<1>2. /\ status' = stat /\ dirty' = {} /\ workSum' = LoadedWork(disk.rows) /\ tip' = disk.best
      /\ snapshot' = [best |-> disk.best, total |-> disk.total]
      /\ db' = reloaded /\ disk' \in {disk, reloaded}
      /\ chainLock' = None /\ failures' = failures
      /\ crashes' \in 0..MaxCrashes
  BY BoundAssumption DEF CrashAndRestart, IInv, TypeOK, DbTypeOK
<1>3. /\ pc' = [w \in Workers |-> "idle"] /\ blk' = [w \in Workers |-> Genesis]
      /\ detach' = [w \in Workers |-> <<>>] /\ attach' = [w \in Workers |-> <<>>]
      /\ reorg' = [w \in Workers |-> FALSE] /\ ret' = [w \in Workers |-> None]
  BY DEF CrashAndRestart
<1>4. /\ stat \in [Blocks -> SUBSET Flags]
      /\ \A b \in Blocks : stat[b] # {} <=> disk.rows[b] # {}
  <2>1. disk.rows \in [Blocks -> SUBSET Flags] /\ disk.best \in Blocks
    BY <1>1 DEF DbRecord
  <2>2. \A b \in ToUpgrade(disk) : disk.rows[b] # {}
    BY <1>1, <2>1 DEF ToUpgrade, RowsInv
  <2> QED BY <2>1, <2>2, FlagsSet DEF Flags
<1> HIDE DEF stat
<1>5. /\ reloaded \in DbRecord
      /\ reloaded.rows = stat /\ reloaded.best = disk.best /\ reloaded.blocks = disk.blocks
      /\ reloaded.total = disk.total /\ reloaded.hashes = disk.hashes
      /\ reloaded.heights = disk.heights /\ reloaded.journal = disk.journal
  BY <1>1, <1>4 DEF DbRecord
<1> HIDE DEF reloaded
<1>6. StoreInv(reloaded)
  <2>1. MainIndexOf(reloaded)
    BY <1>1, <1>5 DEF MainIndexOf
  <2>2. \A b \in Blocks : ToSet(Path[b]) \subseteq Blocks
    BY GenesisOnPath
  <2>3. RowsInv(reloaded)
    BY <1>1, <1>4, <1>5, <2>2 DEF RowsInv, DbRecord
  <2> QED BY <1>5, <2>1, <2>3 DEF StoreInv
<1>7. StoreInv(db') /\ StoreInv(disk')
  BY <1>2, <1>6 DEF IInv
<1>8. IndexInv'
  <2>1. Index' = {b \in Blocks : stat[b] # {}}
    BY <1>2 DEF Index
  <2>2. \A b \in Blocks : ToSet(Path[b]) \subseteq Blocks
    BY GenesisOnPath
  <2>3. \A b \in Index' : ToSet(Path[b]) \subseteq Index'
    BY <1>1, <1>4, <2>1, <2>2 DEF RowsInv
  <2>4. tip' \in Index' /\ Index' \subseteq db'.blocks
    BY <1>1, <1>2, <1>4, <1>5, <2>1 DEF RowsInv, DbRecord
  <2> QED BY <1>2, <1>5, <2>1, <2>3, <2>4 DEF IndexInv
<1>9. CallTypeOK' /\ LockInv' /\ CallInv'
  BY <1>2, <1>3, TreeAssumption, BoundAssumption
  DEF CallTypeOK, Labels, LockInv, LockedLabels, CallInv, CallerInv
<1>10. MemTypeOK'
  <2>1. LoadedWork(disk.rows) \in [Blocks -> Nat]
    <3>1. \A b \in Blocks : Work[b] \in Nat
      BY AttributeAssumption
    <3>2. \A b \in Blocks \ {Genesis} : Prev[b] \in Blocks /\ Work[b] + Work[Prev[b]] \in Nat
      BY <3>1, TreeAssumption
    <3> QED BY <3>1, <3>2 DEF LoadedWork
  <2> QED BY <1>1, <1>2, <1>4, <2>1 DEF MemTypeOK, DbRecord
<1>11. DbTypeOK'
  BY <1>2, <1>7 DEF DbTypeOK, StoreInv, IInv, TypeOK
<1>12. MemoryMatchesDb'
  BY <1>2, <1>5 DEF MemoryMatchesDb
<1> QED BY <1>7, <1>8, <1>9, <1>10, <1>11, <1>12 DEF IInv, TypeOK

-----------------------------------------------------------------------------
(* The invariant is inductive.                                             *)
LEMMA NextKeeps == IInv /\ [Next]_vars => IInv'
<1> SUFFICES ASSUME IInv, [Next]_vars PROVE IInv'
  OBVIOUS
<1>1. CASE \E w \in Workers, b \in Blocks \ {Genesis} : Submit(w, b)
  BY <1>1, SubmitKeeps
<1>2. ASSUME NEW w \in Workers, Step(w) PROVE IInv'
  BY <1>2, LockKeeps, StoreBlockKeeps, FlushNewNodeKeeps, ExtendTipKeeps, StaysOnSideChainKeeps,
     StartReorganizeKeeps, FlushBeforeUpdateKeeps, AssertFailsKeeps, ConnectCommitKeeps,
     DisconnectCommitKeeps, ConnectInMemoryKeeps, DisconnectInMemoryKeeps, RelockKeeps,
     FinishConnectKeeps, AbortKeeps, AcceptedKeeps
  DEF Step
<1>3. CASE \E w \in Workers : TransactionFails(w)
  BY <1>3, TransactionFailsKeeps
<1>4. CASE \E b \in Blocks \ {Genesis} : CheckConnectBlockTemplate(b)
  BY <1>4, TemplateKeeps
<1>5. CASE CrashAndRestart
  BY <1>5, CrashKeeps
<1>6. CASE UNCHANGED vars
  <2> USE <1>6 DEF vars, callVars, memVars
  <2>1. Index' = Index /\ IndexInv' /\ StoreInv(db)' /\ StoreInv(disk)'
    BY StoresUnchanged
  <2>2. CallInv'
    BY <2>1, OtherCallers DEF IInv, CallInv
  <2>3. TypeOK' /\ LockInv' /\ MemoryMatchesDb'
    BY DEF IInv, TypeOK, CallTypeOK, MemTypeOK, DbTypeOK, LockInv, MemoryMatchesDb
  <2> QED BY <2>1, <2>2, <2>3 DEF IInv
<1> QED BY <1>1, <1>2, <1>3, <1>4, <1>5, <1>6 DEF Next

(* The chain engine stays in the states that IInv describes, whatever the  *)
(* callers, the database errors and the crashes do.                        *)
THEOREM Inductive == Spec => []IInv
BY InitIInv, NextKeeps, PTL DEF Spec

(* Every variable of the chain engine keeps its type; in particular the    *)
(* height index stays a gapless sequence although connectBlock writes it   *)
(* at the height of the block and disconnectBlock deletes there.           *)
THEOREM TypeCorrect == Spec => []TypeOK
<1>1. IInv => TypeOK
  BY DEF IInv
<1> QED BY <1>1, Inductive, PTL

(* For every block tree and any number of callers, the committed and the   *)
(* flushed database index exactly the chain of their best block: no        *)
(* interleaving of connectBlock and disconnectBlock, no error and no crash *)
(* leaves an index entry or a journal entry too many or too few.           *)
THEOREM MainIndexCorrect == Spec => []MainIndexMatchesBest
<1>1. IInv => MainIndexMatchesBest
  BY DEF IInv, StoreInv, MainIndexMatchesBest
<1> QED BY <1>1, Inductive, PTL

(* The tip and the snapshot agree with the committed best state whenever   *)
(* no caller is between its commit and its update of memory, although the  *)
(* lock is released around every notification.                             *)
THEOREM MemoryCorrect == Spec => []MemoryMatchesDb
<1>1. IInv => MemoryMatchesDb
  BY DEF IInv
<1> QED BY <1>1, Inductive, PTL

(* A restart after a crash at any step finds a database that initChainState*)
(* accepts: the rows are closed under ancestors because flushToDB always   *)
(* writes all the dirty rows in one transaction, and the best block is     *)
(* written only after its row.                                             *)
THEOREM RestartCorrect == Spec => []RestartSucceeds
<1>1. ASSUME NEW d, StoreInv(d) PROVE Loadable(d)
  <2>1. d.best \in Blocks /\ d.rows[d.best] # {} /\ d.best \in d.blocks
    BY <1>1 DEF StoreInv, DbRecord, RowsInv
  <2>2. d.rows[Genesis] # {}
    BY <1>1, <2>1, GenesisOnPath DEF StoreInv, RowsInv
  <2>3. \A b \in Blocks \ {Genesis} : d.rows[b] # {} => d.rows[Prev[b]] # {}
    BY <1>1, PathOfChild DEF StoreInv, RowsInv
  <2> QED BY <2>1, <2>2, <2>3 DEF Loadable
<1>2. IInv => RestartSucceeds
  BY <1>1 DEF IInv, RestartSucceeds
<1> QED BY <1>2, Inductive, PTL

(* A status that is not dirty is the one in the database, even when flush  *)
(* errors were ignored, and a stored row always has its payload.           *)
THEOREM CleanRowsCorrect == Spec => []CleanRowsMatchDb
<1>1. IInv => CleanRowsMatchDb
  BY DEF IInv, IndexInv, StoreInv, RowsInv, CleanRowsMatchDb
<1> QED BY <1>1, Inductive, PTL

(* The tip moves by one block at a time while the process lives: the       *)
(* caller that updates memory is the one that committed, and nobody moved  *)
(* the tip in between.                                                     *)
THEOREM TipCorrect == Spec => TipMovesByOneBlock
<1> DEFINE OneBlock == crashes' = crashes =>
                         \/ tip' = tip
                         \/ tip' # Genesis /\ Prev[tip'] = tip
                         \/ tip # Genesis /\ Prev[tip] = tip'
<1>1. IInv /\ [Next]_vars => [OneBlock]_vars
  <2> SUFFICES ASSUME IInv, Next PROVE OneBlock
    OBVIOUS
  <2>1. ASSUME NEW w \in Workers, ConnectInMemory(w) PROVE OneBlock
    <3>1. /\ tip' = Head(attach[w]) /\ Prev[Head(attach[w])] = tip
          /\ attach[w] \in Seq(Blocks) /\ attach[w] # <<>>
          /\ \A i \in DOMAIN attach[w] : attach[w][i] # Genesis
      BY <2>1 DEF ConnectInMemory, SetTip, At, IInv, CallInv, CallerInv, TypeOK, CallTypeOK
    <3>2. 1 \in DOMAIN attach[w] /\ Head(attach[w]) = attach[w][1]
      BY <3>1
    <3> QED BY <3>1, <3>2
  <2>2. ASSUME NEW w \in Workers, DisconnectInMemory(w) PROVE OneBlock
    <3>1. /\ tip' = Prev[Head(detach[w])] /\ Head(detach[w]) = tip
          /\ detach[w] \in Seq(Blocks) /\ detach[w] # <<>>
          /\ \A i \in DOMAIN detach[w] : detach[w][i] # Genesis
      BY <2>2 DEF DisconnectInMemory, SetTip, At, IInv, CallInv, CallerInv, TypeOK, CallTypeOK
    <3>2. 1 \in DOMAIN detach[w] /\ Head(detach[w]) = detach[w][1]
      BY <3>1
    <3> QED BY <3>1, <3>2
  <2>3. ASSUME CrashAndRestart PROVE OneBlock
    BY <2>3 DEF CrashAndRestart, IInv, TypeOK, DbTypeOK
  <2>4. ASSUME NEW w \in Workers, Step(w), ~ConnectInMemory(w), ~DisconnectInMemory(w) PROVE tip' = tip
    BY <2>4
    DEF Step, Lock, StoreBlock, FlushNewNode, ExtendTip, StaysOnSideChain, StartReorganize,
        FlushBeforeUpdate, AssertFails, ConnectCommit, DisconnectCommit, Relock, FinishConnect,
        Abort, Accepted, memVars
  <2>5. ASSUME NEW w \in Workers, NEW b \in Blocks \ {Genesis}, Submit(w, b) PROVE tip' = tip
    BY <2>5 DEF Submit, memVars
  <2>6. ASSUME NEW w \in Workers, TransactionFails(w) PROVE tip' = tip
    BY <2>6 DEF TransactionFails, memVars
  <2>7. ASSUME NEW b \in Blocks \ {Genesis}, CheckConnectBlockTemplate(b) PROVE tip' = tip
    BY <2>7 DEF CheckConnectBlockTemplate
  <2> QED BY <2>1, <2>2, <2>3, <2>4, <2>5, <2>6, <2>7 DEF Next
<1>2. Spec => [][Next]_vars
  BY PTL DEF Spec
<1> QED BY <1>1, <1>2, Inductive, PTL DEF TipMovesByOneBlock

(* A step of a live process loses no flag.  The one assignment to a        *)
(* status, the one of a new node, is for a block that is not in the index: *)
(* the lock is held from the duplicate check on.                           *)
LEMMA FlagsGrow ==
  ASSUME IInv, Next, crashes' = crashes
  PROVE  \A b \in Blocks : status[b] \subseteq status'[b]
<1> DEFINE Kept == \A b \in Blocks : status[b] \subseteq status'[b]
<1>0. status \in [Blocks -> SUBSET Flags] /\ blk \in [Workers -> Blocks]
  BY DEF IInv, TypeOK, MemTypeOK, CallTypeOK
<1>1. ASSUME NEW w \in Workers, StoreBlock(w) PROVE Kept
  <2>1. status' = [status EXCEPT ![blk[w]] = {"stored"}] /\ blk[w] \notin Index /\ blk[w] \in Blocks
    BY <1>0, <1>1 DEF StoreBlock, At, IInv, CallInv, CallerInv
  <2> QED BY <1>0, <2>1 DEF Index
<1>2. ASSUME NEW stat, NEW dirt, FlushIgnoringErrors(stat, dirt) \/ FlushToDB(stat, dirt)
      PROVE  status' = stat
  BY <1>2 DEF FlushIgnoringErrors, FlushToDB
<1>4. ASSUME NEW w \in Workers, ExtendTip(w) \/ FinishConnect(w) PROVE Kept
  <2>1. \/ UNCHANGED status
        \/ \E flag \in Flags : status' = SetStatusFlags(status, {blk[w]}, flag)
    BY <1>2, <1>4 DEF ExtendTip, FinishConnect, Flags
  <2> QED BY <1>0, <2>1, FlagsSet
<1>5. ASSUME NEW w \in Workers, FlushNewNode(w) \/ FlushBeforeUpdate(w) \/ Abort(w) PROVE Kept
  BY <1>2, <1>5 DEF FlushNewNode, FlushBeforeUpdate, Abort
<1>6. ASSUME NEW nodes, NEW stat \in [Blocks -> SUBSET Flags]
      PROVE  \A x \in Blocks : stat[x] \subseteq CheckAttach(nodes, stat).status[x]
  BY DEF CheckAttach, SetStatusFlags
<1>7. ASSUME NEW w \in Workers, StartReorganize(w) PROVE Kept
  <2> DEFINE l == GetReorganizeNodes(blk[w])
  <2>1. l.status \in [Blocks -> SUBSET Flags] /\ \A x \in Blocks : status[x] \subseteq l.status[x]
    BY <1>0, FlagsSet DEF GetReorganizeNodes, Flags
  <2>2. status' = CheckAttach(l.attach, l.status).status
    BY <1>7 DEF StartReorganize
  <2> HIDE DEF l
  <2> QED BY <1>6, <2>1, <2>2
<1>8. ASSUME NEW w \in Workers, TransactionFails(w) PROVE Kept
  <2>1. \/ UNCHANGED status
        \/ \E nodes : status' = CheckAttach(nodes, status).status
    BY <1>8 DEF TransactionFails, memVars
  <2> QED BY <1>0, <1>6, <2>1
<1>9. ASSUME NEW w \in Workers,
             \/ Lock(w) \/ StaysOnSideChain(w) \/ AssertFails(w) \/ ConnectCommit(w) \/ DisconnectCommit(w)
             \/ ConnectInMemory(w) \/ DisconnectInMemory(w) \/ Relock(w) \/ Accepted(w)
      PROVE  Kept
  BY <1>9 DEF Lock, StaysOnSideChain, AssertFails, ConnectCommit, DisconnectCommit,
              ConnectInMemory, DisconnectInMemory, SetTip, Relock, Accepted, memVars
<1>10. ASSUME NEW w \in Workers, NEW b \in Blocks \ {Genesis}, Submit(w, b) PROVE Kept
  BY <1>10 DEF Submit, memVars
<1>11. ASSUME NEW b \in Blocks \ {Genesis}, CheckConnectBlockTemplate(b) PROVE Kept
  BY <1>11 DEF CheckConnectBlockTemplate
<1>12. ~CrashAndRestart
  BY DEF CrashAndRestart, IInv, TypeOK, DbTypeOK
<1> QED BY <1>1, <1>4, <1>5, <1>7, <1>8, <1>9, <1>10, <1>11, <1>12 DEF Next, Step

(* While the process lives no flag is lost.                                *)
THEOREM FlagsCorrect == Spec => FlagsNeverUnset
<1>1. IInv /\ [Next]_vars => [crashes' = crashes => \A b \in Blocks : status[b] \subseteq status'[b]]_vars
  BY FlagsGrow
<1>2. Spec => [][Next]_vars
  BY PTL DEF Spec
<1> QED BY <1>1, <1>2, Inductive, PTL DEF FlagsNeverUnset

-----------------------------------------------------------------------------
(* The chain consists of valid blocks.  IInv says nothing of the verdicts; *)
(* a second invariant, on top of it, does.                                 *)

(* The blocks that may be on the main chain: those that pass               *)
(* checkConnectBlock and those that are added without it.                  *)
Good == Connectable \cup FastAdd \cup {Genesis}

(* What the flags of an index, or of the rows of a database, say: a block  *)
(* marked valid may be on the main chain, and so may the parent of an      *)
(* indexed block, because it was there when the block was submitted.  When *)
(* fast adds would pass the check, no such block is marked invalid.        *)
FlagsSound(stat) ==
  /\ \A b \in Blocks : "valid" \in stat[b] => b \in Good
  /\ \A b \in Blocks \ {Genesis} : stat[b] # {} => Prev[b] \in Good
  /\ FastAdd \subseteq Connectable => \A b \in Blocks \cap Good : stat[b] \cap {"failed", "ancestor"} = {}

StoredChainInv(d) ==
  /\ FlagsSound(d.rows)
  /\ d.best \in Good
  /\ ToUpgrade(d) \subseteq FastAdd
  /\ d.total = TotalTxns[d.best]

(* The blocks a caller still has to connect are checked and marked, or     *)
(* fast adds, whoever runs while the lock is released.                     *)
CallerChainInv(w) ==
  /\ pc[w] \in {"lock", "store"} => Prev[blk[w]] \in Good
  /\ \A i \in DOMAIN attach[w] :
       attach[w][i] \in Good /\ ("valid" \in status[attach[w][i]] \/ attach[w][i] \in FastAdd)
  /\ pc[w] \in {"connect", "connected", "disconnect", "disconnected", "notify", "finish"} /\ ~reorg[w]
       => blk[w] \in Good

ChainInv ==
  /\ FlagsSound(status)
  /\ \A b \in Blocks : db.rows[b] \subseteq status[b]
  /\ tip \in Good
  /\ StoredChainInv(db)
  /\ StoredChainInv(disk)
  /\ \A w \in Workers : CallerChainInv(w)

(* Along a path every block is the parent of the next.                     *)
LEMMA PathLinks ==
  ASSUME NEW b \in Blocks, NEW i \in 1..(Len(Path[b]) - 1)
  PROVE  /\ Path[b][i] \in Blocks
         /\ Path[b][i + 1] \in Blocks \ {Genesis}
         /\ Prev[Path[b][i + 1]] = Path[b][i]
<1> DEFINE p == Path[b]
           c == p[i + 1]
<1>1. p \in Seq(Blocks) /\ Len(p) \in Nat /\ DOMAIN p = 1..Len(p)
  BY PathEnds, LenProperties
<1>2. i \in Nat /\ i \in 1..Len(p) /\ i + 1 \in 1..Len(p) /\ i + 1 # 1
  BY <1>1
<1>3. p[i] \in Blocks /\ c \in Blocks /\ c # Genesis
  BY <1>2, PathStarts
<1>4. Path[c] = SubSeq(p, 1, i + 1) /\ Path[c] = Append(Path[Prev[c]], c) /\ Prev[c] \in Blocks
  BY <1>1, <1>2, <1>3, TreeAssumption
<1>5. /\ Path[Prev[c]] \in Seq(Blocks) /\ Len(Path[Prev[c]]) \in Nat \ {0}
      /\ Path[Prev[c]][Len(Path[Prev[c]])] = Prev[c]
  BY <1>4, PathEnds
<1> HIDE DEF p, c
<1> DEFINE q == Path[Prev[c]]
<1>6. Len(SubSeq(p, 1, i + 1)) = i + 1 /\ SubSeq(p, 1, i + 1)[i] = p[i]
  BY <1>1, <1>2
<1>7. Len(Append(q, c)) = Len(q) + 1 /\ \A j \in 1..Len(q) : Append(q, c)[j] = q[j]
  BY <1>5
<1> HIDE DEF q
<1>8. Len(q) = i
  BY <1>2, <1>4, <1>5, <1>6, <1>7 DEF q
<1>9. q[i] = p[i]
  BY <1>2, <1>4, <1>6, <1>7, <1>8 DEF q
<1> QED BY <1>3, <1>5, <1>8, <1>9 DEF p, c, q

(* So every proper ancestor of an indexed block may be on the main chain.  *)
LEMMA AncestorsGood ==
  ASSUME IndexInv, FlagsSound(status), NEW b \in Index, NEW i \in 1..(Len(Path[b]) - 1)
  PROVE  Path[b][i] \in Good
<1>1. b \in Blocks
  BY DEF Index
<1>2. Path[b][i + 1] \in Blocks \ {Genesis} /\ Prev[Path[b][i + 1]] = Path[b][i]
  BY <1>1, PathLinks
<1>3. Path[b][i + 1] \in ToSet(Path[b])
  <2>1. Path[b] \in Seq(Blocks) /\ Len(Path[b]) \in Nat /\ DOMAIN Path[b] = 1..Len(Path[b])
    BY <1>1, PathEnds, LenProperties
  <2>2. i + 1 \in DOMAIN Path[b]
    BY <2>1
  <2> QED BY <2>2 DEF ToSet
<1>4. status[Path[b][i + 1]] # {}
  BY <1>3 DEF IndexInv, Index
<1> QED BY <1>2, <1>4 DEF FlagsSound

(* The nodes to attach are indexed, in the order of their heights, and     *)
(* none but the last is a block that cannot be on the main chain.          *)
AttachList(nodes) ==
  /\ nodes \in Seq(Blocks)
  /\ \A i \in DOMAIN nodes : nodes[i] \in Index \ {Genesis}
  /\ \A i, j \in DOMAIN nodes : i < j => nodes[i] \in Good

LEMMA ToAttachIsList ==
  ASSUME TypeOK, IndexInv, FlagsSound(status), NEW b \in Index
  PROVE  AttachList(ToAttach(b))
<1>0. b \in Blocks /\ tip \in Blocks
  BY DEF Index, TypeOK, MemTypeOK
<1> DEFINE n == ForkLength(b, tip)
           p == Path[b]
           s == SubSeq(p, n + 1, Len(p))
<1>1. n \in Nat \ {0}
  BY <1>0, ForkLengthPositive
<1>2. s \in Seq(Blocks) /\ \A i \in DOMAIN s : s[i] \in Index \ {Genesis}
  BY <1>0, <1>1, PathSuffix DEF IndexInv
<1>3. p \in Seq(Blocks) /\ Len(p) \in Nat
  BY <1>0, PathEnds
<1>4. \A i \in 1..(Len(p) - 1) : p[i] \in Good
  BY AncestorsGood
<1> HIDE DEF n, p
<1>5. /\ Len(s) = IF n + 1 <= Len(p) THEN Len(p) - n ELSE 0
      /\ \A i \in 1..(Len(p) - n) : s[i] = p[n + i]
  BY <1>1, <1>3
<1>6. DOMAIN s = 1..Len(s)
  BY <1>2, LenProperties
<1> HIDE DEF s
<1>7. ASSUME NEW i \in DOMAIN s, NEW j \in DOMAIN s, i < j PROVE s[i] \in Good
  <2>1. n \in Nat /\ n > 0 /\ i \in Nat /\ j \in Nat /\ 0 < i /\ i < j /\ j <= Len(s)
    BY <1>1, <1>5, <1>6, <1>7, <1>3
  <2>2. Len(s) = Len(p) - n
    BY <1>3, <1>5, <2>1
  <2>3. i \in 1..(Len(p) - n) /\ n + i \in 1..(Len(p) - 1)
    BY <1>3, <2>1, <2>2
  <2> QED BY <1>4, <1>5, <2>3
<1> QED BY <1>2, <1>7 DEF AttachList, ToAttach, s, n, p

(* An added flag keeps the flags sound when it is true of the blocks.      *)
LEMMA FlagsSoundAdd ==
  ASSUME NEW stat \in [Blocks -> SUBSET Flags], FlagsSound(stat), NEW S, NEW flag \in Flags,
         \A b \in Blocks \cap S : stat[b] # {},
         flag = "valid" => S \subseteq Good,
         FastAdd \subseteq Connectable /\ flag \in {"failed", "ancestor"} => S \cap Good = {}
  PROVE  FlagsSound(SetStatusFlags(stat, S, flag))
<1> DEFINE new == SetStatusFlags(stat, S, flag)
<1>1. \A b \in Blocks : new[b] = IF b \in S THEN stat[b] \cup {flag} ELSE stat[b]
  BY DEF SetStatusFlags
<1> HIDE DEF new
<1>2. \A b \in Blocks : "valid" \in new[b] => b \in Good
  BY <1>1 DEF FlagsSound
<1>3. \A b \in Blocks \ {Genesis} : new[b] # {} => Prev[b] \in Good
  BY <1>1 DEF FlagsSound
<1>4. FastAdd \subseteq Connectable => \A b \in Blocks \cap Good : new[b] \cap {"failed", "ancestor"} = {}
  BY <1>1 DEF FlagsSound
<1> QED BY <1>2, <1>3, <1>4 DEF FlagsSound, new

(* The check phase marks as valid what passes, as failed what does not,    *)
(* and finds no node above a failed one when fast adds would pass.  When   *)
(* it succeeds every node is marked valid.                                 *)
LEMMA CheckSound ==
  ASSUME NEW nodes, AttachList(nodes), NEW stat \in [Blocks -> SUBSET Flags], FlagsSound(stat),
         \A x \in Index : stat[x] # {}
  PROVE  LET c == CheckAttach(nodes, stat)
         IN  /\ FlagsSound(c.status)
             /\ c.ok => \A i \in DOMAIN nodes : nodes[i] \in Good /\ "valid" \in c.status[nodes[i]]
<1> DEFINE c == CheckAttach(nodes, stat)
           todo == {i \in DOMAIN nodes : "valid" \notin stat[nodes[i]]}
           fail == {i \in todo : nodes[i] \notin Connectable}
           good  == {nodes[i] : i \in {i \in todo : \A j \in fail : i < j}}
           bad   == {nodes[i] : i \in {i \in fail : \A j \in fail : i <= j}}
           after == {nodes[i] : i \in {i \in DOMAIN nodes : \E j \in fail : j < i}}
           s1 == SetStatusFlags(stat, good, "valid")
           s2 == SetStatusFlags(s1, bad, "failed")
           s3 == SetStatusFlags(s2, after, "ancestor")
<1>1. c.status = s3 /\ c.ok = (fail = {})
  BY DEF CheckAttach
<1>0. DOMAIN nodes \subseteq Int /\ \A i \in DOMAIN nodes : nodes[i] \in Index \ {Genesis} /\ nodes[i] \in Blocks
  BY LenProperties DEF AttachList, Index
<1>2. good \subseteq Good /\ \A x \in good : stat[x] # {}
  <2>1. ASSUME NEW i \in todo, \A j \in fail : i < j PROVE nodes[i] \in Connectable
    <3>1. ASSUME nodes[i] \notin Connectable PROVE FALSE
      <4>1. i < i /\ i \in Int
        BY <1>0, <2>1, <3>1
      <4> QED BY <4>1
    <3> QED BY <3>1
  <2> QED BY <1>0, <2>1 DEF Good
<1>3. \A x \in bad : stat[x] # {}
  BY <1>0
<1>4. FastAdd \subseteq Connectable => bad \cap Good = {}
  BY <1>0 DEF Good
<1>5. \A x \in after : stat[x] # {}
  BY <1>0
<1>6. ASSUME FastAdd \subseteq Connectable PROVE after = {}
  <2>1. ASSUME NEW i \in DOMAIN nodes, NEW j \in fail, j < i PROVE FALSE
    <3>1. nodes[j] \in Good /\ nodes[j] # Genesis
      BY <1>0, <2>1 DEF AttachList
    <3> QED BY <1>6, <2>1, <3>1 DEF Good
  <2> QED BY <2>1
<1>7. ASSUME fail = {}, NEW i \in DOMAIN nodes PROVE nodes[i] \in Good /\ (nodes[i] \in good \/ "valid" \in stat[nodes[i]])
  <2>1. CASE "valid" \in stat[nodes[i]]
    BY <1>0, <2>1 DEF FlagsSound
  <2>2. CASE "valid" \notin stat[nodes[i]]
    BY <1>2, <1>7, <2>2
  <2> QED BY <2>1, <2>2
<1> HIDE DEF good, bad, after, fail, c
<1>8. /\ FlagsSound(s1) /\ s1 \in [Blocks -> SUBSET Flags]
      /\ \A x \in Blocks : stat[x] \subseteq s1[x]
  BY <1>2, FlagsSoundAdd, FlagsSet DEF Flags
<1>9. \A x \in Blocks \cap good : "valid" \in s1[x]
  BY DEF SetStatusFlags
<1> HIDE DEF s1
<1>10. /\ FlagsSound(s2) /\ s2 \in [Blocks -> SUBSET Flags]
       /\ \A x \in Blocks : s1[x] \subseteq s2[x]
  <2>1. \A x \in Blocks \cap bad : s1[x] # {}
    BY <1>3, <1>8
  <2> QED BY <1>4, <1>8, <2>1, FlagsSoundAdd, FlagsSet DEF Flags
<1> HIDE DEF s2
<1>11. /\ FlagsSound(s3)
       /\ \A x \in Blocks : s2[x] \subseteq s3[x]
  <2>1. \A x \in Blocks \cap after : s2[x] # {}
    BY <1>5, <1>8, <1>10
  <2> QED BY <1>6, <1>10, <2>1, FlagsSoundAdd, FlagsSet DEF Flags
<1> HIDE DEF s3
<1>12. ASSUME fail = {}, NEW i \in DOMAIN nodes PROVE nodes[i] \in Good /\ "valid" \in s3[nodes[i]]
  BY <1>0, <1>7, <1>8, <1>9, <1>10, <1>11, <1>12
<1> QED BY <1>1, <1>11, <1>12 DEF c

(* getReorganizeNodes returns the nodes of the new branch or empty lists,  *)
(* and refuses only what cannot be on the main chain.                      *)
LEMMA NodesSound ==
  ASSUME IInv, ChainInv, NEW b \in Index \ {Genesis}
  PROVE  LET l == GetReorganizeNodes(b)
         IN  /\ AttachList(l.attach)
             /\ l.status \in [Blocks -> SUBSET Flags]
             /\ FlagsSound(l.status)
             /\ \A x \in Index : l.status[x] # {}
<1> DEFINE l == GetReorganizeNodes(b)
           nodes == ToAttach(b)
           bad == {i \in DOMAIN nodes : KnownInvalid(nodes[i])}
           above == {nodes[i] : i \in {j \in DOMAIN nodes : \A k \in bad : k < j}}
           refuse(S) == [detach |-> <<>>, attach |-> <<>>, status |-> SetStatusFlags(status, S, "ancestor"), marked |-> S]
<1>1. /\ status \in [Blocks -> SUBSET Flags] /\ FlagsSound(status)
      /\ b \in Blocks \ {Genesis} /\ \A x \in Index : status[x] # {}
  BY DEF IInv, TypeOK, MemTypeOK, ChainInv, Index
<1>2. AttachList(nodes)
  BY <1>1, ToAttachIsList DEF IInv
<1>3. AttachList(<<>>)
  BY DEF AttachList
<1>4. ASSUME NEW S, S \subseteq Index, l = refuse(S), FastAdd \subseteq Connectable => S \cap Good = {}
      PROVE  /\ AttachList(l.attach) /\ l.status \in [Blocks -> SUBSET Flags]
             /\ FlagsSound(l.status) /\ \A x \in Index : l.status[x] # {}
  <2>1. l.attach = <<>> /\ l.status = SetStatusFlags(status, S, "ancestor")
    BY <1>4
  <2> HIDE DEF l
  <2>2. \A x \in Blocks \cap S : status[x] # {}
    BY <1>1, <1>4
  <2>3. FlagsSound(l.status)
    BY <1>1, <1>4, <2>1, <2>2, FlagsSoundAdd DEF Flags
  <2>4. l.status \in [Blocks -> SUBSET Flags] /\ \A x \in Blocks : status[x] \subseteq l.status[x]
    BY <1>1, <2>1, FlagsSet DEF Flags
  <2> QED BY <1>1, <1>3, <2>1, <2>3, <2>4 DEF Index
<1>5. \A x \in Blocks \cap Good : FastAdd \subseteq Connectable => ~KnownInvalid(x)
  BY <1>1 DEF FlagsSound, KnownInvalid
<1>6. CASE KnownInvalid(Prev[b])
  <2>1. Prev[b] \in Blocks \cap Good
    BY <1>1, PathOfChild DEF FlagsSound
  <2>2. l = refuse({b})
    BY <1>6 DEF GetReorganizeNodes
  <2> QED BY <1>4, <1>5, <1>6, <2>1, <2>2
<1>7. CASE ~KnownInvalid(Prev[b]) /\ bad # {}
  <2>1. l = refuse(above)
    BY <1>7 DEF GetReorganizeNodes
  <2>2. above \subseteq Index
    BY <1>2 DEF AttachList
  <2>3. ASSUME FastAdd \subseteq Connectable PROVE above = {}
    <3>1. PICK k \in DOMAIN nodes : KnownInvalid(nodes[k])
      BY <1>7
    <3>2. ASSUME NEW j \in DOMAIN nodes, k < j PROVE FALSE
      BY <1>2, <1>5, <2>3, <3>1, <3>2 DEF AttachList, Index
    <3> QED BY <3>1, <3>2
  <2> QED BY <1>4, <2>1, <2>2, <2>3
<1>8. CASE ~KnownInvalid(Prev[b]) /\ bad = {}
  BY <1>1, <1>2, <1>8 DEF GetReorganizeNodes
<1> QED BY <1>6, <1>7, <1>8

(* A transaction that moves no best state and only adds flags.             *)
LEMMA StoredChainKept ==
  ASSUME NEW d, StoredChainInv(d), d.best \in Blocks, NEW e, e.best = d.best, e.total = d.total,
         FlagsSound(e.rows), \A b \in Blocks : d.rows[b] \subseteq e.rows[b]
  PROVE  StoredChainInv(e)
<1>1. ToSet(Path[d.best]) \subseteq Blocks
  BY GenesisOnPath
<1> QED BY <1>1 DEF StoredChainInv, ToUpgrade

(* A flush of sound flags keeps the stored chain sound.                    *)
LEMMA FlushChain ==
  ASSUME IInv, ChainInv, NEW stat, NEW dirt, Marked(stat, dirt), FlagsSound(stat),
         \A b \in Blocks : status[b] \subseteq stat[b],
         FlushToDB(stat, dirt)
  PROVE  /\ FlagsSound(status') /\ \A b \in Blocks : db'.rows[b] \subseteq status'[b]
         /\ StoredChainInv(db') /\ StoredChainInv(disk')
<1> DEFINE newdb == [db EXCEPT !.rows = Flushed(stat, dirt)]
<1>1. db \in DbRecord /\ stat \in [Blocks -> SUBSET Flags] /\ db.best \in Blocks
  BY DEF IInv, StoreInv, DbRecord, Marked
<1>2. Flushed(stat, dirt) = stat
  BY <1>1 DEF Flushed, Marked
<1>3. newdb.rows = stat /\ newdb.best = db.best /\ newdb.total = db.total
  BY <1>1, <1>2 DEF DbRecord
<1>4. /\ status' = stat
      /\ \/ dirt = {} /\ db' = db /\ disk' = disk
         \/ db' = newdb /\ disk' \in {disk, newdb}
  BY DEF FlushToDB, Commit, NoCommit
<1> HIDE DEF newdb
<1>5. StoredChainInv(newdb)
  BY <1>1, <1>3, StoredChainKept DEF ChainInv
<1>6. \A b \in Blocks : db.rows[b] \subseteq stat[b]
  BY DEF ChainInv
<1> QED BY <1>3, <1>4, <1>5, <1>6 DEF ChainInv

LEMMA FlushIgnoringErrorsChain ==
  ASSUME IInv, ChainInv, NEW stat, NEW dirt, Marked(stat, dirt), FlagsSound(stat),
         \A b \in Blocks : status[b] \subseteq stat[b],
         FlushIgnoringErrors(stat, dirt)
  PROVE  /\ FlagsSound(status') /\ \A b \in Blocks : db'.rows[b] \subseteq status'[b]
         /\ StoredChainInv(db') /\ StoredChainInv(disk')
<1>1. CASE FlushToDB(stat, dirt)
  BY <1>1, FlushChain
<1>2. CASE status' = stat /\ NoCommit
  BY <1>2 DEF NoCommit, ChainInv
<1> QED BY <1>1, <1>2 DEF FlushIgnoringErrors

(* A caller that does not move keeps what it knows, because flags are      *)
(* never lost.                                                             *)
LEMMA OtherChainCallers ==
  ASSUME TypeOK, NEW v \in Workers, CallerChainInv(v), \A b \in Blocks : status[b] \subseteq status'[b],
         pc'[v] = pc[v], blk'[v] = blk[v], attach'[v] = attach[v], reorg'[v] = reorg[v]
  PROVE  CallerChainInv(v)'
<1>1. \A i \in DOMAIN attach[v] : attach[v][i] \in Blocks
  BY DEF TypeOK, CallTypeOK
<1> QED BY <1>1 DEF CallerChainInv

(* A step of caller w, seen by all: w itself is looked at by each action.  *)
LEMMA CallersChain ==
  ASSUME IInv, ChainInv, Next, crashes' = crashes, NEW w \in Workers, CallerChainInv(w)',
         \A v \in Workers \ {w} : pc'[v] = pc[v] /\ blk'[v] = blk[v] /\ attach'[v] = attach[v] /\ reorg'[v] = reorg[v]
  PROVE  \A v \in Workers : CallerChainInv(v)'
<1>1. \A b \in Blocks : status[b] \subseteq status'[b]
  BY FlagsGrow
<1>2. ASSUME NEW v \in Workers, v # w PROVE CallerChainInv(v)'
  BY <1>1, <1>2, OtherChainCallers DEF IInv, ChainInv
<1> QED BY <1>2

(* A return leaves the caller with nothing.                                *)
LEMMA ReturnChain ==
  ASSUME CallTypeOK, NEW w \in Workers, NEW r, Return(w, r)
  PROVE  /\ CallerChainInv(w)'
         /\ \A v \in Workers \ {w} : pc'[v] = pc[v] /\ blk'[v] = blk[v] /\ attach'[v] = attach[v] /\ reorg'[v] = reorg[v]
<1>1. /\ pc'[w] = "idle" /\ attach'[w] = <<>>
      /\ \A v \in Workers \ {w} : pc'[v] = pc[v] /\ blk'[v] = blk[v] /\ attach'[v] = attach[v] /\ reorg'[v] = reorg[v]
  BY DEF CallTypeOK, Return
<1> QED BY <1>1 DEF CallerChainInv

(* Steps that change no status and nothing in the database.                *)
LEMMA QuietChain ==
  ASSUME ChainInv, UNCHANGED <<tip, status, db, disk>>, \A v \in Workers : CallerChainInv(v)'
  PROVE  ChainInv'
<1>1. /\ FlagsSound(status)' /\ StoredChainInv(db)' /\ StoredChainInv(disk)'
      /\ tip' \in Good /\ \A b \in Blocks : db'.rows[b] \subseteq status'[b]
  BY DEF ChainInv
<1> QED BY <1>1 DEF ChainInv

-----------------------------------------------------------------------------
(* Every step keeps the second invariant.                                  *)

(* The parent of a submitted block is on the main chain.                   *)
LEMMA SubmitChain ==
  ASSUME IInv, ChainInv, NEW w \in Workers, NEW b \in Blocks \ {Genesis}, Submit(w, b)
  PROVE  ChainInv'
<1> USE DEF Submit, Goto, At, memVars
<1>1. /\ UNCHANGED <<tip, status, db, disk, attach, reorg, crashes>>
      /\ \A v \in Workers \ {w} : pc'[v] = pc[v] /\ blk'[v] = blk[v]
  BY DEF IInv, TypeOK, CallTypeOK
<1>2. CallerChainInv(w)'
  <2>1. CASE UNCHANGED <<pc, blk>>
    BY <1>1, <2>1 DEF ChainInv, CallerChainInv
  <2>2. CASE /\ Prev[b] \in BlockByHash /\ Goto(w, "lock") /\ blk' = [blk EXCEPT ![w] = b]
    <3>1. pc'[w] = "lock" /\ blk'[w] = b
      BY <2>2 DEF IInv, TypeOK, CallTypeOK
    <3>2. Prev[b] \in Good
      <4>1. tip \in Index /\ tip \in Blocks
        BY DEF IInv, IndexInv, Index
      <4>2. Path[tip] \in Seq(Blocks) /\ Len(Path[tip]) \in Nat \ {0} /\ Path[tip][Len(Path[tip])] = tip
            /\ DOMAIN Path[tip] = 1..Len(Path[tip])
        BY <4>1, PathEnds, LenProperties
      <4>3. PICK i \in DOMAIN Path[tip] : Path[tip][i] = Prev[b]
        BY <2>2 DEF BlockByHash, MainChain, ToSet
      <4>4. CASE i = Len(Path[tip])
        BY <4>2, <4>3, <4>4 DEF ChainInv
      <4>5. CASE i # Len(Path[tip])
        <5>1. i \in 1..(Len(Path[tip]) - 1)
          BY <4>2, <4>3, <4>5
        <5> QED BY <4>1, <4>3, <5>1, AncestorsGood DEF IInv, ChainInv
      <4> QED BY <4>4, <4>5
    <3> QED BY <1>1, <3>1, <3>2 DEF ChainInv, CallerChainInv
  <2> QED BY <2>1, <2>2
<1>3. ASSUME NEW v \in Workers, v # w PROVE CallerChainInv(v)'
  BY <1>1, <1>3, OtherChainCallers DEF IInv, ChainInv
<1> QED BY <1>1, <1>2, <1>3, QuietChain

(* The steps that only move the caller, or return.                         *)
LEMMA MoveChain ==
  ASSUME IInv, ChainInv, Next, crashes' = crashes, NEW w \in Workers,
         UNCHANGED <<tip, status, db, disk>>,
         \/ \E r : Return(w, r)
         \/ \E label \in Labels :
              /\ pc' = [pc EXCEPT ![w] = label]
              /\ UNCHANGED <<blk, attach, reorg>>
              /\ label = "lock" => pc[w] = "lock"
              /\ label = "store" => pc[w] = "lock"
              /\ label \in {"connect", "connected", "disconnect", "disconnected", "notify", "finish"}
                   => pc[w] \in {"connect", "connected", "disconnect", "disconnected", "notify", "finish"}
  PROVE  ChainInv'
<1>1. CASE \E r : Return(w, r)
  BY <1>1, ReturnChain, CallersChain, QuietChain DEF IInv, TypeOK
<1>2. ASSUME NEW label \in Labels,
             pc' = [pc EXCEPT ![w] = label],
             UNCHANGED <<blk, attach, reorg>>,
             label = "lock" => pc[w] = "lock",
             label = "store" => pc[w] = "lock",
             label \in {"connect", "connected", "disconnect", "disconnected", "notify", "finish"}
               => pc[w] \in {"connect", "connected", "disconnect", "disconnected", "notify", "finish"}
      PROVE  ChainInv'
  <2>1. pc'[w] = label /\ \A v \in Workers \ {w} : pc'[v] = pc[v]
    BY <1>2 DEF IInv, TypeOK, CallTypeOK
  <2>2. CallerChainInv(w)'
    BY <1>2, <2>1 DEF ChainInv, CallerChainInv
  <2> QED BY <1>2, <2>1, <2>2, CallersChain, QuietChain
<1> QED BY <1>1, <1>2

LEMMA QuietStepsChain ==
  ASSUME IInv, ChainInv, Next, NEW w \in Workers,
         Lock(w) \/ StaysOnSideChain(w) \/ AssertFails(w) \/ Relock(w) \/ Accepted(w)
  PROVE  ChainInv'
<1>1. crashes' = crashes /\ UNCHANGED <<tip, status, db, disk>>
  BY DEF Lock, StaysOnSideChain, AssertFails, Relock, Accepted, memVars
<1>2. CASE Lock(w)
  <2>1. \/ \E r : Return(w, r)
        \/ pc[w] = "lock" /\ pc' = [pc EXCEPT ![w] = "store"] /\ UNCHANGED <<blk, attach, reorg>>
    BY <1>2 DEF Lock, Goto, At
  <2> QED BY <1>1, <2>1, MoveChain DEF Labels
<1>3. CASE StaysOnSideChain(w)
  <2>1. pc' = [pc EXCEPT ![w] = "accepted"] /\ UNCHANGED <<blk, attach, reorg>>
    BY <1>3 DEF StaysOnSideChain, Goto
  <2> QED BY <1>1, <2>1, MoveChain DEF Labels
<1>4. CASE AssertFails(w)
  <2>1. pc' = [pc EXCEPT ![w] = "abort"] /\ UNCHANGED <<blk, attach, reorg>>
    BY <1>4 DEF AssertFails, Goto
  <2> QED BY <1>1, <2>1, MoveChain DEF Labels
<1>5. CASE Relock(w)
  <2>1. /\ pc[w] = "notify" /\ UNCHANGED <<blk, attach, reorg>>
        /\ \E label \in {"connect", "disconnect", "finish"} : pc' = [pc EXCEPT ![w] = label]
    BY <1>5 DEF Relock, Goto, At, Continue
  <2> QED BY <1>1, <2>1, MoveChain DEF Labels
<1>6. CASE Accepted(w)
  BY <1>1, <1>6, MoveChain DEF Accepted
<1> QED BY <1>2, <1>3, <1>4, <1>5, <1>6

(* The parent of the new node was on the main chain when it was submitted. *)
LEMMA StoreBlockChain ==
  ASSUME IInv, ChainInv, Next, NEW w \in Workers, StoreBlock(w)
  PROVE  ChainInv'
<1> DEFINE b == blk[w]
           newdb == [db EXCEPT !.blocks = @ \cup {b}]
<1>1. /\ pc[w] = "store" /\ b \in Blocks \ {Genesis} /\ status[b] = {} /\ Prev[b] \in Good
      /\ status \in [Blocks -> SUBSET Flags] /\ db \in DbRecord
  BY DEF StoreBlock, At, IInv, TypeOK, CallTypeOK, MemTypeOK, CallInv, CallerInv, Index, ChainInv, CallerChainInv, StoreInv
<1>2. /\ status' = [status EXCEPT ![b] = {"stored"}] /\ tip' = tip /\ crashes' = crashes
      /\ db' = newdb /\ disk' \in {disk, newdb}
      /\ pc' = [pc EXCEPT ![w] = "flush"] /\ UNCHANGED <<blk, attach, reorg>>
  BY DEF StoreBlock, Commit, Goto
<1>3. newdb.rows = db.rows /\ newdb.best = db.best /\ newdb.total = db.total /\ db.best \in Blocks
  BY <1>1 DEF DbRecord
<1> HIDE DEF b, newdb
<1>4. FlagsSound(status')
  <2>1. \A x \in Blocks : status'[x] = IF x = b THEN {"stored"} ELSE status[x]
    BY <1>1, <1>2
  <2> QED BY <1>1, <2>1 DEF ChainInv, FlagsSound
<1>5. StoredChainInv(newdb)
  BY <1>3, StoredChainKept DEF ChainInv, StoredChainInv
<1>6. \A x \in Blocks : db'.rows[x] \subseteq status'[x]
  <2>1. \A x \in Blocks : status[x] \subseteq status'[x]
    BY <1>1, <1>2
  <2> QED BY <1>2, <1>3, <2>1 DEF ChainInv
<1>7. /\ pc'[w] = "flush" /\ \A v \in Workers \ {w} : pc'[v] = pc[v]
  BY <1>2 DEF IInv, TypeOK, CallTypeOK
<1>8. CallerChainInv(w)'
  <2>1. \A x \in Blocks : status[x] \subseteq status'[x]
    BY <1>1, <1>2
  <2>2. \A i \in DOMAIN attach[w] : attach[w][i] \in Blocks
    BY DEF IInv, TypeOK, CallTypeOK
  <2> QED BY <1>2, <1>7, <2>1, <2>2 DEF ChainInv, CallerChainInv
<1>9. \A v \in Workers : CallerChainInv(v)'
  BY <1>2, <1>7, <1>8, CallersChain
<1> QED BY <1>2, <1>4, <1>5, <1>6, <1>9 DEF ChainInv

LEMMA FlushesChain ==
  ASSUME IInv, ChainInv, Next, NEW w \in Workers, FlushNewNode(w) \/ FlushBeforeUpdate(w) \/ Abort(w)
  PROVE  ChainInv'
<1>1. Marked(status, dirty)
  BY DEF IInv, TypeOK, MemTypeOK, IndexInv, Marked
<1>2. FlushToDB(status, dirty) \/ FlushIgnoringErrors(status, dirty)
  BY DEF FlushNewNode, FlushBeforeUpdate, Abort
<1>3. /\ FlagsSound(status') /\ \A b \in Blocks : db'.rows[b] \subseteq status'[b]
      /\ StoredChainInv(db') /\ StoredChainInv(disk')
  BY <1>1, <1>2, FlushChain, FlushIgnoringErrorsChain DEF ChainInv
<1>4. status' = status /\ tip' = tip /\ crashes' = crashes
  BY <1>2 DEF FlushToDB, FlushIgnoringErrors, FlushNewNode, FlushBeforeUpdate, Abort
<1>5. \A v \in Workers : CallerChainInv(v)'
  <2>1. CASE FlushNewNode(w)
    <3>1. /\ pc'[w] = "best" /\ \A v \in Workers \ {w} : pc'[v] = pc[v]
          /\ UNCHANGED <<blk, attach, reorg>>
      BY <2>1 DEF FlushNewNode, Goto, IInv, TypeOK, CallTypeOK
    <3>2. CallerChainInv(w)'
      BY <1>4, <3>1 DEF ChainInv, CallerChainInv
    <3> QED BY <1>4, <3>1, <3>2, CallersChain
  <2>2. CASE FlushBeforeUpdate(w)
    BY <1>4, <2>2 DEF FlushBeforeUpdate, callVars, ChainInv, CallerChainInv
  <2>3. CASE Abort(w)
    BY <1>4, <2>3, ReturnChain, CallersChain DEF Abort, IInv, TypeOK
  <2> QED BY <2>1, <2>2, <2>3
<1> QED BY <1>3, <1>4, <1>5 DEF ChainInv

(* The verdict on a block that extends the tip is recorded before the      *)
(* block is connected.                                                     *)
LEMMA ExtendTipChain ==
  ASSUME IInv, ChainInv, Next, NEW w \in Workers, ExtendTip(w)
  PROVE  ChainInv'
<1> DEFINE b == blk[w]
           verdict == IF b \in Connectable THEN "valid" ELSE "failed"
           stat == SetStatusFlags(status, {b}, verdict)
<1>1. /\ b \in Index \ {Genesis} /\ b \in Blocks /\ status[b] # {} /\ tip' = tip /\ crashes' = crashes
      /\ status \in [Blocks -> SUBSET Flags]
  BY DEF ExtendTip, At, IInv, CallInv, CallerInv, Index, TypeOK, CallTypeOK, MemTypeOK
<1>2. Marked(stat, dirty \cup {b})
  BY <1>1, VerdictMarked DEF Flags
<1>3. /\ b \notin FastAdd => FlagsSound(stat)
      /\ \A x \in Blocks : status[x] \subseteq stat[x]
  <2>1. verdict \in Flags /\ (verdict = "valid" => b \in Good)
        /\ (b \notin FastAdd /\ verdict = "failed" => b \notin Good)
        /\ verdict \in {"valid", "failed"}
    BY <1>1 DEF Flags, Good
  <2> HIDE DEF verdict, b
  <2>2. \A x \in Blocks : status[x] \subseteq stat[x]
    BY <1>1, <2>1, FlagsSet
  <2>3. ASSUME b \notin FastAdd PROVE FlagsSound(stat)
    <3>1. /\ \A x \in Blocks \cap {b} : status[x] # {}
          /\ verdict = "valid" => {b} \subseteq Good
          /\ verdict \in {"failed", "ancestor"} => {b} \cap Good = {}
      BY <1>1, <2>1, <2>3
    <3>2. FlagsSound(status)
      BY DEF ChainInv
    <3> QED BY <1>1, <2>1, <3>1, <3>2, FlagsSoundAdd
  <2> QED BY <2>2, <2>3
<1>4. /\ FlagsSound(status') /\ \A x \in Blocks : db'.rows[x] \subseteq status'[x]
      /\ StoredChainInv(db') /\ StoredChainInv(disk')
  <2>1. CASE b \notin FastAdd
    <3>1. FlushIgnoringErrors(stat, dirty \cup {b})
      BY <2>1 DEF ExtendTip
    <3> HIDE DEF stat
    <3> QED BY <1>2, <1>3, <2>1, <3>1, FlushIgnoringErrorsChain
  <2>2. CASE b \in FastAdd
    BY <2>2 DEF ExtendTip, ChainInv
  <2> QED BY <2>1, <2>2
<1>5. \A v \in Workers : CallerChainInv(v)'
  <2>1. CASE Return(w, "error")
    BY <1>1, <2>1, ReturnChain, CallersChain DEF IInv, TypeOK
  <2>2. CASE /\ b \notin FastAdd => b \in Connectable
             /\ Goto(w, "connect")
             /\ attach' = [attach EXCEPT ![w] = <<b>>]
             /\ UNCHANGED <<blk, detach, reorg, ret, chainLock>>
    <3>1. /\ pc'[w] = "connect" /\ attach'[w] = <<b>> /\ blk'[w] = b
          /\ \A v \in Workers \ {w} : pc'[v] = pc[v] /\ blk'[v] = blk[v] /\ attach'[v] = attach[v] /\ reorg'[v] = reorg[v]
      BY <2>2 DEF Goto, IInv, TypeOK, CallTypeOK
    <3>2. b \in Good /\ (b \in FastAdd \/ "valid" \in status'[b])
      <4>1. CASE b \in FastAdd
        BY <4>1 DEF Good
      <4>2. CASE b \notin FastAdd
        <5>1. status' = SetStatusFlags(status, {b}, "valid") /\ b \in Connectable
          BY <2>2, <4>2 DEF ExtendTip, FlushIgnoringErrors, FlushToDB
        <5> QED BY <1>1, <5>1 DEF SetStatusFlags, Good
      <4> QED BY <4>1, <4>2
    <3>3. \A i \in DOMAIN <<b>> : <<b>>[i] = b
      OBVIOUS
    <3>4. CallerChainInv(w)'
      BY <3>1, <3>2, <3>3 DEF CallerChainInv
    <3> QED BY <1>1, <3>1, <3>4, CallersChain
  <2> QED BY <2>1, <2>2 DEF ExtendTip
<1> QED BY <1>1, <1>4, <1>5 DEF ChainInv

(* After a successful check phase every block to attach is marked valid.   *)
LEMMA StartReorganizeChain ==
  ASSUME IInv, ChainInv, Next, NEW w \in Workers, StartReorganize(w)
  PROVE  ChainInv'
<1> DEFINE b == blk[w]
           l == GetReorganizeNodes(b)
           c == CheckAttach(l.attach, l.status)
<1>1. b \in Index \ {Genesis}
  BY DEF StartReorganize, At, IInv, CallInv, CallerInv
<1>2. /\ AttachList(l.attach) /\ l.status \in [Blocks -> SUBSET Flags]
      /\ FlagsSound(l.status) /\ \A x \in Index : l.status[x] # {}
  BY <1>1, NodesSound
<1>3. /\ status' = c.status /\ reorg' = [reorg EXCEPT ![w] = TRUE]
      /\ UNCHANGED <<blk, tip, db, disk, crashes>>
      /\ \/ /\ pc' = [pc EXCEPT ![w] = "abort"]
            /\ UNCHANGED attach
         \/ /\ c.ok
            /\ attach' = [attach EXCEPT ![w] = l.attach]
            /\ pc' = [pc EXCEPT ![w] = Continue(l.detach, l.attach)]
  BY DEF StartReorganize, Goto
<1> HIDE DEF l
<1>4. /\ FlagsSound(c.status)
      /\ c.ok => \A i \in DOMAIN l.attach : l.attach[i] \in Good /\ "valid" \in c.status[l.attach[i]]
  BY <1>2, CheckSound
<1> HIDE DEF c
<1>5. \A x \in Blocks : status[x] \subseteq status'[x]
  BY <1>3, FlagsGrow
<1>6. /\ reorg'[w] = TRUE
      /\ \A v \in Workers \ {w} : pc'[v] = pc[v] /\ blk'[v] = blk[v] /\ attach'[v] = attach[v] /\ reorg'[v] = reorg[v]
  BY <1>3 DEF IInv, TypeOK, CallTypeOK
<1>7. CallerChainInv(w)'
  <2>1. CASE pc' = [pc EXCEPT ![w] = "abort"] /\ UNCHANGED attach
    <3>1. pc'[w] = "abort" /\ \A i \in DOMAIN attach[w] : attach[w][i] \in Blocks
      BY <2>1 DEF IInv, TypeOK, CallTypeOK
    <3> QED BY <1>5, <2>1, <3>1 DEF ChainInv, CallerChainInv
  <2>2. CASE /\ c.ok
             /\ attach' = [attach EXCEPT ![w] = l.attach]
             /\ pc' = [pc EXCEPT ![w] = Continue(l.detach, l.attach)]
    <3>1. attach'[w] = l.attach /\ pc'[w] \in {"connect", "disconnect", "finish"}
      BY <2>2 DEF IInv, TypeOK, CallTypeOK, Continue
    <3> QED BY <1>3, <1>4, <1>6, <2>2, <3>1 DEF CallerChainInv
  <2> QED BY <1>3, <2>1, <2>2
<1>8. \A v \in Workers : CallerChainInv(v)'
  BY <1>3, <1>6, <1>7, CallersChain
<1>9. \A x \in Blocks : db'.rows[x] \subseteq status'[x]
  BY <1>3, <1>5 DEF ChainInv
<1> QED BY <1>3, <1>4, <1>8, <1>9 DEF ChainInv

(* The check phase that stops half way has marked only what it checked.    *)
LEMMA TransactionFailsChain ==
  ASSUME IInv, ChainInv, Next, NEW w \in Workers, TransactionFails(w)
  PROVE  ChainInv'
<1> DEFINE b == blk[w]
           l == GetReorganizeNodes(b)
           nodes(k) == SubSeq(l.attach, 1, k - 1)
<1>1. UNCHANGED <<tip, db, disk, crashes>>
  BY DEF TransactionFails, memVars
<1>2. CASE \E r : Return(w, r) /\ UNCHANGED memVars
  BY <1>1, <1>2, MoveChain DEF memVars
<1>3. CASE Goto(w, "abort") /\ UNCHANGED <<blk, detach, attach, reorg, ret, chainLock, memVars>>
  BY <1>1, <1>3, MoveChain DEF memVars, Goto, Labels
<1>4. ASSUME pc[w] = "best", Goto(w, "abort"), UNCHANGED <<blk, attach, reorg>>,
             NEW k \in DOMAIN l.attach, status' = CheckAttach(nodes(k), status).status
      PROVE  ChainInv'
  <2>1. b \in Index \ {Genesis}
    BY <1>4 DEF IInv, CallInv, CallerInv
  <2>2. AttachList(l.attach)
    BY <2>1, NodesSound
  <2> HIDE DEF l
  <2>3. AttachList(nodes(k))
    <3>1. Len(l.attach) \in Nat /\ k \in 1..Len(l.attach) /\ DOMAIN l.attach = 1..Len(l.attach)
          /\ l.attach \in Seq(Blocks)
      BY <1>4, <2>2, LenProperties DEF AttachList
    <3>2. nodes(k) \in Seq(Blocks) /\ Len(nodes(k)) = k - 1 /\ \A i \in 1..(k - 1) : nodes(k)[i] = l.attach[i]
      BY <3>1
    <3>3. DOMAIN nodes(k) = 1..(k - 1) /\ 1..(k - 1) \subseteq DOMAIN l.attach
      BY <3>1, <3>2
    <3> HIDE DEF nodes
    <3> QED BY <2>2, <3>2, <3>3 DEF AttachList
  <2> HIDE DEF nodes
  <2>4. status \in [Blocks -> SUBSET Flags] /\ FlagsSound(status) /\ \A x \in Index : status[x] # {}
    BY DEF IInv, TypeOK, MemTypeOK, ChainInv, Index
  <2>5. FlagsSound(status')
    BY <1>4, <2>3, <2>4, CheckSound
  <2>6. \A x \in Blocks : status[x] \subseteq status'[x]
    BY <1>1, FlagsGrow
  <2>7. /\ pc'[w] = "abort" /\ \A v \in Workers \ {w} : pc'[v] = pc[v]
        /\ \A i \in DOMAIN attach[w] : attach[w][i] \in Blocks
    BY <1>4 DEF Goto, IInv, TypeOK, CallTypeOK
  <2>8. CallerChainInv(w)'
    BY <1>4, <2>6, <2>7 DEF ChainInv, CallerChainInv
  <2>9. \A v \in Workers : CallerChainInv(v)'
    BY <1>1, <1>4, <2>7, <2>8, CallersChain
  <2>10. \A x \in Blocks : db'.rows[x] \subseteq status'[x]
    BY <1>1, <2>6 DEF ChainInv
  <2> QED BY <1>1, <2>5, <2>9, <2>10 DEF ChainInv
<1> QED BY <1>2, <1>3, <1>4 DEF TransactionFails, At

(* The best state moves to a block that is marked valid in the database,   *)
(* since no row is dirty, or that is a fast add.                           *)
LEMMA ConnectCommitChain ==
  ASSUME IInv, ChainInv, Next, NEW w \in Workers, ConnectCommit(w)
  PROVE  ChainInv'
<1> DEFINE n == Head(attach[w])
           newdb == ConnectedDb(n)
<1>1. /\ pc[w] = "connect" /\ attach[w] \in Seq(Blocks) /\ attach[w] # <<>> /\ dirty = {} /\ Prev[n] = tip
      /\ db \in DbRecord
      /\ db' = newdb /\ disk' \in {disk, newdb} /\ pc' = [pc EXCEPT ![w] = "connected"]
      /\ UNCHANGED <<blk, attach, reorg, tip, status, crashes>>
  BY DEF ConnectCommit, At, Goto, Commit, memVars, IInv, TypeOK, CallTypeOK, CallInv, CallerInv, StoreInv
<1>2. 1 \in DOMAIN attach[w] /\ n = attach[w][1]
  BY <1>1
<1>3. n \in Blocks \ {Genesis} /\ n \in Good /\ ("valid" \in status[n] \/ n \in FastAdd)
  BY <1>1, <1>2 DEF IInv, CallInv, CallerInv, Index, ChainInv, CallerChainInv
<1>4. tip = db.best /\ snapshot = [best |-> db.best, total |-> db.total]
  BY <1>1, HolderSeesBest DEF LockedLabels
<1>5. newdb.rows = db.rows /\ newdb.best = n /\ newdb.total = db.total + NumTx[n]
  BY <1>1, <1>4 DEF ConnectedDb, DbRecord
<1> HIDE DEF n, newdb
<1>6. StoredChainInv(newdb)
  <2>1. db.rows[n] = status[n]
    BY <1>1, <1>3 DEF IInv, IndexInv
  <2>2. ToSet(Path[n]) = ToSet(Path[db.best]) \cup {n}
    BY <1>1, <1>3, <1>4, PathOfChild
  <2>3. ToUpgrade(newdb) \subseteq FastAdd
    BY <1>3, <1>5, <2>1, <2>2 DEF ToUpgrade, ChainInv, StoredChainInv
  <2>4. newdb.total = TotalTxns[n]
    BY <1>1, <1>3, <1>4, <1>5, AttributeAssumption DEF ChainInv, StoredChainInv
  <2> QED BY <1>3, <1>5, <2>3, <2>4 DEF ChainInv, StoredChainInv
<1>7. pc'[w] = "connected" /\ \A v \in Workers \ {w} : pc'[v] = pc[v]
  BY <1>1 DEF IInv, TypeOK, CallTypeOK
<1>8. CallerChainInv(w)'
  BY <1>1, <1>7 DEF ChainInv, CallerChainInv
<1>9. \A v \in Workers : CallerChainInv(v)'
  BY <1>1, <1>7, <1>8, CallersChain
<1>10. \A x \in Blocks : db'.rows[x] \subseteq status'[x]
  BY <1>1, <1>5 DEF ChainInv
<1> QED BY <1>1, <1>6, <1>9, <1>10 DEF ChainInv

(* Back to the parent, which may be on the main chain as the parent of any *)
(* indexed block may.                                                      *)
LEMMA DisconnectCommitChain ==
  ASSUME IInv, ChainInv, Next, NEW w \in Workers, DisconnectCommit(w)
  PROVE  ChainInv'
<1> DEFINE newdb == DisconnectedDb(tip)
<1>1. /\ pc[w] = "disconnect" /\ detach[w] \in Seq(Blocks) /\ detach[w] # <<>> /\ tip = Head(detach[w])
      /\ db \in DbRecord /\ tip \in Index
      /\ db' = newdb /\ disk' \in {disk, newdb} /\ pc' = [pc EXCEPT ![w] = "disconnected"]
      /\ UNCHANGED <<blk, attach, reorg, tip, status, crashes>>
  BY DEF DisconnectCommit, At, Goto, Commit, memVars, IInv, TypeOK, CallTypeOK, CallInv, CallerInv, StoreInv, IndexInv
<1>2. 1 \in DOMAIN detach[w] /\ tip = detach[w][1]
  BY <1>1
<1>3. tip \in Blocks \ {Genesis} /\ Prev[tip] \in Good /\ Prev[tip] \in Blocks
  BY <1>1, <1>2, PathOfChild DEF IInv, CallInv, CallerInv, Index, ChainInv, FlagsSound
<1>4. tip = db.best /\ snapshot = [best |-> db.best, total |-> db.total]
  BY <1>1, HolderSeesBest DEF LockedLabels
<1>5. newdb.rows = db.rows /\ newdb.best = Prev[tip] /\ newdb.total = db.total - NumTx[tip]
  BY <1>1, <1>4 DEF DisconnectedDb, DbRecord
<1> HIDE DEF newdb
<1>6. StoredChainInv(newdb)
  <2>1. ToSet(Path[Prev[tip]]) \subseteq ToSet(Path[db.best])
    BY <1>3, <1>4, PathOfChild
  <2>2. ToUpgrade(newdb) \subseteq FastAdd
    BY <1>5, <2>1 DEF ToUpgrade, ChainInv, StoredChainInv
  <2>3. newdb.total = TotalTxns[Prev[tip]]
    <3>1. TotalTxns[tip] = TotalTxns[Prev[tip]] + NumTx[tip] /\ TotalTxns[Prev[tip]] \in Int /\ NumTx[tip] \in Int
      BY <1>3, AttributeAssumption
    <3>2. db.total = TotalTxns[tip]
      BY <1>4 DEF ChainInv, StoredChainInv
    <3> QED BY <1>5, <3>1, <3>2
  <2> QED BY <1>3, <1>5, <2>2, <2>3 DEF ChainInv, StoredChainInv
<1>7. pc'[w] = "disconnected" /\ \A v \in Workers \ {w} : pc'[v] = pc[v]
  BY <1>1 DEF IInv, TypeOK, CallTypeOK
<1>8. CallerChainInv(w)'
  BY <1>1, <1>7 DEF ChainInv, CallerChainInv
<1>9. \A v \in Workers : CallerChainInv(v)'
  BY <1>1, <1>7, <1>8, CallersChain
<1>10. \A x \in Blocks : db'.rows[x] \subseteq status'[x]
  BY <1>1, <1>5 DEF ChainInv
<1> QED BY <1>1, <1>6, <1>9, <1>10 DEF ChainInv

LEMMA InMemoryChain ==
  ASSUME IInv, ChainInv, Next, NEW w \in Workers, ConnectInMemory(w) \/ DisconnectInMemory(w)
  PROVE  ChainInv'
<1>1. /\ pc' = [pc EXCEPT ![w] = "notify"] /\ pc[w] \in {"connected", "disconnected"}
      /\ UNCHANGED <<blk, reorg, status, db, disk, crashes>>
      /\ attach \in [Workers -> Seq(Blocks)]
  BY DEF ConnectInMemory, DisconnectInMemory, SetTip, Goto, At, IInv, TypeOK, CallTypeOK
<1>2. /\ pc'[w] = "notify" /\ \A v \in Workers \ {w} : pc'[v] = pc[v] /\ attach'[v] = attach[v]
  BY <1>1 DEF ConnectInMemory, DisconnectInMemory, IInv, TypeOK, CallTypeOK
<1>3. CASE ConnectInMemory(w)
  <2>1. attach[w] \in Seq(Blocks) /\ attach[w] # <<>> /\ attach'[w] = Tail(attach[w]) /\ tip' = Head(attach[w])
    BY <1>1, <1>3 DEF ConnectInMemory, SetTip, At, IInv, CallInv, CallerInv
  <2>2. /\ 1 \in DOMAIN attach[w] /\ Head(attach[w]) = attach[w][1]
        /\ \A i \in DOMAIN Tail(attach[w]) : i + 1 \in DOMAIN attach[w] /\ Tail(attach[w])[i] = attach[w][i + 1]
    BY <2>1
  <2>3. CallerChainInv(w)'
    BY <1>1, <1>2, <2>1, <2>2 DEF ChainInv, CallerChainInv
  <2>4. tip' \in Good
    BY <2>1, <2>2 DEF ChainInv, CallerChainInv
  <2>5. \A v \in Workers : CallerChainInv(v)'
    BY <1>1, <1>2, <2>3, CallersChain
  <2> QED BY <1>1, <2>4, <2>5 DEF ChainInv
<1>4. CASE DisconnectInMemory(w)
  <2>1. /\ attach' = attach /\ tip' = db.best
    BY <1>4 DEF DisconnectInMemory, SetTip, At, IInv, CallInv, CallerInv
  <2>2. CallerChainInv(w)'
    BY <1>1, <1>2, <2>1 DEF ChainInv, CallerChainInv
  <2>3. \A v \in Workers : CallerChainInv(v)'
    BY <1>1, <1>2, <2>1, <2>2, CallersChain
  <2> QED BY <1>1, <2>1, <2>3 DEF ChainInv, StoredChainInv
<1> QED BY <1>3, <1>4

(* A fast-added block is marked valid once it is connected.                *)
LEMMA FinishConnectChain ==
  ASSUME IInv, ChainInv, Next, NEW w \in Workers, FinishConnect(w)
  PROVE  ChainInv'
<1> DEFINE b == blk[w]
           stat == SetStatusFlags(status, {b}, "valid")
<1>1. /\ b \in Index \ {Genesis} /\ b \in Blocks /\ status[b] # {} /\ pc[w] = "finish" /\ tip' = tip /\ crashes' = crashes
      /\ status \in [Blocks -> SUBSET Flags] /\ UNCHANGED <<blk, attach, reorg>>
  BY DEF FinishConnect, At, IInv, CallInv, CallerInv, Index, TypeOK, CallTypeOK, MemTypeOK
<1>2. Marked(stat, dirty \cup {b}) /\ Marked(status, dirty)
  BY <1>1, VerdictMarked DEF Flags, IInv, TypeOK, MemTypeOK, IndexInv, Marked
<1>3. ~reorg[w] => b \in Good
  BY <1>1 DEF ChainInv, CallerChainInv
<1>4. /\ FlagsSound(status)
      /\ ~reorg[w] => FlagsSound(stat)
      /\ \A x \in Blocks : status[x] \subseteq stat[x]
  <2>1. ASSUME ~reorg[w] PROVE {b} \subseteq Good /\ \A x \in Blocks \cap {b} : status[x] # {}
    BY <1>1, <1>3, <2>1
  <2>2. FlagsSound(status)
    BY DEF ChainInv
  <2> HIDE DEF b
  <2> QED BY <1>1, <2>1, <2>2, FlagsSoundAdd, FlagsSet DEF Flags
<1>5. \/ ~reorg[w] /\ FlushIgnoringErrors(stat, dirty \cup {b})
      \/ FlushIgnoringErrors(status, dirty)
      \/ UNCHANGED <<status, dirty, db, disk, failures>>
  BY DEF FinishConnect
<1> HIDE DEF stat
<1>6. /\ FlagsSound(status') /\ \A x \in Blocks : db'.rows[x] \subseteq status'[x]
      /\ StoredChainInv(db') /\ StoredChainInv(disk')
  <2>1. CASE ~reorg[w] /\ FlushIgnoringErrors(stat, dirty \cup {b})
    BY <1>2, <1>4, <2>1, FlushIgnoringErrorsChain
  <2>2. CASE FlushIgnoringErrors(status, dirty)
    BY <1>2, <1>4, <2>2, FlushIgnoringErrorsChain
  <2>3. CASE UNCHANGED <<status, dirty, db, disk, failures>>
    BY <2>3 DEF ChainInv
  <2> QED BY <1>5, <2>1, <2>2, <2>3
<1>7. /\ pc'[w] = "accepted" /\ \A v \in Workers \ {w} : pc'[v] = pc[v]
      /\ \A i \in DOMAIN attach[w] : attach[w][i] \in Blocks
  BY DEF FinishConnect, Goto, IInv, TypeOK, CallTypeOK
<1>8. CallerChainInv(w)'
  <2>1. \A x \in Blocks : status[x] \subseteq status'[x]
    BY <1>1, FlagsGrow
  <2> QED BY <1>1, <1>7, <2>1 DEF ChainInv, CallerChainInv
<1>9. \A v \in Workers : CallerChainInv(v)'
  BY <1>1, <1>7, <1>8, CallersChain
<1> QED BY <1>1, <1>6, <1>9 DEF ChainInv

(* The reload marks the ancestors of the stored tip, which may all be on   *)
(* the main chain: the tip may, and the others are parents.                *)
LEMMA CrashChain ==
  ASSUME IInv, ChainInv, CrashAndRestart
  PROVE  ChainInv'
<1> DEFINE stat == SetStatusFlags(disk.rows, ToUpgrade(disk), "valid")
           reloaded == [disk EXCEPT !.rows = stat]
<1>1. /\ disk \in DbRecord /\ RowsInv(disk) /\ StoredChainInv(disk)
      /\ disk.best \in Blocks /\ disk.rows \in [Blocks -> SUBSET Flags]
  BY DEF IInv, StoreInv, ChainInv, DbRecord
<1>2. /\ status' = stat /\ tip' = disk.best /\ db' = reloaded /\ disk' \in {disk, reloaded}
      /\ pc' = [w \in Workers |-> "idle"] /\ attach' = [w \in Workers |-> <<>>]
  BY DEF CrashAndRestart
<1>3. reloaded.rows = stat /\ reloaded.best = disk.best /\ reloaded.total = disk.total
  BY <1>1 DEF DbRecord
<1>4. ToSet(Path[disk.best]) \subseteq Good /\ ToSet(Path[disk.best]) \subseteq Blocks
  <2> DEFINE p == Path[disk.best]
  <2>1. p \in Seq(Blocks) /\ Len(p) \in Nat \ {0} /\ p[Len(p)] = disk.best /\ DOMAIN p = 1..Len(p)
    BY <1>1, PathEnds, LenProperties
  <2>2. ASSUME NEW i \in 1..Len(p) PROVE p[i] \in Good
    <3>1. CASE i = Len(p)
      BY <1>1, <2>1, <3>1 DEF StoredChainInv
    <3>2. CASE i # Len(p)
      <4>1. i \in 1..(Len(p) - 1) /\ i + 1 \in DOMAIN p
        BY <2>1, <2>2, <3>2
      <4>2. p[i + 1] \in Blocks \ {Genesis} /\ Prev[p[i + 1]] = p[i]
        BY <1>1, <4>1, PathLinks
      <4>3. disk.rows[p[i + 1]] # {}
        BY <1>1, <4>1 DEF RowsInv, ToSet
      <4> QED BY <1>1, <4>2, <4>3 DEF StoredChainInv, FlagsSound
    <3> QED BY <3>1, <3>2
  <2> QED BY <1>1, <2>1, <2>2, GenesisOnPath DEF ToSet
<1>5. FlagsSound(stat) /\ \A b \in Blocks : disk.rows[b] \subseteq stat[b]
  <2>1. ToUpgrade(disk) \subseteq Good /\ \A b \in Blocks \cap ToUpgrade(disk) : disk.rows[b] # {}
    BY <1>1, <1>4 DEF ToUpgrade, RowsInv
  <2>2. FlagsSound(disk.rows)
    BY <1>1 DEF StoredChainInv
  <2> QED BY <1>1, <2>1, <2>2, FlagsSoundAdd, FlagsSet DEF Flags
<1> HIDE DEF stat, reloaded
<1>6. StoredChainInv(reloaded)
  BY <1>1, <1>3, <1>5, StoredChainKept
<1>7. \A w \in Workers : CallerChainInv(w)'
  BY <1>2 DEF CallerChainInv
<1>8. tip' \in Good
  BY <1>1, <1>2 DEF StoredChainInv
<1> QED BY <1>1, <1>2, <1>3, <1>5, <1>6, <1>7, <1>8 DEF ChainInv

LEMMA InitChain == Init => ChainInv
<1> SUFFICES ASSUME Init PROVE ChainInv
  OBVIOUS
<1>1. Genesis \in Blocks /\ ToSet(Path[Genesis]) = {Genesis} /\ TotalTxns[Genesis] = NumTx[Genesis] /\ Genesis \in Good
  BY TreeAssumption, AttributeAssumption DEF ToSet, Good
<1>2. \A b \in Blocks : GenesisDb.rows[b] = IF b = Genesis THEN {"stored", "valid"} ELSE {}
  BY DEF GenesisDb
<1>3. FlagsSound(GenesisDb.rows)
  BY <1>1, <1>2 DEF FlagsSound
<1>4. StoredChainInv(GenesisDb)
  <2>1. GenesisDb.best = Genesis /\ GenesisDb.total = NumTx[Genesis]
    BY DEF GenesisDb
  <2> QED BY <1>1, <1>2, <1>3, <2>1 DEF StoredChainInv, ToUpgrade
<1>5. \A w \in Workers : CallerChainInv(w)
  BY DEF Init, CallerChainInv
<1> QED BY <1>1, <1>3, <1>4, <1>5 DEF ChainInv, Init

LEMMA NextChain == IInv /\ ChainInv /\ [Next]_vars => ChainInv'
<1> SUFFICES ASSUME IInv, ChainInv, [Next]_vars PROVE ChainInv'
  OBVIOUS
<1>1. ASSUME NEW w \in Workers, NEW b \in Blocks \ {Genesis}, Submit(w, b) PROVE ChainInv'
  BY <1>1, SubmitChain
<1>2. ASSUME NEW w \in Workers, Step(w) PROVE ChainInv'
  <2>1. Next
    BY <1>2 DEF Next
  <2> QED BY <1>2, <2>1, QuietStepsChain, StoreBlockChain, FlushesChain, ExtendTipChain, StartReorganizeChain,
             ConnectCommitChain, DisconnectCommitChain, InMemoryChain, FinishConnectChain
          DEF Step
<1>3. ASSUME NEW w \in Workers, TransactionFails(w) PROVE ChainInv'
  <2>1. Next
    BY <1>3 DEF Next
  <2> QED BY <1>3, <2>1, TransactionFailsChain
<1>4. CASE (\E b \in Blocks \ {Genesis} : CheckConnectBlockTemplate(b)) \/ UNCHANGED vars
  <2>1. UNCHANGED <<pc, blk, attach, reorg, tip, status, db, disk>>
    BY <1>4 DEF CheckConnectBlockTemplate, callVars, memVars, vars
  <2>2. \A v \in Workers : CallerChainInv(v)'
    BY <2>1 DEF ChainInv, CallerChainInv
  <2> QED BY <2>1, <2>2, QuietChain
<1>5. CASE CrashAndRestart
  BY <1>5, CrashChain
<1> QED BY <1>1, <1>2, <1>3, <1>4, <1>5 DEF Next

(* The verdicts, the marks and the lists of the callers stay as ChainInv   *)
(* describes them.                                                         *)
THEOREM ChainInductive == Spec => []ChainInv
BY InitChain, NextChain, Inductive, PTL DEF Spec

(* The stored totals are those of the stored chains, a crash leaves only   *)
(* fast adds to be marked valid, and every block of the main chain passed  *)
(* checkConnectBlock or skipped it as a fast add.                          *)
StoredChainIsChecked ==
  /\ TotalMatchesBest
  /\ ValidityPersistedFirst
  /\ MainChain \subseteq Connectable \cup FastAdd \cup {Genesis}

(* The tip may be on the main chain, and the blocks below it are parents.  *)
LEMMA MainChainGood ==
  ASSUME IInv, ChainInv
  PROVE  MainChain \subseteq Blocks \cap Good
<1> DEFINE p == Path[tip]
<1>1. tip \in Index /\ tip \in Blocks
  BY DEF IInv, IndexInv, Index
<1>2. p \in Seq(Blocks) /\ Len(p) \in Nat \ {0} /\ p[Len(p)] = tip /\ DOMAIN p = 1..Len(p)
  BY <1>1, PathEnds, LenProperties
<1>3. ASSUME NEW i \in 1..Len(p) PROVE p[i] \in Good
  <2>1. CASE i = Len(p)
    BY <1>2, <2>1 DEF ChainInv
  <2>2. CASE i # Len(p)
    <3>1. i \in 1..(Len(p) - 1)
      BY <1>2, <1>3, <2>2
    <3> QED BY <1>1, <3>1, AncestorsGood DEF IInv, ChainInv
  <2> QED BY <2>1, <2>2
<1> QED BY <1>1, <1>2, <1>3, GenesisOnPath DEF MainChain, ToSet

(* The stored chain is a checked one, whatever is submitted as a fast add: *)
(* connectBlock never moves the best state to a block whose verdict is not *)
(* in the database, although verdicts are flushed with errors ignored and  *)
(* the lock is released between the blocks of a reorganization.            *)
THEOREM StoredChainCorrect == Spec => []StoredChainIsChecked
<1>1. IInv /\ ChainInv => StoredChainIsChecked
  BY MainChainGood
  DEF Good, ChainInv, StoredChainInv, StoredChainIsChecked, TotalMatchesBest, ValidityPersistedFirst
<1> QED BY <1>1, Inductive, ChainInductive, PTL

(* Whatever callers, errors, crashes and concurrent reorganizations do,    *)
(* the chain consists of valid blocks known to be valid, no main-chain     *)
(* block is ever marked invalid and no indexed block has an invalid        *)
(* parent, provided that the blocks submitted as fast adds are what the    *)
(* BFFastAdd flag says they are: already known to fit.                     *)
THEOREM ChainCorrect ==
  ASSUME FastAdd \subseteq Connectable
  PROVE  Spec => []ChainIsValid
<1>1. ASSUME IInv, ChainInv PROVE ChainIsValid
  <2>1. TotalMatchesBest /\ ValidityPersistedFirst
    BY <1>1 DEF ChainInv, StoredChainInv, TotalMatchesBest, ValidityPersistedFirst
  <2>2. \A b \in Blocks \cap Good : ~KnownInvalid(b)
    BY <1>1 DEF ChainInv, FlagsSound, KnownInvalid
  <2>3. MainChainValid
    BY <1>1, <2>2, MainChainGood DEF MainChainValid, Good
  <2>4. NoInvalidParent
    <3>1. ASSUME NEW b \in Index \ {Genesis} PROVE Prev[b] \in Index /\ ~KnownInvalid(Prev[b])
      <4>1. b \in Blocks \ {Genesis} /\ status[b] # {}
        BY DEF Index
      <4>2. Prev[b] \in Blocks /\ Prev[b] \in ToSet(Path[b])
        BY <4>1, PathOfChild
      <4>3. Prev[b] \in Index
        BY <1>1, <4>2 DEF IInv, IndexInv
      <4>4. Prev[b] \in Good
        BY <1>1, <4>1 DEF ChainInv, FlagsSound
      <4> QED BY <2>2, <4>2, <4>3, <4>4
    <3> QED BY <3>1 DEF NoInvalidParent
  <2> QED BY <2>1, <2>3, <2>4 DEF ChainIsValid
<1>2. IInv /\ ChainInv => ChainIsValid
  BY <1>1
<1> QED BY <1>2, Inductive, ChainInductive, PTL
=============================================================================

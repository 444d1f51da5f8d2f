------------------------------- MODULE Cursor -------------------------------
(***************************************************************************)
(* Database transactions of ffldb that walk their buckets with cursors.    *)
(* What a transaction sees has three layers: leveldb rows, the rows and    *)
(* removals of the cache (an immutable treap that every commit replaces    *)
(* and open transactions keep), and the rows and removals the transaction  *)
(* itself made (a mutable treap).  A cursor merges one iterator per layer. *)
(*                                                                         *)
(* One bucket is walked.  Its rows, its entries in the bucket index and    *)
(* the rows of a nested bucket lie in separate key ranges:                 *)
(*     rows 1 .. 3, nested rows 4, its own index entry 5, the index        *)
(*     entries 6 and 7 of its nested buckets.                              *)
(* pendingRemove and cachedRemove are only asked for membership and are    *)
(* sets here.  A snapshot is taken in one step (FFLDB has the two steps).  *)
(***************************************************************************)
EXTENDS Treap
LOCAL INSTANCE SequencesExt

CONSTANTS
  Readers,      \* read-only transactions
  Writer,       \* the writable transaction; writeLock admits one at a time
  Walkers,      \* bound: the transactions that open a cursor
  Priorities,   \* what rand.Int may return
  Stores,       \* the sets of rows leveldb may hold at first
  Puts,         \* bound: the rows a writer puts
  MaxWrites,    \* bound: rows put or deleted
  Liberties     \* what callers do with cursors, see below

(***************************************************************************)
(* Liberties: "turn", a cursor goes back after it went forward or the      *)
(* other way round; "reposition", a cursor that was open while the         *)
(* transaction changed rows is positioned again; "seek", Seek is called    *)
(* while a nested bucket created since the last flush is in a treap;       *)
(* "readonly", Delete is called on the cursor of a read-only transaction.  *)
(* database/interface.go allows the first three and promises an error for  *)
(* the last; the code keeps its promises to callers that take none.        *)
(***************************************************************************)
ASSUME CursorAssumption ==
  /\ Writer \notin Readers /\ Walkers \subseteq Readers \cup {Writer}
  /\ Priorities \subseteq Nat /\ Priorities # {}
  /\ Stores \subseteq SUBSET (1 .. 4)
  /\ Puts \subseteq 1 .. 3 /\ MaxWrites \in Nat
  /\ Liberties \subseteq {"turn", "reposition", "seek", "readonly"}

VARIABLES ldb, heap, cached, cachedRemove, tx, cur, at, writes, cacheRows, gone

vars == <<ldb, heap, cached, cachedRemove, tx, cur, at, writes, cacheRows, gone>>

Txs == Readers \cup {Writer}
Keys == 1 .. 7
NoValue == -1
NoRows == [k \in Keys |-> NoValue]
Stored(rows) == {k \in Keys : rows[k] # NoValue}

(***************************************************************************)
(* Buckets: the walked bucket, its nested buckets, and their key ranges.   *)
(***************************************************************************)
Top == "top"
NestedOf == [k \in {6, 7} |-> IF k = 6 THEN "inner" ELSE "empty"]
IndexEntry == 5

KeyRange(b) == CASE b = Top -> <<1, 4>> [] b = "inner" -> <<4, 5>> [] OTHER -> <<8, 8>>
BucketRange(b) == IF b = Top THEN <<6, 8>> ELSE <<8, 8>>

IsIndexKey(k) == k >= IndexEntry

Within(k, range) == range[1] <= k /\ k < range[2]

(***************************************************************************)
(* What a snapshot and a transaction see.                                  *)
(***************************************************************************)
Overlay(rows, put, removed) ==
  [k \in Keys |-> IF k \in removed THEN NoValue
                  ELSE IF put[k] # NoValue THEN put[k] ELSE rows[k]]

\* The rows a treap holds.
ValueOf(h, node) == IF node # nil THEN h[node].value ELSE NoValue

Rows(h, t) == [k \in Keys |-> ValueOf(h, get(h, t.root, k))]

SnapshotRows(t) == Overlay(t.ldb, Rows(heap, t.keys), t.remove)

\* fetchKey: only a writable transaction looks at its own changes.
fetchRows(x) ==
  LET t == tx[x]
  IN  IF x = Writer THEN Overlay(SnapshotRows(t), Rows(t.nodes, t.pending), t.pendingRemove)
      ELSE SnapshotRows(t)

(***************************************************************************)
(* Sets of keys in order, and an iterator of leveldb: a position in the    *)
(* stored rows of a range, or 0.                                           *)
(***************************************************************************)
Least(S) == IF S = {} THEN 0 ELSE CHOOSE k \in S : \A j \in S : k <= j
Greatest(S) == IF S = {} THEN 0 ELSE CHOOSE k \in S : \A j \in S : j <= k
Nearest(S, forwards) == IF forwards THEN Least(S) ELSE Greatest(S)
Past(S, k, forwards) == Nearest({j \in S : IF forwards THEN j > k ELSE j < k}, forwards)

\* Which of two valid positions is chosen, 0 being exhausted.
ChooseKey(first, second, forwards) ==
  CASE first = 0 /\ second = 0 -> 0
    [] first # 0 /\ second = 0 -> 1
    [] first = 0 /\ second # 0 -> 2
    [] OTHER -> IF (forwards /\ first > second) \/ (~forwards /\ first < second) THEN 2 ELSE 1

(***************************************************************************)
(* dbCacheIterator: a leveldb iterator and an iterator of the cached rows. *)
(* s is the transaction whose snapshot it reads; chosen is 1 for dbIter,   *)
(* 2 for cacheIter and 0 when it is exhausted.                             *)
(***************************************************************************)
NewDbIter(s, range) ==
  [range |-> range, db |-> 0, cache |-> Iterator(s.keys.root, range[1], range[2]), chosen |-> 0]

dbRows(s, it) == {k \in Stored(s.ldb) : Within(k, it.range)}

dbKey(it) == CASE it.chosen = 0 -> 0 [] it.chosen = 1 -> it.db [] OTHER -> Key(heap, it.cache)

dbValue(s, it) == IF it.chosen = 1 THEN s.ldb[it.db] ELSE heap[it.cache.node].value

cacheUpdates(s, k) == k \in s.remove \/ Has(heap, s.keys.root, k)

\* chooseIterator, after skipPendingUpdates.
dbSkip(it, kept, forwards) == IF it.db = 0 \/ it.db \in kept THEN it.db ELSE Past(kept, it.db, forwards)

dbChosen(it, db, forwards) == [it EXCEPT !.db = db, !.chosen = ChooseKey(db, Key(heap, it.cache), forwards)]

dbChoose(s, it, forwards) ==
  dbChosen(it, dbSkip(it, {k \in dbRows(s, it) : ~cacheUpdates(s, k)}, forwards), forwards)

dbEnd(s, it, forwards) ==
  dbChoose(s, [it EXCEPT !.db = Nearest(dbRows(s, it), forwards),
                         !.cache = IF forwards THEN First(heap, @) ELSE IterLast(heap, @)], forwards)

dbSeek(s, it, key) ==
  dbChoose(s, [it EXCEPT !.db = Least({k \in dbRows(s, it) : k >= key}),
                         !.cache = Seek(heap, @, key)], TRUE)

dbMove(s, it, forwards) ==
  IF it.chosen = 0 THEN it
  ELSE dbChoose(s, IF it.chosen = 1 THEN [it EXCEPT !.db = Past(dbRows(s, it), @, forwards)]
                   ELSE [it EXCEPT !.cache = Step(heap, @, forwards)], forwards)

(***************************************************************************)
(* goleveldb's merged iterator over the sub-iterators of several ranges:   *)
(* at is the one it stands on (0: none).  When it turns it first puts the  *)
(* others on the other side of its key.                                    *)
(***************************************************************************)
MergedChoose(its, forwards, KeyOf(_)) ==
  LET keys == {KeyOf(its[i]) : i \in DOMAIN its} \ {0}
      key  == Nearest(keys, forwards)
  IN  [its |-> its, forwards |-> forwards,
       at |-> IF keys = {} THEN 0 ELSE CHOOSE i \in DOMAIN its : KeyOf(its[i]) = key]

MergedKey(m, KeyOf(_)) == IF m.at = 0 THEN 0 ELSE KeyOf(m.its[m.at])

MergedTurn(it, forwards, KeyOf(_), Move(_, _), End(_)) ==
  IF forwards THEN it ELSE IF KeyOf(it) # 0 THEN Move(it, FALSE) ELSE End(it)

MergedStep(its, i, forwards, KeyOf(_), Move(_, _)) ==
  MergedChoose([its EXCEPT ![i] = Move(@, forwards)], forwards, KeyOf)

MergedMove(m, forwards, KeyOf(_), Move(_, _), SeekTo(_, _), End(_)) ==
  MergedStep([i \in DOMAIN m.its |->
                IF m.forwards = forwards \/ (i = m.at /\ ~forwards) THEN m.its[i]
                ELSE MergedTurn(SeekTo(m.its[i], KeyOf(m.its[m.at])), forwards, KeyOf, Move, End)],
             m.at, forwards, KeyOf, Move)

(***************************************************************************)
(* The cursor.  The ranges are those of ctKeys, ctBuckets or ctFull; t is  *)
(* the cursor's transaction; chosen is 1 for dbIter, 2 for pendingIter.    *)
(***************************************************************************)
Ranges(type, b) ==
  CASE type = "ctKeys" -> <<KeyRange(b)>>
    [] type = "ctBuckets" -> <<BucketRange(b)>>
    [] OTHER -> <<KeyRange(b), BucketRange(b)>>

newCursor(t, ranges) ==
  [db |-> [its |-> [i \in DOMAIN ranges |-> NewDbIter(t, ranges[i])], at |-> 0, forwards |-> TRUE],
   pend |-> [its |-> [i \in DOMAIN ranges |-> Iterator(t.pending.root, ranges[i][1], ranges[i][2])],
             at |-> 0, forwards |-> TRUE],
   chosen |-> 0]

pendingKey(t, c) == MergedKey(c.pend, LAMBDA it : Key(t.nodes, it))

rawKey(t, c) ==
  CASE c.chosen = 0 -> 0 [] c.chosen = 1 -> MergedKey(c.db, dbKey) [] OTHER -> pendingKey(t, c)

rawValue(t, c) ==
  IF c.chosen = 1 THEN dbValue(t, c.db.its[c.db.at]) ELSE t.nodes[c.pend.its[c.pend.at].node].value

Updates(t, k) == k \in t.pendingRemove \/ Has(t.nodes, t.pending.root, k)

dbStep(t, m, forwards) ==
  MergedMove(m, forwards, dbKey, LAMBDA it, f : dbMove(t, it, f), LAMBDA it, k : dbSeek(t, it, k),
             LAMBDA it : dbEnd(t, it, FALSE))

Times(n) == [i \in 1 .. n |-> i]

skipPendingUpdates(t, m, forwards) ==
  FoldLeft(LAMBDA s, i : IF s.at # 0 /\ Updates(t, MergedKey(s, dbKey)) THEN dbStep(t, s, forwards) ELSE s,
           m, Times(Cardinality(Keys)))

Chosen(t, c, db, forwards) ==
  [c EXCEPT !.db = db, !.chosen = ChooseKey(MergedKey(db, dbKey), pendingKey(t, c), forwards)]

chooseIterator(t, c, forwards) == Chosen(t, c, skipPendingUpdates(t, c.db, forwards), forwards)

\* First (forwards) and Last.
CursorEnd(t, c, forwards) ==
  chooseIterator(t,
    [c EXCEPT !.db = MergedChoose([i \in DOMAIN @.its |-> dbEnd(t, @.its[i], forwards)], forwards, dbKey),
              !.pend = MergedChoose([i \in DOMAIN @.its |-> IF forwards THEN First(t.nodes, @.its[i])
                                                            ELSE IterLast(t.nodes, @.its[i])],
                                    forwards, LAMBDA it : Key(t.nodes, it))], forwards)

CursorSeek(t, c, key) ==
  chooseIterator(t,
    [c EXCEPT !.db = MergedChoose([i \in DOMAIN @.its |-> dbSeek(t, @.its[i], key)], TRUE, dbKey),
              !.pend = MergedChoose([i \in DOMAIN @.its |-> Seek(t.nodes, @.its[i], key)], TRUE,
                                    LAMBDA it : Key(t.nodes, it))], TRUE)

\* Next (forwards) and Prev.
pendingStep(t, m, forwards) ==
  MergedMove(m, forwards, LAMBDA it : Key(t.nodes, it), LAMBDA it, f : Step(t.nodes, it, f),
             LAMBDA it, k : Seek(t.nodes, it, k), LAMBDA it : IterLast(t.nodes, it))

CursorMove(t, c, forwards) ==
  IF c.chosen = 0 THEN c
  ELSE chooseIterator(t, IF c.chosen = 1 THEN [c EXCEPT !.db = dbStep(t, @, forwards)]
                         ELSE [c EXCEPT !.pend = pendingStep(t, @, forwards)], forwards)

(***************************************************************************)
(* Changes of a transaction.                                               *)
(***************************************************************************)
notifyActiveItersMutant(t, c) == c  \* ForceReseek is not called

notifyActiveIters(t, c) ==
  [c EXCEPT !.pend.its = [i \in DOMAIN @ |-> ForceReseek(t.nodes, @[i], t.pending.root)]]

WithPending(t, r) == [t EXCEPT !.nodes = r.h, !.pending = r.t]

putKey(t, key, value, priority) ==
  [WithPending(t, Put(t.nodes, t.pending, key, value, priority))
     EXCEPT !.pendingRemove = @ \ {key}, !.rows[key] = value]

deleteKey(t, key) ==
  [WithPending(t, Delete(t.nodes, t.pending, key))
     EXCEPT !.pendingRemove = @ \cup {key}, !.rows[key] = NoValue]

\* The keys ForEach ("ctKeys") and ForEachBucket ("ctBuckets") pass to fn.
ForEach(t, type) ==
  LET pass(s, i) == IF rawKey(t, s.c) = 0 THEN s
                    ELSE [c |-> CursorMove(t, s.c, TRUE), keys |-> Append(s.keys, rawKey(t, s.c))]
  IN  FoldLeft(pass, [c |-> CursorEnd(t, newCursor(t, Ranges(type, Top)), TRUE), keys |-> <<>>],
               Times(Cardinality(Keys))).keys

\* One of the two loops of DeleteBucket: deletes what a cursor over ranges
\* finds, without telling that cursor of it, and returns the keys.
SweepOn(s, t, key) == [t |-> t, c |-> CursorMove(t, s.c, TRUE), keys |-> Append(s.keys, key)]

SweepOnce(s, key) == IF key = 0 THEN s ELSE SweepOn(s, deleteKey(s.t, key), key)

Sweep(t, ranges) ==
  FoldLeft(LAMBDA s, i : SweepOnce(s, rawKey(s.t, s.c)),
           [t |-> t, c |-> CursorEnd(t, newCursor(t, ranges), TRUE), keys |-> <<>>],
           Times(2 * Cardinality(Keys)))

DeleteNestedMutant(t) == Sweep(t, Ranges("ctKeys", Top)).t  \* nested buckets are left

\* A bucket is taken from the stack, swept, and the ones nested in it pushed.
Pushed(childIDs, nested) ==
  [t |-> nested.t, childIDs |-> Front(childIDs) \o [j \in DOMAIN nested.keys |-> NestedOf[nested.keys[j]]]]

SweepBucket(t, b) == Sweep(Sweep(t, Ranges("ctKeys", b)).t, Ranges("ctBuckets", b))

\* The stack of nested buckets is at most three deep here.
DeleteNested(t) ==
  FoldLeft(LAMBDA s, i : IF s.childIDs = <<>> THEN s ELSE Pushed(s.childIDs, SweepBucket(s.t, Last(s.childIDs))),
           [t |-> t, childIDs |-> <<Top>>], Times(Cardinality(DOMAIN NestedOf) + 1)).t

(***************************************************************************)
(* Actions.                                                                *)
(***************************************************************************)
Closed == [open |-> FALSE, ldb |-> NoRows, keys |-> NewImmutable, remove |-> {}, cacheRows |-> NoRows,
           nodes |-> <<>>, pending |-> NewImmutable, pendingRemove |-> {}, rows |-> NoRows]
NoCursor == newCursor(Closed, <<>>)
Unspecified == [key |-> -1, forwards |-> TRUE]

Init ==
  /\ \E store \in Stores : ldb = [k \in Keys |-> IF k \in store \cup {5, 6} THEN 1 ELSE NoValue]
  /\ heap = <<>> /\ cached = NewImmutable /\ cachedRemove = {} /\ cacheRows = NoRows
  /\ tx = [x \in Txs |-> Closed]
  /\ cur = [x \in Txs |-> NoCursor]
  /\ at = [x \in Txs |-> Unspecified]
  /\ writes = 0 /\ gone = {}

\* Bound: a reader without a cursor only matters while the cache has rows.
Begin(x) ==
  /\ ~tx[x].open
  /\ x \in Readers \ Walkers => cached.root # nil
  /\ tx' = [tx EXCEPT ![x] = [Closed EXCEPT !.open = TRUE, !.ldb = ldb, !.keys = cached,
                                            !.remove = cachedRemove, !.cacheRows = cacheRows]]
  /\ UNCHANGED <<ldb, heap, cached, cachedRemove, cur, at, writes, cacheRows, gone>>

\* Iterators keep the nodes they stand on.
Held(c) == UNION {{it.node} \cup Range(it.parents) : it \in Range(c.pend.its)}

SetTx(x, t, c) ==
  /\ tx' = [tx EXCEPT ![x] = [t EXCEPT !.nodes = Collect(t.nodes, {t.pending.root} \cup Held(c))]]
  /\ cur' = [cur EXCEPT ![x] = c]

\* Bucket.Cursor.
OpenCursor(x) ==
  /\ x \in Walkers /\ tx[x].open /\ fetchRows(x)[IndexEntry] # NoValue
  /\ SetTx(x, tx[x], newCursor(tx[x], Ranges("ctFull", Top)))
  /\ at' = [at EXCEPT ![x] = Unspecified]
  /\ UNCHANGED <<ldb, heap, cached, cachedRemove, writes, cacheRows, gone>>

\* The rows of transaction x that its cursor walks.
Walked(x) ==
  {k \in Stored(fetchRows(x)) :
     \E i \in DOMAIN cur[x].pend.its : Within(k, <<cur[x].pend.its[i].startKey, cur[x].pend.its[i].limitKey>>)}

MayPosition(x) ==
  /\ tx[x].open /\ cur[x].pend.its # <<>>
  /\ "reposition" \notin Liberties => \A it \in Range(cur[x].pend.its) : it.seekKey = nil

GoToEnd(x, forwards) ==
  /\ MayPosition(x)
  /\ SetTx(x, tx[x], CursorEnd(tx[x], cur[x], forwards))
  /\ at' = [at EXCEPT ![x] = [key |-> Nearest(Walked(x), forwards), forwards |-> forwards]]
  /\ UNCHANGED <<ldb, heap, cached, cachedRemove, writes, cacheRows, gone>>

SeekTo(x, key) ==
  /\ MayPosition(x)
  /\ "seek" \in Liberties \/ (~Has(tx[x].nodes, tx[x].pending.root, 7) /\ ~Has(heap, tx[x].keys.root, 7))
  /\ SetTx(x, tx[x], CursorSeek(tx[x], cur[x], key))
  /\ at' = [at EXCEPT ![x] = [key |-> Least({k \in Walked(x) : k >= key}), forwards |-> TRUE]]
  /\ UNCHANGED <<ldb, heap, cached, cachedRemove, writes, cacheRows, gone>>

\* A caller moves a cursor whose position is specified.
Move(x, forwards) ==
  /\ at[x].key > 0
  /\ at[x].forwards = forwards \/ "turn" \in Liberties
  /\ SetTx(x, tx[x], CursorMove(tx[x], cur[x], forwards))
  /\ at' = [at EXCEPT ![x] = [key |-> Past(Walked(x), @.key, forwards), forwards |-> forwards]]
  /\ UNCHANGED <<ldb, heap, cached, cachedRemove, writes, cacheRows, gone>>

\* Cursor.Delete: it does not ask whether the transaction is writable.
CursorDelete(x) ==
  /\ tx[x].open /\ at[x].key > 0 /\ writes < MaxWrites
  /\ x = Writer \/ "readonly" \in Liberties
  /\ \E key \in {rawKey(tx[x], cur[x])} :
       /\ key # 0 /\ ~IsIndexKey(key)
       /\ \E t \in {deleteKey(tx[x], key)} : SetTx(x, t, notifyActiveIters(t, cur[x]))
  /\ writes' = writes + 1
  /\ UNCHANGED <<ldb, heap, cached, cachedRemove, at, cacheRows, gone>>

\* A change invalidates the cursor of the writer, which a caller without
\* liberties then gives up.
Change(t) ==
  /\ tx[Writer].open /\ writes < MaxWrites
  /\ fetchRows(Writer)[IndexEntry] # NoValue
  /\ SetTx(Writer, t, IF "reposition" \in Liberties THEN notifyActiveIters(t, cur[Writer]) ELSE NoCursor)
  /\ at' = [at EXCEPT ![Writer] = Unspecified]
  /\ writes' = writes + 1
  /\ UNCHANGED <<ldb, heap, cached, cachedRemove, cacheRows>>

\* Bucket.Put of a row; CreateBucket of a nested bucket, which is not
\* created twice because its ID would be another one.
\* A row that is put again gets a longer value.
PutRow(key, priority) ==
  /\ \/ key \in Puts
     \/ (key = 7 /\ fetchRows(Writer)[7] = NoValue /\ 7 \notin tx[Writer].pendingRemove \cup tx[Writer].remove)
  /\ Change(putKey(tx[Writer], key, IF Has(tx[Writer].nodes, tx[Writer].pending.root, key) THEN 3 ELSE 2, priority))
  /\ gone' = gone

DeleteRow(key) ==
  /\ key \in {1, 2, 3}
  /\ Change(deleteKey(tx[Writer], key))
  /\ gone' = gone

\* The rows under the bucket: its own, its index entries, the nested rows.
Under(rows) == {k \in Stored(rows) : k \in {1, 2, 3, 6, 7} \/ (k = 4 /\ rows[6] # NoValue)}

DeleteBucket ==
  /\ Change(deleteKey(DeleteNested(tx[Writer]), IndexEntry))
  /\ gone' = Under(fetchRows(Writer)) \ Stored(Rows(tx[Writer].nodes, tx[Writer].pending))

Close(x) ==
  /\ tx' = [tx EXCEPT ![x] = Closed]
  /\ cur' = [cur EXCEPT ![x] = NoCursor]
  /\ at' = [at EXCEPT ![x] = Unspecified]
  /\ gone' = IF x = Writer THEN {} ELSE gone

Kept(x) == {tx[y].keys.root : y \in {z \in Txs \ {x} : tx[z].open}}

Rollback(x) ==
  /\ tx[x].open
  /\ Close(x)
  /\ heap' = Collect(heap, Kept(x) \cup {cached.root})
  /\ UNCHANGED <<ldb, cached, cachedRemove, writes, cacheRows>>

\* The cache with the rows of a transaction put in and removed.
CachedWith(t, priority) ==
  LET put(s, n) == ImmutablePut(s.h, s.t, t.nodes[n].key, t.nodes[n].value, priority[t.nodes[n].key])
      delete(s, k) == ImmutableDelete(s.h, s.t, k)
  IN  FoldLeft(delete,
               FoldLeft(put, [h |-> heap, t |-> cached], ForEachOrder(t.nodes, t.pending.root)),
               SetToSortSeq(t.pendingRemove, LAMBDA a, b : a < b))

\* commitTx to the cache; priority is what rand.Int returns for the nodes.
CommitToCache(t, priority) ==
  /\ t.open
  /\ \E all \in {CachedWith(t, priority)} :
       /\ cached' = all.t
       /\ heap' = Collect(all.h, Kept(Writer) \cup {all.t.root})
  /\ cachedRemove' = (cachedRemove \ Stored(t.rows)) \cup t.pendingRemove
  /\ cacheRows' = Overlay(cacheRows, t.rows, t.pendingRemove)
  /\ Close(Writer)
  /\ UNCHANGED <<ldb, writes>>

\* commitTx when a flush is needed: the cache is written to leveldb and
\* cleared, then the transaction is written to leveldb.
CommitToDb ==
  /\ tx[Writer].open
  /\ ldb' = LET t == tx[Writer]
            IN  Overlay(Overlay(ldb, Rows(heap, cached), cachedRemove),
                        Rows(t.nodes, t.pending), t.pendingRemove)
  /\ cached' = NewImmutable /\ cachedRemove' = {} /\ cacheRows' = NoRows
  /\ heap' = Collect(heap, Kept(Writer))
  /\ Close(Writer)
  /\ UNCHANGED writes

Next ==
  \/ \E x \in Txs :
       \/ Begin(x) \/ Rollback(x) \/ OpenCursor(x) \/ CursorDelete(x)
       \/ \E forwards \in BOOLEAN : GoToEnd(x, forwards) \/ Move(x, forwards)
       \/ \E key \in 2 .. 3 : SeekTo(x, key)
  \/ \E key \in Keys : DeleteRow(key) \/ \E p \in Priorities : PutRow(key, p)
  \/ DeleteBucket
  \/ \E priority \in [Stored(tx[Writer].rows) -> Priorities] : CommitToCache(tx[Writer], priority)
  \/ CommitToDb

Spec == Init /\ [][Next]_vars

(***************************************************************************)
(* Properties.                                                             *)
(***************************************************************************)
HoldsRows(h, t, rows) ==
  LET order == ForEachOrder(h, t.root)
      size[i \in Nat] == IF i = 0 THEN 0 ELSE size[i - 1] + nodeSize(h[order[i]])
  IN  /\ \A i \in 1 .. Len(order) - 1 : h[order[i]].key < h[order[i + 1]].key
      /\ Rows(h, t) = rows
      /\ t.count = Cardinality(Stored(rows)) /\ t.count = Len(order)
      /\ t.totalSize = size[Len(order)]

\* Every treap holds, in key order and with the right count and size, the
\* rows that were put in it and not deleted: the cache, and each version of
\* it an open transaction still reads, although later commits build on the
\* same nodes (Immutable.Put and Delete), and the rows of each transaction.
TreapsHoldTheirRows ==
  /\ HoldsRows(heap, cached, cacheRows)
  /\ \A x \in Txs :
       /\ HoldsRows(heap, tx[x].keys, tx[x].cacheRows)
       /\ HoldsRows(tx[x].nodes, tx[x].pending, tx[x].rows)

\* A cursor stands on the row that its First, Last, Seek, Next and Prev
\* calls lead to among the rows its transaction sees, with the value the
\* transaction sees, whatever layer the row comes from, while other
\* transactions commit and rows are deleted under it with Cursor.Delete.
PositionFollowsRows ==
  \A x \in Txs :
    at[x].key >= 0 =>
      /\ rawKey(tx[x], cur[x]) = at[x].key
      /\ LET rows == fetchRows(x)
         IN  at[x].key > 0 /\ rows[at[x].key] # NoValue => rawValue(tx[x], cur[x]) = rows[at[x].key]

\* ForEach and ForEachBucket pass every row of the bucket, or every bucket
\* nested in it, that the writer sees, once and in order.
Order(S) == SetToSortSeq(S, LAMBDA a, b : a < b)
ForEachPassesRows ==
  tx[Writer].open =>
    LET rows == Stored(fetchRows(Writer))
    IN  \A type \in {"ctKeys", "ctBuckets"} :
          ForEach(tx[Writer], type) = Order({k \in rows : Within(k, Ranges(type, Top)[1])})

\* Whatever way a transaction walks a bucket, it meets exactly the rows it
\* would find by looking every key up.
CursorFollowsRows == PositionFollowsRows /\ ForEachPassesRows

\* After DeleteBucket no row of the bucket or of a bucket nested in it that
\* was stored before the transaction is seen any more.
StoredRowsDeleted == gone \cap Stored(fetchRows(Writer)) = {}

\* What the interface says of DeleteBucket: with the bucket all of its rows
\* and nested buckets are gone, those the same transaction put included.
DeletedBucketIsEmpty ==
  tx[Writer].open /\ fetchRows(Writer)[IndexEntry] = NoValue => Under(fetchRows(Writer)) = {}
=============================================================================

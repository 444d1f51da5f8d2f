------------------------------- MODULE Treap --------------------------------
(***************************************************************************)
(* The treaps of pkg/util/treap as operators over a heap of nodes.  A heap *)
(* maps node ids to treapNode records and 0 is the nil pointer, so two     *)
(* versions of an immutable treap share nodes exactly as in the code and   *)
(* an iterator can hold a node that a mutable treap has unlinked.  Keys    *)
(* are positive numbers in byte order; a value is represented by its       *)
(* length, the only thing totalSize depends on.                            *)
(***************************************************************************)
EXTENDS Integers, Sequences, FiniteSets, TLC
LOCAL INSTANCE SequencesExt

nodeFieldsSize == 72

nil == 0

NewImmutable == [root |-> nil, count |-> 0, totalSize |-> 0]

newTreapNode(key, value, priority) ==
  [key |-> key, value |-> value, priority |-> priority, left |-> nil, right |-> nil]

\* Every key of the model is one byte long.
nodeSize(node) == nodeFieldsSize + 1 + node.value

\* The id the next allocation returns.
Fresh(h) == CHOOSE i \in 1 .. Cardinality(DOMAIN h) + 1 : i \notin DOMAIN h

TopOf(stack) == IF stack = <<>> THEN nil ELSE Last(stack)

(***************************************************************************)
(* Searching.  PathTo is the stack of nodes that get, Put, Delete and seek *)
(* push on their way down; stop tells whether an equal key ends the walk,  *)
(* and greater on which side it goes on otherwise.                         *)
(***************************************************************************)
ChildTowards(node, key, stop, greater) ==
  CASE key < node.key \/ (key = node.key /\ ~stop /\ ~greater) -> node.left
    [] key > node.key \/ (key = node.key /\ ~stop /\ greater) -> node.right
    [] OTHER -> nil

PathTo(h, root, key, stop, greater) ==
  LET walk[n \in Nat] ==
        IF n = nil THEN <<>> ELSE <<n>> \o walk[ChildTowards(h[n], key, stop, greater)]
  IN  walk[root]

IfKey(h, node, key) == IF node # nil /\ h[node].key = key THEN node ELSE nil

get(h, root, key) == IfKey(h, TopOf(PathTo(h, root, key, TRUE, TRUE)), key)

Has(h, root, key) == get(h, root, key) # nil

\* The nodes in the order ForEach visits them.
ForEachOrder(h, root) ==
  LET visit[n \in Nat] == IF n = nil THEN <<>> ELSE visit[h[n].left] \o <<n>> \o visit[h[n].right]
  IN  visit[root]

(***************************************************************************)
(* Put and Delete.  The immutable forms first replace every node of the    *)
(* path by a copy (ClonePath) and then change only copies.                 *)
(***************************************************************************)
replaceChild(h, parent, old, new) ==
  IF h[parent].left = old THEN [h EXCEPT ![parent].left = new] ELSE [h EXCEPT ![parent].right = new]

relinkGrandparent(h, root, node, parent, grandparent) ==
  IF grandparent = nil THEN [h |-> h, root |-> node]
  ELSE [h |-> replaceChild(h, grandparent, parent, node), root |-> root]

CloneNode(s, node, copy) ==
  LET with == s.h @@ (copy :> s.h[node])
  IN  [h |-> IF s.path = <<>> THEN with ELSE replaceChild(with, Last(s.path), node, copy),
       path |-> Append(s.path, copy)]

ClonePath(h, path) ==
  FoldLeft(LAMBDA s, node : CloneNode(s, node, Fresh(s.h)), [h |-> h, path |-> <<>>], path)

\* One rotation of node above parent, to the right if it is a left child.
Rotated(h, node, parent, right) ==
  IF right THEN [h EXCEPT ![node].right = parent, ![parent].left = h[node].right]
  ELSE [h EXCEPT ![node].left = parent, ![parent].right = h[node].left]

\* Rotates node up while its priority is below that of its parent.
rotateUp(h, root, node, parents) ==
  LET above(i) == IF i = 1 THEN nil ELSE parents[i - 1]
      rotate(s, i) ==
        IF s.done \/ h[node].priority >= h[parents[i]].priority THEN [s EXCEPT !.done = TRUE]
        ELSE relinkGrandparent(Rotated(s.h, node, parents[i], s.h[parents[i]].left = node), s.root, node,
                               parents[i], above(i)) @@ [done |-> FALSE]
  IN  FoldLeft(rotate, [h |-> h, root |-> root, done |-> FALSE],
               [i \in 1 .. Len(parents) |-> Len(parents) + 1 - i])

\* A new node under the last node of the path.
Linked(h, parent, id, node) ==
  IF node.key < h[parent].key THEN [h @@ (id :> node) EXCEPT ![parent].left = id]
  ELSE [h @@ (id :> node) EXCEPT ![parent].right = id]

Grown(t, node, turned) ==
  [h |-> turned.h, t |-> [root |-> turned.root, count |-> t.count + 1, totalSize |-> t.totalSize + nodeSize(node)]]

PutAt(h, t, path, id, node) ==
  LET parent == Last(path)
  IN  IF path = <<>>
      THEN [h |-> h @@ (id :> node), t |-> [root |-> id, count |-> 1, totalSize |-> nodeSize(node)]]
      ELSE IF h[parent].key = node.key
      THEN [h |-> [h EXCEPT ![parent].value = node.value],
            t |-> [t EXCEPT !.totalSize = (@ - h[parent].value) + node.value]]
      ELSE Grown(t, node, rotateUp(Linked(h, parent, id, node), t.root, id, path))

\* Mutable.Put; priority is what rand.Int returns.
Put(h, t, key, value, priority) ==
  PutAt(h, t, PathTo(h, t.root, key, TRUE, TRUE), Fresh(h), newTreapNode(key, value, priority))

ImmutablePutMutant(h, t, key, value, priority) ==  \* the path is not cloned
  Put(h, t, key, value, priority)

PutCloned(copy, t, key, value, priority) ==
  Put(copy.h, [t EXCEPT !.root = IF copy.path = <<>> THEN nil ELSE Head(copy.path)], key, value, priority)

ImmutablePut(h, t, key, value, priority) ==
  PutCloned(ClonePath(h, PathTo(h, t.root, key, TRUE, TRUE)), t, key, value, priority)

\* Moves child, now in the heap of s, above node.
Promoted(s, node, child, isLeft) ==
  relinkGrandparent(Rotated(s.h, child, node, isLeft), s.root, child, node, s.parent) @@ [parent |-> child]

PromoteCopy(s, node, old, copy, isLeft) ==
  Promoted([s EXCEPT !.h = @ @@ (copy :> s.h[old])], node, copy, isLeft)

\* Whether the left child has the higher priority, or is the only one.
LeftFirst(h, l, r) == r = nil \/ (l # nil /\ h[l].priority >= h[r].priority)

RotateDownOnce(s, node, l, r, clone) ==
  LET isLeft == LeftFirst(s.h, l, r)
      old == IF isLeft THEN l ELSE r
  IN  IF l = nil /\ r = nil THEN s
      ELSE IF clone THEN PromoteCopy(s, node, old, Fresh(s.h), isLeft)
      ELSE Promoted(s, node, old, isLeft)

\* Rotates node down to a leaf, the child with the higher priority moving
\* up; clone tells whether that child is copied first.
rotateDown(h, root, node, parent, clone) ==
  FoldLeft(LAMBDA s, i : RotateDownOnce(s, node, s.h[node].left, s.h[node].right, clone),
           [h |-> h, root |-> root, parent |-> parent], [i \in 1 .. Cardinality(DOMAIN h) |-> i])

\* The leaf is cut off.
Shrunk(t, old, leaf, node) ==
  [h |-> IF leaf.h[leaf.parent].right = node THEN [leaf.h EXCEPT ![leaf.parent].right = nil]
         ELSE [leaf.h EXCEPT ![leaf.parent].left = nil],
   t |-> [root |-> leaf.root, count |-> t.count - 1, totalSize |-> t.totalSize - nodeSize(old)]]

DeleteOwn(t, own, old, clone) ==
  Shrunk(t, old, rotateDown(own.h, Head(own.path), Last(own.path), TopOf(Front(own.path)), clone), Last(own.path))

DeleteAt(h, t, path, key, clone) ==
  IF path = <<>> \/ h[Last(path)].key # key THEN [h |-> h, t |-> t]
  ELSE IF Len(path) = 1 /\ h[Last(path)].left = nil /\ h[Last(path)].right = nil
  THEN [h |-> h, t |-> NewImmutable]
  ELSE DeleteOwn(t, IF clone THEN ClonePath(h, path) ELSE [h |-> h, path |-> path], h[Last(path)], clone)

DeleteFrom(h, t, key, clone) == DeleteAt(h, t, PathTo(h, t.root, key, TRUE, TRUE), key, clone)

\* Mutable.Delete and Immutable.Delete.
Delete(h, t, key) == DeleteFrom(h, t, key, FALSE)

ImmutableDelete(h, t, key) == DeleteFrom(h, t, key, TRUE)

(***************************************************************************)
(* Iterators.  Every range of ffldb has a start and a limit, so the        *)
(* branches of First and Last for an unlimited iterator are left out.      *)
(***************************************************************************)
Iterator(root, start, limit) ==
  [root |-> root, node |-> nil, parents |-> <<>>, isNew |-> TRUE, seekKey |-> nil,
   startKey |-> start, limitKey |-> limit]

limitIterator(h, it) ==
  IF it.node # nil /\ (h[it.node].key < it.startKey \/ h[it.node].key >= it.limitKey)
  THEN [it EXCEPT !.node = nil] ELSE it

Deepest(fits) == CHOOSE i \in fits : \A j \in fits : j <= i

StandAt(it, path, fits) ==
  IF fits = {} THEN [it EXCEPT !.node = nil, !.parents = <<>>]
  ELSE [it EXCEPT !.node = path[Deepest(fits)], !.parents = SubSeq(path, 1, Deepest(fits) - 1)]

SeekOn(h, it, path, key, exactMatch, greater) ==
  LET beyond(n) == IF greater THEN h[n].key > key ELSE h[n].key < key
  IN  limitIterator(h, StandAt(it, path,
        {i \in 1 .. Len(path) : beyond(path[i]) \/ (exactMatch /\ h[path[i]].key = key)}))

seek(h, it, key, exactMatch, greater) ==
  SeekOn(h, it, PathTo(h, it.root, key, exactMatch, greater), key, exactMatch, greater)

First(h, it) == seek(h, [it EXCEPT !.isNew = FALSE], it.startKey, TRUE, TRUE)

IterLast(h, it) == seek(h, [it EXCEPT !.isNew = FALSE], it.limitKey, FALSE, FALSE)

Seek(h, it, key) == seek(h, [it EXCEPT !.isNew = FALSE], key, TRUE, TRUE)

\* Next (forwards) and Prev: down into the subtree on the far side, or up
\* to the first parent of which the node is not on the far side.
Far(node, forwards) == IF forwards THEN node.right ELSE node.left

Spine(h, n, forwards) ==
  LET down[m \in Nat] == IF m = nil THEN <<>> ELSE <<m>> \o down[Far(h[m], ~forwards)]
  IN  down[n]

Below(it, i) == IF i = Len(it.parents) THEN it.node ELSE it.parents[i + 1]

Descend(it, sub) == [it EXCEPT !.node = Last(sub), !.parents = (@ \o <<it.node>>) \o Front(sub)]

Step(h, it, forwards) ==
  CASE it.isNew -> IF forwards THEN First(h, it) ELSE IterLast(h, it)
    [] ~it.isNew /\ it.node = nil -> it
    [] ~it.isNew /\ it.node # nil /\ it.seekKey # nil ->
         seek(h, [it EXCEPT !.seekKey = nil], it.seekKey, FALSE, forwards)
    [] OTHER -> limitIterator(h,
         IF Far(h[it.node], forwards) # nil THEN Descend(it, Spine(h, Far(h[it.node], forwards), forwards))
         ELSE StandAt(it, it.parents, {i \in DOMAIN it.parents : Far(h[it.parents[i]], forwards) # Below(it, i)}))

\* For an iterator of a mutable treap whose root is now root.
ForceReseek(h, it, root) ==
  [it EXCEPT !.root = root, !.seekKey = IF it.node = nil THEN nil ELSE h[it.node].key]

Key(h, it) == IF it.node = nil THEN nil ELSE h[it.node].key

(***************************************************************************)
(* Reachable nodes: what the garbage collector keeps.                      *)
(***************************************************************************)
Reachable(h, roots) ==
  LET more(s) == s \cup (({h[n].left : n \in s} \cup {h[n].right : n \in s}) \ {nil})
      grow[i \in Nat] == IF i = 0 THEN roots \ {nil} ELSE more(grow[i - 1])
  IN  grow[Cardinality(DOMAIN h)]

Collect(h, roots) == [n \in Reachable(h, roots) |-> h[n]]
=============================================================================

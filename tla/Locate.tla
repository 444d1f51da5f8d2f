------------------------------- MODULE Locate -------------------------------
(***************************************************************************)
(* The view of the best chain (chainview.go) and the queries on it         *)
(* (chain.go): block locators, the inventory that answers them, ranges of  *)
(* hashes.  Nodes are sequences of headers, as in Work; a node stands for  *)
(* its hash and nil for none.                                              *)
(***************************************************************************)
EXTENDS Work, SequencesExt

CONSTANTS
  approxNodesPerWeek,   \* the room left when the array of the view is moved
  denseEntries          \* the entries of a locator before its step doubles

ASSUME LocateAssumption == approxNodesPerWeek \in Nat /\ denseEntries \in Nat

nil == <<>>

\* the height of a node
Height(node) == Len(node) - 1

Ancestor(node, height) ==
  IF height < 0 \/ height > Height(node) THEN nil ELSE SubSeq(node, 1, height + 1)

RelativeAncestor(node, distance) == Ancestor(node, Height(node) - distance)

-----------------------------------------------------------------------------
(* A view is the array nodes[1 .. len]; what lies behind len is the part   *)
(* of the array that an earlier, higher tip has left.                      *)

NoView == [nodes |-> <<>>, len |-> 0]

\* the node is stored at its height and its ancestors below it, down to the
\* first one that is already in place
setTip(c, node) ==
  LET needed == Len(node)
      room == IF Len(c.nodes) < needed
              THEN [i \in 1 .. needed + approxNodesPerWeek |-> IF i <= c.len THEN c.nodes[i] ELSE nil]
              ELSE [i \in DOMAIN c.nodes |-> IF i \in c.len + 1 .. needed THEN nil ELSE c.nodes[i]]
      stop == Max({0} \cup {i \in 1 .. needed : room[i] = SubSeq(node, 1, i)})
  IN  IF node = nil THEN [c EXCEPT !.len = 0]
      ELSE [nodes |-> [i \in DOMAIN room |-> IF i \in stop + 1 .. needed THEN SubSeq(node, 1, i) ELSE room[i]],
            len |-> needed]

\* a call of setTip for each of the tips, in order
setTips(c, tips) ==
  LET after[i \in 0 .. Len(tips)] == IF i = 0 THEN c ELSE setTip(after[i - 1], tips[i])
  IN  after[Len(tips)]

Genesis(c) == IF c.len = 0 THEN nil ELSE c.nodes[1]

Tip(c) == IF c.len = 0 THEN nil ELSE c.nodes[c.len]

NodeByHeight(c, height) == IF height \in 0 .. c.len - 1 THEN c.nodes[height + 1] ELSE nil

InView(c, node) == NodeByHeight(c, Height(node)) = node

NextNode(c, node) ==
  IF node = nil \/ ~InView(c, node) THEN nil ELSE NodeByHeight(c, Height(node) + 1)

FindFork(c, node) ==
  LET low == IF Height(node) > c.len - 1 THEN Ancestor(node, c.len - 1) ELSE node
      shared == {i \in 1 .. Len(low) : InView(c, SubSeq(low, 1, i))}
  IN  IF shared = {} THEN nil ELSE SubSeq(low, 1, Max(shared))

-----------------------------------------------------------------------------
(* Locators.                                                               *)

\* one of the five steps of fastLog2Floor: a bit of the mask is set if and
\* only if n is at least unit, the power of two with that exponent
halve(a, exponent, unit) ==
  IF a.n >= unit THEN [rv |-> a.rv + exponent, n |-> a.n \div unit] ELSE a

fastLog2Floor(n) ==
  halve(halve(halve(halve(halve([rv |-> 0, n |-> n], 16, 65536), 8, 256), 4, 16), 2, 4), 1, 2).rv

\* the entries a locator is given room for
maxEntries(height) ==
  IF height <= denseEntries + 2 THEN height + 1
  ELSE denseEntries + 2 + fastLog2Floor(height - denseEntries)

\* the locator after k entries, the node to add next and the step then
blockLocator(c, node) ==
  LET start == IF node = nil THEN Tip(c) ELSE node
      after[k \in 0 .. Len(start)] ==
        IF k = 0 THEN [locator |-> <<>>, node |-> start, step |-> 1]
        ELSE LET b == after[k - 1]
                 height == Max({0, Height(b.node) - b.step})
                 below == IF InView(c, b.node) THEN NodeByHeight(c, height) ELSE Ancestor(b.node, height)
             IN  IF b.node = nil THEN b
                 ELSE [locator |-> Append(b.locator, b.node),
                       node |-> IF Height(b.node) = 0 THEN nil ELSE below,
                       step |-> IF k > denseEntries THEN b.step * 2 ELSE b.step]
  IN  IF start = nil THEN <<>> ELSE after[Len(start)].locator

\* BlockLocatorFromHash and LatestBlockLocator
BlockLocatorFromHash(c, index, hash) == blockLocator(c, IF hash \in index THEN hash ELSE nil)

locateInventoryMutant(c, index, locator, hashStop, max) ==
  LET known == {i \in DOMAIN locator : locator[i] \in index}
      start == NextNode(c, IF known = {} THEN Genesis(c) ELSE locator[Min(known)])
  IN  IF start = nil THEN [node |-> nil, total |-> 0]
      ELSE [node |-> start, total |-> Min({max, Height(Tip(c)) - Height(start) + 1})]

locateInventory(c, index, locator, hashStop, max) ==
  LET known == {i \in DOMAIN locator : locator[i] \in index /\ InView(c, locator[i])}
      start == NextNode(c, IF known = {} THEN Genesis(c) ELSE locator[Min(known)])
      stops == hashStop \in index /\ InView(c, hashStop) /\ Height(hashStop) >= Height(start)
      total == (IF stops THEN Height(hashStop) ELSE Height(Tip(c))) - Height(start) + 1
  IN  IF locator = <<>>
      THEN IF hashStop \in index THEN [node |-> hashStop, total |-> 1] ELSE [node |-> nil, total |-> 0]
      ELSE IF start = nil THEN [node |-> nil, total |-> 0]
      ELSE [node |-> start, total |-> Min({max, total})]

\* the run of the view that a node and a length stand for
Located(c, r) ==
  LET at[i \in 1 .. r.total] == IF i = 1 THEN r.node ELSE NextNode(c, at[i - 1])
  IN  [i \in 1 .. r.total |-> at[i]]

\* locateBlocks and locateHeaders differ only in what they copy of a node
LocateBlocks(c, index, locator, hashStop, max) ==
  Located(c, locateInventory(c, index, locator, hashStop, max))

-----------------------------------------------------------------------------
(* Ranges.  A refused request is answered with nil.                        *)

HeightRange(c, start, endHeight) ==
  LET latest == Height(Tip(c))
      end == Min({endHeight, latest + 1})
  IN  IF start < 0 \/ endHeight <= start \/ start > latest THEN nil
      ELSE [i \in 1 .. end - start |-> NodeByHeight(c, start + i - 1)]

HeightToHashRange(index, valid, start, endHash, maxResults) ==
  LET n == Height(endHash) - start + 1
      back[d \in 0 .. n - 1] == IF d = 0 THEN endHash ELSE RelativeAncestor(back[d - 1], 1)
  IN  IF endHash \notin index \/ endHash \notin valid \/ start < 0 \/ n < 1 \/ n > maxResults THEN nil
      ELSE [i \in 1 .. n |-> back[n - i]]

IntervalBlockHashes(c, index, valid, endHash, interval) ==
  LET n == Height(endHash) \div interval
      back[d \in 0 .. n] ==
        IF d = 0 THEN endHash
        ELSE LET height == (n - d + 1) * interval
             IN  IF InView(c, back[d - 1]) THEN NodeByHeight(c, height) ELSE Ancestor(back[d - 1], height)
  IN  IF endHash \notin index \/ endHash \notin valid THEN nil ELSE [i \in 1 .. n |-> back[n - i + 1]]
=============================================================================

----------------------------- MODULE RulesProofs ----------------------------
(***************************************************************************)
(* Proofs about Rules and the chain view of Locate, for every table of     *)
(* forks after the first, every set of blocks and every initial chain.     *)
(***************************************************************************)
EXTENDS Rules, FiniteSetTheorems, SequenceTheorems, WellFoundedInduction, TLAPS

Chains == Seq(Headers) \ {nil}

(* The array of a view holds a chain, and below len nothing else.          *)
Shows(c, chain) ==
  /\ c = [nodes |-> c.nodes, len |-> c.len]
  /\ c.nodes \in Seq(Seq(Headers))
  /\ c.len = Len(chain) /\ c.len <= Len(c.nodes)
  /\ \A i \in 1 .. c.len : c.nodes[i] = SubSeq(chain, 1, i)

(* The array of the best chain's view is the best chain, although setTip   *)
(* only rewrites it down to the first node that is in place.               *)
ViewShowsBest == Shows(view, best)

(* The index holds the ancestors of its nodes.                             *)
IndexInv ==
  /\ index \subseteq Chains
  /\ \A n \in index : \A i \in 1 .. Len(n) : SubSeq(n, 1, i) \in index

IInv == IndexInv /\ best \in index /\ ViewShowsBest

-----------------------------------------------------------------------------
(* Numbers.                                                                *)

LEMMA LeastNumber ==
  ASSUME NEW S \in SUBSET Nat, S # {}
  PROVE  \E n \in S : \A k \in S : n <= k
<1>1. PICK n \in S : \A k \in S : ~(<<k, n>> \in OpToRel(<, Nat))
  BY NatLessThanWellFounded, WFMin
<1>2. \A k \in S : ~(k < n)
  BY <1>1 DEF OpToRel
<1> QED BY <1>2

(* A set of numbers up to n that is not empty has a largest one.           *)
LEMMA LargestNumber ==
  ASSUME NEW n \in Nat, NEW S \in SUBSET (0 .. n), S # {}
  PROVE  Max(S) \in S /\ \A k \in S : k <= Max(S)
<1> DEFINE D == {n - k : k \in S}
<1>1. D \in SUBSET Nat /\ D # {}
  <2>1. \A k \in S : n - k \in Nat
    OBVIOUS
  <2> QED BY <2>1
<1>2. PICK d \in D : \A e \in D : d <= e
  BY <1>1, LeastNumber
<1>3. PICK x \in S : d = n - x
  BY <1>2
<1>4. \A k \in S : k <= x
  <2> SUFFICES ASSUME NEW k \in S PROVE k <= x
    OBVIOUS
  <2>1. d <= n - k
    BY <1>2
  <2> QED BY <1>3, <2>1
<1> QED BY <1>4 DEF Max

-----------------------------------------------------------------------------
(* The chain view.                                                         *)

LEMMA PrefixFacts ==
  ASSUME NEW n \in Seq(Headers), NEW i \in 1 .. Len(n)
  PROVE  /\ SubSeq(n, 1, i) \in Chains
         /\ Len(SubSeq(n, 1, i)) = i
         /\ \A j \in 1 .. i : SubSeq(SubSeq(n, 1, i), 1, j) = SubSeq(n, 1, j)
<1>1. /\ SubSeq(n, 1, i) \in Seq(Headers)
      /\ Len(SubSeq(n, 1, i)) = i
      /\ \A j \in 1 .. i : SubSeq(n, 1, i)[j] = n[j]
  BY SubSeqProperties
<1>2. SubSeq(n, 1, i) # nil
  BY <1>1 DEF nil
<1>3. ASSUME NEW j \in 1 .. i PROVE SubSeq(SubSeq(n, 1, i), 1, j) = SubSeq(n, 1, j)
  <2>1. /\ SubSeq(SubSeq(n, 1, i), 1, j) \in Seq(Headers)
        /\ Len(SubSeq(SubSeq(n, 1, i), 1, j)) = j
        /\ \A l \in 1 .. j : SubSeq(SubSeq(n, 1, i), 1, j)[l] = SubSeq(n, 1, i)[l]
    BY <1>1, SubSeqProperties
  <2>2. /\ SubSeq(n, 1, j) \in Seq(Headers)
        /\ Len(SubSeq(n, 1, j)) = j
        /\ \A l \in 1 .. j : SubSeq(n, 1, j)[l] = n[l]
    BY SubSeqProperties
  <2>3. \A l \in 1 .. j : SubSeq(SubSeq(n, 1, i), 1, j)[l] = SubSeq(n, 1, j)[l]
    BY <1>1, <2>1, <2>2
  <2> QED BY <2>1, <2>2, <2>3, SeqEqual
<1> QED BY <1>1, <1>2, <1>3 DEF Chains

(* The array after the first part of setTip: as long as the new chain      *)
(* needs it, with the nodes of the old one and no node behind them.        *)
Room(c, n) ==
  IF Len(c.nodes) < n
  THEN [i \in 1 .. n + approxNodesPerWeek |-> IF i <= c.len THEN c.nodes[i] ELSE nil]
  ELSE [i \in DOMAIN c.nodes |-> IF i \in c.len + 1 .. n THEN nil ELSE c.nodes[i]]

Stop(room, node) == Max({0} \cup {i \in 1 .. Len(node) : room[i] = SubSeq(node, 1, i)})

LEMMA SetTipIs ==
  ASSUME NEW c, NEW node, node # nil
  PROVE  setTip(c, node) =
           [nodes |-> [i \in DOMAIN Room(c, Len(node)) |->
                         IF i \in Stop(Room(c, Len(node)), node) + 1 .. Len(node)
                         THEN SubSeq(node, 1, i) ELSE Room(c, Len(node))[i]],
            len |-> Len(node)]
  BY DEF setTip, Room, Stop

(* An array that a view of some chain, or of none, may have.               *)
LEMMA RoomFacts ==
  ASSUME NEW c, NEW chain \in Seq(Headers), Shows(c, chain), NEW n \in Nat
  PROVE  /\ Room(c, n) \in Seq(Seq(Headers)) /\ Len(Room(c, n)) >= n
         /\ \A i \in 1 .. n : Room(c, n)[i] = IF i <= c.len THEN SubSeq(chain, 1, i) ELSE nil
<1>1. /\ c.nodes \in Seq(Seq(Headers)) /\ c.len \in Nat /\ c.len <= Len(c.nodes)
      /\ \A i \in 1 .. c.len : c.nodes[i] = SubSeq(chain, 1, i)
      /\ approxNodesPerWeek \in Nat /\ nil \in Seq(Headers)
  BY LocateAssumption DEF Shows, nil
<1> DEFINE shown(i) == IF i <= c.len THEN SubSeq(chain, 1, i) ELSE nil
<1>4. \A i \in 1 .. n : (IF i <= c.len THEN c.nodes[i] ELSE nil) = shown(i)
  <2>1. \A i \in 1 .. n : i <= c.len => c.nodes[i] = SubSeq(chain, 1, i)
    BY <1>1
  <2> QED BY <2>1
<1>2. CASE Len(c.nodes) < n
  <2>1. Room(c, n) = [i \in 1 .. n + approxNodesPerWeek |-> IF i <= c.len THEN c.nodes[i] ELSE nil]
    BY <1>2 DEF Room
  <2>2. \A i \in 1 .. n + approxNodesPerWeek : i <= c.len => c.nodes[i] \in Seq(Headers)
    BY <1>1
  <2>3. Room(c, n) \in Seq(Seq(Headers)) /\ Len(Room(c, n)) = n + approxNodesPerWeek
    <3> DEFINE len == n + approxNodesPerWeek
               nodes == [i \in 1 .. len |-> IF i <= c.len THEN c.nodes[i] ELSE nil]
    <3>1. len \in Nat
      BY <1>1
    <3>2. nodes \in [1 .. len -> Seq(Headers)]
      <4>1. nil \in Seq(Headers)
        BY DEF nil
      <4> QED BY <2>2, <4>1
    <3>3. DOMAIN nodes = 1 .. len
      OBVIOUS
    <3> HIDE DEF len, nodes
    <3>4. nodes \in Seq(Seq(Headers)) /\ Len(nodes) = len
      BY <3>1, <3>2, <3>3, SeqDef, LenProperties
    <3> QED BY <2>1, <3>4 DEF len, nodes
  <2>4. \A i \in 1 .. n : Room(c, n)[i] = IF i <= c.len THEN c.nodes[i] ELSE nil
    BY <1>1, <2>1
  <2>5. Len(Room(c, n)) >= n
    BY <1>1, <2>3
  <2> QED BY <1>4, <2>3, <2>4, <2>5
<1>3. CASE ~(Len(c.nodes) < n)
  <2>1. Room(c, n) = [i \in 1 .. Len(c.nodes) |-> IF i \in c.len + 1 .. n THEN nil ELSE c.nodes[i]]
    BY <1>1, <1>3 DEF Room
  <2>2. Room(c, n) \in Seq(Seq(Headers)) /\ Len(Room(c, n)) = Len(c.nodes)
    BY <1>1, <2>1
  <2>3. \A i \in 1 .. n : Room(c, n)[i] = IF i <= c.len THEN c.nodes[i] ELSE nil
    BY <1>1, <1>3, <2>1
  <2>4. Len(Room(c, n)) >= n
    BY <1>1, <1>3, <2>2
  <2> QED BY <1>4, <2>2, <2>3, <2>4
<1> QED BY <1>2, <1>3

(* setTip may stop at the first node in place: below it the array already  *)
(* holds the ancestors of the new tip.                                     *)
LEMMA SetTipShows ==
  ASSUME NEW c, NEW chain \in Seq(Headers), Shows(c, chain), NEW node \in Chains
  PROVE  Shows(setTip(c, node), node)
<1> DEFINE n == Len(node)
           room == Room(c, n)
           stop == Stop(room, node)
           S == {0} \cup {i \in 1 .. n : room[i] = SubSeq(node, 1, i)}
           nodes == [i \in DOMAIN room |-> IF i \in stop + 1 .. n THEN SubSeq(node, 1, i) ELSE room[i]]
<1>1. node \in Seq(Headers) /\ node # nil /\ n \in Nat
  BY DEF Chains
<1>2. /\ room \in Seq(Seq(Headers)) /\ Len(room) >= n
      /\ \A i \in 1 .. n : room[i] = IF i <= c.len THEN SubSeq(chain, 1, i) ELSE nil
  BY <1>1, RoomFacts
<1>3. stop \in S /\ stop \in 0 .. n
  <2>1. S \in SUBSET (0 .. n) /\ S # {}
    BY <1>1
  <2>2. Max(S) \in S
    BY <1>1, <2>1, LargestNumber
  <2> QED BY <2>1, <2>2 DEF Stop
<1>4. \A i \in 1 .. n : SubSeq(node, 1, i) \in Chains
  BY <1>1, PrefixFacts
<1>5. \A i \in 1 .. n : i <= stop => room[i] = SubSeq(node, 1, i)
  <2> SUFFICES ASSUME NEW i \in 1 .. n, i <= stop PROVE room[i] = SubSeq(node, 1, i)
    OBVIOUS
  <2>1. stop \in 1 .. n /\ room[stop] = SubSeq(node, 1, stop)
    BY <1>3
  <2>2. stop <= c.len /\ room[stop] = SubSeq(chain, 1, stop)
    BY <1>2, <1>4, <2>1 DEF Chains
  <2>3. c.len = Len(chain)
    BY DEF Shows
  <2>4. SubSeq(SubSeq(chain, 1, stop), 1, i) = SubSeq(chain, 1, i)
    BY <2>1, <2>2, <2>3, PrefixFacts
  <2>5. SubSeq(SubSeq(node, 1, stop), 1, i) = SubSeq(node, 1, i)
    BY <1>1, <2>1, PrefixFacts
  <2>6. i <= c.len
    BY <2>1, <2>2, <2>3
  <2>7. room[i] = SubSeq(chain, 1, i)
    BY <1>2, <2>6
  <2> QED BY <2>1, <2>2, <2>4, <2>5, <2>7
<1>6. setTip(c, node) = [nodes |-> nodes, len |-> n]
  BY <1>1, SetTipIs
<1>7. nodes \in Seq(Seq(Headers)) /\ Len(nodes) = Len(room)
  <2>1. DOMAIN room = 1 .. Len(room) /\ Len(room) \in Nat
    BY <1>2
  <2>2. \A i \in 1 .. Len(room) : room[i] \in Seq(Headers)
    BY <1>2
  <2>3. \A i \in 1 .. Len(room) : i \in stop + 1 .. n => SubSeq(node, 1, i) \in Seq(Headers)
    BY <1>3, <1>4 DEF Chains
  <2>4. nodes \in [1 .. Len(room) -> Seq(Headers)]
    BY <2>1, <2>2, <2>3
  <2> HIDE DEF nodes, room
  <2> QED BY <2>1, <2>4
<1>8. \A i \in 1 .. n : nodes[i] = SubSeq(node, 1, i)
  <2>1. \A i \in 1 .. n : i \in DOMAIN room /\ (i \in stop + 1 .. n \/ i <= stop)
    BY <1>1, <1>2, <1>3
  <2> QED BY <1>5, <2>1
<1>9. setTip(c, node).nodes = nodes /\ setTip(c, node).len = n
  BY <1>6
<1> HIDE DEF nodes, room
<1> QED BY <1>1, <1>2, <1>6, <1>7, <1>8, <1>9 DEF Shows

(* What the views are between the calls of setTips.                        *)
IsRun(g, c, tips, n) == g = [i \in 0 .. n |-> IF i = 0 THEN c ELSE setTip(g[i - 1], tips[i])]

LEMMA RunExists ==
  ASSUME NEW c, NEW tips, NEW n \in Nat
  PROVE  \E g : IsRun(g, c, tips, n)
<1> DEFINE Bad == {m \in Nat : ~\E g : IsRun(g, c, tips, m)}
<1>1. SUFFICES ASSUME Bad # {} PROVE FALSE
  OBVIOUS
<1>2. PICK m \in Bad : \A k \in Bad : m <= k
  BY <1>1, LeastNumber
<1>3. CASE m = 0
  <2> DEFINE g == [i \in 0 .. 0 |-> c]
  <2>1. \A i \in 0 .. 0 : i = 0
    OBVIOUS
  <2>2. g = [i \in 0 .. 0 |-> IF i = 0 THEN c ELSE setTip(g[i - 1], tips[i])]
    BY <2>1
  <2>3. IsRun(g, c, tips, 0)
    BY <2>2 DEF IsRun
  <2> QED BY <1>3, <2>3
<1>4. CASE m # 0
  <2>1. m - 1 \in Nat /\ ~(m - 1 \in Bad)
    BY <1>2, <1>4
  <2>2. PICK g : IsRun(g, c, tips, m - 1)
    BY <2>1
  <2> DEFINE h == [i \in 0 .. m |-> IF i = m THEN setTip(g[m - 1], tips[m]) ELSE g[i]]
  <2>3. \A i \in 0 .. m - 1 : g[i] = IF i = 0 THEN c ELSE setTip(g[i - 1], tips[i])
    BY <2>2 DEF IsRun
  <2>4. \A i \in 0 .. m - 1 : h[i] = g[i]
    BY <2>1
  <2>5. h[m] = setTip(g[m - 1], tips[m])
    BY <2>1
  <2> HIDE DEF h
  <2>6. \A i \in 0 .. m : h[i] = IF i = 0 THEN c ELSE setTip(h[i - 1], tips[i])
    <3> SUFFICES ASSUME NEW i \in 0 .. m PROVE h[i] = IF i = 0 THEN c ELSE setTip(h[i - 1], tips[i])
      OBVIOUS
    <3>1. CASE i = m
      <4>1. h[i - 1] = g[m - 1]
        BY <2>1, <2>4, <3>1
      <4> QED BY <1>4, <2>5, <3>1, <4>1
    <3>2. CASE i = 0
      BY <1>4, <2>1, <2>3, <2>4, <3>2
    <3>3. CASE i # m /\ i # 0
      <4>1. i \in 0 .. m - 1 /\ i - 1 \in 0 .. m - 1
        BY <2>1, <3>3
      <4> QED BY <2>3, <2>4, <3>3, <4>1
    <3> QED BY <3>1, <3>2, <3>3
  <2>7. IsRun(h, c, tips, m)
    <3>1. h = [i \in 0 .. m |-> h[i]]
      BY DEF h
    <3> QED BY <2>6, <3>1 DEF IsRun
  <2> QED BY <2>7
<1> QED BY <1>3, <1>4

(* However long the list of tips, the array shows the last one at the end. *)
LEMMA SetTipsShows ==
  ASSUME NEW c, NEW chain \in Seq(Headers), Shows(c, chain), NEW tips \in Seq(Chains), tips # <<>>
  PROVE  Shows(setTips(c, tips), tips[Len(tips)])
<1> DEFINE n == Len(tips)
           g == CHOOSE f : IsRun(f, c, tips, n)
           Bad == {m \in Nat : m \in 1 .. n /\ ~Shows(g[m], tips[m])}
<1>1. n \in Nat \ {0}
  OBVIOUS
<1>2. setTips(c, tips) = g[n]
  BY DEF setTips, IsRun
<1>3. IsRun(g, c, tips, n)
  BY <1>1, RunExists
<1> HIDE DEF g
<1>4. g[0] = c /\ \A i \in 1 .. n : g[i] = setTip(g[i - 1], tips[i])
  BY <1>1, <1>3 DEF IsRun
<1>5. Bad = {}
  <2> SUFFICES ASSUME Bad # {} PROVE FALSE
    OBVIOUS
  <2>1. PICK m \in Bad : \A k \in Bad : m <= k
    BY LeastNumber
  <2>2. m \in 1 .. n /\ tips[m] \in Chains
    BY <2>1
  <2>3. \E s \in Seq(Headers) : Shows(g[m - 1], s)
    <3>1. CASE m = 1
      BY <1>4, <3>1
    <3>2. CASE m # 1
      <4>1. m - 1 \in 1 .. n /\ m - 1 \in Nat /\ m - 1 < m
        BY <2>2, <3>2
      <4>2. ~(m - 1 \in Bad)
        BY <2>1, <4>1
      <4>3. Shows(g[m - 1], tips[m - 1]) /\ tips[m - 1] \in Chains
        BY <4>1, <4>2
      <4> QED BY <4>3 DEF Chains
    <3> QED BY <3>1, <3>2
  <2>4. Shows(g[m], tips[m])
    BY <1>4, <2>2, <2>3, SetTipShows
  <2> QED BY <2>1, <2>4
<1> QED BY <1>1, <1>2, <1>5

LEMMA ChainFacts ==
  ASSUME NEW n \in Chains
  PROVE  n \in Seq(Headers) /\ Len(n) \in Nat \ {0} /\ SubSeq(n, 1, Len(n)) = n
<1>1. n \in Seq(Headers) /\ n # <<>>
  BY DEF Chains, nil
<1>2. Len(n) \in Nat \ {0}
  BY <1>1
<1>3. /\ SubSeq(n, 1, Len(n)) \in Seq(Headers)
      /\ Len(SubSeq(n, 1, Len(n))) = Len(n)
      /\ \A j \in 1 .. Len(n) : SubSeq(n, 1, Len(n))[j] = n[j]
  BY <1>1, <1>2, SubSeqProperties
<1> QED BY <1>1, <1>2, <1>3, SeqEqual

LEMMA ChildFacts ==
  ASSUME NEW n \in Chains, NEW h \in Headers
  PROVE  /\ Append(n, h) \in Chains /\ Len(Append(n, h)) = Len(n) + 1 /\ Append(n, h)[Len(n) + 1] = h
         /\ \A i \in 1 .. Len(n) : SubSeq(Append(n, h), 1, i) = SubSeq(n, 1, i)
<1>1. n \in Seq(Headers) /\ Len(n) \in Nat \ {0}
  BY ChainFacts
<1>2. /\ Append(n, h) \in Seq(Headers) /\ Len(Append(n, h)) = Len(n) + 1 /\ Append(n, h)[Len(n) + 1] = h
      /\ \A i \in 1 .. Len(n) : Append(n, h)[i] = n[i]
  BY <1>1
<1>3. Append(n, h) # nil
  BY <1>1, <1>2 DEF nil
<1>4. ASSUME NEW i \in 1 .. Len(n) PROVE SubSeq(Append(n, h), 1, i) = SubSeq(n, 1, i)
  <2>1. /\ SubSeq(n, 1, i) \in Seq(Headers)
        /\ Len(SubSeq(n, 1, i)) = i
        /\ \A j \in 1 .. i : SubSeq(n, 1, i)[j] = n[j]
    BY <1>1, SubSeqProperties
  <2>2. /\ SubSeq(Append(n, h), 1, i) \in Seq(Headers)
        /\ Len(SubSeq(Append(n, h), 1, i)) = i
        /\ \A j \in 1 .. i : SubSeq(Append(n, h), 1, i)[j] = Append(n, h)[j]
    <3>1. i \in 1 .. Len(Append(n, h))
      BY <1>1, <1>2
    <3> QED BY <1>2, <3>1, SubSeqProperties
  <2>3. \A j \in 1 .. i : SubSeq(Append(n, h), 1, i)[j] = SubSeq(n, 1, i)[j]
    BY <1>1, <1>2, <2>1, <2>2
  <2> QED BY <2>1, <2>2, <2>3, SeqEqual
<1> QED BY <1>2, <1>3, <1>4 DEF Chains

(* Contains: a view that shows a chain contains its prefixes only.         *)
LEMMA InViewIs ==
  ASSUME NEW c, NEW chain \in Chains, Shows(c, chain), NEW n \in Chains
  PROVE  InView(c, n) <=> Len(n) <= Len(chain) /\ n = SubSeq(chain, 1, Len(n))
<1>1. n # nil /\ Len(n) \in Nat \ {0} /\ Len(chain) \in Nat \ {0} /\ c.len = Len(chain)
  BY ChainFacts DEF Chains, Shows
<1>2. NodeByHeight(c, Height(n)) = IF Len(n) - 1 \in 0 .. c.len - 1 THEN c.nodes[Len(n)] ELSE nil
  BY <1>1 DEF NodeByHeight, Height
<1>3. Len(n) - 1 \in 0 .. c.len - 1 <=> Len(n) <= Len(chain)
  BY <1>1
<1>4. Len(n) <= Len(chain) => c.nodes[Len(n)] = SubSeq(chain, 1, Len(n))
  BY <1>1 DEF Shows
<1> QED BY <1>1, <1>2, <1>3, <1>4 DEF InView

LEMMA TipInView ==
  ASSUME NEW c, NEW chain \in Chains, Shows(c, chain)
  PROVE  InView(c, chain)
  BY InViewIs, ChainFacts

(* The fork of a block that was submitted on a block of the view.          *)
LEMMA ForkFacts ==
  ASSUME NEW c, NEW chain \in Chains, Shows(c, chain), NEW n \in Chains, NEW h \in Headers, InView(c, n),
         NEW node, node = Append(n, h), ~InView(c, node)
  PROVE  Len(FindFork(c, node)) \in Len(n) .. Len(chain) /\ Len(FindFork(c, node)) < Len(node)
<1>1. /\ Len(n) \in Nat \ {0} /\ Len(chain) \in Nat \ {0} /\ c.len = Len(chain)
      /\ Len(n) <= Len(chain) /\ n = SubSeq(chain, 1, Len(n))
  BY ChainFacts, InViewIs, ZenonT(40) DEF Shows
<1>2. /\ node \in Chains /\ Len(node) = Len(n) + 1 /\ node \in Seq(Headers)
      /\ SubSeq(node, 1, Len(n)) = n
  BY <1>1, ChildFacts, ChainFacts
<1> DEFINE low == IF Height(node) > c.len - 1 THEN Ancestor(node, c.len - 1) ELSE node
           shared == {i \in 1 .. Len(low) : InView(c, SubSeq(low, 1, i))}
<1>3. (low = n /\ Len(n) = Len(chain)) \/ (low = node /\ Len(node) <= Len(chain))
  <2>1. CASE Len(node) > Len(chain)
    <3>1. Len(n) = Len(chain) /\ Height(node) = Len(n) /\ Height(node) > c.len - 1
      BY <1>1, <1>2, <2>1 DEF Height
    <3>2. Ancestor(node, c.len - 1) = SubSeq(node, 1, Len(n))
      BY <1>1, <3>1 DEF Ancestor
    <3> QED BY <1>2, <3>1, <3>2
  <2>2. CASE ~(Len(node) > Len(chain))
    <3>1. ~(Height(node) > c.len - 1) /\ Len(node) <= Len(chain)
      BY <1>1, <1>2, <2>2 DEF Height
    <3> QED BY <3>1
  <2> QED BY <2>1, <2>2
<1>4. low \in Chains /\ Len(low) \in Nat /\ Len(low) >= Len(n) /\ Len(low) <= Len(chain) /\ SubSeq(low, 1, Len(n)) = n
  <2>1. SubSeq(n, 1, Len(n)) = n
    BY ChainFacts
  <2> HIDE DEF low
  <2>2. CASE low = n /\ Len(n) = Len(chain)
    <3>1. Len(low) = Len(n) /\ SubSeq(low, 1, Len(n)) = n
      BY <2>1, <2>2
    <3> QED BY <1>1, <2>2, <3>1
  <2>3. CASE low = node /\ Len(node) <= Len(chain)
    <3>1. Len(low) = Len(n) + 1 /\ SubSeq(low, 1, Len(n)) = n
      BY <1>2, <2>3
    <3> QED BY <1>1, <1>2, <2>3, <3>1
  <2> QED BY <1>3, <2>2, <2>3
<1> HIDE DEF low
<1>5. Len(n) \in shared /\ shared \in SUBSET (0 .. Len(low))
  <2>1. Len(n) \in 1 .. Len(low)
    BY <1>1, <1>4
  <2>3. InView(c, SubSeq(low, 1, Len(n)))
    BY <1>4, Zenon
  <2>2. 1 .. Len(low) \subseteq 0 .. Len(low)
    BY <1>4
  <2> QED BY <2>1, <2>2, <2>3
<1>6. Max(shared) \in shared /\ Len(n) <= Max(shared)
  BY <1>4, <1>5, LargestNumber
<1>7. FindFork(c, node) = SubSeq(low, 1, Max(shared))
  BY <1>5 DEF FindFork, low
<1>8. Len(FindFork(c, node)) = Max(shared)
  <2>1. low \in Seq(Headers) /\ Max(shared) \in 1 .. Len(low)
    BY <1>4, <1>6 DEF Chains
  <2> QED BY <1>7, <2>1, PrefixFacts
<1>9. Max(shared) # Len(node)
  <2>1. ASSUME Max(shared) = Len(node) PROVE FALSE
    <3>1. low = node
      BY <1>1, <1>2, <1>3, <1>4, <1>6, <2>1
    <3>2. SubSeq(low, 1, Max(shared)) = node
      BY <1>2, <2>1, <3>1, ChainFacts
    <3> QED BY <1>6, <3>2
  <2> QED BY <2>1
<1> QED BY <1>1, <1>2, <1>3, <1>4, <1>6, <1>8, <1>9

(* The calls of SetTip of a whole reorganization, down to the fork and up  *)
(* to the new tip, leave the new best chain in the array.                  *)
LEMMA ReorganizedShows ==
  ASSUME best \in Chains, ViewShowsBest, NEW n \in Chains, NEW h \in Headers, InView(view, n),
         NEW node, node = Append(n, h), ~InView(view, node)
  PROVE  Shows(Reorganized(node), node)
<1> DEFINE fork == Len(FindFork(view, node))
           down == [i \in 1 .. Len(best) - fork |-> SubSeq(best, 1, Len(best) - i)]
           up == [i \in 1 .. Len(node) - fork |-> SubSeq(node, 1, fork + i)]
<1>1. /\ Len(n) \in Nat \ {0} /\ Len(best) \in Nat \ {0} /\ best \in Seq(Headers)
      /\ node \in Chains /\ node \in Seq(Headers) /\ Len(node) \in Nat \ {0}
  BY ChainFacts, ChildFacts
<1>2. fork \in Len(n) .. Len(best) /\ fork < Len(node)
  BY ForkFacts DEF ViewShowsBest
<1>3. Reorganized(node) = setTips(view, down \o up)
  BY DEF Reorganized
<1> HIDE DEF fork
<1>4. down \in Seq(Chains) /\ Len(down) = Len(best) - fork
  <2>1. \A i \in 1 .. Len(best) - fork : Len(best) - i \in 1 .. Len(best)
    BY <1>1, <1>2
  <2>2. \A i \in 1 .. Len(best) - fork : SubSeq(best, 1, Len(best) - i) \in Chains
    BY <1>1, <2>1, PrefixFacts
  <2> QED BY <1>1, <1>2, <2>2
<1>5. up \in Seq(Chains) /\ Len(up) = Len(node) - fork /\ up[Len(node) - fork] = node
  <2>1. \A i \in 1 .. Len(node) - fork : fork + i \in 1 .. Len(node)
    BY <1>1, <1>2
  <2>2. \A i \in 1 .. Len(node) - fork : SubSeq(node, 1, fork + i) \in Chains
    BY <1>1, <2>1, PrefixFacts
  <2>3. Len(node) - fork \in Nat \ {0} /\ fork + (Len(node) - fork) = Len(node)
    BY <1>1, <1>2
  <2>4. up[Len(node) - fork] = SubSeq(node, 1, Len(node))
    BY <2>3
  <2>5. up \in [1 .. Len(node) - fork -> Chains]
    BY <2>2
  <2>6. SubSeq(node, 1, Len(node)) = node
    BY <1>1, ChainFacts
  <2> HIDE DEF up
  <2> QED BY <2>3, <2>4, <2>5, <2>6
<1> HIDE DEF down, up
<1>6. /\ down \o up \in Seq(Chains) /\ Len(down \o up) = Len(down) + Len(up)
      /\ (down \o up)[Len(down) + Len(up)] = up[Len(up)]
  <2>1. Len(down) \in Nat /\ Len(up) \in Nat \ {0}
    BY <1>1, <1>2, <1>4, <1>5
  <2>2. /\ down \o up \in Seq(Chains) /\ Len(down \o up) = Len(down) + Len(up)
        /\ \A i \in 1 .. Len(down) + Len(up) :
             (down \o up)[i] = IF i <= Len(down) THEN down[i] ELSE up[i - Len(down)]
    BY <1>4, <1>5, ConcatProperties
  <2>3. Len(down) + Len(up) \in 1 .. Len(down) + Len(up) /\ ~(Len(down) + Len(up) <= Len(down))
        /\ (Len(down) + Len(up)) - Len(down) = Len(up)
    BY <2>1
  <2> QED BY <2>2, <2>3
<1>7. down \o up # <<>> /\ (down \o up)[Len(down \o up)] = node
  BY <1>1, <1>2, <1>4, <1>5, <1>6
<1> QED BY <1>1, <1>3, <1>6, <1>7, SetTipsShows DEF ViewShowsBest

-----------------------------------------------------------------------------
(* The invariant.                                                          *)

LEMMA FreshView ==
  ASSUME NEW chain \in Chains
  PROVE  Shows(setTip(NoView, chain), chain)
<1>1. NoView = [nodes |-> <<>>, len |-> 0] /\ NoView.nodes = <<>> /\ NoView.len = 0
  BY DEF NoView
<1>2. <<>> \in Seq(Headers) /\ <<>> \in Seq(Seq(Headers)) /\ Len(<<>>) = 0
  OBVIOUS
<1>3. Shows(NoView, <<>>)
  BY <1>1, <1>2 DEF Shows
<1> QED BY <1>2, <1>3, SetTipShows

LEMMA RulesInitInv ==
  ASSUME RulesInit
  PROVE  IInv
<1>1. PICK tip \in InitialChains :
        index = {SubSeq(tip, 1, k) : k \in DOMAIN tip} /\ best = tip /\ view = setTip(NoView, tip)
  BY DEF RulesInit
<1>2. tip \in Chains /\ tip \in Seq(Headers) /\ Len(tip) \in Nat \ {0} /\ SubSeq(tip, 1, Len(tip)) = tip
  <2>1. tip \in Chains
    BY RulesAssumption DEF Chains
  <2> QED BY <2>1, ChainFacts
<1>3. DOMAIN tip = 1 .. Len(tip)
  BY <1>2
<1>4. IndexInv
  <2>1. \A k \in 1 .. Len(tip) : SubSeq(tip, 1, k) \in Chains
    BY <1>2, PrefixFacts
  <2>2. ASSUME NEW n \in index, NEW i \in 1 .. Len(n) PROVE SubSeq(n, 1, i) \in index
    <3>1. PICK k \in 1 .. Len(tip) : n = SubSeq(tip, 1, k)
      BY <1>1, <1>3
    <3>2. Len(n) = k
      BY <1>2, <3>1, PrefixFacts
    <3>3. i \in 1 .. k /\ i \in 1 .. Len(tip)
      BY <1>2, <3>2
    <3>4. SubSeq(n, 1, i) = SubSeq(tip, 1, i)
      BY <1>2, <3>1, <3>3, PrefixFacts
    <3> QED BY <1>1, <1>3, <3>3, <3>4
  <2> QED BY <1>1, <1>3, <2>1, <2>2 DEF IndexInv
<1>5. best \in index
  <2>1. Len(tip) \in DOMAIN tip
    BY <1>2, <1>3
  <2> QED BY <1>1, <1>2, <2>1
<1> QED BY <1>1, <1>2, <1>4, <1>5, FreshView DEF IInv, ViewShowsBest

(* A block is refused unless its parent is in the view and it is new.      *)
LEMMA VerdictFacts ==
  ASSUME NEW h, NEW b, NEW n, NEW flags, Verdict(h, b, n, flags).ok
  PROVE  InView(view, n) /\ Append(n, h) \notin index
  BY DEF Verdict

LEMMA ProcessBlockInv ==
  ASSUME IInv, NEW h \in Headers, NEW b, NEW n \in index, NEW flags, ProcessBlock(h, b, n, flags)
  PROVE  IInv'
<1> DEFINE node == Append(n, h)
           ok == Verdict(h, b, n, flags).ok
<1>1. /\ index' = IF ok THEN index \cup {node} ELSE index
      /\ (best' = best /\ view' = view) \/ (ok /\ best' = node /\ view' = Reorganized(node))
  BY DEF ProcessBlock
<1>2. /\ IndexInv /\ best \in Chains /\ best \in index /\ ViewShowsBest /\ n \in Chains
      /\ best \in Seq(Headers) /\ Len(best) \in Nat \ {0} /\ Len(n) \in Nat \ {0}
  BY ChainFacts DEF IInv, IndexInv
<1>3. /\ node \in Chains /\ Len(node) = Len(n) + 1 /\ SubSeq(node, 1, Len(node)) = node
      /\ \A i \in 1 .. Len(n) : SubSeq(node, 1, i) = SubSeq(n, 1, i)
  BY <1>2, ChildFacts, ChainFacts
<1> HIDE DEF node
<1>4. IndexInv'
  <2>1. CASE ~ok
    BY <1>1, <1>2, <2>1 DEF IndexInv
  <2>2. CASE ok
    <3>1. index' = index \cup {node}
      BY <1>1, <2>2
    <3>2. index' \subseteq Chains
      BY <1>2, <1>3, <3>1 DEF IndexInv
    <3>3. \A m \in index : \A i \in 1 .. Len(m) : SubSeq(m, 1, i) \in index'
      BY <1>2, <3>1 DEF IndexInv
    <3>4. ASSUME NEW i \in 1 .. Len(node) PROVE SubSeq(node, 1, i) \in index'
      <4>1. CASE i = Len(node)
        BY <1>3, <3>1, <4>1
      <4>2. CASE i # Len(node)
        <5>1. i \in 1 .. Len(n)
          BY <1>2, <1>3, <4>2
        <5> QED BY <1>3, <3>3, <5>1
      <4> QED BY <4>1, <4>2
    <3> QED BY <3>1, <3>2, <3>3, <3>4 DEF IndexInv
  <2> QED BY <2>1, <2>2
<1>5. CASE best' = best /\ view' = view
  <2>1. index \subseteq index'
    BY <1>1
  <2> QED BY <1>2, <1>4, <1>5, <2>1 DEF IInv, ViewShowsBest, Shows
<1>6. CASE ok /\ best' = node /\ view' = Reorganized(node)
  <2>1. InView(view, n) /\ node \notin index
    BY <1>6, VerdictFacts DEF node
  <2>2. ~InView(view, node)
    <3> SUFFICES ASSUME InView(view, node) PROVE FALSE
      OBVIOUS
    <3>1. Len(node) <= Len(best) /\ node = SubSeq(best, 1, Len(node))
      BY <1>2, <1>3, InViewIs DEF ViewShowsBest
    <3>2. Len(node) \in 1 .. Len(best)
      BY <1>2, <1>3, <3>1
    <3> QED BY <1>2, <2>1, <3>1, <3>2 DEF IndexInv
  <2>3. Shows(Reorganized(node), node)
    BY <1>2, <2>1, <2>2, ReorganizedShows DEF node
  <2>4. node \in index'
    BY <1>1, <1>6
  <2> QED BY <1>4, <1>6, <2>3, <2>4 DEF IInv, ViewShowsBest, Shows
<1> QED BY <1>1, <1>5, <1>6

LEMMA RulesNextInv ==
  ASSUME IInv, [RulesNext]_vars
  PROVE  IInv'
<1>1. CASE UNCHANGED <<index, best, view>>
  BY <1>1 DEF IInv, IndexInv, ViewShowsBest, Shows
<1>2. ASSUME NEW k \in Blocks, NEW prevNode \in index, ProcessBlock(k.header, k.body, prevNode, k.flags)
      PROVE  IInv'
  <2>1. k.header \in Headers
    BY DEF Headers
  <2> QED BY <1>2, <2>1, ProcessBlockInv
<1>3. CASE Restart
  <2>1. view' = setTip(NoView, best) /\ index' = index /\ best' = best
    BY <1>3 DEF Restart
  <2>2. best \in Chains
    BY DEF IInv, IndexInv
  <2>3. Shows(view', best')
    BY <2>1, <2>2, FreshView
  <2> QED BY <2>1, <2>3 DEF IInv, IndexInv, ViewShowsBest, Shows
<1>4. ASSUME NEW k \in Blocks, CheckConnectBlockTemplate(k.header, k.body) PROVE UNCHANGED <<index, best, view>>
  BY <1>4 DEF CheckConnectBlockTemplate
<1>5. ASSUME NEW algo, CalcNextRequiredDifficulty(algo) PROVE UNCHANGED <<index, best, view>>
  BY <1>5 DEF CalcNextRequiredDifficulty
<1>6. CASE UNCHANGED vars
  BY <1>1, <1>6 DEF vars
<1> QED BY <1>1, <1>2, <1>3, <1>4, <1>5, <1>6 DEF RulesNext

(* The index keeps the ancestors of its nodes and the array of the view    *)
(* the best chain.                                                         *)
THEOREM RulesInvariant == RulesSpec => []IInv
BY RulesInitInv, RulesNextInv, PTL DEF RulesSpec

(* Whatever reorganizations and restarts happen, the array of the view     *)
(* holds the best chain: each node that setTip leaves in place is the      *)
(* ancestor of the tip at its height.                                      *)
THEOREM BestChainInView == RulesSpec => []ViewShowsBest
<1>1. IInv => ViewShowsBest
  BY DEF IInv
<1> QED BY <1>1, RulesInvariant, PTL

-----------------------------------------------------------------------------
(* Templates.                                                              *)

LEMMA SolvedFacts ==
  ASSUME NEW h \in Headers, NEW s, s = [h EXCEPT !.solved = TRUE]
  PROVE  /\ s.version = h.version /\ s.timestamp = h.timestamp /\ s.bits = h.bits
         /\ s.merkleRoot = h.merkleRoot /\ s.solved = TRUE
  BY RulesAssumption

(* ProcessBlock finds the limit of the target by another version, but it   *)
(* is the same algorithm.                                                  *)
LEMMA SameAlgorithm ==
  ASSUME NEW h, NEW height
  PROVE  GetAlgoName(AlgoOf(h, height), height) = GetAlgoName(h.version, height)
<1>1. CASE GetCurrent(height) = 0 /\ h.version # 514
  <2>1. AlgoOf(h, height) = 2 /\ GetCurrent(height) < 1
    BY <1>1 DEF AlgoOf
  <2>2. AlgoVers(0) = {2, 514}
    BY RulesAssumption DEF AlgoVers
  <2>3. GetAlgoName(2, height) = NameOf(0, 2)
    BY <1>1, <2>2 DEF GetAlgoName
  <2>4. NameOf(0, 2) = "sha256d"
    BY <2>2, RulesAssumption DEF NameOf
  <2>5. GetAlgoName(h.version, height) = IF h.version = 2 THEN NameOf(0, 2) ELSE "sha256d"
    BY <1>1, <2>1, <2>2 DEF GetAlgoName
  <2> QED BY <2>1, <2>3, <2>4, <2>5
<1>2. CASE ~(GetCurrent(height) = 0 /\ h.version # 514)
  BY <1>2 DEF AlgoOf
<1> QED BY <1>1, <1>2

LEMMA NoCheckpointsFound ==
  ASSUME Checkpoints = <<>>
  PROVE  /\ findPreviousCheckpoint(checkpoint) = [cp |-> checkpoint, node |-> nil, ok |-> TRUE]
         /\ \A n : verifyCheckpoint(n)
  BY DEF findPreviousCheckpoint, verifyCheckpoint

(* The verdict of checkBlockContext when there are no checkpoints.         *)
LEMMA ContextVerdict ==
  ASSUME Checkpoints = <<>>, NEW h, NEW b, NEW n, NEW flags, "fast" \notin flags
  PROVE  checkBlockContext(h, b, n, flags).ok
           <=> /\ FreshHeader(h, n, CalcNextRequiredDifficultyFromNode(cache, diffs, n, GetAlgoName(h.version, Len(n))).bits)
               /\ \A i \in DOMAIN b : IsFinalizedTransaction(Tx[b[i]], Len(n), h.timestamp)
<1> DEFINE r == CalcNextRequiredDifficultyFromNode(cache, diffs, n, GetAlgoName(h.version, Len(n)))
           cp == findPreviousCheckpoint(checkpoint)
           ok == ("fast" \in flags \/ FreshHeader(h, n, r.bits)) /\ verifyCheckpoint(Append(n, h))
           final == \A i \in DOMAIN b : IsFinalizedTransaction(Tx[b[i]], Len(n), h.timestamp)
<1>1. checkBlockHeaderContext(h, n, flags) = HeaderVerdict(n, flags, r, ok, cp)
  BY DEF checkBlockHeaderContext, HeaderContext
<1>2. cp.ok = TRUE /\ cp.node = nil /\ (ok <=> FreshHeader(h, n, r.bits))
  BY NoCheckpointsFound
<1> HIDE DEF r, cp, ok
<1>3. HeaderVerdict(n, flags, r, ok, cp).ok <=> ok
  BY <1>2 DEF HeaderVerdict
<1>4. checkBlockContext(h, b, n, flags).ok <=> (HeaderVerdict(n, flags, r, ok, cp).ok /\ ("fast" \in flags \/ final))
  BY <1>1 DEF checkBlockContext, HeaderVerdict
<1> QED BY <1>2, <1>3, <1>4 DEF r

LEMMA SaneWhenSolved ==
  ASSUME NEW h \in Headers, NEW s, s = [h EXCEPT !.solved = TRUE], NEW b, NEW limit, NEW height, NEW time,
         checkBlockSanity(h, b, limit, {"nopow"}, height, time)
  PROVE  checkBlockSanity(s, b, limit, {}, height, time)
  BY SolvedFacts DEF checkBlockSanity, checkBlockHeaderSanity, checkProofOfWork

LEMMA ConnectsWhenSolved ==
  ASSUME NEW n \in Chains, NEW h, NEW s, s.version = h.version, NEW b
  PROVE  checkConnectBlock(Append(n, s), b) <=> checkConnectBlock(Append(n, h), b)
<1>1. n \in Seq(Headers) /\ Len(n) \in Nat
  BY ChainFacts
<1>2. \A x : Len(Append(n, x)) = Len(n) + 1 /\ Append(n, x)[Len(n) + 1] = x
  BY <1>1
<1>3. \A x : Height(Append(n, x)) = Height(Append(n, h)) /\ Append(n, x)[Len(Append(n, x))] = x
  BY <1>2 DEF Height
<1> QED BY <1>3, Zenon DEF checkConnectBlock

(* What CheckConnectBlockTemplate accepts, ProcessBlock accepts once it is *)
(* solved, and it connects.                                                *)
LEMMA TemplateAccepted ==
  ASSUME IInv, Checkpoints = <<>>, Blacklist = {}, NEW h \in Headers, NEW b,
         NEW s, s = [h EXCEPT !.solved = TRUE], Append(best, s) \notin index, TemplateVerdict(h, b).ok
  PROVE  Verdict(s, b, best, {}).ok /\ checkConnectBlock(Append(best, s), b)
<1> DEFINE height == Len(best)
           limit == GetMinDiff(GetAlgoName(h.version, height), height)
           time == best[height].timestamp
<1>1. best \in Chains /\ InView(view, best)
  BY TipInView DEF IInv, IndexInv, ViewShowsBest
<1>2. /\ checkBlockSanity(h, b, limit, {"nopow"}, height, time)
      /\ checkBlockContext(h, b, best, {"nopow"}).ok
      /\ checkConnectBlock(Append(best, h), b)
  <2>1. checkBlockSanity(h, b, limit, {"nopow"}, height, time)
    BY DEF TemplateVerdict
  <2>2. TemplateVerdict(h, b) =
          [checkBlockContext(h, b, best, {"nopow"}) EXCEPT !.ok = @ /\ checkConnectBlock(Append(best, h), b)]
    BY <2>1 DEF TemplateVerdict
  <2>3. "ok" \in DOMAIN checkBlockContext(h, b, best, {"nopow"})
    BY DEF checkBlockContext, checkBlockHeaderContext, HeaderContext, HeaderVerdict
  <2> QED BY <2>1, <2>2, <2>3
<1>3. s.version = h.version /\ s.timestamp = h.timestamp /\ s.bits = h.bits
  BY SolvedFacts
<1>4. checkConnectBlock(Append(best, s), b)
  BY <1>1, <1>2, <1>3, ConnectsWhenSolved
<1>5. checkBlockSanity(s, b, GetMinDiff(GetAlgoName(AlgoOf(s, height), height), height), {}, height, time)
  <2>1. GetAlgoName(AlgoOf(s, height), height) = GetAlgoName(h.version, height)
    BY <1>3, SameAlgorithm
  <2> QED BY <1>2, <2>1, SaneWhenSolved
<1>6. checkBlockContext(s, b, best, {}).ok
  <2>1. "fast" \notin {} /\ "fast" \notin {"nopow"}
    OBVIOUS
  <2>2. /\ FreshHeader(h, best, CalcNextRequiredDifficultyFromNode(cache, diffs, best, GetAlgoName(h.version, height)).bits)
        /\ \A i \in DOMAIN b : IsFinalizedTransaction(Tx[b[i]], height, h.timestamp)
    BY <1>2, <2>1, ContextVerdict
  <2>3. /\ FreshHeader(s, best, CalcNextRequiredDifficultyFromNode(cache, diffs, best, GetAlgoName(s.version, height)).bits)
        /\ \A i \in DOMAIN b : IsFinalizedTransaction(Tx[b[i]], height, s.timestamp)
    BY <1>3, <2>2 DEF FreshHeader
  <2> QED BY <2>1, <2>3, ContextVerdict
<1>7. SaneAgainst(s, b, best, {}, findPreviousCheckpoint(checkpoint)).ok
  <2> DEFINE cp == findPreviousCheckpoint(checkpoint)
  <2>1. cp = [cp |-> checkpoint, node |-> nil, ok |-> TRUE]
    BY NoCheckpointsFound
  <2>2. cp.ok /\ AfterCheckpoint(s, cp.node, {}) /\ \A i \in DOMAIN b : ~ContainsBlacklisted(Tx[b[i]])
    BY <2>1 DEF AfterCheckpoint, ContainsBlacklisted
  <2> QED BY <1>6, <2>2 DEF SaneAgainst, maybeAcceptBlock
<1>8. Verdict(s, b, best, {}) = SaneAgainst(s, b, best, {}, findPreviousCheckpoint(checkpoint))
  BY <1>1, <1>5 DEF Verdict
<1> QED BY <1>4, <1>7, <1>8

(* A template that CheckConnectBlockTemplate accepts is accepted by        *)
(* ProcessBlock once it is solved, after any reorganizations and restarts  *)
(* and whatever the difficulty caches hold.                                *)
THEOREM TemplatesAccepted == RulesSpec => []TemplatesConnect
<1>1. ASSUME IInv PROVE TemplatesConnect
  <2> SUFFICES ASSUME NEW k \in Blocks, NEW solved \in {[k.header EXCEPT !.solved = TRUE]},
                      Checkpoints = <<>>, Blacklist = {}, Append(best, solved) \notin index,
                      TemplateVerdict(k.header, k.body).ok
               PROVE  Verdict(solved, k.body, best, {}).ok /\ checkConnectBlock(Append(best, solved), k.body)
    BY DEF TemplatesConnect
  <2>1. k.header \in Headers
    BY DEF Headers
  <2> QED BY <1>1, <2>1, TemplateAccepted
<1> QED BY <1>1, RulesInvariant, PTL

-----------------------------------------------------------------------------
(* Powers of two.                                                          *)

IsPowers(f, n) == f \in [0 .. n -> Nat] /\ f[0] = 1 /\ \A i \in 1 .. n : f[i] = 2 * f[i - 1]

LEMMA PowersExist ==
  ASSUME NEW n \in Nat
  PROVE  \E f : IsPowers(f, n)
<1> DEFINE Bad == {m \in Nat : ~\E f : IsPowers(f, m)}
<1>1. SUFFICES ASSUME Bad # {} PROVE FALSE
  OBVIOUS
<1>2. PICK m \in Bad : \A k \in Bad : m <= k
  BY <1>1, LeastNumber
<1>3. CASE m = 0
  <2> DEFINE f == [i \in 0 .. 0 |-> 1]
  <2>1. f \in [0 .. 0 -> Nat] /\ f[0] = 1 /\ 1 .. 0 = {}
    OBVIOUS
  <2>2. IsPowers(f, 0)
    BY <2>1 DEF IsPowers
  <2> QED BY <1>3, <2>2
<1>4. CASE m # 0
  <2>1. m - 1 \in Nat /\ ~(m - 1 \in Bad)
    BY <1>2, <1>4
  <2>2. PICK f : IsPowers(f, m - 1)
    BY <2>1
  <2> DEFINE g == [i \in 0 .. m |-> IF i = m THEN 2 * f[m - 1] ELSE f[i]]
  <2>3. f \in [0 .. m - 1 -> Nat] /\ f[0] = 1 /\ \A i \in 1 .. m - 1 : f[i] = 2 * f[i - 1]
    BY <2>2 DEF IsPowers
  <2>4. g \in [0 .. m -> Nat]
    BY <2>1, <2>3
  <2>5. g[m] = 2 * f[m - 1] /\ \A i \in 0 .. m - 1 : g[i] = f[i]
    BY <2>1
  <2> HIDE DEF g
  <2>6. \A i \in 1 .. m : g[i] = 2 * g[i - 1]
    <3> SUFFICES ASSUME NEW i \in 1 .. m PROVE g[i] = 2 * g[i - 1]
      OBVIOUS
    <3>1. CASE i = m
      BY <2>1, <2>5, <3>1
    <3>2. CASE i # m
      <4>1. i \in 1 .. m - 1 /\ i \in 0 .. m - 1 /\ i - 1 \in 0 .. m - 1
        BY <2>1, <3>2
      <4> QED BY <2>3, <2>5, <4>1
    <3> QED BY <3>1, <3>2
  <2>7. g[0] = 1
    BY <2>1, <2>3, <2>5
  <2> QED BY <2>4, <2>6, <2>7 DEF IsPowers
<1> QED BY <1>3, <1>4

LEMMA PowersAgree ==
  ASSUME NEW n \in Nat, NEW m \in Nat, NEW f, NEW g, IsPowers(f, n), IsPowers(g, m),
         NEW k \in Nat, k <= n, k <= m
  PROVE  f[k] = g[k]
<1> DEFINE Bad == {i \in Nat : i <= n /\ i <= m /\ f[i] # g[i]}
<1>1. SUFFICES ASSUME Bad # {} PROVE FALSE
  OBVIOUS
<1>2. PICK i \in Bad : \A j \in Bad : i <= j
  BY <1>1, LeastNumber
<1>3. i # 0
  BY <1>2 DEF IsPowers
<1>4. i - 1 \in Nat /\ ~(i - 1 \in Bad) /\ i - 1 <= n /\ i - 1 <= m
  BY <1>2, <1>3
<1>5. f[i - 1] = g[i - 1]
  BY <1>4
<1>6. i \in 1 .. n /\ i \in 1 .. m
  BY <1>2, <1>3
<1>7. f[i] = 2 * f[i - 1] /\ g[i] = 2 * g[i - 1]
  BY <1>6 DEF IsPowers
<1> QED BY <1>2, <1>5, <1>7

LEMMA PowerOfTwoFacts ==
  /\ PowerOfTwo[0] = 1
  /\ \A k \in Nat : PowerOfTwo[k] \in Nat /\ PowerOfTwo[k + 1] = 2 * PowerOfTwo[k]
<1> DEFINE f(n) == CHOOSE g : IsPowers(g, n)
           h == [k \in Nat |-> f(k)[k]]
<1>1. \A n \in Nat : IsPowers(f(n), n)
  BY PowersExist
<1> HIDE DEF f
<1>2. h[0] = 1
  BY <1>1 DEF IsPowers
<1>3. ASSUME NEW k \in Nat PROVE h[k] \in Nat /\ h[k + 1] = 2 * h[k]
  <2>1. IsPowers(f(k), k) /\ IsPowers(f(k + 1), k + 1)
    BY <1>1
  <2>2. f(k + 1)[k] = f(k)[k]
    BY <2>1, PowersAgree
  <2>3. f(k)[k] \in Nat
    BY <2>1 DEF IsPowers
  <2>4. f(k + 1)[k + 1] = 2 * f(k + 1)[k]
    <3>1. k + 1 \in 1 .. k + 1 /\ (k + 1) - 1 = k
      OBVIOUS
    <3> QED BY <2>1, <3>1 DEF IsPowers
  <2> QED BY <2>2, <2>3, <2>4
<1>4. h = [k \in Nat |-> IF k = 0 THEN 1 ELSE 2 * h[k - 1]]
  <2>1. \A k \in Nat : h[k] = IF k = 0 THEN 1 ELSE 2 * h[k - 1]
    <3> SUFFICES ASSUME NEW k \in Nat PROVE h[k] = IF k = 0 THEN 1 ELSE 2 * h[k - 1]
      OBVIOUS
    <3>1. CASE k = 0
      BY <1>2, <3>1
    <3>2. CASE k # 0
      <4>1. k - 1 \in Nat /\ (k - 1) + 1 = k
        BY <3>2
      <4>2. h[(k - 1) + 1] = 2 * h[k - 1]
        BY <1>3, <4>1
      <4> QED BY <3>2, <4>1, <4>2
    <3> QED BY <3>1, <3>2
  <2>2. h = [k \in Nat |-> h[k]]
    OBVIOUS
  <2> HIDE DEF h
  <2> QED BY <2>1, <2>2
<1> HIDE DEF h
<1>5. PowerOfTwo = [k \in Nat |-> IF k = 0 THEN 1 ELSE 2 * PowerOfTwo[k - 1]]
  BY <1>4 DEF PowerOfTwo
<1>6. \A k \in Nat : PowerOfTwo[k + 1] = 2 * PowerOfTwo[k]
  <2> SUFFICES ASSUME NEW k \in Nat PROVE PowerOfTwo[k + 1] = 2 * PowerOfTwo[k]
    OBVIOUS
  <2>1. k + 1 \in Nat /\ k + 1 # 0 /\ (k + 1) - 1 = k
    OBVIOUS
  <2> QED BY <1>5, <2>1
<1>7. PowerOfTwo[0] = 1
  BY <1>5
<1>8. \A k \in Nat : PowerOfTwo[k] \in Nat
  <2> DEFINE Bad == {k \in Nat : PowerOfTwo[k] \notin Nat}
  <2> SUFFICES ASSUME Bad # {} PROVE FALSE
    OBVIOUS
  <2>1. PICK k \in Bad : \A j \in Bad : k <= j
    BY LeastNumber
  <2>2. k # 0 /\ k - 1 \in Nat /\ ~(k - 1 \in Bad)
    BY <1>7, <2>1
  <2>3. PowerOfTwo[k - 1] \in Nat /\ PowerOfTwo[(k - 1) + 1] = 2 * PowerOfTwo[k - 1] /\ (k - 1) + 1 = k
    BY <1>6, <2>2
  <2> QED BY <2>1, <2>3
<1> QED BY <1>6, <1>7, <1>8

Power(p) == \E k \in Nat : p = PowerOfTwo[k]

LEMMA PowerGrows ==
  /\ \A k \in Nat : PowerOfTwo[k] > k
  /\ \A j, k \in Nat : j < k => 2 * PowerOfTwo[j] <= PowerOfTwo[k]
<1>1. \A k \in Nat : PowerOfTwo[k] > k
  <2> DEFINE Bad == {k \in Nat : ~(PowerOfTwo[k] > k)}
  <2> SUFFICES ASSUME Bad # {} PROVE FALSE
    OBVIOUS
  <2>1. PICK k \in Bad : \A j \in Bad : k <= j
    BY LeastNumber
  <2>2. k # 0 /\ k - 1 \in Nat /\ ~(k - 1 \in Bad) /\ (k - 1) + 1 = k
    BY <2>1, PowerOfTwoFacts
  <2>3. PowerOfTwo[k - 1] \in Nat /\ PowerOfTwo[k] = 2 * PowerOfTwo[k - 1] /\ PowerOfTwo[k - 1] > k - 1
    BY <2>2, PowerOfTwoFacts
  <2> QED BY <2>1, <2>2, <2>3
<1>2. ASSUME NEW j \in Nat PROVE \A k \in Nat : j < k => 2 * PowerOfTwo[j] <= PowerOfTwo[k]
  <2> DEFINE Bad == {k \in Nat : j < k /\ ~(2 * PowerOfTwo[j] <= PowerOfTwo[k])}
  <2> SUFFICES ASSUME Bad # {} PROVE FALSE
    OBVIOUS
  <2>1. PICK k \in Bad : \A i \in Bad : k <= i
    BY LeastNumber
  <2>2. k - 1 \in Nat /\ ~(k - 1 \in Bad) /\ (k - 1) + 1 = k
    BY <2>1
  <2>3. /\ PowerOfTwo[k - 1] \in Nat /\ PowerOfTwo[k] \in Nat /\ PowerOfTwo[j] \in Nat
        /\ PowerOfTwo[k] = 2 * PowerOfTwo[k - 1]
    BY <2>1, <2>2, PowerOfTwoFacts
  <2>4. CASE k - 1 = j
    BY <2>1, <2>3, <2>4
  <2>5. CASE k - 1 # j
    <3>1. j < k - 1
      BY <2>1, <2>5
    <3>2. 2 * PowerOfTwo[j] <= PowerOfTwo[k - 1]
      BY <2>2, <3>1
    <3> QED BY <2>1, <2>3, <3>2
  <2> QED BY <2>4, <2>5
<1> QED BY <1>1, <1>2

LEMMA PowerFacts ==
  /\ Power(1)
  /\ \A p : Power(p) => p \in Nat \ {0} /\ Power(2 * p)
  /\ \A p, q : Power(p) /\ Power(q) /\ p < q => 2 * p <= q
<1>1. Power(1)
  BY PowerOfTwoFacts DEF Power
<1>2. ASSUME NEW p, Power(p) PROVE p \in Nat \ {0} /\ Power(2 * p)
  <2>1. PICK k \in Nat : p = PowerOfTwo[k]
    BY <1>2 DEF Power
  <2>2. p \in Nat /\ p > k /\ 2 * p = PowerOfTwo[k + 1] /\ k + 1 \in Nat
    BY <2>1, PowerOfTwoFacts, PowerGrows
  <2> QED BY <2>2 DEF Power
<1>3. ASSUME NEW p, NEW q, Power(p), Power(q), p < q PROVE 2 * p <= q
  <2>1. PICK j \in Nat : p = PowerOfTwo[j]
    BY <1>3 DEF Power
  <2>2. PICK k \in Nat : q = PowerOfTwo[k]
    BY <1>3 DEF Power
  <2>3. p \in Nat /\ q \in Nat
    BY <2>1, <2>2, PowerOfTwoFacts
  <2>4. j < k
    <3>1. CASE j = k
      BY <1>3, <2>1, <2>2, <2>3, <3>1
    <3>2. CASE k < j
      <4>1. 2 * q <= p
        BY <2>1, <2>2, <3>2, PowerGrows
      <4> QED BY <1>3, <2>3, <4>1
    <3> QED BY <3>1, <3>2
  <2> QED BY <2>1, <2>2, <2>4, PowerGrows
<1> QED BY <1>1, <1>2, <1>3

LEMMA NextPower ==
  ASSUME NEW n \in Nat \ {0}
  PROVE  Power(nextPowerOfTwo(n)) /\ nextPowerOfTwo(n) >= n
<1> DEFINE Big == {k \in Nat : PowerOfTwo[k] >= n}
           Q(p) == p >= n /\ (p = 1 \/ p < 2 * n)
<1>1. n \in Big
  BY PowerOfTwoFacts, PowerGrows
<1>2. PICK k \in Big : \A j \in Big : k <= j
  BY <1>1, LeastNumber
<1>3. k \in 0 .. n
  BY <1>1, <1>2
<1>4. Q(PowerOfTwo[k])
  <2>1. CASE k = 0
    BY <1>2, <2>1, PowerOfTwoFacts
  <2>2. CASE k # 0
    <3>1. k - 1 \in Nat /\ ~(k - 1 \in Big) /\ (k - 1) + 1 = k
      BY <1>2, <2>2
    <3>2. PowerOfTwo[k - 1] \in Nat /\ PowerOfTwo[k] = 2 * PowerOfTwo[k - 1] /\ PowerOfTwo[k - 1] < n
      BY <3>1, PowerOfTwoFacts
    <3> QED BY <1>2, <3>2
  <2> QED BY <2>1, <2>2
<1>5. nextPowerOfTwo(n) \in {PowerOfTwo[i] : i \in 0 .. n} /\ Q(nextPowerOfTwo(n))
  BY <1>3, <1>4 DEF nextPowerOfTwo
<1> QED BY <1>5 DEF Power

-----------------------------------------------------------------------------
(* The merkle tree.                                                        *)

(* The element k of the array whose earlier elements are those of m.       *)
Element(m, txs, P, k) ==
  IF k <= P THEN IF k <= Len(txs) THEN <<"tx", txs[k]>> ELSE nil
  ELSE IF m[2 * (k - P) - 1] = nil THEN nil
  ELSE IF m[2 * (k - P) - 1 + 1] = nil THEN HashMerkleBranches(m[2 * (k - P) - 1], m[2 * (k - P) - 1])
  ELSE HashMerkleBranches(m[2 * (k - P) - 1], m[2 * (k - P) - 1 + 1])

IsStore(m, txs, P, n) == m = [k \in 1 .. n |-> Element(m, txs, P, k)]

LEMMA StoreExists ==
  ASSUME NEW txs, NEW P \in Nat \ {0}, NEW n \in Nat, n <= 2 * P - 1
  PROVE  \E m : IsStore(m, txs, P, n)
<1> DEFINE Bad == {i \in Nat : i <= 2 * P - 1 /\ ~\E m : IsStore(m, txs, P, i)}
<1>1. SUFFICES ASSUME Bad # {} PROVE FALSE
  OBVIOUS
<1>2. PICK i \in Bad : \A j \in Bad : i <= j
  BY <1>1, LeastNumber
<1>3. CASE i = 0
  <2>1. IsStore([k \in 1 .. 0 |-> 0], txs, P, 0)
    <3>1. 1 .. 0 = {}
      OBVIOUS
    <3> QED BY <3>1 DEF IsStore
  <2> QED BY <1>2, <1>3, <2>1
<1>4. CASE i # 0
  <2>1. i \in Nat /\ i - 1 \in Nat /\ ~(i - 1 \in Bad) /\ i <= 2 * P - 1 /\ i - 1 <= 2 * P - 1
    BY <1>2, <1>4
  <2>2. PICK f : IsStore(f, txs, P, i - 1)
    BY <2>1
  <2> DEFINE g == [k \in 1 .. i |-> IF k = i THEN Element(f, txs, P, i) ELSE f[k]]
  <2>3. \A k \in 1 .. i - 1 : f[k] = Element(f, txs, P, k)
    BY <2>2 DEF IsStore
  <2>4. \A k \in 1 .. i - 1 : g[k] = f[k]
    BY <2>1
  <2>5. g[i] = Element(f, txs, P, i)
    BY <1>4, <2>1
  <2>6. g = [k \in 1 .. i |-> g[k]]
    OBVIOUS
  <2> HIDE DEF g
  <2>7. ASSUME NEW k \in 1 .. i PROVE Element(g, txs, P, k) = Element(f, txs, P, k)
    <3>1. CASE k <= P
      BY <3>1 DEF Element
    <3>2. CASE ~(k <= P)
      <4>1. 2 * (k - P) - 1 \in 1 .. i - 1 /\ 2 * (k - P) - 1 + 1 \in 1 .. i - 1
        BY <2>1, <3>2
      <4>2. g[2 * (k - P) - 1] = f[2 * (k - P) - 1] /\ g[2 * (k - P) - 1 + 1] = f[2 * (k - P) - 1 + 1]
        BY <2>4, <4>1
      <4> QED BY <3>2, <4>2 DEF Element
    <3> QED BY <3>1, <3>2
  <2>8. \A k \in 1 .. i : g[k] = Element(g, txs, P, k)
    <3> SUFFICES ASSUME NEW k \in 1 .. i PROVE g[k] = Element(f, txs, P, k)
      BY <2>7
    <3>1. k = i \/ k \in 1 .. i - 1
      BY <2>1
    <3> QED BY <2>3, <2>4, <2>5, <3>1
  <2>9. IsStore(g, txs, P, i)
    BY <2>6, <2>8 DEF IsStore
  <2> QED BY <1>2, <2>9
<1> QED BY <1>3, <1>4
(* The array read from its end, with the root at 1: the children of node q *)
(* are 2 * q + 1 on the left and 2 * q on the right, the leaves are at     *)
(* P .. 2 * P - 1 and a level is a range p .. 2 * p - 1.                   *)
Leaf(txs, P, q) == IF 2 * P - q <= Len(txs) THEN <<"tx", txs[2 * P - q]>> ELSE nil
Branch(left, right) ==
  IF left = nil THEN nil
  ELSE IF right = nil THEN HashMerkleBranches(left, left) ELSE HashMerkleBranches(left, right)

IsTree(f, txs, P) ==
  /\ Power(P) /\ Len(txs) <= P
  /\ \A q \in P .. 2 * P - 1 : f[q] = Leaf(txs, P, q)
  /\ \A q \in 1 .. P - 1 : f[q] = Branch(f[2 * q + 1], f[2 * q])

LEMMA TreeOf ==
  ASSUME NEW S, NEW txs \in Seq(S), txs # <<>>
  PROVE  \E f, P : IsTree(f, txs, P) /\ f[1] = GetRoot(txs)
<1> DEFINE P == nextPowerOfTwo(Len(txs))
           n == 2 * P - 1
           m == BuildMerkleTreeStore(txs)
           f == [q \in 1 .. n |-> m[2 * P - q]]
<1>1. Len(txs) \in Nat \ {0}
  OBVIOUS
<1>2. Power(P) /\ P >= Len(txs)
  BY <1>1, NextPower
<1>3. P \in Nat \ {0}
  BY <1>2, PowerFacts
<1>4. m = CHOOSE g : IsStore(g, txs, P, n)
  BY DEF BuildMerkleTreeStore, IsStore, Element
<1> HIDE DEF P, m
<1>5. IsStore(m, txs, P, n)
  <2>0. n \in Nat /\ n <= 2 * P - 1
    BY <1>3
  <2>1. \E g : IsStore(g, txs, P, n)
    <3> HIDE DEF n
    <3> QED BY <1>3, <2>0, StoreExists
  <2> QED BY <1>4, <2>1
<1>6. m = [k \in 1 .. n |-> Element(m, txs, P, k)]
  BY <1>5 DEF IsStore
<1>7. \A k \in 1 .. n : m[k] = Element(m, txs, P, k)
  BY <1>6
<1>8. Len(m) = n
  <2>1. n \in Nat /\ DOMAIN m = 1 .. n
    BY <1>3, <1>6
  <2> DEFINE T == {m[k] : k \in 1 .. n}
  <2>2. m \in [1 .. n -> T]
    BY <1>6
  <2> HIDE DEF n, T
  <2>3. m \in Seq(T)
    BY <2>1, <2>2, SeqDef
  <2> QED BY <2>1, <2>3, LenProperties
<1>9. \A q \in 1 .. n : f[q] = Element(m, txs, P, 2 * P - q)
  <2> SUFFICES ASSUME NEW q \in 1 .. n PROVE f[q] = Element(m, txs, P, 2 * P - q)
    OBVIOUS
  <2>1. 2 * P - q \in 1 .. n
    BY <1>3
  <2> QED BY <1>7, <2>1
<1>10. ASSUME NEW q \in P .. 2 * P - 1 PROVE f[q] = Leaf(txs, P, q)
  <2>1. q \in 1 .. n /\ 2 * P - q <= P
    BY <1>3
  <2> QED BY <1>9, <2>1 DEF Element, Leaf
<1>11. ASSUME NEW q \in 1 .. P - 1 PROVE f[q] = Branch(f[2 * q + 1], f[2 * q])
  <2>1. q \in 1 .. n /\ 2 * q + 1 \in 1 .. n /\ 2 * q \in 1 .. n /\ ~(2 * P - q <= P)
    BY <1>3
  <2>2. /\ 2 * ((2 * P - q) - P) - 1 = 2 * P - (2 * q + 1)
        /\ 2 * ((2 * P - q) - P) - 1 + 1 = 2 * P - 2 * q
    BY <1>3
  <2>3. f[2 * q + 1] = m[2 * P - (2 * q + 1)] /\ f[2 * q] = m[2 * P - 2 * q]
    BY <2>1
  <2>4. f[q] = Element(m, txs, P, 2 * P - q)
    BY <1>9, <2>1
  <2> HIDE DEF f
  <2> QED BY <2>1, <2>2, <2>3, <2>4 DEF Element, Branch
<1>12. f[1] = GetRoot(txs)
  <2>1. 1 \in 1 .. n
    BY <1>3
  <2>2. f[1] = m[n]
    BY <2>1
  <2> QED BY <1>8, <2>2 DEF GetRoot, Root, m
<1> HIDE DEF f
<1>13. IsTree(f, txs, P)
  BY <1>2, <1>3, <1>10, <1>11 DEF IsTree
<1> QED BY <1>12, <1>13

(* Every node is on a level.                                               *)
LEMMA LevelOf ==
  ASSUME NEW P, Power(P), NEW q \in 1 .. 2 * P - 1
  PROVE  \E p : Power(p) /\ p <= q /\ q < 2 * p /\ p <= P
<1> DEFINE Above == {k \in Nat : PowerOfTwo[k] > q}
<1>1. q \in Above
  BY PowerGrows
<1>2. PICK k \in Above : \A j \in Above : k <= j
  BY <1>1, LeastNumber
<1>3. k # 0
  BY <1>2, PowerOfTwoFacts
<1>4. k - 1 \in Nat /\ ~(k - 1 \in Above) /\ (k - 1) + 1 = k
  BY <1>2, <1>3
<1> DEFINE p == PowerOfTwo[k - 1]
<1>5. p \in Nat /\ p <= q /\ q < 2 * p
  BY <1>2, <1>4, PowerOfTwoFacts
<1>6. Power(p)
  BY <1>4 DEF Power
<1> HIDE DEF p
<1>7. P \in Nat /\ (P < p => 2 * P <= p)
  BY <1>6, PowerFacts
<1>8. p <= P
  BY <1>5, <1>7
<1> QED BY <1>5, <1>6, <1>8

LEMMA LevelBelow ==
  ASSUME NEW P, Power(P), NEW p, Power(p), p <= P, p # P
  PROVE  /\ p \in Nat /\ P \in Nat /\ 2 * p <= P /\ Power(2 * p)
<1>1. p \in Nat /\ P \in Nat /\ Power(2 * p)
  BY PowerFacts
<1>2. p < P
  BY <1>1
<1> QED BY <1>1, <1>2, PowerFacts

LEMMA Hashes ==
  /\ \A a, b : <<"tx", a>> = <<"tx", b>> => a = b
  /\ \A a : <<"tx", a>> # nil
  /\ \A a, l, r : <<"tx", a>> # HashMerkleBranches(l, r)
  /\ \A l, r : HashMerkleBranches(l, r) # nil
  /\ \A l, r, x, y : HashMerkleBranches(l, r) = HashMerkleBranches(x, y) => l = x /\ r = y
  BY DEF HashMerkleBranches, nil

(* On a level the missing nodes are the last ones of the array.            *)
LEMMA MissingLast ==
  ASSUME NEW f, NEW S, NEW txs \in Seq(S), NEW P, IsTree(f, txs, P),
         NEW p, Power(p), p <= P,
         NEW q \in Nat, NEW r \in Nat, p <= q, q < r, r < 2 * p, f[r] = nil
  PROVE  f[q] = nil
<1> DEFINE Wrong(a) == \E t, b : /\ Power(t) /\ t <= P /\ b \in Nat
                                 /\ t <= a /\ a < b /\ b < 2 * t /\ f[b] = nil /\ f[a] # nil
           Bad == {s \in Nat : s <= 2 * P /\ Wrong(2 * P - s)}
<1>1. P \in Nat /\ p \in Nat
  BY PowerFacts DEF IsTree
<1>2. SUFFICES ASSUME f[q] # nil PROVE FALSE
  OBVIOUS
<1>3. Wrong(q)
  BY <1>2
<1>4. 2 * P - q \in Bad
  <2>1. 2 * P - (2 * P - q) = q /\ 2 * P - q \in Nat /\ 2 * P - q <= 2 * P
    BY <1>1
  <2> HIDE DEF Wrong
  <2> QED BY <1>3, <2>1
<1>5. PICK s \in Bad : \A i \in Bad : s <= i
  BY <1>4, LeastNumber
<1> DEFINE a == 2 * P - s
<1>6. a \in Nat /\ s = 2 * P - a /\ s \in Nat
  BY <1>1, <1>5
<1>7. PICK t, b : /\ Power(t) /\ t <= P /\ b \in Nat
                  /\ t <= a /\ a < b /\ b < 2 * t /\ f[b] = nil /\ f[a] # nil
  BY <1>5
<1>8. t \in Nat \ {0}
  BY <1>7, PowerFacts
<1> HIDE DEF a
<1>9. CASE t = P
  <2>1. a \in P .. 2 * P - 1 /\ b \in P .. 2 * P - 1
    BY <1>1, <1>6, <1>7, <1>9
  <2>2. f[a] = Leaf(txs, P, a) /\ f[b] = Leaf(txs, P, b)
    BY <2>1 DEF IsTree
  <2>3. ~(2 * P - b <= Len(txs))
    BY <1>7, <2>2, Hashes DEF Leaf
  <2>4. ~(2 * P - a <= Len(txs))
    BY <1>1, <1>6, <1>7, <2>3
  <2> QED BY <1>7, <2>2, <2>4 DEF Leaf
<1>10. CASE t # P
  <2>1. 2 * t <= P /\ Power(2 * t)
    BY <1>7, <1>10, LevelBelow DEF IsTree
  <2>2. a \in 1 .. P - 1 /\ b \in 1 .. P - 1
    BY <1>1, <1>6, <1>7, <1>8, <2>1
  <2>3. f[a] = Branch(f[2 * a + 1], f[2 * a]) /\ f[b] = Branch(f[2 * b + 1], f[2 * b])
    BY <2>2 DEF IsTree
  <2>4. f[2 * b + 1] = nil /\ f[2 * a + 1] # nil
    BY <1>7, <2>3, Hashes DEF Branch
  <2>5. 2 * b + 1 \in Nat /\ 2 * t <= 2 * a + 1 /\ 2 * a + 1 < 2 * b + 1 /\ 2 * b + 1 < 2 * (2 * t)
    BY <1>6, <1>7, <1>8
  <2>6. Wrong(2 * a + 1)
    BY <2>1, <2>4, <2>5
  <2>7. 2 * P - (2 * P - (2 * a + 1)) = 2 * a + 1 /\ 2 * P - (2 * a + 1) \in Nat
        /\ 2 * P - (2 * a + 1) <= 2 * P /\ ~(s <= 2 * P - (2 * a + 1))
    BY <1>1, <1>6, <2>2
  <2> HIDE DEF Wrong
  <2>8. 2 * P - (2 * a + 1) \in Bad
    BY <2>6, <2>7
  <2> QED BY <1>5, <2>7, <2>8
<1> QED BY <1>9, <1>10

(* Without a repeated transaction two nodes of a level never agree: the    *)
(* copy that stands in for a missing right child is always recognised.     *)
LEMMA NoTwins ==
  ASSUME NEW f, NEW S, NEW txs \in Seq(S), NEW P, IsTree(f, txs, P),
         \A i, j \in DOMAIN txs : txs[i] = txs[j] => i = j,
         NEW p, Power(p), p <= P,
         NEW q \in Nat, NEW r \in Nat, p <= q, q < r, r < 2 * p, f[q] = f[r]
  PROVE  f[q] = nil
<1> DEFINE Wrong(a) == \E t, b : /\ Power(t) /\ t <= P /\ b \in Nat
                                 /\ t <= a /\ a < b /\ b < 2 * t /\ f[b] = f[a] /\ f[a] # nil
           Bad == {s \in Nat : s <= 2 * P /\ Wrong(2 * P - s)}
<1>1. P \in Nat /\ p \in Nat
  BY PowerFacts DEF IsTree
<1>2. SUFFICES ASSUME f[q] # nil PROVE FALSE
  OBVIOUS
<1>3. Wrong(q)
  BY <1>2
<1>4. 2 * P - q \in Bad
  <2>1. 2 * P - (2 * P - q) = q /\ 2 * P - q \in Nat /\ 2 * P - q <= 2 * P
    BY <1>1
  <2> HIDE DEF Wrong
  <2> QED BY <1>3, <2>1
<1>5. PICK s \in Bad : \A i \in Bad : s <= i
  BY <1>4, LeastNumber
<1> DEFINE a == 2 * P - s
<1>6. a \in Nat /\ s = 2 * P - a /\ s \in Nat
  BY <1>1, <1>5
<1>7. PICK t, b : /\ Power(t) /\ t <= P /\ b \in Nat
                  /\ t <= a /\ a < b /\ b < 2 * t /\ f[b] = f[a] /\ f[a] # nil
  BY <1>5
<1>8. t \in Nat \ {0}
  BY <1>7, PowerFacts
<1> HIDE DEF a
<1>9. CASE t = P
  <2>1. a \in P .. 2 * P - 1 /\ b \in P .. 2 * P - 1
    BY <1>1, <1>6, <1>7, <1>9
  <2>2. f[a] = Leaf(txs, P, a) /\ f[b] = Leaf(txs, P, b)
    BY <2>1 DEF IsTree
  <2>3. 2 * P - a <= Len(txs) /\ 2 * P - b <= Len(txs)
    BY <1>7, <2>2 DEF Leaf
  <2>4. txs[2 * P - a] = txs[2 * P - b]
    BY <1>7, <2>2, <2>3, Hashes DEF Leaf
  <2>5. 2 * P - a \in DOMAIN txs /\ 2 * P - b \in DOMAIN txs
    BY <1>1, <2>1, <2>3
  <2>6. 2 * P - a = 2 * P - b
    BY <2>4, <2>5
  <2> QED BY <1>1, <1>6, <1>7, <2>6
<1>10. CASE t # P
  <2>1. 2 * t <= P /\ Power(2 * t)
    BY <1>7, <1>10, LevelBelow DEF IsTree
  <2>2. a \in 1 .. P - 1 /\ b \in 1 .. P - 1
    BY <1>1, <1>6, <1>7, <1>8, <2>1
  <2>3. f[a] = Branch(f[2 * a + 1], f[2 * a]) /\ f[b] = Branch(f[2 * b + 1], f[2 * b])
    BY <2>2 DEF IsTree
  <2>4. f[2 * b + 1] = f[2 * a + 1] /\ f[2 * a + 1] # nil
    BY <1>7, <2>3, Hashes DEF Branch
  <2>5. 2 * b + 1 \in Nat /\ 2 * t <= 2 * a + 1 /\ 2 * a + 1 < 2 * b + 1 /\ 2 * b + 1 < 2 * (2 * t)
    BY <1>6, <1>7, <1>8
  <2>6. Wrong(2 * a + 1)
    BY <2>1, <2>4, <2>5
  <2>7. 2 * P - (2 * P - (2 * a + 1)) = 2 * a + 1 /\ 2 * P - (2 * a + 1) \in Nat
        /\ 2 * P - (2 * a + 1) <= 2 * P /\ ~(s <= 2 * P - (2 * a + 1))
    BY <1>1, <1>6, <2>2
  <2> HIDE DEF Wrong
  <2>8. 2 * P - (2 * a + 1) \in Bad
    BY <2>6, <2>7
  <2> QED BY <1>5, <2>7, <2>8
<1> QED BY <1>9, <1>10

(* Trees with the same root agree as far as both go.                       *)
LEMMA TreesAgree ==
  ASSUME NEW S, NEW txs \in Seq(S), NEW f, NEW P, IsTree(f, txs, P),
         NEW uxs \in Seq(S), NEW g, NEW Q, IsTree(g, uxs, Q),
         \A i, j \in DOMAIN txs : txs[i] = txs[j] => i = j,
         \A i, j \in DOMAIN uxs : uxs[i] = uxs[j] => i = j,
         P <= Q, f[1] = g[1]
  PROVE  \A q \in 1 .. 2 * P - 1 : f[q] = g[q]
<1> DEFINE Bad == {q \in Nat : q \in 1 .. 2 * P - 1 /\ f[q] # g[q]}
<1>1. P \in Nat \ {0} /\ Q \in Nat \ {0} /\ Power(P) /\ Power(Q)
  BY PowerFacts DEF IsTree
<1>2. SUFFICES ASSUME Bad # {} PROVE FALSE
  BY <1>1
<1>3. PICK q \in Bad : \A i \in Bad : q <= i
  BY <1>2, LeastNumber
<1>4. q # 1 /\ q \in 1 .. 2 * P - 1 /\ f[q] # g[q]
  BY <1>3
<1>5. PICK h \in Nat : q = 2 * h \/ q = 2 * h + 1
  <2> DEFINE h == q \div 2
  <2>1. h \in Nat /\ (q = 2 * h \/ q = 2 * h + 1)
    BY <1>4
  <2> QED BY <2>1
<1>6. h \in 1 .. P - 1 /\ h \in 1 .. Q - 1 /\ h < q /\ h \in 1 .. 2 * P - 1
  BY <1>1, <1>4, <1>5
<1>7. f[h] = g[h]
  <2>1. h \notin Bad
    BY <1>3, <1>6
  <2> QED BY <1>6, <2>1
<1>8. f[h] = Branch(f[2 * h + 1], f[2 * h]) /\ g[h] = Branch(g[2 * h + 1], g[2 * h])
  BY <1>6 DEF IsTree
<1>9. PICK p : Power(p) /\ p <= h /\ h < 2 * p /\ p <= P
  BY <1>1, <1>6, LevelOf
<1>10. p \in Nat \ {0}
  BY <1>9, PowerFacts
<1>11. p # P /\ p # Q /\ p <= Q
  BY <1>1, <1>6, <1>9, <1>10
<1>12. Power(2 * p) /\ 2 * p <= P /\ 2 * p <= Q
  BY <1>1, <1>9, <1>11, LevelBelow
<1>13. 2 * h \in Nat /\ 2 * h + 1 \in Nat /\ 2 * p <= 2 * h /\ 2 * h < 2 * h + 1 /\ 2 * h + 1 < 2 * (2 * p)
  BY <1>6, <1>9, <1>10
<1>14. f[2 * h + 1] = nil => f[2 * h] = nil
  BY <1>12, <1>13, MissingLast
<1>15. g[2 * h + 1] = nil => g[2 * h] = nil
  BY <1>12, <1>13, MissingLast
<1>16. f[2 * h] = f[2 * h + 1] => f[2 * h] = nil
  BY <1>12, <1>13, NoTwins
<1>17. g[2 * h] = g[2 * h + 1] => g[2 * h] = nil
  BY <1>12, <1>13, NoTwins
<1>18. f[2 * h] = g[2 * h] /\ f[2 * h + 1] = g[2 * h + 1]
  <2> DEFINE fl == f[2 * h + 1]
             fr == f[2 * h]
             gl == g[2 * h + 1]
             gr == g[2 * h]
  <2>1. Branch(fl, fr) = Branch(gl, gr)
    BY <1>7, <1>8
  <2>2. /\ fl = nil => fr = nil
        /\ gl = nil => gr = nil
        /\ fr = fl => fr = nil
        /\ gr = gl => gr = nil
    BY <1>14, <1>15, <1>16, <1>17
  <2> HIDE DEF fl, fr, gl, gr
  <2>3. fl = gl /\ fr = gr
    BY <2>1, <2>2, Hashes DEF Branch
  <2> QED BY <2>3 DEF fl, fr, gl, gr
<1> QED BY <1>4, <1>5, <1>18

LEMMA SameTree ==
  ASSUME NEW S, NEW txs \in Seq(S), NEW f, NEW P, IsTree(f, txs, P), txs # <<>>,
         NEW uxs \in Seq(S), NEW g, NEW Q, IsTree(g, uxs, Q),
         \A i, j \in DOMAIN txs : txs[i] = txs[j] => i = j,
         \A i, j \in DOMAIN uxs : uxs[i] = uxs[j] => i = j,
         P <= Q, f[1] = g[1]
  PROVE  txs = uxs
<1>1. P \in Nat \ {0} /\ Q \in Nat \ {0} /\ Power(P) /\ Power(Q) /\ Len(txs) <= P /\ Len(uxs) <= Q
  BY PowerFacts DEF IsTree
<1>2. \A q \in 1 .. 2 * P - 1 : f[q] = g[q]
  BY TreesAgree
<1>3. P = Q
  <2> SUFFICES ASSUME P # Q PROVE FALSE
    OBVIOUS
  <2>1. 2 * P <= Q
    BY <1>1, LevelBelow
  <2> DEFINE q == 2 * P - 1
  <2>2. q \in 1 .. 2 * P - 1 /\ q \in P .. 2 * P - 1 /\ q \in 1 .. Q - 1 /\ 2 * P - q = 1
    BY <1>1, <2>1
  <2> HIDE DEF q
  <2>3. Len(txs) \in Nat /\ Len(txs) >= 1
    OBVIOUS
  <2>4. f[q] = <<"tx", txs[1]>>
    BY <2>2, <2>3 DEF IsTree, Leaf
  <2>5. g[q] = Branch(g[2 * q + 1], g[2 * q])
    BY <2>2 DEF IsTree
  <2>6. <<"tx", txs[1]>> = g[q]
    BY <1>2, <2>2, <2>4
  <2>7. g[q] = nil \/ \E l, r : g[q] = HashMerkleBranches(l, r)
    BY <2>5, Zenon DEF Branch
  <2>8. <<"tx", txs[1]>> # nil /\ \A l, r : <<"tx", txs[1]>> # HashMerkleBranches(l, r)
    BY Hashes, Zenon
  <2> QED BY <2>6, <2>7, <2>8, Zenon
<1>4. ASSUME NEW k \in 1 .. P
      PROVE  (k <= Len(txs) <=> k <= Len(uxs)) /\ (k <= Len(txs) => txs[k] = uxs[k])
  <2> DEFINE q == 2 * P - k
  <2>1. q \in 1 .. 2 * P - 1 /\ q \in P .. 2 * P - 1 /\ 2 * P - q = k
    BY <1>1
  <2> HIDE DEF q
  <2>2. f[q] = Leaf(txs, P, q) /\ g[q] = Leaf(uxs, P, q)
    BY <1>3, <2>1 DEF IsTree
  <2>3. Leaf(txs, P, q) = Leaf(uxs, P, q)
    BY <1>2, <2>1, <2>2
  <2> QED BY <2>1, <2>3, Hashes DEF Leaf
<1>5. Len(txs) \in Nat /\ Len(uxs) \in Nat
  OBVIOUS
<1>6. Len(txs) = Len(uxs)
  <2>1. CASE Len(txs) < Len(uxs)
    <3>1. Len(uxs) \in 1 .. P
      BY <1>1, <1>3, <1>5, <2>1
    <3> QED BY <1>4, <1>5, <2>1, <3>1
  <2>2. CASE Len(uxs) < Len(txs)
    <3>1. Len(txs) \in 1 .. P
      BY <1>1, <1>5, <2>2
    <3> QED BY <1>4, <1>5, <2>2, <3>1
  <2> QED BY <1>5, <2>1, <2>2
<1>7. \A k \in 1 .. Len(txs) : txs[k] = uxs[k]
  <2> SUFFICES ASSUME NEW k \in 1 .. Len(txs) PROVE txs[k] = uxs[k]
    OBVIOUS
  <2>1. k \in 1 .. P /\ k <= Len(txs)
    BY <1>1, <1>5
  <2> QED BY <1>4, <2>1
<1> QED BY <1>6, <1>7, SeqEqual

(* Bodies without a repeated transaction that have the same merkle root    *)
(* are the same.                                                           *)
LEMMA RootCommits ==
  ASSUME NEW S, NEW txs \in Seq(S), txs # <<>>, NEW uxs \in Seq(S), uxs # <<>>,
         \A i, j \in DOMAIN txs : txs[i] = txs[j] => i = j,
         \A i, j \in DOMAIN uxs : uxs[i] = uxs[j] => i = j,
         GetRoot(txs) = GetRoot(uxs)
  PROVE  txs = uxs
<1>1. PICK f, P : IsTree(f, txs, P) /\ f[1] = GetRoot(txs)
  BY TreeOf
<1>2. PICK g, Q : IsTree(g, uxs, Q) /\ g[1] = GetRoot(uxs)
  BY TreeOf
<1>3. P \in Nat /\ Q \in Nat
  BY <1>1, <1>2, PowerFacts DEF IsTree
<1>4. f[1] = g[1]
  BY <1>1, <1>2
<1>5. CASE P <= Q
  BY <1>1, <1>2, <1>4, <1>5, SameTree
<1>6. CASE Q <= P
  BY <1>1, <1>2, <1>4, <1>6, SameTree
<1> QED BY <1>3, <1>5, <1>6

-----------------------------------------------------------------------------
(* The bodies of the blocks.                                               *)

(* A body that passed the checks for a header.                             *)
Checked(b, h) ==
  /\ b \in Seq(DOMAIN Tx) /\ b # <<>>
  /\ \A i, j \in DOMAIN b : b[i] = b[j] => i = j
  /\ GetRoot(b) = h.merkleRoot

(* The blocks that were accepted since the start are in the database with  *)
(* the body that was checked.                                              *)
BodyInv == \A n \in index \ InitialNodes : n \in DOMAIN body /\ Checked(body[n], n[Len(n)])

LEMMA SaneIsChecked ==
  ASSUME NEW h, NEW b \in Seq(DOMAIN Tx), NEW limit, NEW flags, NEW height, NEW time,
         checkBlockSanity(h, b, limit, flags, height, time)
  PROVE  Checked(b, h)
<1>1. b # <<>>
  <2>1. Len(b) \in 1 .. MaxBlockBaseSize
    BY DEF checkBlockSanity
  <2> QED BY <2>1
<1> QED BY <1>1 DEF checkBlockSanity, Checked

LEMMA BodyInvInit ==
  ASSUME RulesInit
  PROVE  BodyInv
<1>1. PICK tip \in InitialChains : index = {SubSeq(tip, 1, k) : k \in DOMAIN tip}
  BY DEF RulesInit
<1>2. index \subseteq InitialNodes
  BY <1>1 DEF InitialNodes
<1> QED BY <1>2 DEF BodyInv

LEMMA BodyInvProcess ==
  ASSUME IInv, BodyInv, NEW k \in Blocks, NEW n \in index, ProcessBlock(k.header, k.body, n, k.flags)
  PROVE  BodyInv'
<1> DEFINE node == Append(n, k.header)
           ok == Verdict(k.header, k.body, n, k.flags).ok
<1>1. /\ index' = IF ok THEN index \cup {node} ELSE index
      /\ body' = IF ok THEN [m \in DOMAIN body \cup {node} |-> IF m = node THEN k.body ELSE body[m]] ELSE body
  BY DEF ProcessBlock
<1>2. node[Len(node)] = k.header
  <2>1. n \in Seq(Headers) /\ k.header \in Headers
    BY DEF IInv, IndexInv, Chains, Headers
  <2> QED BY <2>1
<1>3. ok => Checked(k.body, k.header)
  <2> SUFFICES ASSUME ok PROVE Checked(k.body, k.header)
    OBVIOUS
  <2>1. k.body \in Seq(DOMAIN Tx)
    BY RulesAssumption
  <2>2. PICK limit, height, time : checkBlockSanity(k.header, k.body, limit, k.flags, height, time)
    BY DEF Verdict
  <2> QED BY <2>1, <2>2, SaneIsChecked
<1> HIDE DEF node, ok
<1>4. CASE ~ok
  BY <1>1, <1>4 DEF BodyInv, Checked
<1>5. CASE ok
  <2> SUFFICES ASSUME NEW m \in index' \ InitialNodes
               PROVE  m \in DOMAIN body' /\ Checked(body'[m], m[Len(m)])
    BY DEF BodyInv, Checked, InitialNodes
  <2>1. CASE m = node
    BY <1>1, <1>2, <1>3, <1>5, <2>1
  <2>2. CASE m # node
    <3>1. m \in index \ InitialNodes
      BY <1>1, <1>5, <2>2
    <3>2. m \in DOMAIN body /\ Checked(body[m], m[Len(m)])
      BY <3>1 DEF BodyInv
    <3>3. m \in DOMAIN body' /\ body'[m] = body[m]
      BY <1>1, <1>5, <2>2, <3>2
    <3> QED BY <3>2, <3>3
  <2> QED BY <2>1, <2>2
<1> QED BY <1>4, <1>5

LEMMA BodyInvNext ==
  ASSUME IInv, BodyInv, [RulesNext]_vars
  PROVE  BodyInv'
<1>1. CASE UNCHANGED <<index, body>>
  BY <1>1 DEF BodyInv, Checked
<1>2. ASSUME NEW k \in Blocks, NEW prevNode \in index, ProcessBlock(k.header, k.body, prevNode, k.flags)
      PROVE  BodyInv'
  BY <1>2, BodyInvProcess
<1>3. ASSUME Restart PROVE UNCHANGED <<index, body>>
  BY <1>3 DEF Restart
<1>4. ASSUME NEW k \in Blocks, CheckConnectBlockTemplate(k.header, k.body) PROVE UNCHANGED <<index, body>>
  BY <1>4 DEF CheckConnectBlockTemplate
<1>5. ASSUME NEW algo, CalcNextRequiredDifficulty(algo) PROVE UNCHANGED <<index, body>>
  BY <1>5 DEF CalcNextRequiredDifficulty
<1>6. CASE UNCHANGED vars
  BY <1>1, <1>6 DEF vars
<1> QED BY <1>1, <1>2, <1>3, <1>4, <1>5, <1>6 DEF RulesNext

(* A header commits to one body: although the merkle tree repeats its last *)
(* transactions, no body other than the accepted one passes the checks of  *)
(* the block (BuildMerkleTreeStore, checkBlockSanity).                     *)
THEOREM HeaderCommits == RulesSpec => []BodyCommitted
<1>1. BodyInv => BodyCommitted
  <2> SUFFICES ASSUME BodyInv, NEW n \in index \ InitialNodes, NEW b \in Bodies \ {body[n]},
                      NEW limit, NEW flags, NEW height, NEW time,
                      checkBlockSanity(n[Len(n)], b, limit, flags, height, time)
               PROVE  FALSE
    BY DEF BodyCommitted
  <2>1. b \in Seq(DOMAIN Tx)
    BY RulesAssumption DEF Bodies
  <2>2. Checked(b, n[Len(n)])
    BY <2>1, SaneIsChecked
  <2>3. Checked(body[n], n[Len(n)])
    BY DEF BodyInv
  <2>4. b = body[n]
    BY <2>2, <2>3, RootCommits DEF Checked
  <2> QED BY <2>4
<1>2. RulesSpec => []BodyInv
  BY RulesInvariant, BodyInvInit, BodyInvNext, PTL DEF RulesSpec
<1> QED BY <1>1, <1>2, PTL

-----------------------------------------------------------------------------
(* The logarithm that the room of a locator is computed with.              *)

LEMMA PowerShifts ==
  ASSUME NEW j \in Nat
  PROVE  /\ j >= 1 => PowerOfTwo[j] = 2 * PowerOfTwo[j - 1]
         /\ j >= 2 => PowerOfTwo[j] = 4 * PowerOfTwo[j - 2]
         /\ j >= 4 => PowerOfTwo[j] = 16 * PowerOfTwo[j - 4]
         /\ j >= 8 => PowerOfTwo[j] = 256 * PowerOfTwo[j - 8]
         /\ j >= 16 => PowerOfTwo[j] = 65536 * PowerOfTwo[j - 16]
<1>0. \A k \in Nat : PowerOfTwo[k] \in Nat /\ PowerOfTwo[k + 1] = 2 * PowerOfTwo[k]
  BY PowerOfTwoFacts
<1>1. \A i \in Nat : i >= 1 => PowerOfTwo[i] = 2 * PowerOfTwo[i - 1]
  <2> SUFFICES ASSUME NEW i \in Nat, i >= 1 PROVE PowerOfTwo[i] = 2 * PowerOfTwo[i - 1]
    OBVIOUS
  <2>1. i - 1 \in Nat /\ (i - 1) + 1 = i
    OBVIOUS
  <2>2. PowerOfTwo[(i - 1) + 1] = 2 * PowerOfTwo[i - 1]
    BY <1>0, <2>1
  <2> QED BY <2>1, <2>2
<1>2. \A i \in Nat : i >= 2 => PowerOfTwo[i] = 4 * PowerOfTwo[i - 2]
  <2> SUFFICES ASSUME NEW i \in Nat, i >= 2 PROVE PowerOfTwo[i] = 4 * PowerOfTwo[i - 2]
    OBVIOUS
  <2>1. i - 1 \in Nat /\ i - 1 >= 1 /\ (i - 1) - 1 = i - 2 /\ PowerOfTwo[i - 2] \in Nat
    BY <1>0
  <2>2. PowerOfTwo[i] = 2 * PowerOfTwo[i - 1] /\ PowerOfTwo[i - 1] = 2 * PowerOfTwo[(i - 1) - 1]
    BY <1>1, <2>1
  <2> QED BY <2>1, <2>2
<1>3. \A i \in Nat : i >= 4 => PowerOfTwo[i] = 16 * PowerOfTwo[i - 4]
  <2> SUFFICES ASSUME NEW i \in Nat, i >= 4 PROVE PowerOfTwo[i] = 16 * PowerOfTwo[i - 4]
    OBVIOUS
  <2>1. i - 2 \in Nat /\ i - 2 >= 2 /\ (i - 2) - 2 = i - 4 /\ PowerOfTwo[i - 4] \in Nat
    BY <1>0
  <2>2. PowerOfTwo[i] = 4 * PowerOfTwo[i - 2] /\ PowerOfTwo[i - 2] = 4 * PowerOfTwo[(i - 2) - 2]
    BY <1>2, <2>1
  <2> QED BY <2>1, <2>2
<1>4. \A i \in Nat : i >= 8 => PowerOfTwo[i] = 256 * PowerOfTwo[i - 8]
  <2> SUFFICES ASSUME NEW i \in Nat, i >= 8 PROVE PowerOfTwo[i] = 256 * PowerOfTwo[i - 8]
    OBVIOUS
  <2>1. i - 4 \in Nat /\ i - 4 >= 4 /\ (i - 4) - 4 = i - 8 /\ PowerOfTwo[i - 8] \in Nat
    BY <1>0
  <2>2. PowerOfTwo[i] = 16 * PowerOfTwo[i - 4] /\ PowerOfTwo[i - 4] = 16 * PowerOfTwo[(i - 4) - 4]
    BY <1>3, <2>1
  <2> QED BY <2>1, <2>2
<1>5. j >= 16 => PowerOfTwo[j] = 65536 * PowerOfTwo[j - 16]
  <2> SUFFICES ASSUME j >= 16 PROVE PowerOfTwo[j] = 65536 * PowerOfTwo[j - 16]
    OBVIOUS
  <2>1. j - 8 \in Nat /\ j - 8 >= 8 /\ (j - 8) - 8 = j - 16 /\ PowerOfTwo[j - 16] \in Nat
    BY <1>0
  <2>2. PowerOfTwo[j] = 256 * PowerOfTwo[j - 8] /\ PowerOfTwo[j - 8] = 256 * PowerOfTwo[(j - 8) - 8]
    BY <1>4, <2>1
  <2> QED BY <2>1, <2>2
<1> QED BY <1>1, <1>2, <1>3, <1>4, <1>5

(* What the last 1, 2, 3, 4 and 5 steps of fastLog2Floor add to the result. *)
Log1(n) == IF n >= 2 THEN 1 ELSE 0
Log2(n) == IF n >= 4 THEN 2 + Log1(n \div 4) ELSE Log1(n)
Log4(n) == IF n >= 16 THEN 4 + Log2(n \div 16) ELSE Log2(n)
Log8(n) == IF n >= 256 THEN 8 + Log4(n \div 256) ELSE Log4(n)
Log16(n) == IF n >= 65536 THEN 16 + Log8(n \div 65536) ELSE Log8(n)

Below(j, n) == PowerOfTwo[j] <= n

LEMMA Log1Is ==
  ASSUME NEW n \in Nat, n < 4, NEW j \in Nat, Below(j, n)
  PROVE  j <= Log1(n)
<1>1. PowerOfTwo[j] > j /\ PowerOfTwo[j] \in Nat /\ j < 4
  BY PowerGrows, PowerOfTwoFacts DEF Below
<1>2. PowerOfTwo[0] = 1 /\ PowerOfTwo[1] = 2 /\ PowerOfTwo[2] = 4 /\ PowerOfTwo[3] = 8
  <2>1. 0 + 1 = 1 /\ 1 + 1 = 2 /\ 2 + 1 = 3
    OBVIOUS
  <2> QED BY <2>1, PowerOfTwoFacts
<1> QED BY <1>1, <1>2 DEF Log1, Below

LEMMA Log2Is ==
  ASSUME NEW n \in Nat, n < 16, NEW j \in Nat, Below(j, n)
  PROVE  j <= Log2(n)
<1>1. PowerOfTwo[j] \in Nat /\ (j >= 2 => PowerOfTwo[j] = 4 * PowerOfTwo[j - 2])
  BY PowerOfTwoFacts, PowerShifts
<1>2. CASE n < 4
  BY <1>2, Log1Is DEF Log2, Log1
<1>3. CASE n >= 4 /\ j < 2
  BY <1>3 DEF Log2, Log1
<1>4. CASE n >= 4 /\ j >= 2
  <2>1. j - 2 \in Nat /\ n \div 4 \in Nat /\ n \div 4 < 4 /\ PowerOfTwo[j - 2] \in Nat
    BY <1>4, PowerOfTwoFacts
  <2>2. PowerOfTwo[j - 2] <= n \div 4
    BY <1>1, <1>4, <2>1 DEF Below
  <2>3. j - 2 <= Log1(n \div 4)
    BY <2>1, <2>2, Log1Is DEF Below
  <2> QED BY <1>4, <2>3 DEF Log2, Log1
<1> QED BY <1>2, <1>3, <1>4

LEMMA LogsAreNumbers ==
  ASSUME NEW n \in Nat
  PROVE  Log1(n) \in Nat /\ Log2(n) \in Nat /\ Log4(n) \in Nat /\ Log8(n) \in Nat /\ Log16(n) \in Nat
<1>1. \A m \in Nat : Log1(m) \in Nat
  BY DEF Log1
<1> HIDE DEF Log1
<1>2. \A m \in Nat : Log2(m) \in Nat
  BY <1>1 DEF Log2
<1>3. \A m \in Nat : Log4(m) \in Nat
  BY <1>2 DEF Log4
<1>4. \A m \in Nat : Log8(m) \in Nat
  BY <1>3 DEF Log8
<1>5. Log16(n) \in Nat
  BY <1>4 DEF Log16
<1> QED BY <1>1, <1>2, <1>3, <1>4, <1>5

LEMMA Log4Is ==
  ASSUME NEW n \in Nat, n < 256, NEW j \in Nat, Below(j, n)
  PROVE  j <= Log4(n)
<1>1. PowerOfTwo[j] \in Nat /\ (j >= 4 => PowerOfTwo[j] = 16 * PowerOfTwo[j - 4])
  BY PowerOfTwoFacts, PowerShifts
<1>2. CASE n < 16
  <2>1. j <= Log2(n)
    BY <1>2, Log2Is
  <2> QED BY <1>2, <2>1 DEF Log4
<1>3. CASE n >= 16 /\ j < 4
  <2>1. n \div 16 \in Nat
    OBVIOUS
  <2>2. Log2(n \div 16) \in Nat
    BY <2>1, LogsAreNumbers
  <2>3. Log4(n) = 4 + Log2(n \div 16)
    BY <1>3 DEF Log4
  <2> QED BY <1>3, <2>2, <2>3
<1>4. CASE n >= 16 /\ j >= 4
  <2>1. j - 4 \in Nat /\ n \div 16 \in Nat /\ n \div 16 < 16 /\ PowerOfTwo[j - 4] \in Nat
    BY <1>4, PowerOfTwoFacts
  <2>2. PowerOfTwo[j - 4] <= n \div 16
    BY <1>1, <1>4, <2>1 DEF Below
  <2>3. j - 4 <= Log2(n \div 16)
    BY <2>1, <2>2, Log2Is DEF Below
  <2>4. Log2(n \div 16) \in Nat
    BY <2>1, LogsAreNumbers
  <2>5. Log4(n) = 4 + Log2(n \div 16)
    BY <1>4 DEF Log4
  <2> QED BY <1>4, <2>3, <2>4, <2>5
<1> QED BY <1>2, <1>3, <1>4

LEMMA Log8Is ==
  ASSUME NEW n \in Nat, n < 65536, NEW j \in Nat, Below(j, n)
  PROVE  j <= Log8(n)
<1>1. PowerOfTwo[j] \in Nat /\ (j >= 8 => PowerOfTwo[j] = 256 * PowerOfTwo[j - 8])
  BY PowerOfTwoFacts, PowerShifts
<1>2. CASE n < 256
  <2>1. j <= Log4(n)
    BY <1>2, Log4Is
  <2> QED BY <1>2, <2>1 DEF Log8
<1>3. CASE n >= 256 /\ j < 8
  <2>1. n \div 256 \in Nat
    OBVIOUS
  <2>2. Log4(n \div 256) \in Nat
    BY <2>1, LogsAreNumbers
  <2>3. Log8(n) = 8 + Log4(n \div 256)
    BY <1>3 DEF Log8
  <2> QED BY <1>3, <2>2, <2>3
<1>4. CASE n >= 256 /\ j >= 8
  <2>1. j - 8 \in Nat /\ n \div 256 \in Nat /\ n \div 256 < 256 /\ PowerOfTwo[j - 8] \in Nat
    BY <1>4, PowerOfTwoFacts
  <2>2. PowerOfTwo[j - 8] <= n \div 256
    BY <1>1, <1>4, <2>1 DEF Below
  <2>3. j - 8 <= Log4(n \div 256)
    BY <2>1, <2>2, Log4Is DEF Below
  <2>4. Log4(n \div 256) \in Nat
    BY <2>1, LogsAreNumbers
  <2>5. Log8(n) = 8 + Log4(n \div 256)
    BY <1>4 DEF Log8
  <2> QED BY <1>4, <2>3, <2>4, <2>5
<1> QED BY <1>2, <1>3, <1>4

LEMMA Log16Is ==
  ASSUME NEW n \in Nat, n < 4294967296, NEW j \in Nat, Below(j, n)
  PROVE  j <= Log16(n)
<1>1. PowerOfTwo[j] \in Nat /\ (j >= 16 => PowerOfTwo[j] = 65536 * PowerOfTwo[j - 16])
  BY PowerOfTwoFacts, PowerShifts
<1>2. CASE n < 65536
  <2>1. j <= Log8(n)
    BY <1>2, Log8Is
  <2> QED BY <1>2, <2>1 DEF Log16
<1>3. CASE n >= 65536 /\ j < 16
  <2>1. n \div 65536 \in Nat
    OBVIOUS
  <2>2. Log8(n \div 65536) \in Nat
    BY <2>1, LogsAreNumbers
  <2>3. Log16(n) = 16 + Log8(n \div 65536)
    BY <1>3 DEF Log16
  <2> QED BY <1>3, <2>2, <2>3
<1>4. CASE n >= 65536 /\ j >= 16
  <2>1. j - 16 \in Nat /\ n \div 65536 \in Nat /\ n \div 65536 < 65536 /\ PowerOfTwo[j - 16] \in Nat
    BY <1>4, PowerOfTwoFacts
  <2>2. PowerOfTwo[j - 16] <= n \div 65536
    BY <1>1, <1>4, <2>1 DEF Below
  <2>3. j - 16 <= Log8(n \div 65536)
    BY <2>1, <2>2, Log8Is DEF Below
  <2>4. Log8(n \div 65536) \in Nat
    BY <2>1, LogsAreNumbers
  <2>5. Log16(n) = 16 + Log8(n \div 65536)
    BY <1>4 DEF Log16
  <2> QED BY <1>4, <2>3, <2>4, <2>5
<1> QED BY <1>2, <1>3, <1>4

LEMMA LastLog1 ==
  ASSUME NEW x \in Nat, NEW n \in Nat
  PROVE  halve([rv |-> x, n |-> n], 1, 2).rv = x + Log1(n)
  BY DEF halve, Log1

LEMMA LastLog2 ==
  ASSUME NEW x \in Nat, NEW n \in Nat
  PROVE  halve(halve([rv |-> x, n |-> n], 2, 4), 1, 2).rv = x + Log2(n)
<1>1. CASE n >= 4
  <2>1. x + 2 \in Nat /\ n \div 4 \in Nat
    OBVIOUS
  <2>2. halve([rv |-> x, n |-> n], 2, 4) = [rv |-> x + 2, n |-> n \div 4]
    BY <1>1 DEF halve
  <2>3. halve([rv |-> x + 2, n |-> n \div 4], 1, 2).rv = (x + 2) + Log1(n \div 4)
    BY <2>1, LastLog1
  <2>4. Log2(n) = 2 + Log1(n \div 4) /\ Log1(n \div 4) \in Nat
    BY <1>1, <2>1, LogsAreNumbers DEF Log2
  <2> QED BY <2>2, <2>3, <2>4
<1>2. CASE ~(n >= 4)
  <2>2. halve([rv |-> x, n |-> n], 2, 4) = [rv |-> x, n |-> n]
    BY <1>2 DEF halve
  <2>3. halve([rv |-> x, n |-> n], 1, 2).rv = x + Log1(n)
    BY LastLog1
  <2>4. Log2(n) = Log1(n)
    BY <1>2 DEF Log2
  <2> QED BY <2>2, <2>3, <2>4
<1> QED BY <1>1, <1>2

LEMMA LastLog4 ==
  ASSUME NEW x \in Nat, NEW n \in Nat
  PROVE  halve(halve(halve([rv |-> x, n |-> n], 4, 16), 2, 4), 1, 2).rv = x + Log4(n)
<1>1. CASE n >= 16
  <2>1. x + 4 \in Nat /\ n \div 16 \in Nat
    OBVIOUS
  <2>2. halve([rv |-> x, n |-> n], 4, 16) = [rv |-> x + 4, n |-> n \div 16]
    BY <1>1 DEF halve
  <2>3. halve(halve([rv |-> x + 4, n |-> n \div 16], 2, 4), 1, 2).rv = (x + 4) + Log2(n \div 16)
    BY <2>1, LastLog2
  <2>4. Log4(n) = 4 + Log2(n \div 16) /\ Log2(n \div 16) \in Nat
    BY <1>1, <2>1, LogsAreNumbers DEF Log4
  <2> QED BY <2>2, <2>3, <2>4
<1>2. CASE ~(n >= 16)
  <2>2. halve([rv |-> x, n |-> n], 4, 16) = [rv |-> x, n |-> n]
    BY <1>2 DEF halve
  <2>3. halve(halve([rv |-> x, n |-> n], 2, 4), 1, 2).rv = x + Log2(n)
    BY LastLog2
  <2>4. Log4(n) = Log2(n)
    BY <1>2 DEF Log4
  <2> QED BY <2>2, <2>3, <2>4
<1> QED BY <1>1, <1>2

LEMMA LastLog8 ==
  ASSUME NEW x \in Nat, NEW n \in Nat
  PROVE  halve(halve(halve(halve([rv |-> x, n |-> n], 8, 256), 4, 16), 2, 4), 1, 2).rv = x + Log8(n)
<1>1. CASE n >= 256
  <2>1. x + 8 \in Nat /\ n \div 256 \in Nat
    OBVIOUS
  <2>2. halve([rv |-> x, n |-> n], 8, 256) = [rv |-> x + 8, n |-> n \div 256]
    BY <1>1 DEF halve
  <2>3. halve(halve(halve([rv |-> x + 8, n |-> n \div 256], 4, 16), 2, 4), 1, 2).rv = (x + 8) + Log4(n \div 256)
    BY <2>1, LastLog4
  <2>4. Log8(n) = 8 + Log4(n \div 256) /\ Log4(n \div 256) \in Nat
    BY <1>1, <2>1, LogsAreNumbers DEF Log8
  <2> QED BY <2>2, <2>3, <2>4
<1>2. CASE ~(n >= 256)
  <2>2. halve([rv |-> x, n |-> n], 8, 256) = [rv |-> x, n |-> n]
    BY <1>2 DEF halve
  <2>3. halve(halve(halve([rv |-> x, n |-> n], 4, 16), 2, 4), 1, 2).rv = x + Log4(n)
    BY LastLog4
  <2>4. Log8(n) = Log4(n)
    BY <1>2 DEF Log8
  <2> QED BY <2>2, <2>3, <2>4
<1> QED BY <1>1, <1>2

LEMMA LastLog16 ==
  ASSUME NEW x \in Nat, NEW n \in Nat
  PROVE  halve(halve(halve(halve(halve([rv |-> x, n |-> n], 16, 65536), 8, 256), 4, 16), 2, 4), 1, 2).rv = x + Log16(n)
<1>1. CASE n >= 65536
  <2>1. x + 16 \in Nat /\ n \div 65536 \in Nat
    OBVIOUS
  <2>2. halve([rv |-> x, n |-> n], 16, 65536) = [rv |-> x + 16, n |-> n \div 65536]
    BY <1>1 DEF halve
  <2>3. halve(halve(halve(halve([rv |-> x + 16, n |-> n \div 65536], 8, 256), 4, 16), 2, 4), 1, 2).rv = (x + 16) + Log8(n \div 65536)
    BY <2>1, LastLog8
  <2>4. Log16(n) = 16 + Log8(n \div 65536) /\ Log8(n \div 65536) \in Nat
    BY <1>1, <2>1, LogsAreNumbers DEF Log16
  <2> QED BY <2>2, <2>3, <2>4
<1>2. CASE ~(n >= 65536)
  <2>2. halve([rv |-> x, n |-> n], 16, 65536) = [rv |-> x, n |-> n]
    BY <1>2 DEF halve
  <2>3. halve(halve(halve(halve([rv |-> x, n |-> n], 8, 256), 4, 16), 2, 4), 1, 2).rv = x + Log8(n)
    BY LastLog8
  <2>4. Log16(n) = Log8(n)
    BY <1>2 DEF Log16
  <2> QED BY <2>2, <2>3, <2>4
<1> QED BY <1>1, <1>2

(* fastLog2Floor is at least the logarithm, for every 32 bit number.       *)
LEMMA LogIsEnough ==
  ASSUME NEW n \in Nat, n < 4294967296
  PROVE  /\ fastLog2Floor(n) \in Nat
         /\ \A j \in Nat : PowerOfTwo[j] <= n => j <= fastLog2Floor(n)
<1>1. fastLog2Floor(n) = 0 + Log16(n)
  BY LastLog16 DEF fastLog2Floor
<1>2. Log16(n) \in Nat
  BY LogsAreNumbers
<1>3. \A j \in Nat : PowerOfTwo[j] <= n => j <= Log16(n)
  BY Log16Is DEF Below
<1> QED BY <1>1, <1>2, <1>3

-----------------------------------------------------------------------------
(* Nodes at a height.                                                      *)

LEMMA LeastOf ==
  ASSUME NEW S \in SUBSET Nat, S # {}
  PROVE  Min(S) \in S /\ \A k \in S : Min(S) <= k
<1>1. \E n \in S : \A k \in S : n <= k
  BY LeastNumber
<1> QED BY <1>1 DEF Min

LEMMA OfTwo ==
  ASSUME NEW a \in Int, NEW b \in Int
  PROVE  /\ Min({a, b}) = IF a <= b THEN a ELSE b
         /\ Max({a, b}) = IF a <= b THEN b ELSE a
<1>1. \A x \in {a, b} : (\A y \in {a, b} : x <= y) <=> x = IF a <= b THEN a ELSE b
  OBVIOUS
<1>2. \A x \in {a, b} : (\A y \in {a, b} : x >= y) <=> x = IF a <= b THEN b ELSE a
  OBVIOUS
<1>3. (IF a <= b THEN a ELSE b) \in {a, b} /\ (IF a <= b THEN b ELSE a) \in {a, b}
  OBVIOUS
<1>4. Min({a, b}) \in {a, b} /\ \A y \in {a, b} : Min({a, b}) <= y
  <2>1. \E x \in {a, b} : \A y \in {a, b} : x <= y
    BY <1>1, <1>3
  <2> QED BY <2>1 DEF Min
<1>5. Max({a, b}) \in {a, b} /\ \A y \in {a, b} : Max({a, b}) >= y
  <2>1. \E x \in {a, b} : \A y \in {a, b} : x >= y
    BY <1>2, <1>3
  <2> QED BY <2>1 DEF Max
<1> QED BY <1>1, <1>2, <1>4, <1>5

LEMMA NodeOf ==
  ASSUME NEW c, NEW chain \in Chains, Shows(c, chain), NEW h \in 0 .. Len(chain) - 1
  PROVE  NodeByHeight(c, h) = SubSeq(chain, 1, h + 1)
<1>1. c.len = Len(chain) /\ Len(chain) \in Nat \ {0} /\ h + 1 \in 1 .. c.len /\ h \in 0 .. c.len - 1
  BY ChainFacts DEF Shows
<1> QED BY <1>1 DEF NodeByHeight, Shows

(* Whether the lookup goes through the array or through the parents of the *)
(* node, it finds the same ancestor: in the array the node stands above    *)
(* its own ancestors.                                                      *)
LEMMA LookupIs ==
  ASSUME NEW c, NEW chain \in Chains, Shows(c, chain),
         NEW e \in Chains, NEW m \in 1 .. Len(e), NEW h \in 0 .. m - 1
  PROVE  (IF InView(c, SubSeq(e, 1, m)) THEN NodeByHeight(c, h) ELSE Ancestor(SubSeq(e, 1, m), h))
           = SubSeq(e, 1, h + 1)
<1> DEFINE x == SubSeq(e, 1, m)
<1>0. e \in Seq(Headers) /\ Len(e) \in Nat \ {0} /\ Len(chain) \in Nat \ {0} /\ chain \in Seq(Headers)
  BY ChainFacts
<1>1. x \in Chains /\ Len(x) = m /\ \A j \in 1 .. m : SubSeq(x, 1, j) = SubSeq(e, 1, j)
  BY <1>0, PrefixFacts
<1>2. h + 1 \in 1 .. m
  BY <1>0
<1>3. Ancestor(x, h) = SubSeq(e, 1, h + 1)
  <2>1. ~(h < 0 \/ h > Height(x))
    BY <1>0, <1>1 DEF Height
  <2>2. Ancestor(x, h) = SubSeq(x, 1, h + 1)
    BY <2>1 DEF Ancestor
  <2> QED BY <1>1, <1>2, <2>2
<1>4. ASSUME InView(c, x) PROVE NodeByHeight(c, h) = SubSeq(e, 1, h + 1)
  <2>1. m <= Len(chain) /\ x = SubSeq(chain, 1, m)
    <3> HIDE DEF x
    <3>1. x \in Chains /\ Shows(c, chain) /\ InView(c, x)
      BY <1>1, <1>4
    <3>2. Len(x) <= Len(chain) /\ x = SubSeq(chain, 1, Len(x))
      BY <3>1, InViewIs
    <3> QED BY <1>1, <3>2
  <2>2. h \in 0 .. Len(chain) - 1 /\ m \in 1 .. Len(chain)
    BY <1>0, <2>1
  <2>3. NodeByHeight(c, h) = SubSeq(chain, 1, h + 1)
    BY <2>2, NodeOf
  <2>4. SubSeq(SubSeq(chain, 1, m), 1, h + 1) = SubSeq(chain, 1, h + 1)
    BY <1>0, <1>2, <2>2, PrefixFacts
  <2> QED BY <1>1, <1>2, <2>1, <2>3, <2>4
<1> QED BY <1>3, <1>4

-----------------------------------------------------------------------------
(* Ranges of hashes.                                                       *)

IsBack(g, e, n) == g = [d \in 0 .. n - 1 |-> IF d = 0 THEN e ELSE RelativeAncestor(g[d - 1], 1)]

LEMMA ParentIs ==
  ASSUME NEW e \in Chains, NEW m \in 2 .. Len(e)
  PROVE  RelativeAncestor(SubSeq(e, 1, m), 1) = SubSeq(e, 1, m - 1)
<1>0. e \in Seq(Headers) /\ Len(e) \in Nat \ {0} /\ m \in 1 .. Len(e) /\ m - 1 \in 1 .. m
  BY ChainFacts
<1>1. Len(SubSeq(e, 1, m)) = m /\ SubSeq(SubSeq(e, 1, m), 1, m - 1) = SubSeq(e, 1, m - 1)
  BY <1>0, PrefixFacts
<1>2. (m - 1) - 1 >= 0 /\ ~((m - 1) - 1 < 0 \/ (m - 1) - 1 > m - 1) /\ ((m - 1) - 1) + 1 = m - 1
  BY <1>0
<1> QED BY <1>1, <1>2 DEF RelativeAncestor, Ancestor, Height

LEMMA BackIs ==
  ASSUME NEW e \in Chains, NEW n \in 1 .. Len(e), NEW g, g = CHOOSE f : IsBack(f, e, n)
  PROVE  \A d \in 0 .. n - 1 : g[d] = SubSeq(e, 1, Len(e) - d)
<1> DEFINE h == [d \in 0 .. n - 1 |-> SubSeq(e, 1, Len(e) - d)]
<1>0. e \in Seq(Headers) /\ Len(e) \in Nat \ {0} /\ SubSeq(e, 1, Len(e)) = e /\ n \in Nat
  BY ChainFacts
<1>1. \A d \in 0 .. n - 1 : d # 0 =>
        RelativeAncestor(SubSeq(e, 1, Len(e) - (d - 1)), 1) = SubSeq(e, 1, Len(e) - d)
  <2> SUFFICES ASSUME NEW d \in 0 .. n - 1, d # 0
               PROVE  RelativeAncestor(SubSeq(e, 1, Len(e) - (d - 1)), 1) = SubSeq(e, 1, Len(e) - d)
    OBVIOUS
  <2>1. Len(e) - (d - 1) \in 2 .. Len(e) /\ (Len(e) - (d - 1)) - 1 = Len(e) - d
    BY <1>0
  <2> QED BY <2>1, ParentIs
<1>2. IsBack(h, e, n)
  <2>1. \A d \in 0 .. n - 1 : h[d] = IF d = 0 THEN e ELSE RelativeAncestor(h[d - 1], 1)
    <3> SUFFICES ASSUME NEW d \in 0 .. n - 1
                 PROVE  h[d] = IF d = 0 THEN e ELSE RelativeAncestor(h[d - 1], 1)
      OBVIOUS
    <3>1. CASE d = 0
      BY <1>0, <3>1
    <3>2. CASE d # 0
      <4>1. d - 1 \in 0 .. n - 1
        BY <1>0, <3>2
      <4>2. h[d] = SubSeq(e, 1, Len(e) - d) /\ h[d - 1] = SubSeq(e, 1, Len(e) - (d - 1))
        BY <4>1
      <4> HIDE DEF h
      <4> QED BY <1>1, <3>2, <4>2
    <3> QED BY <3>1, <3>2
  <2>2. h = [d \in 0 .. n - 1 |-> h[d]]
    OBVIOUS
  <2> HIDE DEF h
  <2> QED BY <2>1, <2>2 DEF IsBack
<1>3. IsBack(g, e, n)
  BY <1>2
<1>4. \A d \in 0 .. n - 1 : g[d] = IF d = 0 THEN e ELSE RelativeAncestor(g[d - 1], 1)
  BY <1>3 DEF IsBack
<1> DEFINE Bad == {d \in Nat : d \in 0 .. n - 1 /\ g[d] # SubSeq(e, 1, Len(e) - d)}
<1>5. Bad = {}
  <2> SUFFICES ASSUME Bad # {} PROVE FALSE
    OBVIOUS
  <2>1. PICK d \in Bad : \A j \in Bad : d <= j
    BY LeastNumber
  <2>2. d # 0
    BY <1>0, <1>4, <2>1
  <2>5. d \in Nat /\ d \in 0 .. n - 1 /\ g[d] # SubSeq(e, 1, Len(e) - d)
    BY <2>1
  <2> HIDE DEF Bad
  <2>3. d - 1 \in 0 .. n - 1 /\ d - 1 \in Nat /\ d - 1 \notin Bad
    BY <1>0, <2>1, <2>2, <2>5
  <2>4. g[d - 1] = SubSeq(e, 1, Len(e) - (d - 1))
    BY <2>3 DEF Bad
  <2> QED BY <1>1, <1>4, <2>2, <2>4, <2>5
<1>6. \A d \in 0 .. n - 1 : d \in Nat
  BY <1>0
<1> QED BY <1>5, <1>6

LEMMA HashRangeIs ==
  ASSUME NEW S, NEW e \in Chains, e \in S, NEW start \in 0 .. Len(e) - 1
  PROVE  HeightToHashRange(S, S, start, e, Len(e))
           = [i \in 1 .. Len(e) - start |-> Ancestor(e, start + i - 1)]
<1> DEFINE n == Height(e) - start + 1
           g == CHOOSE f : IsBack(f, e, n)
<1>0. Len(e) \in Nat \ {0}
  BY ChainFacts
<1>1. n = Len(e) - start /\ n \in 1 .. Len(e)
  BY <1>0 DEF Height
<1>2. HeightToHashRange(S, S, start, e, Len(e)) = [i \in 1 .. n |-> g[n - i]]
  <2>1. ~(e \notin S \/ e \notin S \/ start < 0 \/ n < 1 \/ n > Len(e))
    BY <1>0, <1>1
  <2> QED BY <2>1 DEF HeightToHashRange, IsBack
<1> HIDE DEF n, g
<1>3. \A d \in 0 .. n - 1 : g[d] = SubSeq(e, 1, Len(e) - d)
  BY <1>1, BackIs DEF g
<1>4. \A i \in 1 .. n : g[n - i] = Ancestor(e, start + i - 1)
  <2> SUFFICES ASSUME NEW i \in 1 .. n PROVE g[n - i] = Ancestor(e, start + i - 1)
    OBVIOUS
  <2>1. n - i \in 0 .. n - 1 /\ Len(e) - (n - i) = start + i /\ (start + i - 1) + 1 = start + i
    BY <1>0, <1>1
  <2>2. ~(start + i - 1 < 0 \/ start + i - 1 > Height(e))
    BY <1>0, <1>1 DEF Height
  <2>3. Ancestor(e, start + i - 1) = SubSeq(e, 1, (start + i - 1) + 1)
    BY <2>2 DEF Ancestor
  <2> QED BY <1>3, <2>1, <2>3
<1> QED BY <1>1, <1>2, <1>4

SkipTo(c, x, height) == IF InView(c, x) THEN NodeByHeight(c, height) ELSE Ancestor(x, height)

IsSkip(g, c, e, n, k) ==
  g = [d \in 0 .. n |-> IF d = 0 THEN e ELSE SkipTo(c, g[d - 1], (n - d + 1) * k)]

(* The length of the prefix that the walk of IntervalBlockHashes is at.    *)
SkipLen(e, n, k, d) == IF d = 0 THEN Len(e) ELSE (n - d + 1) * k + 1

LEMMA SkipLens ==
  ASSUME NEW e \in Chains, NEW k \in {1, 3}, NEW n, n = Height(e) \div k
  PROVE  /\ n \in Nat
         /\ \A d \in 0 .. n : SkipLen(e, n, k, d) \in 1 .. Len(e)
         /\ \A d \in 1 .. n : (n - d + 1) * k \in 0 .. SkipLen(e, n, k, d - 1) - 1
<1>0. Len(e) \in Nat \ {0} /\ Height(e) = Len(e) - 1
  BY ChainFacts DEF Height
<1>1. CASE k = 1
  <2>1. n = Len(e) - 1
    BY <1>0, <1>1
  <2> QED BY <1>0, <1>1, <2>1 DEF SkipLen
<1>2. CASE k = 3
  <2>1. n \in Nat /\ 3 * n <= Len(e) - 1
    BY <1>0, <1>2
  <2> HIDE DEF Height
  <2> QED BY <1>0, <1>2, <2>1 DEF SkipLen
<1> QED BY <1>1, <1>2

LEMMA SkipIs ==
  ASSUME NEW c, NEW chain \in Chains, Shows(c, chain), NEW e \in Chains, NEW k \in {1, 3},
         NEW n, n = Height(e) \div k, NEW g, g = CHOOSE f : IsSkip(f, c, e, n, k)
  PROVE  \A d \in 0 .. n : g[d] = SubSeq(e, 1, SkipLen(e, n, k, d))
<1> DEFINE h == [d \in 0 .. n |-> SubSeq(e, 1, SkipLen(e, n, k, d))]
<1>0. SubSeq(e, 1, Len(e)) = e /\ n \in Nat
  BY ChainFacts, SkipLens
<1>1. \A d \in 0 .. n : d # 0 =>
        SkipTo(c, SubSeq(e, 1, SkipLen(e, n, k, d - 1)), (n - d + 1) * k) = SubSeq(e, 1, SkipLen(e, n, k, d))
  <2> SUFFICES ASSUME NEW d \in 0 .. n, d # 0
               PROVE  SkipTo(c, SubSeq(e, 1, SkipLen(e, n, k, d - 1)), (n - d + 1) * k)
                        = SubSeq(e, 1, SkipLen(e, n, k, d))
    OBVIOUS
  <2> DEFINE m == SkipLen(e, n, k, d - 1)
             height == (n - d + 1) * k
  <2>1. d \in 1 .. n /\ d - 1 \in 0 .. n
    BY <1>0
  <2>2. m \in 1 .. Len(e) /\ height \in 0 .. m - 1
    BY <2>1, SkipLens
  <2>3. SkipLen(e, n, k, d) = height + 1
    BY DEF SkipLen
  <2> HIDE DEF m, height
  <2>4. SkipTo(c, SubSeq(e, 1, m), height) = SubSeq(e, 1, height + 1)
    BY <2>2, LookupIs DEF SkipTo
  <2> QED BY <2>3, <2>4 DEF m, height
<1>2. IsSkip(h, c, e, n, k)
  <2>1. \A d \in 0 .. n : h[d] = IF d = 0 THEN e ELSE SkipTo(c, h[d - 1], (n - d + 1) * k)
    <3> SUFFICES ASSUME NEW d \in 0 .. n
                 PROVE  h[d] = IF d = 0 THEN e ELSE SkipTo(c, h[d - 1], (n - d + 1) * k)
      OBVIOUS
    <3>1. CASE d = 0
      <4>1. SkipLen(e, n, k, 0) = Len(e) /\ h[d] = SubSeq(e, 1, SkipLen(e, n, k, 0))
        BY <3>1 DEF SkipLen
      <4> QED BY <1>0, <3>1, <4>1
    <3>2. CASE d # 0
      <4>1. d - 1 \in 0 .. n
        BY <1>0, <3>2
      <4>2. h[d] = SubSeq(e, 1, SkipLen(e, n, k, d)) /\ h[d - 1] = SubSeq(e, 1, SkipLen(e, n, k, d - 1))
        BY <4>1
      <4> HIDE DEF h
      <4> QED BY <1>1, <3>2, <4>2
    <3> QED BY <3>1, <3>2
  <2>2. h = [d \in 0 .. n |-> h[d]]
    OBVIOUS
  <2> HIDE DEF h
  <2> QED BY <2>1, <2>2 DEF IsSkip
<1>3. IsSkip(g, c, e, n, k)
  BY <1>2
<1>4. \A d \in 0 .. n : g[d] = IF d = 0 THEN e ELSE SkipTo(c, g[d - 1], (n - d + 1) * k)
  BY <1>3 DEF IsSkip
<1> DEFINE Bad == {d \in Nat : d \in 0 .. n /\ g[d] # SubSeq(e, 1, SkipLen(e, n, k, d))}
<1>5. Bad = {}
  <2> SUFFICES ASSUME Bad # {} PROVE FALSE
    OBVIOUS
  <2>1. PICK d \in Bad : \A j \in Bad : d <= j
    BY LeastNumber
  <2>5. d \in Nat /\ d \in 0 .. n /\ g[d] # SubSeq(e, 1, SkipLen(e, n, k, d))
    BY <2>1
  <2>2. d # 0
    <3> SUFFICES ASSUME d = 0 PROVE FALSE
      OBVIOUS
    <3>1. g[d] = e /\ SkipLen(e, n, k, d) = Len(e)
      BY <1>4, <2>5 DEF SkipLen
    <3> QED BY <1>0, <2>5, <3>1
  <2> HIDE DEF Bad
  <2>3. d - 1 \in 0 .. n /\ d - 1 \in Nat /\ d - 1 \notin Bad
    BY <1>0, <2>1, <2>2, <2>5
  <2>4. g[d - 1] = SubSeq(e, 1, SkipLen(e, n, k, d - 1))
    BY <2>3 DEF Bad
  <2> QED BY <1>1, <1>4, <2>2, <2>4, <2>5
<1>6. \A d \in 0 .. n : d \in Nat
  BY <1>0
<1> QED BY <1>5, <1>6

IsInterval(h, e, k) == h = [i \in 1 .. Height(e) \div k |-> Ancestor(e, i * k)]

LEMMA IntervalIs ==
  ASSUME NEW c, NEW chain \in Chains, Shows(c, chain), NEW S, NEW e \in Chains, e \in S, NEW k \in {1, 3}
  PROVE  IsInterval(IntervalBlockHashes(c, S, S, e, k), e, k)
<1> DEFINE n == Height(e) \div k
           g == CHOOSE f : IsSkip(f, c, e, n, k)
<1>1. IntervalBlockHashes(c, S, S, e, k) = [i \in 1 .. n |-> g[n - i + 1]]
  BY DEF IntervalBlockHashes, IsSkip, SkipTo
<1>2. /\ \A d \in 0 .. n : g[d] = SubSeq(e, 1, SkipLen(e, n, k, d))
      /\ n \in Nat /\ \A d \in 0 .. n : SkipLen(e, n, k, d) \in 1 .. Len(e)
  <2>1. n = Height(e) \div k /\ g = CHOOSE f : IsSkip(f, c, e, n, k)
    OBVIOUS
  <2> HIDE DEF n, g
  <2>2. \A d \in 0 .. n : g[d] = SubSeq(e, 1, SkipLen(e, n, k, d))
    BY <2>1, SkipIs
  <2>3. n \in Nat /\ \A d \in 0 .. n : SkipLen(e, n, k, d) \in 1 .. Len(e)
    BY <2>1, SkipLens
  <2> QED BY <2>2, <2>3
<1> HIDE DEF n, g
<1>3. \A i \in 1 .. n : g[n - i + 1] = Ancestor(e, i * k)
  <2> SUFFICES ASSUME NEW i \in 1 .. n PROVE g[n - i + 1] = Ancestor(e, i * k)
    OBVIOUS
  <2>1. n - i + 1 \in 0 .. n /\ n - i + 1 # 0 /\ n - (n - i + 1) + 1 = i
    BY <1>2
  <2>2. SkipLen(e, n, k, n - i + 1) = i * k + 1 /\ SkipLen(e, n, k, n - i + 1) \in 1 .. Len(e)
    BY <1>2, <2>1 DEF SkipLen
  <2>3. i * k \in Nat /\ Len(e) \in Nat
    BY <1>2, ChainFacts
  <2>4. ~(i * k < 0 \/ i * k > Height(e))
    BY <2>2, <2>3 DEF Height
  <2>5. Ancestor(e, i * k) = SubSeq(e, 1, i * k + 1)
    BY <2>4 DEF Ancestor
  <2> QED BY <1>2, <2>1, <2>2, <2>5
<1> QED BY <1>1, <1>3 DEF n, IsInterval

LEMMA TipIs ==
  ASSUME NEW c, NEW chain \in Chains, Shows(c, chain)
  PROVE  Tip(c) = chain /\ Height(Tip(c)) = Len(chain) - 1
<1>1. c.len = Len(chain) /\ Len(chain) \in Nat \ {0} /\ SubSeq(chain, 1, Len(chain)) = chain
  BY ChainFacts DEF Shows
<1>2. c.nodes[Len(chain)] = SubSeq(chain, 1, Len(chain))
  BY <1>1 DEF Shows
<1> QED BY <1>1, <1>2 DEF Tip, Height

LEMMA HeightRangeIs ==
  ASSUME NEW c, NEW chain \in Chains, Shows(c, chain), NEW n \in Chains, InView(c, n)
  PROVE  HeightRange(c, 1, Len(n)) = [i \in 1 .. Len(n) - 1 |-> Ancestor(n, 1 + i - 1)]
<1>1. /\ Len(n) \in Nat \ {0} /\ Len(chain) \in Nat \ {0} /\ Len(n) <= Len(chain) /\ n = SubSeq(chain, 1, Len(n))
      /\ chain \in Seq(Headers)
  BY InViewIs, ChainFacts
<1>2. Height(Tip(c)) = Len(chain) - 1
  BY TipIs
<1>3. CASE Len(n) = 1
  <2>1. HeightRange(c, 1, Len(n)) = <<>>
    BY <1>3 DEF HeightRange, nil
  <2> DEFINE none == [i \in 1 .. Len(n) - 1 |-> Ancestor(n, 1 + i - 1)]
  <2>2. DOMAIN none = 1 .. 0 /\ none \in [1 .. 0 -> Chains]
    BY <1>3
  <2> HIDE DEF none
  <2>3. none \in Seq(Chains) /\ Len(none) = 0
    BY <2>2, SeqDef, LenProperties
  <2>4. none = <<>>
    BY <2>3
  <2> QED BY <2>1, <2>4 DEF none
<1>4. CASE Len(n) # 1
  <2>1. ~(1 < 0 \/ Len(n) <= 1 \/ 1 > Len(chain) - 1) /\ (Len(chain) - 1) + 1 = Len(chain)
    BY <1>1, <1>4
  <2>2. Min({Len(n), Len(chain)}) = Len(n)
    BY <1>1, OfTwo
  <2>3. HeightRange(c, 1, Len(n)) = [i \in 1 .. Len(n) - 1 |-> NodeByHeight(c, 1 + i - 1)]
    BY <1>2, <2>1, <2>2 DEF HeightRange
  <2>4. \A i \in 1 .. Len(n) - 1 : NodeByHeight(c, 1 + i - 1) = Ancestor(n, 1 + i - 1)
    <3> SUFFICES ASSUME NEW i \in 1 .. Len(n) - 1 PROVE NodeByHeight(c, i) = Ancestor(n, i)
      BY <1>1
    <3>1. i \in 0 .. Len(chain) - 1 /\ i + 1 \in 1 .. Len(n) /\ Len(n) \in 1 .. Len(chain)
      BY <1>1
    <3>2. NodeByHeight(c, i) = SubSeq(chain, 1, i + 1)
      BY <3>1, NodeOf
    <3>3. SubSeq(SubSeq(chain, 1, Len(n)), 1, i + 1) = SubSeq(chain, 1, i + 1)
      BY <1>1, <3>1, PrefixFacts
    <3>4. ~(i < 0 \/ i > Height(n))
      BY <1>1, <3>1 DEF Height
    <3>5. Ancestor(n, i) = SubSeq(n, 1, i + 1)
      BY <3>4 DEF Ancestor
    <3> QED BY <1>1, <3>2, <3>3, <3>5
  <2> QED BY <2>3, <2>4
<1> QED BY <1>3, <1>4

(* Ranges of hashes are those of the ancestors, for every block of the     *)
(* index.                                                                  *)
LEMMA RangesAgree ==
  ASSUME IInv
  PROVE  RangesMeet
<1> SUFFICES ASSUME NEW n \in index
             PROVE  /\ \A k \in {1, 3} : IntervalBlockHashes(view, index, index, n, k)
                                          = [i \in 1 .. Height(n) \div k |-> Ancestor(n, i * k)]
                    /\ \A start \in {0, Height(n)} :
                         HeightToHashRange(index, index, start, n, Len(n))
                           = [i \in 1 .. Len(n) - start |-> Ancestor(n, start + i - 1)]
                    /\ InView(view, n) =>
                         HeightRange(view, 1, Len(n)) = [i \in 1 .. Len(n) - 1 |-> Ancestor(n, 1 + i - 1)]
  BY DEF RangesMeet
<1>1. n \in Chains /\ best \in Chains /\ Shows(view, best)
  BY DEF IInv, IndexInv, ViewShowsBest
<1>2. Len(n) \in Nat \ {0}
  BY <1>1, ChainFacts
<1>3. \A start \in {0, Height(n)} : start \in 0 .. Len(n) - 1
  BY <1>2 DEF Height
<1>4. \A k \in {1, 3} : IntervalBlockHashes(view, index, index, n, k)
                          = [i \in 1 .. Height(n) \div k |-> Ancestor(n, i * k)]
  <2> SUFFICES ASSUME NEW k \in {1, 3}
               PROVE  IntervalBlockHashes(view, index, index, n, k)
                        = [i \in 1 .. Height(n) \div k |-> Ancestor(n, i * k)]
    OBVIOUS
  <2>1. IsInterval(IntervalBlockHashes(view, index, index, n, k), n, k)
    BY <1>1, IntervalIs
  <2> QED BY <2>1 DEF IsInterval
<1>5. \A start \in {0, Height(n)} :
        HeightToHashRange(index, index, start, n, Len(n))
          = [i \in 1 .. Len(n) - start |-> Ancestor(n, start + i - 1)]
  BY <1>1, <1>3, HashRangeIs
<1>6. InView(view, n) =>
        HeightRange(view, 1, Len(n)) = [i \in 1 .. Len(n) - 1 |-> Ancestor(n, 1 + i - 1)]
  BY <1>1, HeightRangeIs
<1> QED BY <1>4, <1>5, <1>6

-----------------------------------------------------------------------------
(* The walk of blockLocator.                                               *)

Entry(c, b, k) ==
  LET height == Max({0, Height(b.node) - b.step})
      below == IF InView(c, b.node) THEN NodeByHeight(c, height) ELSE Ancestor(b.node, height)
  IN  IF b.node = nil THEN b
      ELSE [locator |-> Append(b.locator, b.node),
            node |-> IF Height(b.node) = 0 THEN nil ELSE below,
            step |-> IF k > denseEntries THEN b.step * 2 ELSE b.step]

IsWalk(g, c, r, n) ==
  g = [k \in 0 .. n |-> IF k = 0 THEN [locator |-> <<>>, node |-> r, step |-> 1] ELSE Entry(c, g[k - 1], k)]

LEMMA WalkExists ==
  ASSUME NEW c, NEW r, NEW n \in Nat
  PROVE  \E g : IsWalk(g, c, r, n)
<1> DEFINE first == [locator |-> <<>>, node |-> r, step |-> 1]
           Bad == {m \in Nat : ~\E g : IsWalk(g, c, r, m)}
<1>1. SUFFICES ASSUME Bad # {} PROVE FALSE
  OBVIOUS
<1>2. PICK m \in Bad : \A k \in Bad : m <= k
  BY <1>1, LeastNumber
<1> HIDE DEF first
<1>3. CASE m = 0
  <2> DEFINE g == [i \in 0 .. 0 |-> first]
  <2>1. \A i \in 0 .. 0 : i = 0
    OBVIOUS
  <2>2. g = [i \in 0 .. 0 |-> IF i = 0 THEN first ELSE Entry(c, g[i - 1], i)]
    BY <2>1
  <2>3. IsWalk(g, c, r, 0)
    BY <2>2 DEF IsWalk, first
  <2> QED BY <1>3, <2>3
<1>4. CASE m # 0
  <2>1. m - 1 \in Nat /\ ~(m - 1 \in Bad)
    BY <1>2, <1>4
  <2>2. PICK g : IsWalk(g, c, r, m - 1)
    BY <2>1
  <2> DEFINE h == [i \in 0 .. m |-> IF i = m THEN Entry(c, g[m - 1], m) ELSE g[i]]
  <2>3. \A i \in 0 .. m - 1 : g[i] = IF i = 0 THEN first ELSE Entry(c, g[i - 1], i)
    BY <2>2 DEF IsWalk, first
  <2>4. \A i \in 0 .. m - 1 : h[i] = g[i]
    BY <2>1
  <2>5. h[m] = Entry(c, g[m - 1], m)
    BY <2>1
  <2> HIDE DEF h
  <2>6. \A i \in 0 .. m : h[i] = IF i = 0 THEN first ELSE Entry(c, h[i - 1], i)
    <3> SUFFICES ASSUME NEW i \in 0 .. m PROVE h[i] = IF i = 0 THEN first ELSE Entry(c, h[i - 1], i)
      OBVIOUS
    <3>1. CASE i = m
      <4>1. h[i - 1] = g[m - 1]
        BY <2>1, <2>4, <3>1
      <4> QED BY <1>4, <2>5, <3>1, <4>1
    <3>2. CASE i = 0
      BY <1>4, <2>1, <2>3, <2>4, <3>2
    <3>3. CASE i # m /\ i # 0
      <4>1. i \in 0 .. m - 1 /\ i - 1 \in 0 .. m - 1
        BY <2>1, <3>3
      <4> QED BY <2>3, <2>4, <3>3, <4>1
    <3> QED BY <3>1, <3>2, <3>3
  <2>7. IsWalk(h, c, r, m)
    <3>1. h = [i \in 0 .. m |-> h[i]]
      BY DEF h
    <3> QED BY <2>6, <3>1 DEF IsWalk, first
  <2> QED BY <2>7
<1> QED BY <1>3, <1>4

LEMMA LocatorIs ==
  ASSUME NEW c, NEW r \in Chains
  PROVE  \E g : IsWalk(g, c, r, Len(r)) /\ blockLocator(c, r) = g[Len(r)].locator
<1> DEFINE g == CHOOSE f : IsWalk(f, c, r, Len(r))
<1>1. r # nil /\ Len(r) \in Nat
  BY ChainFacts DEF Chains
<1>2. IsWalk(g, c, r, Len(r))
  BY <1>1, WalkExists
<1>3. blockLocator(c, r) = g[Len(r)].locator
  BY <1>1 DEF blockLocator, IsWalk, Entry
<1> QED BY <1>2, <1>3

(* The length of the next entry and the step behind it.                    *)
Shorter(l, s) == IF l > s THEN l - s ELSE 1
StepAfter(s, k) == IF k > denseEntries THEN s * 2 ELSE s

\* where the walk over the ancestors of r is: the entries, the length of the
\* node to add next and the step behind it
Place(r, L, l, s) == [locator |-> L, node |-> SubSeq(r, 1, l), step |-> s]
Ended(r, L, s) == [locator |-> L, node |-> nil, step |-> s]

LEMMA EntryIs ==
  ASSUME NEW c, NEW r \in Chains, Shows(c, r), NEW l \in 1 .. Len(r), NEW s \in Nat \ {0}, NEW k, NEW L
  PROVE  /\ l = 1 => Entry(c, Place(r, L, l, s), k) = Ended(r, Append(L, SubSeq(r, 1, l)), StepAfter(s, k))
         /\ l # 1 => Entry(c, Place(r, L, l, s), k)
                       = Place(r, Append(L, SubSeq(r, 1, l)), Shorter(l, s), StepAfter(s, k))
<1> DEFINE x == SubSeq(r, 1, l)
           a == Place(r, L, l, s)
           height == Max({0, Height(x) - s})
<1>0. r \in Seq(Headers) /\ Len(r) \in Nat \ {0}
  BY ChainFacts
<1>1. x \in Chains /\ x # nil /\ Len(x) = l /\ Height(x) = l - 1
  BY <1>0, PrefixFacts DEF Chains, Height
<1>2. a.locator = L /\ a.node = x /\ a.step = s
  BY DEF Place
<1>3. height = IF 0 <= (l - 1) - s THEN (l - 1) - s ELSE 0
  <2>1. (l - 1) - s \in Int /\ 0 \in Int
    BY <1>0
  <2>2. Max({0, (l - 1) - s}) = IF 0 <= (l - 1) - s THEN (l - 1) - s ELSE 0
    BY <2>1, OfTwo
  <2> HIDE DEF x
  <2> QED BY <1>1, <2>2
<1> HIDE DEF height, x, a
<1>4. Entry(c, a, k) =
        [locator |-> Append(L, x),
         node |-> IF l - 1 = 0 THEN nil ELSE IF InView(c, x) THEN NodeByHeight(c, height) ELSE Ancestor(x, height),
         step |-> IF k > denseEntries THEN s * 2 ELSE s]
  BY <1>1, <1>2 DEF Entry, height
<1>5. height \in 0 .. l - 1 /\ height + 1 = IF l > s THEN l - s ELSE 1
  BY <1>0, <1>3
<1>6. (IF InView(c, x) THEN NodeByHeight(c, height) ELSE Ancestor(x, height)) = SubSeq(r, 1, height + 1)
  BY <1>5, LookupIs DEF x
<1>7. l - 1 = 0 <=> l = 1
  BY <1>0
<1> QED BY <1>4, <1>5, <1>6, <1>7 DEF x, a, Ended, Place, Shorter, StepAfter

-----------------------------------------------------------------------------
(* How far apart the entries are: the first denseEntries + 2 follow each   *)
(* other, and later gaps are no larger than the distance already behind.   *)

Gap(n, m, l) == l < m /\ m - l <= n - m + 1

Spaced(L, r) ==
  /\ L \in Seq(Chains)
  /\ \A j \in 1 .. Len(L) : Len(L[j]) \in 1 .. Len(r) /\ L[j] = SubSeq(r, 1, Len(L[j]))
  /\ \A j \in 1 .. Len(L) - 1 : Gap(Len(r), Len(L[j]), Len(L[j + 1]))
  /\ \A j \in 1 .. Len(L) : j <= denseEntries + 2 => Len(L[j]) = Len(r) - j + 1

(* The step at the j-th entry does not lead below the genesis block.       *)
Fits(n, j) == j <= denseEntries \/ PowerOfTwo[j - denseEntries] <= n - 1 - denseEntries

(* On a chain of n blocks, after k entries: the length of the next entry   *)
(* and the step behind it.                                                 *)
Pace(n, k, l, s) ==
  \/ k <= denseEntries /\ s = 1 /\ l = n - k
  \/ /\ k >= denseEntries /\ s = PowerOfTwo[k - denseEntries]
     /\ l = n - denseEntries - s + 1 \/ l = 1
     /\ k <= denseEntries + 1 => l = n - k

LEMMA DenseStep ==
  ASSUME NEW n \in Nat, NEW k \in Nat, NEW l \in Nat, NEW t \in Nat, l = n - k, t = l - 1
  PROVE  Gap(n, l, t) /\ t = n - (k + 1) /\ t = n - k - 2 + 1
  BY DEF Gap

Wide(n, d, l, s, u, t) == (t = n - d - u + 1 \/ t = 1) /\ Gap(n, l, t)

LEMMA WideStep ==
  ASSUME NEW n \in Nat, NEW d \in Nat, NEW l \in Nat, NEW s \in Nat, NEW u \in Nat, NEW t \in Nat,
         l = n - d - s + 1, u = 2 * s, t = l - s \/ (t = 1 /\ l <= s), t < l
  PROVE  Wide(n, d, l, s, u, t)
  BY DEF Gap, Wide

Stepped(n, k, l, s, t, u) ==
  /\ t \in Nat /\ t >= 1 /\ t < l /\ t <= n - (k + 1) /\ t <= n
  /\ t = l - s \/ (t = 1 /\ l <= s)
  /\ s = 1 => t = l - 1
  /\ u \in Nat \ {0} /\ (k + 1 > denseEntries => u = 2 * s) /\ (~(k + 1 > denseEntries) => u = s)

LEMMA StepSizes ==
  ASSUME NEW n \in Nat, NEW k \in Nat, NEW l \in Nat, NEW s \in Nat \ {0}, l >= 2, l <= n - k
  PROVE  Stepped(n, k, l, s, Shorter(l, s), StepAfter(s, k + 1))
<1>1. CASE l > s
  BY <1>1 DEF Stepped, Shorter, StepAfter
<1>2. CASE ~(l > s)
  BY <1>2 DEF Stepped, Shorter, StepAfter
<1> QED BY <1>1, <1>2

Paced(n, k, l, t, u) == Pace(n, k + 1, t, u) /\ Gap(n, l, t) /\ Fits(n, k)

LEMMA PaceStep ==
  ASSUME NEW n \in Nat, NEW k \in Nat, NEW l \in Nat, NEW s \in Nat \ {0}, l >= 2, l <= n - k, Pace(n, k, l, s),
         NEW t, NEW u, Stepped(n, k, l, s, t, u)
  PROVE  Paced(n, k, l, t, u)
<1> DEFINE d == denseEntries
<1>0. d \in Nat /\ d = denseEntries
  BY LocateAssumption
<1>1. /\ t \in Nat /\ t >= 1 /\ t < l /\ (t = l - s \/ (t = 1 /\ l <= s)) /\ (s = 1 => t = l - 1)
      /\ u \in Nat /\ (k + 1 > d => u = 2 * s) /\ (~(k + 1 > d) => u = s)
  BY DEF Stepped
<1> HIDE DEF d
<1>2. CASE k < d
  <2>1. s = 1 /\ l = n - k /\ k + 1 <= d /\ k <= d /\ ~(k + 1 > d)
    BY <1>0, <1>2 DEF Pace
  <2>2. t = n - (k + 1) /\ Gap(n, l, t) /\ u = 1
    BY <1>1, <2>1, DenseStep
  <2>3. Pace(n, k + 1, t, u)
    BY <1>0, <2>1, <2>2 DEF Pace
  <2>4. Fits(n, k)
    BY <1>0, <2>1 DEF Fits
  <2> QED BY <2>2, <2>3, <2>4 DEF Paced
<1>3. CASE k = d
  <2>0. PowerOfTwo[0] = 1 /\ PowerOfTwo[1] = 2
    <3>1. 0 \in Nat /\ 0 + 1 = 1
      OBVIOUS
    <3>2. PowerOfTwo[0 + 1] = 2 * PowerOfTwo[0] /\ PowerOfTwo[0] = 1
      BY PowerOfTwoFacts
    <3> QED BY <3>1, <3>2
  <2>1. k - d = 0 /\ (k + 1) - d = 1 /\ k + 1 > d /\ k + 1 >= d /\ k <= d + 1
    BY <1>0, <1>3
  <2>2. s = 1 /\ l = n - k
    BY <1>0, <1>3, <2>0, <2>1 DEF Pace
  <2>3. u = 2
    BY <1>1, <2>1, <2>2
  <2>4. t = n - (k + 1) /\ t = n - k - 2 + 1 /\ Gap(n, l, t)
    BY <1>1, <2>2, DenseStep
  <2>5. t = n - d - u + 1 /\ u = PowerOfTwo[(k + 1) - d]
    BY <1>3, <2>0, <2>1, <2>3, <2>4
  <2>6. Pace(n, k + 1, t, u)
    BY <1>0, <2>1, <2>4, <2>5 DEF Pace
  <2>7. Fits(n, k)
    BY <1>0, <1>3 DEF Fits
  <2> QED BY <2>4, <2>6, <2>7 DEF Paced
<1>4. CASE k > d
  <2>1. s = PowerOfTwo[k - d] /\ l = n - d - s + 1
    BY <1>0, <1>4 DEF Pace
  <2>2. k + 1 > d /\ k - d \in Nat /\ (k - d) + 1 = (k + 1) - d /\ k + 1 >= d /\ ~(k + 1 <= d + 1)
    BY <1>0, <1>4
  <2>3. u = 2 * s /\ PowerOfTwo[(k + 1) - d] = 2 * s
    <3>1. PowerOfTwo[(k - d) + 1] = 2 * PowerOfTwo[k - d]
      BY <2>2, PowerOfTwoFacts
    <3>2. u = 2 * s
      BY <1>1, <2>2
    <3> QED BY <2>1, <2>2, <3>1, <3>2
  <2>4. (t = n - d - u + 1 \/ t = 1) /\ Gap(n, l, t)
    <3>1. s \in Nat /\ d \in Nat /\ l = n - d - s + 1 /\ u = 2 * s
      BY <1>0, <2>1, <2>3
    <3>2. Wide(n, d, l, s, u, t)
      BY <1>1, <3>1, WideStep
    <3> QED BY <3>2 DEF Wide
  <2>5. Pace(n, k + 1, t, u)
    BY <1>0, <2>2, <2>3, <2>4 DEF Pace
  <2>6. s <= n - 1 - d
    <3>1. n - d - s + 1 >= 2 => s <= n - 1 - d
      BY <1>0
    <3> QED BY <2>1, <3>1
  <2>7. Fits(n, k)
    BY <1>0, <2>1, <2>6 DEF Fits
  <2> QED BY <2>4, <2>5, <2>7 DEF Paced
<1> QED BY <1>0, <1>2, <1>3, <1>4

LEMMA AppendSpaced ==
  ASSUME NEW r \in Chains, NEW L, Spaced(L, r), NEW l \in 1 .. Len(r),
         Len(L) > 0 => Gap(Len(r), Len(L[Len(L)]), l),
         Len(L) <= denseEntries + 1 => l = Len(r) - Len(L)
  PROVE  /\ Spaced(Append(L, SubSeq(r, 1, l)), r) /\ Len(Append(L, SubSeq(r, 1, l))) = Len(L) + 1
         /\ Len(Append(L, SubSeq(r, 1, l))[Len(L) + 1]) = l
<1> DEFINE x == SubSeq(r, 1, l)
           M == Append(L, SubSeq(r, 1, l))
<1>0. r \in Seq(Headers) /\ Len(r) \in Nat \ {0} /\ denseEntries \in Nat
  BY ChainFacts, LocateAssumption
<1>1. x \in Chains /\ Len(x) = l
  BY <1>0, PrefixFacts
<1>2. L \in Seq(Chains) /\ Len(L) \in Nat
  BY DEF Spaced
<1> HIDE DEF x
<1>3. /\ M \in Seq(Chains) /\ Len(M) = Len(L) + 1 /\ M[Len(L) + 1] = x
      /\ \A j \in 1 .. Len(L) : M[j] = L[j]
  BY <1>1, <1>2 DEF x
<1> HIDE DEF M
<1>4. \A j \in 1 .. Len(M) : j \in 1 .. Len(L) \/ j = Len(L) + 1
  BY <1>2, <1>3
<1>5. \A j \in 1 .. Len(M) : Len(M[j]) \in 1 .. Len(r) /\ M[j] = SubSeq(r, 1, Len(M[j]))
  <2> SUFFICES ASSUME NEW j \in 1 .. Len(M)
               PROVE  Len(M[j]) \in 1 .. Len(r) /\ M[j] = SubSeq(r, 1, Len(M[j]))
    OBVIOUS
  <2>1. CASE j \in 1 .. Len(L)
    BY <1>3, <2>1 DEF Spaced
  <2>2. CASE j = Len(L) + 1
    BY <1>1, <1>3, <2>2 DEF x
  <2> QED BY <1>4, <2>1, <2>2
<1>6. \A j \in 1 .. Len(M) - 1 : Gap(Len(r), Len(M[j]), Len(M[j + 1]))
  <2> SUFFICES ASSUME NEW j \in 1 .. Len(M) - 1 PROVE Gap(Len(r), Len(M[j]), Len(M[j + 1]))
    OBVIOUS
  <2>1. j \in 1 .. Len(L)
    BY <1>2, <1>3
  <2>2. CASE j = Len(L)
    BY <1>1, <1>2, <1>3, <2>1, <2>2
  <2>3. CASE j # Len(L)
    <3>1. j \in 1 .. Len(L) - 1 /\ j + 1 \in 1 .. Len(L)
      BY <1>2, <2>1, <2>3
    <3>2. Gap(Len(r), Len(L[j]), Len(L[j + 1]))
      BY <3>1 DEF Spaced
    <3> QED BY <1>3, <2>1, <3>1, <3>2
  <2> QED BY <2>2, <2>3
<1>7. \A j \in 1 .. Len(M) : j <= denseEntries + 2 => Len(M[j]) = Len(r) - j + 1
  <2> SUFFICES ASSUME NEW j \in 1 .. Len(M), j <= denseEntries + 2 PROVE Len(M[j]) = Len(r) - j + 1
    OBVIOUS
  <2>1. CASE j \in 1 .. Len(L)
    BY <1>3, <2>1 DEF Spaced
  <2>2. CASE j = Len(L) + 1
    <3>1. Len(L) <= denseEntries + 1
      BY <1>0, <1>2, <2>2
    <3>2. l = Len(r) - Len(L)
      BY <3>1
    <3>3. Len(M[j]) = l
      BY <1>1, <1>3, <2>2
    <3>4. \A p, q \in Nat : p - q = p - (q + 1) + 1
      OBVIOUS
    <3>5. Len(r) - Len(L) = Len(r) - (Len(L) + 1) + 1
      BY <1>0, <1>2, <3>4
    <3> QED BY <2>2, <3>2, <3>3, <3>5
  <2> QED BY <1>4, <2>1, <2>2
<1>8. Spaced(M, r) /\ Len(M) = Len(L) + 1 /\ Len(M[Len(L) + 1]) = l
  BY <1>1, <1>3, <1>5, <1>6, <1>7 DEF Spaced
<1> QED BY <1>8 DEF M

Done(a, r) ==
  /\ a.node = nil /\ Spaced(a.locator, r) /\ Len(a.locator) \in 1 .. Len(r)
  /\ Len(a.locator[Len(a.locator)]) = 1
  /\ Len(a.locator) >= 2 => Fits(Len(r), Len(a.locator) - 2)

Running(a, r, k, l, s) ==
  /\ a = Place(r, a.locator, l, s)
  /\ l \in 1 .. Len(r) /\ l <= Len(r) - k /\ s \in Nat \ {0}
  /\ Spaced(a.locator, r) /\ Len(a.locator) = k
  /\ Pace(Len(r), k, l, s)
  /\ k > 0 => Gap(Len(r), Len(a.locator[k]), l) /\ Fits(Len(r), k - 1)

(* The next entry: the walk goes on or has come to the genesis block.      *)
LEMMA WalkStep ==
  ASSUME NEW c, NEW r \in Chains, Shows(c, r), NEW k \in Nat, NEW a, NEW l, NEW s, Running(a, r, k, l, s),
         NEW b, b = Entry(c, a, k + 1)
  PROVE  Done(b, r) \/ \E t, u : Running(b, r, k + 1, t, u)
<1> DEFINE n == Len(r)
           L == a.locator
           M == Append(L, SubSeq(r, 1, l))
           t == Shorter(l, s)
           u == StepAfter(s, k + 1)
<1>0. n \in Nat \ {0} /\ denseEntries \in Nat
  BY ChainFacts, LocateAssumption
<1>1. /\ a = Place(r, L, l, s)
      /\ l \in 1 .. n /\ l <= n - k /\ s \in Nat \ {0} /\ Spaced(L, r) /\ Len(L) = k
      /\ Pace(n, k, l, s) /\ (k > 0 => Gap(n, Len(L[k]), l) /\ Fits(n, k - 1))
  BY DEF Running
<1> HIDE DEF L
<1>2. /\ l = 1 => Entry(c, Place(r, L, l, s), k + 1) = Ended(r, M, u)
      /\ l # 1 => Entry(c, Place(r, L, l, s), k + 1) = Place(r, M, t, u)
  BY <1>1, EntryIs
<1>3. k <= denseEntries + 1 => l = n - k
  <2> HIDE DEF n
  <2> QED BY <1>0, <1>1 DEF Pace
<1>4. Spaced(M, r) /\ Len(M) = Len(L) + 1 /\ Len(M[Len(L) + 1]) = l
  <2>1. Len(L) > 0 => Gap(Len(r), Len(L[Len(L)]), l)
    BY <1>1
  <2>2. Len(L) <= denseEntries + 1 => l = Len(r) - Len(L)
    BY <1>1, <1>3
  <2> QED BY <1>1, <2>1, <2>2, AppendSpaced
<1> HIDE DEF M, t, u, n
<1>5. CASE l = 1
  <2>1. b = Ended(r, M, u)
    BY <1>1, <1>2, <1>5
  <2>2. b.node = nil /\ b.locator = M
    BY <2>1 DEF Ended
  <2>3. Len(M) \in 1 .. n /\ (Len(M) >= 2 => k > 0 /\ Len(M) - 2 = k - 1) /\ Len(M[Len(M)]) = 1
    BY <1>0, <1>1, <1>4, <1>5
  <2>4. Len(M) >= 2 => Fits(n, Len(M) - 2)
    BY <1>1, <2>3
  <2> QED BY <1>4, <2>2, <2>3, <2>4 DEF Done, n
<1>6. CASE l # 1
  <2>0. l \in Nat /\ l >= 2 /\ n \in Nat
    BY <1>0, <1>1, <1>6
  <2>1. Stepped(n, k, l, s, t, u)
    BY <1>1, <2>0, StepSizes DEF t, u
  <2>2. Paced(n, k, l, t, u)
    BY <1>1, <2>0, <2>1, PaceStep
  <2>3. b = Place(r, b.locator, t, u) /\ b.locator = M
    <3>1. b = Place(r, M, t, u)
      BY <1>1, <1>2, <1>6
    <3>2. b.locator = M
      BY <3>1 DEF Place
    <3> QED BY <3>1, <3>2
  <2>4. t \in 1 .. n /\ t <= n - (k + 1) /\ u \in Nat \ {0} /\ k + 1 > 0 /\ (k + 1) - 1 = k
    BY <1>0, <2>1 DEF Stepped
  <2>5. Gap(n, Len(M[k + 1]), t) /\ Fits(n, (k + 1) - 1) /\ Pace(n, k + 1, t, u) /\ Len(M) = k + 1
    BY <1>1, <1>4, <2>2, <2>4 DEF Paced
  <2>6. Running(b, r, k + 1, t, u)
    BY <1>4, <2>3, <2>4, <2>5 DEF Running, n
  <2> QED BY <2>6
<1> QED BY <1>5, <1>6

(* The locator of a chain, on a view that shows it.                        *)
LEMMA LocatorFacts ==
  ASSUME NEW c, NEW r \in Chains, Shows(c, r), NEW L, L = blockLocator(c, r)
  PROVE  /\ Spaced(L, r) /\ Len(L) \in 1 .. Len(r) /\ Len(L[Len(L)]) = 1
         /\ Len(L) >= 2 => Fits(Len(r), Len(L) - 2)
<1> DEFINE n == Len(r)
           first == [locator |-> <<>>, node |-> r, step |-> 1]
           At(a, k) == Done(a, r) \/ \E l, s : Running(a, r, k, l, s)
<1>0. n \in Nat \ {0} /\ SubSeq(r, 1, n) = r /\ denseEntries \in Nat
  BY ChainFacts, LocateAssumption
<1>1. PICK g : IsWalk(g, c, r, n) /\ L = g[n].locator
  BY LocatorIs
<1>2. g[0] = first /\ \A k \in 1 .. n : g[k] = Entry(c, g[k - 1], k)
  BY <1>0, <1>1 DEF IsWalk
<1>3. Running(first, r, 0, n, 1)
  <2>1. first.locator = <<>> /\ Len(<<>>) = 0 /\ <<>> \in Seq(Chains)
    OBVIOUS
  <2>2. Spaced(<<>>, r)
    BY <2>1 DEF Spaced
  <2>3. Pace(n, 0, n, 1)
    <3> HIDE DEF n
    <3>1. 0 <= denseEntries /\ n = n - 0
      BY <1>0
    <3> QED BY <3>1 DEF Pace
  <2>4. first = Place(r, <<>>, n, 1)
    BY <1>0 DEF Place
  <2>5. n \in 1 .. Len(r) /\ n <= Len(r) - 0 /\ 1 \in Nat \ {0} /\ ~(0 > 0) /\ n = Len(r)
    BY <1>0
  <2> HIDE DEF first, n
  <2> QED BY <2>1, <2>2, <2>3, <2>4, <2>5 DEF Running
<1> HIDE DEF first
<1> DEFINE Bad == {k \in Nat : k \in 0 .. n /\ ~At(g[k], k)}
<1>4. Bad = {}
  <2> SUFFICES ASSUME Bad # {} PROVE FALSE
    OBVIOUS
  <2>1. PICK k \in Bad : \A j \in Bad : k <= j
    BY LeastNumber
  <2>2. k \in Nat /\ k \in 0 .. n /\ ~At(g[k], k)
    BY <2>1
  <2>3. k # 0
    BY <1>2, <1>3, <2>2
  <2> HIDE DEF Bad, At, n
  <2>4. k - 1 \in Nat /\ k - 1 \in 0 .. n /\ k \in 1 .. n /\ (k - 1) + 1 = k /\ k - 1 \notin Bad
    BY <1>0, <2>1, <2>2, <2>3
  <2>5. At(g[k - 1], k - 1) /\ g[k] = Entry(c, g[k - 1], (k - 1) + 1)
    BY <1>2, <2>4 DEF Bad
  <2>6. CASE Done(g[k - 1], r)
    <3>1. g[k] = g[k - 1]
      BY <2>4, <2>5, <2>6 DEF Entry, Done
    <3> QED BY <2>2, <2>6, <3>1 DEF At
  <2>7. CASE \E l, s : Running(g[k - 1], r, k - 1, l, s)
    <3>1. PICK l, s : Running(g[k - 1], r, k - 1, l, s)
      BY <2>7
    <3>2. Done(g[k], r) \/ \E t, u : Running(g[k], r, (k - 1) + 1, t, u)
      BY <2>4, <2>5, <3>1, WalkStep
    <3> QED BY <2>2, <2>4, <3>2 DEF At
  <2> QED BY <2>5, <2>6, <2>7 DEF At
<1>5. At(g[n], n)
  <2>1. n \in Nat /\ n \in 0 .. n
    BY <1>0
  <2> HIDE DEF At, n
  <2> QED BY <1>4, <2>1
<1>6. Done(g[n], r)
  <2> SUFFICES ASSUME NEW l, NEW s, Running(g[n], r, n, l, s) PROVE FALSE
    BY <1>5
  <2>1. l \in 1 .. n /\ l <= n - n
    BY DEF Running
  <2> QED BY <1>0, <2>1
<1> QED BY <1>1, <1>6 DEF Done

(* The room that is made for a locator is enough.                          *)
LEMMA RoomSuffices ==
  ASSUME NEW n \in Nat \ {0}, n <= 1073741824, NEW k \in 1 .. n, k >= 2 => Fits(n, k - 2)
  PROVE  k <= maxEntries(n - 1)
<1> DEFINE d == denseEntries
           h == n - 1
<1>0. d \in Nat /\ h \in Nat /\ h + 1 = n
  BY LocateAssumption
<1>1. CASE h <= d + 2
  <2>1. maxEntries(h) = n
    BY <1>0, <1>1 DEF maxEntries
  <2> QED BY <2>1
<1>2. CASE ~(h <= d + 2)
  <2>1. h - d \in Nat /\ h - d < 4294967296
    BY <1>0, <1>2
  <2>2. maxEntries(h) = d + 2 + fastLog2Floor(h - d)
    BY <1>2 DEF maxEntries
  <2> DEFINE f == fastLog2Floor(h - d)
  <2>3. f \in Nat /\ \A j \in Nat : PowerOfTwo[j] <= h - d => j <= f
    BY <2>1, LogIsEnough
  <2> HIDE DEF f
  <2>4. CASE k <= d + 2
    BY <1>0, <2>2, <2>3, <2>4 DEF f
  <2>5. CASE ~(k <= d + 2)
    <3>1. k >= 2 /\ ~(k - 2 <= d) /\ (k - 2) - d \in Nat
      BY <1>0, <2>5
    <3>2. PowerOfTwo[(k - 2) - d] <= n - 1 - d
      BY <3>1 DEF Fits
    <3>3. (k - 2) - d <= f
      BY <2>3, <3>1, <3>2
    <3>4. k <= d + 2 + f
      BY <1>0, <2>3, <3>3
    <3> QED BY <2>2, <3>4 DEF f
  <2> QED BY <2>4, <2>5
<1> QED BY <1>1, <1>2

-----------------------------------------------------------------------------
(* The answer to a locator.                                                *)

(* Two chains share their first f blocks and no more.                      *)
Parts(a, b, f) ==
  /\ f \in 1 .. Len(a) /\ f \in 1 .. Len(b) /\ \A i \in 1 .. f : SubSeq(a, 1, i) = SubSeq(b, 1, i)
  /\ \A i \in 1 .. Len(a) : i \in 1 .. Len(b) /\ SubSeq(a, 1, i) = SubSeq(b, 1, i) => i <= f

LEMMA CommonIs ==
  ASSUME NEW a \in Chains, NEW b \in Chains, a[1] = b[1]
  PROVE  Parts(a, b, Len(Common(a, b)))
<1> DEFINE S == {i \in 1 .. Min({Len(a), Len(b)}) : SubSeq(a, 1, i) = SubSeq(b, 1, i)}
           T == {0} \cup S
           f == Max(T)
<1>0. a \in Seq(Headers) /\ b \in Seq(Headers) /\ Len(a) \in Nat \ {0} /\ Len(b) \in Nat \ {0}
  BY ChainFacts
<1>1. \A i \in Nat : i \in 1 .. Min({Len(a), Len(b)}) <=> i \in 1 .. Len(a) /\ i \in 1 .. Len(b)
  <2>1. Min({Len(a), Len(b)}) = IF Len(a) <= Len(b) THEN Len(a) ELSE Len(b)
    BY <1>0, OfTwo
  <2>2. \A p, q, i \in Nat : i \in 1 .. (IF p <= q THEN p ELSE q) <=> i \in 1 .. p /\ i \in 1 .. q
    OBVIOUS
  <2> QED BY <1>0, <2>1, <2>2
<1>2. Min({Len(a), Len(b)}) \in Int
  BY <1>0, OfTwo
<1>3. \A i \in S : i \in Nat /\ i \in 1 .. Len(a) /\ i \in 1 .. Len(b) /\ SubSeq(a, 1, i) = SubSeq(b, 1, i)
  <2>1. \A i \in S : i \in Nat /\ i \in 1 .. Min({Len(a), Len(b)})
    BY <1>2
  <2> QED BY <1>1, <2>1
<1>4. \A i \in 1 .. Len(a) : i \in 1 .. Len(b) /\ SubSeq(a, 1, i) = SubSeq(b, 1, i) => i \in S
  <2> SUFFICES ASSUME NEW i \in 1 .. Len(a), i \in 1 .. Len(b), SubSeq(a, 1, i) = SubSeq(b, 1, i) PROVE i \in S
    OBVIOUS
  <2>1. i \in Nat
    BY <1>0
  <2>2. i \in 1 .. Min({Len(a), Len(b)})
    BY <1>1, <2>1, Zenon
  <2> QED BY <2>2
<1> HIDE DEF S
<1>5. T \in SUBSET (0 .. Len(a)) /\ T # {}
  BY <1>0, <1>3
<1>6. f \in T /\ \A k \in T : k <= f
  BY <1>0, <1>5, LargestNumber
<1>7. 1 \in S
  <2>1. 1 \in 1 .. Len(a) /\ 1 \in 1 .. Len(b)
    BY <1>0
  <2>2. /\ SubSeq(a, 1, 1) \in Seq(Headers) /\ Len(SubSeq(a, 1, 1)) = 1
        /\ \A j \in 1 .. 1 : SubSeq(a, 1, 1)[j] = a[j]
    BY <1>0, <2>1, SubSeqProperties
  <2>3. /\ SubSeq(b, 1, 1) \in Seq(Headers) /\ Len(SubSeq(b, 1, 1)) = 1
        /\ \A j \in 1 .. 1 : SubSeq(b, 1, 1)[j] = b[j]
    BY <1>0, <2>1, SubSeqProperties
  <2>4. \A j \in 1 .. 1 : SubSeq(a, 1, 1)[j] = SubSeq(b, 1, 1)[j]
    BY <2>2, <2>3
  <2>5. SubSeq(a, 1, 1) = SubSeq(b, 1, 1)
    BY <2>2, <2>3, <2>4, SeqEqual
  <2> QED BY <1>4, <2>1, <2>5
<1>8. f \in S
  <2>1. 1 <= f
    BY <1>6, <1>7
  <2> HIDE DEF f
  <2> QED BY <1>6, <2>1
<1>9. Common(a, b) = SubSeq(a, 1, f)
  BY DEF Common, S
<1> HIDE DEF f
<1>10. f \in 1 .. Len(a) /\ f \in 1 .. Len(b) /\ SubSeq(a, 1, f) = SubSeq(b, 1, f)
  BY <1>3, <1>8
<1>11. Len(Common(a, b)) = f
  BY <1>0, <1>9, <1>10, PrefixFacts
<1>12. \A i \in 1 .. f : SubSeq(a, 1, i) = SubSeq(b, 1, i)
  <2>1. \A i \in 1 .. f : SubSeq(SubSeq(a, 1, f), 1, i) = SubSeq(a, 1, i)
    BY <1>0, <1>10, PrefixFacts
  <2>2. \A i \in 1 .. f : SubSeq(SubSeq(b, 1, f), 1, i) = SubSeq(b, 1, i)
    BY <1>0, <1>10, PrefixFacts
  <2> QED BY <1>10, <2>1, <2>2
<1>13. \A i \in 1 .. Len(a) : i \in 1 .. Len(b) /\ SubSeq(a, 1, i) = SubSeq(b, 1, i) => i <= f
  BY <1>4, <1>6
<1>14. Parts(a, b, f)
  BY <1>10, <1>12, <1>13 DEF Parts
<1> QED BY <1>11, <1>14

(* The first entry of a locator that a chain with f blocks of it knows.    *)
Meet(L, f, m) ==
  \E i \in 1 .. Len(L) : Len(L[i]) = m /\ m <= f /\ \A j \in 1 .. i - 1 : Len(L[j]) > f

LEMMA MeetingPoint ==
  ASSUME NEW r \in Chains, NEW L, Spaced(L, r), Len(L) \in 1 .. Len(r), Len(L[Len(L)]) = 1,
         NEW f \in 1 .. Len(r), NEW m, Meet(L, f, m)
  PROVE  /\ m \in 1 .. f /\ f - m <= Len(r) - f
         /\ Len(r) - f <= denseEntries + 1 => m = f
<1> DEFINE n == Len(r)
           k == Len(L)
           d == denseEntries
           l == [j \in 1 .. k |-> Len(L[j])]
<1>0. n \in Nat \ {0} /\ d \in Nat /\ k \in 1 .. n
  BY ChainFacts, LocateAssumption
<1>1. /\ \A j \in 1 .. k : l[j] \in 1 .. n
      /\ \A j \in 1 .. k - 1 : Gap(n, l[j], l[j + 1])
      /\ \A j \in 1 .. k : j <= d + 2 => l[j] = n - j + 1
      /\ l[k] = 1
  <2>1. \A j \in 1 .. k : l[j] = Len(L[j])
    OBVIOUS
  <2>2. \A j \in 1 .. k - 1 : j \in 1 .. k /\ j + 1 \in 1 .. k
    BY <1>0
  <2>3. k \in 1 .. k
    BY <1>0
  <2> HIDE DEF l
  <2> QED BY <2>1, <2>2, <2>3 DEF Spaced
<1>2. PICK i \in 1 .. k : l[i] = m /\ m <= f /\ \A j \in 1 .. i - 1 : l[j] > f
  <2>1. PICK i \in 1 .. Len(L) : Len(L[i]) = m /\ m <= f /\ \A j \in 1 .. i - 1 : Len(L[j]) > f
    BY DEF Meet
  <2>2. \A j \in 1 .. i - 1 : j \in 1 .. k
    BY <1>0, <2>1
  <2> QED BY <2>1, <2>2
<1> HIDE DEF l, k, n
<1>3. f \in 1 .. n
  BY DEF n
<1>4. m \in 1 .. f
  BY <1>0, <1>1, <1>2, <1>3
<1>5. f - m <= n - f
  <2>1. CASE i = 1
    <3>1. l[1] = n
      BY <1>0, <1>1, <1>2, <2>1
    <3> QED BY <1>0, <1>2, <1>3, <2>1, <3>1
  <2>2. CASE i # 1
    <3>1. i - 1 \in 1 .. k - 1 /\ (i - 1) + 1 = i /\ i - 1 \in 1 .. k /\ i - 1 \in 1 .. i - 1
      BY <1>0, <1>2, <2>2
    <3>2. Gap(n, l[i - 1], l[i]) /\ l[i - 1] > f /\ l[i - 1] \in 1 .. n
      BY <1>1, <1>2, <3>1
    <3>3. l[i - 1] - m <= n - l[i - 1] + 1
      BY <1>2, <3>2 DEF Gap
    <3> QED BY <1>0, <1>3, <1>4, <3>2, <3>3
  <2> QED BY <2>1, <2>2
<1>6. ASSUME n - f <= d + 1 PROVE m = f
  <2> DEFINE j == n - f + 1
  <2>1. j \in 1 .. n /\ j <= d + 2 /\ n - j + 1 = f
    BY <1>0, <1>3, <1>6
  <2>2. j <= k
    <3> SUFFICES ASSUME ~(j <= k) PROVE FALSE
      OBVIOUS
    <3>1. k <= d + 2 /\ k \in 1 .. k
      BY <1>0, <2>1
    <3>2. n - k + 1 = 1
      BY <1>1, <3>1
    <3> QED BY <1>0, <2>1, <3>2
  <2>3. l[j] = f /\ j \in 1 .. k
    BY <1>0, <1>1, <2>1, <2>2
  <2> HIDE DEF j
  <2>4. i <= j
    <3> SUFFICES ASSUME ~(i <= j) PROVE FALSE
      OBVIOUS
    <3>1. j \in 1 .. i - 1
      BY <1>0, <1>2, <2>1
    <3>2. f > f
      BY <1>2, <2>3, <3>1
    <3> QED BY <1>3, <3>2
  <2>5. l[i] = n - i + 1
    BY <1>0, <1>1, <1>2, <2>1, <2>4
  <2> QED BY <1>0, <1>2, <1>3, <1>4, <2>1, <2>4, <2>5
<1> QED BY <1>4, <1>5, <1>6 DEF n

(* What locateInventory is asked: a locator of r that starts at the tip    *)
(* and ends at the genesis block, where r and the chain share f blocks.    *)
Asked(c, idx, chain, r, L, f) ==
  /\ chain \in Chains /\ r \in Chains /\ Shows(c, chain)
  /\ idx \subseteq Chains /\ \A i \in 1 .. Len(chain) : SubSeq(chain, 1, i) \in idx
  /\ Spaced(L, r) /\ Len(L) \in 1 .. Len(r) /\ Len(L[Len(L)]) = 1
  /\ Parts(r, chain, f)

(* An entry is known if and only if it is shared.                          *)
LEMMA KnownIs ==
  ASSUME NEW c, NEW idx, NEW chain, NEW r, NEW L, NEW f, Asked(c, idx, chain, r, L, f), NEW j \in 1 .. Len(L)
  PROVE  L[j] \in idx /\ InView(c, L[j]) <=> Len(L[j]) <= f
<1>0. chain \in Chains /\ r \in Chains /\ Shows(c, chain) /\ Parts(r, chain, f)
  BY DEF Asked
<1>1. L[j] \in Chains /\ Len(L[j]) \in 1 .. Len(r) /\ L[j] = SubSeq(r, 1, Len(L[j]))
  <2>1. L \in Seq(Chains) /\ \A i \in 1 .. Len(L) : Len(L[i]) \in 1 .. Len(r) /\ L[i] = SubSeq(r, 1, Len(L[i]))
    BY DEF Asked, Spaced
  <2> QED BY <2>1
<1> DEFINE x == L[j]
           i == Len(x)
<1> HIDE DEF x
<1>2. Len(r) \in Nat \ {0} /\ Len(chain) \in Nat \ {0} /\ f \in 1 .. Len(r) /\ f \in 1 .. Len(chain)
  BY <1>0, ChainFacts DEF Parts
<1>3. InView(c, x) <=> i <= Len(chain) /\ x = SubSeq(chain, 1, i)
  BY <1>0, <1>1, InViewIs DEF x
<1>4. i \in 1 .. Len(r) /\ x = SubSeq(r, 1, i)
  BY <1>1 DEF x
<1>5. ASSUME i <= f PROVE x \in idx /\ InView(c, x)
  <2>1. i \in 1 .. f /\ i \in 1 .. Len(chain) /\ i <= Len(chain)
    BY <1>2, <1>4, <1>5
  <2>2. SubSeq(r, 1, i) = SubSeq(chain, 1, i) /\ SubSeq(chain, 1, i) \in idx
    BY <1>0, <2>1 DEF Parts, Asked
  <2> QED BY <1>3, <1>4, <2>1, <2>2
<1>6. ASSUME InView(c, x) PROVE i <= f
  <2>1. i \in 1 .. Len(chain)
    BY <1>2, <1>3, <1>4, <1>6
  <2> QED BY <1>0, <1>3, <1>4, <1>6, <2>1 DEF Parts
<1>7. x \in idx /\ InView(c, x) <=> i <= f
  BY <1>5, <1>6
<1> QED BY <1>7 DEF x

Known(c, idx, L) == {i \in DOMAIN L : L[i] \in idx /\ InView(c, L[i])}

(* The search stops at the meeting point.                                  *)
LEMMA FirstKnown ==
  ASSUME NEW c, NEW idx, NEW chain, NEW r, NEW L, NEW f, Asked(c, idx, chain, r, L, f)
  PROVE  /\ L # <<>> /\ Known(c, idx, L) # {}
         /\ \E m \in 1 .. Len(chain) : Meet(L, f, m) /\ L[Min(Known(c, idx, L))] = SubSeq(chain, 1, m)
<1> DEFINE K == Known(c, idx, L)
           i == Min(K)
<1>0. chain \in Chains /\ r \in Chains /\ Parts(r, chain, f) /\ Spaced(L, r) /\ Len(L) \in 1 .. Len(r)
      /\ Len(L[Len(L)]) = 1
  BY DEF Asked
<1>1. Len(r) \in Nat \ {0} /\ Len(chain) \in Nat \ {0} /\ f \in 1 .. Len(r) /\ f \in 1 .. Len(chain)
  BY <1>0, ChainFacts DEF Parts
<1>2. L \in Seq(Chains) /\ DOMAIN L = 1 .. Len(L) /\ Len(L) \in Nat
  BY <1>0 DEF Spaced
<1>3. K = {j \in 1 .. Len(L) : Len(L[j]) <= f}
  <2>1. \A j \in 1 .. Len(L) : L[j] \in idx /\ InView(c, L[j]) <=> Len(L[j]) <= f
    BY KnownIs
  <2> QED BY <1>2, <2>1 DEF Known
<1> HIDE DEF K
<1>4. Len(L) \in K /\ K \in SUBSET Nat
  <2>1. Len(L) \in 1 .. Len(L) /\ Len(L[Len(L)]) <= f
    BY <1>0, <1>1, <1>2
  <2>2. 1 .. Len(L) \subseteq Nat
    BY <1>2
  <2> QED BY <1>3, <2>1, <2>2
<1>5. i \in K /\ \A j \in K : i <= j
  BY <1>4, LeastOf
<1> HIDE DEF i
<1>6. i \in 1 .. Len(L) /\ Len(L[i]) <= f /\ Len(L[i]) \in 1 .. Len(r) /\ L[i] = SubSeq(r, 1, Len(L[i]))
  BY <1>0, <1>3, <1>5 DEF Spaced
<1>7. \A j \in 1 .. i - 1 : Len(L[j]) > f
  <2> SUFFICES ASSUME NEW j \in 1 .. i - 1 PROVE Len(L[j]) > f
    OBVIOUS
  <2>1. j \in 1 .. Len(L) /\ ~(i <= j)
    BY <1>2, <1>6
  <2>2. ~(Len(L[j]) <= f)
    BY <1>3, <1>5, <2>1
  <2>3. Len(L[j]) \in 1 .. Len(r)
    BY <1>0, <2>1 DEF Spaced
  <2> QED BY <1>1, <2>2, <2>3
<1> DEFINE m == Len(L[i])
<1>8. Meet(L, f, m)
  BY <1>6, <1>7 DEF Meet
<1>9. m \in 1 .. f /\ m \in 1 .. Len(chain)
  BY <1>1, <1>6
<1>10. L[i] = SubSeq(chain, 1, m)
  BY <1>0, <1>6, <1>9 DEF Parts
<1>11. L # <<>>
  BY <1>0, <1>1
<1>12. i = Min(Known(c, idx, L)) /\ Known(c, idx, L) # {}
  BY <1>4 DEF i, K
<1> HIDE DEF m
<1> QED BY <1>8, <1>9, <1>10, <1>11, <1>12

-----------------------------------------------------------------------------
(* The run of the best chain that is sent.                                 *)

LEMMA NextIs ==
  ASSUME NEW c, NEW chain \in Chains, Shows(c, chain), NEW m \in 1 .. Len(chain)
  PROVE  NextNode(c, SubSeq(chain, 1, m)) = IF m < Len(chain) THEN SubSeq(chain, 1, m + 1) ELSE nil
<1> DEFINE x == SubSeq(chain, 1, m)
<1>0. chain \in Seq(Headers) /\ Len(chain) \in Nat \ {0} /\ c.len = Len(chain)
  BY ChainFacts DEF Shows
<1>1. x \in Chains /\ Len(x) = m
  BY <1>0, PrefixFacts
<1> HIDE DEF x
<1>2. x # nil /\ InView(c, x)
  <2>1. m <= Len(chain) /\ x = SubSeq(chain, 1, Len(x))
    BY <1>0, <1>1 DEF x
  <2>2. Len(x) <= Len(chain)
    BY <1>1, <2>1
  <2> QED BY <1>1, <2>1, <2>2, InViewIs DEF Chains
<1>3. Height(x) + 1 = m
  BY <1>0, <1>1 DEF Height
<1>4. NextNode(c, x) = NodeByHeight(c, m)
  BY <1>2, <1>3 DEF NextNode
<1>5. CASE m < Len(chain)
  <2>1. m \in 0 .. Len(chain) - 1
    BY <1>0, <1>5
  <2>2. NodeByHeight(c, m) = SubSeq(chain, 1, m + 1)
    BY <2>1, NodeOf
  <2> QED BY <1>4, <1>5, <2>2 DEF x
<1>6. CASE ~(m < Len(chain))
  <2>1. m \notin 0 .. c.len - 1
    BY <1>0, <1>6
  <2>2. NodeByHeight(c, m) = nil
    BY <2>1 DEF NodeByHeight
  <2> QED BY <1>4, <1>6, <2>2 DEF x
<1> QED BY <1>5, <1>6

IsSent(g, c, x, t) == g = [i \in 1 .. t |-> IF i = 1 THEN x ELSE NextNode(c, g[i - 1])]

(* The blocks of a chain above its m-th.                                   *)
Above(chain, m, t) == [i \in 1 .. t |-> SubSeq(chain, 1, m + i)]

LEMMA LocatedIs ==
  ASSUME NEW c, NEW chain \in Chains, Shows(c, chain), NEW m \in 1 .. Len(chain) - 1,
         NEW t \in 1 .. Len(chain) - m
  PROVE  Located(c, [node |-> SubSeq(chain, 1, m + 1), total |-> t]) = Above(chain, m, t)
<1> DEFINE x == SubSeq(chain, 1, m + 1)
           h == Above(chain, m, t)
           g == CHOOSE f : IsSent(f, c, x, t)
<1>0. Len(chain) \in Nat \ {0} /\ m \in Nat /\ t \in Nat
  BY ChainFacts
<1>1. \A i \in 1 .. t : i # 1 => NextNode(c, SubSeq(chain, 1, m + (i - 1))) = SubSeq(chain, 1, m + i)
  <2> SUFFICES ASSUME NEW i \in 1 .. t, i # 1
               PROVE  NextNode(c, SubSeq(chain, 1, m + (i - 1))) = SubSeq(chain, 1, m + i)
    OBVIOUS
  <2>1. /\ m + (i - 1) \in 1 .. Len(chain) /\ m + (i - 1) < Len(chain)
        /\ (m + (i - 1)) + 1 = m + i
    BY <1>0
  <2> QED BY <2>1, NextIs
<1>2. IsSent(h, c, x, t)
  <2>1. \A i \in 1 .. t : h[i] = IF i = 1 THEN x ELSE NextNode(c, h[i - 1])
    <3> SUFFICES ASSUME NEW i \in 1 .. t PROVE h[i] = IF i = 1 THEN x ELSE NextNode(c, h[i - 1])
      OBVIOUS
    <3>1. h[i] = SubSeq(chain, 1, m + i)
      BY DEF Above
    <3>2. CASE i = 1
      BY <3>1, <3>2
    <3>3. CASE i # 1
      <4>1. i - 1 \in 1 .. t
        BY <1>0, <3>3
      <4>2. h[i - 1] = SubSeq(chain, 1, m + (i - 1))
        BY <4>1 DEF Above
      <4> HIDE DEF h
      <4> QED BY <1>1, <3>1, <3>3, <4>2
    <3> QED BY <3>2, <3>3
  <2>2. h = [i \in 1 .. t |-> h[i]]
    BY DEF Above
  <2> HIDE DEF h
  <2> QED BY <2>1, <2>2 DEF IsSent
<1>3. IsSent(g, c, x, t)
  BY <1>2
<1>4. Located(c, [node |-> x, total |-> t]) = [i \in 1 .. t |-> g[i]]
  BY DEF Located, IsSent
<1> HIDE DEF g, h
<1>5. \A i \in 1 .. t : g[i] = IF i = 1 THEN x ELSE NextNode(c, g[i - 1])
  BY <1>3 DEF IsSent
<1> DEFINE Bad == {i \in Nat : i \in 1 .. t /\ g[i] # SubSeq(chain, 1, m + i)}
<1>6. Bad = {}
  <2> SUFFICES ASSUME Bad # {} PROVE FALSE
    OBVIOUS
  <2>1. PICK i \in Bad : \A j \in Bad : i <= j
    BY LeastNumber
  <2>2. i \in Nat /\ i \in 1 .. t /\ g[i] # SubSeq(chain, 1, m + i)
    BY <2>1
  <2>3. i # 1
    BY <1>5, <2>2
  <2> HIDE DEF Bad
  <2>4. i - 1 \in 1 .. t /\ i - 1 \in Nat /\ i - 1 \notin Bad
    BY <1>0, <2>1, <2>2, <2>3
  <2>5. g[i - 1] = SubSeq(chain, 1, m + (i - 1))
    BY <2>4 DEF Bad
  <2> QED BY <1>1, <1>5, <2>2, <2>3, <2>5
<1>7. \A i \in 1 .. t : g[i] = SubSeq(chain, 1, m + i)
  <2>1. \A i \in 1 .. t : i \in Nat
    BY <1>0
  <2> QED BY <1>6, <2>1
<1> QED BY <1>4, <1>7 DEF Above

LEMMA LocatedNothing ==
  ASSUME NEW c
  PROVE  Located(c, [node |-> nil, total |-> 0]) = nil
<1> DEFINE none == Located(c, [node |-> nil, total |-> 0])
<1>1. DOMAIN none = 1 .. 0 /\ none \in [1 .. 0 -> Chains]
  BY DEF Located
<1> HIDE DEF none
<1>2. none \in Seq(Chains) /\ Len(none) = 0
  BY <1>1, SeqDef, LenProperties
<1>3. none = <<>>
  BY <1>2
<1> QED BY <1>3 DEF none, nil

(* What is sent when the search stopped at the m-th block of the chain,    *)
(* without a stop block and with the one below the tip.                    *)
Answered(chain, m, blocks, stopped) ==
  \/ m = Len(chain) /\ blocks = nil
  \/ /\ m < Len(chain)
     /\ \E t \in 1 .. Len(chain) - m : \E u \in 1 .. t :
          /\ blocks = Above(chain, m, t) /\ stopped = Above(chain, m, u)
          /\ m < Len(chain) - 1 => m + u < Len(chain)

Told(c, idx, L, chain, m, hashStop, max) ==
  /\ m = Len(chain) => locateInventory(c, idx, L, hashStop, max) = [node |-> nil, total |-> 0]
  /\ m < Len(chain) => locateInventory(c, idx, L, hashStop, max)
       = [node |-> SubSeq(chain, 1, m + 1),
          total |-> Min({max, (IF hashStop \in idx /\ InView(c, hashStop) /\ Height(hashStop) >= m
                               THEN Height(hashStop) ELSE Len(chain) - 1) - m + 1})]

LEMMA InventoryIs ==
  ASSUME NEW c, NEW chain \in Chains, Shows(c, chain), NEW idx, NEW L, L # <<>>, Known(c, idx, L) # {},
         NEW m \in 1 .. Len(chain), L[Min(Known(c, idx, L))] = SubSeq(chain, 1, m),
         NEW hashStop, NEW max
  PROVE  Told(c, idx, L, chain, m, hashStop, max)
<1> DEFINE start == NextNode(c, SubSeq(chain, 1, m))
           stops == hashStop \in idx /\ InView(c, hashStop) /\ Height(hashStop) >= Height(start)
           total == (IF stops THEN Height(hashStop) ELSE Height(Tip(c))) - Height(start) + 1
<1>0. chain \in Seq(Headers) /\ Len(chain) \in Nat \ {0}
  BY ChainFacts
<1>1. locateInventory(c, idx, L, hashStop, max) =
        IF start = nil THEN [node |-> nil, total |-> 0] ELSE [node |-> start, total |-> Min({max, total})]
  BY DEF locateInventory, Known
<1>2. start = IF m < Len(chain) THEN SubSeq(chain, 1, m + 1) ELSE nil
  BY NextIs
<1>3. Height(Tip(c)) = Len(chain) - 1
  BY TipIs
<1>4. CASE m = Len(chain)
  <2>1. ~(m < Len(chain))
    BY <1>0, <1>4
  <2> QED BY <1>1, <1>2, <1>4, <2>1 DEF Told
<1>5. CASE m < Len(chain)
  <2>1. m + 1 \in 1 .. Len(chain)
    BY <1>0, <1>5
  <2>2. SubSeq(chain, 1, m + 1) # nil /\ Len(SubSeq(chain, 1, m + 1)) = m + 1
    BY <1>0, <2>1, PrefixFacts DEF Chains
  <2>3. Height(start) = m /\ start # nil
    BY <1>0, <1>2, <1>5, <2>2 DEF Height
  <2>4. total = (IF hashStop \in idx /\ InView(c, hashStop) /\ Height(hashStop) >= m
                 THEN Height(hashStop) ELSE Len(chain) - 1) - m + 1
    BY <1>3, <2>3
  <2> HIDE DEF total, start
  <2>5. m # Len(chain)
    BY <1>0, <1>5
  <2> QED BY <1>1, <1>2, <1>5, <2>3, <2>4, <2>5 DEF Told
<1> QED BY <1>0, <1>4, <1>5

LEMMA AnswerIs ==
  ASSUME NEW c, NEW idx, NEW chain, NEW r, NEW L, NEW f, Asked(c, idx, chain, r, L, f),
         NEW m \in 1 .. Len(chain), L[Min(Known(c, idx, L))] = SubSeq(chain, 1, m),
         NEW max \in Nat \ {0}
  PROVE  Answered(chain, m, LocateBlocks(c, idx, L, nil, max),
                  LocateBlocks(c, idx, L, RelativeAncestor(chain, 1), max))
<1> DEFINE n == Len(chain)
           stop == RelativeAncestor(chain, 1)
           Inv(hash) == locateInventory(c, idx, L, hash, max)
<1>0. /\ chain \in Chains /\ Shows(c, chain) /\ idx \subseteq Chains
      /\ \A i \in 1 .. n : SubSeq(chain, 1, i) \in idx
      /\ L # <<>> /\ Known(c, idx, L) # {}
  BY FirstKnown DEF Asked
<1>1. n \in Nat \ {0} /\ SubSeq(chain, 1, n) = chain /\ chain \in Seq(Headers)
  BY <1>0, ChainFacts
<1>2. \A hash : LocateBlocks(c, idx, L, hash, max) = Located(c, Inv(hash))
  BY DEF LocateBlocks
<1>3. CASE m = n
  <2>1. Inv(nil) = [node |-> nil, total |-> 0]
    <3>1. Told(c, idx, L, chain, m, nil, max)
      BY <1>0, InventoryIs
    <3> QED BY <1>3, <3>1 DEF Told
  <2>2. LocateBlocks(c, idx, L, nil, max) = nil
    BY <1>2, <2>1, LocatedNothing
  <2> QED BY <1>3, <2>2 DEF Answered
<1>4. CASE m # n
  <2>0. m < n /\ n >= 2 /\ m \in 1 .. n - 1
    <3>1. \A p \in Nat : \A q \in 1 .. p : q # p => q < p /\ p >= 2 /\ q \in 1 .. p - 1
      OBVIOUS
    <3> HIDE DEF n
    <3>2. m \in 1 .. n
      BY DEF n
    <3> QED BY <1>1, <1>4, <3>1, <3>2
  <2> DEFINE a == n - m
             b == IF m < n - 1 THEN n - m - 1 ELSE n - m
             t == IF max <= a THEN max ELSE a
             u == IF max <= b THEN max ELSE b
  <2>1. a \in 1 .. n - m /\ b \in 1 .. a /\ t \in 1 .. n - m /\ u \in 1 .. t /\ u \in 1 .. n - m
        /\ (m < n - 1 => m + u < n)
    <3> HIDE DEF n
    <3> QED BY <1>1, <2>0
  <2>2. Inv(nil) = [node |-> SubSeq(chain, 1, m + 1), total |-> t]
    <3>1. nil \notin idx
      BY <1>0 DEF Chains
    <3>2. Inv(nil) = [node |-> SubSeq(chain, 1, m + 1), total |-> Min({max, (n - 1) - m + 1})]
      <4>1. Told(c, idx, L, chain, m, nil, max)
        BY <1>0, InventoryIs
      <4> QED BY <2>0, <3>1, <4>1 DEF Told
    <3>3. (n - 1) - m + 1 = a /\ a \in Int
      BY <1>1, <2>1
    <3>4. Min({max, a}) = t
      BY <3>3, OfTwo
    <3> HIDE DEF n, a, t
    <3> QED BY <3>2, <3>3, <3>4
  <2>3. Inv(stop) = [node |-> SubSeq(chain, 1, m + 1), total |-> u]
    <3>1. stop = SubSeq(chain, 1, n - 1)
      <4>1. n \in 2 .. n
        BY <1>1, <2>0
      <4> QED BY <1>0, <1>1, <4>1, ParentIs
    <3>2. n - 1 \in 1 .. n
      BY <1>1, <2>0
    <3>3. stop \in Chains /\ Len(stop) = n - 1
      BY <1>1, <3>1, <3>2, PrefixFacts
    <3>4. stop \in idx /\ InView(c, stop)
      <4>1. Len(stop) <= n /\ stop = SubSeq(chain, 1, Len(stop))
        BY <1>1, <3>1, <3>3
      <4> QED BY <1>0, <3>1, <3>2, <3>3, <4>1, InViewIs
    <3>5. Height(stop) = n - 2
      <4>1. (n - 1) - 1 = n - 2
        BY <1>1
      <4> HIDE DEF stop, n
      <4> QED BY <3>3, <4>1 DEF Height
    <3> HIDE DEF stop
    <3>6. Inv(stop) = [node |-> SubSeq(chain, 1, m + 1),
                       total |-> Min({max, (IF Height(stop) >= m THEN Height(stop) ELSE n - 1) - m + 1})]
      <4>1. Told(c, idx, L, chain, m, stop, max)
        BY <1>0, InventoryIs
      <4> QED BY <2>0, <3>4, <4>1 DEF Told
    <3>7. (IF Height(stop) >= m THEN Height(stop) ELSE n - 1) - m + 1 = b /\ b \in Int
      <4> HIDE DEF n
      <4> QED BY <1>1, <2>0, <3>5
    <3>8. Min({max, b}) = u
      BY <3>7, OfTwo
    <3> HIDE DEF n, b, u
    <3> QED BY <3>6, <3>7, <3>8
  <2> HIDE DEF a, b, t, u
  <2>4. LocateBlocks(c, idx, L, nil, max) = Above(chain, m, t)
    <3>1. Located(c, [node |-> SubSeq(chain, 1, m + 1), total |-> t]) = Above(chain, m, t)
      BY <1>0, <2>0, <2>1, LocatedIs
    <3> HIDE DEF Inv
    <3> QED BY <1>2, <2>2, <3>1
  <2>5. LocateBlocks(c, idx, L, stop, max) = Above(chain, m, u)
    <3>1. Located(c, [node |-> SubSeq(chain, 1, m + 1), total |-> u]) = Above(chain, m, u)
      BY <1>0, <2>0, <2>1, LocatedIs
    <3> HIDE DEF Inv
    <3> QED BY <1>2, <2>3, <3>1
  <2> QED BY <2>0, <2>1, <2>4, <2>5 DEF Answered
<1> QED BY <1>3, <1>4

IsAbove(A, chain, m, t) ==
  /\ A \in Seq(Chains) /\ Len(A) = t /\ A # nil
  /\ \A i \in 1 .. t : A[i] = SubSeq(chain, 1, m + i) /\ Len(A[i]) = m + i

LEMMA AboveFacts ==
  ASSUME NEW chain \in Chains, NEW m \in 1 .. Len(chain) - 1, NEW t \in 1 .. Len(chain) - m
  PROVE  IsAbove(Above(chain, m, t), chain, m, t)
<1> DEFINE A == Above(chain, m, t)
<1>0. chain \in Seq(Headers) /\ Len(chain) \in Nat \ {0} /\ m \in Nat /\ t \in Nat \ {0}
  BY ChainFacts
<1>1. \A i \in 1 .. t : m + i \in 1 .. Len(chain)
  BY <1>0
<1>2. \A i \in 1 .. t : SubSeq(chain, 1, m + i) \in Chains /\ Len(SubSeq(chain, 1, m + i)) = m + i
  BY <1>0, <1>1, PrefixFacts
<1>3. A \in [1 .. t -> Chains] /\ \A i \in 1 .. t : A[i] = SubSeq(chain, 1, m + i)
  BY <1>2 DEF Above
<1> HIDE DEF A
<1>4. A \in Seq(Chains) /\ Len(A) = t
  BY <1>0, <1>3
<1>5. A # nil
  BY <1>0, <1>4 DEF nil
<1>6. IsAbove(A, chain, m, t)
  BY <1>2, <1>3, <1>4, <1>5 DEF IsAbove
<1> QED BY <1>6 DEF A

(* The parts of LocatorsMeet that are about one answer.                    *)
Follows(r, chain, blocks, stopped) ==
  LET stop == RelativeAncestor(chain, 1)
      fork == Common(r, chain)
  IN  /\ blocks = nil => IsPrefix(chain, r)
      /\ IsPrefix(chain, r) /\ Len(r) <= Len(chain) + denseEntries + 1 => blocks = nil
      /\ \A i \in DOMAIN blocks : blocks[i] = Ancestor(chain, Height(blocks[1]) + i - 1)
      /\ blocks # nil =>
           /\ IsPrefix(RelativeAncestor(blocks[1], 1), r)
           /\ Len(fork) - Height(blocks[1]) <= Len(r) - Len(fork)
           /\ IsPrefix(stopped, blocks) /\ (~IsPrefix(stop, r) => chain \notin ToSet(stopped))

(* The first i blocks of the chain are those of r if they are shared.      *)
LEMMA SharedPrefix ==
  ASSUME NEW r \in Chains, NEW chain \in Chains, NEW f, Parts(r, chain, f), NEW i \in 1 .. Len(chain)
  PROVE  IsPrefix(SubSeq(chain, 1, i), r) <=> i <= f
<1> DEFINE x == SubSeq(chain, 1, i)
<1>0. chain \in Seq(Headers) /\ Len(chain) \in Nat \ {0} /\ Len(r) \in Nat \ {0} /\ f \in 1 .. Len(r)
  BY ChainFacts DEF Parts
<1>1. Len(x) = i /\ x \in Chains /\ SubSeq(x, 1, Len(x)) = x
  BY <1>0, PrefixFacts, ChainFacts
<1>2. IsPrefix(x, r) <=> i <= Len(r) /\ x = SubSeq(r, 1, i)
  BY <1>1 DEF IsPrefix
<1>3. ASSUME i <= f PROVE IsPrefix(x, r)
  <2>1. i \in 1 .. f /\ i <= Len(r)
    BY <1>0, <1>3
  <2> QED BY <1>2, <2>1 DEF Parts
<1>4. ASSUME IsPrefix(x, r) PROVE i <= f
  <2>1. i \in 1 .. Len(r)
    BY <1>0, <1>2, <1>4
  <2> QED BY <1>2, <1>4, <2>1 DEF Parts
<1> QED BY <1>3, <1>4

LEMMA AnswerFollows ==
  ASSUME NEW r \in Chains, NEW chain \in Chains, NEW blocks, NEW stopped, NEW m,
         Parts(r, chain, Len(Common(r, chain))), Answered(chain, m, blocks, stopped),
         m \in 1 .. Len(Common(r, chain)),
         Len(Common(r, chain)) - m <= Len(r) - Len(Common(r, chain)),
         Len(r) - Len(Common(r, chain)) <= denseEntries + 1 => m = Len(Common(r, chain))
  PROVE  Follows(r, chain, blocks, stopped)
<1> DEFINE f == Len(Common(r, chain))
           n == Len(chain)
<1>0. /\ chain \in Seq(Headers) /\ n \in Nat \ {0} /\ Len(r) \in Nat \ {0} /\ SubSeq(chain, 1, n) = chain
      /\ f \in 1 .. Len(r) /\ f \in 1 .. n /\ denseEntries \in Nat
  BY ChainFacts, LocateAssumption DEF Parts
<1>1. \A i \in 1 .. n : IsPrefix(SubSeq(chain, 1, i), r) <=> i <= f
  BY SharedPrefix
<1>2. /\ m \in 1 .. f /\ f - m <= Len(r) - f
      /\ Len(r) - f <= denseEntries + 1 => m = f
  OBVIOUS
<1>3. IsPrefix(chain, r) <=> f = n
  <2>1. n \in 1 .. n
    BY <1>0
  <2>2. IsPrefix(chain, r) <=> n <= f
    BY <1>0, <1>1, <2>1
  <2> HIDE DEF f, n
  <2> QED BY <1>0, <2>2
<1> HIDE DEF f
<1>4. CASE m = n /\ blocks = nil
  <2>1. f = n
    <3> HIDE DEF n
    <3> QED BY <1>0, <1>2, <1>4
  <2>2. DOMAIN blocks = {}
    BY <1>4 DEF nil
  <2> QED BY <1>3, <1>4, <2>1, <2>2 DEF Follows
<1>5. CASE m < n /\ \E t \in 1 .. n - m : \E u \in 1 .. t :
               /\ blocks = Above(chain, m, t) /\ stopped = Above(chain, m, u)
               /\ m < n - 1 => m + u < n
  <2>1. PICK t \in 1 .. n - m : \E u \in 1 .. t :
               /\ blocks = Above(chain, m, t) /\ stopped = Above(chain, m, u)
               /\ m < n - 1 => m + u < n
    BY <1>5
  <2>2. PICK u \in 1 .. t :
               /\ blocks = Above(chain, m, t) /\ stopped = Above(chain, m, u)
               /\ m < n - 1 => m + u < n
    BY <2>1
  <2>3. m \in 1 .. n - 1 /\ m \in 1 .. n /\ u \in 1 .. n - m /\ n >= 2 /\ 1 \in 1 .. t /\ m + 1 \in 2 .. n /\ m \in Nat
        /\ t \in Nat /\ u \in Nat
    <3> HIDE DEF n
    <3> QED BY <1>0, <1>2, <1>5, <2>1, <2>2
  <2>4. /\ blocks \in Seq(Chains) /\ Len(blocks) = t /\ blocks # nil
        /\ \A i \in 1 .. t : blocks[i] = SubSeq(chain, 1, m + i) /\ Len(blocks[i]) = m + i
    <3>1. IsAbove(Above(chain, m, t), chain, m, t)
      BY <2>1, <2>3, AboveFacts
    <3>2. IsAbove(blocks, chain, m, t)
      BY <2>2, <3>1
    <3> QED BY <3>2 DEF IsAbove
  <2>5. /\ stopped \in Seq(Chains) /\ Len(stopped) = u
        /\ \A i \in 1 .. u : stopped[i] = SubSeq(chain, 1, m + i) /\ Len(stopped[i]) = m + i
    <3>1. IsAbove(Above(chain, m, u), chain, m, u)
      BY <2>1, <2>3, AboveFacts
    <3>2. IsAbove(stopped, chain, m, u)
      BY <2>2, <3>1
    <3> QED BY <3>2 DEF IsAbove
  <2>6. Height(blocks[1]) = m /\ blocks[1] = SubSeq(chain, 1, m + 1)
    BY <2>3, <2>4 DEF Height
  <2>7. \A i \in DOMAIN blocks : blocks[i] = Ancestor(chain, Height(blocks[1]) + i - 1)
    <3> SUFFICES ASSUME NEW i \in 1 .. t PROVE blocks[i] = Ancestor(chain, m + i - 1)
      BY <2>4, <2>6
    <3>1. (m + i - 1) + 1 = m + i /\ ~(m + i - 1 < 0 \/ m + i - 1 > n - 1)
      <4> HIDE DEF n
      <4> QED BY <1>0, <2>3, <2>1
    <3>2. Ancestor(chain, m + i - 1) = SubSeq(chain, 1, m + i)
      BY <3>1 DEF Ancestor, Height
    <3> QED BY <2>4, <3>2
  <2>8. IsPrefix(RelativeAncestor(blocks[1], 1), r)
    <3>1. RelativeAncestor(SubSeq(chain, 1, m + 1), 1) = SubSeq(chain, 1, (m + 1) - 1)
      BY <2>3, ParentIs
    <3>2. (m + 1) - 1 = m /\ m <= f
      BY <1>0, <1>2, <2>3
    <3> QED BY <1>1, <2>3, <2>6, <3>1, <3>2
  <2>9. IsPrefix(stopped, blocks)
    <3>1. u <= t /\ u \in 1 .. Len(blocks) /\ u \in 1 .. Len(stopped)
      BY <2>2, <2>3, <2>4, <2>5
    <3>2. /\ SubSeq(stopped, 1, u) \in Seq(Chains) /\ Len(SubSeq(stopped, 1, u)) = u
          /\ \A j \in 1 .. u : SubSeq(stopped, 1, u)[j] = stopped[j]
      BY <2>5, <3>1, SubSeqProperties
    <3>3. /\ SubSeq(blocks, 1, u) \in Seq(Chains) /\ Len(SubSeq(blocks, 1, u)) = u
          /\ \A j \in 1 .. u : SubSeq(blocks, 1, u)[j] = blocks[j]
      BY <2>4, <3>1, SubSeqProperties
    <3>4. \A j \in 1 .. u : j \in 1 .. t
      BY <2>3, <3>1
    <3>5. \A j \in 1 .. u : SubSeq(stopped, 1, u)[j] = SubSeq(blocks, 1, u)[j]
      BY <2>4, <2>5, <3>2, <3>3, <3>4
    <3>6. SubSeq(stopped, 1, u) = SubSeq(blocks, 1, u)
      BY <3>2, <3>3, <3>5, SeqEqual
    <3> QED BY <2>4, <2>5, <3>1, <3>6 DEF IsPrefix
  <2>10. ASSUME ~IsPrefix(RelativeAncestor(chain, 1), r) PROVE chain \notin ToSet(stopped)
    <3>1. RelativeAncestor(chain, 1) = SubSeq(chain, 1, n - 1)
      <4>1. n \in 2 .. n
        BY <1>0, <2>3
      <4> QED BY <1>0, <4>1, ParentIs
    <3>2. n - 1 \in 1 .. n
      BY <1>0, <2>3
    <3>3. ~(n - 1 <= f)
      BY <1>1, <2>10, <3>1, <3>2
    <3>4. m + u < n
      <4> HIDE DEF n
      <4> QED BY <1>0, <1>2, <2>2, <3>3
    <3> SUFFICES ASSUME NEW i \in 1 .. u, stopped[i] = chain PROVE FALSE
      BY <2>5 DEF ToSet
    <3>5. Len(stopped[i]) = m + i
      BY <2>5
    <3>6. m + i < n
      <4> HIDE DEF n
      <4> QED BY <1>0, <2>3, <3>4
    <3>7. Len(chain) = m + i
      BY <3>5
    <3> HIDE DEF n
    <3> QED BY <1>0, <3>6, <3>7 DEF n
  <2>11. ~(IsPrefix(chain, r) /\ Len(r) <= n + denseEntries + 1)
    <3> SUFFICES ASSUME f = n, Len(r) <= n + denseEntries + 1 PROVE FALSE
      BY <1>3
    <3>1. Len(r) - f <= denseEntries + 1
      <4> HIDE DEF n
      <4> QED BY <1>0
    <3>2. m = n
      BY <1>2, <3>1
    <3> HIDE DEF n
    <3> QED BY <1>0, <1>5, <3>2
  <2> QED BY <1>2, <2>4, <2>6, <2>7, <2>8, <2>9, <2>10, <2>11 DEF Follows, f
<1> QED BY <1>4, <1>5 DEF Answered

-----------------------------------------------------------------------------
(* All chains of the network start at one block.                           *)

SharedGenesis == \A c, d \in index \cup Strangers : c[1] = d[1]

LEMMA GenesisInit ==
  ASSUME RulesInit
  PROVE  SharedGenesis
<1>1. PICK tip \in InitialChains : index = {SubSeq(tip, 1, k) : k \in DOMAIN tip}
  BY DEF RulesInit
<1>2. tip \in Chains
  BY RulesAssumption DEF Chains
<1>3. tip \in Seq(Headers) /\ Len(tip) \in Nat \ {0} /\ DOMAIN tip = 1 .. Len(tip)
  BY <1>2, ChainFacts
<1>4. \A k \in 1 .. Len(tip) : SubSeq(tip, 1, k)[1] = tip[1]
  <2> SUFFICES ASSUME NEW k \in 1 .. Len(tip) PROVE SubSeq(tip, 1, k)[1] = tip[1]
    OBVIOUS
  <2>1. 1 \in 1 .. k
    BY <1>3
  <2> QED BY <1>3, <2>1, SubSeqProperties
<1>5. \A c \in Strangers : c[1] = tip[1]
  BY RulesAssumption
<1>6. \A c \in index \cup Strangers : c[1] = tip[1]
  BY <1>1, <1>3, <1>4, <1>5
<1> QED BY <1>6 DEF SharedGenesis

LEMMA GenesisProcess ==
  ASSUME IInv, SharedGenesis, NEW h \in Headers, NEW b, NEW n \in index, NEW flags, ProcessBlock(h, b, n, flags)
  PROVE  SharedGenesis'
<1> DEFINE node == Append(n, h)
<1>1. index' \subseteq index \cup {node}
  BY DEF ProcessBlock
<1>2. n \in Seq(Headers) /\ Len(n) \in Nat \ {0}
  BY ChainFacts DEF IInv, IndexInv
<1>3. node[1] = n[1]
  <2>1. 1 \in 1 .. Len(n)
    BY <1>2
  <2> QED BY <1>2, <2>1
<1> HIDE DEF node
<1>4. \A c \in index' \cup Strangers : c[1] = n[1]
  BY <1>1, <1>3 DEF SharedGenesis
<1> QED BY <1>4 DEF SharedGenesis

LEMMA GenesisNext ==
  ASSUME IInv, SharedGenesis, [RulesNext]_vars
  PROVE  SharedGenesis'
<1>1. CASE UNCHANGED index
  BY <1>1 DEF SharedGenesis
<1>2. ASSUME NEW k \in Blocks, NEW prevNode \in index, ProcessBlock(k.header, k.body, prevNode, k.flags)
      PROVE  SharedGenesis'
  <2>1. k.header \in Headers
    BY DEF Headers
  <2> QED BY <1>2, <2>1, GenesisProcess
<1>3. ASSUME Restart PROVE UNCHANGED index
  BY <1>3 DEF Restart
<1>4. ASSUME NEW k \in Blocks, CheckConnectBlockTemplate(k.header, k.body) PROVE UNCHANGED index
  BY <1>4 DEF CheckConnectBlockTemplate
<1>5. ASSUME NEW algo, CalcNextRequiredDifficulty(algo) PROVE UNCHANGED index
  BY <1>5 DEF CalcNextRequiredDifficulty
<1>6. CASE UNCHANGED vars
  BY <1>1, <1>6 DEF vars
<1> QED BY <1>1, <1>2, <1>3, <1>4, <1>5, <1>6 DEF RulesNext

(* Heights, and with them the steps of a locator, are int32 in the code.   *)
HeightsFit == \A n \in index \cup Strangers : Len(n) <= 1073741824

LEMMA LocatorsAgree ==
  ASSUME IInv, SharedGenesis, HeightsFit
  PROVE  LocatorsMeet
<1> SUFFICES ASSUME NEW r \in Strangers \cup index
             PROVE  /\ Follows(r, best, AnswerTo(r, nil), AnswerTo(r, RelativeAncestor(best, 1)))
                    /\ Len(blockLocator(setTip(NoView, r), r)) <= maxEntries(Height(r))
  BY DEF LocatorsMeet, Follows
<1>1. /\ best \in Chains /\ best \in index /\ index \subseteq Chains /\ Shows(view, best)
      /\ \A i \in 1 .. Len(best) : SubSeq(best, 1, i) \in index
  BY DEF IInv, IndexInv, ViewShowsBest
<1>2. r \in Chains /\ r[1] = best[1]
  <2>1. \A c \in Strangers : c \in Chains
    BY RulesAssumption DEF Chains
  <2> QED BY <1>1, <2>1 DEF SharedGenesis
<1> DEFINE L == blockLocator(setTip(NoView, r), r)
           f == Len(Common(r, best))
<1>3. /\ Spaced(L, r) /\ Len(L) \in 1 .. Len(r) /\ Len(L[Len(L)]) = 1
      /\ Len(L) >= 2 => Fits(Len(r), Len(L) - 2)
  <2>1. Shows(setTip(NoView, r), r)
    BY <1>2, FreshView
  <2> QED BY <1>2, <2>1, LocatorFacts
<1>4. Parts(r, best, f)
  BY <1>1, <1>2, CommonIs
<1> HIDE DEF L
<1>5. Len(L) <= maxEntries(Height(r))
  <2>1. Len(r) \in Nat \ {0} /\ Len(r) <= 1073741824
    BY <1>2, ChainFacts DEF HeightsFit
  <2>2. Len(L) <= maxEntries(Len(r) - 1)
    BY <1>3, <2>1, RoomSuffices
  <2> QED BY <2>2 DEF Height
<1>6. Asked(view, index, best, r, L, f)
  BY <1>1, <1>2, <1>3, <1>4 DEF Asked
<1>7. PICK m \in 1 .. Len(best) : Meet(L, f, m) /\ L[Min(Known(view, index, L))] = SubSeq(best, 1, m)
  BY <1>6, FirstKnown
<1>8. m \in 1 .. f /\ f - m <= Len(r) - f /\ (Len(r) - f <= denseEntries + 1 => m = f)
  <2>1. f \in 1 .. Len(r)
    BY <1>4 DEF Parts
  <2> HIDE DEF f
  <2> QED BY <1>2, <1>3, <1>7, <2>1, MeetingPoint
<1>9. Answered(best, m, LocateBlocks(view, index, L, nil, MaxInv),
               LocateBlocks(view, index, L, RelativeAncestor(best, 1), MaxInv))
  <2>1. MaxInv \in Nat \ {0}
    BY RulesAssumption
  <2> HIDE DEF f
  <2> QED BY <1>6, <1>7, <2>1, AnswerIs
<1>10. Answered(best, m, AnswerTo(r, nil), AnswerTo(r, RelativeAncestor(best, 1)))
  BY <1>9 DEF AnswerTo, L
<1>11. Follows(r, best, AnswerTo(r, nil), AnswerTo(r, RelativeAncestor(best, 1)))
  BY <1>1, <1>2, <1>4, <1>8, <1>10, AnswerFollows
<1> QED BY <1>5, <1>11 DEF L

(* Whoever asks with a locator is told where to go on, and ranges of       *)
(* hashes are those of the ancestors, for every chain of another node that *)
(* starts at the same genesis block and whatever reorganizations happened  *)
(* (blockLocator, locateInventory, HeightToHashRange, HeightRange,         *)
(* IntervalBlockHashes).  The heights are below 2^30, where the step of a  *)
(* locator cannot leave the int32 that the code keeps it in.               *)
THEOREM QueriesAlwaysFollow == RulesSpec => [](HeightsFit => QueriesFollowChain)
<1>1. IInv /\ SharedGenesis => (HeightsFit => QueriesFollowChain)
  BY RangesAgree, LocatorsAgree DEF QueriesFollowChain
<1>2. RulesSpec => []SharedGenesis
  BY RulesInvariant, GenesisInit, GenesisNext, PTL DEF RulesSpec
<1> QED BY <1>1, <1>2, RulesInvariant, PTL
=============================================================================

----------------------------- MODULE WireProofs -----------------------------
(***************************************************************************)
(* Proofs about Wire: the reader finds the next message, for every set of  *)
(* messages, every protocol version and all limits.                        *)
(***************************************************************************)
EXTENDS Wire, SequenceTheorems, WellFoundedInduction, TLAPS

(* What the header of a stream announces ends where the next message       *)
(* begins, or is more than a reader skips.                                 *)
IsFrame(s, next) ==
  \/ Head(s)[2].length > MaxMessagePayload
  \/ TakeBytes(Tail(s), Head(s)[2].length).rest = next

(* The message in flight is framed.                                        *)
Framed == result.at \in {"sent", "corrupt"} => IsFrame(stream, later)

(* What is sent does not change, and there is one result.                  *)
Sending ==
  /\ \E i \in DOMAIN Messages : msg \in Messages[i]
  /\ pver \in Versions
  /\ result = [at |-> result.at, err |-> result.err, msg |-> result.msg]

FrameInv == Sending /\ Framed /\ RefusedIsSkipped

-----------------------------------------------------------------------------
(* Sequences of cells.                                                     *)

LEMMA LeastNumber ==
  ASSUME NEW S \in SUBSET Nat, S # {}
  PROVE  \E n \in S : \A k \in S : n <= k
<1>1. PICK n \in S : \A k \in S : ~(<<k, n>> \in OpToRel(<, Nat))
  BY NatLessThanWellFounded, WFMin
<1>2. \A k \in S : ~(k < n)
  BY <1>1 DEF OpToRel
<1> QED BY <1>2

(* A sequence of cells is one over every set that holds its cells.         *)
LEMMA CellsAreSeq ==
  ASSUME NEW p, IsCells(p), NEW S, \A i \in 1 .. Len(p) : p[i] \in S
  PROVE  p \in Seq(S)
<1> DEFINE n == Len(p)
<1>1. n \in Nat /\ p = [i \in 1 .. n |-> p[i]]
  BY DEF IsCells
<1> HIDE DEF n
<1>2. \A i \in 1 .. n : p[i] \in S
  BY DEF n
<1>3. p \in [1 .. n -> S]
  BY <1>1, <1>2
<1> QED BY <1>1, <1>3, SeqDef

LEMMA SeqIsCells ==
  ASSUME NEW S, NEW p \in Seq(S), \A i \in 1 .. Len(p) : p[i][1] \in Nat \ {0}
  PROVE  IsCells(p)
<1>1. Len(p) \in Nat /\ p \in [1 .. Len(p) -> S]
  BY LenProperties
<1>2. p = [i \in 1 .. Len(p) |-> p[i]]
  BY <1>1
<1> QED BY <1>1, <1>2 DEF IsCells

(* The set of the cells of two streams.                                    *)
CellsOf(p, q) == {p[i] : i \in 1 .. Len(p)} \cup {q[i] : i \in 1 .. Len(q)}

LEMMA BothAreSeq ==
  ASSUME NEW p, NEW q, IsCells(p), IsCells(q)
  PROVE  p \in Seq(CellsOf(p, q)) /\ q \in Seq(CellsOf(p, q))
<1>1. \A i \in 1 .. Len(p) : p[i] \in CellsOf(p, q)
  BY DEF CellsOf
<1>2. \A i \in 1 .. Len(q) : q[i] \in CellsOf(p, q)
  BY DEF CellsOf
<1> QED BY <1>1, <1>2, CellsAreSeq

LEMMA ConcatCells ==
  ASSUME NEW p, NEW q, IsCells(p), IsCells(q)
  PROVE  IsCells(p \o q)
<1>1. p \in Seq(CellsOf(p, q)) /\ q \in Seq(CellsOf(p, q))
  BY BothAreSeq
<1>2. /\ p \o q \in Seq(CellsOf(p, q)) /\ Len(p \o q) = Len(p) + Len(q)
      /\ \A i \in 1 .. Len(p) + Len(q) : (p \o q)[i] = IF i <= Len(p) THEN p[i] ELSE q[i - Len(p)]
  BY <1>1, ConcatProperties
<1>3. ASSUME NEW i \in 1 .. Len(p \o q) PROVE (p \o q)[i][1] \in Nat \ {0}
  <2>1. CASE i <= Len(p)
    BY <1>2, <2>1 DEF IsCells
  <2>2. CASE ~(i <= Len(p))
    <3>1. Len(p) \in Nat /\ Len(q) \in Nat
      BY DEF IsCells
    <3>2. i - Len(p) \in 1 .. Len(q)
      BY <1>2, <2>2, <3>1
    <3> QED BY <1>2, <2>2, <3>2 DEF IsCells
  <2> QED BY <2>1, <2>2
<1> QED BY <1>2, <1>3, SeqIsCells

LEMMA OneCell ==
  ASSUME NEW w \in Nat \ {0}, NEW v
  PROVE  IsCells(<<<<w, v>>>>) /\ Len(<<<<w, v>>>>) = 1
<1>1. <<<<w, v>>>> \in Seq({<<w, v>>}) /\ Len(<<<<w, v>>>>) = 1
  OBVIOUS
<1>2. \A i \in 1 .. 1 : i = 1
  OBVIOUS
<1>3. <<w, v>>[1] = w
  OBVIOUS
<1>4. \A i \in 1 .. Len(<<<<w, v>>>>) : <<<<w, v>>>>[i] = <<w, v>>
  BY <1>1, <1>2
<1> QED BY <1>1, <1>3, <1>4, SeqIsCells

LEMMA NoCells == IsCells(<<>>) /\ Len(<<>>) = 0
<1>1. <<>> \in Seq({}) /\ Len(<<>>) = 0
  OBVIOUS
<1>2. \A i \in 1 .. Len(<<>>) : <<>>[i][1] \in Nat \ {0}
  BY <1>1
<1> QED BY <1>1, <1>2, SeqIsCells

-----------------------------------------------------------------------------
(* Counting and taking bytes.                                              *)

(* The sizes of the beginnings of a stream.                               *)
SizeRun(g, cells, n) ==
  g = [i \in 0 .. n |-> IF i = 0 THEN 0 ELSE g[i - 1] + cells[i][1]]

LEMMA SizeRunExists ==
  ASSUME NEW cells, NEW n \in Nat
  PROVE  \E g : SizeRun(g, cells, n)
<1> DEFINE Bad == {m \in Nat : ~\E g : SizeRun(g, cells, m)}
<1>1. SUFFICES ASSUME Bad # {} PROVE FALSE
  OBVIOUS
<1>2. PICK m \in Bad : \A k \in Bad : m <= k
  BY <1>1, LeastNumber
<1>3. CASE m = 0
  <2> DEFINE g == [i \in 0 .. 0 |-> 0]
  <2>1. \A i \in 0 .. 0 : i = 0
    OBVIOUS
  <2>2. g = [i \in 0 .. 0 |-> IF i = 0 THEN 0 ELSE g[i - 1] + cells[i][1]]
    BY <2>1
  <2>3. SizeRun(g, cells, 0)
    BY <2>2 DEF SizeRun
  <2> QED BY <1>3, <2>3
<1>4. CASE m # 0
  <2>1. m - 1 \in Nat /\ ~(m - 1 \in Bad)
    BY <1>2, <1>4
  <2>2. PICK g : SizeRun(g, cells, m - 1)
    BY <2>1
  <2> DEFINE h == [i \in 0 .. m |-> IF i = m THEN g[m - 1] + cells[m][1] ELSE g[i]]
  <2>3. \A i \in 0 .. m - 1 : g[i] = IF i = 0 THEN 0 ELSE g[i - 1] + cells[i][1]
    BY <2>2 DEF SizeRun
  <2>4. \A i \in 0 .. m - 1 : h[i] = g[i]
    BY <2>1
  <2>5. h[m] = g[m - 1] + cells[m][1]
    BY <2>1
  <2> HIDE DEF h
  <2>6. \A i \in 0 .. m : h[i] = IF i = 0 THEN 0 ELSE h[i - 1] + cells[i][1]
    <3> SUFFICES ASSUME NEW i \in 0 .. m PROVE h[i] = IF i = 0 THEN 0 ELSE h[i - 1] + cells[i][1]
      OBVIOUS
    <3>1. CASE i = m
      <4>1. h[i - 1] = g[m - 1]
        BY <2>1, <2>4, <3>1
      <4> QED BY <1>4, <2>5, <3>1, <4>1
    <3>2. CASE i = 0
      BY <1>4, <2>1, <2>3, <2>4, <3>2
    <3>3. CASE i # m /\ i # 0
      <4>1. i \in 0 .. m - 1 /\ i - 1 \in 0 .. m - 1
        BY <2>1, <3>3
      <4> QED BY <2>3, <2>4, <3>3, <4>1
    <3> QED BY <3>1, <3>2, <3>3
  <2>7. SizeRun(h, cells, m)
    <3>1. h = [i \in 0 .. m |-> h[i]]
      BY DEF h
    <3> QED BY <2>6, <3>1 DEF SizeRun
  <2> QED BY <2>7
<1> QED BY <1>3, <1>4

(* What TakeBytes has taken after each cell.                              *)
TakeRun(g, start, cells, n) ==
  g = [i \in 0 .. n |-> IF i = 0 THEN start ELSE TakeCell(g[i - 1], cells[i])]

LEMMA TakeRunExists ==
  ASSUME NEW start, NEW cells, NEW n \in Nat
  PROVE  \E g : TakeRun(g, start, cells, n)
<1> DEFINE Bad == {m \in Nat : ~\E g : TakeRun(g, start, cells, m)}
<1>1. SUFFICES ASSUME Bad # {} PROVE FALSE
  OBVIOUS
<1>2. PICK m \in Bad : \A k \in Bad : m <= k
  BY <1>1, LeastNumber
<1>3. CASE m = 0
  <2> DEFINE g == [i \in 0 .. 0 |-> start]
  <2>1. \A i \in 0 .. 0 : i = 0
    OBVIOUS
  <2>2. g = [i \in 0 .. 0 |-> IF i = 0 THEN start ELSE TakeCell(g[i - 1], cells[i])]
    BY <2>1
  <2>3. TakeRun(g, start, cells, 0)
    BY <2>2 DEF TakeRun
  <2> QED BY <1>3, <2>3
<1>4. CASE m # 0
  <2>1. m - 1 \in Nat /\ ~(m - 1 \in Bad)
    BY <1>2, <1>4
  <2>2. PICK g : TakeRun(g, start, cells, m - 1)
    BY <2>1
  <2> DEFINE h == [i \in 0 .. m |-> IF i = m THEN TakeCell(g[m - 1], cells[m]) ELSE g[i]]
  <2>3. \A i \in 0 .. m - 1 : g[i] = IF i = 0 THEN start ELSE TakeCell(g[i - 1], cells[i])
    BY <2>2 DEF TakeRun
  <2>4. \A i \in 0 .. m - 1 : h[i] = g[i]
    BY <2>1
  <2>5. h[m] = TakeCell(g[m - 1], cells[m])
    BY <2>1
  <2> HIDE DEF h
  <2>6. \A i \in 0 .. m : h[i] = IF i = 0 THEN start ELSE TakeCell(h[i - 1], cells[i])
    <3> SUFFICES ASSUME NEW i \in 0 .. m PROVE h[i] = IF i = 0 THEN start ELSE TakeCell(h[i - 1], cells[i])
      OBVIOUS
    <3>1. CASE i = m
      <4>1. h[i - 1] = g[m - 1]
        BY <2>1, <2>4, <3>1
      <4> QED BY <1>4, <2>5, <3>1, <4>1
    <3>2. CASE i = 0
      BY <1>4, <2>1, <2>3, <2>4, <3>2
    <3>3. CASE i # m /\ i # 0
      <4>1. i \in 0 .. m - 1 /\ i - 1 \in 0 .. m - 1
        BY <2>1, <3>3
      <4> QED BY <2>3, <2>4, <3>3, <4>1
    <3> QED BY <3>1, <3>2, <3>3
  <2>7. TakeRun(h, start, cells, m)
    <3>1. h = [i \in 0 .. m |-> h[i]]
      BY DEF h
    <3> QED BY <2>6, <3>1 DEF TakeRun
  <2> QED BY <2>7
<1> QED BY <1>3, <1>4

(* Size counts the widths of the cells one by one.                         *)
LEMMA SizeSteps ==
  ASSUME NEW p, IsCells(p)
  PROVE  \E g : /\ g[0] = 0 /\ Size(p) = g[Len(p)]
                /\ \A i \in 0 .. Len(p) : g[i] \in Nat /\ g[i] <= Size(p)
                /\ \A i \in 1 .. Len(p) : g[i] = g[i - 1] + p[i][1] /\ p[i][1] \in Nat \ {0}
<1> DEFINE n == Len(p)
           g == CHOOSE f : SizeRun(f, p, n)
<1>1. n \in Nat /\ \A i \in 1 .. n : p[i][1] \in Nat \ {0}
  BY DEF IsCells
<1>2. Size(p) = g[n]
  BY DEF Size, SizeRun
<1>3. SizeRun(g, p, n)
  BY <1>1, SizeRunExists
<1> HIDE DEF g, n
<1>4. g[0] = 0 /\ \A i \in 1 .. n : g[i] = g[i - 1] + p[i][1]
  BY <1>1, <1>3 DEF SizeRun
<1> DEFINE Bad == {m \in Nat : m \in 0 .. n /\ ~(g[m] \in Nat)}
<1>5. Bad = {}
  <2> SUFFICES ASSUME Bad # {} PROVE FALSE
    OBVIOUS
  <2>1. PICK m \in Bad : \A k \in Bad : m <= k
    BY LeastNumber
  <2>2. m \in 1 .. n /\ m - 1 \in 0 .. n /\ m - 1 \in Nat /\ m - 1 < m
    BY <1>1, <1>4, <2>1
  <2>3. g[m - 1] \in Nat
    BY <2>1, <2>2
  <2>4. g[m] \in Nat
    BY <1>1, <1>4, <2>2, <2>3
  <2> QED BY <2>1, <2>4
<1>6. \A i \in 0 .. n : g[i] \in Nat
  BY <1>1, <1>5
<1> HIDE DEF Bad
<1> DEFINE Above == {d \in Nat : d \in 0 .. n /\ ~(g[n - d] <= g[n])}
<1>7. Above = {}
  <2> SUFFICES ASSUME Above # {} PROVE FALSE
    OBVIOUS
  <2>1. PICK d \in Above : \A k \in Above : d <= k
    BY LeastNumber
  <2>2. d \in 1 .. n /\ d - 1 \in 0 .. n /\ d - 1 \in Nat /\ d - 1 < d
    BY <1>1, <1>6, <2>1
  <2> DEFINE j == n - d + 1
  <2>3. g[n - (d - 1)] <= g[n] /\ n - (d - 1) = j /\ j - 1 = n - d /\ j \in 1 .. n /\ j - 1 \in 0 .. n
    BY <1>1, <2>1, <2>2
  <2> HIDE DEF j
  <2>4. g[j] = g[j - 1] + p[j][1] /\ p[j][1] \in Nat /\ g[j - 1] \in Nat /\ g[n] \in Nat
    BY <1>1, <1>4, <1>6, <2>3
  <2>5. g[j - 1] <= g[n]
    BY <2>3, <2>4
  <2> QED BY <2>1, <2>3, <2>5
<1>8. \A i \in 0 .. n : g[i] <= g[n]
  <2> TAKE i \in 0 .. n
  <2>1. n - i \in Nat /\ n - i \in 0 .. n /\ n - (n - i) = i
    BY <1>1
  <2> QED BY <1>7, <2>1
<1> QED BY <1>1, <1>2, <1>4, <1>6, <1>8 DEF n

LEMMA PrefixGrows ==
  ASSUME NEW S, NEW q \in Seq(S), NEW j \in 1 .. Len(q)
  PROVE  Append(SubSeq(q, 1, j - 1), q[j]) = SubSeq(q, 1, j)
<1>1. j \in Nat /\ j - 1 \in Nat /\ \A i \in 1 .. Len(q) : q[i] \in S
  OBVIOUS
<1>2. /\ SubSeq(q, 1, j - 1) \in Seq(S) /\ Len(SubSeq(q, 1, j - 1)) = j - 1
      /\ \A i \in 1 .. j - 1 : SubSeq(q, 1, j - 1)[i] = q[i]
  BY <1>1, SubSeqProperties
<1>3. /\ SubSeq(q, 1, j) \in Seq(S) /\ Len(SubSeq(q, 1, j)) = j
      /\ \A i \in 1 .. j : SubSeq(q, 1, j)[i] = q[i]
  BY <1>1, SubSeqProperties
<1> DEFINE a == SubSeq(q, 1, j - 1)
           b == Append(a, q[j])
<1> HIDE DEF a
<1>4. b \in Seq(S) /\ Len(b) = j /\ b[j] = q[j] /\ \A i \in 1 .. j - 1 : b[i] = a[i]
  BY <1>1, <1>2 DEF a
<1> HIDE DEF b
<1>5. \A i \in 1 .. j : b[i] = SubSeq(q, 1, j)[i]
  BY <1>1, <1>2, <1>3, <1>4 DEF a
<1>6. b = SubSeq(q, 1, j)
  BY <1>3, <1>4, <1>5, SeqEqual
<1> QED BY <1>6 DEF a, b

(* Taking the bytes of p from p followed by q leaves q, and taking more    *)
(* than there are leaves nothing.                                          *)
LEMMA TakeLeaves ==
  ASSUME NEW p, NEW q, IsCells(p), IsCells(q),
         NEW n \in Nat, n = Size(p) \/ (q = <<>> /\ n >= Size(p))
  PROVE  TakeBytes(p \o q, n).rest = q
<1> DEFINE S == CellsOf(p, q)
           cells == p \o q
           start == [n |-> n, taken |-> <<>>, rest |-> <<>>]
           a == Len(p)
           b == Len(q)
           g == CHOOSE f : TakeRun(f, start, cells, Len(cells))
<1>1. p \in Seq(S) /\ q \in Seq(S) /\ a \in Nat /\ b \in Nat
  BY BothAreSeq DEF IsCells
<1>2. /\ Len(cells) = a + b
      /\ \A i \in 1 .. a : cells[i] = p[i]
      /\ \A j \in 1 .. b : cells[a + j] = q[j]
  <2> HIDE DEF S
  <2>1. /\ Len(cells) = a + b
        /\ \A i \in 1 .. a + b : cells[i] = IF i <= a THEN p[i] ELSE q[i - a]
    BY <1>1, ConcatProperties
  <2>2. \A i \in 1 .. a : i \in 1 .. a + b /\ i <= a
    BY <1>1
  <2>3. \A j \in 1 .. b : a + j \in 1 .. a + b /\ ~(a + j <= a) /\ (a + j) - a = j
    BY <1>1
  <2> HIDE DEF cells, a, b
  <2> QED BY <2>1, <2>2, <2>3
<1>3. TakeBytes(cells, n) = g[Len(cells)]
  BY DEF TakeBytes, TakeRun
<1> HIDE DEF cells
<1>4. TakeRun(g, start, cells, a + b)
  BY <1>1, <1>2, TakeRunExists
<1> HIDE DEF g, a, b, start
<1>5. g[0] = start /\ \A i \in 1 .. a + b : g[i] = TakeCell(g[i - 1], cells[i])
  BY <1>1, <1>4 DEF TakeRun
<1>6. PICK s : /\ s[0] = 0 /\ Size(p) = s[a]
               /\ \A i \in 0 .. a : s[i] \in Nat /\ s[i] <= Size(p)
               /\ \A i \in 1 .. a : s[i] = s[i - 1] + p[i][1] /\ p[i][1] \in Nat \ {0}
  BY SizeSteps DEF a
<1> HIDE DEF S
<1> DEFINE During(i) == \E t : g[i] = [n |-> n - s[i], taken |-> t, rest |-> <<>>]
           Bad == {i \in Nat : i \in 0 .. a /\ ~During(i)}
<1> HIDE DEF During
<1>7. Bad = {}
  <2> SUFFICES ASSUME Bad # {} PROVE FALSE
    OBVIOUS
  <2>1. PICK m \in Bad : \A k \in Bad : m <= k
    BY LeastNumber
  <2>2. During(0)
    <3>1. n - s[0] = n
      BY <1>6
    <3>2. g[0] = [n |-> n - s[0], taken |-> <<>>, rest |-> <<>>]
      BY <1>5, <3>1 DEF start
    <3> QED BY <3>2 DEF During
  <2>3. m \in 1 .. a /\ m - 1 \in 0 .. a /\ m - 1 \in Nat /\ m - 1 < m /\ m \in 1 .. a + b
    BY <1>1, <2>1, <2>2
  <2>4. ~(m - 1 \in Bad)
    BY <2>1, <2>3
  <2>5. PICK t : g[m - 1] = [n |-> n - s[m - 1], taken |-> t, rest |-> <<>>]
    BY <2>3, <2>4 DEF During
  <2>6. g[m] = TakeCell(g[m - 1], p[m])
    BY <1>2, <1>5, <2>3
  <2> DEFINE left == n - s[m - 1]
  <2>7. left # 0 /\ p[m][1] <= left /\ left - p[m][1] = n - s[m]
    <3>1. /\ s[m] = s[m - 1] + p[m][1] /\ p[m][1] \in Nat \ {0}
          /\ s[m - 1] \in Nat /\ s[m] \in Nat /\ s[m] <= Size(p) /\ Size(p) \in Nat
      BY <1>1, <1>6, <2>3
    <3>2. n >= Size(p)
      BY <3>1
    <3> QED BY <3>1, <3>2
  <2> HIDE DEF left
  <2>8. TakeCell([n |-> left, taken |-> t, rest |-> <<>>], p[m])
          = [n |-> left - p[m][1], taken |-> Append(t, p[m]), rest |-> <<>>]
    BY <2>7 DEF TakeCell
  <2>9. During(m)
    BY <2>5, <2>6, <2>7, <2>8 DEF left, During
  <2> QED BY <2>1, <2>9
<1>8. PICK t : g[a] = [n |-> n - Size(p), taken |-> t, rest |-> <<>>]
  <2>1. a \in 0 .. a
    BY <1>1
  <2>2. During(a)
    BY <1>1, <1>7, <2>1
  <2> QED BY <1>6, <2>2 DEF During
<1>9. CASE b = 0
  <2>1. q = <<>>
    BY <1>1, <1>9 DEF b
  <2>2. g[Len(cells)].rest = <<>>
    BY <1>1, <1>2, <1>8, <1>9
  <2> QED BY <1>3, <2>1, <2>2 DEF cells
<1>10. CASE b # 0
  <2>1. n - Size(p) = 0
    <3>1. q # <<>>
      BY <1>10 DEF b
    <3>2. Size(p) \in Nat
      BY <1>1, <1>6
    <3> QED BY <3>1, <3>2
  <2> DEFINE After(j) == g[a + j] = [n |-> 0, taken |-> t, rest |-> SubSeq(q, 1, j)]
             Wrong == {j \in Nat : j \in 0 .. b /\ ~After(j)}
  <2> HIDE DEF After
  <2>2. Wrong = {}
    <3> SUFFICES ASSUME Wrong # {} PROVE FALSE
      OBVIOUS
    <3>1. PICK m \in Wrong : \A k \in Wrong : m <= k
      BY LeastNumber
    <3>2. After(0)
      <4>1. SubSeq(q, 1, 0) = <<>>
        BY SubSeqEmpty
      <4>2. a + 0 = a
        BY <1>1
      <4> QED BY <1>8, <2>1, <4>1, <4>2 DEF After
    <3>3. /\ m \in 1 .. b /\ m - 1 \in 0 .. b /\ m - 1 \in Nat /\ m - 1 < m
          /\ a + m \in 1 .. a + b /\ (a + m) - 1 = a + (m - 1)
      BY <1>1, <3>1, <3>2
    <3>4. ~(m - 1 \in Wrong)
      BY <3>1, <3>3
    <3>5. g[a + (m - 1)] = [n |-> 0, taken |-> t, rest |-> SubSeq(q, 1, m - 1)]
      BY <3>3, <3>4 DEF After
    <3>6. g[a + m] = TakeCell(g[a + (m - 1)], q[m])
      BY <1>2, <1>5, <3>3
    <3>7. Append(SubSeq(q, 1, m - 1), q[m]) = SubSeq(q, 1, m)
      BY <1>1, <3>3, PrefixGrows DEF b
    <3> DEFINE old == SubSeq(q, 1, m - 1)
    <3> HIDE DEF old
    <3>8. TakeCell([n |-> 0, taken |-> t, rest |-> old], q[m]) = [n |-> 0, taken |-> t, rest |-> Append(old, q[m])]
      BY DEF TakeCell
    <3>9. After(m)
      BY <3>5, <3>6, <3>7, <3>8 DEF old, After
    <3> QED BY <3>1, <3>9
  <2>3. After(b)
    <3>1. b \in 0 .. b
      BY <1>1
    <3> QED BY <1>1, <2>2, <3>1
  <2>4. SubSeq(q, 1, b) = q
    BY <1>1, SubSeqFull DEF b
  <2>5. g[a + b].rest = q
    BY <2>3, <2>4 DEF After
  <2> QED BY <1>2, <1>3, <2>5 DEF cells
<1> QED BY <1>9, <1>10

-----------------------------------------------------------------------------
(* Frames.                                                                 *)

LEMMA SizeIsNat ==
  ASSUME NEW p, IsCells(p)
  PROVE  Size(p) \in Nat
<1>1. PICK g : Size(p) = g[Len(p)] /\ \A i \in 0 .. Len(p) : g[i] \in Nat
  BY SizeSteps
<1>2. Len(p) \in Nat
  BY DEF IsCells
<1> QED BY <1>1, <1>2

LEMMA HeaderIsCell ==
  ASSUME NEW magic, NEW c, NEW n, NEW sum
  PROVE  IsCells(Header(magic, c, n, sum))
<1> DEFINE h == [magic |-> magic, command |-> c, length |-> n, sum |-> sum]
<1> HIDE DEF h
<1>1. IsCells(<<<<24, h>>>>)
  BY OneCell
<1> QED BY <1>1 DEF h, Header, MessageHeaderSize

(* Behind the header of a stream is the payload, then the next message.    *)
LEMMA BehindHeader ==
  ASSUME NEW h, NEW p, NEW q, IsCells(p), IsCells(q)
  PROVE  /\ Head((<<<<24, h>>>> \o p) \o q) = <<24, h>>
         /\ Tail((<<<<24, h>>>> \o p) \o q) = p \o q
<1> DEFINE c == <<24, h>>
           S == {c} \cup CellsOf(p, q)
           one == <<c>>
<1> HIDE DEF c
<1>1. one \in Seq(S) /\ Len(one) = 1 /\ one[1] = c
  <2>1. c \in S
    OBVIOUS
  <2> HIDE DEF S
  <2> QED BY <2>1
<1>2. p \in Seq(CellsOf(p, q)) /\ q \in Seq(CellsOf(p, q)) /\ CellsOf(p, q) \subseteq S
  <2>1. CellsOf(p, q) \subseteq S
    OBVIOUS
  <2> HIDE DEF S
  <2> QED BY <2>1, BothAreSeq
<1> HIDE DEF S, one
<1>3. p \in Seq(S) /\ q \in Seq(S)
  BY <1>2, SeqMonotonic
<1> DEFINE r == p \o q
<1>4. r \in Seq(S)
  BY <1>3, ConcatProperties, ZenonT(40)
<1>5. (one \o p) \o q = one \o r
  <2>1. one \in Seq(S) /\ p \in Seq(S) /\ q \in Seq(S)
    BY <1>1, <1>3
  <2>3. ASSUME NEW x \in Seq(S), NEW y \in Seq(S), NEW z \in Seq(S)
        PROVE  (x \o y) \o z = x \o (y \o z)
    BY ConcatAssociative
  <2>2. (one \o p) \o q = one \o (p \o q)
    BY <2>1, <2>3
  <2> QED BY <2>2
<1> HIDE DEF r
<1> DEFINE s == one \o r
<1>6. /\ s \in Seq(S) /\ Len(s) = 1 + Len(r)
      /\ \A i \in 1 .. 1 + Len(r) : s[i] = IF i <= 1 THEN one[i] ELSE r[i - 1]
  <2>1. /\ s \in Seq(S) /\ Len(s) = Len(one) + Len(r)
        /\ \A i \in 1 .. Len(one) + Len(r) : s[i] = IF i <= Len(one) THEN one[i] ELSE r[i - Len(one)]
    BY <1>1, <1>4, ConcatProperties, ZenonT(40)
  <2> HIDE DEF s
  <2> QED BY <1>1, <2>1
<1> HIDE DEF s
<1>7. Len(r) \in Nat /\ s # <<>>
  BY <1>4, <1>6
<1>8. Head(s) = c
  BY <1>1, <1>6, <1>7
<1>9. /\ Tail(s) \in Seq(S) /\ Len(Tail(s)) = Len(r)
      /\ \A i \in 1 .. Len(r) : Tail(s)[i] = s[i + 1]
  BY <1>6, <1>7, HeadTailProperties
<1>10. \A i \in 1 .. Len(r) : Tail(s)[i] = r[i]
  BY <1>6, <1>7, <1>9
<1>11. Tail(s) = r
  BY <1>4, <1>9, <1>10, SeqEqual
<1> QED BY <1>5, <1>8, <1>11 DEF c, one, r, s

(* A header that announces the payload behind it, more than is left of a   *)
(* lost connection, or more than is read at all.                           *)
LEMMA FrameIsFrame ==
  ASSUME NEW magic, NEW c, NEW sum, NEW p, NEW q, IsCells(p), IsCells(q), NEW n \in Nat,
         n = Size(p) \/ n > MaxMessagePayload \/ (q = <<>> /\ n >= Size(p))
  PROVE  IsFrame((Header(magic, c, n, sum) \o p) \o q, q)
<1> DEFINE h == [magic |-> magic, command |-> c, length |-> n, sum |-> sum]
           s == (<<<<24, h>>>> \o p) \o q
<1>1. h.length = n
  OBVIOUS
<1>2. (Header(magic, c, n, sum) \o p) \o q = s
  BY DEF Header, MessageHeaderSize
<1> HIDE DEF h
<1>3. Head(s) = <<24, h>> /\ Tail(s) = p \o q
  BY BehindHeader
<1> HIDE DEF s
<1>4. Head(s)[2] = h
  BY <1>3
<1>5. CASE n > MaxMessagePayload
  BY <1>1, <1>2, <1>4, <1>5 DEF IsFrame
<1>6. CASE n = Size(p) \/ (q = <<>> /\ n >= Size(p))
  <2>1. TakeBytes(p \o q, n).rest = q
    BY <1>6, TakeLeaves
  <2> QED BY <1>1, <1>2, <1>3, <1>4, <2>1 DEF IsFrame
<1> QED BY <1>5, <1>6

(* What is left of a payload that is cut, prolonged or miscounted.         *)
LEMMA CorruptCells ==
  ASSUME NEW p, IsCells(p)
  PROVE  /\ IsCells(Append(p, <<1, 0>>))
         /\ p # <<>> => IsCells(Front(p))
         /\ IsCells([p EXCEPT ![1] = <<3, @[2]>>])
<1> DEFINE wide == <<3, p[1][2]>>
           S == CellsOf(p, p) \cup {<<1, 0>>, wide}
<1>1. Len(p) \in Nat /\ p \in Seq(S) /\ \A i \in 1 .. Len(p) : p[i][1] \in Nat \ {0}
  <2>3. CellsOf(p, p) \subseteq S
    OBVIOUS
  <2> HIDE DEF S
  <2>1. p \in Seq(CellsOf(p, p)) /\ CellsOf(p, p) \subseteq S
    BY <2>3, BothAreSeq
  <2>2. p \in Seq(S)
    BY <2>1, SeqMonotonic
  <2> QED BY <2>2 DEF IsCells
<1>2. IsCells(Append(p, <<1, 0>>))
  <2> DEFINE one == <<1, 0>>
             a == Append(p, one)
  <2>1. one \in S /\ one[1] = 1
    OBVIOUS
  <2> HIDE DEF one, S
  <2>2. /\ a \in Seq(S) /\ Len(a) = Len(p) + 1 /\ a[Len(p) + 1] = one
        /\ \A i \in 1 .. Len(p) : a[i] = p[i]
    BY <1>1, <2>1
  <2> HIDE DEF a
  <2>3. \A i \in 1 .. Len(a) : a[i][1] \in Nat \ {0}
    <3> SUFFICES ASSUME NEW i \in 1 .. Len(a) PROVE a[i][1] \in Nat \ {0}
      OBVIOUS
    <3>1. i \in 1 .. Len(p) \/ i = Len(p) + 1
      BY <1>1, <2>2
    <3> QED BY <1>1, <2>1, <2>2, <3>1
  <2>4. IsCells(a)
    BY <2>2, <2>3, SeqIsCells
  <2> QED BY <2>4 DEF a, one
<1>3. ASSUME p # <<>> PROVE IsCells(Front(p))
  <2> HIDE DEF S
  <2>1. Len(p) \in Nat \ {0} /\ \A i \in 1 .. Len(p) - 1 : p[i] \in S
    BY <1>1, <1>3
  <2> DEFINE f == SubSeq(p, 1, Len(p) - 1)
  <2>2. f \in Seq(S) /\ Len(f) = Len(p) - 1 /\ \A i \in 1 .. Len(p) - 1 : f[i] = p[i]
    <3> DEFINE k == Len(p) - 1
    <3>1. k \in Nat
      BY <2>1
    <3>2. \A i \in 1 .. k : p[i] \in S
      BY <2>1
    <3> HIDE DEF k
    <3>3. /\ SubSeq(p, 1, k) \in Seq(S) /\ Len(SubSeq(p, 1, k)) = IF 1 <= k THEN k - 1 + 1 ELSE 0
          /\ \A i \in 1 .. k - 1 + 1 : SubSeq(p, 1, k)[i] = p[1 + i - 1]
      BY <3>1, <3>2, SubSeqProperties
    <3>4. /\ Len(SubSeq(p, 1, k)) = k
          /\ \A i \in 1 .. k : SubSeq(p, 1, k)[i] = p[i]
      BY <3>1, <3>3
    <3> QED BY <3>3, <3>4 DEF k
  <2> HIDE DEF f
  <2>3. \A i \in 1 .. Len(f) : f[i][1] \in Nat \ {0}
    BY <1>1, <2>1, <2>2
  <2>4. IsCells(f)
    BY <2>2, <2>3, SeqIsCells
  <2> QED BY <2>4 DEF f, Front
<1>4. IsCells([p EXCEPT ![1] = <<3, @[2]>>])
  <2> DEFINE e == [p EXCEPT ![1] = wide]
  <2>1. wide \in S /\ wide[1] = 3
    OBVIOUS
  <2> HIDE DEF wide, S
  <2>2. CASE p = <<>>
    <3>1. e = p
      BY <2>2
    <3> QED BY <3>1 DEF wide
  <2>3. CASE p # <<>>
    <3>1. 1 \in 1 .. Len(p)
      BY <1>1, <2>3
    <3>2. /\ e \in Seq(S) /\ Len(e) = Len(p)
          /\ \A j \in 1 .. Len(p) : e[j] = IF j = 1 THEN wide ELSE p[j]
      BY <1>1, <2>1, <3>1, ExceptSeq
    <3> HIDE DEF e
    <3>3. \A i \in 1 .. Len(e) : e[i][1] \in Nat \ {0}
      BY <1>1, <2>1, <3>2
    <3>4. IsCells(e)
      BY <3>2, <3>3, SeqIsCells
    <3> QED BY <3>4 DEF e, wide
  <2> QED BY <2>2, <2>3
<1> QED BY <1>2, <1>3, <1>4

(* Whatever a peer makes of a payload, its frame ends at the next message. *)
LEMMA CorruptIsFrame ==
  ASSUME NEW c, NEW v, NEW f, IsCells(BtcEncode(c, v, f)), NEW how \in Corruptions,
         NEW q, IsCells(q), how = "lost" => q = <<>>
  PROVE  IsFrame(Corrupt(c, v, f, how) \o q, q)
<1> DEFINE p == BtcEncode(c, v, f)
           framed(x) == Header("net", c, Size(x), x) \o x
<1>1. IsCells(p) /\ Size(p) \in Nat
  BY SizeIsNat
<1>2. ASSUME NEW x, IsCells(x) PROVE IsFrame(framed(x) \o q, q)
  BY <1>2, SizeIsNat, FrameIsFrame
<1>3. MaxMessagePayload + 1 \in Nat /\ MaxMessagePayload + 1 > MaxMessagePayload
  BY WireAssumption
<1>4. how \in {"otherNet", "unknown", "checksum", "tooLarge", "lost", "short", "long", "wideCount", "unlimited"}
  BY WireAssumption
<1>5. CASE how = "otherNet"
  <2>1. Corrupt(c, v, f, how) = Header("other", c, Size(p), p) \o p
    BY <1>5 DEF Corrupt
  <2> QED BY <1>1, <2>1, FrameIsFrame
<1>6. CASE how = "unknown"
  <2>1. Corrupt(c, v, f, how) = Header("net", "unknown", Size(p), p) \o p
    BY <1>6 DEF Corrupt
  <2> QED BY <1>1, <2>1, FrameIsFrame
<1>7. CASE how = "checksum"
  <2>1. Corrupt(c, v, f, how) = Header("net", c, Size(p), Append(p, <<1, 0>>)) \o p
    BY <1>7 DEF Corrupt
  <2> QED BY <1>1, <2>1, FrameIsFrame
<1>8. CASE how = "tooLarge"
  <2>1. Corrupt(c, v, f, how) = Header("net", c, MaxMessagePayload + 1, p) \o p
    BY <1>8 DEF Corrupt
  <2> QED BY <1>1, <1>3, <2>1, FrameIsFrame
<1>9. CASE how = "lost"
  <2>1. Corrupt(c, v, f, how) = Header("net", c, Size(p) + 1, p) \o p
    BY <1>9 DEF Corrupt
  <2>2. Size(p) + 1 \in Nat /\ Size(p) + 1 >= Size(p)
    BY <1>1
  <2> QED BY <1>1, <1>9, <2>1, <2>2, FrameIsFrame
<1>10. CASE how = "short"
  <2> DEFINE x == IF p = <<>> THEN p ELSE Front(p)
  <2>1. Corrupt(c, v, f, how) = framed(x)
    BY <1>10 DEF Corrupt
  <2>2. IsCells(x)
    BY <1>1, CorruptCells
  <2> QED BY <1>2, <2>1, <2>2
<1>11. CASE how = "long"
  <2>1. Corrupt(c, v, f, how) = framed(Append(p, <<1, 0>>))
    BY <1>11 DEF Corrupt
  <2>2. IsCells(Append(p, <<1, 0>>))
    BY <1>1, CorruptCells
  <2> QED BY <1>2, <2>1, <2>2
<1>12. CASE how = "wideCount"
  <2> DEFINE x == IF c \in CountFirst THEN [p EXCEPT ![1] = <<3, @[2]>>] ELSE p
  <2>1. Corrupt(c, v, f, how) = framed(x)
    BY <1>12 DEF Corrupt
  <2>2. IsCells(x)
    BY <1>1, CorruptCells
  <2> QED BY <1>2, <2>1, <2>2
<1>13. CASE how = "unlimited"
  <2>1. Corrupt(c, v, f, how) = framed(p)
    BY <1>13 DEF Corrupt
  <2> QED BY <1>1, <1>2, <2>1
<1> QED BY <1>4, <1>5, <1>6, <1>7, <1>8, <1>9, <1>10, <1>11, <1>12, <1>13

-----------------------------------------------------------------------------
(* The reader.                                                             *)

(* Reading a framed message ends at the next one, unless the connection is *)
(* over or the message is more than is skipped.                            *)
LEMMA ReadEndsAtNext ==
  ASSUME NEW s, NEW v, NEW q, IsFrame(s, q)
  PROVE  \/ ReadMessage(s, v).err \in {"EOF", "too large"}
         \/ ReadMessage(s, v).rest = q
<1> DEFINE hdr == Head(s)[2]
           taken == TakeBytes(Tail(s), hdr.length)
           r == ReadMessage(s, v)
<1>1. ASSUME NEW e, NEW x PROVE Refuse(e, x).err = e /\ Refuse(e, x).rest = x
  BY DEF Refuse
<1>2. discardInput(Tail(s), hdr.length) = taken.rest
  BY DEF discardInput
<1>3. ASSUME NEW x PROVE Delivered(x, taken.rest).rest = taken.rest
  BY <1>1 DEF Delivered
<1>4. \/ ReadPayload(hdr, v, taken).err = "EOF"
      \/ ReadPayload(hdr, v, taken).rest = taken.rest
  BY <1>1, <1>3 DEF ReadPayload
<1>5. CASE Size(s) < MessageHeaderSize
  <2>1. r = Refuse("EOF", <<>>)
    BY <1>5, ZenonT(40) DEF ReadMessage
  <2>2. r.err = "EOF"
    BY <2>1 DEF Refuse
  <2> QED BY <2>2
<1>6. CASE ~(Size(s) < MessageHeaderSize) /\ hdr.length > MaxMessagePayload
  <2>1. r = Refuse("too large", Tail(s))
    BY <1>6, ZenonT(40) DEF ReadMessage
  <2>2. r.err = "too large"
    <3> HIDE DEF r
    <3> QED BY <1>1, <2>1, ZenonT(40)
  <2> QED BY <2>2
<1>7. CASE ~(Size(s) < MessageHeaderSize) /\ ~(hdr.length > MaxMessagePayload)
  <2>1. taken.rest = q
    BY <1>7 DEF IsFrame
  <2>2. \/ r = Refuse("MessageError", discardInput(Tail(s), hdr.length))
        \/ r = ReadPayload(hdr, v, taken)
    BY <1>7, ZenonT(40) DEF ReadMessage
  <2> HIDE DEF r, taken
  <2>3. CASE r = Refuse("MessageError", discardInput(Tail(s), hdr.length))
    <3>1. r.rest = discardInput(Tail(s), hdr.length)
      BY <2>3 DEF Refuse
    <3> QED BY <1>2, <2>1, <3>1 DEF r
  <2>4. CASE r = ReadPayload(hdr, v, taken)
    BY <1>4, <2>1, <2>4 DEF r
  <2> QED BY <2>2, <2>3, <2>4
<1> QED BY <1>5, <1>6, <1>7

-----------------------------------------------------------------------------
(* The connection.                                                         *)

LEMMA FrameInit == Init => FrameInv
  BY DEF Init, FrameInv, Sending, Framed, RefusedIsSkipped

LEMMA PayloadIsCells ==
  ASSUME Sending
  PROVE  IsCells(BtcEncode(msg.cmd, pver, msg.f))
<1>1. PICK i \in DOMAIN Messages : msg \in Messages[i]
  BY DEF Sending
<1> QED BY <1>1, EncodeAssumption DEF Sending

LEMMA FrameNext == FrameInv /\ [Next]_vars => FrameInv'
<1> SUFFICES ASSUME FrameInv, [Next]_vars PROVE FrameInv'
  OBVIOUS
<1>1. Sending /\ Framed /\ RefusedIsSkipped
  BY DEF FrameInv
<1> DEFINE p == BtcEncode(msg.cmd, pver, msg.f)
<1>2. IsCells(p) /\ Size(p) \in Nat /\ IsCells(VerAck)
  BY <1>1, PayloadIsCells, SizeIsNat, HeaderIsCell DEF VerAck
<1>3. CASE Send
  <2>1. Sending'
    BY <1>1, <1>3 DEF Send, Sending
  <2>2. stream' = (Header("net", msg.cmd, Size(p), p) \o p) \o later' /\ later' = VerAck
    BY <1>3 DEF Send, WriteMessage
  <2>3. IsFrame((Header("net", msg.cmd, Size(p), p) \o p) \o VerAck, VerAck)
    BY <1>2, FrameIsFrame
  <2>4. Framed'
    BY <2>2, <2>3 DEF Framed
  <2>5. RefusedIsSkipped'
    <3>1. result'.at = "sent"
      BY <1>1, <1>3 DEF Send, Sending
    <3> QED BY <3>1 DEF RefusedIsSkipped
  <2> QED BY <2>1, <2>4, <2>5 DEF FrameInv
<1>4. CASE SendCorrupt
  <2>1. Sending'
    BY <1>1, <1>4 DEF SendCorrupt, Sending
  <2>2. PICK how \in Corruptions : /\ later' = IF how = "lost" THEN <<>> ELSE VerAck
                                   /\ stream' = Corrupt(msg.cmd, pver, msg.f, how) \o later'
    BY <1>4 DEF SendCorrupt
  <2> DEFINE q == IF how = "lost" THEN <<>> ELSE VerAck
  <2>3. IsCells(q) /\ (how = "lost" => q = <<>>)
    BY <1>2, NoCells
  <2> HIDE DEF q
  <2>4. IsFrame(Corrupt(msg.cmd, pver, msg.f, how) \o q, q)
    BY <1>2, <2>3, CorruptIsFrame
  <2>5. Framed'
    BY <2>2, <2>4 DEF Framed, q
  <2>6. RefusedIsSkipped'
    <3>1. result'.at = "corrupt"
      BY <1>1, <1>4 DEF SendCorrupt, Sending
    <3> QED BY <3>1 DEF RefusedIsSkipped
  <2> QED BY <2>1, <2>5, <2>6 DEF FrameInv
<1>5. CASE Read
  <2> DEFINE r == ReadMessage(stream, pver)
  <2>1. Sending'
    BY <1>1, <1>5 DEF Read, Sending
  <2>2. /\ stream' = r.rest /\ later' = later /\ result'.err = r.err
        /\ result'.at \in {"sentRead", "corruptRead"}
    BY <1>5 DEF Read
  <2>3. Framed'
    BY <2>2 DEF Framed
  <2>4. r.err \in {"EOF", "too large"} \/ r.rest = later
    BY <1>1, <1>5, ReadEndsAtNext DEF Read, Framed
  <2>5. RefusedIsSkipped'
    BY <2>2, <2>4 DEF RefusedIsSkipped
  <2> QED BY <2>1, <2>3, <2>5 DEF FrameInv
<1>6. CASE UNCHANGED vars
  BY <1>1, <1>6 DEF vars, FrameInv, Sending, Framed, RefusedIsSkipped
<1> QED BY <1>3, <1>4, <1>5, <1>6 DEF Next

(* Every message in flight, whatever a peer framed, is followed by the     *)
(* next one where its header says.                                         *)
THEOREM FramesHold == Spec => []FrameInv
  BY FrameInit, FrameNext, PTL DEF Spec

(* ReadMessageWithEncodingN leaves the stream at the next header: a        *)
(* refused message costs the reader that message only, unless the          *)
(* connection ended or the header announced more than MaxMessagePayload.   *)
THEOREM RefusedSkips == Spec => []RefusedIsSkipped
<1>1. FrameInv => RefusedIsSkipped
  BY DEF FrameInv
<1> QED BY <1>1, FramesHold, PTL
=============================================================================

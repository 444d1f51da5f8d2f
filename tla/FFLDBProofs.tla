----------------------------- MODULE FFLDBProofs ----------------------------
(***************************************************************************)
(* Proofs about FFLDB, for any keys, blocks, goroutines, file size and     *)
(* number of failures and crashes: the store stays consistent and a commit *)
(* is atomic.                                                              *)
(***************************************************************************)
EXTENDS FFLDB, FiniteSetTheorems, SequenceTheorems, WellFoundedInduction, TLAPS

Cells == {<<b, i>> : b \in Blocks, i \in 1 .. BlockLen}

-----------------------------------------------------------------------------
(* The cells of one file.                                                  *)

LEMMA PrefixFacts ==
  ASSUME NEW C, NEW cells \in Seq(C), NEW n \in 0 .. Len(cells)
  PROVE  /\ SubSeq(cells, 1, n) \in Seq(C) /\ Len(SubSeq(cells, 1, n)) = n
         /\ \A i \in 1 .. n : SubSeq(cells, 1, n)[i] = cells[i]
<1>1. Len(cells) \in Nat /\ n \in Nat /\ n <= Len(cells) /\ DOMAIN cells = 1 .. Len(cells)
  OBVIOUS
<1>2. \A i \in 1 .. n : cells[i] \in C
  BY <1>1
<1> QED BY <1>1, <1>2, SubSeqProperties

LEMMA WriteAtFacts ==
  ASSUME NEW C, NEW cells \in Seq(C), NEW off \in 0 .. Len(cells), NEW data \in Seq(C)
  PROVE  /\ WriteAt(cells, off, data) \in Seq(C)
         /\ Len(WriteAt(cells, off, data)) \in {Len(cells), off + Len(data)}
         /\ Len(WriteAt(cells, off, data)) >= off + Len(data)
         /\ \A i \in 1 .. off : WriteAt(cells, off, data)[i] = cells[i]
         /\ \A i \in 1 .. Len(data) : WriteAt(cells, off, data)[off + i] = data[i]
<1> DEFINE a == SubSeq(cells, 1, off)
           d == SubSeq(cells, off + Len(data) + 1, Len(cells))
<1>0. off \in Nat /\ off <= Len(cells) /\ Len(cells) \in Nat /\ Len(data) \in Nat
  OBVIOUS
<1>1. a \in Seq(C) /\ Len(a) = off /\ \A i \in 1 .. off : a[i] = cells[i]
  BY PrefixFacts
<1>2. d \in Seq(C) /\ Len(d) = (IF off + Len(data) + 1 <= Len(cells) THEN Len(cells) - (off + Len(data)) ELSE 0)
  <2>1. CASE off + Len(data) + 1 <= Len(cells)
    BY <1>0, <2>1, SubSeqProperties
  <2>2. CASE off + Len(data) + 1 > Len(cells)
    BY <1>0, <2>2, SubSeqProperties
  <2> QED BY <1>0, <2>1, <2>2
<1>3. WriteAt(cells, off, data) = (a \o data) \o d
  BY DEF WriteAt
<1> HIDE DEF a, d
<1>4. a \o data \in Seq(C) /\ Len(a \o data) = off + Len(data)
  BY <1>0, <1>1, SMTT(30)
<1>5. /\ \A i \in 1 .. off : (a \o data)[i] = cells[i]
      /\ \A i \in 1 .. Len(data) : (a \o data)[off + i] = data[i]
  <2>1. \A i \in 1 .. off : (a \o data)[i] = cells[i]
    BY <1>0, <1>1
  <2>2. ASSUME NEW i \in 1 .. Len(data) PROVE (a \o data)[off + i] = data[i]
    <3>1. off + i \in 1 .. Len(a) + Len(data) /\ ~(off + i <= Len(a)) /\ (off + i) - Len(a) = i
      BY <1>0, <1>1
    <3>2. (a \o data)[off + i] = data[(off + i) - Len(a)]
      BY <1>1, <3>1, ConcatProperties
    <3> QED BY <3>1, <3>2
  <2> QED BY <2>1, <2>2
<1>6. /\ (a \o data) \o d \in Seq(C) /\ Len((a \o data) \o d) = off + Len(data) + Len(d)
      /\ \A i \in 1 .. off + Len(data) : ((a \o data) \o d)[i] = (a \o data)[i]
  <2> DEFINE e == a \o data
  <2>1. e \in Seq(C) /\ Len(e) = off + Len(data)
    BY <1>4
  <2> HIDE DEF e
  <2>2. e \o d \in Seq(C) /\ Len(e \o d) = Len(e) + Len(d)
    BY <1>2, <2>1, ConcatProperties
  <2>3. ASSUME NEW i \in 1 .. Len(e) PROVE (e \o d)[i] = e[i]
    <3>1. Len(e) \in Nat /\ Len(d) \in Nat
      BY <1>2, <2>1
    <3>2. i \in 1 .. Len(e) + Len(d) /\ i <= Len(e)
      BY <3>1
    <3> QED BY <1>2, <2>1, <3>2, ConcatProperties
  <2> QED BY <2>1, <2>2, <2>3 DEF e
<1>7. \A i \in 1 .. Len(data) : off + i \in 1 .. off + Len(data)
  BY <1>0
<1>8. \A i \in 1 .. off : i \in 1 .. off + Len(data)
  BY <1>0
<1>9. Len(WriteAt(cells, off, data)) \in {Len(cells), off + Len(data)} /\ Len(WriteAt(cells, off, data)) >= off + Len(data)
  <2>1. \A m, n, l \in Nat : l = (IF m + 1 <= n THEN n - m ELSE 0) => m + l \in {n, m} /\ m + l >= m
    OBVIOUS
  <2>2. off + Len(data) \in Nat /\ Len(d) \in Nat
    BY <1>0, <1>2
  <2>3. Len(WriteAt(cells, off, data)) = (off + Len(data)) + Len(d)
    BY <1>3, <1>6
  <2> QED BY <1>0, <1>2, <2>1, <2>2, <2>3, ZenonT(40)
<1> QED BY <1>3, <1>5, <1>6, <1>7, <1>8, <1>9

LEMMA RecordFacts ==
  ASSUME NEW b \in Blocks
  PROVE  /\ Record(b) \in Seq(Cells) /\ Len(Record(b)) = BlockLen
         /\ \A n \in 0 .. BlockLen : SubSeq(Record(b), 1, n) \in Seq(Cells) /\ Len(SubSeq(Record(b), 1, n)) = n
         /\ SubSeq(Record(b), 1, BlockLen) = Record(b)
<1>1. Record(b) \in [1 .. BlockLen -> Cells] /\ BlockLen \in Nat
  BY DEF Record, Cells, BlockLen
<1>2. Record(b) \in Seq(Cells) /\ Len(Record(b)) = BlockLen
  BY <1>1
<1>3. \A n \in 0 .. BlockLen : SubSeq(Record(b), 1, n) \in Seq(Cells) /\ Len(SubSeq(Record(b), 1, n)) = n
  BY <1>1, <1>2, PrefixFacts
<1>4. SubSeq(Record(b), 1, BlockLen) = Record(b)
  BY <1>2
<1> QED BY <1>2, <1>3, <1>4

-----------------------------------------------------------------------------
(* Positions, and sets of files.                                           *)

Pos(c) == [file |-> c.file, off |-> c.off]

(* p is not past q, and a record at p ends by q.                           *)
NotAfter(p, q) == p.file < q.file \/ (p.file = q.file /\ p.off <= q.off)
Ends(p, q) == p.file < q.file \/ (p.file = q.file /\ p.off + BlockLen <= q.off)

CellsOf(fs, f) == IF f \in DOMAIN fs THEN fs[f] ELSE <<>>

FilesOK(fs) ==
  /\ \A f \in DOMAIN fs : f \in Nat /\ fs[f] \in Seq(Cells) /\ Len(fs[f]) <= MaxFileSize
  /\ IsFiniteSet(DOMAIN fs)

(* The files reach to position p, without a gap before it.                 *)
ReachesIn(fs, p) ==
  /\ \A f \in 0 .. (p.file - 1) : f \in DOMAIN fs
  /\ p.file \in DOMAIN fs \/ p.file = 0
  /\ p.off <= Len(CellsOf(fs, p.file))

HoldsIn(fs, row, b) ==
  /\ row.file \in DOMAIN fs
  /\ row.off + BlockLen <= Len(fs[row.file])
  /\ SubSeq(fs[row.file], row.off + 1, row.off + BlockLen) = Record(b)

(* Every block row is that of a complete record that ends by q.            *)
SoundIn(fs, rows, q) ==
  \A b \in Blocks : rows[b] # None => rows[b] \in Positions /\ Ends(rows[b], q) /\ HoldsIn(fs, rows[b], b)

(* What is before q is the same in fs2 as in fs.                           *)
SameBelow(fs, fs2, q) ==
  /\ \A f \in DOMAIN fs : f <= q.file => f \in DOMAIN fs2
  /\ \A f \in DOMAIN fs : f < q.file => fs2[f] = fs[f]
  /\ q.file \in DOMAIN fs => Len(fs2[q.file]) >= q.off /\ \A i \in 1 .. q.off : fs2[q.file][i] = fs[q.file][i]

LEMMA PositionFacts ==
  /\ \A p \in Positions : p.file \in Nat /\ p.off \in Nat /\ p.off <= MaxFileSize /\ p = Pos(p)
  /\ \A c \in [file : Nat, off : 0 .. MaxFileSize, open : BOOLEAN] : Pos(c) \in Positions
  /\ \A c : Pos(c).file = c.file /\ Pos(c).off = c.off
  BY ConstantAssumption DEF Positions, Pos

LEMMA NotAfterTrans ==
  ASSUME NEW p \in Positions, NEW q \in Positions, NEW r \in Positions
  PROVE  /\ NotAfter(p, q) /\ NotAfter(q, r) => NotAfter(p, r)
         /\ Ends(p, q) /\ NotAfter(q, r) => Ends(p, r)
         /\ NotAfter(p, p)
         /\ NotAfter(p, q) \/ NotAfter(q, p)
         /\ NotAfter(p, q) /\ NotAfter(q, p) => p = q
<1>1. p.file \in Nat /\ p.off \in Nat /\ q.file \in Nat /\ q.off \in Nat /\ r.file \in Nat /\ r.off \in Nat
  BY PositionFacts
<1>2. p = Pos(p) /\ q = Pos(q)
  BY PositionFacts
<1>3. NotAfter(p, q) /\ NotAfter(q, p) => p.file = q.file /\ p.off = q.off
  BY <1>1 DEF NotAfter
<1>4. NotAfter(p, q) /\ NotAfter(q, p) => p = q
  BY <1>2, <1>3 DEF Pos
<1> QED BY <1>1, <1>4 DEF NotAfter, Ends, BlockLen

(* A record, cell by cell.                                                 *)
LEMMA HoldsAlt ==
  ASSUME NEW fs, FilesOK(fs), NEW row \in Positions, NEW b \in Blocks
  PROVE  HoldsIn(fs, row, b) <=>
           /\ row.file \in DOMAIN fs
           /\ row.off + BlockLen <= Len(fs[row.file])
           /\ \A i \in 1 .. BlockLen : fs[row.file][row.off + i] = Record(b)[i]
<1> SUFFICES ASSUME row.file \in DOMAIN fs, row.off + BlockLen <= Len(fs[row.file])
             PROVE  SubSeq(fs[row.file], row.off + 1, row.off + BlockLen) = Record(b)
                      <=> \A i \in 1 .. BlockLen : fs[row.file][row.off + i] = Record(b)[i]
  BY DEF HoldsIn
<1> DEFINE cells == fs[row.file]
           d == SubSeq(cells, row.off + 1, row.off + BlockLen)
<1>1. cells \in Seq(Cells) /\ row.off \in Nat /\ BlockLen = 2 /\ Len(cells) \in Nat
  BY PositionFacts DEF FilesOK, BlockLen
<1>2. \A i \in (row.off + 1) .. (row.off + BlockLen) : cells[i] \in Cells
  <2>1. \A i \in (row.off + 1) .. (row.off + BlockLen) : i \in 1 .. Len(cells)
    BY <1>1
  <2> QED BY <1>1, <2>1
<1>3. d \in Seq(Cells) /\ Len(d) = 2 /\ \A i \in 1 .. 2 : d[i] = cells[row.off + i]
  <2> DEFINE m == row.off + 1
             n == row.off + BlockLen
  <2>1. m \in Int /\ n \in Int /\ \A i \in m .. n : cells[i] \in Cells
    BY <1>1, <1>2
  <2>2. d = SubSeq(cells, m, n) /\ m <= n /\ n - m + 1 = 2 /\ \A i \in 1 .. 2 : m + i - 1 = row.off + i
    BY <1>1
  <2> HIDE DEF m, n, d, cells
  <2>3. /\ SubSeq(cells, m, n) \in Seq(Cells)
        /\ Len(SubSeq(cells, m, n)) = IF m <= n THEN n - m + 1 ELSE 0
        /\ \A i \in 1 .. n - m + 1 : SubSeq(cells, m, n)[i] = cells[m + i - 1]
    BY <2>1, SubSeqProperties
  <2> QED BY <2>2, <2>3
<1>4. Record(b) \in Seq(Cells) /\ Len(Record(b)) = 2
  BY <1>1, RecordFacts
<1> HIDE DEF cells, d
<1>5. d = Record(b) <=> \A i \in 1 .. 2 : d[i] = Record(b)[i]
  BY <1>3, <1>4, SeqEqual
<1> QED BY <1>1, <1>3, <1>5 DEF cells, d

(* What is complete before q stays complete.                               *)
LEMMA SameHolds ==
  ASSUME NEW fs, NEW fs2, FilesOK(fs), FilesOK(fs2), NEW q \in Positions, SameBelow(fs, fs2, q),
         NEW row \in Positions, NEW b \in Blocks, Ends(row, q), HoldsIn(fs, row, b)
  PROVE  HoldsIn(fs2, row, b)
<1>1. /\ row.file \in DOMAIN fs /\ row.off + BlockLen <= Len(fs[row.file])
      /\ \A i \in 1 .. BlockLen : fs[row.file][row.off + i] = Record(b)[i]
  BY HoldsAlt
<1>2. row.file \in Nat /\ row.off \in Nat /\ q.file \in Nat /\ q.off \in Nat /\ BlockLen = 2
  BY PositionFacts DEF BlockLen
<1>3. CASE row.file < q.file
  <2>1. row.file \in DOMAIN fs2 /\ fs2[row.file] = fs[row.file]
    BY <1>1, <1>2, <1>3 DEF SameBelow
  <2> QED BY <1>1, <2>1, HoldsAlt
<1>4. CASE row.file = q.file /\ row.off + BlockLen <= q.off
  <2>1. row.file \in DOMAIN fs2
    BY <1>1, <1>2, <1>4 DEF SameBelow
  <2>2. Len(fs2[row.file]) >= q.off /\ \A i \in 1 .. q.off : fs2[row.file][i] = fs[row.file][i]
    BY <1>1, <1>4 DEF SameBelow
  <2>3. Len(fs2[row.file]) \in Nat
    BY <2>1 DEF FilesOK
  <2>4. row.off + BlockLen <= Len(fs2[row.file])
    BY <1>2, <1>4, <2>2, <2>3
  <2>5. \A i \in 1 .. BlockLen : row.off + i \in 1 .. q.off
    BY <1>2, <1>4
  <2>6. \A i \in 1 .. BlockLen : fs2[row.file][row.off + i] = Record(b)[i]
    BY <1>1, <2>2, <2>5
  <2> QED BY <2>1, <2>4, <2>6, HoldsAlt
<1> QED BY <1>3, <1>4 DEF Ends

LEMMA SameSound ==
  ASSUME NEW fs, NEW fs2, FilesOK(fs), FilesOK(fs2), NEW q \in Positions, SameBelow(fs, fs2, q),
         NEW rows, NEW p \in Positions, NotAfter(p, q), SoundIn(fs, rows, p)
  PROVE  SoundIn(fs2, rows, p)
<1> SUFFICES ASSUME NEW b \in Blocks, rows[b] # None PROVE HoldsIn(fs2, rows[b], b)
  BY DEF SoundIn
<1>1. rows[b] \in Positions /\ Ends(rows[b], p) /\ HoldsIn(fs, rows[b], b)
  BY DEF SoundIn
<1>2. Ends(rows[b], q)
  BY <1>1, NotAfterTrans
<1> QED BY <1>1, <1>2, SameHolds

LEMMA SoundUp ==
  ASSUME NEW fs, NEW rows, NEW p \in Positions, NEW q \in Positions, NotAfter(p, q), SoundIn(fs, rows, p)
  PROVE  SoundIn(fs, rows, q)
  BY NotAfterTrans DEF SoundIn

LEMMA SameReaches ==
  ASSUME NEW fs, NEW fs2, FilesOK(fs), FilesOK(fs2), NEW q \in Positions, SameBelow(fs, fs2, q),
         NEW p \in Positions, NotAfter(p, q), ReachesIn(fs, p)
  PROVE  ReachesIn(fs2, p)
<1>1. p.file \in Nat /\ p.off \in Nat /\ q.file \in Nat /\ q.off \in Nat
  BY PositionFacts
<1>2. \A f \in 0 .. (p.file - 1) : f \in DOMAIN fs2
  <2> SUFFICES ASSUME NEW f \in 0 .. (p.file - 1) PROVE f \in DOMAIN fs2
    OBVIOUS
  <2>1. f \in DOMAIN fs /\ f <= q.file
    BY <1>1 DEF ReachesIn, NotAfter
  <2> QED BY <2>1 DEF SameBelow
<1>3. p.file \in DOMAIN fs => p.file \in DOMAIN fs2
  BY <1>1 DEF SameBelow, NotAfter
<1>4. p.off <= Len(CellsOf(fs2, p.file))
  <2>1. CASE p.file \notin DOMAIN fs
    <3>1. p.off <= 0
      BY <2>1 DEF ReachesIn, CellsOf
    <3>2. Len(CellsOf(fs2, p.file)) \in Nat
      BY DEF CellsOf, FilesOK
    <3> QED BY <1>1, <3>1, <3>2
  <2>2. CASE p.file \in DOMAIN fs /\ p.file < q.file
    BY <1>3, <2>2 DEF ReachesIn, CellsOf, SameBelow
  <2>3. CASE p.file \in DOMAIN fs /\ p.file = q.file /\ p.off <= q.off
    <3>1. Len(fs2[p.file]) \in Nat /\ Len(fs2[p.file]) >= q.off
      BY <1>3, <2>3 DEF FilesOK, SameBelow
    <3> QED BY <1>1, <1>3, <2>3, <3>1 DEF CellsOf
  <2> QED BY <2>1, <2>2, <2>3 DEF NotAfter
<1> QED BY <1>2, <1>3, <1>4 DEF ReachesIn

(* Less is the same as well.                                               *)
LEMMA SameDown ==
  ASSUME NEW fs, NEW fs2, FilesOK(fs), FilesOK(fs2), NEW q \in Positions, SameBelow(fs, fs2, q),
         NEW p \in Positions, NotAfter(p, q), ReachesIn(fs, p)
  PROVE  SameBelow(fs, fs2, p)
<1>1. p.file \in Nat /\ p.off \in Nat /\ q.file \in Nat /\ q.off \in Nat
  BY PositionFacts
<1>2. \A f \in DOMAIN fs : f \in Nat
  BY DEF FilesOK
<1>3. \A f \in DOMAIN fs : f <= p.file => f \in DOMAIN fs2
  BY <1>1, <1>2 DEF SameBelow, NotAfter
<1>4. \A f \in DOMAIN fs : f < p.file => fs2[f] = fs[f]
  BY <1>1, <1>2 DEF SameBelow, NotAfter
<1>5. ASSUME p.file \in DOMAIN fs
      PROVE  Len(fs2[p.file]) >= p.off /\ \A i \in 1 .. p.off : fs2[p.file][i] = fs[p.file][i]
  <2>1. p.file \in DOMAIN fs2 /\ Len(fs2[p.file]) \in Nat /\ Len(fs[p.file]) \in Nat
    BY <1>1, <1>3, <1>5 DEF FilesOK
  <2>2. CASE p.file < q.file
    <3>1. fs2[p.file] = fs[p.file] /\ p.off <= Len(fs[p.file])
      BY <1>5, <2>2 DEF SameBelow, ReachesIn, CellsOf
    <3> QED BY <1>1, <2>1, <3>1
  <2>3. CASE p.file = q.file /\ p.off <= q.off
    <3>1. Len(fs2[p.file]) >= q.off /\ \A i \in 1 .. q.off : fs2[p.file][i] = fs[p.file][i]
      BY <1>5, <2>3 DEF SameBelow
    <3>2. \A i \in 1 .. p.off : i \in 1 .. q.off
      BY <1>1, <2>3
    <3> QED BY <1>1, <2>1, <2>3, <3>1, <3>2
  <2> QED BY <2>2, <2>3 DEF NotAfter
<1> QED BY <1>3, <1>4, <1>5 DEF SameBelow

-----------------------------------------------------------------------------
(* Writing to and cutting files.                                           *)

(* The newer files are deleted.                                            *)
LEMMA CutFiles ==
  ASSUME NEW fs, FilesOK(fs), NEW p \in Positions, ReachesIn(fs, p),
         NEW S, \A f \in S : f \in Nat /\ f > p.file,
         NEW fs2, fs2 = Unlinked(fs, S)
  PROVE  FilesOK(fs2) /\ SameBelow(fs, fs2, p) /\ ReachesIn(fs2, p) /\ CellsOf(fs2, p.file) = CellsOf(fs, p.file)
<1>1. DOMAIN fs2 = DOMAIN fs \ S /\ \A g \in DOMAIN fs2 : fs2[g] = fs[g]
  BY DEF Unlinked
<1>2. p.file \in Nat /\ p.off \in Nat /\ \A f \in DOMAIN fs : f \in Nat
  BY PositionFacts DEF FilesOK
<1>3. \A f \in DOMAIN fs : f <= p.file => f \in DOMAIN fs2
  BY <1>1, <1>2
<1>4. FilesOK(fs2)
  <2>1. IsFiniteSet(DOMAIN fs2)
    BY <1>1, FS_Difference DEF FilesOK
  <2> QED BY <1>1, <2>1 DEF FilesOK
<1>5. p.file \in DOMAIN fs => p.file \in DOMAIN fs2
  BY <1>2, <1>3
<1>6. CellsOf(fs2, p.file) = CellsOf(fs, p.file)
  BY <1>1, <1>5 DEF CellsOf
<1>7. SameBelow(fs, fs2, p)
  <2>1. \A f \in DOMAIN fs : f < p.file => fs2[f] = fs[f]
    BY <1>1, <1>2, <1>3
  <2>2. p.file \in DOMAIN fs => fs2[p.file] = fs[p.file] /\ Len(fs[p.file]) >= p.off
    <3>1. p.file \in DOMAIN fs => p.off <= Len(fs[p.file]) /\ Len(fs[p.file]) \in Nat
      BY DEF ReachesIn, CellsOf, FilesOK
    <3> QED BY <1>1, <1>2, <1>5, <3>1
  <2> QED BY <1>3, <2>1, <2>2 DEF SameBelow
<1>8. NotAfter(p, p)
  BY NotAfterTrans
<1>9. ReachesIn(fs2, p)
  BY <1>4, <1>7, <1>8, SameReaches
<1> QED BY <1>4, <1>6, <1>7, <1>9

(* The file of p is cut or written to from p on.                           *)
Rewritten(fs, fs2, p) ==
  /\ DOMAIN fs2 = DOMAIN fs \cup {p.file} /\ \A g \in DOMAIN fs : g # p.file => fs2[g] = fs[g]
  /\ fs2[p.file] \in Seq(Cells) /\ Len(fs2[p.file]) <= MaxFileSize /\ Len(fs2[p.file]) >= p.off
  /\ \A i \in 1 .. p.off : fs2[p.file][i] = CellsOf(fs, p.file)[i]

LEMMA RewriteFile ==
  ASSUME NEW fs, FilesOK(fs), NEW p \in Positions,
         NEW fs2, Rewritten(fs, fs2, p)
  PROVE  FilesOK(fs2) /\ SameBelow(fs, fs2, p) /\ (ReachesIn(fs, p) => ReachesIn(fs2, p))
<1>1. p.file \in Nat /\ p.off \in Nat
  BY PositionFacts
<1>2. FilesOK(fs2)
  <2>1. IsFiniteSet(DOMAIN fs2)
    BY FS_AddElement, ZenonT(40) DEF FilesOK, Rewritten
  <2>2. \A f \in DOMAIN fs2 : f \in Nat /\ fs2[f] \in Seq(Cells) /\ Len(fs2[f]) <= MaxFileSize
    BY <1>1 DEF FilesOK, Rewritten
  <2> QED BY <2>1, <2>2 DEF FilesOK
<1>3. SameBelow(fs, fs2, p)
  <2>1. \A f \in DOMAIN fs : f \in Nat
    BY DEF FilesOK
  <2>2. \A f \in DOMAIN fs : f < p.file => fs2[f] = fs[f]
    BY <1>1, <2>1 DEF Rewritten
  <2>3. p.file \in DOMAIN fs => \A i \in 1 .. p.off : fs2[p.file][i] = fs[p.file][i]
    BY DEF CellsOf, Rewritten
  <2> QED BY <2>2, <2>3 DEF SameBelow, Rewritten
<1>4. NotAfter(p, p)
  BY NotAfterTrans
<1>5. ReachesIn(fs, p) => ReachesIn(fs2, p)
  BY <1>2, <1>3, <1>4, SameReaches
<1> QED BY <1>2, <1>3, <1>5

LEMMA SameTrans ==
  ASSUME NEW fs, NEW fs2, NEW fs3, FilesOK(fs), FilesOK(fs2), FilesOK(fs3), NEW p \in Positions,
         SameBelow(fs, fs2, p), SameBelow(fs2, fs3, p)
  PROVE  SameBelow(fs, fs3, p)
<1>1. p.file \in Nat /\ p.off \in Nat /\ \A f \in DOMAIN fs : f \in Nat
  BY PositionFacts DEF FilesOK
<1>2. \A f \in DOMAIN fs : f <= p.file => f \in DOMAIN fs2 /\ f \in DOMAIN fs3
  BY <1>1 DEF SameBelow
<1>3. \A f \in DOMAIN fs : f < p.file => fs3[f] = fs[f]
  BY <1>1, <1>2 DEF SameBelow
<1>4. p.file \in DOMAIN fs => p.file \in DOMAIN fs2
  BY <1>1, <1>2
<1> QED BY <1>2, <1>3, <1>4 DEF SameBelow

LEMMA SameRefl ==
  ASSUME NEW fs, FilesOK(fs), NEW p \in Positions, ReachesIn(fs, p)
  PROVE  SameBelow(fs, fs, p)
<1>1. p.file \in DOMAIN fs => Len(fs[p.file]) >= p.off
  <2>1. p.file \in DOMAIN fs => Len(fs[p.file]) \in Nat /\ p.off <= Len(fs[p.file])
    BY DEF ReachesIn, CellsOf, FilesOK
  <2> QED BY <2>1, PositionFacts
<1> QED BY <1>1 DEF SameBelow

-----------------------------------------------------------------------------
(* Layers of rows.                                                         *)

RowMaps == [Rows -> RowValues]

LEMMA EmptyFacts ==
  /\ Empty \in RowMaps /\ \A r \in Rows : Empty[r] = None
  /\ Keys \subseteq Rows /\ Blocks \subseteq Rows /\ WriteLoc \in Rows
  /\ WriteLoc \notin Keys /\ WriteLoc \notin Blocks /\ \A b \in Blocks : b \notin Keys
  /\ None \in RowValues /\ Positions \subseteq RowValues /\ Values \subseteq RowValues
  BY ConstantAssumption DEF Empty, RowMaps, RowValues, Rows

LEMMA OverlayFacts ==
  ASSUME NEW base \in RowMaps, NEW keys \in RowMaps, NEW remove
  PROVE  /\ Overlay(base, keys, remove) \in RowMaps
         /\ \A r \in Rows : Overlay(base, keys, remove)[r] =
              IF r \in remove THEN None ELSE IF keys[r] # None THEN keys[r] ELSE base[r]
  BY EmptyFacts DEF Overlay, RowMaps

LEMMA RowMapsEqual ==
  ASSUME NEW a \in RowMaps, NEW b \in RowMaps, \A r \in Rows : a[r] = b[r]
  PROVE  a = b
  BY DEF RowMaps

LEMMA OverlayEmpty ==
  ASSUME NEW base \in RowMaps
  PROVE  Overlay(base, Empty, {}) = base
<1>1. Overlay(base, Empty, {}) \in RowMaps /\ \A r \in Rows : Overlay(base, Empty, {})[r] = base[r]
  BY OverlayFacts, EmptyFacts
<1> QED BY <1>1, RowMapsEqual

(* What is written twice is written once.                                  *)
LEMMA OverlayTwice ==
  ASSUME NEW base \in RowMaps, NEW keys \in RowMaps, NEW remove
  PROVE  Overlay(Overlay(base, keys, remove), keys, remove) = Overlay(base, keys, remove)
<1> DEFINE a == Overlay(base, keys, remove)
           b == Overlay(a, keys, remove)
<1>1. a \in RowMaps /\ \A r \in Rows : a[r] = IF r \in remove THEN None ELSE IF keys[r] # None THEN keys[r] ELSE base[r]
  BY OverlayFacts
<1> HIDE DEF a
<1>2. b \in RowMaps /\ \A r \in Rows : b[r] = IF r \in remove THEN None ELSE IF keys[r] # None THEN keys[r] ELSE a[r]
  BY <1>1, OverlayFacts
<1> HIDE DEF b
<1>3. \A r \in Rows : b[r] = a[r]
  BY <1>1, <1>2
<1>4. b = a
  BY <1>1, <1>2, <1>3, RowMapsEqual
<1> QED BY <1>4 DEF a, b

(* CacheKeys and CacheRemove, of any cache.                                *)
KeysOver(keys, pk, pr) == [r \in Rows |-> IF r \in pr THEN None ELSE IF pk[r] # None THEN pk[r] ELSE keys[r]]
RemoveOver(remove, pk, pr) == (remove \ {r \in Rows : pk[r] # None}) \cup pr

(* A transaction put into the cache shows as if it were put on top of it.  *)
LEMMA OverlayOfCache ==
  ASSUME NEW base \in RowMaps, NEW keys \in RowMaps, NEW remove \in SUBSET Rows,
         NEW pk \in RowMaps, NEW pr \in SUBSET Rows
  PROVE  /\ KeysOver(keys, pk, pr) \in RowMaps /\ RemoveOver(remove, pk, pr) \in SUBSET Rows
         /\ Overlay(base, KeysOver(keys, pk, pr), RemoveOver(remove, pk, pr))
              = Overlay(Overlay(base, keys, remove), pk, pr)
<1> DEFINE ck == KeysOver(keys, pk, pr)
           cr == RemoveOver(remove, pk, pr)
<1>0. /\ \A r \in Rows : ck[r] = IF r \in pr THEN None ELSE IF pk[r] # None THEN pk[r] ELSE keys[r]
      /\ \A r \in Rows : r \in cr <=> (r \in remove /\ pk[r] = None) \/ r \in pr
  BY DEF KeysOver, RemoveOver
<1>1. ck \in RowMaps /\ cr \in SUBSET Rows
  BY EmptyFacts DEF RowMaps, KeysOver, RemoveOver
<1> HIDE DEF ck, cr
<1> DEFINE a == Overlay(base, keys, remove)
           b == Overlay(a, pk, pr)
           c == Overlay(base, ck, cr)
<1>2. a \in RowMaps /\ \A r \in Rows : a[r] = IF r \in remove THEN None ELSE IF keys[r] # None THEN keys[r] ELSE base[r]
  BY OverlayFacts
<1> HIDE DEF a
<1>3. b \in RowMaps /\ \A r \in Rows : b[r] = IF r \in pr THEN None ELSE IF pk[r] # None THEN pk[r] ELSE a[r]
  BY <1>2, OverlayFacts
<1>4. c \in RowMaps /\ \A r \in Rows : c[r] = IF r \in cr THEN None ELSE IF ck[r] # None THEN ck[r] ELSE base[r]
  BY <1>1, OverlayFacts
<1> HIDE DEF b, c
<1>5. ASSUME NEW r \in Rows PROVE c[r] = b[r]
  <2>1. CASE r \in pr
    BY <1>0, <1>3, <1>4, <2>1
  <2>2. CASE r \notin pr /\ pk[r] # None
    <3>1. ck[r] = pk[r] /\ r \notin cr
      BY <1>0, <2>2
    <3> QED BY <1>3, <1>4, <2>2, <3>1
  <2>3. CASE r \notin pr /\ pk[r] = None
    <3>1. ck[r] = keys[r] /\ (r \in cr <=> r \in remove)
      BY <1>0, <2>3
    <3> QED BY <1>2, <1>3, <1>4, <2>3, <3>1
  <2> QED BY <2>1, <2>2, <2>3
<1>6. c = b
  BY <1>3, <1>4, <1>5, RowMapsEqual
<1> QED BY <1>1, <1>6 DEF a, b, c, ck, cr

LEMMA OverlaySound ==
  ASSUME NEW fs, NEW base \in RowMaps, NEW keys \in RowMaps, NEW remove, NEW q,
         SoundIn(fs, base, q), SoundIn(fs, keys, q)
  PROVE  SoundIn(fs, Overlay(base, keys, remove), q)
<1> DEFINE a == Overlay(base, keys, remove)
<1>1. \A r \in Rows : a[r] = IF r \in remove THEN None ELSE IF keys[r] # None THEN keys[r] ELSE base[r]
  BY OverlayFacts
<1> HIDE DEF a
<1>2. \A b \in Blocks : a[b] # None => (a[b] = keys[b] /\ keys[b] # None) \/ (a[b] = base[b] /\ base[b] # None)
  BY <1>1, EmptyFacts
<1>3. SoundIn(fs, a, q)
  BY <1>2 DEF SoundIn
<1> QED BY <1>3 DEF a

LEMMA EmptySound ==
  ASSUME NEW fs, NEW q
  PROVE  SoundIn(fs, Empty, q)
  BY EmptyFacts DEF SoundIn

-----------------------------------------------------------------------------
(* scanBlockFiles.                                                         *)

LEMMA LeastNumber ==
  ASSUME NEW T \in SUBSET Nat, T # {}
  PROVE  \E x \in T : \A y \in T : x <= y
<1>1. PICK x \in T : \A y \in T : ~(<<y, x>> \in OpToRel(<, Nat))
  BY NatLessThanWellFounded, WFMin
<1>2. \A y \in T : ~(y < x)
  BY <1>1 DEF OpToRel
<1> QED BY <1>2

LEMMA FirstGap ==
  ASSUME NEW D, IsFiniteSet(D), \A d \in D : d \in Nat
  PROVE  \E n \in 0 .. Cardinality(D) : n \notin D /\ \A m \in 0 .. (n - 1) : m \in D
<1> DEFINE c == Cardinality(D)
           T == {n \in 0 .. c : n \notin D}
<1>1. c \in Nat
  BY FS_CardinalityType
<1> HIDE DEF c
<1>2. T # {}
  <2> SUFFICES ASSUME T = {} PROVE FALSE
    OBVIOUS
  <2>1. 0 .. c \in SUBSET D
    OBVIOUS
  <2>2. Cardinality(0 .. c) = c + 1
    BY <1>1, FS_Interval
  <2>3. Cardinality(0 .. c) <= c
    BY <2>1, FS_Subset DEF c
  <2> QED BY <1>1, <2>2, <2>3
<1>3. T \in SUBSET Nat
  BY <1>1
<1>4. PICK n \in T : \A y \in T : n <= y
  BY <1>2, <1>3, LeastNumber
<1>5. \A m \in 0 .. (n - 1) : m \in D
  BY <1>1, <1>4
<1> QED BY <1>4, <1>5 DEF c

(* Opening finds at least what the files reach to.                         *)
LEMMA ScanFacts ==
  ASSUME FilesOK(files), NEW q \in Positions, ReachesIn(files, q)
  PROVE  /\ ScanPosition \in [file : Nat, off : 0 .. MaxFileSize, open : BOOLEAN] /\ ScanPosition.open = FALSE
         /\ ReachesIn(files, Pos(ScanPosition)) /\ NotAfter(q, ScanPosition)
<1> DEFINE D == DOMAIN files
           P(n) == n \notin D /\ \A m \in 0 .. (n - 1) : m \in D
           n == CHOOSE x \in 0 .. Cardinality(D) : P(x)
<1>1. IsFiniteSet(D) /\ \A d \in D : d \in Nat
  BY DEF FilesOK
<1>2. \E x \in 0 .. Cardinality(D) : P(x)
  BY <1>1, FirstGap
<1>3. n \in 0 .. Cardinality(D) /\ P(n)
  BY <1>2
<1>4. Cardinality(D) \in Nat
  BY <1>1, FS_CardinalityType
<1>5. n \in Nat /\ n \notin D /\ \A m \in 0 .. (n - 1) : m \in D
  BY <1>3, <1>4
<1>6. ScanPosition = IF n = 0 THEN [file |-> 0, off |-> 0, open |-> FALSE]
                     ELSE [file |-> n - 1, off |-> Len(files[n - 1]), open |-> FALSE]
  BY DEF ScanPosition
<1> HIDE DEF n
<1> DEFINE s == ScanPosition
<1>7. q.file \in Nat /\ q.off \in Nat /\ MaxFileSize \in Nat
  BY PositionFacts, ConstantAssumption
<1>8. CASE n = 0
  <2>1. s = [file |-> 0, off |-> 0, open |-> FALSE]
    BY <1>6, <1>8
  <2> HIDE DEF s
  <2>2. s.file = 0 /\ s.off = 0 /\ s.open = FALSE /\ s \in [file : Nat, off : 0 .. MaxFileSize, open : BOOLEAN]
    BY <1>7, <2>1
  <2>3. q.file = 0 /\ q.off <= 0
    <3>1. q.file = 0
      BY <1>5, <1>7, <1>8 DEF ReachesIn
    <3>2. Len(CellsOf(files, q.file)) = 0
      BY <1>5, <1>8, <3>1 DEF CellsOf
    <3> QED BY <1>7, <3>1, <3>2 DEF ReachesIn
  <2>4. Pos(s).file = 0 /\ Pos(s).off = 0
    BY <2>2, PositionFacts
  <2>5. ReachesIn(files, Pos(s))
    <3>1. Len(CellsOf(files, 0)) = 0
      BY <1>5, <1>8 DEF CellsOf
    <3> QED BY <2>4, <3>1 DEF ReachesIn
  <2>6. NotAfter(q, s)
    BY <1>7, <2>2, <2>3 DEF NotAfter
  <2> QED BY <2>2, <2>5, <2>6 DEF s
<1>9. CASE n # 0
  <2>1. s = [file |-> n - 1, off |-> Len(files[n - 1]), open |-> FALSE]
    BY <1>6, <1>9
  <2>2. n - 1 \in Nat /\ n - 1 \in D /\ Len(files[n - 1]) \in Nat /\ Len(files[n - 1]) <= MaxFileSize
    BY <1>5, <1>9 DEF FilesOK
  <2> HIDE DEF s
  <2>3. s.file = n - 1 /\ s.off = Len(files[n - 1]) /\ s.open = FALSE /\ s \in [file : Nat, off : 0 .. MaxFileSize, open : BOOLEAN]
    BY <1>7, <2>1, <2>2
  <2>4. Pos(s).file = n - 1 /\ Pos(s).off = Len(files[n - 1])
    BY <2>3, PositionFacts
  <2>5. ReachesIn(files, Pos(s))
    <3>1. \A f \in 0 .. ((n - 1) - 1) : f \in 0 .. (n - 1)
      BY <1>5
    <3>2. CellsOf(files, n - 1) = files[n - 1]
      BY <2>2 DEF CellsOf
    <3> QED BY <1>5, <2>2, <2>4, <3>1, <3>2 DEF ReachesIn
  <2>6. q.file < n
    <3> SUFFICES ASSUME q.file >= n PROVE FALSE
      BY <1>5, <1>7
    <3>1. CASE q.file = n
      BY <1>5, <1>7, <1>9, <3>1 DEF ReachesIn
    <3>2. CASE q.file > n
      <4>1. n \in 0 .. (q.file - 1)
        BY <1>5, <1>7, <3>2
      <4> QED BY <1>5, <4>1 DEF ReachesIn
    <3> QED BY <1>5, <1>7, <3>1, <3>2
  <2>7. q.file = n - 1 => q.off <= Len(files[n - 1])
    BY <2>2 DEF ReachesIn, CellsOf
  <2>8. NotAfter(q, s)
    BY <1>5, <1>7, <2>2, <2>3, <2>6, <2>7 DEF NotAfter
  <2> QED BY <2>3, <2>5, <2>8 DEF s
<1> QED BY <1>8, <1>9

-----------------------------------------------------------------------------
(* The inductive invariant.                                                *)

Cursors == [file : Nat, off : 0 .. MaxFileSize, open : BOOLEAN]
Busy == {"write", "undo", "cache", "sync", "flush", "clear", "direct"}

DurableOK(d, fs) == \A f \in DOMAIN d : f \in DOMAIN fs /\ d[f] \in 0 .. Len(fs[f])

TxTypes ==
  /\ pc \in [Workers -> Labels]
  /\ snap \in [Workers -> [ldb : RowMaps, keys : RowMaps, remove : SUBSET Rows]]
  /\ pendingKeys \in [Workers -> RowMaps]
  /\ pendingRemove \in [Workers -> SUBSET Rows]
  /\ pendingBlocks \in [Workers -> Seq(Blocks)]
  /\ old \in [Workers -> Positions]
  /\ writeLock \in Workers \cup {None} /\ closed \in BOOLEAN

RowTypes == cachedKeys \in RowMaps /\ cachedRemove \in SUBSET Rows /\ ldb \in RowMaps /\ history \in Seq(RowMaps)

FileTypes ==
  /\ wc \in Cursors /\ FilesOK(files) /\ DurableOK(durable, files)
  /\ wc.open => wc.file \in DOMAIN files
  /\ failures \in 0 .. MaxFailures /\ crashes \in 0 .. MaxCrashes

TypeInv == TxTypes /\ RowTypes /\ FileTypes

(* Nothing before this position is written to or cut off: while a commit   *)
(* writes or undoes blocks, the position it started from.                  *)
Floor == IF writeLock # None /\ pc[writeLock] \in {"write", "undo"} THEN old[writeLock] ELSE Pos(wc)

(* Who is in a commit holds the write lock, who has no transaction holds   *)
(* no lock, and a closed database has neither cache nor transactions.      *)
LockInv ==
  /\ \A w \in Workers : pc[w] \in Busy => writeLock = w
  /\ \A w \in Workers : pc[w] = "idle" => writeLock # w
  /\ closed => cachedKeys = Empty /\ cachedRemove = {} /\ \A w \in Workers : pc[w] = "idle"

(* Only metadata is removed, and the cursor row is always there.           *)
RowInv ==
  /\ cachedRemove \subseteq Keys /\ \A w \in Workers : pendingRemove[w] \subseteq Keys
  /\ ldb[WriteLoc] \in Positions /\ Committed[WriteLoc] \in Positions
  /\ \A w \in Workers :
     /\ pc[w] \notin Busy => \A b \in Blocks : pendingKeys[w][b] = None
     /\ pc[w] \in Busy \ {"write", "undo"} => pendingKeys[w][WriteLoc] = Pos(wc)

(* Cache and leveldb along a flush.                                        *)
CacheInv ==
  /\ \A w \in Workers :
     /\ pc[w] = "direct" => cachedKeys = Empty /\ cachedRemove = {}
     /\ pc[w] = "clear" => Committed = ldb
     /\ pc[w] = "snapshot" /\ writeLock = w => snap[w].ldb = ldb
  /\ WriterSeesCommitted
  /\ LevelDbIsCommitted /\ Committed \in ToSet(history)

(* The rows, with their own cursor row, fit the files below fl.            *)
Fits(fs, fl, rows) ==
  ReachesIn(fs, rows[WriteLoc]) /\ NotAfter(rows[WriteLoc], fl) /\ SoundIn(fs, rows, rows[WriteLoc])

SnapsSound(fs, fl, sn) == \A w \in Workers : SoundIn(fs, sn[w].ldb, fl) /\ SoundIn(fs, sn[w].keys, fl)

DataInv ==
  /\ ReachesIn(files, Floor) /\ NotAfter(Floor, Pos(wc))
  /\ (\A w \in Workers : pc[w] # "undo") => ReachesIn(files, Pos(wc))
  /\ Fits(files, Floor, ldb) /\ Fits(files, Floor, Committed)
  /\ SnapsSound(files, Floor, snap)
  /\ \A w \in Workers : pc[w] \in Busy \ {"undo"} => SoundIn(files, pendingKeys[w], Pos(wc))

IInv == TypeInv /\ LockInv /\ RowInv /\ CacheInv /\ DataInv

LEMMA FitsKept ==
  ASSUME NEW fs, NEW fs2, FilesOK(fs), FilesOK(fs2), NEW fl \in Positions, SameBelow(fs, fs2, fl),
         NEW rows, rows[WriteLoc] \in Positions, Fits(fs, fl, rows)
  PROVE  Fits(fs2, fl, rows)
<1>1. ReachesIn(fs2, rows[WriteLoc])
  BY SameReaches DEF Fits
<1>2. SoundIn(fs2, rows, rows[WriteLoc])
  BY SameSound DEF Fits
<1> QED BY <1>1, <1>2 DEF Fits

LEMMA FitsUp ==
  ASSUME NEW fs, NEW fl \in Positions, NEW fl2 \in Positions, NotAfter(fl, fl2),
         NEW rows, rows[WriteLoc] \in Positions, Fits(fs, fl, rows)
  PROVE  Fits(fs, fl2, rows)
  BY NotAfterTrans DEF Fits

LEMMA SnapsKept ==
  ASSUME NEW fs, NEW fs2, FilesOK(fs), FilesOK(fs2), NEW fl \in Positions, SameBelow(fs, fs2, fl),
         NEW sn, SnapsSound(fs, fl, sn)
  PROVE  SnapsSound(fs2, fl, sn)
<1>1. NotAfter(fl, fl)
  BY NotAfterTrans
<1> QED BY <1>1, SameSound DEF SnapsSound

LEMMA SnapsUp ==
  ASSUME NEW fs, NEW fl \in Positions, NEW fl2 \in Positions, NotAfter(fl, fl2), NEW sn, SnapsSound(fs, fl, sn)
  PROVE  SnapsSound(fs, fl2, sn)
  BY SoundUp DEF SnapsSound

-----------------------------------------------------------------------------
(* What the writes and the rollback of the block files do.                 *)

LEMMA NextPositionFacts ==
  ASSUME TypeInv, ReachesIn(files, Pos(wc))
  PROVE  /\ NextPosition \in Positions /\ NextPosition.off + BlockLen <= MaxFileSize
         /\ NotAfter(Pos(wc), NextPosition)
         /\ NextPosition = Pos(wc) \/ (NextPosition.file = wc.file + 1 /\ NextPosition.off = 0 /\ wc.file \in DOMAIN files)
<1>1. wc.file \in Nat /\ wc.off \in Nat /\ wc.off <= MaxFileSize /\ MaxFileSize \in Nat /\ MaxFileSize >= 2 /\ BlockLen = 2
  BY ConstantAssumption DEF TypeInv, TxTypes, FileTypes, Cursors, BlockLen
<1>2. Pos(wc).file = wc.file /\ Pos(wc).off = wc.off
  BY PositionFacts
<1>3. CASE wc.off + BlockLen > MaxFileSize
  <2>1. NextPosition = [file |-> wc.file + 1, off |-> 0]
    BY <1>3 DEF NextPosition
  <2>2. NextPosition.file = wc.file + 1 /\ NextPosition.off = 0
    BY <2>1
  <2>3. NextPosition \in Positions
    BY <1>1, <2>1 DEF Positions
  <2>4. wc.file \in DOMAIN files
    <3> SUFFICES ASSUME wc.file \notin DOMAIN files PROVE FALSE
      OBVIOUS
    <3>1. Len(CellsOf(files, wc.file)) = 0
      BY DEF CellsOf
    <3> QED BY <1>1, <1>2, <1>3, <3>1 DEF ReachesIn
  <2> QED BY <1>1, <1>2, <2>2, <2>3, <2>4 DEF NotAfter
<1>4. CASE ~(wc.off + BlockLen > MaxFileSize)
  <2>1. NextPosition = Pos(wc)
    BY <1>4 DEF NextPosition, Pos
  <2>2. Pos(wc) \in Positions
    BY PositionFacts DEF TypeInv, TxTypes, FileTypes, Cursors
  <2> QED BY <1>1, <1>2, <1>4, <2>1, <2>2, NotAfterTrans
<1> QED BY <1>3, <1>4

LEMMA WriteDataFacts ==
  ASSUME TypeInv, ReachesIn(files, Pos(wc)), NEW b \in Blocks, NEW n \in 0 .. BlockLen,
         WriteData(NextPosition, b, n)
  PROVE  /\ FilesOK(files') /\ DurableOK(durable', files') /\ wc' \in Cursors /\ wc'.file \in DOMAIN files'
         /\ SameBelow(files, files', Pos(wc)) /\ NotAfter(Pos(wc), Pos(wc')) /\ ReachesIn(files', Pos(wc'))
         /\ n = BlockLen => HoldsIn(files', NextPosition, b) /\ Ends(NextPosition, Pos(wc'))
<1> DEFINE p == NextPosition
           data == SubSeq(Record(b), 1, n)
           cells == CellsOf(files, p.file)
           new == WriteAt(cells, p.off, data)
<1>1. /\ p \in Positions /\ p.off + BlockLen <= MaxFileSize /\ NotAfter(Pos(wc), p)
      /\ p = Pos(wc) \/ (p.file = wc.file + 1 /\ p.off = 0 /\ wc.file \in DOMAIN files)
  BY NextPositionFacts
<1>2. data \in Seq(Cells) /\ Len(data) = n
  BY RecordFacts
<1>3. /\ wc' = [file |-> p.file, off |-> p.off + n, open |-> TRUE]
      /\ durable' = With(durable, p.file, DurableBelow(p))
  BY DEF WriteData
<1>4. files' = With(files, p.file, new)
  BY DEF WriteData, Content, CellsOf
<1>5. FilesOK(files) /\ DurableOK(durable, files) /\ wc \in Cursors /\ Pos(wc) \in Positions
  BY PositionFacts DEF TypeInv, TxTypes, FileTypes, Cursors, DurableOK
<1>6. n = BlockLen => data = Record(b)
  BY RecordFacts
<1> HIDE DEF p, data
<1>7. p.file \in Nat /\ p.off \in Nat /\ BlockLen = 2 /\ n \in Nat /\ n <= 2 /\ MaxFileSize \in Nat /\ wc.file \in Nat /\ wc.off \in Nat
  BY <1>1, <1>5, PositionFacts, ConstantAssumption DEF BlockLen, Cursors
<1>8. p.off + Len(data) <= MaxFileSize
  BY <1>1, <1>2, <1>7
<1>9. cells \in Seq(Cells) /\ Len(cells) \in Nat /\ Len(cells) <= MaxFileSize /\ p.off \in 0 .. Len(cells)
  <2>1. cells \in Seq(Cells) /\ Len(cells) \in Nat /\ Len(cells) <= MaxFileSize
    BY <1>5, <1>7 DEF FilesOK, CellsOf
  <2>2. p.off <= Len(cells)
    BY <1>1, <1>7, <2>1 DEF ReachesIn
  <2> QED BY <1>7, <2>1, <2>2
<1> HIDE DEF cells
<1>10. /\ new \in Seq(Cells) /\ Len(new) \in {Len(cells), p.off + n} /\ Len(new) >= p.off + n
       /\ \A i \in 1 .. p.off : new[i] = cells[i]
       /\ \A i \in 1 .. n : new[p.off + i] = data[i]
  BY <1>2, <1>9, WriteAtFacts
<1> HIDE DEF new
<1>11. /\ FilesOK(files') /\ SameBelow(files, files', p)
       /\ DOMAIN files' = DOMAIN files \cup {p.file} /\ \A f \in DOMAIN files : f # p.file => files'[f] = files[f]
       /\ Len(files'[p.file]) >= p.off + n
       /\ \A i \in 1 .. n : files'[p.file][p.off + i] = data[i]
  <2>1. /\ DOMAIN files' = DOMAIN files \cup {p.file} /\ files'[p.file] = new
        /\ \A f \in DOMAIN files : f # p.file => files'[f] = files[f]
    <3> DEFINE g == p.file
    <3>1. files' = With(files, g, new)
      BY <1>4
    <3> HIDE DEF g
    <3>2. /\ DOMAIN files' = DOMAIN files \cup {g} /\ files'[g] = new
          /\ \A f \in DOMAIN files : f # g => files'[f] = files[f]
      BY <3>1 DEF With
    <3> QED BY <3>2 DEF g
  <2>2. Len(new) <= MaxFileSize /\ Len(new) >= p.off
    BY <1>2, <1>7, <1>8, <1>9, <1>10
  <2>3. FilesOK(files') /\ SameBelow(files, files', p)
    <3>1. Rewritten(files, files', p)
      BY <1>10, <2>1, <2>2 DEF Rewritten, cells
    <3> QED BY <1>1, <1>5, <3>1, RewriteFile
  <2> QED BY <1>10, <2>1, <2>3
<1>12. Len(files'[p.file]) \in Nat
  BY <1>11 DEF FilesOK
<1>13. wc' \in Cursors /\ wc'.file = p.file /\ wc'.off = p.off + n /\ Pos(wc').file = p.file /\ Pos(wc').off = p.off + n /\ Pos(wc') \in Positions
  <2>1. p.off + n \in 0 .. MaxFileSize
    BY <1>2, <1>7, <1>8
  <2>2. wc' \in Cursors /\ wc'.file = p.file /\ wc'.off = p.off + n
    BY <1>3, <1>7, <2>1 DEF Cursors
  <2> QED BY <2>2, PositionFacts DEF Cursors
<1>14. DurableOK(durable', files')
  <2>1. DurableBelow(p) \in Nat /\ DurableBelow(p) <= p.off
    <3>1. DurableLen(p.file) \in Nat
      BY <1>5 DEF DurableLen, DurableOK
    <3> QED BY <1>7, <3>1 DEF DurableBelow
  <2>2. /\ DOMAIN durable' = DOMAIN durable \cup {p.file} /\ durable'[p.file] = DurableBelow(p)
        /\ \A g \in DOMAIN durable : g # p.file => durable'[g] = durable[g]
    <3> DEFINE g == p.file
               d == DurableBelow(p)
    <3>1. durable' = With(durable, g, d)
      BY <1>3
    <3> HIDE DEF g, d
    <3>2. /\ DOMAIN durable' = DOMAIN durable \cup {g} /\ durable'[g] = d
          /\ \A f \in DOMAIN durable : f # g => durable'[f] = durable[f]
      BY <3>1 DEF With
    <3> QED BY <3>2 DEF g, d
  <2>3. durable'[p.file] \in 0 .. Len(files'[p.file])
    BY <1>7, <1>11, <1>12, <2>1, <2>2
  <2> QED BY <1>5, <1>11, <2>2, <2>3 DEF DurableOK
<1>15. SameBelow(files, files', Pos(wc))
  <2>1. CASE p = Pos(wc)
    BY <1>11, <2>1
  <2>2. CASE p.file = wc.file + 1 /\ p.off = 0
    <3>1. Pos(wc).file = wc.file /\ Pos(wc).off = wc.off
      BY PositionFacts
    <3>2. \A f \in DOMAIN files : f \in Nat
      BY <1>5 DEF FilesOK
    <3>3. \A f \in DOMAIN files : f <= wc.file => f \in DOMAIN files' /\ files'[f] = files[f]
      BY <1>7, <1>11, <2>2, <3>2
    <3>4. wc.file \in DOMAIN files => files'[wc.file] = files[wc.file] /\ Len(files[wc.file]) >= wc.off
      <4>1. wc.file \in DOMAIN files => Len(files[wc.file]) \in Nat /\ wc.off <= Len(files[wc.file])
        BY <1>5, <3>1 DEF FilesOK, ReachesIn, CellsOf
      <4> QED BY <1>7, <3>3, <4>1
    <3> QED BY <1>7, <3>1, <3>2, <3>3, <3>4 DEF SameBelow
  <2> QED BY <1>1, <2>1, <2>2
<1>16. NotAfter(p, Pos(wc'))
  BY <1>7, <1>13 DEF NotAfter
<1>17. NotAfter(Pos(wc), Pos(wc'))
  BY <1>1, <1>5, <1>13, <1>16, NotAfterTrans
<1>18. ReachesIn(files', Pos(wc'))
  <2>1. \A f \in 0 .. (p.file - 1) : f \in DOMAIN files
    <3>1. CASE p = Pos(wc)
      BY <3>1 DEF ReachesIn
    <3>2. CASE p.file = wc.file + 1 /\ wc.file \in DOMAIN files
      <4>1. \A f \in 0 .. (wc.file - 1) : f \in DOMAIN files
        BY PositionFacts DEF ReachesIn
      <4>2. \A f \in 0 .. (p.file - 1) : f = wc.file \/ f \in 0 .. (wc.file - 1)
        BY <1>7, <3>2
      <4> QED BY <3>2, <4>1, <4>2
    <3> QED BY <1>1, <3>1, <3>2
  <2>2. p.file \in DOMAIN files' /\ p.off + n <= Len(CellsOf(files', p.file))
    BY <1>7, <1>11, <1>12 DEF CellsOf
  <2> QED BY <1>11, <1>13, <2>1, <2>2 DEF ReachesIn
<1>19. ASSUME n = BlockLen PROVE HoldsIn(files', p, b) /\ Ends(p, Pos(wc'))
  <2>1. p.file \in DOMAIN files' /\ p.off + BlockLen <= Len(files'[p.file])
    BY <1>7, <1>11, <1>12, <1>19
  <2>2. \A i \in 1 .. BlockLen : files'[p.file][p.off + i] = Record(b)[i]
    BY <1>6, <1>11, <1>19
  <2>3. HoldsIn(files', p, b)
    BY <1>1, <1>11, <2>1, <2>2, HoldsAlt
  <2>4. Ends(p, Pos(wc'))
    BY <1>7, <1>13, <1>19 DEF Ends
  <2> QED BY <2>3, <2>4
<1> QED BY <1>11, <1>13, <1>14, <1>15, <1>17, <1>18, <1>19 DEF p

LEMMA CutDurable ==
  ASSUME NEW fs, NEW d, DurableOK(d, fs), NEW S, NEW fs2, fs2 = Unlinked(fs, S), NEW d2, d2 = Unlinked(d, S)
  PROVE  DurableOK(d2, fs2)
<1>1. DOMAIN fs2 = DOMAIN fs \ S /\ \A g \in DOMAIN fs2 : fs2[g] = fs[g]
  BY DEF Unlinked
<1>2. DOMAIN d2 = DOMAIN d \ S /\ \A g \in DOMAIN d2 : d2[g] = d[g]
  BY DEF Unlinked
<1> QED BY <1>1, <1>2 DEF DurableOK

RewrittenDurable(d, d2, p) ==
  /\ DOMAIN d2 = DOMAIN d \cup {p.file} /\ \A f \in DOMAIN d : f # p.file => d2[f] = d[f]
  /\ d2[p.file] \in 0 .. p.off

LEMMA CutCells ==
  ASSUME NEW fs, FilesOK(fs), NEW p \in Positions, ReachesIn(fs, p)
  PROVE  \A cells \in {CellsOf(fs, p.file), SubSeq(CellsOf(fs, p.file), 1, p.off)} :
           /\ cells \in Seq(Cells) /\ Len(cells) <= MaxFileSize /\ Len(cells) >= p.off
           /\ \A i \in 1 .. p.off : cells[i] = CellsOf(fs, p.file)[i]
<1> DEFINE all == CellsOf(fs, p.file)
           cut == SubSeq(all, 1, p.off)
<1>1. /\ p.off \in Nat /\ all \in Seq(Cells) /\ Len(all) \in Nat /\ Len(all) <= MaxFileSize
      /\ p.off \in 0 .. Len(all) /\ MaxFileSize \in Nat
  BY PositionFacts, ConstantAssumption DEF FilesOK, CellsOf, ReachesIn
<1> HIDE DEF all
<1>2. cut \in Seq(Cells) /\ Len(cut) = p.off /\ \A i \in 1 .. p.off : cut[i] = all[i]
  BY <1>1, PrefixFacts
<1> HIDE DEF cut
<1>3. Len(cut) <= MaxFileSize /\ Len(cut) >= p.off /\ Len(all) >= p.off
  BY <1>1, <1>2
<1>4. \A cells \in {all, cut} :
           /\ cells \in Seq(Cells) /\ Len(cells) <= MaxFileSize /\ Len(cells) >= p.off
           /\ \A i \in 1 .. p.off : cells[i] = all[i]
  BY <1>1, <1>2, <1>3
<1> QED BY <1>4 DEF all, cut

(* The newer files are deleted, the file of p is cut, perhaps at p.        *)
LEMMA CutAndRewrite ==
  ASSUME NEW fs, FilesOK(fs), NEW d, DurableOK(d, fs), NEW p \in Positions, ReachesIn(fs, p),
         NEW S, \A f \in S : f \in Nat /\ f > p.file,
         NEW fs1, fs1 = Unlinked(fs, S), NEW d1, d1 = Unlinked(d, S),
         NEW fs2, Rewritten(fs1, fs2, p), NEW d2, RewrittenDurable(d1, d2, p)
  PROVE  FilesOK(fs2) /\ DurableOK(d2, fs2) /\ SameBelow(fs, fs2, p) /\ ReachesIn(fs2, p) /\ p.file \in DOMAIN fs2
<1>1. FilesOK(fs1) /\ SameBelow(fs, fs1, p) /\ ReachesIn(fs1, p)
  BY CutFiles
<1>2. DurableOK(d1, fs1)
  BY CutDurable
<1>3. FilesOK(fs2) /\ SameBelow(fs1, fs2, p) /\ ReachesIn(fs2, p)
  BY <1>1, RewriteFile
<1>4. SameBelow(fs, fs2, p)
  BY <1>1, <1>3, SameTrans
<1>5. d2[p.file] \in 0 .. Len(fs2[p.file])
  <2>1. Len(fs2[p.file]) \in Nat /\ p.off \in Nat
    BY PositionFacts DEF Rewritten
  <2> QED BY <2>1 DEF Rewritten, RewrittenDurable
<1>6. DurableOK(d2, fs2)
  BY <1>2, <1>5 DEF DurableOK, Rewritten, RewrittenDurable
<1> QED BY <1>3, <1>4, <1>6 DEF Rewritten

LEMMA RollbackFacts ==
  ASSUME TypeInv, NEW c \in Cursors, NEW p \in Positions, ReachesIn(files, p), RollbackTo(c, p),
         c = wc \/ ~(c.file = p.file /\ c.off = p.off)
  PROVE  /\ FilesOK(files') /\ DurableOK(durable', files') /\ wc' \in Cursors /\ (wc'.open => wc'.file \in DOMAIN files')
         /\ Pos(wc') = p /\ SameBelow(files, files', p) /\ ReachesIn(files', p) /\ failures' \in 0 .. MaxFailures
<1> DEFINE S == Newer(c, p)
<1>1. FilesOK(files) /\ DurableOK(durable, files) /\ wc \in Cursors /\ failures \in 0 .. MaxFailures /\ (wc.open => wc.file \in DOMAIN files)
  BY DEF TypeInv, TxTypes, FileTypes, Cursors, DurableOK
<1>2. p.file \in Nat /\ p.off \in Nat /\ p.off <= MaxFileSize /\ MaxFileSize \in Nat /\ MaxFailures \in Nat /\ c.file \in Nat
  BY PositionFacts, ConstantAssumption DEF Cursors
<1>3. \A f \in S : f \in Nat /\ f > p.file
  BY <1>2 DEF Newer
<1>4. Fail => failures' \in 0 .. MaxFailures
  BY <1>1, <1>2 DEF Fail
<1>5. \A o \in BOOLEAN : LET v == [file |-> p.file, off |-> p.off, open |-> o] IN v \in Cursors /\ v.open = o /\ v.file = p.file /\ Pos(v) = p
  <2> TAKE o \in BOOLEAN
  <2> DEFINE v == [file |-> p.file, off |-> p.off, open |-> o]
  <2>1. v \in Cursors
    BY <1>2 DEF Cursors
  <2>2. v.open = o /\ v.file = p.file /\ v.off = p.off
    OBVIOUS
  <2>3. Pos(v) = Pos(p)
    BY <2>2 DEF Pos
  <2> QED BY <2>1, <2>2, <2>3, PositionFacts
<1>6. \A f \in Nat : DurableLen(f) \in Nat
  BY <1>1 DEF DurableLen, DurableOK
<1>7. DurableBelow(p) \in 0 .. p.off
  BY <1>2, <1>6 DEF DurableBelow
<1>8. Content(p.file) = CellsOf(files, p.file)
  BY DEF Content, CellsOf
<1>9. ASSUME NEW cells \in {Content(p.file), SubSeq(Content(p.file), 1, p.off)}, NEW k \in 0 .. p.off,
              files' = With(Unlinked(files, S), p.file, cells), durable' = With(Unlinked(durable, S), p.file, k)
       PROVE  FilesOK(files') /\ DurableOK(durable', files') /\ SameBelow(files, files', p) /\ ReachesIn(files', p) /\ p.file \in DOMAIN files'
  <2> DEFINE fs1 == Unlinked(files, S)
             d1 == Unlinked(durable, S)
             g == p.file
             x == cells
             y == k
  <2>1. files' = With(fs1, g, x) /\ durable' = With(d1, g, y)
    BY <1>9
  <2>2. /\ x \in Seq(Cells) /\ Len(x) <= MaxFileSize /\ Len(x) >= p.off
        /\ \A i \in 1 .. p.off : x[i] = CellsOf(files, p.file)[i]
    BY <1>1, <1>8, CutCells
  <2>3. fs1 = Unlinked(files, S) /\ d1 = Unlinked(durable, S) /\ y \in 0 .. p.off /\ g = p.file
    OBVIOUS
  <2> HIDE DEF fs1, d1, g, x, y, S
  <2>4. DOMAIN files' = DOMAIN fs1 \cup {g} /\ files'[g] = x /\ \A f \in DOMAIN fs1 : f # g => files'[f] = fs1[f]
    BY <2>1 DEF With
  <2>5. DOMAIN durable' = DOMAIN d1 \cup {g} /\ durable'[g] = y /\ \A f \in DOMAIN d1 : f # g => durable'[f] = d1[f]
    BY <2>1 DEF With
  <2>6. CellsOf(fs1, g) = CellsOf(files, g)
    BY <1>1, <1>3, <2>3, CutFiles
  <2>7. Rewritten(fs1, files', p) /\ RewrittenDurable(d1, durable', p)
    BY <2>2, <2>3, <2>4, <2>5, <2>6 DEF Rewritten, RewrittenDurable
  <2> QED BY <1>1, <1>3, <2>3, <2>7, CutAndRewrite
<1>10. CASE c.file = p.file /\ c.off = p.off
  <2>1. files' = files /\ durable' = durable /\ wc' = wc /\ failures' = failures
    BY <1>10 DEF RollbackTo
  <2>2. Pos(wc) = p
    <3>1. Pos(wc) = Pos(p)
      BY <1>10 DEF Pos
    <3> QED BY <3>1, PositionFacts
  <2>3. SameBelow(files, files, p)
    BY <1>1, SameRefl
  <2> QED BY <1>1, <2>1, <2>2, <2>3
<1>11. CASE /\ files' = With(Unlinked(files, S), p.file, SubSeq(Content(p.file), 1, p.off))
            /\ durable' = With(Unlinked(durable, S), p.file, p.off)
            /\ wc' = [file |-> p.file, off |-> p.off, open |-> TRUE]
            /\ UNCHANGED failures
  <2>1. FilesOK(files') /\ DurableOK(durable', files') /\ SameBelow(files, files', p) /\ ReachesIn(files', p) /\ p.file \in DOMAIN files'
    <3>1. \E cells \in {Content(p.file), SubSeq(Content(p.file), 1, p.off)} : files' = With(Unlinked(files, S), p.file, cells)
      BY <1>11
    <3>2. \E k \in 0 .. p.off : durable' = With(Unlinked(durable, S), p.file, k)
      BY <1>2, <1>11
    <3> QED BY <1>9, <3>1, <3>2
  <2> QED BY <1>1, <1>5, <1>11, <2>1
<1>12. CASE \E f \in S : /\ IF f \in DOMAIN files THEN Fail ELSE UNCHANGED failures
                         /\ files' = Unlinked(files, S \ 0 .. f)
                         /\ durable' = Unlinked(durable, S \ 0 .. f)
                         /\ wc' = [file |-> p.file, off |-> p.off, open |-> FALSE]
  <2>1. PICK f \in S : /\ IF f \in DOMAIN files THEN Fail ELSE UNCHANGED failures
                       /\ files' = Unlinked(files, S \ 0 .. f)
                       /\ durable' = Unlinked(durable, S \ 0 .. f)
                       /\ wc' = [file |-> p.file, off |-> p.off, open |-> FALSE]
    BY <1>12
  <2> DEFINE T == S \ 0 .. f
  <2>2. \A g \in T : g \in Nat /\ g > p.file
    BY <1>3
  <2>3. files' = Unlinked(files, T) /\ durable' = Unlinked(durable, T)
    BY <2>1
  <2> HIDE DEF T
  <2>4. FilesOK(files') /\ SameBelow(files, files', p) /\ ReachesIn(files', p)
    BY <1>1, <2>2, <2>3, CutFiles
  <2>5. DurableOK(durable', files')
    BY <1>1, <2>3, CutDurable
  <2>6. failures' \in 0 .. MaxFailures
    BY <1>1, <1>4, <2>1
  <2> QED BY <1>5, <2>1, <2>4, <2>5, <2>6
<1>13. CASE /\ Fail
            /\ \E open \in BOOLEAN, cells \in {Content(p.file), SubSeq(Content(p.file), 1, p.off)} :
                 /\ files' = IF open THEN With(Unlinked(files, S), p.file, cells) ELSE Unlinked(files, S)
                 /\ wc' = [file |-> p.file, off |-> p.off, open |-> open]
                 /\ durable' = IF open THEN With(Unlinked(durable, S), p.file, DurableBelow(p))
                               ELSE Unlinked(durable, S)
  <2>1. PICK open \in BOOLEAN, cells \in {Content(p.file), SubSeq(Content(p.file), 1, p.off)} :
                 /\ files' = IF open THEN With(Unlinked(files, S), p.file, cells) ELSE Unlinked(files, S)
                 /\ wc' = [file |-> p.file, off |-> p.off, open |-> open]
                 /\ durable' = IF open THEN With(Unlinked(durable, S), p.file, DurableBelow(p))
                               ELSE Unlinked(durable, S)
    BY <1>13
  <2>2. CASE open
    <3>1. \E k \in 0 .. p.off : durable' = With(Unlinked(durable, S), p.file, k)
      BY <1>7, <2>1, <2>2
    <3>2. FilesOK(files') /\ DurableOK(durable', files') /\ SameBelow(files, files', p) /\ ReachesIn(files', p) /\ p.file \in DOMAIN files'
      BY <1>9, <2>1, <2>2, <3>1
    <3> QED BY <1>4, <1>5, <1>13, <2>1, <3>2
  <2>3. CASE ~open
    <3>1. files' = Unlinked(files, S) /\ durable' = Unlinked(durable, S)
      BY <2>1, <2>3
    <3> HIDE DEF S
    <3>2. FilesOK(files') /\ SameBelow(files, files', p) /\ ReachesIn(files', p)
      BY <1>1, <1>3, <3>1, CutFiles
    <3>3. DurableOK(durable', files')
      BY <1>1, <3>1, CutDurable
    <3> QED BY <1>4, <1>5, <1>13, <2>1, <2>3, <3>2, <3>3
  <2> QED BY <2>2, <2>3
<1> QED BY <1>10, <1>11, <1>12, <1>13 DEF RollbackTo

-----------------------------------------------------------------------------
(* Steps that change the block files, under the invariant.                 *)

LEMMA LockFacts ==
  ASSUME IInv, NEW w \in Workers, pc[w] \in Busy
  PROVE  /\ writeLock = w /\ writeLock # None /\ ~closed
         /\ \A x \in Workers : x # w => pc[x] \notin Busy /\ writeLock # x
         /\ pc[w] \in {"write", "undo"} => Floor = old[w]
         /\ pc[w] \notin {"write", "undo"} => Floor = Pos(wc)
         /\ pc[w] # "undo" => ReachesIn(files, Pos(wc))
<1>1. writeLock = w /\ writeLock # None
  BY ConstantAssumption DEF IInv, LockInv
<1>2. ~closed
  BY DEF IInv, LockInv, Busy
<1>3. \A x \in Workers : x # w => pc[x] \notin Busy /\ writeLock # x
  BY <1>1 DEF IInv, LockInv
<1>4. pc[w] # "undo" => ReachesIn(files, Pos(wc))
  BY <1>3 DEF IInv, DataInv, Busy
<1> QED BY <1>1, <1>2, <1>3, <1>4 DEF Floor

LEMMA FloorType ==
  ASSUME IInv
  PROVE  Floor \in Positions /\ Pos(wc) \in Positions /\ wc \in Cursors
<1>1. Pos(wc) \in Positions /\ wc \in Cursors
  BY PositionFacts DEF IInv, TypeInv, TxTypes, FileTypes, Cursors
<1> QED BY <1>1 DEF Floor, IInv, TypeInv, TxTypes, FileTypes, Cursors

(* The files after a step, given what must stay as it is.                  *)
FilesStep(fl) ==
  /\ FilesOK(files') /\ DurableOK(durable', files') /\ wc' \in Cursors /\ (wc'.open => wc'.file \in DOMAIN files')
  /\ SameBelow(files, files', fl) /\ NotAfter(fl, Pos(wc')) /\ failures' \in 0 .. MaxFailures

LEMMA WriteBlockFacts ==
  ASSUME IInv, NEW w \in Workers, WriteBlock(w)
  PROVE  /\ FilesStep(Pos(wc)) /\ ReachesIn(files', Pos(wc')) /\ NextPosition \in Positions
         /\ Head(pendingBlocks[w]) \in Blocks /\ Tail(pendingBlocks[w]) \in Seq(Blocks)
         /\ HoldsIn(files', NextPosition, Head(pendingBlocks[w])) /\ Ends(NextPosition, Pos(wc'))
<1>1. pc[w] = "write" /\ pendingBlocks[w] # <<>> /\ WriteData(NextPosition, Head(pendingBlocks[w]), BlockLen) /\ failures' = failures
  BY DEF WriteBlock
<1>2. ReachesIn(files, Pos(wc))
  BY <1>1, LockFacts DEF Busy
<1>3. pendingBlocks[w] \in Seq(Blocks)
  BY DEF IInv, TypeInv, TxTypes, FileTypes, Cursors
<1>4. Head(pendingBlocks[w]) \in Blocks /\ Tail(pendingBlocks[w]) \in Seq(Blocks)
  BY <1>1, <1>3
<1>5. BlockLen \in 0 .. BlockLen
  BY DEF BlockLen
<1>6. TypeInv /\ failures \in 0 .. MaxFailures
  BY DEF IInv, TypeInv, TxTypes, FileTypes, Cursors
<1> DEFINE b == Head(pendingBlocks[w])
<1>7. b \in Blocks /\ WriteData(NextPosition, b, BlockLen)
  BY <1>1, <1>4
<1> HIDE DEF b
<1>8. /\ FilesOK(files') /\ DurableOK(durable', files') /\ wc' \in Cursors /\ wc'.file \in DOMAIN files'
      /\ SameBelow(files, files', Pos(wc)) /\ NotAfter(Pos(wc), Pos(wc')) /\ ReachesIn(files', Pos(wc'))
      /\ HoldsIn(files', NextPosition, b) /\ Ends(NextPosition, Pos(wc'))
  BY <1>2, <1>5, <1>6, <1>7, WriteDataFacts
<1>9. NextPosition \in Positions
  BY <1>2, <1>6, NextPositionFacts
<1> QED BY <1>1, <1>4, <1>6, <1>8, <1>9 DEF FilesStep, b

LEMMA WriteBlockFailsFacts ==
  ASSUME IInv, NEW w \in Workers, WriteBlockFails(w)
  PROVE  FilesStep(Pos(wc))
<1>1. pc[w] = "write" /\ pendingBlocks[w] # <<>> /\ Fail
  BY DEF WriteBlockFails
<1>2. ReachesIn(files, Pos(wc))
  BY <1>1, LockFacts DEF Busy
<1>3. pendingBlocks[w] \in Seq(Blocks)
  BY DEF IInv, TypeInv, TxTypes, FileTypes, Cursors
<1> DEFINE b == Head(pendingBlocks[w])
<1>4. b \in Blocks
  BY <1>1, <1>3
<1>5. TypeInv /\ failures \in 0 .. MaxFailures /\ Pos(wc) \in Positions
  BY FloorType DEF IInv, TypeInv, TxTypes, FileTypes, Cursors
<1>6. failures' \in 0 .. MaxFailures
  BY <1>1, <1>5, ConstantAssumption DEF Fail
<1>7. CASE \E n \in 0 .. (BlockLen - 1) : WriteData(NextPosition, b, n)
  <2>1. PICK n \in 0 .. (BlockLen - 1) : WriteData(NextPosition, b, n)
    BY <1>7
  <2>2. n \in 0 .. BlockLen
    BY DEF BlockLen
  <2> HIDE DEF b
  <2>3. /\ FilesOK(files') /\ DurableOK(durable', files') /\ wc' \in Cursors /\ wc'.file \in DOMAIN files'
        /\ SameBelow(files, files', Pos(wc)) /\ NotAfter(Pos(wc), Pos(wc'))
    BY <1>2, <1>4, <1>5, <2>1, <2>2, WriteDataFacts
  <2> QED BY <1>6, <2>3 DEF FilesStep
<1>8. CASE wc' = [file |-> NextPosition.file, off |-> NextPosition.off, open |-> FALSE] /\ UNCHANGED <<files, durable>>
  <2>1. NextPosition \in Positions /\ NotAfter(Pos(wc), NextPosition)
    BY <1>2, <1>5, NextPositionFacts
  <2> DEFINE p == NextPosition
  <2> HIDE DEF p
  <2>2. wc' = [file |-> p.file, off |-> p.off, open |-> FALSE] /\ p \in Positions /\ NotAfter(Pos(wc), p)
    BY <1>8, <2>1 DEF p
  <2>3. wc' \in Cursors /\ wc'.open = FALSE /\ Pos(wc') = Pos(p)
    BY <2>2 DEF Cursors, Positions, Pos
  <2>4. Pos(p) = p
    BY <2>2, PositionFacts
  <2>5. SameBelow(files, files', Pos(wc))
    BY <1>2, <1>5, <1>8, SameRefl DEF TypeInv, FileTypes
  <2>6. FilesOK(files') /\ DurableOK(durable', files')
    BY <1>5, <1>8 DEF TypeInv, TxTypes, FileTypes, Cursors, DurableOK
  <2> QED BY <1>6, <2>2, <2>3, <2>4, <2>5, <2>6 DEF FilesStep
<1> QED BY <1>7, <1>8 DEF WriteBlockFails

LEMMA UndoFacts ==
  ASSUME IInv, NEW w \in Workers, UndoWrites(w)
  PROVE  FilesStep(old[w]) /\ Pos(wc') = old[w] /\ ReachesIn(files', old[w])
<1>1. pc[w] = "undo" /\ RollbackTo(wc, old[w])
  BY DEF UndoWrites
<1>2. ReachesIn(files, old[w]) /\ old[w] \in Positions
  <2>1. Floor = old[w]
    BY <1>1, LockFacts DEF Busy
  <2> QED BY <2>1, FloorType DEF IInv, DataInv
<1>3. TypeInv /\ wc \in Cursors
  BY FloorType DEF IInv
<1> DEFINE p == old[w]
           c == wc
<1>4. RollbackTo(c, p) /\ c = wc /\ p \in Positions /\ c \in Cursors /\ ReachesIn(files, p)
  BY <1>1, <1>2, <1>3
<1> HIDE DEF p, c
<1>5. /\ FilesOK(files') /\ DurableOK(durable', files') /\ wc' \in Cursors /\ (wc'.open => wc'.file \in DOMAIN files')
      /\ Pos(wc') = p /\ SameBelow(files, files', p) /\ ReachesIn(files', p) /\ failures' \in 0 .. MaxFailures
  BY <1>3, <1>4, RollbackFacts
<1>6. NotAfter(p, p)
  BY <1>4, NotAfterTrans
<1> QED BY <1>5, <1>6 DEF FilesStep, p

LEMMA OpenFacts ==
  ASSUME IInv, Open
  PROVE  FilesStep(ldb[WriteLoc]) /\ ReachesIn(files', Pos(wc'))
<1> DEFINE p == ldb[WriteLoc]
           c == ScanPosition
<1>1. p \in Positions /\ ReachesIn(files, p) /\ TypeInv /\ FilesOK(files)
  BY DEF IInv, RowInv, DataInv, Fits, TypeInv, FileTypes
<1>2. c \in Cursors /\ c.open = FALSE /\ ReachesIn(files, Pos(c)) /\ NotAfter(p, c)
  BY <1>1, ScanFacts DEF Cursors
<1>3. IF After(c, p) THEN RollbackTo(c, p) ELSE wc' = c /\ UNCHANGED <<files, durable, failures>>
  BY DEF Open
<1> HIDE DEF p, c
<1>4. p.file \in Nat /\ p.off \in Nat /\ c.file \in Nat /\ c.off \in Nat /\ Pos(c).file = c.file /\ Pos(c).off = c.off
  BY <1>1, <1>2, PositionFacts DEF Cursors
<1>5. CASE After(c, p)
  <2>1. ~(c.file = p.file /\ c.off = p.off)
    BY <1>4, <1>5 DEF After
  <2>2. RollbackTo(c, p)
    BY <1>3, <1>5
  <2>3. /\ FilesOK(files') /\ DurableOK(durable', files') /\ wc' \in Cursors /\ (wc'.open => wc'.file \in DOMAIN files')
        /\ Pos(wc') = p /\ SameBelow(files, files', p) /\ ReachesIn(files', p) /\ failures' \in 0 .. MaxFailures
    BY <1>1, <1>2, <2>1, <2>2, RollbackFacts
  <2>4. NotAfter(p, p)
    BY <1>1, NotAfterTrans
  <2> QED BY <2>3, <2>4 DEF FilesStep, p
<1>6. CASE ~After(c, p)
  <2>1. wc' = c /\ files' = files /\ durable' = durable /\ failures' = failures
    BY <1>3, <1>6
  <2>2. SameBelow(files, files, p)
    BY <1>1, SameRefl
  <2>3. NotAfter(p, Pos(c))
    BY <1>2, <1>4 DEF NotAfter
  <2>4. DurableOK(durable, files) /\ failures \in 0 .. MaxFailures
    BY <1>1 DEF TypeInv, TxTypes, FileTypes, Cursors, DurableOK
  <2> QED BY <1>1, <1>2, <2>1, <2>2, <2>3, <2>4 DEF FilesStep, p
<1> QED BY <1>5, <1>6

-----------------------------------------------------------------------------
(* Types.                                                                  *)

LEMMA CloseType ==
  ASSUME TxTypes, NEW w \in Workers, Close(w), closed' = closed
  PROVE  TxTypes'
<1>1. NoSnap \in [ldb : RowMaps, keys : RowMaps, remove : SUBSET Rows]
  BY EmptyFacts DEF NoSnap
<1>2. [file |-> 0, off |-> 0] \in Positions
  BY ConstantAssumption DEF Positions, BlockLen
<1>3. <<>> \in Seq(Blocks) /\ "idle" \in Labels
  BY DEF Labels
<1> QED BY <1>1, <1>2, <1>3, EmptyFacts DEF Close, Goto, TxTypes

LEMMA TxTypeStep ==
  ASSUME IInv, Next
  PROVE  TxTypes'
<1> USE DEF TypeInv, IInv
<1>1. TxTypes
  OBVIOUS
<1>2. ASSUME NEW w \in Workers, NEW writable \in BOOLEAN, Begin(w, writable) PROVE TxTypes'
  <2>1. [ldb |-> ldb, keys |-> Empty, remove |-> {}] \in [ldb : RowMaps, keys : RowMaps, remove : SUBSET Rows]
    BY EmptyFacts DEF RowTypes
  <2> QED BY <1>1, <1>2, <2>1 DEF Begin, Goto, TxTypes, Labels
<1>3. ASSUME NEW w \in Workers, SnapshotCache(w) PROVE TxTypes'
  <2>1. [ldb |-> snap[w].ldb, keys |-> cachedKeys, remove |-> cachedRemove] \in [ldb : RowMaps, keys : RowMaps, remove : SUBSET Rows]
    BY <1>1 DEF RowTypes, TxTypes
  <2> QED BY <1>1, <1>3, <2>1 DEF SnapshotCache, Goto, TxTypes, Labels
<1>4. ASSUME NEW w \in Workers, NEW k \in Keys, NEW v \in Values, Put(w, k, v) PROVE TxTypes'
  <2>1. [pendingKeys[w] EXCEPT ![k] = v] \in RowMaps
    BY <1>1, EmptyFacts DEF TxTypes, RowMaps
  <2> QED BY <1>1, <1>4, <2>1 DEF Put, PutKey, TxTypes
<1>5. ASSUME NEW w \in Workers, NEW k \in Keys, Delete(w, k) PROVE TxTypes'
  <2>1. [pendingKeys[w] EXCEPT ![k] = None] \in RowMaps
    BY <1>1, EmptyFacts DEF TxTypes, RowMaps
  <2>2. pendingRemove[w] \cup {k} \in SUBSET Rows
    BY <1>1, EmptyFacts DEF TxTypes
  <2> QED BY <1>1, <1>5, <2>1, <2>2 DEF Delete, TxTypes
<1>6. ASSUME NEW w \in Workers, NEW b \in Blocks, StoreBlock(w, b) PROVE TxTypes'
  <2>1. Append(pendingBlocks[w], b) \in Seq(Blocks)
    BY <1>1 DEF TxTypes
  <2> QED BY <1>1, <1>6, <2>1 DEF StoreBlock, TxTypes
<1>7. ASSUME NEW w \in Workers, Rollback(w) PROVE TxTypes'
  BY <1>1, <1>7, CloseType DEF Rollback
<1>8. ASSUME NEW w \in Workers, Commit(w) PROVE TxTypes'
  <2>1. [file |-> wc.file, off |-> wc.off] \in Positions
    BY FloorType DEF Pos
  <2> QED BY <1>1, <1>8, <2>1 DEF Commit, Goto, TxTypes, Labels
<1>9. ASSUME NEW w \in Workers, WriteBlock(w) PROVE TxTypes'
  <2> DEFINE b == Head(pendingBlocks[w])
             p == NextPosition
  <2>1. b \in Blocks /\ Tail(pendingBlocks[w]) \in Seq(Blocks) /\ p \in Positions
    BY <1>9, WriteBlockFacts
  <2>2. PutKey(w, b, p) /\ pendingBlocks' = [pendingBlocks EXCEPT ![w] = Tail(@)]
        /\ UNCHANGED <<pc, snap, old, writeLock, closed>>
    BY <1>9 DEF WriteBlock
  <2> HIDE DEF b, p
  <2>3. [pendingKeys[w] EXCEPT ![b] = p] \in RowMaps
    BY <1>1, <2>1, EmptyFacts DEF TxTypes, RowMaps
  <2> QED BY <1>1, <2>1, <2>2, <2>3 DEF PutKey, TxTypes
<1>10. ASSUME NEW w \in Workers, WriteBlockFails(w) PROVE TxTypes'
  <2>1. Goto(w, "undo") /\ UNCHANGED <<snap, pendingKeys, pendingRemove, pendingBlocks, old, writeLock, closed>>
    BY <1>10 DEF WriteBlockFails
  <2> QED BY <1>1, <2>1 DEF Goto, TxTypes, Labels
<1>11. ASSUME NEW w \in Workers, UndoWrites(w) PROVE TxTypes'
  BY <1>1, <1>11, CloseType DEF UndoWrites
<1>12. ASSUME NEW w \in Workers, StoreCursor(w) PROVE TxTypes'
  <2>1. [file |-> wc.file, off |-> wc.off] \in Positions
    BY FloorType DEF Pos
  <2> DEFINE p == [file |-> wc.file, off |-> wc.off]
  <2>2. PutKey(w, WriteLoc, p) /\ UNCHANGED <<snap, pendingBlocks, old, writeLock, closed>>
        /\ \E label \in {"cache", "sync"} : Goto(w, label)
    BY <1>12 DEF StoreCursor
  <2> HIDE DEF p
  <2>3. [pendingKeys[w] EXCEPT ![WriteLoc] = p] \in RowMaps
    BY <1>1, <2>1, EmptyFacts DEF TxTypes, RowMaps, p
  <2> QED BY <1>1, <2>2, <2>3 DEF PutKey, Goto, TxTypes, Labels
<1>13. ASSUME NEW w \in Workers, CommitToCache(w) PROVE TxTypes'
  BY <1>1, <1>13, CloseType DEF CommitToCache
<1>14. ASSUME NEW w \in Workers, FlushSync(w) PROVE TxTypes'
  <2>1. (\E label \in {"direct", "flush"} : Goto(w, label)) /\ UNCHANGED <<snap, pendingKeys, pendingRemove, pendingBlocks, old, writeLock, closed>>
    BY <1>14 DEF FlushSync
  <2> QED BY <1>1, <2>1 DEF Goto, TxTypes, Labels
<1>15. ASSUME NEW w \in Workers, FlushCache(w) PROVE TxTypes'
  BY <1>1, <1>15 DEF FlushCache, Goto, TxTypes, Labels
<1>16. ASSUME NEW w \in Workers, ClearCache(w) PROVE TxTypes'
  BY <1>1, <1>16 DEF ClearCache, Goto, TxTypes, Labels
<1>17. ASSUME NEW w \in Workers, CommitDirect(w) PROVE TxTypes'
  BY <1>1, <1>17, CloseType DEF CommitDirect
<1>18. ASSUME NEW w \in Workers, CommitFails(w) PROVE TxTypes'
  BY <1>1, <1>18, CloseType DEF CommitFails
<1>19. CASE CloseDb
  BY <1>1, <1>19 DEF CloseDb, TxTypes, txVars
<1>20. CASE Open
  <2>1. NoSnap \in [ldb : RowMaps, keys : RowMaps, remove : SUBSET Rows]
    BY EmptyFacts DEF NoSnap
  <2>2. [file |-> 0, off |-> 0] \in Positions
    BY ConstantAssumption DEF Positions, BlockLen
  <2>3. <<>> \in Seq(Blocks) /\ "idle" \in Labels
    BY DEF Labels
  <2> QED BY <1>20, <2>1, <2>2, <2>3, EmptyFacts DEF Open, TxTypes
<1> QED BY <1>2, <1>3, <1>4, <1>5, <1>6, <1>7, <1>8, <1>9, <1>10, <1>11, <1>12, <1>13, <1>14, <1>15, <1>16, <1>17,
           <1>18, <1>19, <1>20 DEF Next, Reopen, CrashAndOpen

(* Steps that leave leveldb, the cache and the history as they are.        *)
SameRows == UNCHANGED <<cachedKeys, cachedRemove, ldb, history>>

(* Every step of a transaction that is not one of the four that move rows. *)
LEMMA RowSteps ==
  ASSUME Next
  PROVE  \/ SameRows
         \/ \E w \in Workers : CommitToCache(w) \/ FlushCache(w) \/ ClearCache(w) \/ CommitDirect(w)
         \/ CloseDb \/ Reopen \/ CrashAndOpen
<1>1. ASSUME NEW w \in Workers, NEW writable \in BOOLEAN, Begin(w, writable) PROVE SameRows
  BY <1>1 DEF Begin, SameRows
<1>2. ASSUME NEW w \in Workers, NEW k \in Keys, NEW v \in Values, Put(w, k, v) PROVE SameRows
  BY <1>2 DEF Put, SameRows
<1>3. ASSUME NEW w \in Workers, NEW k \in Keys, Delete(w, k) PROVE SameRows
  BY <1>3 DEF Delete, SameRows
<1>4. ASSUME NEW w \in Workers, NEW b \in Blocks, StoreBlock(w, b) PROVE SameRows
  BY <1>4 DEF StoreBlock, SameRows
<1>5. ASSUME NEW w \in Workers, SnapshotCache(w) \/ Rollback(w) \/ Commit(w) PROVE SameRows
  BY <1>5 DEF SnapshotCache, Rollback, Commit, SameRows
<1>6. ASSUME NEW w \in Workers, WriteBlock(w) PROVE SameRows
  BY <1>6 DEF WriteBlock, SameRows
<1>7. ASSUME NEW w \in Workers, WriteBlockFails(w) PROVE SameRows
  BY <1>7 DEF WriteBlockFails, SameRows
<1>8. ASSUME NEW w \in Workers, UndoWrites(w) \/ StoreCursor(w) \/ FlushSync(w) \/ CommitFails(w) PROVE SameRows
  BY <1>8 DEF UndoWrites, StoreCursor, FlushSync, CommitFails, SameRows
<1> QED BY <1>1, <1>2, <1>3, <1>4, <1>5, <1>6, <1>7, <1>8 DEF Next

LEMMA CommittedType ==
  ASSUME RowTypes
  PROVE  /\ Committed \in RowMaps
         /\ \A r \in Rows : Committed[r] = IF r \in cachedRemove THEN None ELSE IF cachedKeys[r] # None THEN cachedKeys[r] ELSE ldb[r]
         /\ cachedKeys = Empty /\ cachedRemove = {} => Committed = ldb
<1>1. cachedKeys = Empty /\ cachedRemove = {} => Committed = ldb
  BY OverlayEmpty DEF Committed, RowTypes
<1> QED BY <1>1, OverlayFacts DEF Committed, RowTypes

LEMMA SameCommitted ==
  ASSUME SameRows
  PROVE  Committed' = Committed
  BY DEF SameRows, Committed

(* The four steps, and what the committed rows are after them.             *)
LEMMA CommitToCacheRows ==
  ASSUME IInv, NEW w \in Workers, CommitToCache(w)
  PROVE  /\ RowTypes' /\ ldb' = ldb
         /\ Overlay(Committed, pendingKeys[w], pendingRemove[w]) \in RowMaps
         /\ Committed' = Overlay(Committed, pendingKeys[w], pendingRemove[w])
         /\ history' = Append(history, Overlay(Committed, pendingKeys[w], pendingRemove[w]))
<1> DEFINE pk == pendingKeys[w]
           pr == pendingRemove[w]
           new == Overlay(Committed, pk, pr)
           ck == CacheKeys(pk, pr)
           cr == CacheRemove(pk, pr)
<1>1. cachedKeys' = ck /\ cachedRemove' = cr /\ ldb' = ldb /\ history' = Append(history, new)
  BY DEF CommitToCache
<1>2. pk \in RowMaps /\ pr \in SUBSET Rows /\ RowTypes
  BY DEF IInv, TypeInv, TxTypes
<1>3. ck = KeysOver(cachedKeys, pk, pr) /\ cr = RemoveOver(cachedRemove, pk, pr)
  BY DEF CacheKeys, CacheRemove, KeysOver, RemoveOver
<1> HIDE DEF pk, pr, ck, cr
<1>4. Committed \in RowMaps
  BY <1>2, CommittedType
<1>5. new \in RowMaps
  BY <1>2, <1>4, OverlayFacts
<1>6. ldb \in RowMaps /\ cachedKeys \in RowMaps /\ cachedRemove \in SUBSET Rows /\ history \in Seq(RowMaps)
  BY <1>2 DEF RowTypes
<1>7. ck \in RowMaps /\ cr \in SUBSET Rows /\ Overlay(ldb, ck, cr) = Overlay(Overlay(ldb, cachedKeys, cachedRemove), pk, pr)
  BY <1>2, <1>3, <1>6, OverlayOfCache
<1>8. Committed' = new
  BY <1>1, <1>7 DEF Committed
<1> HIDE DEF new
<1>9. RowTypes'
  BY <1>1, <1>5, <1>6, <1>7 DEF RowTypes
<1> QED BY <1>1, <1>5, <1>8, <1>9 DEF new, pk, pr

LEMMA FlushCacheRows ==
  ASSUME IInv, NEW w \in Workers, FlushCache(w)
  PROVE  RowTypes' /\ ldb' = Committed /\ Committed' = Committed /\ history' = history
         /\ cachedKeys' = cachedKeys /\ cachedRemove' = cachedRemove
<1>1. RowTypes /\ Committed \in RowMaps
  BY CommittedType DEF IInv, TypeInv
<1>2. ldb' = Committed /\ cachedKeys' = cachedKeys /\ cachedRemove' = cachedRemove /\ history' = history
  BY DEF FlushCache, CommitTreaps, Committed
<1>3. Committed' = Overlay(Overlay(ldb, cachedKeys, cachedRemove), cachedKeys, cachedRemove)
  BY <1>2 DEF Committed
<1>4. Committed' = Overlay(ldb, cachedKeys, cachedRemove)
  BY <1>1, <1>3, OverlayTwice DEF RowTypes
<1> QED BY <1>1, <1>2, <1>4 DEF RowTypes, Committed

LEMMA ClearCacheRows ==
  ASSUME IInv, NEW w \in Workers, ClearCache(w)
  PROVE  RowTypes' /\ ldb' = ldb /\ Committed' = Committed /\ history' = history
         /\ cachedKeys' = Empty /\ cachedRemove' = {}
<1>1. RowTypes /\ Committed = ldb
  BY DEF IInv, TypeInv, CacheInv, ClearCache
<1>2. ldb' = ldb /\ cachedKeys' = Empty /\ cachedRemove' = {} /\ history' = history
  BY DEF ClearCache
<1>3. Committed' = Overlay(ldb, Empty, {})
  BY <1>2 DEF Committed
<1>4. Committed' = ldb
  BY <1>1, <1>3, OverlayEmpty DEF RowTypes
<1> QED BY <1>1, <1>2, <1>4, EmptyFacts DEF RowTypes

LEMMA CommitDirectRows ==
  ASSUME IInv, NEW w \in Workers, CommitDirect(w)
  PROVE  /\ RowTypes' /\ cachedKeys' = Empty /\ cachedRemove' = {}
         /\ Overlay(Committed, pendingKeys[w], pendingRemove[w]) \in RowMaps
         /\ ldb' = Overlay(Committed, pendingKeys[w], pendingRemove[w]) /\ Committed' = ldb'
         /\ history' = Append(history, Overlay(Committed, pendingKeys[w], pendingRemove[w]))
<1> DEFINE pk == pendingKeys[w]
           pr == pendingRemove[w]
           new == Overlay(Committed, pk, pr)
<1>1. RowTypes /\ cachedKeys = Empty /\ cachedRemove = {}
  BY DEF IInv, TypeInv, CacheInv, CommitDirect
<1>2. Committed = ldb /\ Committed \in RowMaps
  BY <1>1, CommittedType
<1>3. ldb' = new /\ cachedKeys' = Empty /\ cachedRemove' = {} /\ history' = Append(history, new)
  BY <1>1, <1>2 DEF CommitDirect, CommitTreaps
<1>4. pk \in RowMaps
  BY DEF IInv, TypeInv, TxTypes
<1> HIDE DEF pk, pr
<1>5. new \in RowMaps
  BY <1>2, <1>4, OverlayFacts
<1> HIDE DEF new
<1>6. Committed' = Overlay(new, Empty, {})
  BY <1>3 DEF Committed
<1>7. Committed' = new
  BY <1>5, <1>6, OverlayEmpty
<1>8. RowTypes'
  BY <1>1, <1>3, <1>5, EmptyFacts DEF RowTypes
<1> QED BY <1>3, <1>5, <1>7, <1>8 DEF new, pk, pr

LEMMA CloseDbRows ==
  ASSUME IInv, CloseDb
  PROVE  /\ RowTypes' /\ cachedKeys' = Empty /\ cachedRemove' = {} /\ history' = history
         /\ ldb' = ldb \/ ldb' = Committed
         /\ Committed' = ldb'
<1>1. RowTypes /\ Committed \in RowMaps
  BY CommittedType DEF IInv, TypeInv
<1>2. (ldb' = Committed \/ ldb' = ldb) /\ cachedKeys' = Empty /\ cachedRemove' = {} /\ history' = history
  BY DEF CloseDb, CommitTreaps, Committed
<1>3. ldb' \in RowMaps
  BY <1>1, <1>2 DEF RowTypes
<1>4. RowTypes'
  BY <1>1, <1>2, <1>3, EmptyFacts DEF RowTypes
<1>5. Committed' = Overlay(ldb', Empty, {})
  BY <1>2 DEF Committed
<1>6. Committed' = ldb'
  BY <1>3, <1>5, OverlayEmpty
<1> QED BY <1>2, <1>4, <1>6

LEMMA OpenRows ==
  ASSUME IInv, Open
  PROVE  RowTypes' /\ cachedKeys' = Empty /\ cachedRemove' = {} /\ history' = history /\ ldb' = ldb /\ Committed' = ldb
<1>1. RowTypes
  BY DEF IInv, TypeInv
<1>2. ldb' = ldb /\ cachedKeys' = Empty /\ cachedRemove' = {} /\ history' = history
  BY DEF Open
<1>3. Committed' = Overlay(ldb, Empty, {})
  BY <1>2 DEF Committed
<1>4. Committed' = ldb
  BY <1>1, <1>3, OverlayEmpty DEF RowTypes
<1> QED BY <1>1, <1>2, <1>4, EmptyFacts DEF RowTypes

LEMMA RowTypeStep ==
  ASSUME IInv, Next
  PROVE  RowTypes'
<1>1. CASE SameRows
  BY <1>1 DEF SameRows, RowTypes, IInv, TypeInv
<1> QED BY <1>1, RowSteps, CommitToCacheRows, FlushCacheRows, ClearCacheRows, CommitDirectRows, CloseDbRows, OpenRows
        DEF Reopen, CrashAndOpen

(* What a flush puts into leveldb is what was committed.                   *)
LEMMA SyncType ==
  ASSUME IInv, SyncBlocks, UNCHANGED files
  PROVE  DurableOK(durable', files')
<1>1. FileTypes
  BY DEF IInv, TypeInv
<1>2. CASE ~wc.open
  BY <1>1, <1>2 DEF SyncBlocks, FileTypes
<1>3. CASE wc.open
  <2> DEFINE g == wc.file
             k == Len(Content(wc.file))
  <2>1. wc.file \in DOMAIN files /\ k = Len(files[wc.file]) /\ k \in Nat
    BY <1>1, <1>3 DEF FileTypes, FilesOK, Content
  <2>2. durable' = With(durable, g, k)
    BY <1>3 DEF SyncBlocks
  <2>3. g \in DOMAIN files /\ k \in 0 .. Len(files[g])
    BY <2>1
  <2> HIDE DEF g, k
  <2>4. DOMAIN durable' = DOMAIN durable \cup {g} /\ durable'[g] = k /\ \A f \in DOMAIN durable : f # g => durable'[f] = durable[f]
    BY <2>2 DEF With
  <2>5. DurableOK(durable, files)
    BY <1>1 DEF FileTypes
  <2> QED BY <2>3, <2>4, <2>5 DEF DurableOK
<1> QED BY <1>2, <1>3

LEMMA FileTypeStep ==
  ASSUME IInv, Next
  PROVE  FileTypes'
<1>1. FileTypes /\ MaxFailures \in Nat /\ MaxCrashes \in Nat
  BY ConstantAssumption DEF IInv, TypeInv
<1>2. ASSUME UNCHANGED <<wc, files, durable, failures, crashes>> PROVE FileTypes'
  BY <1>1, <1>2 DEF FileTypes
<1>3. ASSUME NEW fl, FilesStep(fl), crashes' \in 0 .. MaxCrashes PROVE FileTypes'
  BY <1>3 DEF FileTypes, FilesStep
<1>4. crashes \in 0 .. MaxCrashes /\ failures \in 0 .. MaxFailures /\ (Fail => failures' \in 0 .. MaxFailures)
  BY <1>1 DEF FileTypes, Fail
<1>5. ASSUME NEW w \in Workers, NEW writable \in BOOLEAN, Begin(w, writable) PROVE FileTypes'
  BY <1>2, <1>5 DEF Begin, fileVars
<1>6. ASSUME NEW w \in Workers, NEW k \in Keys, NEW v \in Values, Put(w, k, v) PROVE FileTypes'
  BY <1>2, <1>6 DEF Put, fileVars
<1>7. ASSUME NEW w \in Workers, NEW k \in Keys, Delete(w, k) PROVE FileTypes'
  BY <1>2, <1>7 DEF Delete, fileVars
<1>8. ASSUME NEW w \in Workers, NEW b \in Blocks, StoreBlock(w, b) PROVE FileTypes'
  BY <1>2, <1>8 DEF StoreBlock, fileVars
<1>9. ASSUME NEW w \in Workers, SnapshotCache(w) \/ Rollback(w) \/ Commit(w) \/ StoreCursor(w) PROVE FileTypes'
  BY <1>2, <1>9 DEF SnapshotCache, Rollback, Commit, StoreCursor, fileVars
<1>10. ASSUME NEW w \in Workers, CommitToCache(w) \/ FlushCache(w) \/ ClearCache(w) \/ CommitDirect(w) PROVE FileTypes'
  BY <1>2, <1>10 DEF CommitToCache, FlushCache, ClearCache, CommitDirect, fileVars
<1>11. ASSUME NEW w \in Workers, WriteBlock(w) PROVE FileTypes'
  <2>1. crashes' = crashes
    BY <1>11 DEF WriteBlock
  <2> QED BY <1>3, <1>4, <1>11, <2>1, WriteBlockFacts
<1>12. ASSUME NEW w \in Workers, WriteBlockFails(w) PROVE FileTypes'
  <2>1. crashes' = crashes
    BY <1>12 DEF WriteBlockFails
  <2> QED BY <1>3, <1>4, <1>12, <2>1, WriteBlockFailsFacts
<1>13. ASSUME NEW w \in Workers, UndoWrites(w) PROVE FileTypes'
  <2>1. crashes' = crashes
    BY <1>13 DEF UndoWrites
  <2> QED BY <1>3, <1>4, <1>13, <2>1, UndoFacts
<1>14. ASSUME NEW w \in Workers, CommitFails(w) PROVE FileTypes'
  <2>1. Fail /\ UNCHANGED <<wc, files, durable, crashes>>
    BY <1>14 DEF CommitFails, fileVars
  <2> QED BY <1>1, <1>4, <2>1 DEF FileTypes
<1>15. ASSUME NEW w \in Workers, FlushSync(w) PROVE FileTypes'
  <2>1. SyncBlocks /\ UNCHANGED <<wc, files, failures, crashes>>
    BY <1>15 DEF FlushSync
  <2>2. DurableOK(durable', files')
    BY <2>1, SyncType
  <2> QED BY <1>1, <2>1, <2>2 DEF FileTypes
<1>16. CASE CloseDb
  <2>1. /\ SyncBlocks \/ UNCHANGED durable
        /\ Fail \/ UNCHANGED failures
        /\ UNCHANGED <<files, crashes>> /\ wc' = [file |-> wc.file, off |-> wc.off, open |-> FALSE]
    BY <1>16 DEF CloseDb
  <2>2. DurableOK(durable', files')
    BY <1>1, <2>1, SyncType DEF FileTypes
  <2>3. wc' \in Cursors /\ wc'.open = FALSE
    BY <1>1, <2>1 DEF FileTypes, Cursors
  <2>4. failures' \in 0 .. MaxFailures
    BY <1>4, <2>1
  <2> QED BY <1>1, <2>1, <2>2, <2>3, <2>4 DEF FileTypes
<1>17. CASE Reopen
  BY <1>3, <1>4, <1>17, OpenFacts DEF Reopen
<1>18. CASE CrashAndOpen
  <2>1. crashes' \in 0 .. MaxCrashes
    BY <1>1, <1>4, <1>18 DEF CrashAndOpen
  <2> QED BY <1>3, <1>18, <2>1, OpenFacts DEF CrashAndOpen
<1> QED BY <1>5, <1>6, <1>7, <1>8, <1>9, <1>10, <1>11, <1>12, <1>13, <1>14, <1>15, <1>16, <1>17, <1>18 DEF Next

-----------------------------------------------------------------------------
(* The locks.                                                              *)

LEMMA MoveLock ==
  ASSUME TxTypes, LockInv, ~closed, NEW w \in Workers, NEW label, label # "idle", Goto(w, label),
         writeLock' = writeLock, closed' = closed, label \in Busy => writeLock = w
  PROVE  LockInv'
  BY DEF LockInv, Goto, TxTypes

LEMMA CloseLock ==
  ASSUME TxTypes, LockInv, ~closed, NEW w \in Workers, Close(w), closed' = closed
  PROVE  LockInv'
<1>1. \A x \in Workers : x # None
  BY ConstantAssumption
<1>2. "idle" \notin Busy
  BY DEF Busy
<1> QED BY <1>1, <1>2 DEF LockInv, Goto, TxTypes, Close

LEMMA LockStep ==
  ASSUME IInv, Next
  PROVE  LockInv'
<1>1. TxTypes /\ LockInv
  BY DEF IInv, TypeInv
<1>2. \A w \in Workers : pc[w] # "idle" => ~closed
  BY <1>1 DEF LockInv
<1>3. ASSUME NEW w \in Workers, NEW writable \in BOOLEAN, Begin(w, writable) PROVE LockInv'
  <2>1. \A x \in Workers : x # None
    BY ConstantAssumption
  <2>2. "snapshot" \notin Busy /\ "idle" \notin Busy
    BY DEF Busy
  <2>3. CASE ~writable
    BY <1>1, <1>3, <2>2, <2>3, MoveLock DEF Begin
  <2>4. CASE writable
    <3>1. writeLock = None /\ writeLock' = w /\ pc' = [pc EXCEPT ![w] = "snapshot"] /\ closed' = closed /\ ~closed
      BY <1>3, <2>4 DEF Begin, Goto
    <3> QED BY <1>1, <2>1, <2>2, <3>1 DEF LockInv, TxTypes
  <2> QED BY <2>3, <2>4
<1>4. ASSUME NEW w \in Workers, SnapshotCache(w) PROVE LockInv'
  BY <1>1, <1>2, <1>4, MoveLock DEF SnapshotCache, Busy
<1>5. ASSUME UNCHANGED <<pc, writeLock, closed, cachedKeys, cachedRemove>> PROVE LockInv'
  BY <1>1, <1>5 DEF LockInv
<1>6. ASSUME NEW w \in Workers, NEW k \in Keys, NEW v \in Values, Put(w, k, v) PROVE LockInv'
  BY <1>5, <1>6 DEF Put
<1>7. ASSUME NEW w \in Workers, NEW k \in Keys, Delete(w, k) PROVE LockInv'
  BY <1>5, <1>7 DEF Delete
<1>8. ASSUME NEW w \in Workers, NEW b \in Blocks, StoreBlock(w, b) PROVE LockInv'
  BY <1>5, <1>8 DEF StoreBlock
<1>9. ASSUME NEW w \in Workers, WriteBlock(w) PROVE LockInv'
  BY <1>5, <1>9 DEF WriteBlock
<1>10. ASSUME NEW w \in Workers, Rollback(w) \/ UndoWrites(w) \/ CommitToCache(w) \/ CommitDirect(w) \/ CommitFails(w) PROVE LockInv'
  <2>1. pc[w] # "idle" /\ Close(w) /\ closed' = closed
    BY <1>10 DEF Rollback, UndoWrites, CommitToCache, CommitDirect, CommitFails
  <2> QED BY <1>1, <1>2, <2>1, CloseLock
<1>11. ASSUME NEW w \in Workers, Commit(w) PROVE LockInv'
  BY <1>1, <1>2, <1>11, MoveLock DEF Commit, Writable
<1>12. ASSUME NEW w \in Workers, WriteBlockFails(w) PROVE LockInv'
  <2>1. pc[w] = "write" /\ Goto(w, "undo") /\ writeLock' = writeLock /\ closed' = closed
    BY <1>12 DEF WriteBlockFails
  <2>2. writeLock = w
    BY <1>1, <2>1 DEF LockInv, Busy
  <2> QED BY <1>1, <1>2, <2>1, <2>2, MoveLock
<1>13. ASSUME NEW w \in Workers, StoreCursor(w) PROVE LockInv'
  <2>1. pc[w] = "write" /\ (\E label \in {"cache", "sync"} : Goto(w, label)) /\ writeLock' = writeLock /\ closed' = closed
    BY <1>13 DEF StoreCursor
  <2>2. writeLock = w
    BY <1>1, <2>1 DEF LockInv, Busy
  <2> QED BY <1>1, <1>2, <2>1, <2>2, MoveLock
<1>14. ASSUME NEW w \in Workers, FlushSync(w) PROVE LockInv'
  <2>1. pc[w] = "sync" /\ (\E label \in {"direct", "flush"} : Goto(w, label)) /\ writeLock' = writeLock /\ closed' = closed
    BY <1>14 DEF FlushSync
  <2>2. writeLock = w
    BY <1>1, <2>1 DEF LockInv, Busy
  <2> QED BY <1>1, <1>2, <2>1, <2>2, MoveLock
<1>15. ASSUME NEW w \in Workers, FlushCache(w) PROVE LockInv'
  <2>1. pc[w] = "flush" /\ Goto(w, "clear") /\ writeLock' = writeLock /\ closed' = closed
    BY <1>15 DEF FlushCache
  <2>2. writeLock = w
    BY <1>1, <2>1 DEF LockInv, Busy
  <2> QED BY <1>1, <1>2, <2>1, <2>2, MoveLock
<1>16. ASSUME NEW w \in Workers, ClearCache(w) PROVE LockInv'
  <2>1. pc[w] = "clear" /\ Goto(w, "direct") /\ writeLock' = writeLock /\ closed' = closed
    BY <1>16 DEF ClearCache
  <2>2. writeLock = w
    BY <1>1, <2>1 DEF LockInv, Busy
  <2> QED BY <1>1, <1>2, <2>1, <2>2, MoveLock
<1>17. CASE CloseDb
  <2>1. UNCHANGED <<pc, writeLock>> /\ cachedKeys' = Empty /\ cachedRemove' = {} /\ \A w \in Workers : pc[w] = "idle"
    BY <1>17 DEF CloseDb, txVars
  <2> QED BY <1>1, <2>1 DEF LockInv
<1>18. CASE Open
  <2>1. closed' = FALSE /\ writeLock' = None /\ pc' = [w \in Workers |-> "idle"]
    BY <1>18 DEF Open
  <2>2. \A x \in Workers : x # None
    BY ConstantAssumption
  <2> QED BY <2>1, <2>2 DEF LockInv, Busy
<1> QED BY <1>3, <1>4, <1>6, <1>7, <1>8, <1>9, <1>10, <1>11, <1>12, <1>13, <1>14, <1>15, <1>16, <1>17, <1>18
        DEF Next, Reopen, CrashAndOpen

-----------------------------------------------------------------------------
(* The rows that are there.                                                *)

(* What is pending for w, at label, with the cursor at pos.                *)
Pending(label, keys, remove, pos) ==
  /\ remove \subseteq Keys
  /\ label \notin Busy => \A b \in Blocks : keys[b] = None
  /\ label \in Busy \ {"write", "undo"} => keys[WriteLoc] = pos

CursorRows ==
  cachedRemove \subseteq Keys /\ ldb[WriteLoc] \in Positions /\ Committed[WriteLoc] \in Positions

LEMMA RowParts ==
  RowInv <=> CursorRows /\ \A w \in Workers : Pending(pc[w], pendingKeys[w], pendingRemove[w], Pos(wc))
  BY DEF RowInv, CursorRows, Pending

LEMMA CommittedCursor ==
  ASSUME IInv, NEW w \in Workers, pc[w] \in Busy \ {"write", "undo"}
  PROVE  /\ Overlay(Committed, pendingKeys[w], pendingRemove[w])[WriteLoc] = Pos(wc)
         /\ Pos(wc) \in Positions
<1>1. pendingKeys[w][WriteLoc] = Pos(wc) /\ pendingRemove[w] \subseteq Keys
  BY DEF IInv, RowInv
<1>2. Pos(wc) \in Positions /\ Pos(wc) # None
  BY FloorType, ConstantAssumption
<1>3. Committed \in RowMaps /\ pendingKeys[w] \in RowMaps
  BY CommittedType DEF IInv, TypeInv, TxTypes
<1>4. WriteLoc \in Rows /\ WriteLoc \notin pendingRemove[w]
  BY <1>1, EmptyFacts
<1>5. Overlay(Committed, pendingKeys[w], pendingRemove[w])[WriteLoc] = pendingKeys[w][WriteLoc]
  BY <1>1, <1>2, <1>3, <1>4, OverlayFacts
<1> QED BY <1>1, <1>2, <1>5

LEMMA CursorRowStep ==
  ASSUME IInv, Next
  PROVE  CursorRows'
<1>1. CursorRows
  BY DEF CursorRows, IInv, RowInv
<1>2. CASE SameRows
  <2>1. Committed' = Committed
    BY <1>2, SameCommitted
  <2> QED BY <1>1, <1>2, <2>1 DEF CursorRows, SameRows
<1>3. ASSUME NEW w \in Workers, CommitToCache(w) PROVE CursorRows'
  <2>1. pc[w] \in Busy \ {"write", "undo"} /\ cachedRemove' = CacheRemove(pendingKeys[w], pendingRemove[w])
    BY <1>3 DEF CommitToCache, Busy
  <2>2. Committed'[WriteLoc] \in Positions /\ ldb' = ldb
    BY <1>3, <2>1, CommitToCacheRows, CommittedCursor
  <2>3. pendingRemove[w] \subseteq Keys
    BY DEF IInv, RowInv
  <2>4. cachedRemove' \subseteq Keys
    BY <1>1, <2>1, <2>3 DEF CacheRemove, CursorRows
  <2> QED BY <1>1, <2>2, <2>4 DEF CursorRows
<1>4. ASSUME NEW w \in Workers, FlushCache(w) PROVE CursorRows'
  <2>1. ldb' = Committed /\ Committed' = Committed /\ cachedRemove' = cachedRemove
    BY <1>4, FlushCacheRows
  <2> QED BY <1>1, <2>1 DEF CursorRows
<1>5. ASSUME NEW w \in Workers, ClearCache(w) PROVE CursorRows'
  <2>1. ldb' = ldb /\ Committed' = Committed /\ cachedRemove' = {}
    BY <1>5, ClearCacheRows
  <2> QED BY <1>1, <2>1 DEF CursorRows
<1>6. ASSUME NEW w \in Workers, CommitDirect(w) PROVE CursorRows'
  <2>1. pc[w] \in Busy \ {"write", "undo"}
    BY <1>6 DEF CommitDirect, Busy
  <2>2. Committed'[WriteLoc] \in Positions /\ ldb' = Committed' /\ cachedRemove' = {}
    BY <1>6, <2>1, CommitDirectRows, CommittedCursor
  <2> QED BY <2>2 DEF CursorRows
<1>7. CASE CloseDb
  <2>1. (ldb' = ldb \/ ldb' = Committed) /\ Committed' = ldb' /\ cachedRemove' = {}
    BY <1>7, CloseDbRows
  <2> QED BY <1>1, <2>1 DEF CursorRows
<1>8. CASE Open
  <2>1. ldb' = ldb /\ Committed' = ldb /\ cachedRemove' = {}
    BY <1>8, OpenRows
  <2> QED BY <1>1, <2>1 DEF CursorRows
<1> QED BY <1>2, <1>3, <1>4, <1>5, <1>6, <1>7, <1>8, RowSteps DEF Reopen, CrashAndOpen

(* A step of w leaves what is pending for the others.                      *)
LEMMA PendingOthers ==
  ASSUME IInv, NEW w \in Workers, Pos(wc') = Pos(wc) \/ pc[w] \in Busy,
         \A x \in Workers : x # w => pc'[x] = pc[x] /\ pendingKeys'[x] = pendingKeys[x] /\ pendingRemove'[x] = pendingRemove[x],
         Pending(pc'[w], pendingKeys'[w], pendingRemove'[w], Pos(wc'))
  PROVE  \A x \in Workers : Pending(pc'[x], pendingKeys'[x], pendingRemove'[x], Pos(wc'))
<1> SUFFICES ASSUME NEW x \in Workers, x # w
             PROVE  Pending(pc'[x], pendingKeys'[x], pendingRemove'[x], Pos(wc'))
  OBVIOUS
<1>1. Pending(pc[x], pendingKeys[x], pendingRemove[x], Pos(wc))
  BY RowParts DEF IInv
<1>2. Pos(wc') = Pos(wc) \/ pc[x] \notin Busy
  BY LockFacts
<1>3. Pending(pc[x], pendingKeys[x], pendingRemove[x], Pos(wc'))
  BY <1>1, <1>2 DEF Pending
<1> QED BY <1>3

LEMMA PendingStep ==
  ASSUME IInv, Next
  PROVE  \A x \in Workers : Pending(pc'[x], pendingKeys'[x], pendingRemove'[x], Pos(wc'))
<1> DEFINE All == \A x \in Workers : Pending(pc'[x], pendingKeys'[x], pendingRemove'[x], Pos(wc'))
<1>1. TxTypes /\ \A x \in Workers : Pending(pc[x], pendingKeys[x], pendingRemove[x], Pos(wc))
  BY RowParts DEF IInv, TypeInv
<1>2. ASSUME NEW w \in Workers, NEW label \in Labels, Goto(w, label), UNCHANGED <<pendingKeys, pendingRemove, wc>>,
             pc[w] \notin Busy, label \in {"snapshot", "open", "write"}
      PROVE  All
  <2>1. pc'[w] = label /\ \A x \in Workers : x # w => pc'[x] = pc[x]
    BY <1>1, <1>2 DEF TxTypes, Goto
  <2>2. Pending(label, pendingKeys[w], pendingRemove[w], Pos(wc))
    BY <1>1, <1>2 DEF Pending, Busy
  <2> QED BY <1>2, <2>1, <2>2, PendingOthers
<1>3. ASSUME NEW w \in Workers, NEW label \in Labels, Goto(w, label), UNCHANGED <<pendingKeys, pendingRemove>>,
             label \in Busy, pc[w] \in Busy, label = "undo" \/ (UNCHANGED wc /\ pc[w] \notin {"write", "undo"})
      PROVE  All
  <2>1. pc'[w] = label /\ \A x \in Workers : x # w => pc'[x] = pc[x]
    BY <1>1, <1>3 DEF TxTypes, Goto
  <2>2. Pending(label, pendingKeys[w], pendingRemove[w], Pos(wc'))
    BY <1>1, <1>3 DEF Pending
  <2> QED BY <1>3, <2>1, <2>2, PendingOthers
<1>4. ASSUME NEW w \in Workers, Close(w), UNCHANGED wc \/ pc[w] \in Busy
      PROVE  All
  <2>1. /\ pc'[w] = "idle" /\ pendingKeys'[w] = Empty /\ pendingRemove'[w] = {}
        /\ \A x \in Workers : x # w => pc'[x] = pc[x] /\ pendingKeys'[x] = pendingKeys[x] /\ pendingRemove'[x] = pendingRemove[x]
    BY <1>1, <1>4 DEF TxTypes, Close, Goto
  <2>2. Pending("idle", Empty, {}, Pos(wc'))
    BY EmptyFacts DEF Pending, Busy
  <2> QED BY <1>4, <2>1, <2>2, PendingOthers
<1>5. ASSUME NEW w \in Workers, NEW writable \in BOOLEAN, Begin(w, writable) PROVE All
  BY <1>2, <1>5 DEF Begin, fileVars, Labels, Busy
<1>6. ASSUME NEW w \in Workers, SnapshotCache(w) PROVE All
  BY <1>2, <1>6 DEF SnapshotCache, fileVars, Labels, Busy
<1>7. ASSUME NEW w \in Workers, Commit(w) PROVE All
  BY <1>2, <1>7 DEF Commit, Writable, fileVars, Labels, Busy
<1>8. ASSUME NEW w \in Workers, NEW k \in Keys, NEW v \in Values, Put(w, k, v) PROVE All
  <2>1. /\ UNCHANGED <<pc, wc>> /\ pc[w] = "open"
        /\ pendingRemove' = [pendingRemove EXCEPT ![w] = @ \ {k}] /\ pendingKeys' = [pendingKeys EXCEPT ![w] = [@ EXCEPT ![k] = v]]
    BY <1>8 DEF Put, PutKey, Writable, fileVars
  <2>2. /\ pendingRemove'[w] = pendingRemove[w] \ {k} /\ pendingKeys'[w] = [pendingKeys[w] EXCEPT ![k] = v]
        /\ \A x \in Workers : x # w => pendingKeys'[x] = pendingKeys[x] /\ pendingRemove'[x] = pendingRemove[x]
    BY <1>1, <2>1 DEF TxTypes
  <2>3. \A b \in Blocks : pendingKeys'[w][b] = pendingKeys[w][b]
    BY <1>1, <2>2, EmptyFacts DEF TxTypes, RowMaps
  <2>4. Pending("open", pendingKeys'[w], pendingRemove'[w], Pos(wc))
    BY <1>1, <2>1, <2>2, <2>3 DEF Pending, Busy
  <2> QED BY <2>1, <2>2, <2>4, PendingOthers
<1>9. ASSUME NEW w \in Workers, NEW k \in Keys, Delete(w, k) PROVE All
  <2>1. /\ UNCHANGED <<pc, wc>> /\ pc[w] = "open"
        /\ pendingRemove' = [pendingRemove EXCEPT ![w] = @ \cup {k}] /\ pendingKeys' = [pendingKeys EXCEPT ![w] = [@ EXCEPT ![k] = None]]
    BY <1>9 DEF Delete, Writable, fileVars
  <2>2. /\ pendingRemove'[w] = pendingRemove[w] \cup {k} /\ pendingKeys'[w] = [pendingKeys[w] EXCEPT ![k] = None]
        /\ \A x \in Workers : x # w => pendingKeys'[x] = pendingKeys[x] /\ pendingRemove'[x] = pendingRemove[x]
    BY <1>1, <2>1 DEF TxTypes
  <2>3. \A b \in Blocks : pendingKeys'[w][b] = pendingKeys[w][b]
    BY <1>1, <2>2, EmptyFacts DEF TxTypes, RowMaps
  <2>4. Pending("open", pendingKeys'[w], pendingRemove'[w], Pos(wc))
    BY <1>1, <2>1, <2>2, <2>3 DEF Pending, Busy
  <2> QED BY <2>1, <2>2, <2>4, PendingOthers
<1>10. ASSUME NEW w \in Workers, NEW b \in Blocks, StoreBlock(w, b) PROVE All
  BY <1>1, <1>10 DEF StoreBlock, fileVars
<1>11. ASSUME NEW w \in Workers, Rollback(w) \/ UndoWrites(w) \/ CommitToCache(w) \/ CommitDirect(w) \/ CommitFails(w) PROVE All
  <2>1. Close(w) /\ (UNCHANGED wc \/ pc[w] \in Busy)
    BY <1>11 DEF Rollback, UndoWrites, CommitToCache, CommitDirect, CommitFails, Busy, fileVars
  <2> QED BY <1>4, <2>1
<1>12. ASSUME NEW w \in Workers, WriteBlock(w) PROVE All
  <2> DEFINE b == Head(pendingBlocks[w])
             p == NextPosition
  <2>1. /\ UNCHANGED pc /\ pc[w] = "write"
        /\ pendingRemove' = [pendingRemove EXCEPT ![w] = @ \ {b}] /\ pendingKeys' = [pendingKeys EXCEPT ![w] = [@ EXCEPT ![b] = p]]
    BY <1>12 DEF WriteBlock, PutKey
  <2> HIDE DEF b, p
  <2>2. /\ pendingRemove'[w] = pendingRemove[w] \ {b}
        /\ \A x \in Workers : x # w => pendingKeys'[x] = pendingKeys[x] /\ pendingRemove'[x] = pendingRemove[x]
    BY <1>1, <2>1 DEF TxTypes
  <2>3. Pending("write", pendingKeys'[w], pendingRemove'[w], Pos(wc')) /\ "write" \in Busy
    BY <1>1, <2>1, <2>2 DEF Pending, Busy
  <2> QED BY <2>1, <2>2, <2>3, PendingOthers
<1>13. ASSUME NEW w \in Workers, WriteBlockFails(w) PROVE All
  <2>1. pc[w] = "write" /\ Goto(w, "undo") /\ UNCHANGED <<pendingKeys, pendingRemove>>
    BY <1>13 DEF WriteBlockFails
  <2> QED BY <1>3, <2>1 DEF Busy, Labels
<1>14. ASSUME NEW w \in Workers, StoreCursor(w) PROVE All
  <2> DEFINE p == [file |-> wc.file, off |-> wc.off]
  <2>1. /\ PutKey(w, WriteLoc, p) /\ UNCHANGED wc /\ pc[w] = "write" /\ p = Pos(wc)
        /\ \E label \in {"cache", "sync"} : Goto(w, label)
    BY <1>14 DEF StoreCursor, fileVars, Pos
  <2> HIDE DEF p
  <2>2. PICK label \in {"cache", "sync"} : Goto(w, label)
    BY <2>1
  <2>3. pc'[w] = label /\ \A x \in Workers : x # w => pc'[x] = pc[x]
    BY <1>1, <2>2 DEF TxTypes, Goto
  <2>4. /\ pendingRemove'[w] = pendingRemove[w] \ {WriteLoc} /\ pendingKeys'[w] = [pendingKeys[w] EXCEPT ![WriteLoc] = p]
        /\ \A x \in Workers : x # w => pendingKeys'[x] = pendingKeys[x] /\ pendingRemove'[x] = pendingRemove[x]
    BY <1>1, <2>1 DEF TxTypes, PutKey
  <2>5. pendingKeys'[w][WriteLoc] = p
    BY <1>1, <2>4, EmptyFacts DEF TxTypes, RowMaps
  <2>6. Pending(label, pendingKeys'[w], pendingRemove'[w], Pos(wc')) /\ pc[w] \in Busy
    BY <1>1, <2>1, <2>4, <2>5 DEF Pending, Busy
  <2> QED BY <2>3, <2>4, <2>6, PendingOthers
<1>15. ASSUME NEW w \in Workers, FlushSync(w) PROVE All
  <2>1. pc[w] = "sync" /\ (\E label \in {"direct", "flush"} : Goto(w, label)) /\ UNCHANGED <<pendingKeys, pendingRemove, wc>>
    BY <1>15 DEF FlushSync
  <2> QED BY <1>3, <2>1 DEF Busy, Labels
<1>16. ASSUME NEW w \in Workers, FlushCache(w) PROVE All
  BY <1>3, <1>16 DEF FlushCache, fileVars, Busy, Labels
<1>17. ASSUME NEW w \in Workers, ClearCache(w) PROVE All
  BY <1>3, <1>17 DEF ClearCache, fileVars, Busy, Labels
<1>18. CASE CloseDb
  <2>1. UNCHANGED <<pc, pendingKeys, pendingRemove>> /\ wc' = [file |-> wc.file, off |-> wc.off, open |-> FALSE]
    BY <1>18 DEF CloseDb, txVars
  <2>2. Pos(wc') = Pos(wc)
    BY <2>1 DEF Pos
  <2> QED BY <1>1, <2>1, <2>2
<1>19. CASE Open
  <2>1. \A x \in Workers : pc'[x] = "idle" /\ pendingKeys'[x] = Empty /\ pendingRemove'[x] = {}
    BY <1>19 DEF Open
  <2>2. Pending("idle", Empty, {}, Pos(wc'))
    BY EmptyFacts DEF Pending, Busy
  <2> QED BY <2>1, <2>2
<1> QED BY <1>5, <1>6, <1>7, <1>8, <1>9, <1>10, <1>11, <1>12, <1>13, <1>14, <1>15, <1>16, <1>17, <1>18, <1>19
        DEF Next, Reopen, CrashAndOpen

LEMMA RowStep ==
  ASSUME IInv, Next
  PROVE  RowInv'
<1>1. CursorRows' /\ \A x \in Workers : Pending(pc'[x], pendingKeys'[x], pendingRemove'[x], Pos(wc'))
  BY CursorRowStep, PendingStep
<1> QED BY <1>1 DEF RowInv, CursorRows, Pending

-----------------------------------------------------------------------------
(* Cache, leveldb and what writers read.                                   *)

LEMMA HistoryStep ==
  ASSUME IInv, Next
  PROVE  LevelDbIsCommitted' /\ Committed' \in ToSet(history')
<1>1. ldb \in ToSet(history) /\ Committed \in ToSet(history) /\ history \in Seq(RowMaps)
  BY DEF IInv, CacheInv, LevelDbIsCommitted, TypeInv, RowTypes
<1>2. ASSUME NEW x \in RowMaps, history' = Append(history, x) PROVE x \in ToSet(history') /\ ToSet(history) \subseteq ToSet(history')
  <2>1. history' \in Seq(RowMaps) /\ Len(history') = Len(history) + 1 /\ Len(history) \in Nat /\ history'[Len(history) + 1] = x
        /\ \A i \in 1 .. Len(history) : history'[i] = history[i]
    BY <1>1, <1>2
  <2>2. DOMAIN history' = 1 .. (Len(history) + 1) /\ DOMAIN history = 1 .. Len(history)
    BY <1>1, <2>1
  <2>3. Len(history) + 1 \in DOMAIN history' /\ \A i \in DOMAIN history : i \in DOMAIN history' /\ history'[i] = history[i]
    BY <2>1, <2>2
  <2> QED BY <2>1, <2>3 DEF ToSet
<1>3. CASE SameRows
  <2>1. Committed' = Committed
    BY <1>3, SameCommitted
  <2> QED BY <1>1, <1>3, <2>1 DEF SameRows, LevelDbIsCommitted
<1>4. ASSUME NEW w \in Workers, CommitToCache(w) PROVE LevelDbIsCommitted' /\ Committed' \in ToSet(history')
  BY <1>1, <1>2, <1>4, CommitToCacheRows DEF LevelDbIsCommitted
<1>5. ASSUME NEW w \in Workers, FlushCache(w) PROVE LevelDbIsCommitted' /\ Committed' \in ToSet(history')
  <2>1. ldb' = Committed /\ Committed' = Committed /\ history' = history
    BY <1>5, FlushCacheRows
  <2> QED BY <1>1, <2>1 DEF LevelDbIsCommitted
<1>6. ASSUME NEW w \in Workers, ClearCache(w) PROVE LevelDbIsCommitted' /\ Committed' \in ToSet(history')
  <2>1. ldb' = ldb /\ Committed' = Committed /\ history' = history
    BY <1>6, ClearCacheRows
  <2> QED BY <1>1, <2>1 DEF LevelDbIsCommitted
<1>7. ASSUME NEW w \in Workers, CommitDirect(w) PROVE LevelDbIsCommitted' /\ Committed' \in ToSet(history')
  BY <1>2, <1>7, CommitDirectRows DEF LevelDbIsCommitted
<1>8. CASE CloseDb
  <2>1. (ldb' = ldb \/ ldb' = Committed) /\ Committed' = ldb' /\ history' = history
    BY <1>8, CloseDbRows
  <2> QED BY <1>1, <2>1 DEF LevelDbIsCommitted
<1>9. CASE Open
  <2>1. ldb' = ldb /\ Committed' = ldb /\ history' = history
    BY <1>9, OpenRows
  <2> QED BY <1>1, <2>1 DEF LevelDbIsCommitted
<1> QED BY <1>3, <1>4, <1>5, <1>6, <1>7, <1>8, <1>9, RowSteps DEF Reopen, CrashAndOpen

(* What the holder of the lock has read, and where a flush has got to.     *)
Reads(label, sn, base, com) ==
  (label = "snapshot" => sn.ldb = base) /\ (label \notin {"idle", "snapshot"} => View(sn) = com)

Flushing(label, ck, cr, base, com) ==
  (label = "direct" => ck = Empty /\ cr = {}) /\ (label = "clear" => com = base)

LEMMA CacheParts ==
  CacheInv <=> /\ LevelDbIsCommitted /\ Committed \in ToSet(history)
               /\ \A w \in Workers : /\ writeLock = w => Reads(pc[w], snap[w], ldb, Committed)
                                     /\ Flushing(pc[w], cachedKeys, cachedRemove, ldb, Committed)
  BY DEF CacheInv, Reads, Flushing, WriterSeesCommitted

LEMMA CacheOthers ==
  ASSUME IInv, NEW w \in Workers, SameRows \/ pc[w] \in Busy,
         \A x \in Workers : x # w => pc'[x] = pc[x] /\ snap'[x] = snap[x] /\ (writeLock' = x => writeLock = x),
         writeLock' = w => Reads(pc'[w], snap'[w], ldb', Committed'),
         Flushing(pc'[w], cachedKeys', cachedRemove', ldb', Committed')
  PROVE  \A x \in Workers : /\ writeLock' = x => Reads(pc'[x], snap'[x], ldb', Committed')
                            /\ Flushing(pc'[x], cachedKeys', cachedRemove', ldb', Committed')
<1> SUFFICES ASSUME NEW x \in Workers, x # w
             PROVE  /\ writeLock' = x => Reads(pc'[x], snap'[x], ldb', Committed')
                    /\ Flushing(pc'[x], cachedKeys', cachedRemove', ldb', Committed')
  OBVIOUS
<1>1. CASE SameRows
  <2>1. Committed' = Committed /\ ldb' = ldb /\ cachedKeys' = cachedKeys /\ cachedRemove' = cachedRemove
    BY <1>1, SameCommitted DEF SameRows
  <2>2. /\ writeLock = x => Reads(pc[x], snap[x], ldb, Committed)
        /\ Flushing(pc[x], cachedKeys, cachedRemove, ldb, Committed)
    BY CacheParts DEF IInv
  <2> QED BY <2>1, <2>2
<1>2. CASE pc[w] \in Busy
  <2>1. writeLock # x /\ pc[x] \notin Busy
    BY <1>2, LockFacts
  <2>2. Flushing(pc[x], cachedKeys', cachedRemove', ldb', Committed')
    BY <2>1 DEF Flushing, Busy
  <2> QED BY <2>1, <2>2
<1> QED BY <1>1, <1>2

LEMMA ReadStep ==
  ASSUME IInv, Next
  PROVE  \A x \in Workers : /\ writeLock' = x => Reads(pc'[x], snap'[x], ldb', Committed')
                            /\ Flushing(pc'[x], cachedKeys', cachedRemove', ldb', Committed')
<1> DEFINE All == \A x \in Workers : /\ writeLock' = x => Reads(pc'[x], snap'[x], ldb', Committed')
                                     /\ Flushing(pc'[x], cachedKeys', cachedRemove', ldb', Committed')
<1>1. TxTypes /\ \A x \in Workers : /\ writeLock = x => Reads(pc[x], snap[x], ldb, Committed)
                                    /\ Flushing(pc[x], cachedKeys, cachedRemove, ldb, Committed)
  BY CacheParts DEF IInv, TypeInv
<1>2. ASSUME NEW w \in Workers, Close(w), SameRows \/ pc[w] \in Busy PROVE All
  <2>1. /\ pc'[w] = "idle" /\ writeLock' # w
        /\ \A x \in Workers : x # w => pc'[x] = pc[x] /\ snap'[x] = snap[x] /\ (writeLock' = x => writeLock = x)
    BY <1>1, <1>2, ConstantAssumption DEF TxTypes, Close, Goto
  <2>2. Flushing("idle", cachedKeys', cachedRemove', ldb', Committed')
    BY DEF Flushing
  <2> QED BY <1>2, <2>1, <2>2, CacheOthers
<1>3. ASSUME NEW w \in Workers, NEW label \in Labels \ {"idle", "snapshot"}, Goto(w, label), UNCHANGED <<snap, writeLock>>,
             pc[w] \notin {"idle", "snapshot"}, SameRows \/ pc[w] \in Busy, Committed' = Committed,
             Flushing(label, cachedKeys', cachedRemove', ldb', Committed')
      PROVE  All
  <2>1. pc'[w] = label /\ \A x \in Workers : x # w => pc'[x] = pc[x]
    BY <1>1, <1>3 DEF TxTypes, Goto
  <2>2. writeLock' = w => Reads(label, snap'[w], ldb', Committed')
    BY <1>1, <1>3 DEF Reads
  <2> QED BY <1>3, <2>1, <2>2, CacheOthers
<1>4. ASSUME UNCHANGED <<pc, snap, writeLock>>, SameRows PROVE All
  <2>1. Committed' = Committed /\ ldb' = ldb /\ cachedKeys' = cachedKeys /\ cachedRemove' = cachedRemove
    BY <1>4, SameCommitted DEF SameRows
  <2> QED BY <1>1, <1>4, <2>1
<1>5. ASSUME NEW w \in Workers, NEW writable \in BOOLEAN, Begin(w, writable) PROVE All
  <2>1. SameRows /\ snap' = [snap EXCEPT ![w] = [ldb |-> ldb, keys |-> Empty, remove |-> {}]] /\ Goto(w, "snapshot")
        /\ writeLock' = IF writable THEN w ELSE writeLock
    BY <1>5 DEF Begin, SameRows
  <2>2. /\ pc'[w] = "snapshot" /\ snap'[w].ldb = ldb /\ ldb' = ldb
        /\ \A x \in Workers : x # w => pc'[x] = pc[x] /\ snap'[x] = snap[x] /\ (writeLock' = x => writeLock = x)
    BY <1>1, <2>1 DEF TxTypes, Goto, SameRows
  <2>3. Reads("snapshot", snap'[w], ldb', Committed') /\ Flushing("snapshot", cachedKeys', cachedRemove', ldb', Committed')
    BY <2>2 DEF Flushing, Reads
  <2> QED BY <2>1, <2>2, <2>3, CacheOthers
<1>6. ASSUME NEW w \in Workers, SnapshotCache(w) PROVE All
  <2>1. SameRows /\ snap' = [snap EXCEPT ![w] = [ldb |-> @.ldb, keys |-> cachedKeys, remove |-> cachedRemove]] /\ Goto(w, "open")
        /\ writeLock' = writeLock /\ pc[w] = "snapshot"
    BY <1>6 DEF SnapshotCache, SameRows
  <2>2. /\ pc'[w] = "open" /\ snap'[w].ldb = snap[w].ldb /\ snap'[w].keys = cachedKeys /\ snap'[w].remove = cachedRemove
        /\ \A x \in Workers : x # w => pc'[x] = pc[x] /\ snap'[x] = snap[x]
    BY <1>1, <2>1 DEF TxTypes, Goto
  <2>3. writeLock = w => snap[w].ldb = ldb
    BY <1>1, <2>1 DEF Reads
  <2>4. writeLock = w => View(snap'[w]) = Committed
    BY <2>2, <2>3 DEF View, Committed
  <2>5. Committed' = Committed
    BY <2>1, SameCommitted
  <2>6. (writeLock' = w => Reads("open", snap'[w], ldb', Committed')) /\ Flushing("open", cachedKeys', cachedRemove', ldb', Committed')
    BY <2>1, <2>4, <2>5 DEF Flushing, Reads
  <2> QED BY <2>1, <2>2, <2>6, CacheOthers
<1>7. ASSUME NEW w \in Workers, NEW k \in Keys, NEW v \in Values, Put(w, k, v) PROVE All
  BY <1>4, <1>7 DEF Put, SameRows
<1>8. ASSUME NEW w \in Workers, NEW k \in Keys, Delete(w, k) PROVE All
  BY <1>4, <1>8 DEF Delete, SameRows
<1>9. ASSUME NEW w \in Workers, NEW b \in Blocks, StoreBlock(w, b) PROVE All
  BY <1>4, <1>9 DEF StoreBlock, SameRows
<1>10. ASSUME NEW w \in Workers, WriteBlock(w) PROVE All
  BY <1>4, <1>10 DEF WriteBlock, SameRows
<1>11. ASSUME NEW w \in Workers, Rollback(w) \/ UndoWrites(w) \/ CommitFails(w) PROVE All
  <2>1. Close(w) /\ SameRows
    BY <1>11 DEF Rollback, UndoWrites, CommitFails, SameRows
  <2> QED BY <1>2, <2>1
<1>12. ASSUME NEW w \in Workers, CommitToCache(w) \/ CommitDirect(w) PROVE All
  <2>1. Close(w) /\ pc[w] \in Busy
    BY <1>12 DEF CommitToCache, CommitDirect, Busy
  <2> QED BY <1>2, <2>1
<1>13. ASSUME NEW w \in Workers, NEW label \in Labels \ {"idle", "snapshot", "direct", "clear"}, Goto(w, label), UNCHANGED <<snap, writeLock>>,
              pc[w] \notin {"idle", "snapshot"}, SameRows
       PROVE  All
  <2>1. Committed' = Committed
    BY <1>13, SameCommitted
  <2>2. Flushing(label, cachedKeys', cachedRemove', ldb', Committed')
    BY <1>13 DEF Flushing
  <2> QED BY <1>3, <1>13, <2>1, <2>2
<1>14. ASSUME NEW w \in Workers, Commit(w) PROVE All
  BY <1>13, <1>14 DEF Commit, Writable, SameRows, Labels
<1>15. ASSUME NEW w \in Workers, WriteBlockFails(w) PROVE All
  <2>1. Goto(w, "undo") /\ UNCHANGED <<snap, writeLock>> /\ pc[w] = "write" /\ SameRows
    BY <1>15 DEF WriteBlockFails, SameRows
  <2> QED BY <1>13, <2>1 DEF Labels
<1>16. ASSUME NEW w \in Workers, StoreCursor(w) PROVE All
  <2>1. (\E label \in {"cache", "sync"} : Goto(w, label)) /\ UNCHANGED <<snap, writeLock>> /\ pc[w] = "write" /\ SameRows
    BY <1>16 DEF StoreCursor, SameRows
  <2> QED BY <1>13, <2>1 DEF Labels
<1>17. ASSUME NEW w \in Workers, FlushSync(w) PROVE All
  <2>1. UNCHANGED <<snap, writeLock>> /\ pc[w] = "sync" /\ SameRows
    BY <1>17 DEF FlushSync, SameRows
  <2>2. CASE cachedKeys = Empty /\ cachedRemove = {}
    <3>1. Goto(w, "direct") /\ Committed' = Committed /\ Flushing("direct", cachedKeys', cachedRemove', ldb', Committed')
      BY <1>17, <2>1, <2>2, SameCommitted DEF FlushSync, Flushing, SameRows
    <3> QED BY <1>3, <2>1, <3>1 DEF Labels
  <2>3. CASE ~(cachedKeys = Empty /\ cachedRemove = {})
    BY <1>13, <1>17, <2>1, <2>3 DEF FlushSync, Labels
  <2> QED BY <2>2, <2>3
<1>18. ASSUME NEW w \in Workers, FlushCache(w) PROVE All
  <2>1. Goto(w, "clear") /\ UNCHANGED <<snap, writeLock>> /\ pc[w] = "flush"
    BY <1>18 DEF FlushCache
  <2>2. Committed' = Committed /\ Flushing("clear", cachedKeys', cachedRemove', ldb', Committed')
    BY <1>18, FlushCacheRows DEF Flushing
  <2> QED BY <1>3, <2>1, <2>2 DEF Labels, Busy
<1>19. ASSUME NEW w \in Workers, ClearCache(w) PROVE All
  <2>1. Goto(w, "direct") /\ UNCHANGED <<snap, writeLock>> /\ pc[w] = "clear"
    BY <1>19 DEF ClearCache
  <2>2. Committed' = Committed /\ Flushing("direct", cachedKeys', cachedRemove', ldb', Committed')
    BY <1>19, ClearCacheRows DEF Flushing
  <2> QED BY <1>3, <2>1, <2>2 DEF Labels, Busy
<1>20. CASE CloseDb
  <2>1. UNCHANGED <<pc, writeLock>> /\ \A x \in Workers : pc[x] = "idle"
    BY <1>20 DEF CloseDb, txVars
  <2> QED BY <2>1 DEF Reads, Flushing
<1>21. CASE Open
  <2>1. \A x \in Workers : pc'[x] = "idle"
    BY <1>21 DEF Open
  <2> QED BY <2>1 DEF Reads, Flushing
<1> QED BY <1>5, <1>6, <1>7, <1>8, <1>9, <1>10, <1>11, <1>12, <1>14, <1>15, <1>16, <1>17, <1>18, <1>19, <1>20, <1>21
        DEF Next, Reopen, CrashAndOpen

LEMMA CacheStep ==
  ASSUME IInv, Next
  PROVE  CacheInv'
<1>1. \A x \in Workers : /\ writeLock' = x => Reads(pc'[x], snap'[x], ldb', Committed')
                         /\ Flushing(pc'[x], cachedKeys', cachedRemove', ldb', Committed')
  BY ReadStep
<1>2. WriterSeesCommitted' /\ \A x \in Workers : pc'[x] = "snapshot" /\ writeLock' = x => snap'[x].ldb = ldb'
  BY <1>1 DEF Reads, WriterSeesCommitted
<1>3. \A x \in Workers : (pc'[x] = "direct" => cachedKeys' = Empty /\ cachedRemove' = {}) /\ (pc'[x] = "clear" => Committed' = ldb')
  BY <1>1 DEF Flushing
<1> QED BY <1>2, <1>3, HistoryStep DEF CacheInv

-----------------------------------------------------------------------------
(* Rows, snapshots and the block files.                                    *)

(* Everything that was committed or read fits the files below fl, and the  *)
(* write cursor, at c, is not before fl.                                   *)
Data(fs, fl, c, base, com, sn) ==
  ReachesIn(fs, fl) /\ NotAfter(fl, c) /\ Fits(fs, fl, base) /\ Fits(fs, fl, com) /\ SnapsSound(fs, fl, sn)

(* The blocks that w has written.                                          *)
Written(fs, label, keys, c) == label \in Busy \ {"undo"} => SoundIn(fs, keys, c)

LEMMA DataParts ==
  DataInv <=> /\ Data(files, Floor, Pos(wc), ldb, Committed, snap)
              /\ (\A w \in Workers : pc[w] # "undo") => ReachesIn(files, Pos(wc))
              /\ \A w \in Workers : Written(files, pc[w], pendingKeys[w], Pos(wc))
  BY DEF DataInv, Data, Written

LEMMA DataMoves ==
  ASSUME NEW fs, NEW fs2, FilesOK(fs), FilesOK(fs2), NEW fl \in Positions, NEW fl2 \in Positions, NEW c, NEW c2,
         SameBelow(fs, fs2, fl), NotAfter(fl, fl2), NotAfter(fl2, c2), ReachesIn(fs2, fl2),
         NEW base, base[WriteLoc] \in Positions, NEW com, com[WriteLoc] \in Positions, NEW sn,
         Data(fs, fl, c, base, com, sn)
  PROVE  Data(fs2, fl2, c2, base, com, sn)
<1>1. Fits(fs2, fl, base) /\ Fits(fs2, fl, com)
  BY FitsKept DEF Data
<1>2. Fits(fs2, fl2, base) /\ Fits(fs2, fl2, com)
  BY <1>1, FitsUp
<1>3. SnapsSound(fs2, fl, sn)
  BY SnapsKept DEF Data
<1>4. SnapsSound(fs2, fl2, sn)
  BY <1>3, SnapsUp
<1> QED BY <1>2, <1>4 DEF Data

LEMMA FitsSound ==
  ASSUME NEW fs, NEW fl \in Positions, NEW rows, rows[WriteLoc] \in Positions, Fits(fs, fl, rows)
  PROVE  SoundIn(fs, rows, fl)
  BY SoundUp DEF Fits

LEMMA NoSnapSound ==
  ASSUME NEW fs, NEW fl
  PROVE  SoundIn(fs, NoSnap.ldb, fl) /\ SoundIn(fs, NoSnap.keys, fl)
<1>1. NoSnap.ldb = Empty /\ NoSnap.keys = Empty
  BY DEF NoSnap
<1> QED BY <1>1, EmptySound

(* The position below which nothing changes moves only with a commit.      *)
LEMMA FloorKept ==
  ASSUME IInv, TxTypes', NEW w \in Workers, \A x \in Workers : x # w => pc'[x] = pc[x] /\ old'[x] = old[x],
         pc[w] \notin {"write", "undo"}, pc'[w] \notin {"write", "undo"},
         writeLock' = writeLock \/ {writeLock, writeLock'} \subseteq {w, None}, Pos(wc') = Pos(wc)
  PROVE  Floor' = Floor
<1>1. writeLock \in Workers \cup {None} /\ None \notin Workers
  BY ConstantAssumption DEF IInv, TypeInv, TxTypes
<1>2. CASE writeLock \in {w, None}
  <2>1. writeLock' \in {w, None}
    BY <1>2
  <2> QED BY <1>2, <2>1 DEF Floor
<1>3. CASE writeLock \notin {w, None}
  <2>1. writeLock' = writeLock /\ pc'[writeLock] = pc[writeLock] /\ old'[writeLock] = old[writeLock]
    BY <1>1, <1>3
  <2> QED BY <2>1 DEF Floor
<1> QED BY <1>2, <1>3

LEMMA DataFacts ==
  ASSUME IInv
  PROVE  /\ Data(files, Floor, Pos(wc), ldb, Committed, snap)
         /\ FilesOK(files) /\ Floor \in Positions /\ Pos(wc) \in Positions /\ TxTypes /\ RowTypes
         /\ ldb[WriteLoc] \in Positions /\ Committed[WriteLoc] \in Positions /\ Committed \in RowMaps
         /\ SoundIn(files, ldb, Floor) /\ SoundIn(files, Committed, Floor) /\ SoundIn(files, cachedKeys, Floor)
         /\ SameBelow(files, files, Floor) /\ NotAfter(Floor, Pos(wc))
         /\ (\A w \in Workers : pc[w] # "undo") => ReachesIn(files, Pos(wc))
         /\ \A w \in Workers : Written(files, pc[w], pendingKeys[w], Pos(wc))
<1>1. Data(files, Floor, Pos(wc), ldb, Committed, snap) /\ NotAfter(Floor, Pos(wc)) /\ ReachesIn(files, Floor)
  BY DataParts DEF IInv, Data
<1>2. FilesOK(files) /\ Floor \in Positions /\ Pos(wc) \in Positions /\ TxTypes /\ RowTypes
  BY FloorType DEF IInv, TypeInv, FileTypes
<1>3. ldb[WriteLoc] \in Positions /\ Committed[WriteLoc] \in Positions /\ Committed \in RowMaps
  BY <1>2, CommittedType DEF IInv, RowInv
<1>4. SoundIn(files, ldb, Floor) /\ SoundIn(files, Committed, Floor)
  BY <1>1, <1>2, <1>3, FitsSound DEF Data
<1>5. SoundIn(files, cachedKeys, Floor)
  <2>1. \A b \in Blocks : b \in Rows /\ b \notin cachedRemove
    BY EmptyFacts DEF IInv, RowInv
  <2>2. \A b \in Blocks : cachedKeys[b] # None => Committed[b] = cachedKeys[b]
    BY <1>2, <2>1, CommittedType
  <2> QED BY <1>4, <2>2 DEF SoundIn
<1>6. SameBelow(files, files, Floor)
  BY <1>1, <1>2, SameRefl
<1>7. /\ (\A w \in Workers : pc[w] # "undo") => ReachesIn(files, Pos(wc))
      /\ \A w \in Workers : Written(files, pc[w], pendingKeys[w], Pos(wc))
  BY DataParts DEF IInv
<1> QED BY <1>1, <1>2, <1>3, <1>4, <1>5, <1>6, <1>7

(* A step of w that writes no block and moves no row.                      *)
LEMMA QuietData ==
  ASSUME IInv, NEW w \in Workers, SameRows, UNCHANGED files, Pos(wc') = Pos(wc), Floor' = Floor,
         pc[w] # "undo",
         \A x \in Workers : x # w => pc'[x] = pc[x] /\ pendingKeys'[x] = pendingKeys[x] /\ snap'[x] = snap[x],
         SoundIn(files, snap'[w].ldb, Floor) /\ SoundIn(files, snap'[w].keys, Floor),
         Written(files, pc'[w], pendingKeys'[w], Pos(wc))
  PROVE  DataInv'
<1>1. Data(files, Floor, Pos(wc), ldb, Committed, snap)
  BY DataFacts
<1>2. SnapsSound(files, Floor, snap')
  BY <1>1 DEF Data, SnapsSound
<1>3. Data(files, Floor, Pos(wc), ldb, Committed, snap')
  BY <1>1, <1>2 DEF Data
<1>4. Committed' = Committed /\ ldb' = ldb
  BY SameCommitted DEF SameRows
<1>5. (\A x \in Workers : pc'[x] # "undo") => ReachesIn(files, Pos(wc))
  BY DataFacts
<1>6. \A x \in Workers : Written(files, pc'[x], pendingKeys'[x], Pos(wc))
  BY DataFacts
<1> QED BY <1>3, <1>4, <1>5, <1>6 DEF DataInv, Data, Written

(* What is visible of a step of w that is not a crash.                     *)
Others(w) ==
  \A x \in Workers : x # w => pc'[x] = pc[x] /\ pendingKeys'[x] = pendingKeys[x] /\ snap'[x] = snap[x] /\ old'[x] = old[x]

LEMMA QuietStep ==
  ASSUME IInv, TxTypes', NEW w \in Workers, SameRows, UNCHANGED <<wc, files>>, Others(w),
         pc[w] \notin {"write", "undo"}, pc'[w] \notin {"write", "undo"},
         writeLock' = writeLock \/ {writeLock, writeLock'} \subseteq {w, None},
         SoundIn(files, snap'[w].ldb, Floor) /\ SoundIn(files, snap'[w].keys, Floor),
         Written(files, pc'[w], pendingKeys'[w], Pos(wc))
  PROVE  DataInv'
<1>1. Floor' = Floor /\ Pos(wc') = Pos(wc)
  BY FloorKept DEF Others
<1> QED BY <1>1, QuietData DEF Others

LEMMA CloseData ==
  ASSUME IInv, TxTypes', NEW w \in Workers, Close(w), SameRows, UNCHANGED <<wc, files>>, pc[w] \notin {"write", "undo"}
  PROVE  DataInv'
<1>1. TxTypes /\ Others(w) /\ snap'[w] = NoSnap /\ pc'[w] = "idle"
  BY DEF IInv, TypeInv, TxTypes, Close, Goto, Others
<1>2. writeLock' = writeLock \/ {writeLock, writeLock'} \subseteq {w, None}
  BY DEF Close
<1>3. SoundIn(files, snap'[w].ldb, Floor) /\ SoundIn(files, snap'[w].keys, Floor)
  BY <1>1, NoSnapSound
<1>4. Written(files, pc'[w], pendingKeys'[w], Pos(wc))
  BY <1>1 DEF Written, Busy
<1> QED BY <1>1, <1>2, <1>3, <1>4, QuietStep

(* A step of w in a commit that keeps the pending rows and the snapshot.   *)
LEMMA FlushData ==
  ASSUME IInv, TxTypes', NEW w \in Workers, NEW label \in Busy \ {"write", "undo"}, Goto(w, label), pc[w] \in Busy \ {"write", "undo"},
         UNCHANGED <<snap, pendingKeys, old, writeLock, wc, files>>, Committed' = Committed, ldb' \in {ldb, Committed}
  PROVE  DataInv'
<1>1. TxTypes /\ pc'[w] = label /\ \A x \in Workers : x # w => pc'[x] = pc[x]
  BY DEF IInv, TypeInv, TxTypes, Goto
<1>2. Floor' = Floor
  BY <1>1, FloorKept
<1>3. Data(files, Floor, Pos(wc), ldb, Committed, snap)
  BY DataFacts
<1>4. Data(files, Floor, Pos(wc), ldb', Committed, snap)
  BY <1>3 DEF Data
<1>5. ReachesIn(files, Pos(wc))
  BY LockFacts
<1>6. \A x \in Workers : Written(files, pc'[x], pendingKeys[x], Pos(wc))
  BY <1>1, DataFacts DEF Written
<1> QED BY <1>2, <1>4, <1>5, <1>6 DEF DataInv, Data, Written

(* The committed rows are put into the cache or into leveldb.              *)
LEMMA CommitData ==
  ASSUME IInv, TxTypes', NEW w \in Workers, Close(w), pc[w] \in Busy \ {"write", "undo"}, UNCHANGED <<wc, files>>,
         Committed' = Overlay(Committed, pendingKeys[w], pendingRemove[w]), ldb' \in {ldb, Committed'}
  PROVE  DataInv'
<1> DEFINE new == Overlay(Committed, pendingKeys[w], pendingRemove[w])
           pk == pendingKeys[w]
           pr == pendingRemove[w]
<1>1. TxTypes /\ Others(w) /\ snap'[w] = NoSnap /\ pc'[w] = "idle"
  BY DEF IInv, TypeInv, TxTypes, Close, Goto, Others
<1>2. writeLock = w /\ writeLock' = None /\ Floor = Pos(wc) /\ ReachesIn(files, Pos(wc))
      /\ \A x \in Workers : x # w => pc[x] \notin Busy
  BY LockFacts DEF Close
<1>3. Floor' = Pos(wc)
  BY <1>2 DEF Floor
<1>4. Data(files, Pos(wc), Pos(wc), ldb, Committed, snap) /\ Pos(wc) \in Positions /\ SoundIn(files, Committed, Pos(wc)) /\ Committed \in RowMaps
  BY <1>2, DataFacts
<1>5. SoundIn(files, pk, Pos(wc))
  BY DataFacts DEF Written
<1>6. pk \in RowMaps
  BY <1>1 DEF TxTypes
<1>7. new[WriteLoc] = Pos(wc)
  BY CommittedCursor
<1>8. SoundIn(files, new, Pos(wc))
  <2> HIDE DEF pk, pr
  <2>1. SoundIn(files, Overlay(Committed, pk, pr), Pos(wc))
    BY <1>4, <1>5, <1>6, OverlaySound
  <2> QED BY <2>1 DEF pk, pr
<1> HIDE DEF new
<1>9. Fits(files, Pos(wc), new)
  <2>1. NotAfter(Pos(wc), Pos(wc))
    BY <1>4, NotAfterTrans
  <2> QED BY <1>2, <1>7, <1>8, <2>1 DEF Fits
<1>10. Committed' = new /\ (ldb' = ldb \/ ldb' = new)
  BY DEF new
<1>11. SnapsSound(files, Pos(wc), snap')
  BY <1>1, <1>4, NoSnapSound DEF SnapsSound, Data, Others
<1>12. Data(files, Pos(wc), Pos(wc), ldb', new, snap')
  BY <1>4, <1>9, <1>10, <1>11 DEF Data
<1>13. \A x \in Workers : pc'[x] \notin Busy
  BY <1>1, <1>2 DEF Others, Busy
<1> QED BY <1>2, <1>3, <1>10, <1>12, <1>13 DEF DataInv, Data

LEMMA WriteBlockData ==
  ASSUME IInv, TxTypes', NEW w \in Workers, WriteBlock(w)
  PROVE  DataInv'
<1> DEFINE b == Head(pendingBlocks[w])
           p == NextPosition
<1>1. /\ FilesStep(Pos(wc)) /\ ReachesIn(files', Pos(wc')) /\ p \in Positions
      /\ b \in Blocks /\ HoldsIn(files', p, b) /\ Ends(p, Pos(wc'))
  BY WriteBlockFacts
<1>2. /\ pc[w] = "write" /\ UNCHANGED <<pc, snap, old, writeLock>> /\ SameRows
      /\ pendingKeys' = [pendingKeys EXCEPT ![w] = [@ EXCEPT ![b] = p]]
  BY DEF WriteBlock, SameRows, PutKey
<1> HIDE DEF b, p
<1>3. writeLock = w /\ writeLock # None /\ Floor = old[w] /\ (\A x \in Workers : x # w => pc[x] \notin Busy)
  BY <1>2, LockFacts DEF Busy
<1>4. Floor' = Floor
  BY <1>2, <1>3 DEF Floor
<1>5. /\ Data(files, Floor, Pos(wc), ldb, Committed, snap) /\ Floor \in Positions /\ Pos(wc) \in Positions /\ FilesOK(files)
      /\ NotAfter(Floor, Pos(wc)) /\ Written(files, pc[w], pendingKeys[w], Pos(wc)) /\ TxTypes
      /\ ldb[WriteLoc] \in Positions /\ Committed[WriteLoc] \in Positions
  BY DataFacts
<1>6. FilesOK(files') /\ SameBelow(files, files', Pos(wc)) /\ NotAfter(Pos(wc), Pos(wc')) /\ Pos(wc') \in Positions
  BY <1>1, PositionFacts DEF FilesStep, Cursors
<1>7. ReachesIn(files, Floor)
  BY <1>5 DEF Data
<1>8. SameBelow(files, files', Floor)
  BY <1>5, <1>6, <1>7, SameDown
<1>9. ReachesIn(files', Floor) /\ NotAfter(Floor, Floor) /\ NotAfter(Floor, Pos(wc'))
  BY <1>5, <1>6, <1>7, SameReaches, NotAfterTrans
<1>10. Data(files', Floor, Pos(wc'), ldb, Committed, snap)
  BY <1>5, <1>6, <1>8, <1>9, DataMoves
<1>11. Committed' = Committed /\ ldb' = ldb
  BY <1>2, SameCommitted DEF SameRows
<1>12. SoundIn(files', pendingKeys'[w], Pos(wc'))
  <2>1. pendingKeys[w] \in RowMaps /\ b \in Rows
    BY <1>1, <1>5, EmptyFacts DEF TxTypes
  <2>2. pendingKeys'[w][b] = p /\ \A c \in Blocks : c # b => pendingKeys'[w][c] = pendingKeys[w][c]
    BY <1>2, <1>5, <2>1, EmptyFacts DEF TxTypes, RowMaps
  <2>3. SoundIn(files, pendingKeys[w], Pos(wc))
    BY <1>2, <1>5 DEF Written, Busy
  <2>4. SoundIn(files', pendingKeys[w], Pos(wc))
    <3>1. NotAfter(Pos(wc), Pos(wc))
      BY <1>5, NotAfterTrans
    <3> QED BY <1>5, <1>6, <2>3, <3>1, SameSound
  <2>5. SoundIn(files', pendingKeys[w], Pos(wc'))
    BY <1>5, <1>6, <2>4, SoundUp
  <2> QED BY <1>1, <2>2, <2>5 DEF SoundIn
<1>13. \A x \in Workers : Written(files', pc'[x], pendingKeys'[x], Pos(wc'))
  BY <1>2, <1>3, <1>12 DEF Written
<1> QED BY <1>1, <1>4, <1>10, <1>11, <1>2, <1>13 DEF DataInv, Data, Written

LEMMA WriteBlockFailsData ==
  ASSUME IInv, TxTypes', NEW w \in Workers, WriteBlockFails(w)
  PROVE  DataInv'
<1>1. FilesStep(Pos(wc))
  BY WriteBlockFailsFacts
<1>2. pc[w] = "write" /\ Goto(w, "undo") /\ UNCHANGED <<snap, pendingKeys, old, writeLock>> /\ SameRows
  BY DEF WriteBlockFails, SameRows
<1>3. writeLock = w /\ writeLock # None /\ Floor = old[w] /\ (\A x \in Workers : x # w => pc[x] \notin Busy)
  BY <1>2, LockFacts DEF Busy
<1>4. /\ Data(files, Floor, Pos(wc), ldb, Committed, snap) /\ Floor \in Positions /\ Pos(wc) \in Positions /\ FilesOK(files)
      /\ NotAfter(Floor, Pos(wc)) /\ TxTypes
      /\ ldb[WriteLoc] \in Positions /\ Committed[WriteLoc] \in Positions
  BY DataFacts
<1>5. pc'[w] = "undo" /\ \A x \in Workers : x # w => pc'[x] = pc[x]
  BY <1>2, <1>4 DEF TxTypes, Goto
<1>6. Floor' = Floor
  BY <1>2, <1>3, <1>5 DEF Floor
<1>7. FilesOK(files') /\ SameBelow(files, files', Pos(wc)) /\ NotAfter(Pos(wc), Pos(wc')) /\ Pos(wc') \in Positions
  BY <1>1, PositionFacts DEF FilesStep, Cursors
<1>8. ReachesIn(files, Floor)
  BY <1>4 DEF Data
<1>9. SameBelow(files, files', Floor)
  BY <1>4, <1>7, <1>8, SameDown
<1>10. ReachesIn(files', Floor) /\ NotAfter(Floor, Floor) /\ NotAfter(Floor, Pos(wc'))
  BY <1>4, <1>7, <1>8, SameReaches, NotAfterTrans
<1>11. Data(files', Floor, Pos(wc'), ldb, Committed, snap)
  BY <1>4, <1>7, <1>9, <1>10, DataMoves
<1>12. Committed' = Committed /\ ldb' = ldb
  BY <1>2, SameCommitted DEF SameRows
<1>13. \A x \in Workers : Written(files', pc'[x], pendingKeys'[x], Pos(wc'))
  BY <1>3, <1>5 DEF Written
<1> QED BY <1>2, <1>5, <1>6, <1>11, <1>12, <1>13 DEF DataInv, Data, Written

LEMMA UndoData ==
  ASSUME IInv, TxTypes', NEW w \in Workers, UndoWrites(w)
  PROVE  DataInv'
<1>1. FilesStep(old[w]) /\ Pos(wc') = old[w] /\ ReachesIn(files', old[w])
  BY UndoFacts
<1>2. pc[w] = "undo" /\ Close(w) /\ SameRows
  BY DEF UndoWrites, SameRows
<1>3. writeLock = w /\ Floor = old[w] /\ (\A x \in Workers : x # w => pc[x] \notin Busy)
  BY <1>2, LockFacts DEF Busy
<1>4. /\ Data(files, Floor, Pos(wc), ldb, Committed, snap) /\ Floor \in Positions /\ FilesOK(files) /\ TxTypes
      /\ ldb[WriteLoc] \in Positions /\ Committed[WriteLoc] \in Positions
  BY DataFacts
<1>5. Others(w) /\ snap'[w] = NoSnap /\ pc'[w] = "idle" /\ writeLock' = None
  BY <1>2, <1>3, <1>4 DEF TxTypes, Close, Goto, Others
<1>6. Floor' = Floor /\ Pos(wc') = Floor
  BY <1>1, <1>3, <1>5 DEF Floor
<1>7. FilesOK(files') /\ SameBelow(files, files', Floor) /\ ReachesIn(files', Floor) /\ NotAfter(Floor, Floor)
  BY <1>1, <1>3, <1>4, NotAfterTrans DEF FilesStep
<1>8. Data(files', Floor, Floor, ldb, Committed, snap)
  BY <1>4, <1>7, DataMoves
<1>9. SnapsSound(files', Floor, snap')
  BY <1>5, <1>8, NoSnapSound DEF SnapsSound, Data, Others
<1>10. Data(files', Floor, Floor, ldb, Committed, snap')
  BY <1>8, <1>9 DEF Data
<1>11. Committed' = Committed /\ ldb' = ldb
  BY <1>2, SameCommitted DEF SameRows
<1>12. \A x \in Workers : pc'[x] \notin Busy
  BY <1>3, <1>5 DEF Others, Busy
<1> QED BY <1>6, <1>7, <1>10, <1>11, <1>12 DEF DataInv, Data

LEMMA StoreCursorData ==
  ASSUME IInv, TxTypes', NEW w \in Workers, StoreCursor(w)
  PROVE  DataInv'
<1>1. /\ pc[w] = "write" /\ UNCHANGED <<snap, old, writeLock, wc, files>> /\ SameRows
      /\ \E v : pendingKeys' = [pendingKeys EXCEPT ![w] = [@ EXCEPT ![WriteLoc] = v]]
      /\ \E label \in {"cache", "sync"} : Goto(w, label)
  BY DEF StoreCursor, SameRows, fileVars, PutKey
<1>2. PICK label \in {"cache", "sync"} : Goto(w, label)
  BY <1>1
<1>3. /\ Data(files, Floor, Pos(wc), ldb, Committed, snap) /\ Floor \in Positions /\ Pos(wc) \in Positions /\ FilesOK(files)
      /\ NotAfter(Floor, Pos(wc)) /\ Written(files, pc[w], pendingKeys[w], Pos(wc)) /\ TxTypes /\ SameBelow(files, files, Floor)
      /\ ldb[WriteLoc] \in Positions /\ Committed[WriteLoc] \in Positions
  BY DataFacts
<1>4. writeLock = w /\ ReachesIn(files, Pos(wc)) /\ (\A x \in Workers : x # w => pc[x] \notin Busy)
  BY <1>1, LockFacts DEF Busy
<1>5. pc'[w] = label /\ \A x \in Workers : x # w => pc'[x] = pc[x]
  BY <1>2, <1>3 DEF TxTypes, Goto
<1>6. Floor' = Pos(wc)
  BY <1>1, <1>4, <1>5 DEF Floor
<1>7. NotAfter(Pos(wc), Pos(wc))
  BY <1>3, NotAfterTrans
<1>8. Data(files, Pos(wc), Pos(wc), ldb, Committed, snap)
  BY <1>3, <1>4, <1>7, DataMoves
<1>9. SoundIn(files, pendingKeys'[w], Pos(wc))
  <2>1. \A b \in Blocks : pendingKeys'[w][b] = pendingKeys[w][b]
    BY <1>1, <1>3, EmptyFacts DEF TxTypes, RowMaps
  <2>2. SoundIn(files, pendingKeys[w], Pos(wc))
    BY <1>1, <1>3 DEF Written, Busy
  <2> QED BY <2>1, <2>2 DEF SoundIn
<1>10. \A x \in Workers : Written(files, pc'[x], pendingKeys'[x], Pos(wc))
  BY <1>4, <1>5, <1>9 DEF Written
<1>11. Committed' = Committed /\ ldb' = ldb
  BY <1>1, SameCommitted DEF SameRows
<1> QED BY <1>1, <1>4, <1>6, <1>8, <1>10, <1>11 DEF DataInv, Data, Written

LEMMA OpenData ==
  ASSUME IInv, Open
  PROVE  DataInv'
<1> DEFINE p == ldb[WriteLoc]
<1>1. FilesStep(p) /\ ReachesIn(files', Pos(wc'))
  BY OpenFacts
<1>2. /\ \A x \in Workers : pc'[x] = "idle" /\ snap'[x] = NoSnap
      /\ writeLock' = None /\ ldb' = ldb /\ Committed' = ldb
  BY OpenRows DEF Open
<1>3. Fits(files, Floor, ldb) /\ p \in Positions /\ FilesOK(files)
  BY DataFacts DEF Data
<1>4. FilesOK(files') /\ SameBelow(files, files', p) /\ NotAfter(p, Pos(wc')) /\ Pos(wc') \in Positions
  BY <1>1, PositionFacts DEF FilesStep, Cursors
<1>5. Fits(files, p, ldb)
  BY <1>3, NotAfterTrans DEF Fits
<1>6. Fits(files', p, ldb)
  BY <1>3, <1>4, <1>5, FitsKept
<1>7. Fits(files', Pos(wc'), ldb)
  BY <1>3, <1>4, <1>6, FitsUp
<1>8. SnapsSound(files', Pos(wc'), snap')
  BY <1>2, NoSnapSound DEF SnapsSound
<1>9. Floor' = Pos(wc') /\ NotAfter(Pos(wc'), Pos(wc'))
  BY <1>2, <1>4, NotAfterTrans DEF Floor
<1> QED BY <1>1, <1>2, <1>7, <1>8, <1>9 DEF DataInv, Busy

LEMMA DataStep ==
  ASSUME IInv, Next, TxTypes'
  PROVE  DataInv'
<1>1. /\ TxTypes /\ SoundIn(files, ldb, Floor) /\ SoundIn(files, cachedKeys, Floor) /\ SnapsSound(files, Floor, snap)
      /\ \A w \in Workers : Written(files, pc[w], pendingKeys[w], Pos(wc))
  BY DataFacts DEF Data
<1>2. ASSUME NEW w \in Workers, NEW writable \in BOOLEAN, Begin(w, writable) PROVE DataInv'
  <2>1. /\ SameRows /\ UNCHANGED <<wc, files, pendingKeys, old>> /\ pc[w] = "idle" /\ pc' = [pc EXCEPT ![w] = "snapshot"]
        /\ snap' = [snap EXCEPT ![w] = [ldb |-> ldb, keys |-> Empty, remove |-> {}]]
        /\ writeLock' = writeLock \/ {writeLock, writeLock'} \subseteq {w, None}
    BY <1>2 DEF Begin, SameRows, fileVars, Goto
  <2>2. Others(w) /\ snap'[w].ldb = ldb /\ snap'[w].keys = Empty /\ pc'[w] = "snapshot"
    BY <1>1, <2>1 DEF TxTypes, Others
  <2>3. SoundIn(files, snap'[w].ldb, Floor) /\ SoundIn(files, snap'[w].keys, Floor)
    BY <1>1, <2>2, EmptySound
  <2>4. Written(files, pc'[w], pendingKeys'[w], Pos(wc))
    BY <2>2 DEF Written, Busy
  <2> QED BY <2>1, <2>2, <2>3, <2>4, QuietStep
<1>3. ASSUME NEW w \in Workers, SnapshotCache(w) PROVE DataInv'
  <2>1. /\ SameRows /\ UNCHANGED <<wc, files, pendingKeys, old, writeLock>> /\ pc[w] = "snapshot" /\ pc' = [pc EXCEPT ![w] = "open"]
        /\ snap' = [snap EXCEPT ![w] = [ldb |-> @.ldb, keys |-> cachedKeys, remove |-> cachedRemove]]
    BY <1>3 DEF SnapshotCache, SameRows, fileVars, Goto
  <2>2. Others(w) /\ snap'[w].ldb = snap[w].ldb /\ snap'[w].keys = cachedKeys /\ pc'[w] = "open"
    BY <1>1, <2>1 DEF TxTypes, Others
  <2>3. SoundIn(files, snap'[w].ldb, Floor) /\ SoundIn(files, snap'[w].keys, Floor)
    BY <1>1, <2>2 DEF SnapsSound
  <2>4. Written(files, pc'[w], pendingKeys'[w], Pos(wc))
    BY <2>2 DEF Written, Busy
  <2> QED BY <2>1, <2>2, <2>3, <2>4, QuietStep
<1>4. ASSUME NEW w \in Workers, SameRows, UNCHANGED <<pc, snap, wc, files, old, writeLock>>, pc[w] = "open",
             \A x \in Workers : x # w => pendingKeys'[x] = pendingKeys[x]
      PROVE  DataInv'
  <2>1. Others(w) /\ SoundIn(files, snap'[w].ldb, Floor) /\ SoundIn(files, snap'[w].keys, Floor)
    BY <1>1, <1>4 DEF SnapsSound, Others
  <2>2. Written(files, pc'[w], pendingKeys'[w], Pos(wc))
    BY <1>4 DEF Written, Busy
  <2> QED BY <1>4, <2>1, <2>2, QuietStep
<1>5. ASSUME NEW w \in Workers, NEW k \in Keys, NEW v \in Values, Put(w, k, v) PROVE DataInv'
  <2>1. /\ SameRows /\ UNCHANGED <<pc, snap, wc, files, old, writeLock>> /\ pc[w] = "open"
        /\ pendingKeys' = [pendingKeys EXCEPT ![w] = [@ EXCEPT ![k] = v]]
    BY <1>5 DEF Put, PutKey, Writable, SameRows, fileVars
  <2>2. \A x \in Workers : x # w => pendingKeys'[x] = pendingKeys[x]
    BY <1>1, <2>1 DEF TxTypes
  <2> QED BY <1>4, <2>1, <2>2
<1>6. ASSUME NEW w \in Workers, NEW k \in Keys, Delete(w, k) PROVE DataInv'
  <2>1. /\ SameRows /\ UNCHANGED <<pc, snap, wc, files, old, writeLock>> /\ pc[w] = "open"
        /\ pendingKeys' = [pendingKeys EXCEPT ![w] = [@ EXCEPT ![k] = None]]
    BY <1>6 DEF Delete, Writable, SameRows, fileVars
  <2>2. \A x \in Workers : x # w => pendingKeys'[x] = pendingKeys[x]
    BY <1>1, <2>1 DEF TxTypes
  <2> QED BY <1>4, <2>1, <2>2
<1>7. ASSUME NEW w \in Workers, NEW b \in Blocks, StoreBlock(w, b) PROVE DataInv'
  <2>1. SameRows /\ UNCHANGED <<pc, snap, wc, files, old, writeLock, pendingKeys>> /\ pc[w] = "open"
    BY <1>7 DEF StoreBlock, Writable, SameRows, fileVars
  <2> QED BY <1>4, <2>1
<1>8. ASSUME NEW w \in Workers, Rollback(w) \/ CommitFails(w) PROVE DataInv'
  <2>1. Close(w) /\ SameRows /\ UNCHANGED <<wc, files>> /\ pc[w] \notin {"write", "undo"}
    BY <1>8 DEF Rollback, CommitFails, SameRows, fileVars
  <2> QED BY <2>1, CloseData
<1>9. ASSUME NEW w \in Workers, Commit(w) PROVE DataInv'
  <2>1. /\ pc[w] = "open" /\ writeLock = w /\ old' = [old EXCEPT ![w] = Pos(wc)] /\ Goto(w, "write")
        /\ SameRows /\ UNCHANGED <<snap, pendingKeys, writeLock, wc, files>>
    BY <1>9 DEF Commit, Writable, SameRows, fileVars, Pos
  <2>2. pc'[w] = "write" /\ old'[w] = Pos(wc) /\ Others(w)
    BY <1>1, <2>1 DEF TxTypes, Goto, Others
  <2>3. Floor = Pos(wc) /\ Floor' = Pos(wc)
    BY <2>1, <2>2, ConstantAssumption DEF Floor
  <2>4. \A b \in Blocks : pendingKeys[w][b] = None
    BY <2>1 DEF IInv, RowInv, Busy
  <2>5. Written(files, pc'[w], pendingKeys'[w], Pos(wc))
    BY <2>1, <2>4 DEF Written, SoundIn
  <2>6. SoundIn(files, snap'[w].ldb, Floor) /\ SoundIn(files, snap'[w].keys, Floor)
    BY <1>1, <2>1 DEF SnapsSound
  <2> QED BY <2>1, <2>2, <2>3, <2>5, <2>6, QuietData DEF Others
<1>10. ASSUME NEW w \in Workers, FlushSync(w) PROVE DataInv'
  <2>1. /\ pc[w] = "sync" /\ (\E label \in {"direct", "flush"} : Goto(w, label)) /\ SameRows
        /\ UNCHANGED <<snap, pendingKeys, old, writeLock, wc, files>>
    BY <1>10 DEF FlushSync, SameRows
  <2>2. Committed' = Committed /\ ldb' = ldb
    BY <2>1, SameCommitted DEF SameRows
  <2> QED BY <2>1, <2>2, FlushData DEF Busy
<1>11. ASSUME NEW w \in Workers, FlushCache(w) PROVE DataInv'
  <2>1. pc[w] = "flush" /\ Goto(w, "clear") /\ UNCHANGED <<snap, pendingKeys, old, writeLock, wc, files>>
    BY <1>11 DEF FlushCache, fileVars
  <2>2. Committed' = Committed /\ ldb' = Committed
    BY <1>11, FlushCacheRows
  <2> QED BY <2>1, <2>2, FlushData DEF Busy
<1>12. ASSUME NEW w \in Workers, ClearCache(w) PROVE DataInv'
  <2>1. pc[w] = "clear" /\ Goto(w, "direct") /\ UNCHANGED <<snap, pendingKeys, old, writeLock, wc, files>>
    BY <1>12 DEF ClearCache, fileVars
  <2>2. Committed' = Committed /\ ldb' = ldb
    BY <1>12, ClearCacheRows
  <2> QED BY <2>1, <2>2, FlushData DEF Busy
<1>13. ASSUME NEW w \in Workers, CommitToCache(w) PROVE DataInv'
  <2>1. pc[w] = "cache" /\ Close(w) /\ UNCHANGED <<wc, files>>
    BY <1>13 DEF CommitToCache, fileVars
  <2>2. Committed' = Overlay(Committed, pendingKeys[w], pendingRemove[w]) /\ ldb' = ldb
    BY <1>13, CommitToCacheRows
  <2> QED BY <2>1, <2>2, CommitData DEF Busy
<1>14. ASSUME NEW w \in Workers, CommitDirect(w) PROVE DataInv'
  <2>1. pc[w] = "direct" /\ Close(w) /\ UNCHANGED <<wc, files>>
    BY <1>14 DEF CommitDirect, fileVars
  <2>2. Committed' = Overlay(Committed, pendingKeys[w], pendingRemove[w]) /\ ldb' = Committed'
    BY <1>14, CommitDirectRows
  <2> QED BY <2>1, <2>2, CommitData DEF Busy
<1>15. CASE CloseDb
  <2>1. UNCHANGED <<pc, snap, pendingKeys, old, writeLock, files>> /\ Pos(wc') = Pos(wc) /\ \A x \in Workers : pc[x] = "idle"
    BY <1>15, PositionFacts DEF CloseDb, txVars, Pos
  <2>2. (ldb' = ldb \/ ldb' = Committed) /\ Committed' = ldb'
    BY <1>15, CloseDbRows
  <2>3. Floor' = Floor
    BY <2>1 DEF Floor
  <2>4. Data(files, Floor, Pos(wc), ldb, Committed, snap) /\ ReachesIn(files, Pos(wc))
    BY <2>1, DataFacts
  <2>5. Data(files, Floor, Pos(wc), ldb', Committed', snap)
    BY <2>2, <2>4 DEF Data
  <2> QED BY <1>1, <2>1, <2>3, <2>4, <2>5 DEF DataInv, Data, Written
<1> QED BY <1>2, <1>3, <1>5, <1>6, <1>7, <1>8, <1>9, <1>10, <1>11, <1>12, <1>13, <1>14, <1>15,
           WriteBlockData, WriteBlockFailsData, UndoData, StoreCursorData, OpenData DEF Next, Reopen, CrashAndOpen

-----------------------------------------------------------------------------
(* Theorems.                                                               *)

LEMMA InitInv ==
  ASSUME Init
  PROVE  IInv
<1> DEFINE zero == [file |-> 0, off |-> 0]
<1>1. zero \in Positions /\ zero.file = 0 /\ zero.off = 0 /\ MaxFileSize \in Nat
  BY ConstantAssumption DEF Positions, BlockLen
<1>2. InitialRows \in RowMaps /\ InitialRows[WriteLoc] = zero /\ \A b \in Blocks : InitialRows[b] = None
  BY <1>1, EmptyFacts DEF InitialRows, RowMaps, Empty, Rows, RowValues
<1>3. wc \in Cursors /\ wc.open = FALSE /\ Pos(wc) = zero
  BY <1>1 DEF Init, Cursors, Pos
<1>4. DOMAIN files = {} /\ DOMAIN durable = {}
  BY DEF Init
<1>5. FilesOK(files) /\ DurableOK(durable, files)
  BY <1>4, FS_EmptySet DEF FilesOK, DurableOK
<1>6. NoSnap \in [ldb : RowMaps, keys : RowMaps, remove : SUBSET Rows]
  BY EmptyFacts DEF NoSnap
<1>7. TxTypes
  <2>1. <<>> \in Seq(Blocks) /\ "idle" \in Labels
    BY DEF Labels
  <2> QED BY <1>1, <1>6, <2>1, EmptyFacts DEF Init, TxTypes
<1>8. history = <<InitialRows>> /\ history \in Seq(RowMaps) /\ ldb = InitialRows /\ cachedKeys = Empty /\ cachedRemove = {}
  BY <1>2 DEF Init
<1>9. RowTypes
  BY <1>2, <1>8, EmptyFacts DEF RowTypes
<1>10. FileTypes
  BY <1>3, <1>5, ConstantAssumption DEF Init, FileTypes
<1>11. Committed = ldb
  BY <1>8, <1>9, CommittedType
<1>12. \A w \in Workers : pc[w] = "idle" /\ snap[w] = NoSnap /\ pendingKeys[w] = Empty /\ pendingRemove[w] = {}
  BY DEF Init
<1>13. writeLock = None /\ ~closed /\ None \notin Workers
  BY ConstantAssumption DEF Init
<1>14. LockInv
  BY <1>12, <1>13 DEF LockInv, Busy
<1>15. RowInv
  BY <1>1, <1>2, <1>8, <1>11, <1>12, EmptyFacts DEF RowInv, Busy
<1>16. ldb \in ToSet(history)
  BY <1>8 DEF ToSet
<1>17. CacheInv
  BY <1>11, <1>12, <1>13, <1>16 DEF CacheInv, WriterSeesCommitted, LevelDbIsCommitted
<1>18. Floor = zero
  BY <1>3, <1>13 DEF Floor
<1>19. ReachesIn(files, zero) /\ NotAfter(zero, zero)
  BY <1>1, <1>4, NotAfterTrans DEF ReachesIn, CellsOf
<1>20. Fits(files, zero, ldb)
  BY <1>2, <1>8, <1>19 DEF Fits, SoundIn
<1>21. SnapsSound(files, zero, snap)
  BY <1>12, NoSnapSound DEF SnapsSound
<1>22. DataInv
  BY <1>3, <1>11, <1>12, <1>18, <1>19, <1>20, <1>21 DEF DataInv, Busy
<1> QED BY <1>7, <1>9, <1>10, <1>14, <1>15, <1>17, <1>22 DEF IInv, TypeInv

LEMMA Preserved ==
  ASSUME IInv, [Next]_vars
  PROVE  IInv'
<1>1. CASE Next
  BY <1>1, TxTypeStep, RowTypeStep, FileTypeStep, LockStep, RowStep, CacheStep, DataStep DEF IInv, TypeInv
<1>2. CASE UNCHANGED vars
  <2>1. UNCHANGED <<pc, snap, pendingKeys, pendingRemove, pendingBlocks, old, writeLock, closed, cachedKeys, cachedRemove,
                    ldb, wc, files, durable, history, failures, crashes>>
    BY <1>2 DEF vars, txVars, fileVars
  <2>2. Committed' = Committed /\ Floor' = Floor
    BY <2>1 DEF Committed, Floor
  <2> QED BY <2>1, <2>2 DEF IInv, TypeInv, TxTypes, RowTypes, FileTypes, LockInv, RowInv, CacheInv, WriterSeesCommitted,
                          LevelDbIsCommitted, DataInv
<1> QED BY <1>1, <1>2

(* The inductive invariant: locks, rows, cache, snapshots and block files  *)
(* fit together at every step of every behaviour.                          *)
THEOREM StoreInvariant == Spec => []IInv
<1>1. Init => IInv
  BY InitInv
<1>2. IInv /\ [Next]_vars => IInv'
  BY Preserved
<1> QED BY <1>1, <1>2, PTL DEF Spec

LEMMA InvConsistent ==
  ASSUME IInv
  PROVE  StoreIsConsistent
<1>1. TypeOK
  BY DEF IInv, TypeInv, TxTypes, RowTypes, FileTypes, TypeOK, RowMaps, Cursors, FilesOK, DurableOK
<1>2. WriterSeesCommitted /\ LevelDbIsCommitted
  BY DEF IInv, CacheInv
<1>3. SoundIn(files, ldb, Floor) /\ SoundIn(files, Committed, Floor) /\ SnapsSound(files, Floor, snap)
  BY DataFacts DEF Data
<1>4. \A w \in Workers : SoundIn(files, View(snap[w]), Floor)
  <2> SUFFICES ASSUME NEW w \in Workers PROVE SoundIn(files, View(snap[w]), Floor)
    OBVIOUS
  <2> DEFINE l == snap[w].ldb
             k == snap[w].keys
             r == snap[w].remove
  <2>1. l \in RowMaps /\ k \in RowMaps /\ SoundIn(files, l, Floor) /\ SoundIn(files, k, Floor)
    BY <1>3 DEF SnapsSound, IInv, TypeInv, TxTypes
  <2> HIDE DEF l, k, r
  <2>2. SoundIn(files, Overlay(l, k, r), Floor)
    BY <2>1, OverlaySound
  <2> QED BY <2>2 DEF View, l, k, r
<1>5. \A rows \in {ldb, Committed} \cup {View(snap[w]) : w \in {x \in Workers : pc[x] # "idle"}} : SoundIn(files, rows, Floor)
  BY <1>3, <1>4
<1>6. BlocksReadable
  BY <1>5 DEF BlocksReadable, SoundIn, Holds, HoldsIn
<1>7. OpenSucceeds
  <2> DEFINE p == ldb[WriteLoc]
             c == ScanPosition
  <2>1. p \in Positions /\ ReachesIn(files, p) /\ FilesOK(files)
    BY DataFacts DEF Data, Fits
  <2>2. NotAfter(p, c) /\ c \in Cursors
    BY <2>1, ScanFacts DEF Cursors
  <2> HIDE DEF p, c
  <2>3. p.file \in Nat /\ p.off \in Nat /\ c.file \in Nat /\ c.off \in Nat
    BY <2>1, <2>2, PositionFacts DEF Cursors
  <2>4. ~After(p, c)
    BY <2>2, <2>3 DEF NotAfter, After
  <2> QED BY <2>4 DEF OpenSucceeds, p, c
<1> QED BY <1>1, <1>2, <1>6, <1>7 DEF StoreIsConsistent

(* Whatever transactions, failed writes, half-done rollbacks, flushes and  *)
(* crashes happen, writers read the committed state, leveldb holds a state *)
(* that was committed, every block row points at the complete record of    *)
(* its block, and reconcileDB never finds the files shorter than leveldb   *)
(* says.                                                                   *)
THEOREM ConsistentStore == Spec => []StoreIsConsistent
<1>1. IInv => StoreIsConsistent
  BY InvConsistent
<1> QED BY <1>1, StoreInvariant, PTL

(* The committed contents change only when a transaction commits, and then *)
(* by all of its writes and removals on top of what it read.               *)
THEOREM AtomicCommit == Spec => CommitIsAtomic
<1> DEFINE A == crashes' = crashes /\ ~closed' =>
                  \/ Committed' = Committed
                  \/ \E w \in Workers : writeLock = w /\ pc'[w] = "idle"
                       /\ Committed' = Overlay(View(snap[w]), pendingKeys[w], pendingRemove[w])
<1>1. IInv /\ [Next]_vars => [A]_vars
  <2> SUFFICES ASSUME IInv, Next, crashes' = crashes, ~closed'
               PROVE  \/ Committed' = Committed
                      \/ \E w \in Workers : writeLock = w /\ pc'[w] = "idle"
                           /\ Committed' = Overlay(View(snap[w]), pendingKeys[w], pendingRemove[w])
    OBVIOUS
  <2>1. ASSUME NEW w \in Workers, Close(w), pc[w] \in {"cache", "direct"},
               Committed' = Overlay(Committed, pendingKeys[w], pendingRemove[w])
        PROVE  writeLock = w /\ pc'[w] = "idle" /\ Committed' = Overlay(View(snap[w]), pendingKeys[w], pendingRemove[w])
    <3>1. writeLock = w
      BY <2>1, LockFacts DEF Busy
    <3>2. View(snap[w]) = Committed
      BY <2>1, <3>1 DEF IInv, CacheInv, WriterSeesCommitted
    <3>3. pc'[w] = "idle"
      BY <2>1 DEF Close, Goto, IInv, TypeInv, TxTypes
    <3> QED BY <2>1, <3>1, <3>2, <3>3
  <2>2. ASSUME NEW w \in Workers, CommitToCache(w)
        PROVE  writeLock = w /\ pc'[w] = "idle" /\ Committed' = Overlay(View(snap[w]), pendingKeys[w], pendingRemove[w])
    BY <2>1, <2>2, CommitToCacheRows DEF CommitToCache
  <2>3. ASSUME NEW w \in Workers, CommitDirect(w)
        PROVE  writeLock = w /\ pc'[w] = "idle" /\ Committed' = Overlay(View(snap[w]), pendingKeys[w], pendingRemove[w])
    BY <2>1, <2>3, CommitDirectRows DEF CommitDirect
  <2>4. CASE Reopen
    <3>1. Committed = ldb
      BY <2>4, CommittedType DEF Reopen, IInv, LockInv, TypeInv
    <3> QED BY <2>4, <3>1, OpenRows DEF Reopen
  <2>5. ~CloseDb /\ ~CrashAndOpen
    BY DEF CloseDb, CrashAndOpen, IInv, TypeInv, FileTypes
  <2> QED BY <2>2, <2>3, <2>4, <2>5, RowSteps, SameCommitted, FlushCacheRows, ClearCacheRows
<1> QED BY <1>1, StoreInvariant, PTL DEF Spec, CommitIsAtomic

-----------------------------------------------------------------------------
(* FFLDB implements TxStore.                                               *)

(* A transaction that just began has nothing pending.                      *)
FreshInv ==
  \A w \in Workers : pc[w] \in {"idle", "snapshot"} => pendingKeys[w] = Empty /\ pendingRemove[w] = {}

LEMMA FreshStep ==
  ASSUME IInv, FreshInv, Next
  PROVE  FreshInv'
<1>1. /\ pc \in [Workers -> Labels] /\ pendingKeys \in [Workers -> RowMaps] /\ pendingRemove \in [Workers -> SUBSET Rows]
  BY DEF IInv, TypeInv, TxTypes
<1>2. ASSUME NEW w \in Workers, Close(w) PROVE FreshInv'
  BY <1>1, <1>2 DEF Close, Goto, FreshInv
<1>3. ASSUME NEW w \in Workers, pc[w] \notin {"idle", "snapshot"}, \A x \in Workers \ {w} : pc'[x] = pc[x]
             /\ pendingKeys'[x] = pendingKeys[x] /\ pendingRemove'[x] = pendingRemove[x],
             pc'[w] \notin {"idle", "snapshot"}
      PROVE  FreshInv'
  BY <1>3 DEF FreshInv
<1>4. ASSUME NEW w \in Workers, NEW label \in Labels, Goto(w, label), UNCHANGED <<pendingKeys, pendingRemove>>,
             label \in {"idle", "snapshot"} => pc[w] \in {"idle", "snapshot"}
      PROVE  FreshInv'
  BY <1>1, <1>4 DEF Goto, FreshInv
<1>5. ASSUME NEW w \in Workers, NEW writable \in BOOLEAN, Begin(w, writable) PROVE FreshInv'
  BY <1>4, <1>5 DEF Begin, Labels
<1>6. ASSUME NEW w \in Workers, SnapshotCache(w) \/ Commit(w) \/ FlushCache(w) \/ ClearCache(w) PROVE FreshInv'
  BY <1>4, <1>6 DEF SnapshotCache, Commit, FlushCache, ClearCache, Labels
<1>7. ASSUME NEW w \in Workers, NEW k \in Keys, NEW v \in Values, Put(w, k, v) PROVE FreshInv'
  BY <1>1, <1>3, <1>7 DEF Put, PutKey, Writable
<1>8. ASSUME NEW w \in Workers, NEW k \in Keys, Delete(w, k) PROVE FreshInv'
  BY <1>1, <1>3, <1>8 DEF Delete, Writable
<1>9. ASSUME NEW w \in Workers, NEW b \in Blocks, StoreBlock(w, b) PROVE FreshInv'
  BY <1>9 DEF StoreBlock, FreshInv
<1>10. ASSUME NEW w \in Workers, Rollback(w) \/ UndoWrites(w) \/ CommitToCache(w) \/ CommitDirect(w) \/ CommitFails(w) PROVE FreshInv'
  BY <1>2, <1>10 DEF Rollback, UndoWrites, CommitToCache, CommitDirect, CommitFails
<1>11. ASSUME NEW w \in Workers, WriteBlock(w) PROVE FreshInv'
  <2>1. pc[w] = "write" /\ pc' = pc /\ \E p : PutKey(w, Head(pendingBlocks[w]), p)
    BY <1>11 DEF WriteBlock
  <2> QED BY <1>1, <1>3, <2>1 DEF PutKey
<1>12. ASSUME NEW w \in Workers, WriteBlockFails(w) PROVE FreshInv'
  <2>1. Goto(w, "undo") /\ UNCHANGED <<pendingKeys, pendingRemove>>
    BY <1>12 DEF WriteBlockFails
  <2> QED BY <1>4, <2>1 DEF Labels
<1>13. ASSUME NEW w \in Workers, StoreCursor(w) PROVE FreshInv'
  <2>1. pc[w] = "write" /\ (\E label \in {"cache", "sync"} : Goto(w, label)) /\ \E p : PutKey(w, WriteLoc, p)
    BY <1>13 DEF StoreCursor
  <2> QED BY <1>1, <1>3, <2>1 DEF PutKey, Goto
<1>14. ASSUME NEW w \in Workers, FlushSync(w) PROVE FreshInv'
  BY <1>4, <1>14 DEF FlushSync, Labels
<1>15. CASE CloseDb
  BY <1>15 DEF CloseDb, txVars, FreshInv
<1>16. CASE Open
  BY <1>16 DEF Open, FreshInv
<1> QED BY <1>5, <1>6, <1>7, <1>8, <1>9, <1>10, <1>11, <1>12, <1>13, <1>14, <1>15, <1>16 DEF Next, Reopen, CrashAndOpen

THEOREM FreshTransactions == Spec => []FreshInv
<1>1. Init => FreshInv
  BY DEF Init, FreshInv
<1>2. IInv /\ FreshInv /\ [Next]_vars => FreshInv'
  <2>1. UNCHANGED vars /\ FreshInv => FreshInv'
    BY DEF vars, txVars, FreshInv
  <2> QED BY <2>1, FreshStep
<1> QED BY <1>1, <1>2, StoreInvariant, PTL DEF Spec

(* The view of the writer w.                                               *)
LEMMA WriterViewOf ==
  ASSUME NEW w \in Workers, writeLock = w
  PROVE  /\ pc[w] = "snapshot" => WriterView = Committed
         /\ pc[w] # "snapshot" => WriterView = Overlay(View(snap[w]), pendingKeys[w], pendingRemove[w])
<1>1. w # None
  BY ConstantAssumption
<1> QED BY <1>1 DEF WriterView, TxView

LEMMA NoWriterView ==
  ASSUME writeLock = None
  PROVE  WriterView = Committed
  BY DEF WriterView

LEMMA WriterViewOfNext ==
  ASSUME NEW w \in Workers, writeLock' = w
  PROVE  /\ pc'[w] = "snapshot" => WriterView' = Committed'
         /\ pc'[w] # "snapshot" => WriterView' = Overlay(View(snap'[w]), pendingKeys'[w], pendingRemove'[w])
<1>1. w # None
  BY ConstantAssumption
<1> QED BY <1>1 DEF WriterView, TxView

(* A step that leaves the rows and the writer's transaction alone.         *)
LEMMA Unseen ==
  ASSUME IInv, SameRows, writeLock' = writeLock,
         \A x \in Workers : writeLock = x =>
            /\ (pc[x] = "snapshot") = (pc'[x] = "snapshot")
            /\ snap'[x] = snap[x] /\ pendingKeys'[x] = pendingKeys[x] /\ pendingRemove'[x] = pendingRemove[x]
  PROVE  UNCHANGED Promise!vars
<1>1. Committed' = Committed /\ ldb' = ldb
  BY SameCommitted DEF SameRows
<1>2. WriterView' = WriterView
  <2>1. CASE writeLock = None
    BY <1>1, <2>1 DEF WriterView
  <2>2. CASE writeLock \in Workers
    BY <1>1, <2>2, WriterViewOf, WriterViewOfNext
  <2> QED BY <2>1, <2>2 DEF IInv, TypeInv, TxTypes
<1> QED BY <1>1, <1>2 DEF Promise!vars

(* A put or delete of the writer.                                          *)
LEMMA OneRow ==
  ASSUME IInv, NEW w \in Workers, writeLock = w, pc[w] \notin {"idle", "snapshot"}, pc'[w] # "snapshot",
         SameRows, UNCHANGED <<snap, writeLock>>, NEW r \in Rows,
         \/ \E v : PutKey(w, r, v)
         \/ /\ pendingKeys' = [pendingKeys EXCEPT ![w] = [@ EXCEPT ![r] = None]]
            /\ pendingRemove' = [pendingRemove EXCEPT ![w] = @ \cup {r}]
  PROVE  Promise!Write
<1>1. Committed' = Committed /\ ldb' = ldb
  BY SameCommitted DEF SameRows
<1>2. /\ WriterView = Overlay(View(snap[w]), pendingKeys[w], pendingRemove[w])
      /\ WriterView' = Overlay(View(snap[w]), pendingKeys'[w], pendingRemove'[w])
  BY WriterViewOf, WriterViewOfNext
<1>3. pendingKeys \in [Workers -> RowMaps] /\ pendingRemove \in [Workers -> SUBSET Rows]
  BY DEF IInv, TypeInv, TxTypes
<1>4. \/ \E v : pendingKeys'[w] = [pendingKeys[w] EXCEPT ![r] = v] /\ pendingRemove'[w] = pendingRemove[w] \ {r}
      \/ pendingKeys'[w] = [pendingKeys[w] EXCEPT ![r] = None] /\ pendingRemove'[w] = pendingRemove[w] \cup {r}
  BY <1>3 DEF PutKey
<1>5. pendingKeys[w] \in RowMaps
  BY <1>3
<1>6. WriterView' = [WriterView EXCEPT ![r] = WriterView'[r]] /\ r \in DOMAIN WriterView
  <2>1. \A q \in Rows \ {r} : pendingKeys'[w][q] = pendingKeys[w][q] /\ (q \in pendingRemove'[w] <=> q \in pendingRemove[w])
    BY <1>4, <1>5 DEF RowMaps
  <2>2. WriterView' = [WriterView EXCEPT ![r] = WriterView'[r]]
    <3> DEFINE base == View(snap[w])
               keys == pendingKeys[w]
               keys2 == pendingKeys'[w]
               remove == pendingRemove[w]
               remove2 == pendingRemove'[w]
    <3>1. keys \in RowMaps /\ \A q \in Rows \ {r} : keys2[q] = keys[q] /\ (q \in remove2 <=> q \in remove)
      BY <1>5, <2>1
    <3>2. WriterView' = Overlay(base, keys2, remove2) /\ WriterView = Overlay(base, keys, remove)
      BY <1>2
    <3> HIDE DEF base, keys, keys2, remove, remove2
    <3>3. Overlay(base, keys2, remove2) = [Overlay(base, keys, remove) EXCEPT ![r] = Overlay(base, keys2, remove2)[r]]
      BY <3>1 DEF Overlay
    <3> QED BY <3>2, <3>3
  <2>3. r \in DOMAIN WriterView
    BY <1>2 DEF Overlay
  <2> QED BY <2>2, <2>3
<1>7. writeLock # None
  BY ConstantAssumption
<1> QED BY <1>1, <1>6, <1>7 DEF Promise!Write

(* The transaction of w ends.                                              *)
LEMMA TransactionEnds ==
  ASSUME IInv, NEW w \in Workers, Close(w)
  PROVE  /\ writeLock = w => writeLock # None /\ writeLock' = None /\ WriterView' = Committed'
         /\ writeLock # w /\ SameRows => UNCHANGED Promise!vars
<1>1. writeLock = w => writeLock # None /\ writeLock' = None /\ WriterView' = Committed'
  BY ConstantAssumption DEF Close, WriterView
<1>2. ASSUME writeLock # w, SameRows PROVE UNCHANGED Promise!vars
  <2>1. writeLock' = writeLock /\ \A x \in Workers : x # w =>
          pc'[x] = pc[x] /\ snap'[x] = snap[x] /\ pendingKeys'[x] = pendingKeys[x] /\ pendingRemove'[x] = pendingRemove[x]
    BY <1>2 DEF Close, Goto, IInv, TypeInv, TxTypes
  <2> QED BY <1>2, <2>1, Unseen
<1> QED BY <1>1, <1>2

LEMMA TxStoreStep ==
  ASSUME IInv, FreshInv, Next
  PROVE  Promise!Next \/ UNCHANGED Promise!vars
<1>0. /\ pc \in [Workers -> Labels] /\ pendingKeys \in [Workers -> RowMaps] /\ pendingRemove \in [Workers -> SUBSET Rows]
      /\ snap \in [Workers -> [ldb : RowMaps, keys : RowMaps, remove : SUBSET Rows]]
      /\ pendingBlocks \in [Workers -> Seq(Blocks)]
      /\ writeLock \in Workers \cup {None}
  BY DEF IInv, TypeInv, TxTypes
<1>1. ASSUME NEW w \in Workers, NEW writable \in BOOLEAN, Begin(w, writable)
      PROVE  Promise!Next \/ UNCHANGED Promise!vars
  <2>1. SameRows /\ Committed' = Committed /\ ldb' = ldb /\ pc'[w] = "snapshot" /\ UNCHANGED <<pendingKeys, pendingRemove>>
        /\ writeLock # w /\ \A x \in Workers : x # w => pc'[x] = pc[x] /\ snap'[x] = snap[x]
    BY <1>0, <1>1, SameCommitted DEF Begin, SameRows, Goto, IInv, LockInv
  <2>2. CASE writable
    <3>1. writeLock = None /\ writeLock' = w
      BY <1>1, <2>2 DEF Begin
    <3>2. WriterView = Committed /\ WriterView' = Committed
      BY <2>1, <3>1, NoWriterView, WriterViewOfNext
    <3>3. Promise!Begin(w)
      BY <2>1, <3>1, <3>2 DEF Promise!Begin
    <3> QED BY <3>3 DEF Promise!Next
  <2>3. CASE ~writable
    <3>1. writeLock' = writeLock
      BY <1>1, <2>3 DEF Begin
    <3> QED BY <2>1, <3>1, Unseen
  <2> QED BY <2>2, <2>3
<1>2. ASSUME NEW w \in Workers, SnapshotCache(w) PROVE UNCHANGED Promise!vars
  <2>1. SameRows /\ Committed' = Committed /\ ldb' = ldb /\ writeLock' = writeLock /\ UNCHANGED <<pendingKeys, pendingRemove>>
        /\ pc[w] = "snapshot" /\ pc'[w] = "open" /\ \A x \in Workers : x # w => pc'[x] = pc[x] /\ snap'[x] = snap[x]
    BY <1>0, <1>2, SameCommitted DEF SnapshotCache, SameRows, Goto
  <2>2. CASE writeLock = w
    <3>1. WriterView = Committed
      BY <2>1, <2>2, WriterViewOf
    <3>2. WriterView' = Overlay(View(snap'[w]), Empty, {})
      BY <2>1, <2>2, WriterViewOfNext DEF FreshInv
    <3>3. View(snap'[w]) = Committed
      BY <2>1, <2>2, ReadStep DEF Reads
    <3>4. Committed \in RowMaps
      BY CommittedType DEF IInv, TypeInv
    <3>5. WriterView' = Committed
      BY <3>2, <3>3, <3>4, OverlayEmpty
    <3> QED BY <2>1, <3>1, <3>5 DEF Promise!vars
  <2>3. CASE writeLock # w
    BY <2>1, <2>3, Unseen
  <2> QED BY <2>2, <2>3
<1>3. ASSUME NEW w \in Workers, NEW k \in Keys, NEW v \in Values, Put(w, k, v) PROVE Promise!Next
  <2>1. writeLock = w /\ pc[w] = "open" /\ pc' = pc /\ SameRows /\ UNCHANGED <<snap, writeLock>> /\ PutKey(w, k, v) /\ k \in Rows
    BY <1>3 DEF Put, Writable, SameRows, Rows
  <2>2. Promise!Write
    BY <2>1, OneRow
  <2> QED BY <2>2 DEF Promise!Next
<1>4. ASSUME NEW w \in Workers, NEW k \in Keys, Delete(w, k) PROVE Promise!Next
  <2>1. /\ writeLock = w /\ pc[w] = "open" /\ pc' = pc /\ SameRows /\ UNCHANGED <<snap, writeLock>> /\ k \in Rows
        /\ pendingKeys' = [pendingKeys EXCEPT ![w] = [@ EXCEPT ![k] = None]]
        /\ pendingRemove' = [pendingRemove EXCEPT ![w] = @ \cup {k}]
    BY <1>4 DEF Delete, Writable, SameRows, Rows
  <2>2. Promise!Write
    BY <2>1, OneRow
  <2> QED BY <2>2 DEF Promise!Next
<1>5. ASSUME NEW w \in Workers, WriteBlock(w) PROVE Promise!Next
  <2> DEFINE b == Head(pendingBlocks[w])
  <2>1. pc[w] = "write" /\ pc' = pc /\ SameRows /\ UNCHANGED <<snap, writeLock>> /\ PutKey(w, b, NextPosition) /\ pendingBlocks[w] # <<>>
    BY <1>5 DEF WriteBlock, SameRows
  <2>2. b \in Rows /\ writeLock = w
    BY <1>0, <2>1, LockFacts DEF Rows, Busy
  <2> HIDE DEF b
  <2>3. Promise!Write
    BY <2>1, <2>2, OneRow
  <2> QED BY <2>3 DEF Promise!Next
<1>6. ASSUME NEW w \in Workers, StoreCursor(w) PROVE Promise!Next
  <2>1. pc[w] = "write" /\ pc'[w] # "snapshot" /\ SameRows /\ UNCHANGED <<snap, writeLock>> /\ WriteLoc \in Rows
        /\ \E v : PutKey(w, WriteLoc, v)
    BY <1>0, <1>6 DEF StoreCursor, SameRows, Goto, Rows
  <2>2. writeLock = w
    BY <2>1, LockFacts DEF Busy
  <2>3. Promise!Write
    BY <2>1, <2>2, OneRow
  <2> QED BY <2>3 DEF Promise!Next
<1>7. ASSUME NEW w \in Workers, SameRows, UNCHANGED <<snap, pendingKeys, pendingRemove, writeLock>>,
             pc[w] # "snapshot", NEW label \in Labels \ {"snapshot"}, Goto(w, label)
      PROVE  UNCHANGED Promise!vars
  <2>1. pc'[w] # "snapshot" /\ \A x \in Workers : x # w => pc'[x] = pc[x]
    BY <1>0, <1>7 DEF Goto
  <2> QED BY <1>7, <2>1, Unseen
<1>8. ASSUME NEW w \in Workers, NEW b \in Blocks, StoreBlock(w, b) PROVE UNCHANGED Promise!vars
  BY <1>8, Unseen DEF StoreBlock, SameRows
<1>9. ASSUME NEW w \in Workers, Commit(w) PROVE UNCHANGED Promise!vars
  BY <1>7, <1>9 DEF Commit, Writable, SameRows, Labels
<1>10. ASSUME NEW w \in Workers, WriteBlockFails(w) PROVE UNCHANGED Promise!vars
  <2>1. SameRows /\ UNCHANGED <<snap, pendingKeys, pendingRemove, writeLock>> /\ pc[w] = "write" /\ Goto(w, "undo")
    BY <1>10 DEF WriteBlockFails, SameRows
  <2> QED BY <1>7, <2>1 DEF Labels
<1>11. ASSUME NEW w \in Workers, FlushSync(w) PROVE UNCHANGED Promise!vars
  <2>1. SameRows /\ UNCHANGED <<snap, pendingKeys, pendingRemove, writeLock>> /\ pc[w] = "sync"
        /\ (Goto(w, "direct") \/ Goto(w, "flush"))
    BY <1>11 DEF FlushSync, SameRows
  <2> QED BY <1>7, <2>1 DEF Labels
<1>12. ASSUME NEW w \in Workers, Rollback(w) \/ UndoWrites(w) \/ CommitFails(w)
       PROVE  Promise!Next \/ UNCHANGED Promise!vars
  <2>1. Close(w) /\ SameRows
    BY <1>12 DEF Rollback, UndoWrites, CommitFails, SameRows
  <2>2. Committed' = Committed /\ ldb' = ldb
    BY <2>1, SameCommitted DEF SameRows
  <2>3. writeLock = w => Promise!Rollback
    BY <2>1, <2>2, TransactionEnds DEF Promise!Rollback
  <2> QED BY <2>1, <2>3, TransactionEnds DEF Promise!Next
<1>13. ASSUME NEW w \in Workers, CommitToCache(w) \/ CommitDirect(w) PROVE Promise!Next
  <2>1. Close(w) /\ pc[w] \in {"cache", "direct"}
    BY <1>13 DEF CommitToCache, CommitDirect
  <2>2. writeLock = w
    BY <2>1, LockFacts DEF Busy
  <2>3. View(snap[w]) = Committed
    BY <2>1, <2>2 DEF IInv, CacheInv, WriterSeesCommitted
  <2>4. WriterView = Overlay(Committed, pendingKeys[w], pendingRemove[w])
    BY <2>1, <2>2, <2>3, WriterViewOf
  <2>5. Committed' = WriterView /\ ldb' \in {ldb, WriterView}
    BY <1>13, <2>4, CommitToCacheRows, CommitDirectRows
  <2>6. Promise!Commit
    BY <2>1, <2>2, <2>5, TransactionEnds DEF Promise!Commit
  <2> QED BY <2>6 DEF Promise!Next
<1>14. ASSUME NEW w \in Workers, FlushCache(w) \/ ClearCache(w) PROVE Promise!Next \/ UNCHANGED Promise!vars
  <2>1. writeLock' = writeLock /\ pc[w] \in {"flush", "clear"} /\ pc'[w] # "snapshot" /\ UNCHANGED <<snap, pendingKeys, pendingRemove>>
    BY <1>0, <1>14 DEF FlushCache, ClearCache, Goto
  <2>2. writeLock = w
    BY <2>1, LockFacts DEF Busy
  <2>3. WriterView' = WriterView
    BY <2>1, <2>2, WriterViewOf, WriterViewOfNext
  <2>4. Committed' = Committed /\ ldb' \in {Committed, ldb}
    BY <1>14, FlushCacheRows, ClearCacheRows
  <2>5. Promise!Flush \/ UNCHANGED Promise!vars
    BY <2>1, <2>3, <2>4 DEF Promise!Flush, Promise!vars
  <2> QED BY <2>5 DEF Promise!Next
<1>15. CASE CloseDb
  <2>1. writeLock' = writeLock /\ \A x \in Workers : pc[x] = "idle"
    BY <1>15 DEF CloseDb
  <2>2. writeLock = None
    BY <1>0, <2>1 DEF IInv, LockInv
  <2>3. WriterView = Committed /\ WriterView' = Committed'
    BY <2>1, <2>2 DEF WriterView
  <2>4. Committed' = ldb' /\ ldb' \in {ldb, Committed}
    BY <1>15, CloseDbRows
  <2>5. Promise!Flush \/ Promise!Lose
    BY <2>1, <2>2, <2>3, <2>4 DEF Promise!Flush, Promise!Lose
  <2> QED BY <2>5 DEF Promise!Next
<1>16. CASE Open
  <2>1. writeLock' = None /\ Committed' = ldb /\ ldb' = ldb
    BY <1>16, OpenRows DEF Open
  <2>2. WriterView' = Committed'
    BY <2>1 DEF WriterView
  <2>3. Promise!Lose
    BY <2>1, <2>2 DEF Promise!Lose
  <2> QED BY <2>3 DEF Promise!Next
<1> QED BY <1>1, <1>2, <1>3, <1>4, <1>5, <1>6, <1>8, <1>9, <1>10, <1>11, <1>12, <1>13, <1>14, <1>15, <1>16
        DEF Next, Reopen, CrashAndOpen

(* FFLDB implements the store with atomic transactions that the chain      *)
(* engine is modelled on: every step of a transaction, a flush, a failure  *)
(* or a recovery is a step of TxStore or changes nothing it knows of.      *)
THEOREM StoreRefines == Spec => ImplementsTxStore
<1>1. Init => Promise!Init
  <2> SUFFICES ASSUME Init PROVE Promise!Init
    OBVIOUS
  <2>1. writeLock = None /\ ldb = InitialRows /\ cachedKeys = Empty /\ cachedRemove = {} /\ RowTypes
    BY InitInv DEF Init, IInv, TypeInv
  <2>2. Committed = InitialRows /\ WriterView = InitialRows
    BY <2>1, CommittedType, NoWriterView
  <2> QED BY <2>1, <2>2 DEF Promise!Init
<1>2. IInv /\ FreshInv /\ [Next]_vars => [Promise!Next]_Promise!vars
  <2>1. ASSUME UNCHANGED vars PROVE UNCHANGED Promise!vars
    <3>1. UNCHANGED <<pc, snap, pendingKeys, pendingRemove, writeLock, cachedKeys, cachedRemove, ldb>>
      BY <2>1 DEF vars, txVars
    <3>2. Committed' = Committed
      BY <3>1 DEF Committed
    <3>3. WriterView' = WriterView
      BY <3>1, <3>2 DEF WriterView, TxView, View
    <3> QED BY <3>1, <3>2, <3>3 DEF Promise!vars
  <2> QED BY <2>1, TxStoreStep
<1> QED BY <1>1, <1>2, StoreInvariant, FreshTransactions, PTL DEF Spec, ImplementsTxStore, Promise!Spec
=============================================================================

-------------------------------- MODULE Work --------------------------------
(***************************************************************************)
(* The compact form of difficulty targets (pkg/bits), the table of forks   *)
(* and algorithms (pkg/fork) and the two retarget rules of the chain: the  *)
(* legacy rule (forkhalcyon.go) and the Plan 9 rule (forkplan9.go) with    *)
(* the cache its controller keeps (forkplan9controller.go, difficulty.go). *)
(*                                                                         *)
(* A block node is the sequence of headers from the genesis block to it:   *)
(* node[i] is the ancestor at height i - 1, so the height of the block     *)
(* after node is Len(node).  The numbers are those of the code with the    *)
(* digits of a target in base Base instead of 256 and with the float       *)
(* arithmetic of the Plan 9 rule done exactly, on fractions <<num, den>>.  *)
(***************************************************************************)
EXTENDS Integers, Sequences, FiniteSets, FiniteSetsExt, Folds

CONSTANTS
  Base,               \* the base of the exponent of a compact target
  HashDigits,         \* the digits of a hash
  List,               \* fork.List: the forks, by number
  IsTestnet,          \* fork.IsTestnet
  FirstPowLimit, SecondPowLimitBits,
  MinActualTimespan, MaxActualTimespan, AveragingTargetTimespan,
  RetargetAdjustmentFactor, maxRetargetTimespan, PowLimit,
  Decay               \* the weight, a fraction, of a new sample in an average

ASSUME WorkAssumption ==
  /\ Base \in Nat \ {0, 1} /\ HashDigits \in Nat /\ IsTestnet \in BOOLEAN
  /\ MinActualTimespan > 0 /\ MinActualTimespan <= MaxActualTimespan
  /\ AveragingTargetTimespan > 0 /\ maxRetargetTimespan > 0
  /\ DOMAIN List = {0, 1}

-----------------------------------------------------------------------------
(* Compact targets: exponent, sign and a mantissa of three digits less a   *)
(* bit.                                                                    *)

Half == (Base ^ 3) \div 2

Abs(n) == IF n < 0 THEN -n ELSE n

\* len(n.Bytes())
Digits(n) == CHOOSE k \in 0 .. 12 : Base ^ k > Abs(n) /\ (k = 0 \/ Base ^ (k - 1) <= Abs(n))

Unpacked(exponent, mantissa) ==
  IF exponent <= 3 THEN mantissa \div (Base ^ (3 - exponent)) ELSE mantissa * (Base ^ (exponent - 3))

CompactToBig(compact) ==
  (IF (compact \div Half) % 2 = 1 THEN -1 ELSE 1) * Unpacked(compact \div (Base ^ 3), compact % Half)

\* a mantissa that would reach the bit of the sign moves up by a digit
Packed(exponent, mantissa, sign) ==
  IF mantissa >= Half THEN (exponent + 1) * (Base ^ 3) + sign + (mantissa \div Base)
                      ELSE exponent * (Base ^ 3) + sign + mantissa

BigToCompact(n) ==
  LET mantissa(exponent) == IF exponent <= 3 THEN Abs(n) * (Base ^ (3 - exponent))
                                             ELSE Abs(n \div (Base ^ (exponent - 3)))
  IN  IF n = 0 THEN 0 ELSE Packed(Digits(n), mantissa(Digits(n)), IF n < 0 THEN Half ELSE 0)

WorkOf(difficultyNum) == IF difficultyNum <= 0 THEN 0 ELSE (Base ^ HashDigits) \div (difficultyNum + 1)

CalcWork(bits) == WorkOf(CompactToBig(bits))

-----------------------------------------------------------------------------
(* Forks and algorithms.                                                   *)

GetCurrent(height) ==
  Max({0} \cup {i \in DOMAIN List :
        height >= IF IsTestnet THEN List[i].TestnetStart ELSE List[i].ActivationHeight})

Algos(hf) == List[hf].Algos

AlgoVers(hf) == {Algos(hf)[n].Version : n \in DOMAIN Algos(hf)}

\* the name of an algorithm with this version, "" where the map has none
NameOf(hf, version) ==
  IF version \in AlgoVers(hf) THEN CHOOSE n \in DOMAIN Algos(hf) : Algos(hf)[n].Version = version ELSE ""

\* the algorithms of the fork at a height
AlgosAt(height) == Algos(GetCurrent(height))

\* before the fork an unknown version is sha256d
GetAlgoName(version, height) ==
  IF GetCurrent(height) < 1 /\ version \notin AlgoVers(0) THEN "sha256d" ELSE NameOf(GetCurrent(height), version)

\* an unknown name stands for the first algorithm of the sorted slice
GetAlgoVer(name, height) ==
  IF name \in DOMAIN AlgosAt(height) THEN AlgosAt(height)[name].Version ELSE Max(AlgoVers(GetCurrent(height)))

GetMinBits(name, height) == IF name \in DOMAIN AlgosAt(height) THEN AlgosAt(height)[name].MinBits ELSE 0

GetMinDiff(name, height) == CompactToBig(GetMinBits(name, height))

GetAveragingInterval(height) == List[GetCurrent(height)].AveragingInterval

\* ForkCalc: the base interval over one plus the sum of the intervals in units of it
P9Average ==
  LET interval(v) == Algos(1)[NameOf(1, v)].VersionInterval
      base == interval(Min(AlgoVers(1)))
  IN  <<base * base, base + MapThenSumSet(interval, AlgoVers(1))>>

-----------------------------------------------------------------------------
(* Ancestors.                                                              *)

\* versions before the fork other than 2 and 514 count as 2
Legacy(version, height) ==
  IF GetCurrent(height) = 0 /\ version \notin {2, 514} THEN 2 ELSE version

\* GetLastWithAlgo of the ancestor node[p]: the position of the newest block
\* of the algorithm at or before it, 0 where there is none
GetLastWithAlgo(node, p, algo) ==
  Max({0} \cup {i \in 1 .. p : Legacy(node[i].version, i - 1) = Legacy(algo, p)})

Sorted(s) ==
  LET below(i) == Cardinality({j \in DOMAIN s : s[j] < s[i] \/ (s[j] = s[i] /\ j < i)})
  IN  [k \in DOMAIN s |-> s[CHOOSE i \in DOMAIN s : below(i) = k - 1]]

-----------------------------------------------------------------------------
(* The legacy rule: the target of the last block of the algorithm, scaled  *)
(* by the time its last AveragingInterval blocks took.                     *)

CalcNextRequiredDifficultyHalcyonMutant(node, algoname) ==
  LET nH == Len(node)
      algo == GetAlgoVer(algoname, nH)
      prevNode == GetLastWithAlgo(node, nH, algo)
      minBits == GetMinBits(GetAlgoName(algo, nH), nH)
  IN  IF prevNode = 0 THEN minBits
      ELSE BigToCompact((CompactToBig(node[prevNode].bits) * MaxActualTimespan) \div AveragingTargetTimespan)

\* the first block of the averaging interval that ends with prevNode
firstNode(node, prevNode, algo, interval) ==
  LET earlier(p) == IF p <= 1 THEN 0 ELSE GetLastWithAlgo(node, p - 1, algo)
      back[i \in Nat] == IF i = 0 THEN prevNode ELSE earlier(back[i - 1])
  IN  back[interval - 1]

Clamped(timespan) == Max({MinActualTimespan, Min({timespan, MaxActualTimespan})})

Rescaled(node, prevNode, first, minBits) ==
  IF prevNode = 0 \/ first = 0 THEN minBits
  ELSE BigToCompact(Min({(CompactToBig(node[prevNode].bits) *
                          Clamped(node[prevNode].timestamp - node[first].timestamp)) \div AveragingTargetTimespan,
                         CompactToBig(minBits)}))

RetargetFrom(node, prevNode, algo) ==
  Rescaled(node, prevNode, firstNode(node, prevNode, algo, GetAveragingInterval(Len(node))),
           GetMinBits(GetAlgoName(algo, Len(node)), Len(node)))

Retarget(node, algo) == RetargetFrom(node, GetLastWithAlgo(node, Len(node), algo), algo)

CalcNextRequiredDifficultyHalcyon(node, algoname) == Retarget(node, GetAlgoVer(algoname, Len(node)))

-----------------------------------------------------------------------------
(* The Plan 9 rule: the target of the last block of the algorithm, scaled  *)
(* by the average spacing of its blocks and by that of all blocks.         *)

startHeight == IF IsTestnet THEN List[1].TestnetStart ELSE List[1].ActivationHeight

minAvSamples == 3

\* the timestamps of the newest blocks, at most one more than the averaging
\* interval, of those at the given positions
Stamps(node, positions) ==
  LET newest == {i \in positions : Cardinality({j \in positions : j > i}) <= List[1].AveragingInterval}
  IN  [k \in 1 .. Cardinality(newest) |->
        node[CHOOSE i \in newest : Cardinality({j \in newest : j <= i}) = k].timestamp]

GetAllStamps(node) == Stamps(node, {i \in DOMAIN node : i - 1 > startHeight})

\* the blocks of an algorithm above the start of the fork
AlgPositions(node, algoName) ==
  {i \in DOMAIN node : i - 1 > startHeight /\ node[i].version = Algos(1)[algoName].Version}

GetAlgStamps(node, algoName) == Stamps(node, AlgPositions(node, algoName))

\* ewma.MovingAverage over the intervals between the stamps; a zero average
\* is replaced by the next sample
MovingAverage(stamps) ==
  LET add(x, av) == IF av[1] = 0 THEN <<x, 1>>
                    ELSE <<x * Decay[1] * av[2] + av[1] * (Decay[2] - Decay[1]), Decay[2] * av[2]>>
      upTo[k \in Nat] == IF k = 0 THEN <<0, 1>> ELSE add(stamps[k + 1] - stamps[k], upTo[k - 1])
  IN  upTo[Len(stamps) - 1]

Over(a, b) == <<a[1] * b[2], a[2] * b[1]>>

\* the average over its goal, or what the code takes where there is none
Ratio(av, goal, none) == IF av[1] # 0 THEN Over(av, goal) ELSE none

\* GetAll and GetAlg, with the condition on the samples of their caller
GetAll(stamps) ==
  IF Len(stamps) > minAvSamples THEN Ratio(MovingAverage(stamps), P9Average, <<1, 1>>) ELSE <<1, 1>>

GetAlg(stamps, ttpb) ==
  IF Len(stamps) > minAvSamples THEN Ratio(MovingAverage(stamps), <<ttpb, 1>>, <<0, 1>>) ELSE <<1, 1>>

\* truncation towards zero, as of big.Float.Int
Scaled(n, adjustment) ==
  LET quotient(p, q) == IF p < 0 THEN -((-p) \div q) ELSE p \div q
  IN  quotient(n * adjustment[1], adjustment[2])

Times(a, b) == <<a[1] * b[1], a[2] * b[2]>>

Capped(newTarget) == IF newTarget < FirstPowLimit THEN BigToCompact(newTarget) ELSE SecondPowLimitBits

LastBits(node, positions) == IF positions = {} THEN SecondPowLimitBits ELSE node[Max(positions)].bits

CalcNextRequiredDifficultyPlan9(node, algoName) ==
  Capped(Scaled(CompactToBig(LastBits(node, AlgPositions(node, algoName))),
                Times(GetAlg(GetAlgStamps(node, algoName), Algos(1)[algoName].VersionInterval),
                      GetAll(GetAllStamps(node)))))

-----------------------------------------------------------------------------
(* The difficulty the chain asks for after a node.  cache is the pair      *)
(* DifficultyHeight, DifficultyBits of the chain; diffs the maps stored in *)
(* the nodes.  A map of bits has a version only where it has a value.      *)

NoDiffs == [v \in {} |-> 0]

Lookup(bits, version) == IF version \in DOMAIN bits THEN bits[version] ELSE 0

AllBits(node, hf) ==
  [v \in AlgoVers(hf) |-> IF hf = 0 THEN CalcNextRequiredDifficultyHalcyon(node, NameOf(0, v))
                                    ELSE CalcNextRequiredDifficultyPlan9(node, NameOf(1, v))]

\* CalcNextRequiredDifficultyPlan9Controller: the cache afterwards and the map
\* it returns
CalcNextRequiredDifficultyPlan9Controller(cache, node) ==
  LET nH == Len(node)
      hf == GetCurrent(nH)
  IN  IF hf = 1 /\ cache.height = nH THEN [cache |-> cache, bits |-> cache.bits]
      ELSE [cache |-> IF hf = 1 THEN [cache EXCEPT !.height = nH] ELSE cache,
            bits |-> AllBits(node, hf)]

\* the map of the controller becomes the cache
Stored(r, version) == [cache |-> [r.cache EXCEPT !.bits = r.bits], bits |-> Lookup(r.bits, version)]

\* CalcNextRequiredDifficultyFromNode: the cache and the bits
CalcNextRequiredDifficultyFromNode(cache, diffs, node, algoname) ==
  LET version == GetAlgoVer(algoname, Len(node))
      own == IF node \in DOMAIN diffs THEN diffs[node] ELSE NoDiffs
  IN  IF GetCurrent(Len(node)) = 0
      THEN [cache |-> cache, bits |-> CalcNextRequiredDifficultyHalcyon(node, algoname)]
      ELSE IF Lookup(own, version) # 0 THEN [cache |-> cache, bits |-> own[version]]
      ELSE Stored(CalcNextRequiredDifficultyPlan9Controller(cache, node), version)

\* what the retarget rule asks for after a node, without the caches
Required(node, algoname) ==
  IF GetCurrent(Len(node)) = 0 THEN CalcNextRequiredDifficultyHalcyon(node, algoname)
  ELSE Lookup(AllBits(node, 1), GetAlgoVer(algoname, Len(node)))

\* calcEasiestDifficulty: a factor for every retarget the duration has room for
calcEasiestDifficulty(bits, duration) ==
  LET newTarget[k \in Nat] ==
        IF k = 0 THEN CompactToBig(bits)
        ELSE IF duration - ((k - 1) * maxRetargetTimespan) > 0 /\ newTarget[k - 1] < PowLimit
             THEN newTarget[k - 1] * RetargetAdjustmentFactor ELSE newTarget[k - 1]
      steps == (Max({0, duration}) + maxRetargetTimespan - 1) \div maxRetargetTimespan
  IN  BigToCompact(Min({newTarget[steps], PowLimit}))
=============================================================================

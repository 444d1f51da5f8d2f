------------------------------- MODULE Rules --------------------------------
(***************************************************************************)
(* The rules a block is admitted by (validate.go, merkle.go), with the     *)
(* checkpoints (checkpoints.go), the difficulty caches (Work) and the      *)
(* coinbase of the hard fork (subsidy.go.go): ProcessBlock and             *)
(* CheckConnectBlockTemplate over a growing block index.                   *)
(*                                                                         *)
(* A node is the sequence of headers that leads to it (see Work).  A       *)
(* header's hash is the header itself, its proof of work the flag solved.  *)
(* A transaction is a name whose fields are given by Tx; hashing is a      *)
(* tuple constructor.  The utxo rules of checkConnectBlock are in Utxo,    *)
(* the steps, locks and database of ProcessBlock in BlockChain: here a     *)
(* call is one step.                                                       *)
(***************************************************************************)
EXTENDS Locate

CONSTANTS
  Tx,                 \* the transactions, by name
  InitialChains,      \* the tips of the main chains the database may hold at the start
  InitialBody(_),     \* the body of their blocks, by height
  MaxBlockBaseSize, MaxBlockSigOpsCost, MaxSatoshi,
  MinCoinbaseScriptLen, MaxCoinbaseScriptLen, LockTimeThreshold,
  TimeLimit,          \* the adjusted time plus MaxTimeOffsetSeconds
  medianTimeBlocks,
  baseSubsidy, SubsidyReductionInterval,
  Curve(_, _),        \* the Plan 9 supply curve: interval and height to amount
  Payees, CoreAmount, TestnetCoreAmount, CorePubkeys,
  Blacklist,          \* the suspended addresses
  Checkpoints,        \* the checkpoint nodes, in order of height
  CheckpointConfirmations,
  Strangers,          \* the tips of other nodes of the network
  MaxInv,             \* the inventory entries of one answer
  Blocks,             \* the blocks submitted, a header, a body and the flags each
  MaxNew,             \* bound on the number of blocks submitted and accepted
  MaxForkDepth        \* bound on the distance of their parents from the tip

Headers == {k.header : k \in Blocks} \cup UNION {{c[i] : i \in DOMAIN c} : c \in InitialChains \cup Strangers}

\* the nodes of a network have one genesis block, and the algorithms before
\* the fork are those of fork.Algos
ASSUME RulesAssumption ==
  /\ \A h \in Headers :
       h = [version |-> h.version, timestamp |-> h.timestamp, bits |-> h.bits,
            merkleRoot |-> h.merkleRoot, solved |-> h.solved]
  /\ \A k \in Blocks : k.body \in Seq(DOMAIN Tx)
  /\ \A c \in InitialChains \cup Strangers : c \in Seq(Headers) /\ c # nil
  /\ \A c, d \in InitialChains \cup Strangers : c[1] = d[1]
  /\ MaxInv \in Nat \ {0}
  /\ DOMAIN Algos(0) = {"sha256d", "scrypt"}
  /\ Algos(0)["sha256d"].Version = 2 /\ Algos(0)["scrypt"].Version = 514

VARIABLES
  index,              \* b.Index: the nodes known
  body,               \* their blocks in the database
  failed,             \* the nodes that failed to connect
  best, view,         \* b.BestChain.Tip() and the array of b.BestChain
  cache, diffs,       \* the difficulty caches of Work
  checkpoint          \* b.checkpointNode and b.nextCheckpoint, <<>> and 0 for nil

vars == <<index, body, failed, best, view, cache, diffs, checkpoint>>

-----------------------------------------------------------------------------
(* Transactions.                                                           *)

IsCoinBaseTx(t) == Len(t.in) = 1 /\ t.in[1].prev = "null"

Total(t) == FoldLeft(LAMBDA sum, o : sum + o.value, 0, t.out)

CheckTransactionSanity(t) ==
  /\ t.in # <<>> /\ t.out # <<>>
  /\ t.size <= MaxBlockBaseSize
  /\ \A i \in DOMAIN t.out : t.out[i].value \in 0 .. MaxSatoshi
  /\ Total(t) <= MaxSatoshi
  /\ \A i, j \in DOMAIN t.in : t.in[i].prev = t.in[j].prev => i = j
  /\ IF IsCoinBaseTx(t) THEN t.in[1].script \in MinCoinbaseScriptLen .. MaxCoinbaseScriptLen
     ELSE \A i \in DOMAIN t.in : t.in[i].prev # "null"

IsFinalizedTransaction(t, blockHeight, blockTime) ==
  \/ t.lockTime = 0
  \/ t.lockTime < IF t.lockTime < LockTimeThreshold THEN blockHeight ELSE blockTime
  \/ \A i \in DOMAIN t.in : t.in[i].final

-----------------------------------------------------------------------------
(* The merkle tree: a linear array whose last element is the root.  A      *)
(* missing right child is its left sibling again.                          *)

PowerOfTwo[k \in Nat] == IF k = 0 THEN 1 ELSE 2 * PowerOfTwo[k - 1]

nextPowerOfTwo(n) == CHOOSE p \in {PowerOfTwo[k] : k \in 0 .. n} : p >= n /\ (p = 1 \/ p < 2 * n)

HashMerkleBranches(left, right) == <<"branch", left, right>>

BuildMerkleTreeStore(txs) ==
  LET nextPoT == nextPowerOfTwo(Len(txs))
      merkles[k \in 1 .. (2 * nextPoT) - 1] ==
        LET left == 2 * (k - nextPoT) - 1
        IN  IF k <= nextPoT THEN IF k <= Len(txs) THEN <<"tx", txs[k]>> ELSE nil
            ELSE IF merkles[left] = nil THEN nil
            ELSE IF merkles[left + 1] = nil THEN HashMerkleBranches(merkles[left], merkles[left])
            ELSE HashMerkleBranches(merkles[left], merkles[left + 1])
  IN  merkles

\* GetRoot of the last element of the store
Root(merkles) == merkles[Len(merkles)]
GetRoot(txs) == Root(BuildMerkleTreeStore(txs))

-----------------------------------------------------------------------------
(* Rules that need no context.  flags: "nopow" is BFNoPoWCheck, "fast"     *)
(* BFFastAdd.                                                              *)

checkProofOfWork(h, powLimit, flags) ==
  LET target == CompactToBig(h.bits)
  IN  /\ target > 0 /\ target <= powLimit
      /\ "nopow" \in flags \/ h.solved

checkBlockHeaderSanity(h, powLimit, flags, height, prevBlockTimestamp) ==
  /\ checkProofOfWork(h, powLimit, flags)
  /\ h.timestamp <= TimeLimit
  /\ GetCurrent(height) > 0 => prevBlockTimestamp - h.timestamp <= 1

WitnessScaleFactor == 4

checkBlockSanityMutant(h, b, powLimit, flags, height, prevBlockTimestamp) ==
  /\ checkBlockHeaderSanity(h, powLimit, flags, height, prevBlockTimestamp)
  /\ b # <<>> /\ IsCoinBaseTx(Tx[b[1]])
  /\ \A i \in 2 .. Len(b) : ~IsCoinBaseTx(Tx[b[i]])
  /\ \A i \in DOMAIN b : CheckTransactionSanity(Tx[b[i]])
  /\ GetRoot(b) = h.merkleRoot

checkBlockSanity(h, b, powLimit, flags, height, prevBlockTimestamp) ==
  /\ checkBlockHeaderSanity(h, powLimit, flags, height, prevBlockTimestamp)
  /\ Len(b) \in 1 .. MaxBlockBaseSize
  /\ FoldLeft(LAMBDA n, t : n + Tx[t].size, 0, b) <= MaxBlockBaseSize
  /\ IsCoinBaseTx(Tx[b[1]])
  /\ \A i \in 2 .. Len(b) : ~IsCoinBaseTx(Tx[b[i]])
  /\ \A i \in DOMAIN b : CheckTransactionSanity(Tx[b[i]])
  /\ GetRoot(b) = h.merkleRoot
  /\ \A i, j \in DOMAIN b : b[i] = b[j] => i = j
  /\ FoldLeft(LAMBDA n, t : n + Tx[t].sigOps, 0, b) * WitnessScaleFactor <= MaxBlockSigOpsCost

-----------------------------------------------------------------------------
(* Checkpoints.                                                            *)

LatestCheckpoint == Checkpoints[Len(Checkpoints)]

verifyCheckpoint(node) ==
  \A i \in DOMAIN Checkpoints : Height(Checkpoints[i]) = Height(node) => Checkpoints[i] = node

\* the caches after a search, the node found and whether the lookup of a
\* checkpoint the chain has passed failed
findPreviousCheckpoint(cp) ==
  LET known == {i \in DOMAIN Checkpoints : Checkpoints[i] \in index /\ InView(view, Checkpoints[i])}
      passed == cp.next # 0 /\ Height(best) >= Height(Checkpoints[cp.next])
      after(i) == IF i < Len(Checkpoints) THEN i + 1 ELSE 0
      keep == [cp |-> cp, node |-> cp.node, ok |-> TRUE]
      found(c) == [cp |-> c, node |-> c.node, ok |-> TRUE]
  IN  IF Checkpoints = <<>> THEN [cp |-> cp, node |-> nil, ok |-> TRUE]
      ELSE IF cp = [node |-> nil, next |-> 0]
      THEN IF known = {} THEN found([node |-> nil, next |-> 1])
           ELSE found([node |-> Checkpoints[Max(known)], next |-> after(Max(known))])
      ELSE IF ~passed THEN keep
      ELSE IF Checkpoints[cp.next] \notin index THEN [cp |-> cp, node |-> nil, ok |-> FALSE]
      ELSE found([node |-> Checkpoints[cp.next], next |-> after(cp.next)])

\* whether a block is a good checkpoint: deep in the main chain, with the
\* timestamps around it in order and standard scripts only
IsCheckpointCandidate(node) ==
  /\ node \in index /\ InView(view, node)
  /\ Height(node) <= Height(best) - CheckpointConfirmations
  /\ Height(node) < Height(best) /\ Height(node) > 0
  /\ best[Len(node) - 1].timestamp <= best[Len(node)].timestamp
  /\ best[Len(node) + 1].timestamp >= best[Len(node)].timestamp
  /\ \A i \in DOMAIN body[node] :
       \A o \in DOMAIN Tx[body[node][i]].out : Tx[body[node][i]].out[o].script # <<"nonstandard">>

-----------------------------------------------------------------------------
(* Rules that depend on the place of the block in the chain.               *)

CalcPastMedianTime(node) ==
  LET stamps == [i \in 1 .. Min({medianTimeBlocks, Len(node)}) |-> node[Len(node) + 1 - i].timestamp]
  IN  Sorted(stamps)[(Len(stamps) \div 2) + 1]

FreshHeader(h, prevNode, bits) ==
  /\ h.bits = bits
  /\ IF GetCurrent(Len(prevNode)) > 0 THEN h.timestamp - prevNode[Len(prevNode)].timestamp >= 1
     ELSE h.timestamp > CalcPastMedianTime(prevNode)

\* the verdict, with the difficulty asked for, the checks before those of
\* the last checkpoint and the search for it
HeaderVerdict(prevNode, flags, r, ok, cp) ==
  [cache |-> IF "fast" \in flags THEN cache ELSE r.cache,
   checkpoint |-> IF ok THEN cp.cp ELSE checkpoint,
   ok |-> ok /\ cp.ok /\ (cp.node # nil => Len(prevNode) >= Height(cp.node))]

HeaderContext(h, prevNode, flags, r) ==
  HeaderVerdict(prevNode, flags, r,
                ("fast" \in flags \/ FreshHeader(h, prevNode, r.bits)) /\ verifyCheckpoint(Append(prevNode, h)),
                findPreviousCheckpoint(checkpoint))

\* the caches afterwards and the verdict
checkBlockHeaderContext(h, prevNode, flags) ==
  HeaderContext(h, prevNode, flags,
                CalcNextRequiredDifficultyFromNode(cache, diffs, prevNode, GetAlgoName(h.version, Len(prevNode))))

checkBlockContext(h, b, prevNode, flags) ==
  LET final == \A i \in DOMAIN b : IsFinalizedTransaction(Tx[b[i]], Len(prevNode), h.timestamp)
  IN  [checkBlockHeaderContext(h, prevNode, flags) EXCEPT !.ok = @ /\ ("fast" \in flags \/ final)]

-----------------------------------------------------------------------------
(* The subsidy and the coinbase of the hard fork.                          *)

HardforkHeight == IF IsTestnet THEN List[1].TestnetStart ELSE List[1].ActivationHeight

\* the subsidy of a block that is not the one of the fork
PlainSubsidy(height, version) ==
  IF SubsidyReductionInterval = 0 THEN baseSubsidy
  ELSE IF GetCurrent(height) = 0 THEN baseSubsidy \div (2 ^ (height \div SubsidyReductionInterval))
  ELSE LET name == GetAlgoName(version, height)
       IN  IF name = "" THEN 0 ELSE Curve(Algos(1)[name].VersionInterval, height)

CalcBlockSubsidy(height, version) ==
  IF SubsidyReductionInterval # 0 /\ GetCurrent(height) = 1 /\ height = HardforkHeight
  THEN FoldLeft(LAMBDA n, p : n + p.amount, 0, Payees) + PlainSubsidy(height + 1, version) + TestnetCoreAmount
  ELSE PlainSubsidy(height, version)

Core == IF IsTestnet THEN TestnetCoreAmount ELSE CoreAmount

\* the outputs of the coinbase the code builds for the fork; the fourth key
\* of the multisig is read whether or not there is one
CreateHardForkSubsidyTx(nextBlockHeight, addr, version) ==
  [i \in DOMAIN Payees |-> [value |-> Payees[i].amount, script |-> <<Payees[i].address>>]]
  \o <<[value |-> Core, script |-> <<"OP_3">> \o SubSeq(CorePubkeys, 1, 4) \o <<"OP_4", "CHECKMULTISIG">>],
       [value |-> CalcBlockSubsidy(nextBlockHeight + 1, version), script |-> <<addr>>]>>

CanCreateHardForkSubsidyTx == Len(CorePubkeys) >= 4

\* The part of checkConnectBlock about the coinbase of the fork.  The code
\* panics where the coinbase has fewer outputs than it reads; here such a
\* block is refused.
HardforkCoinbase(outs) ==
  LET rem == outs[Len(Payees) + 1]
      keys == SubSeq(rem.script, 2, Len(rem.script))
  IN  /\ Len(outs) > Len(Payees)
      /\ \A i \in DOMAIN Payees : outs[i].value = Payees[i].amount /\ outs[i].script = <<Payees[i].address>>
      /\ rem.value = Core
      /\ IsPrefix(CorePubkeys, keys)

checkConnectBlock(node, b) ==
  LET coinbase == Tx[b[1]]
      version == node[Len(node)].version
      fees == FoldLeft(LAMBDA n, t : n + Tx[t].fee, 0, b)
  IN  /\ Total(coinbase) <= CalcBlockSubsidy(Height(node), version) + fees
      /\ Height(node) = HardforkHeight => HardforkCoinbase(coinbase.out)

-----------------------------------------------------------------------------
(* ProcessBlock.                                                           *)

AlgoOfMutant(h, height) == IF h.version # 514 THEN 2 ELSE h.version

\* the version by which ProcessBlock chooses the limit of the target
AlgoOf(h, height) == IF GetCurrent(height) = 0 /\ h.version # 514 THEN 2 ELSE h.version

\* The rules that depend on the chain are skipped unless exactly one of the
\* block and its parent has version 514 and the algorithm occurred before.
ContextChecked(h, prevNode) ==
  LET a == IF h.version = 514 THEN 514 ELSE 2
      aa == IF prevNode[Len(prevNode)].version = 514 THEN 514 ELSE 2
  IN  a # aa /\ GetLastWithAlgo(prevNode, Len(prevNode), a) # 0

\* The code also looks up the outputs a transaction spends, but as blocks
\* by the hash of the transaction, so that it never finds them.
ContainsBlacklisted(t) ==
  /\ GetCurrent(Height(best)) >= 1
  /\ \E i \in DOMAIN t.out : \E a \in DOMAIN t.out[i].script : t.out[i].script[a] \in Blacklist

\* What the workSum field of a node may hold: initBlockNode puts the work of
\* the node and its parent there, and connectBestChain and the making of a
\* child overwrite it with the work of the node alone.
workSum(node) ==
  LET work(i) == CalcWork(node[i].bits)
  IN  {work(Len(node))} \cup {work(Len(node)) + work(i) : i \in DOMAIN node \cap {Len(node) - 1}}

\* the checks of ProcessBlock after the sanity of the block against the
\* last checkpoint
AfterCheckpoint(h, cpNode, flags) ==
  cpNode # nil =>
    LET c == cpNode[Len(cpNode)]
    IN  /\ h.timestamp >= c.timestamp
        /\ "fast" \in flags \/
           CompactToBig(h.bits) <= CompactToBig(calcEasiestDifficulty(c.bits, h.timestamp - c.timestamp))

\* maybeAcceptBlock of a block that passed the checks before it
maybeAcceptBlock(h, b, prevNode, flags, cp, ok) ==
  IF ok /\ ContextChecked(h, prevNode) THEN checkBlockContext(h, b, prevNode, flags)
  ELSE [cache |-> cache, checkpoint |-> cp.cp, ok |-> ok]

SaneAgainst(h, b, prevNode, flags, cp) ==
  maybeAcceptBlock(h, b, prevNode, flags, cp,
    cp.ok /\ AfterCheckpoint(h, cp.node, flags) /\ \A i \in DOMAIN b : ~ContainsBlacklisted(Tx[b[i]]))

\* the verdict of ProcessBlock and maybeAcceptBlock, with the caches they leave
Verdict(h, b, prevNode, flags) ==
  LET height == Len(prevNode)
  IN  IF /\ InView(view, prevNode) /\ Append(prevNode, h) \notin index
         /\ checkBlockSanity(h, b, GetMinDiff(GetAlgoName(AlgoOf(h, height), height), height),
                             flags, height, prevNode[height].timestamp)
      THEN SaneAgainst(h, b, prevNode, flags, findPreviousCheckpoint(checkpoint))
      ELSE [cache |-> cache, checkpoint |-> checkpoint, ok |-> FALSE]

\* the view after the blocks down to the fork are disconnected and the ones
\* up to the node connected, each with a call of SetTip
Reorganized(node) ==
  LET fork == Len(FindFork(view, node))
      down == [i \in 1 .. Len(best) - fork |-> SubSeq(best, 1, Len(best) - i)]
      up == [i \in 1 .. Len(node) - fork |-> SubSeq(node, 1, fork + i)]
  IN  setTips(view, down \o up)

\* connectBestChain compares the work of the new block alone, and skips the
\* check of a block that is added fast to the tip.
ProcessBlock(h, b, prevNode, flags) ==
  \E node \in {Append(prevNode, h)}, r \in {Verdict(h, b, prevNode, flags)}, tipSum \in workSum(best) :
  \E takesOver \in {r.ok /\ (prevNode = best \/ CalcWork(h.bits) > tipSum)} :
  \E connects \in {takesOver /\ ((prevNode = best /\ "fast" \in flags) \/ checkConnectBlock(node, b))} :
      /\ cache' = r.cache /\ checkpoint' = r.checkpoint
      /\ index' = IF r.ok THEN index \cup {node} ELSE index
      /\ body' = IF r.ok THEN [n \in DOMAIN body \cup {node} |-> IF n = node THEN b ELSE body[n]] ELSE body
      /\ failed' = IF takesOver /\ ~connects THEN failed \cup {node} ELSE failed
      /\ best' = IF connects THEN node ELSE best
      /\ view' = IF connects THEN Reorganized(node) ELSE view
      /\ UNCHANGED diffs

\* CheckConnectBlockTemplate: the verdict and the caches it leaves
TemplateVerdict(h, b) ==
  LET height == Len(best)
      sane == checkBlockSanity(h, b, GetMinDiff(GetAlgoName(h.version, height), height), {"nopow"},
                               height, best[height].timestamp)
  IN  IF ~sane THEN [cache |-> cache, checkpoint |-> checkpoint, ok |-> FALSE]
      ELSE [checkBlockContext(h, b, best, {"nopow"}) EXCEPT !.ok = @ /\ checkConnectBlock(Append(best, h), b)]

CheckConnectBlockTemplate(h, b) ==
  \E r \in {TemplateVerdict(h, b)} :
      /\ cache' = r.cache /\ checkpoint' = r.checkpoint
      /\ UNCHANGED <<index, body, failed, best, view, diffs>>

CalcNextRequiredDifficulty(algo) ==
  \E r \in {CalcNextRequiredDifficultyFromNode(cache, diffs, best, algo)} :
      /\ cache' = r.cache
      /\ UNCHANGED <<index, body, failed, best, view, diffs, checkpoint>>

\* New: the caches are empty but for the map stored in the tip, and the
\* controller has noted the height it was computed for
Started(tip) ==
  \E r \in {CalcNextRequiredDifficultyPlan9Controller([height |-> 0, bits |-> NoDiffs], tip)} :
      /\ cache' = r.cache
      /\ diffs' = [n \in {tip} |-> r.bits]
      /\ checkpoint' = [node |-> nil, next |-> 0]

Restart ==
  /\ Started(best)
  /\ view' = setTip(NoView, best)
  /\ UNCHANGED <<index, body, failed, best>>

-----------------------------------------------------------------------------
InitialNodes == UNION {{SubSeq(c, 1, k) : k \in DOMAIN c} : c \in InitialChains}

RulesInit ==
  \E tip \in InitialChains :
  \E r \in {CalcNextRequiredDifficultyPlan9Controller([height |-> 0, bits |-> NoDiffs], tip)} :
    /\ index = {SubSeq(tip, 1, k) : k \in DOMAIN tip}
    /\ body = [n \in index |-> InitialBody(Height(n))] /\ failed = {}
    /\ best = tip /\ view = setTip(NoView, tip)
    /\ cache = r.cache /\ diffs = [n \in {tip} |-> r.bits]
    /\ checkpoint = [node |-> nil, next |-> 0]

RulesNext ==
  \/ \E k \in Blocks, prevNode \in index :
       /\ Cardinality(index \ InitialNodes) < MaxNew
       /\ Len(prevNode) >= Len(best) - MaxForkDepth
       /\ ProcessBlock(k.header, k.body, prevNode, k.flags)
  \/ \E k \in Blocks, prevNode \in index :
       /\ prevNode = best
       /\ CheckConnectBlockTemplate(k.header, k.body)
  \/ \E algo \in DOMAIN AlgosAt(Len(best)) : CalcNextRequiredDifficulty(algo)
  \/ Restart

RulesSpec == RulesInit /\ [][RulesNext]_vars

-----------------------------------------------------------------------------
Bodies == {k.body : k \in Blocks}

(* A header commits to one body: no body other than the accepted one with  *)
(* the same merkle root passes the checks, although repeating the last     *)
(* transactions leaves the root as it is (merkle.go, checkBlockSanity).    *)
BodyCommitted ==
  \A n \in index \ InitialNodes : \A b \in Bodies \ {body[n]} :
    ~checkBlockSanity(n[Len(n)], b, GetMinDiff(GetAlgoName(AlgoOf(n[Len(n)], Height(n)), Height(n)), Height(n)),
                      {"nopow"}, Height(n), n[Len(n) - 1].timestamp)

\* every block after the fork is later than its parent, as the error of
\* checkBlockHeaderSanity says and its condition does not ensure
TimeAdvances(node) ==
  \A i \in 2 .. Len(node) : i - 1 > HardforkHeight => node[i].timestamp > node[i - 1].timestamp

(* Whatever blocks are accepted, the next block can be made: the bits the  *)
(* retarget rules ask for are a target a block may have, positive (as long *)
(* as time advances) and within the limit that checkProofOfWork holds the  *)
(* block to, and at the height of the fork the coinbase that the code      *)
(* builds is one that it accepts (forkhalcyon.go, forkplan9.go,            *)
(* subsidy.go.go, validate.go).                                            *)
NextBlockPossible ==
  \A n \in (index \ InitialNodes) \cup {best} : \A algo \in DOMAIN AlgosAt(Len(n)) :
  \A target \in {CompactToBig(Required(n, algo))}, version \in {GetAlgoVer(algo, Len(n))} :
    /\ TimeAdvances(n) => target > 0
    /\ target <= GetMinDiff(algo, Len(n))
    /\ Len(n) = HardforkHeight /\ CanCreateHardForkSubsidyTx =>
         \A outs \in {CreateHardForkSubsidyTx(Len(n), "miner", version)} :
           /\ HardforkCoinbase(outs)
           /\ FoldLeft(LAMBDA sum, o : sum + o.value, 0, outs) <= CalcBlockSubsidy(Len(n), version)

(* Without checkpoints and suspended addresses, of which the code ships    *)
(* none, a template that CheckConnectBlockTemplate accepts is accepted by  *)
(* ProcessBlock once it is solved and becomes the tip.                     *)
TemplatesConnect ==
  \A k \in Blocks : \A solved \in {[k.header EXCEPT !.solved = TRUE]} :
    /\ Checkpoints = <<>> /\ Blacklist = {} /\ Append(best, solved) \notin index
    /\ TemplateVerdict(k.header, k.body).ok
    => /\ Verdict(solved, k.body, best, {}).ok
       /\ checkConnectBlock(Append(best, solved), k.body)

\* the longest common prefix of two chains
Common(a, b) == SubSeq(a, 1, Max({0} \cup {i \in 1 .. Min({Len(a), Len(b)}) : SubSeq(a, 1, i) = SubSeq(b, 1, i)}))

\* the answer the node gives to the locator of a node whose tip is r
AnswerTo(r, hashStop) == LocateBlocks(view, index, blockLocator(setTip(NoView, r), r), hashStop, MaxInv)

LocatorsMeet ==
  \A r \in Strangers \cup index : \A stop \in {RelativeAncestor(best, 1)} :
  \A blocks \in {AnswerTo(r, nil)}, stopped \in {AnswerTo(r, stop)}, fork \in {Common(r, best)} :
    /\ blocks = nil => IsPrefix(best, r)
    /\ IsPrefix(best, r) /\ Len(r) <= Len(best) + denseEntries + 1 => blocks = nil
    /\ \A i \in DOMAIN blocks : blocks[i] = Ancestor(best, Height(blocks[1]) + i - 1)
    /\ blocks # nil =>
         /\ IsPrefix(RelativeAncestor(blocks[1], 1), r)
         /\ Len(fork) - Height(blocks[1]) <= Len(r) - Len(fork)
         /\ IsPrefix(stopped, blocks) /\ (~IsPrefix(stop, r) => best \notin ToSet(stopped))
    /\ Len(blockLocator(setTip(NoView, r), r)) <= maxEntries(Height(r))

RangesMeet ==
  \A n \in index :
    LET hashes(from, to) == [i \in 1 .. to - from |-> Ancestor(n, from + i - 1)]
    IN  /\ \A k \in {1, 3} : IntervalBlockHashes(view, index, index, n, k)
                              = [i \in 1 .. Height(n) \div k |-> Ancestor(n, i * k)]
        /\ \A start \in {0, Height(n)} :
             HeightToHashRange(index, index, start, n, Len(n)) = hashes(start, Len(n))
        /\ InView(view, n) => HeightRange(view, 1, Len(n)) = hashes(1, Len(n))

(* Whoever asks with a locator is told where to go on: the answer is a run *)
(* of the best chain that starts just above a block the other node has, it *)
(* repeats no more blocks than the other node has to give up or is ahead,  *)
(* it is empty only for a node that has the best chain already, and is so  *)
(* if that node is no further ahead than the dense part of its locator; it *)
(* ends at the stop block, and a locator fits the room it was given.       *)
(* Ranges of hashes are those of the ancestors, on side chains too,        *)
(* whatever reorganizations left in the array of the view (blockLocator,   *)
(* locateInventory, setTip, IntervalBlockHashes, HeightToHashRange,        *)
(* HeightRange).                                                           *)
QueriesFollowChain == LocatorsMeet /\ RangesMeet

(* The difficulty asked for the block after the tip is that of the         *)
(* retarget rule for the tip and its ancestors                             *)
(* (CalcNextRequiredDifficultyFromNode).                                   *)
AnswerFollowsRetarget ==
  \A algo \in DOMAIN AlgosAt(Len(best)) :
    CalcNextRequiredDifficultyFromNode(cache, diffs, best, algo).bits = Required(best, algo)
=============================================================================

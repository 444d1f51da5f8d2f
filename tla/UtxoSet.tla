------------------------------ MODULE UtxoSet -------------------------------
(***************************************************************************)
(* What the chain database promises: the set of unspent outputs is the one *)
(* that replaying the blocks of the main chain gives, the main chain grows *)
(* by one valid block or shrinks by one, and nothing else ever happens.    *)
(* No views, flags, journals or encodings.                                 *)
(***************************************************************************)
EXTENDS Integers, Sequences, SequencesExt, FiniteSetsExt, TLC

CONSTANTS
  Tx,                \* tx hash -> [in : inputs [prev, redeem], out : outputs [amount, script]]
  Block,             \* block hash -> [prev, txs]
  Genesis,
  Subsidy, CoinbaseMaturity, MaxSatoshi, MaxBlockSigOps,
  BadScripts,        \* transactions whose signature scripts fail
  CheckpointHeight   \* scripts are not run up to the latest checkpoint

VARIABLES chain,     \* the blocks of the main chain behind the genesis block
          utxos      \* outpoint -> [amount, script, height, cb]

vars == <<chain, utxos>>

Coinbase(t) == Tx[t].in = <<>>
Spendable(o) == o.script.t \notin {"return", "broken"}

Created(t, h) ==
  [p \in {<<t, i>> : i \in {k \in DOMAIN Tx[t].out : Spendable(Tx[t].out[k])}} |->
     [amount |-> Tx[t].out[p[2]].amount, script |-> Tx[t].out[p[2]].script,
      height |-> h, cb |-> Coinbase(t)]]

Spent(t) == {Tx[t].in[i].prev : i \in DOMAIN Tx[t].in}
Without(s, ps) == [p \in DOMAIN s \ ps |-> s[p]]

ApplyTx(s, t, h) == Created(t, h) @@ Without(s, Spent(t))
ApplyBlock(s, b, h) == FoldLeft(LAMBDA a, t : ApplyTx(a, t, h), s, Block[b].txs)

Replay(c) ==
  FoldLeft(LAMBDA a, i : ApplyBlock(a, c[i], i), <<>>, [i \in 1..Len(c) |-> i])

(* The state before transaction k of block b.                              *)
Before(s, b, h, k) == FoldLeft(LAMBDA a, t : ApplyTx(a, t, h), s, SubSeq(Block[b].txs, 1, k - 1))

OutSum(t) == FoldLeft(LAMBDA n, o : n + o.amount, 0, Tx[t].out)
InSum(s, t) == FoldLeft(LAMBDA n, i : n + s[i.prev].amount, 0, Tx[t].in)

TxValid(s, t, h) ==
  /\ Spent(t) \subseteq DOMAIN s
  /\ \A p \in Spent(t) : s[p].cb => h - s[p].height >= CoinbaseMaturity
  /\ InSum(s, t) <= MaxSatoshi
  /\ ~Coinbase(t) => OutSum(t) <= InSum(s, t)
  /\ h > CheckpointHeight => t \notin BadScripts

SigOps(script) == IF script.t \in {"pkh", "pk"} THEN 1 ELSE 0
TxSigOps(s, t) ==
  FoldLeft(LAMBDA n, o : n + SigOps(o.script), 0, Tx[t].out)
  + FoldLeft(LAMBDA n, i : n + IF s[i.prev].script.t = "sh" THEN i.redeem ELSE 0, 0, Tx[t].in)

BlockValid(s, b, h) ==
  LET ts == Block[b].txs
  IN /\ \A k \in DOMAIN ts : TxValid(Before(s, b, h, k), ts[k], h)
     /\ OutSum(ts[1]) <= Subsidy + FoldLeft(LAMBDA n, k :
                           n + InSum(Before(s, b, h, k), ts[k]) - OutSum(ts[k]), 0, [j \in 1..(Len(ts) - 1) |-> j + 1])
     /\ FoldLeft(LAMBDA n, k : n + TxSigOps(Before(s, b, h, k), ts[k]), 0, [j \in 1..Len(ts) |-> j]) <= MaxBlockSigOps

Tip == IF chain = <<>> THEN Genesis ELSE Last(chain)

Init == chain = <<>> /\ utxos = <<>>

Connect(b) ==
  /\ Block[b].prev = Tip
  /\ BlockValid(Replay(chain), b, Len(chain) + 1)
  /\ chain' = Append(chain, b)
  /\ utxos' = Replay(Append(chain, b))

Disconnect ==
  /\ chain # <<>>
  /\ chain' = Front(chain)
  /\ utxos' = Replay(Front(chain))

Next == (\E b \in DOMAIN Block : Connect(b)) \/ Disconnect

Spec == Init /\ [][Next]_vars
=============================================================================

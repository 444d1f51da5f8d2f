------------------------------- MODULE MCUtxo -------------------------------
(* Two branches that confirm the same transactions in different blocks, an *)
(* output spent in its own block, every kind of script, and branches that  *)
(* break a rule each: a missing output, an immature coinbase, a coinbase   *)
(* that pays too much, too many signature operations, a failing script.    *)
EXTENDS Utxo

PKH(h) == [t |-> "pkh", d |-> h]
SH(h) == [t |-> "sh", d |-> h]
PK(f, odd) == [t |-> "pk", d |-> <<f, "x", odd, TRUE>>]
Off == [t |-> "pk", d |-> <<4, "x", TRUE, FALSE>>]
Raw(n) == [t |-> "raw", d |-> <<n, "r">>]
Return == [t |-> "return", d |-> <<3, "r">>]
O(a, s) == [amount |-> a, script |-> s]
I(t, i, r) == [prev |-> <<t, i>>, redeem |-> r]
CB(outs) == [in |-> <<>>, out |-> outs]

MCTx ==
  "cA1" :> CB(<<O(100, PKH("a")), O(700, SH("b"))>>) @@ "cA2" :> CB(<<O(900, PK(3, TRUE))>>)
  @@ "cA3" :> CB(<<O(800, EmptyScript)>>) @@ "cB2" :> CB(<<O(800, PK(4, TRUE))>>)
  @@ "cB3" :> CB(<<O(750, Off), O(50, Return)>>) 
  @@ "cX1" :> CB(<<O(800, PKH("d"))>>) @@ "c1" :> CB(<<O(1, PKH("d"))>>) @@ "c2" :> CB(<<O(1, PKH("d"))>>) @@ "c3" :> CB(<<O(1, PKH("d"))>>) @@ "cY3" :> CB(<<O(1, PKH("d"))>>)
  @@ "cV3" :> CB(<<O(801, PKH("d"))>>) @@ "cW3" :> CB(<<O(800, PKH("d"))>>) @@ "cU3" :> CB(<<O(800, PKH("d"))>>)
  @@ "t1" :> [in |-> <<I("cA1", 1, 0)>>, out |-> <<O(90, Raw(200)), O(0, Return)>>]
  @@ "t2" :> [in |-> <<I("t1", 1, 0), I("cA1", 2, 2)>>, out |-> <<O(690, PK(2, FALSE)), O(10, PK(4, FALSE))>>]
  @@ "t3" :> [in |-> <<I("t2", 2, 0), I("cA2", 1, 0)>>, out |-> <<O(910, SH("e"))>>]
  @@ "twice" :> [in |-> <<I("t1", 1, 0)>>, out |-> <<O(1, Raw(1))>>]
  @@ "early" :> [in |-> <<I("cX1", 1, 0)>>, out |-> <<O(1, Raw(1))>>]
  @@ "heavy" :> [in |-> <<I("cA1", 2, 9)>>, out |-> <<O(1, Raw(1))>>]
  @@ "forged" :> [in |-> <<I("cA1", 2, 1)>>, out |-> <<O(1, Raw(1))>>]

B(p, ts) == [prev |-> p, txs |-> ts]
MCBlock ==
  "A1" :> B("G", <<"cA1">>) @@ "A2" :> B("A1", <<"cA2", "t1", "t2">>) @@ "A3" :> B("A2", <<"cA3", "t3">>)
  @@ "B2" :> B("A1", <<"cB2", "t1">>) @@ "B3" :> B("B2", <<"cB3", "t2">>)
  @@ "X1" :> B("G", <<"cX1", "early">>) @@ "X2" :> B("X1", <<"c1">>) @@ "Z2" :> B("X1", <<"c2">>) @@ "X3" :> B("X2", <<"c3">>)
  @@ "Y3" :> B("A2", <<"cY3", "twice">>)
  @@ "V3" :> B("B2", <<"cV3">>) @@ "W3" :> B("B2", <<"cW3", "heavy">>) @@ "U3" :> B("B2", <<"cU3", "forged">>)

Sym == Permutations(Callers)

(* The same tree with a coinbase that repeats an earlier one.              *)
MCRepeat == "A1" :> B("G", <<"cA1">>) @@ "A2" :> B("A1", <<"cA1">>)
=============================================================================

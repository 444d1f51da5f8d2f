------------------------------ MODULE MCRules -------------------------------
(* A chain before the fork, one that is about to fork and two after it;    *)
(* blocks of every algorithm with easy and hard targets, timestamps that   *)
(* go back, and bodies that break one rule each.                           *)
EXTENDS Rules

A(v, m, i) == [Version |-> v, MinBits |-> m, VersionInterval |-> i]
Limit == BigToCompact(1000)
MCList ==
  0 :> [ActivationHeight |-> 0, TestnetStart |-> 0, AveragingInterval |-> 2,
        Algos |-> "sha256d" :> A(2, Limit, 0) @@ "scrypt" :> A(514, Limit, 0)]
  @@ 1 :> [ActivationHeight |-> 4, TestnetStart |-> 0, AveragingInterval |-> 3,
           Algos |-> "Div2" :> A(5, BigToCompact(4000), 2) @@ "Div4" :> A(6, BigToCompact(4000), 4)]
SecondBits == BigToCompact(1008)
MCDecay == <<1, 2>>
MCCurve(ttpb, height) == (ttpb * 40) \div (height + 1)

O(v, s) == [value |-> v, script |-> <<s>>]
T(ins, outs, script) ==
  [in |-> [i \in DOMAIN ins |-> [prev |-> ins[i], script |-> script, final |-> FALSE]], out |-> outs,
   size |-> 1, lockTime |-> 0, sigOps |-> 1, fee |-> 0]
MCPayees == <<[address |-> "p1", amount |-> 44], [address |-> "p2", amount |-> 10]>>
MCKeys == <<"k1", "k2", "k3", "k4">>
MCTx ==
  "cb" :> T(<<"null">>, <<O(2, "std")>>, 2)
  @@ "cbfork" :> T(<<"null">>, <<O(44, "p1"), O(10, "p2"),
       [value |-> 30, script |-> <<"OP_3">> \o MCKeys \o <<"OP_4", "CHECKMULTISIG">>], O(2, "std")>>, 2)
  @@ "a" :> T(<<"o1">>, <<O(5, "std")>>, 0) @@ "b" :> T(<<"o2", "o3">>, <<O(5, "std")>>, 0)
  @@ "late" :> [T(<<"o4">>, <<O(5, "std")>>, 0) EXCEPT !.lockTime = 4]
  @@ "rich" :> T(<<"null">>, <<O(99, "std")>>, 2)
  @@ "long" :> T(<<"null">>, <<O(2, "std")>>, 9) @@ "over" :> T(<<"o1">>, <<O(60, "std"), O(60, "std")>>, 0)
  @@ "dup" :> T(<<"o1", "o1">>, <<O(5, "std")>>, 0) @@ "sigs" :> [T(<<"o5">>, <<O(5, "std")>>, 0) EXCEPT !.sigOps = 4]
MCInitialBody(height) == IF height = 4 THEN <<"cbfork">> ELSE <<"cb">>
MCBodies ==
  {<<"cb">>, <<"cb", "a", "b">>, <<"cb", "a", "b", "b">>, <<"cbfork">>, <<"cb", "late">>, <<"rich">>,
   <<"long">>, <<"cb", "over">>, <<"cb", "dup">>, <<"cb", "sigs">>, <<"a">>, <<"cb", "cb">>}

H(v, t, bits, b, ok) == [version |-> v, timestamp |-> t, bits |-> bits, merkleRoot |-> GetRoot(b), solved |-> ok]
One == <<"cb">>
K(h) == [header |-> h, body |-> One, flags |-> {}]
Fast(k) == [k EXCEPT !.flags = {"fast"}]
MCBlocks ==
  {K(H(2, 8, BigToCompact(300), One, TRUE)), K(H(514, 8, Limit, One, TRUE)), Fast(K(H(514, 8, BigToCompact(300), One, TRUE)))}
  \cup {K(H(v, t, BigToCompact(IF t = 9 THEN 300 ELSE 1008), One, TRUE)) : v \in {5, 6}, t \in {9, 11}}
  \cup {[header |-> H(2, 8, Limit, b, TRUE), body |-> b, flags |-> {}] : b \in MCBodies}
  \cup {[header |-> H(6, 8, BigToCompact(1008), b, TRUE), body |-> b, flags |-> {}] : b \in {<<"cbfork">>, <<"cb", "a", "b">>}}
  \cup {K(H(2, 30, Limit, One, TRUE)), K(H(514, 3, BigToCompact(1200), One, TRUE)), K(H(5, 8, 0, One, TRUE)),
        K(H(5, 11, BigToCompact(1008), One, FALSE)), K(H(5, 7, BigToCompact(300), One, TRUE)),
        Fast(K(H(5, 12, BigToCompact(700), One, TRUE))), K(H(2, 8, Limit, <<"cb", "a">>, TRUE))}

G == H(2, 1, Limit, One, TRUE)
P(v, t, n) == H(v, t, BigToCompact(n), One, TRUE)
F(v, t, n) == H(v, t, BigToCompact(n), <<"cbfork">>, TRUE)
MCInitialChains ==
  {<<G, P(2, 2, 1000), P(514, 4, 700)>>, <<G, P(2, 2, 900), P(514, 3, 500), P(2, 4, 800)>>,
   <<G, P(2, 2, 900), P(514, 3, 500), P(2, 4, 800), F(5, 5, 1008),
     P(5, 6, 1000), P(5, 7, 900), P(6, 8, 700), P(5, 9, 600)>>}
Tree(n) == [i \in 1 .. n |-> P(2, 5 + i, 700)]
MCStrangers == {<<G>> \o Tree(10), <<G, P(2, 2, 1000), P(514, 4, 700)>> \o Tree(6), <<G, P(2, 2, 900), P(514, 3, 500)>> \o Tree(5)} \cup InitialChains
NoCheckpoints == <<>>
=============================================================================

---------------------------- MODULE MCScriptVal -----------------------------
(* A valid block and a transaction of the memory pool whose inputs fail in *)
(* several ways; two signatures over one hash.                             *)
EXTENDS ScriptVal

Check(h, s, k) == [hash |-> h, sig |-> s, key |-> k]
In(check) == [coinbase |-> FALSE, usable |-> TRUE, check |-> check]
MCValid == {Check("h1", "s1", "k1"), Check("h2", "s2", "k2")}
Good1 == In(Check("h1", "s1", "k1"))
Good2 == In(Check("h2", "s2", "k2"))
BadSig == In(Check("h1", "s3", "k1"))
Missing == [Good1 EXCEPT !.usable = FALSE]
Coinbase == [Good1 EXCEPT !.coinbase = TRUE]

MCInputs == {Good1, Good2, BadSig, Missing, Coinbase}

Arg(txs) == [txs |-> txs, blacklisted |-> FALSE]

MCCalls == {"block", "tx"}
MCArguments ==
  [c \in MCCalls |->
    IF c = "block" THEN {Arg(<<<<Coinbase>>, <<Good1, Good2>>>>), Arg(<<<<Coinbase>>>>)}
    ELSE {Arg(<<<<BadSig>>>>), Arg(<<<<Good1, Missing>>>>), Arg(<<<<Good2, BadSig>>>>),
          [Arg(<<<<Good2>>>>) EXCEPT !.blacklisted = TRUE]}]
=============================================================================

------------------------------ MODULE MCScript ------------------------------
(* Spends for the script engine: every pair of opcodes on several stacks,   *)
(* all short conditional programs, multisig, script hash and lock times,    *)
(* signature encodings, and outputs that are signed for by several parties. *)
EXTENDS Templates

P(op) == [op |-> op, data |-> <<>>, n |-> 0]
D(x) == [op |-> "OP_DATA", data |-> x, n |-> 0]
N(k) == [op |-> "OP_N", data |-> <<>>, n |-> k]
Raw(op, x) == [op |-> op, data |-> x, n |-> 0]

Input(prev, seq) == [prev |-> prev, sequence |-> seq]
TxOf(lock, seq, ver) == [lockTime |-> lock, version |-> ver, ins |-> <<Input(1, seq)>>, outs |-> <<3>>, idx |-> 1]
Tx == TxOf(50, 20, 2)
Spend(sig, pk, t, flags) == [sigScript |-> sig, pkScript |-> pk, tx |-> t, flags |-> flags]

AllOps ==
  {P(op) : op \in {"OP_0", "OP_1NEGATE", "OP_RESERVED", "OP_NOP", "OP_NOP1", "OP_IF", "OP_NOTIF",
     "OP_ENDIF", "OP_VERIF", "OP_VERIFY", "OP_RETURN", "OP_CAT", "OP_CHECKLOCKTIMEVERIFY",
     "OP_CHECKSEQUENCEVERIFY", "OP_TOALTSTACK", "OP_FROMALTSTACK", "OP_2DROP", "OP_2DUP", "OP_3DUP",
     "OP_2OVER", "OP_2ROT", "OP_2SWAP", "OP_IFDUP", "OP_DEPTH", "OP_DROP", "OP_DUP", "OP_NIP",
     "OP_OVER", "OP_PICK", "OP_ROLL", "OP_ROT", "OP_SWAP", "OP_TUCK", "OP_SIZE", "OP_EQUAL",
     "OP_EQUALVERIFY", "OP_NUMEQUALVERIFY", "OP_WITHIN", "OP_CODESEPARATOR", "OP_CHECKSIG",
     "OP_CHECKSIGVERIFY", "OP_CHECKMULTISIG", "OP_CHECKMULTISIGVERIFY"}
     \cup UnaryOps \cup ArithmeticOps \cup ComparisonOps \cup MinMaxOps \cup DOMAIN HashTags}

Stacks ==
  {<<>>, <<N(1)>>, <<D(<<255, 127>>), D(<<255, 255>>)>>, <<P("OP_0"), D(<<0, 128>>), N(2)>>,
   <<N(3), N(2), N(1), N(2), P("OP_1NEGATE"), N(1)>>}

OpPairs ==
  {Spend(s, <<a, b>>, Tx, f) : s \in Stacks, a \in AllOps, b \in AllOps,
                               f \in {{}, {"MinimalData", "DiscourageUpgradableNops"}}}

Branches ==
  {Spend(<<P("OP_0"), N(1), N(1)>>, pk, Tx, {}) :
     pk \in SeqOf({P("OP_IF"), P("OP_NOTIF"), P("OP_ELSE"), P("OP_ENDIF")}, 6)
            \cup SeqOf({P("OP_IF"), P("OP_NOTIF"), P("OP_ELSE"), P("OP_ENDIF"), N(1)}, 5)}

Key(k) == <<PK, k, 1>>
Der == Serialize(1, 1)
Padded == <<48, 7, 2, 2, 0, 1, 2, 1, 1>>
SigOf(k, script, der, type) == <<SIG, k, calcSignatureHash(script, type, Tx), der, type>>
Sigs(pk) == {SigOf(1, pk, Der, 1), SigOf(2, pk, Der, 1), <<>>, SigOf(1, pk, Padded, 1), SigOf(1, pk, Der, 9), <<5>>}
KeySets == {<<Key(1), Key(2)>>, <<Key(2), Key(1)>>, <<Key(1), <<PK, 2, 2>>, Key(1)>>, <<Key(2), <<7>>, Key(1)>>}
Pushes(xs) == [i \in 1..Len(xs) |-> IF xs[i] = <<>> THEN P("OP_0") ELSE D(xs[i])]

MultiSigs ==
  UNION {LET pk == Pushes(keys) \o <<N(Len(keys)), P("OP_CHECKMULTISIG")>>
         IN {Spend(<<d>> \o Pushes(sigs) \o <<N(Len(sigs))>>, pk, Tx, f) :
               d \in {P("OP_0"), N(1)}, sigs \in SeqOf(Sigs(pk), 2),
               f \in {{}, {"NullFail", "StrictMultiSig"}, {"StrictEncoding"}}} : keys \in KeySets}

CheckSigs ==
  {Spend(<<D(SigOf(1, SubSeq(pk, from, Len(pk)), der, 1)), D(Key(k))>>, pk, Tx, f) :
     from \in {1, 3}, k \in {1, 2}, der \in {Der, Padded}, f \in {{}, {"NullFail", "DERSignatures"}, {"LowS"}},
     pk \in {<<P("OP_CHECKSIG")>>, <<P("OP_NOP"), P("OP_CODESEPARATOR"), P("OP_CHECKSIGVERIFY"), N(1)>>}}

(* Strict encodings, and every way to spoil one byte, cut or extend them.   *)
Strings == {<<1>>, <<0>>, <<>>, <<127>>, <<128>>, <<0, 128>>, <<0, 127>>, <<1, 0>>}
Forms == {Strict(r, t) : r \in Strings, t \in Strings}
Spoiled ==
  Forms \cup {[x EXCEPT ![i] = b] : x \in {Strict(<<1>>, <<2>>), Strict(<<0, 128>>, <<3>>)}, i \in 1..8,
                                  b \in {0, 1, 2, 3, 4, 6, 7, 48, 127, 128, 254, 255}}
  \cup {Append(x, 2) : x \in Forms} \cup {Front(x) : x \in Forms}
Encodings ==
  {Spend(<<D(SigOf(1, <<P("OP_CHECKSIG")>>, der, 1)), D(Key(1))>>, <<P("OP_CHECKSIG")>>, Tx, {"DERSignatures"}) :
     der \in Spoiled}

MCRedeemScripts ==
  <<<<N(1), P("OP_EQUAL")>>, <<P("OP_DEPTH"), P("OP_SWAP"), P("OP_FROMALTSTACK")>>,
    <<P("OP_DUP"), P("OP_IF"), P("OP_NOP"), P("OP_ENDIF")>>, <<P("OP_IF"), N(1)>>, <<P("OP_DEPTH")>>,
    MultiSigScript(<<Key(1), <<PK, 2, 0>>>>, 2), PayToAddrScript(Address("PubKeyHash", Hash160(Key(1))))>>
Redeem(i) == <<SCRIPT, i>>
ScriptHash(x) == <<P("OP_HASH160"), D(<<RIPEMD, SHA256>> \o x), P("OP_EQUAL")>>

ScriptHashes ==
  {Spend(front \o <<last>>, ScriptHash(x), Tx, {"Bip16"} \cup f) :
     front \in SeqOf({P("OP_0"), N(1), P("OP_TOALTSTACK")}, 3),
     last \in {D(Redeem(i)) : i \in 1..5} \cup {P("OP_0"), D(<<3>>)},
     x \in {Redeem(i) : i \in 1..5} \cup {<<>>, <<3>>}, f \in {{}, {"CleanStack"}}}

Refused ==
  {Spend(<<>>, <<>>, Tx, {}), Spend(<<N(1)>>, <<>>, Tx, {"CleanStack"}),
   Spend(<<N(1), P("OP_DUP")>>, <<>>, Tx, {"SigPushOnly"}), Spend(<<N(1)>>, <<>>, Tx, {"SigPushOnly"})}
  \cup {Spend(<<Raw(op, x)>>, <<>>, Tx, {"MinimalData"}) :
          op \in {"OP_DATA", "OP_PUSHDATA1"}, x \in {<<1>>, <<129>>, <<5, 5>>, Redeem(1), Key(1)}}
  \cup {Spend(<<N(1)>>, [i \in 1..k |-> P("OP_NOP")], Tx, {}) : k \in {6, 7}}
  \cup {Spend(<<Raw("OP_PUSHDATA1", [i \in 1..n |-> 5])>>, <<>>, Tx, {}) : n \in {71, 72}}

LockTimes ==
  {Spend(<<D(x)>>, <<P(op)>>, TxOf(l, q, ver), f) :
     x \in {<<>>, <<10>>, <<20>>, <<50>>, <<60>>, <<100>>, <<80>>, <<129>>, <<128>>, <<1, 0, 0>>, <<1, 0, 0, 0>>},
     op \in {"OP_CHECKLOCKTIMEVERIFY", "OP_CHECKSEQUENCEVERIFY"},
     l \in {0, 50, 120}, q \in {3, 20, 70, 127}, ver \in {1, 2},
     f \in {{"CheckLockTimeVerify", "CheckSequenceVerify"},
            {"CheckLockTimeVerify", "CheckSequenceVerify", "MinimalData"}}}

MCSpends == <<OpPairs, Branches, MultiSigs, CheckSigs, ScriptHashes, Refused, LockTimes, Encodings>>

(* Outputs that several parties sign for.                                   *)
PartyKeys == <<Key(1), <<PK, 2, 0>>, Key(3)>>
MCOutputs ==
  {PayToAddrScript(Address("PubKey", Key(1))), PayToAddrScript(Address("PubKeyHash", Hash160(PartyKeys[2]))),
   PayToAddrScript(Address("ScriptHash", Hash160(Redeem(6)))), PayToAddrScript(Address("ScriptHash", Hash160(Redeem(7)))),
   PayToAddrScript(Address("PubKey", [i \in 1..33 |-> 7])), NullDataScript(<<1, 2, 3>>),
   MultiSigScript(PartyKeys, 2), MultiSigScript(<<Key(3), Key(1)>>, 2)}
Party(k) == [key |-> k, compressed |-> k # 2]
MCKeyRings == {{Party(1)}, {Party(2)}, {Party(1), Party(3)}}
MCNonces == {<<1, 1>>, <<128, 150>>}
MCFirstTx == [lockTime |-> 0, version |-> 1, ins |-> <<Input(1, 5), Input(2, 5)>>, outs |-> <<3>>, idx |-> 2]
=============================================================================

------------------------------ MODULE Templates ------------------------------
(***************************************************************************)
(* Script templates and signing (pkg/txscript: standard.go, sign.go,       *)
(* scriptbuilder.go), on top of the script engine: the signers of an       *)
(* output call SignTxOutput one after the other, each with the keys it     *)
(* has and the script of the ones before, while the transaction is still   *)
(* being edited; after every step the engine runs what there is.           *)
(*                                                                         *)
(* A serialized script is the sequence of its parsed opcodes.  Redeem      *)
(* scripts are no script hash templates themselves.                        *)
(***************************************************************************)
EXTENDS Script, FiniteSets

CONSTANTS
  MaxScriptSize,       \* bytes of a script
  MaxDataCarrierSize,  \* bytes of a null data push
  Outputs,             \* the public key scripts that are signed for
  KeyRings,            \* the sets of keys a signer may have
  HashTypes,           \* the hash types signers use
  Nonces,              \* what the nonce of a signature leads to
  FirstTx,             \* the transaction before it is edited
  MaxCalls             \* bound on signings and edits

ASSUME TemplatesAssumption ==
  /\ {MaxScriptSize, MaxDataCarrierSize, MaxCalls} \subseteq Nat
  /\ \A i \in DOMAIN RedeemScripts : ~isScriptHash(RedeemScripts[i])

VARIABLES
  output,     \* the public key script being signed for, or <<>>
  tx,         \* the spending transaction
  sigScript,  \* the signature script so far
  made,       \* history: the signatures and the transactions they were made for
  due,        \* history: keys with a good signature, before or in the last step
  calls       \* signings and edits so far

signing == <<output, tx, sigScript, made, due, calls>>

-----------------------------------------------------------------------------
(* ScriptBuilder.                                                          *)

Opcode(op) == [op |-> op, data |-> <<>>, n |-> 0]
SmallInt(n) == IF n = 0 THEN Opcode("OP_0") ELSE [op |-> "OP_N", data |-> <<>>, n |-> n]

PopLen(pop) ==
  1 + Size(pop.data) + (IF pop.op = "OP_PUSHDATA1" THEN 1 ELSE IF pop.op = "OP_PUSHDATA2" THEN 2 ELSE 0)
ScriptLen(pops) == FoldLeft(LAMBDA n, pop : n + PopLen(pop), 0, pops)

NewScriptBuilder == [script |-> <<>>, err |-> FALSE]

(* Nothing is added once an addition was refused.                          *)
Added(b, pops, allowed) ==
  IF b.err \/ ~allowed THEN [b EXCEPT !.err = TRUE] ELSE [b EXCEPT !.script = @ \o pops]

AddOps(b, pops) == Added(b, pops, ScriptLen(b.script) + ScriptLen(pops) <= MaxScriptSize)
AddOp(b, op) == AddOps(b, <<Opcode(op)>>)

canonicalDataSize(data) ==
  LET n == Size(data)
  IN CASE n = 0 \/ (n = 1 /\ (Head(data) <= 16 \/ Head(data) = 129)) -> 1
       [] n <= 75 -> 1 + n
       [] n <= 255 -> 2 + n
       [] OTHER -> 3 + n

addData(data) ==
  LET n == Size(data)
  IN CASE n = 0 \/ data = <<0>> -> Opcode("OP_0")
       [] n = 1 /\ Head(data) <= 16 -> SmallInt(Head(data))
       [] n = 1 /\ Head(data) = 129 -> Opcode("OP_1NEGATE")
       [] n <= 75 -> [Opcode("OP_DATA") EXCEPT !.data = data]
       [] n <= 255 -> [Opcode("OP_PUSHDATA1") EXCEPT !.data = data]
       [] OTHER -> [Opcode("OP_PUSHDATA2") EXCEPT !.data = data]

AddData(b, data) ==
  Added(b, <<addData(data)>>,
        /\ ScriptLen(b.script) + canonicalDataSize(data) <= MaxScriptSize
        /\ Size(data) <= MaxElementSize)

AddInt64(b, val) ==
  IF val \in 0..16 THEN AddOps(b, <<SmallInt(val)>>)
  ELSE IF val = -1 THEN AddOp(b, "OP_1NEGATE")
  ELSE AddData(b, Bytes(val))

AddEach(b, xs) == FoldLeft(AddData, b, xs)

-----------------------------------------------------------------------------
(* The standard templates.                                                 *)

isSmallInt(pop) == pop.op \in {"OP_0", "OP_N"}
asSmallInt(pop) == IF pop.op = "OP_0" THEN 0 ELSE pop.n
KeySized(pop) == Size(pop.data) \in {33, 65}
Ops(pops) == [i \in DOMAIN pops |-> pops[i].op]

isPubkey(pops) == Len(pops) = 2 /\ KeySized(pops[1]) /\ pops[2].op = "OP_CHECKSIG"

isPubkeyHash(pops) ==
  /\ Ops(pops) = <<"OP_DUP", "OP_HASH160", "OP_DATA", "OP_EQUALVERIFY", "OP_CHECKSIG">>
  /\ Size(pops[3].data) = 20

isMultiSig(pops) ==
  LET l == Len(pops)
  IN /\ l >= 4
     /\ isSmallInt(pops[1]) /\ isSmallInt(pops[l - 1]) /\ pops[l].op = "OP_CHECKMULTISIG"
     /\ l - 3 = asSmallInt(pops[l - 1])
     /\ \A i \in 2..(l - 2) : KeySized(pops[i])

isNullData(pops) ==
  /\ Len(pops) \in {1, 2} /\ pops[1].op = "OP_RETURN"
  /\ Len(pops) = 2 => /\ pops[2].op \in PushOps \ {"OP_1NEGATE", "OP_RESERVED"}
                      /\ Size(pops[2].data) <= MaxDataCarrierSize

typeOfScript(pops) ==
  IF isPubkey(pops) THEN "PubKeyTy"
  ELSE IF isPubkeyHash(pops) THEN "PubKeyHashTy"
  ELSE IF isScriptHash(pops) THEN "ScriptHashTy"
  ELSE IF isMultiSig(pops) THEN "MultiSigTy"
  ELSE IF isNullData(pops) THEN "NullDataTy"
  ELSE "NonStandardTy"

(* CalcMultiSigStats: the number of keys and of signatures.                *)
CalcMultiSigStats(pops) ==
  IF Len(pops) < 4 THEN <<>> ELSE <<asSmallInt(pops[Len(pops) - 1]), asSmallInt(pops[1])>>

expectedInputs(pops, class) ==
  CASE class \in {"PubKeyTy", "ScriptHashTy"} -> 1
    [] class = "PubKeyHashTy" -> 2
    [] class = "MultiSigTy" -> asSmallInt(pops[1]) + 1
    [] OTHER -> -1

getSigOpCount(pops, precise) ==
  LET count(i) ==
        CASE pops[i].op \in {"OP_CHECKSIG", "OP_CHECKSIGVERIFY"} -> 1
          [] pops[i].op \in {"OP_CHECKMULTISIG", "OP_CHECKMULTISIGVERIFY"} ->
               IF precise /\ i > 1 /\ pops[i - 1].op = "OP_N" THEN pops[i - 1].n ELSE MaxKeys
          [] OTHER -> 0
  IN FoldLeft(LAMBDA n, i : n + count(i), 0, Times(Len(pops)))

GetPreciseSigOpCount(scriptSig, scriptPubKey, bip16) ==
  LET sh == Last(scriptSig).data
  IN IF ~(bip16 /\ isScriptHash(scriptPubKey)) THEN getSigOpCount(scriptPubKey, TRUE)
     ELSE IF scriptSig = <<>> \/ ~isPushOnly(scriptSig) \/ sh = <<>> \/ ParseError(sh) THEN 0
     ELSE getSigOpCount(parseScript(sh), TRUE)

Inputs(pops) == expectedInputs(pops, typeOfScript(pops))

Info(sig, pk, hashed, script) ==
  [numInputs |-> Len(sig),
   expectedInputs |-> IF ~hashed THEN Inputs(pk) ELSE IF Inputs(script) = -1 THEN -1 ELSE 1 + Inputs(script),
   sigOps |-> getSigOpCount(script, TRUE)]

(* CalcScriptInfo of a script that pushes only; a script hash spend without *)
(* any push is an index out of range.                                      *)
CalcScriptInfo(sig, pk, bip16) ==
  LET hashed == bip16 /\ isScriptHash(pk)
  IN Info(sig, pk, hashed, IF hashed THEN parseScript(Last(sig).data) ELSE pk)

-----------------------------------------------------------------------------
(* Addresses, and the scripts that pay to them.                            *)

Hash160(x) == <<RIPEMD, SHA256>> \o x
Address(kind, data) == [kind |-> kind, data |-> data]

(* EncodeAddress: a key has the address of its hash.                       *)
EncodeAddress(addr) == IF addr.kind = "PubKey" THEN Hash160(addr.data) ELSE addr.data

payToPubKeyHashScript(hash) ==
  AddOp(AddOp(AddData(AddOp(AddOp(NewScriptBuilder, "OP_DUP"), "OP_HASH160"), hash), "OP_EQUALVERIFY"),
        "OP_CHECKSIG").script
payToScriptHashScript(hash) ==
  AddOp(AddData(AddOp(NewScriptBuilder, "OP_HASH160"), hash), "OP_EQUAL").script
payToPubKeyScript(key) == AddOp(AddData(NewScriptBuilder, key), "OP_CHECKSIG").script

PayToAddrScript(addr) ==
  CASE addr.kind = "PubKeyHash" -> payToPubKeyHashScript(addr.data)
    [] addr.kind = "ScriptHash" -> payToScriptHashScript(addr.data)
    [] addr.kind = "PubKey" -> payToPubKeyScript(addr.data)

(* A script, or none when it would be too long.                            *)
NullDataScript(data) ==
  IF Size(data) > MaxDataCarrierSize THEN <<>>
  ELSE AddData(AddOp(NewScriptBuilder, "OP_RETURN"), data).script

MultiSigScript(keys, nrequired) ==
  IF Len(keys) < nrequired THEN <<>>
  ELSE AddOp(AddInt64(AddEach(AddInt64(NewScriptBuilder, nrequired), keys), Len(keys)),
             "OP_CHECKMULTISIG").script

(* PushedData, of the opcodes that have data and OP_0.                     *)
PushedData(pops) ==
  LET pushed == SelectSeq(pops, LAMBDA pop : pop.data # <<>> \/ pop.op = "OP_0")
  IN [i \in DOMAIN pushed |-> pushed[i].data]

(* ExtractPkScriptAddrs: keys that do not parse are left out.              *)
KeyAddrs(keys) == [i \in DOMAIN keys |-> Address("PubKey", keys[i])]
GoodKeyAddrs(keys) == KeyAddrs(SelectSeq(keys, KeyParses))

AddrsOf(pops, class) ==
  CASE class = "PubKeyHashTy" -> <<Address("PubKeyHash", pops[3].data)>>
    [] class = "ScriptHashTy" -> <<Address("ScriptHash", pops[2].data)>>
    [] class = "PubKeyTy" -> GoodKeyAddrs(<<pops[1].data>>)
    [] class = "MultiSigTy" -> GoodKeyAddrs([i \in 1..(Len(pops) - 3) |-> pops[i + 1].data])
    [] OTHER -> <<>>

Extracted(pops, class) ==
  [class |-> class, addrs |-> AddrsOf(pops, class),
   required |-> CASE class = "MultiSigTy" -> asSmallInt(pops[1])
                  [] class \in {"NullDataTy", "NonStandardTy"} -> 0
                  [] OTHER -> 1]

ExtractPkScriptAddrs(pops) == Extracted(pops, typeOfScript(pops))

-----------------------------------------------------------------------------
(* Signing.  A key ring is the KeyDB of a caller: keys and the form of     *)
(* their public keys; every redeem script is in the ScriptDB.              *)

PubKey(k) == <<PK, k.key, IF k.compressed THEN 1 ELSE 0>>

GetKey(ring, addr) == {k \in ring : Hash160(PubKey(k)) = EncodeAddress(addr)}
GetScript(addr) == {i \in DOMAIN RedeemScripts : Hash160(<<SCRIPT, i>>) = EncodeAddress(addr)}

Signature(k, digest, rs, hashType) == <<SIG, k.key, digest, Serialize(rs[1], rs[2]), hashType>>

RawTxInSignature(t, subscript, hashType, k, nonce) ==
  Signature(k, calcSignatureHash(subscript, hashType, t), CHOOSE rs \in signRFC6979(nonce[1], nonce[2]) : TRUE,
            hashType)

(* signMultiSig: in the order of the addresses, until there are enough.    *)
FirstOf(s, n) == SubSeq(s, 1, IF n = 0 \/ Len(s) < n THEN Len(s) ELSE n)
AnyKey(ring, a) == CHOOSE k \in GetKey(ring, a) : TRUE

SignEach(t, subscript, hashType, addrs, ring, nonce) ==
  [i \in DOMAIN addrs |-> RawTxInSignature(t, subscript, hashType, AnyKey(ring, addrs[i]), nonce)]

signMultiSig(t, subscript, hashType, addrs, required, ring, nonce) ==
  AddEach(AddOp(NewScriptBuilder, "OP_0"),
          SignEach(t, subscript, hashType, FirstOf(SelectSeq(addrs, LAMBDA a : GetKey(ring, a) # {}), required),
                   ring, nonce)).script

(* sign, for all classes but script hashes.  No script is an error, or the *)
(* index out of range of a public key that does not parse.                 *)
signClass(t, subscript, hashType, ring, nonce, x) ==
  LET Raw(k) == RawTxInSignature(t, subscript, hashType, k, nonce)
  IN CASE x.class = "MultiSigTy" ->
            signMultiSig(t, subscript, hashType, x.addrs, x.required, ring, nonce)
       [] x.class \notin {"PubKeyTy", "PubKeyHashTy"} \/ x.addrs = <<>> -> <<>>
       [] GetKey(ring, x.addrs[1]) = {} -> <<>>
       [] x.class = "PubKeyTy" -> AddData(NewScriptBuilder, Raw(AnyKey(ring, x.addrs[1]))).script
       [] OTHER -> AddEach(NewScriptBuilder, <<Raw(AnyKey(ring, x.addrs[1])), PubKey(AnyKey(ring, x.addrs[1]))>>).script

sign(t, subscript, hashType, ring, nonce) ==
  signClass(t, subscript, hashType, ring, nonce, ExtractPkScriptAddrs(subscript))

(* Mutant: signatures stay in the order in which they were made.           *)
mergeMultiSigMutant(t, addrs, required, pk, sig, prev) ==
  LET possible == SelectSeq(PushedData(prev \o sig), LAMBDA x : Is(x, SIG))
      sigs == SubSeq(possible, 1, IF Len(possible) < required THEN Len(possible) ELSE required)
  IN IF sig = <<>> THEN prev ELSE IF prev = <<>> THEN sig
     ELSE AddEach(AddOp(NewScriptBuilder, "OP_0"),
                  sigs \o [i \in 1..(required - Len(sigs)) |-> <<>>]).script

(* mergeMultiSig: the first signature that verifies for each address, in   *)
(* the order of the addresses, padded with empty ones.                     *)
Parsing(pushed) == SelectSeq(pushed, LAMBDA x : x # <<>> /\ parseSig(Encoding(x), TRUE))

AddrOf(t, addrs, pk, x) ==
  SelectInSeq(addrs, LAMBDA a : x[2] = a.data[2] /\ x[3] = calcSignatureHash(pk, Last(x), t))

(* The signatures with the address each was found for.                     *)
Matched(t, addrs, pk, possible) ==
  [i \in DOMAIN possible |-> [sig |-> possible[i], addr |-> AddrOf(t, addrs, pk, possible[i])]]

SigFor(addrs, matched, a) ==
  SelectInSeq(matched, LAMBDA m : m.addr > 0 /\ EncodeAddress(addrs[m.addr]) = EncodeAddress(a))

InOrder(addrs, matched) ==
  LET found == SelectSeq(addrs, LAMBDA a : SigFor(addrs, matched, a) > 0)
  IN [i \in DOMAIN found |-> matched[SigFor(addrs, matched, found[i])].sig]

PaddedSigs(sigs, required) ==
  AddOps(AddEach(AddOp(NewScriptBuilder, "OP_0"), sigs), [i \in 1..(required - Len(sigs)) |-> Opcode("OP_0")]).script

mergeMultiSig(t, addrs, required, pk, sig, prev) ==
  IF sig = <<>> THEN prev ELSE IF prev = <<>> THEN sig
  ELSE PaddedSigs(FirstOf(InOrder(addrs, Matched(t, addrs, pk, Parsing(PushedData(sig) \o PushedData(prev)))),
                          required), required)

(* mergeScripts of a class that is not a script hash: one of two single    *)
(* signatures is kept, the longer one.                                     *)
Merge(t, pk, x, sig, prev) ==
  IF x.class = "MultiSigTy" THEN mergeMultiSig(t, x.addrs, x.required, pk, sig, prev)
  ELSE IF ScriptLen(sig) > ScriptLen(prev) THEN sig ELSE prev

(* mergeScripts.  The scripts are unparsed with their last push, so a      *)
(* redeem script that is not a multisig is pushed twice.                   *)
MergedInside(t, inside, script, sig, prev) ==
  AddData(AddOps(NewScriptBuilder, Merge(t, inside, ExtractPkScriptAddrs(inside), sig, prev)), script).script

mergeScripts(t, pk, x, sig, prev) ==
  IF x.class # "ScriptHashTy" THEN Merge(t, pk, x, sig, prev)
  ELSE IF sig = <<>> THEN prev
  ELSE IF prev = <<>> THEN sig
  ELSE MergedInside(t, parseScript(Last(sig).data), Last(sig).data, sig, prev)

(* SignTxOutput: no script is an error.                                    *)
MergedUnlessError(t, pk, x, sig, prev) == IF sig = <<>> THEN <<>> ELSE mergeScripts(t, pk, x, sig, prev)

WithRedeem(sig, i) == IF sig = <<>> THEN <<>> ELSE AddData(AddOps(NewScriptBuilder, sig), <<SCRIPT, i>>).script

SignHashed(t, hashType, ring, nonce, scripts) ==
  IF scripts = {} THEN <<>>
  ELSE WithRedeem(sign(t, RedeemScripts[CHOOSE i \in scripts : TRUE], hashType, ring, nonce),
                  CHOOSE i \in scripts : TRUE)

SignExtracted(t, pk, hashType, ring, nonce, prev, x) ==
  MergedUnlessError(t, pk, x, IF x.class = "ScriptHashTy" THEN SignHashed(t, hashType, ring, nonce, GetScript(x.addrs[1]))
                              ELSE sign(t, pk, hashType, ring, nonce), prev)

SignTxOutput(t, pk, hashType, ring, nonce, prev) ==
  SignExtracted(t, pk, hashType, ring, nonce, prev, ExtractPkScriptAddrs(pk))

-----------------------------------------------------------------------------
(* The script that has to be satisfied, its keys and how many must sign.   *)
Inside(pk) ==
  IF isScriptHash(pk) THEN LET i == GetScript(Address("ScriptHash", pk[2].data))
                           IN IF i = {} THEN <<>> ELSE RedeemScripts[CHOOSE j \in i : TRUE]
  ELSE pk

StandardVerifyFlags ==
  {"Bip16", "DERSignatures", "StrictEncoding", "MinimalData", "StrictMultiSig", "DiscourageUpgradableNops",
   "CleanStack", "NullFail", "CheckLockTimeVerify", "LowS", "MinimalIf"}

(* What is valid of a signature under a transaction, by hash type: a       *)
(* declarative reading of the hash types.                                  *)
Covers(m, now) ==
  LET old == m.tx
      type == Last(m.sig) % 32
      single == type = 3
      lacks(t) == t.idx > Len(t.outs)
  IN IF single /\ (lacks(old) \/ lacks(now)) THEN lacks(old) /\ lacks(now)
     ELSE /\ old.version = now.version /\ old.lockTime = now.lockTime
          /\ old.ins[old.idx] = now.ins[now.idx]
          /\ \/ Last(m.sig) >= 128
             \/ /\ old.idx = now.idx /\ Len(old.ins) = Len(now.ins)
                /\ \A i \in DOMAIN old.ins :
                     /\ old.ins[i].prev = now.ins[i].prev
                     /\ type \in {2, 3} \/ old.ins[i].sequence = now.ins[i].sequence
          /\ \/ type = 2
             \/ single /\ old.idx = now.idx /\ old.outs[old.idx] = now.outs[now.idx]
             \/ type \notin {2, 3} /\ old.outs = now.outs

(* The keys with a signature in a script that covers the transaction.      *)
Signed(script, now) ==
  {m.sig[2] : m \in {m \in made : m.sig \in {script[i].data : i \in DOMAIN script} /\ Covers(m, now)}}

(* The keys of a ring whose address is in the script.                      *)
Able(ring) ==
  LET x == ExtractPkScriptAddrs(Inside(output))
  IN {k.key : k \in UNION {GetKey(ring, x.addrs[i]) : i \in DOMAIN x.addrs}}

InitSpend ==
  /\ Init
  /\ output = <<>> /\ tx = FirstTx /\ sigScript = <<>> /\ made = {} /\ due = {} /\ calls = 0

InitSigning ==
  /\ output \in Outputs /\ tx = FirstTx /\ sigScript = <<>> /\ made = {} /\ due = {} /\ calls = 0
  /\ vm = NewEngine(<<>>, output, tx, StandardVerifyFlags)
  /\ inner = InnerEngine(vm)
  /\ decisions = {}

(* The engine runs the new script or the new transaction.                  *)
Verified ==
  /\ vm' = NewEngine(sigScript', output, tx', StandardVerifyFlags)
  /\ inner' = InnerEngine(vm')
  /\ decisions' = {}
  /\ calls' = calls + 1
  /\ UNCHANGED output

Idle == output # <<>> /\ vm.status # "run" /\ inner.status # "run" /\ calls < MaxCalls

SignOutput(ring, hashType, nonce, previousScript) ==
  LET single == typeOfScript(Inside(output)) # "MultiSigTy"
  IN /\ Idle
     /\ UNCHANGED tx
     /\ \E new \in {SignTxOutput(tx, output, hashType, ring, nonce, previousScript)} :
          /\ new # <<>>
          /\ sigScript' = new
          /\ made' = made \cup
               {[sig |-> RawTxInSignature(tx, Inside(output), hashType, k, nonce), tx |-> tx] : k \in ring}
          /\ due' = IF single /\ sigScript # <<>> THEN Signed(new, tx)'
                    ELSE Signed(sigScript, tx) \cup Able(ring)
     /\ Verified

(* A party of the transaction edits it: an input before or after the one   *)
(* that is signed, another sequence number, an output more or less, a lock *)
(* time.                                                                   *)
Edits(t) ==
  LET in == [prev |-> 9, sequence |-> 5]
      other == IF t.idx = 1 THEN 2 ELSE 1
  IN {[t EXCEPT !.ins = Append(@, in)], [t EXCEPT !.ins = <<in>> \o @, !.idx = @ + 1],
      [t EXCEPT !.outs = Append(@, 7)], [t EXCEPT !.lockTime = @ + 1]}
     \cup (IF t.outs = <<>> THEN {} ELSE {[t EXCEPT !.outs = Front(@)]})
     \cup (IF Len(t.ins) < 2 THEN {} ELSE {[t EXCEPT !.ins[other].sequence = @ + 1]})

EditTx(new) ==
  /\ Idle /\ sigScript # <<>>
  /\ tx' = new
  /\ due' = Signed(sigScript, new)
  /\ UNCHANGED <<sigScript, made>>
  /\ Verified

SignInit == InitSpend \/ InitSigning

SignNext ==
  \/ Next /\ UNCHANGED signing
  \/ \E ring \in KeyRings, hashType \in HashTypes, nonce \in Nonces, previousScript \in {sigScript} :
       SignOutput(ring, hashType, nonce, previousScript)
  \/ \E new \in Edits(tx) : EditTx(new)

SignSpec == SignInit /\ [][SignNext]_<<vars, signing>>

-----------------------------------------------------------------------------
(* Keys sign for every place they have in the script.                      *)
Enough(pk, keys) ==
  LET script == Inside(pk)
      x == ExtractPkScriptAddrs(script)
      holds(a) == IF a.kind = "PubKey" THEN a.data[2] \in keys
                  ELSE \E k \in keys, form \in 0..1 : Hash160(<<PK, k, form>>) = a.data
  IN /\ x.class \in {"PubKeyTy", "PubKeyHashTy", "MultiSigTy"}
     /\ Cardinality({i \in DOMAIN x.addrs : holds(x.addrs[i])}) >= x.required

TwicePushed(script) == Cardinality({i \in DOMAIN script : Is(script[i].data, SCRIPT)}) > 1

(* What the signers of an output assemble, in any order and with any hash  *)
(* types, is accepted by the engine exactly when enough keys have signed   *)
(* what the transaction is now; a merge never loses a signature that is    *)
(* needed, and the number of inputs and of signature operations is what    *)
(* CalcScriptInfo and GetPreciseSigOpCount say of it.                      *)
SignedScriptsVerify ==
  (output # <<>> /\ vm.status # "run" /\ ~TwicePushed(sigScript)) =>
    /\ (vm.status = "ok") = Enough(output, due)
    /\ vm.status = "ok" =>
         LET info == CalcScriptInfo(sigScript, output, TRUE)
         IN /\ info.numInputs = info.expectedInputs
            /\ info.sigOps = GetPreciseSigOpCount(sigScript, output, TRUE)

(* Every encoding of a signature that the engine meets.                    *)
StrictEncodingIsCanonical ==
  \A x \in {vm.scripts[1][i].data : i \in DOMAIN vm.scripts[1]} :
    Is(x, SIG) => EncodingIsCanonical(x[4])

(* What sign.go says of script hashes: the last push is removed before two *)
(* scripts are merged.                                                     *)
ScriptHashMergePushesOnce == ~TwicePushed(sigScript)
=============================================================================

------------------------------- MODULE Script -------------------------------
(***************************************************************************)
(* The script engine (pkg/txscript: engine.go, opcode.go, stack.go,        *)
(* scriptnum.go).  vm is the Engine struct; a step of the specification is *)
(* a call of Engine.Step from Execute.                                     *)
(*                                                                         *)
(* A stack element is a sequence of bytes.  Digests, keys, signatures and  *)
(* serialized redeem scripts are symbolic: a tag above 255 followed by     *)
(* what they were made from, with the size they have in the code.  A       *)
(* signature is the tuple of its key, the digest it signs, its encoding    *)
(* and its hash type.                                                      *)
(*                                                                         *)
(* Witness verification is commented out in NewEngine and Step, so         *)
(* witnessProgram is always nil and isWitnessVersionActive always false.   *)
(***************************************************************************)
EXTENDS Signatures

CONSTANTS
  NumLen,          \* defaultScriptNumLen
  MaxOps,          \* MaxOpsPerScript
  MaxStackSize,    \* elements of both stacks
  MaxElementSize,  \* MaxScriptElementSize
  MaxKeys,         \* MaxPubKeysPerMultiSig
  LockThreshold,   \* LockTimeThreshold
  SeqDisabled,     \* wire.SequenceLockTimeDisabled, a power of two
  SeqIsSeconds,    \* wire.SequenceLockTimeIsSeconds, a power of two
  SeqMask,         \* one more than wire.SequenceLockTimeMask
  MaxSequence,     \* wire.MaxTxInSequenceNum
  RedeemScripts,   \* what the symbolic redeem scripts parse to
  Spends           \* a sequence of sets of inputs of NewEngine

IsSequence(s) == s \in Seq(ToSet(s))

ASSUME ScriptAssumption ==
  /\ {NumLen, MaxOps, MaxStackSize, MaxElementSize, MaxKeys} \subseteq Nat \ {0}
  /\ {SeqDisabled, SeqIsSeconds, SeqMask} \subseteq Nat \ {0}
  /\ SeqMask <= SeqIsSeconds /\ SeqIsSeconds < SeqDisabled
  /\ \A i \in DOMAIN RedeemScripts : IsSequence(RedeemScripts[i])
  /\ \A i \in DOMAIN Spends : \A s \in Spends[i] : IsSequence(s.sigScript) /\ IsSequence(s.pkScript)

VARIABLES
  vm,        \* the engine
  inner,     \* an engine that runs the redeem script of a P2SH spend directly
  decisions  \* history: <<offset, taken>> of the conditionals of this script

vars == <<vm, inner, decisions>>

-----------------------------------------------------------------------------
(* Elements.                                                               *)

RIPEMD == 300
SHA1 == 301
SHA256 == 302
PK == 303
SIG == 304
SCRIPT == 305

Is(x, tag) == x # <<>> /\ Head(x) = tag
Symbolic(x) == x # <<>> /\ Head(x) > 255

Size(x) ==
  CASE Is(x, RIPEMD) \/ Is(x, SHA1) -> 20
    [] Is(x, SHA256) -> 32
    [] Is(x, PK) -> IF x[3] = 1 THEN 33 ELSE 65
    [] Is(x, SIG) -> Len(x[4]) + 1
    [] Is(x, SCRIPT) -> 40
    [] OTHER -> Len(x)

(* asBool: some byte is not zero; a single sign bit at the end is zero too. *)
asBool(t) ==
  \/ Symbolic(t)
  \/ \E i \in 1..Len(t) : t[i] # 0 /\ ~(i = Len(t) /\ t[i] = 128)

fromBool(v) == IF v THEN <<1>> ELSE <<>>

(* scriptNum.Bytes: little endian magnitude, the sign in the top bit.      *)
Magnitude[n \in Nat] == IF n = 0 THEN <<>> ELSE <<n % 256>> \o Magnitude[n \div 256]

Bytes(sn) ==
  LET m == Magnitude[IF sn < 0 THEN -sn ELSE sn]
      sign == IF sn < 0 THEN 128 ELSE 0
  IN IF m = <<>> THEN <<>>
     ELSE IF Last(m) >= 128 THEN Append(m, sign)
     ELSE [m EXCEPT ![Len(m)] = @ + sign]

(* checkMinimalDataEncoding.                                               *)
MinimallyEncoded(v) ==
  \/ v = <<>>
  \/ Last(v) % 128 # 0
  \/ Len(v) > 1 /\ v[Len(v) - 1] >= 128

Value[v \in Seq(0..255)] == IF v = <<>> THEN 0 ELSE Head(v) + 256 * Value[Tail(v)]

(* makeScriptNum: the number, or an error.                                 *)
NumError(v, requireMinimal, len) ==
  IF Size(v) > len THEN "ErrNumberTooBig"
  ELSE IF requireMinimal /\ ~MinimallyEncoded(v) THEN "ErrMinimalData"
  ELSE "none"

makeScriptNum(v) ==
  IF v = <<>> THEN 0
  ELSE IF Last(v) < 128 THEN Value[v]
  ELSE -Value[[v EXCEPT ![Len(v)] = @ - 128]]

-----------------------------------------------------------------------------
(* The engine record.  A failing handler sets err; the stacks of a failed  *)
(* engine are never used again.                                            *)

Fail(v, code) == [v EXCEPT !.err = code]

(* nipN returns with the mutex locked when the index is out of range.      *)
PopFails(v, which) == [Fail(v, "ErrInvalidStackOperation") EXCEPT !.locked = @ \cup {which}]

hasFlag(v, f) == f \in v.flags
Depth(v) == Len(v.dstack)
Peek(v, i) == v.dstack[Depth(v) - i]
WithStack(v, s) == [v EXCEPT !.dstack = s]
PushByteArray(v, x) == [v EXCEPT !.dstack = Append(@, x)]
PushInt(v, n) == PushByteArray(v, Bytes(n))
PushBool(v, b) == PushByteArray(v, fromBool(b))
Pops(v, n) == [v EXCEPT !.dstack = SubSeq(@, 1, Len(@) - n)]
minimal(v) == hasFlag(v, "MinimalData")

(* stack.go: operations on the stack as loops over nipN and PeekByteArray. *)
Times(n) == [i \in 1..n |-> i]
NipToTop(s, entry) == Append(RemoveAt(s, Len(s) - entry), s[Len(s) - entry])
CopyToTop(s, entry) == Append(s, s[Len(s) - entry])

DropN(v, n) == IF Depth(v) < n THEN PopFails(v, "d") ELSE Pops(v, n)

DupN(v, n) ==
  IF Depth(v) < n THEN Fail(v, "ErrInvalidStackOperation")
  ELSE WithStack(v, FoldLeft(LAMBDA s, i : CopyToTop(s, n - 1), v.dstack, Times(n)))

RotN(v, n) ==
  IF Depth(v) < 3 * n THEN PopFails(v, "d")
  ELSE WithStack(v, FoldLeft(LAMBDA s, i : NipToTop(s, 3 * n - 1), v.dstack, Times(n)))

SwapN(v, n) ==
  IF Depth(v) < 2 * n THEN PopFails(v, "d")
  ELSE WithStack(v, FoldLeft(LAMBDA s, i : NipToTop(s, 2 * n - 1), v.dstack, Times(n)))

OverN(v, n) ==
  IF Depth(v) < 2 * n THEN Fail(v, "ErrInvalidStackOperation")
  ELSE WithStack(v, FoldLeft(LAMBDA s, i : CopyToTop(s, 2 * n - 1), v.dstack, Times(n)))

NipN(v, n) ==
  IF Depth(v) <= n THEN PopFails(v, "d") ELSE WithStack(v, RemoveAt(v.dstack, Depth(v) - n))

Tuck(v) ==
  IF Depth(v) < 2 THEN PopFails(v, "d")
  ELSE WithStack(v, Pops(v, 2).dstack \o <<Peek(v, 0), Peek(v, 1), Peek(v, 0)>>)

(* PickN and RollN after the index was popped.                             *)
PickN(v, n) ==
  IF n < 0 \/ n >= Depth(v) THEN Fail(v, "ErrInvalidStackOperation")
  ELSE WithStack(v, CopyToTop(v.dstack, n))

RollN(v, n) ==
  IF n < 0 \/ n >= Depth(v) THEN PopFails(v, "d") ELSE WithStack(v, NipToTop(v.dstack, n))

(* The error of the first of n PopInt calls that fails.                    *)
ErrorAt(v, i) == NumError(Peek(v, i), minimal(v), NumLen)
FirstError(v, n, bad) ==
  IF bad # {} THEN ErrorAt(v, Min(bad)) ELSE IF Depth(v) < n THEN "ErrInvalidStackOperation" ELSE "none"
IntError(v, n) == FirstError(v, n, {i \in 0..(n - 1) : i < Depth(v) /\ ErrorAt(v, i) # "none"})

IntFails(v, n) ==
  IF IntError(v, n) = "ErrInvalidStackOperation" THEN PopFails(v, "d") ELSE Fail(v, IntError(v, n))

Num(v, i) == makeScriptNum(Peek(v, i))

-----------------------------------------------------------------------------
(* Handlers of the opcodes.                                                *)

Conditionals == {"OP_IF", "OP_NOTIF", "OP_ELSE", "OP_ENDIF"}
Disabled == {"OP_CAT", "OP_SUBSTR", "OP_LEFT", "OP_RIGHT", "OP_INVERT", "OP_AND", "OP_OR", "OP_XOR",
             "OP_2MUL", "OP_2DIV", "OP_MUL", "OP_DIV", "OP_MOD", "OP_LSHIFT", "OP_RSHIFT"}
AlwaysIllegal == {"OP_VERIF", "OP_VERNOTIF"}

(* Opcodes up to OP_16.                                                    *)
PushOps == {"OP_0", "OP_DATA", "OP_PUSHDATA1", "OP_PUSHDATA2", "OP_1NEGATE", "OP_N", "OP_RESERVED"}

isBranchExecuting(v) == v.condStack = <<>> \/ Last(v.condStack) = "true"

(* checkMinimalDataPush, of the pushes up to OP_PUSHDATA4.                 *)
PushIsMinimal(pop) ==
  LET n == Size(pop.data)
  IN CASE n = 0 -> pop.op = "OP_0"
       [] n = 1 /\ Head(pop.data) \in (1..16) \cup {129} -> FALSE
       [] n <= 75 -> pop.op = "OP_DATA"
       [] n <= 255 -> pop.op = "OP_PUSHDATA1"
       [] OTHER -> pop.op = "OP_PUSHDATA2"

opcodeNop(pop, v) ==
  IF pop.op = "OP_NOP1" /\ hasFlag(v, "DiscourageUpgradableNops")
    THEN Fail(v, "ErrDiscourageUpgradableNOPs") ELSE v

(* opcodeIf and opcodeNotIf: `when` is the value that takes the branch.    *)
opcodeIf(v, when) ==
  IF ~isBranchExecuting(v) THEN [v EXCEPT !.condStack = Append(@, "skip")]
  ELSE IF Depth(v) = 0 THEN PopFails(v, "d")
  ELSE [Pops(v, 1) EXCEPT
          !.condStack = Append(@, IF asBool(Peek(v, 0)) = when THEN "true" ELSE "false")]

(* Mutant: an inner else of a skipped branch starts to execute.            *)
opcodeElseMutant(v) ==
  IF v.condStack = <<>> THEN Fail(v, "ErrUnbalancedConditional")
  ELSE [v EXCEPT !.condStack[Len(v.condStack)] = IF @ = "true" THEN "false" ELSE "true"]

opcodeElse(v) ==
  IF v.condStack = <<>> THEN Fail(v, "ErrUnbalancedConditional")
  ELSE [v EXCEPT !.condStack[Len(v.condStack)] =
          IF @ = "true" THEN "false" ELSE IF @ = "false" THEN "true" ELSE @]

opcodeEndif(v) ==
  IF v.condStack = <<>> THEN Fail(v, "ErrUnbalancedConditional")
  ELSE [v EXCEPT !.condStack = Front(@)]

abstractVerify(v, code) ==
  IF v.err # "none" THEN v
  ELSE IF Depth(v) = 0 THEN PopFails(v, "d")
  ELSE IF asBool(Peek(v, 0)) THEN Pops(v, 1)
  ELSE Fail(v, code)

opcodeEqual(v) ==
  IF Depth(v) < 2 THEN PopFails(v, "d") ELSE PushBool(Pops(v, 2), Peek(v, 0) = Peek(v, 1))

verifyLockTime(v, txLockTime, threshold, lockTime) ==
  IF (txLockTime < threshold) # (lockTime < threshold) \/ lockTime > txLockTime
    THEN Fail(v, "ErrUnsatisfiedLockTime") ELSE v

(* A lock time opcode without its flag is a NOP; the operand is peeked and *)
(* may be one byte longer than other numbers.                              *)
WithOperand(v, flag, Check(_)) ==
  IF ~hasFlag(v, flag)
    THEN IF hasFlag(v, "DiscourageUpgradableNops") THEN Fail(v, "ErrDiscourageUpgradableNOPs") ELSE v
  ELSE IF Depth(v) = 0 THEN Fail(v, "ErrInvalidStackOperation")
  ELSE IF NumError(Peek(v, 0), minimal(v), NumLen + 1) # "none"
    THEN Fail(v, NumError(Peek(v, 0), minimal(v), NumLen + 1))
  ELSE IF Num(v, 0) < 0 THEN Fail(v, "ErrNegativeLockTime")
  ELSE Check(Num(v, 0))

Sequence(v) == v.tx.ins[v.tx.idx].sequence

LockTimeReached(v, r) ==
  IF r.err = "none" /\ Sequence(v) = MaxSequence THEN Fail(v, "ErrUnsatisfiedLockTime") ELSE r

opcodeCheckLockTimeVerify(v) ==
  LET Check(lockTime) == LockTimeReached(v, verifyLockTime(v, v.tx.lockTime, LockThreshold, lockTime))
  IN WithOperand(v, "CheckLockTimeVerify", Check)

HasBit(n, bit) == (n \div bit) % 2 = 1
Masked(n) == (IF HasBit(n, SeqIsSeconds) THEN SeqIsSeconds ELSE 0) + (n % SeqMask)

opcodeCheckSequenceVerify(v) ==
  LET Check(sequence) ==
        IF HasBit(sequence, SeqDisabled) THEN v
        ELSE IF v.tx.version < 2 \/ HasBit(Sequence(v), SeqDisabled)
          THEN Fail(v, "ErrUnsatisfiedLockTime")
        ELSE verifyLockTime(v, Masked(Sequence(v)), SeqIsSeconds, Masked(sequence))
  IN WithOperand(v, "CheckSequenceVerify", Check)

opcodeToAltStack(v) ==
  IF Depth(v) = 0 THEN PopFails(v, "d")
  ELSE [Pops(v, 1) EXCEPT !.astack = Append(@, Peek(v, 0))]

opcodeFromAltStack(v) ==
  IF v.astack = <<>> THEN PopFails(v, "a")
  ELSE [PushByteArray(v, Last(v.astack)) EXCEPT !.astack = Front(@)]

opcodeIfDup(v) ==
  IF Depth(v) = 0 THEN Fail(v, "ErrInvalidStackOperation")
  ELSE IF asBool(Peek(v, 0)) THEN PushByteArray(v, Peek(v, 0)) ELSE v

opcodeSize(v) ==
  IF Depth(v) = 0 THEN Fail(v, "ErrInvalidStackOperation") ELSE PushInt(v, Size(Peek(v, 0)))

(* opcodePick and opcodeRoll.                                              *)
WithIndex(v, Op(_, _)) ==
  IF IntError(v, 1) # "none" THEN IntFails(v, 1) ELSE Op(Pops(v, 1), Num(v, 0))

Truth(b) == IF b THEN 1 ELSE 0

(* opcode1Add, 1Sub, Negate, Abs, Not and 0NotEqual.                       *)
UnaryOps == {"OP_1ADD", "OP_1SUB", "OP_NEGATE", "OP_ABS", "OP_NOT", "OP_0NOTEQUAL"}
UnaryResult(op, m) ==
  CASE op = "OP_1ADD" -> m + 1
    [] op = "OP_1SUB" -> m - 1
    [] op = "OP_NEGATE" -> -m
    [] op = "OP_ABS" -> IF m < 0 THEN -m ELSE m
    [] op = "OP_NOT" -> Truth(m = 0)
    [] op = "OP_0NOTEQUAL" -> Truth(m # 0)

(* opcodeAdd, Sub, BoolAnd and BoolOr; a is the top of the stack.          *)
ArithmeticOps == {"OP_ADD", "OP_SUB", "OP_BOOLAND", "OP_BOOLOR"}
ArithmeticResult(op, a, b) ==
  CASE op = "OP_ADD" -> a + b
    [] op = "OP_SUB" -> b - a
    [] op = "OP_BOOLAND" -> Truth(a # 0 /\ b # 0)
    [] op = "OP_BOOLOR" -> Truth(a # 0 \/ b # 0)

ComparisonOps == {"OP_NUMEQUAL", "OP_NUMNOTEQUAL", "OP_LESSTHAN", "OP_GREATERTHAN",
                  "OP_LESSTHANOREQUAL", "OP_GREATERTHANOREQUAL"}
ComparisonResult(op, a, b) ==
  CASE op = "OP_NUMEQUAL" -> Truth(a = b)
    [] op = "OP_NUMNOTEQUAL" -> Truth(a # b)
    [] op = "OP_LESSTHAN" -> Truth(b < a)
    [] op = "OP_GREATERTHAN" -> Truth(b > a)
    [] op = "OP_LESSTHANOREQUAL" -> Truth(b <= a)
    [] op = "OP_GREATERTHANOREQUAL" -> Truth(b >= a)

MinMaxOps == {"OP_MIN", "OP_MAX"}
MinMaxResult(op, a, b) == IF (op = "OP_MIN") = (b < a) THEN b ELSE a

Unary(op, v) ==
  IF IntError(v, 1) # "none" THEN IntFails(v, 1) ELSE PushInt(Pops(v, 1), UnaryResult(op, Num(v, 0)))

Binary(op, v, Result(_, _, _)) ==
  IF IntError(v, 2) # "none" THEN IntFails(v, 2)
  ELSE PushInt(Pops(v, 2), Result(op, Num(v, 0), Num(v, 1)))

opcodeWithin(v) ==
  IF IntError(v, 3) # "none" THEN IntFails(v, 3)
  ELSE PushInt(Pops(v, 3), Truth(Num(v, 2) >= Num(v, 1) /\ Num(v, 2) < Num(v, 0)))

(* The five hash opcodes: the tags they put in front of the element.       *)
HashTags ==
  [OP_RIPEMD160 |-> <<RIPEMD>>, OP_SHA1 |-> <<SHA1>>, OP_SHA256 |-> <<SHA256>>,
   OP_HASH160 |-> <<RIPEMD, SHA256>>, OP_HASH256 |-> <<SHA256, SHA256>>]

Hash(op, v) ==
  IF Depth(v) = 0 THEN PopFails(v, "d")
  ELSE PushByteArray(Pops(v, 1), HashTags[op] \o Peek(v, 0))

opcodeCodeSeparator(v) == [v EXCEPT !.lastCodeSep = v.scriptOff]

-----------------------------------------------------------------------------
(* The digest a signature signs.  tx has a version, a lock time, inputs    *)
(* with a previous output and a sequence, outputs, and the index of the    *)
(* input that is signed (from 1).                                          *)

subScript(v) == LET s == v.scripts[v.scriptIdx + 1] IN SubSeq(s, v.lastCodeSep + 1, Len(s))

removeOpcode(pkscript, opcode) == SelectSeq(pkscript, LAMBDA pop : pop.op # opcode)

canonicalPush(pop) ==
  /\ pop.op = "OP_DATA" => ~(Size(pop.data) = 1 /\ Head(pop.data) <= 16)
  /\ pop.op = "OP_PUSHDATA1" => Size(pop.data) > 75
  /\ pop.op = "OP_PUSHDATA2" => Size(pop.data) > 255

(* Every opcode contains the empty string.                                 *)
removeOpcodeByData(pkscript, data) ==
  SelectSeq(pkscript, LAMBDA pop : ~canonicalPush(pop) \/ (data # <<>> /\ pop.data # data))

AnyOneCanPay(hashType) == hashType \div 128 = 1

MaskedInput(tx, i, type) ==
  IF i # tx.idx /\ type \in {2, 3} THEN [tx.ins[i] EXCEPT !.sequence = 0] ELSE tx.ins[i]

SignedInputs(tx, hashType) ==
  IF AnyOneCanPay(hashType) THEN <<tx.ins[tx.idx]>>
  ELSE [i \in DOMAIN tx.ins |-> MaskedInput(tx, i, hashType % 32)]

SignedOutputs(tx, type) ==
  CASE type = 2 -> <<>>
    [] type = 3 -> [i \in 1..tx.idx |-> IF i = tx.idx THEN tx.outs[i] ELSE -1]
    [] OTHER -> tx.outs

(* calcSignatureHash: single without an output of that index is the number *)
(* one, otherwise the parts of the transaction that the hash type covers.  *)
calcSignatureHash(script, hashType, tx) ==
  LET type == hashType % 32
      at == IF AnyOneCanPay(hashType) THEN 1 ELSE tx.idx
  IN IF type = 3 /\ tx.idx > Len(tx.outs) THEN <<1>>
     ELSE <<removeOpcode(script, "OP_CODESEPARATOR"), at, tx.version, tx.lockTime,
            SignedInputs(tx, hashType), SignedOutputs(tx, type), hashType>>

-----------------------------------------------------------------------------
(* Signatures.  <<SIG, key, digest, encoding, hashType>>                   *)

Encoding(sig) == IF Is(sig, SIG) THEN sig[4] ELSE IF Symbolic(sig) THEN <<>> ELSE Front(sig)

(* checkHashTypeEncoding and checkSignatureEncoding.                       *)
SigError(v, sig) ==
  LET derFlags == v.flags \cap {"DERSignatures", "LowS", "StrictEncoding"}
  IN IF hasFlag(v, "StrictEncoding") /\ Last(sig) % 128 \notin 1..3 THEN "ErrInvalidSigHashType"
     ELSE IF derFlags # {} THEN checkSignatureEncoding(Encoding(sig), hasFlag(v, "LowS"))
     ELSE "none"

(* checkPubKeyEncoding.                                                    *)
KeyError(v, key) ==
  IF hasFlag(v, "StrictEncoding") /\ ~(Is(key, PK) /\ key[3] \in {0, 1}) THEN "ErrPubKeyType" ELSE "none"

(* ec.ParseDERSignature or ParseSignature, ec.ParsePubKey, Verify.         *)
SigParses(v, sig) ==
  parseSig(Encoding(sig), v.flags \cap {"StrictEncoding", "DERSignatures"} # {})
KeyParses(key) == Is(key, PK)
Verify(v, script, sig, key) ==
  Is(sig, SIG) /\ sig[2] = key[2] /\ sig[3] = calcSignatureHash(script, Last(sig), v.tx)

(* opcodeCheckSig of a signature and a key that were popped.               *)
CheckedSig(w, sig, key, script) ==
  IF sig = <<>> THEN PushBool(w, FALSE)
  ELSE IF SigError(w, sig) # "none" THEN Fail(w, SigError(w, sig))
  ELSE IF KeyError(w, key) # "none" THEN Fail(w, KeyError(w, key))
  ELSE IF ~KeyParses(key) \/ ~SigParses(w, sig) THEN PushBool(w, FALSE)
  ELSE IF Verify(w, removeOpcodeByData(script, sig), sig, key) THEN PushBool(w, TRUE)
  ELSE IF hasFlag(w, "NullFail") THEN Fail(w, "ErrNullFail")
  ELSE PushBool(w, FALSE)

opcodeCheckSig(v) ==
  IF Depth(v) < 2 THEN PopFails(v, "d") ELSE CheckedSig(Pops(v, 2), Peek(v, 1), Peek(v, 0), subScript(v))

(* The script without the signatures.                                      *)
Unsigned(v, sigs) == FoldLeft(removeOpcodeByData, subScript(v), sigs)

(* Mutant: a key that did not verify is tried again with the next one.     *)
MultiSigLoopMutant(v, keys, sigs) ==
  IF \A s \in 1..Len(sigs) : \E k \in 1..Len(keys) :
       /\ sigs[s] # <<>> /\ SigParses(v, sigs[s]) /\ KeyParses(keys[k])
       /\ Verify(v, Unsigned(v, sigs), sigs[s], keys[k])
    THEN "true" ELSE "false"

(* One round of the loop of opcodeCheckMultiSig: an error, or whether the  *)
(* signature is one of the key.                                            *)
Tried(v, script, sig, key) ==
  IF sig = <<>> THEN "no"
  ELSE IF SigError(v, sig) # "none" THEN SigError(v, sig)
  ELSE IF ~SigParses(v, sig) THEN "no"
  ELSE IF KeyError(v, key) # "none" THEN KeyError(v, key)
  ELSE IF KeyParses(key) /\ Verify(v, script, sig, key) THEN "yes" ELSE "no"

(* The loop after k keys: the signatures that have found their key, and    *)
(* its result, which is "more" as long as it goes on.                      *)
LoopAt(k, s, numKeys, numSigs) ==
  [sigs |-> s,
   result |-> IF s = numSigs THEN "true" ELSE IF numSigs - s > numKeys - k THEN "false" ELSE "more"]

LoopRound(at, tries, k, numKeys, numSigs) ==
  LET tried == tries[k][at.sigs + 1]
  IN IF at.result # "more" THEN at
     ELSE IF tried = "no" THEN LoopAt(k, at.sigs, numKeys, numSigs)
     ELSE IF tried = "yes" THEN LoopAt(k, at.sigs + 1, numKeys, numSigs)
     ELSE [sigs |-> at.sigs, result |-> tried]

LoopResult(tries, numKeys, numSigs) ==
  LET loop[k \in 0..numKeys] ==
        IF k = 0 THEN LoopAt(0, 0, numKeys, numSigs)
        ELSE LoopRound(loop[k - 1], tries, k, numKeys, numSigs)
  IN loop[numKeys].result

MultiSigLoop(v, keys, sigs) ==
  LoopResult([k \in 1..Len(keys) |->
               [s \in 1..Len(sigs) |-> Tried(v, Unsigned(v, sigs), sigs[s], keys[k])]],
             Len(keys), Len(sigs))

Popped(v, from, n) == [i \in 1..n |-> Peek(v, from + i - 1)]

(* opcodeCheckMultiSig, in reverse: the end, what follows the number of    *)
(* signatures, and what follows the number of keys.                        *)
MultiSigEnd(v, sigs, result) ==
  IF result \notin {"true", "false"} THEN Fail(v, result)
  ELSE IF result = "false" /\ hasFlag(v, "NullFail") /\ \E i \in DOMAIN sigs : sigs[i] # <<>>
    THEN Fail(v, "ErrNullFail")
  ELSE PushBool(v, result = "true")

MultiSigOf(v, keys, sigs) == MultiSigEnd(v, sigs, MultiSigLoop(v, keys, sigs))

MultiSigSigs(v, numKeys, numSigs) ==
  LET used == numKeys + numSigs + 3
  IN IF numSigs \notin 0..numKeys THEN Fail(v, "ErrInvalidSignatureCount")
     ELSE IF Depth(v) < used THEN PopFails(v, "d")
     ELSE IF hasFlag(v, "StrictMultiSig") /\ Peek(v, used - 1) # <<>> THEN Fail(v, "ErrSigNullDummy")
     ELSE MultiSigOf(Pops(v, used), Popped(v, 1, numKeys), Popped(v, numKeys + 2, numSigs))

MultiSigKeys(v, numKeys) ==
  IF numKeys \notin 0..MaxKeys THEN Fail(v, "ErrInvalidPubKeyCount")
  ELSE IF v.numOps + numKeys > MaxOps THEN Fail(v, "ErrTooManyOperations")
  ELSE IF Depth(v) < numKeys + 1 THEN PopFails(v, "d")
  ELSE IF IntError(Pops(v, numKeys + 1), 1) # "none" THEN IntFails(Pops(v, numKeys + 1), 1)
  ELSE MultiSigSigs([v EXCEPT !.numOps = @ + numKeys], numKeys, Num(v, numKeys + 1))

opcodeCheckMultiSig(v) == IF IntError(v, 1) # "none" THEN IntFails(v, 1) ELSE MultiSigKeys(v, Num(v, 0))

-----------------------------------------------------------------------------
(* opcodeFalse, opcodePushData, opcode1Negate and opcodeN.                 *)
PushOp(pop, v) ==
  CASE pop.op = "OP_0" -> PushByteArray(v, <<>>)
    [] pop.op \in {"OP_DATA", "OP_PUSHDATA1", "OP_PUSHDATA2"} -> PushByteArray(v, pop.data)
    [] pop.op = "OP_1NEGATE" -> PushInt(v, -1)
    [] pop.op = "OP_N" -> PushInt(v, pop.n)

(* The handlers that only rearrange the data stack.                        *)
StackOps == {"OP_2DROP", "OP_2DUP", "OP_3DUP", "OP_2OVER", "OP_2ROT", "OP_2SWAP", "OP_DEPTH", "OP_DROP",
             "OP_DUP", "OP_NIP", "OP_OVER", "OP_ROT", "OP_SWAP", "OP_TUCK"}
StackOp(op, v) ==
  CASE op = "OP_2DROP" -> DropN(v, 2)
    [] op = "OP_2DUP" -> DupN(v, 2)
    [] op = "OP_3DUP" -> DupN(v, 3)
    [] op = "OP_2OVER" -> OverN(v, 2)
    [] op = "OP_2ROT" -> RotN(v, 2)
    [] op = "OP_2SWAP" -> SwapN(v, 2)
    [] op = "OP_DEPTH" -> PushInt(v, Depth(v))
    [] op = "OP_DROP" -> DropN(v, 1)
    [] op = "OP_DUP" -> DupN(v, 1)
    [] op = "OP_NIP" -> NipN(v, 1)
    [] op = "OP_OVER" -> OverN(v, 1)
    [] op = "OP_ROT" -> RotN(v, 1)
    [] op = "OP_SWAP" -> SwapN(v, 1)
    [] op = "OP_TUCK" -> Tuck(v)

(* OpcodeArray: the handler of each opcode.                                *)
opfunc(pop, v) ==
  LET op == pop.op
  IN CASE op \in PushOps \ {"OP_RESERVED"} -> PushOp(pop, v)
       [] op \in {"OP_NOP", "OP_NOP1"} -> opcodeNop(pop, v)
       [] op = "OP_IF" -> opcodeIf(v, TRUE)
       [] op = "OP_NOTIF" -> opcodeIf(v, FALSE)
       [] op = "OP_ELSE" -> opcodeElse(v)
       [] op = "OP_ENDIF" -> opcodeEndif(v)
       [] op = "OP_VERIFY" -> abstractVerify(v, "ErrVerify")
       [] op = "OP_RETURN" -> Fail(v, "ErrEarlyReturn")
       [] op = "OP_CHECKLOCKTIMEVERIFY" -> opcodeCheckLockTimeVerify(v)
       [] op = "OP_CHECKSEQUENCEVERIFY" -> opcodeCheckSequenceVerify(v)
       [] op = "OP_TOALTSTACK" -> opcodeToAltStack(v)
       [] op = "OP_FROMALTSTACK" -> opcodeFromAltStack(v)
       [] op \in StackOps -> StackOp(op, v)
       [] op = "OP_IFDUP" -> opcodeIfDup(v)
       [] op = "OP_PICK" -> WithIndex(v, PickN)
       [] op = "OP_ROLL" -> WithIndex(v, RollN)
       [] op = "OP_SIZE" -> opcodeSize(v)
       [] op = "OP_EQUAL" -> opcodeEqual(v)
       [] op = "OP_EQUALVERIFY" -> abstractVerify(opcodeEqual(v), "ErrEqualVerify")
       [] op \in UnaryOps -> Unary(op, v)
       [] op \in ArithmeticOps -> Binary(op, v, ArithmeticResult)
       [] op \in ComparisonOps -> Binary(op, v, ComparisonResult)
       [] op = "OP_NUMEQUALVERIFY" ->
            abstractVerify(Binary("OP_NUMEQUAL", v, ComparisonResult), "ErrNumEqualVerify")
       [] op \in MinMaxOps -> Binary(op, v, MinMaxResult)
       [] op = "OP_WITHIN" -> opcodeWithin(v)
       [] op \in DOMAIN HashTags -> Hash(op, v)
       [] op = "OP_CODESEPARATOR" -> opcodeCodeSeparator(v)
       [] op = "OP_CHECKSIG" -> opcodeCheckSig(v)
       [] op = "OP_CHECKSIGVERIFY" -> abstractVerify(opcodeCheckSig(v), "ErrCheckSigVerify")
       [] op = "OP_CHECKMULTISIG" -> opcodeCheckMultiSig(v)
       [] op = "OP_CHECKMULTISIGVERIFY" ->
            abstractVerify(opcodeCheckMultiSig(v), "ErrCheckMultiSigVerify")
       [] OTHER -> Fail(v, "ErrReservedOpcode")

(* executeOpcode: limits and illegal opcodes count in skipped branches too. *)
executeOpcode(pop, v) ==
  LET counted == IF pop.op \in PushOps THEN v ELSE [v EXCEPT !.numOps = @ + 1]
  IN IF pop.op \in Disabled THEN Fail(v, "ErrDisabledOpcode")
     ELSE IF pop.op \in AlwaysIllegal THEN Fail(v, "ErrReservedOpcode")
     ELSE IF counted.numOps > MaxOps /\ pop.op \notin PushOps THEN Fail(v, "ErrTooManyOperations")
     ELSE IF pop.op \in PushOps /\ Size(pop.data) > MaxElementSize THEN Fail(v, "ErrElementTooBig")
     ELSE IF ~isBranchExecuting(v) /\ pop.op \notin Conditionals THEN counted
     ELSE IF /\ minimal(v) /\ isBranchExecuting(v)
             /\ pop.op \in PushOps \ {"OP_1NEGATE", "OP_N", "OP_RESERVED"} /\ ~PushIsMinimal(pop)
       THEN Fail(v, "ErrMinimalData")
     ELSE opfunc(pop, counted)

-----------------------------------------------------------------------------
(* CheckErrorCondition, called when scriptIdx is past the last script.     *)
CheckErrorCondition(v, finalScript) ==
  IF v.scriptIdx < Len(v.scripts) THEN Fail(v, "ErrScriptUnfinished")
  ELSE IF finalScript /\ hasFlag(v, "CleanStack") /\ Depth(v) # 1 THEN Fail(v, "ErrCleanStack")
  ELSE IF Depth(v) < 1 THEN Fail(v, "ErrEmptyStack")
  ELSE IF ~asBool(Peek(v, 0)) THEN Fail(v, "ErrEvalFalse")
  ELSE Pops(v, 1)

(* parseScript of a stack element.                                         *)
Serialized(x) == Is(x, SCRIPT) /\ x[2] \in DOMAIN RedeemScripts
ParseError(x) == ~Serialized(x) /\ x # <<>>
parseScript(x) == IF Serialized(x) THEN RedeemScripts[x[2]] ELSE <<>>

(* The redeem script replaces the first script and its last push.          *)
WithRedeemScript(v, saved) ==
  IF v.err # "none" THEN v
  ELSE IF saved = <<>> THEN [v EXCEPT !.status = "panic"]
  ELSE IF ParseError(Last(saved)) THEN Fail(v, "ErrMalformedPush")
  ELSE [v EXCEPT !.scripts = Append(@, parseScript(Last(saved))), !.dstack = Front(saved)]

EnterRedeemScript(v) ==
  WithRedeemScript(CheckErrorCondition([v EXCEPT !.scriptIdx = @ + 1], FALSE), v.savedFirstStack)

(* Mutant: scripts of length zero are not skipped.                         *)
SkipEmptyScriptMutant(v) == v

SkipEmptyScript(v) ==
  IF v.scriptIdx < Len(v.scripts) /\ v.scriptOff >= Len(v.scripts[v.scriptIdx + 1])
    THEN [v EXCEPT !.scriptIdx = @ + 1] ELSE v

(* The next script is entered with fresh counters.                         *)
Entered(v) ==
  IF v.err # "none" \/ v.status = "panic" THEN v ELSE [SkipEmptyScript(v) EXCEPT !.lastCodeSep = 0]

(* Mutant: the stack of the first script is not restored.                  *)
NextScriptMutant(v) ==
  LET fresh == [v EXCEPT !.astack = <<>>, !.numOps = 0, !.scriptOff = 0]
  IN IF v.condStack # <<>> THEN Fail(v, "ErrUnbalancedConditional")
     ELSE IF v.scriptIdx = 0 /\ v.bip16
       THEN Entered([fresh EXCEPT !.scriptIdx = 1, !.savedFirstStack = v.dstack])
     ELSE IF v.scriptIdx = 1 /\ v.bip16
       THEN Entered([EnterRedeemScript(fresh) EXCEPT !.dstack = v.dstack])
     ELSE Entered([fresh EXCEPT !.scriptIdx = @ + 1])

(* The end of a script.                                                    *)
NextScript(v) ==
  LET fresh == [v EXCEPT !.astack = <<>>, !.numOps = 0, !.scriptOff = 0]
  IN IF v.condStack # <<>> THEN Fail(v, "ErrUnbalancedConditional")
     ELSE IF v.scriptIdx = 0 /\ v.bip16
       THEN Entered([fresh EXCEPT !.scriptIdx = 1, !.savedFirstStack = v.dstack])
     ELSE IF v.scriptIdx = 1 /\ v.bip16 THEN Entered(EnterRedeemScript(fresh))
     ELSE Entered([fresh EXCEPT !.scriptIdx = @ + 1])

(* What Step does after the opcode was executed.                           *)
AfterOpcode(v, script) ==
  IF v.err # "none" THEN v
  ELSE IF Len(v.dstack) + Len(v.astack) > MaxStackSize THEN Fail(v, "ErrStackOverflow")
  ELSE IF v.scriptOff < Len(script) THEN v
  ELSE NextScript(v)

(* Step.  validPC compares the offset only when scriptIdx is past the      *)
(* scripts, so an offset past the end of a script is an index out of range.*)
Step(v) ==
  LET script == v.scripts[v.scriptIdx + 1]
  IN IF v.scriptIdx >= Len(v.scripts) THEN Fail(v, "ErrInvalidProgramCounter")
     ELSE IF v.scriptOff >= Len(script) THEN [v EXCEPT !.status = "panic"]
     ELSE AfterOpcode(executeOpcode(script[v.scriptOff + 1], [v EXCEPT !.scriptOff = @ + 1]), script)

(* One round of Execute: what follows the step.                            *)
Concluded(v) == [v EXCEPT !.status = IF v.err = "none" THEN "ok" ELSE "error"]

AfterStep(v) ==
  IF v.status = "panic" THEN v
  ELSE IF v.err # "none" THEN Concluded(v)
  ELSE IF v.scriptIdx >= Len(v.scripts) THEN Concluded(CheckErrorCondition(v, TRUE))
  ELSE v

Execute(v) == AfterStep(Step(v))

-----------------------------------------------------------------------------
isPushOnly(pops) == \A i \in 1..Len(pops) : pops[i].op \in PushOps

isScriptHash(pops) ==
  /\ Len(pops) = 3
  /\ pops[1].op = "OP_HASH160"
  /\ pops[2].op = "OP_DATA" /\ Size(pops[2].data) = 20
  /\ pops[3].op = "OP_EQUAL"

NewEngine(sigScript, pkScript, tx, flags) ==
  LET v == [scripts |-> <<sigScript, pkScript>>, scriptIdx |-> IF sigScript = <<>> THEN 1 ELSE 0,
            scriptOff |-> 0, lastCodeSep |-> 0, dstack |-> <<>>, astack |-> <<>>, tx |-> tx,
            condStack |-> <<>>, numOps |-> 0, flags |-> flags,
            bip16 |-> "Bip16" \in flags /\ isScriptHash(pkScript), savedFirstStack |-> <<>>,
            locked |-> {}, err |-> "none", status |-> "run"]
      refused == [v EXCEPT !.status = "error"]
  IN IF sigScript = <<>> /\ pkScript = <<>> THEN Fail(refused, "ErrEvalFalse")
     ELSE IF "CleanStack" \in flags /\ flags \cap {"Bip16", "Witness"} = {}
       THEN Fail(refused, "ErrInvalidFlags")
     ELSE IF "SigPushOnly" \in flags \/ v.bip16
       THEN IF isPushOnly(sigScript) THEN v ELSE Fail(refused, "ErrNotPushOnly")
     ELSE v

(* The redeem script of a pay to script hash spend as a script of its own. *)
InnerEngine(v) ==
  IF /\ v.bip16 /\ v.scripts[1] # <<>>
     /\ Serialized(Last(v.scripts[1]).data) \/ Last(v.scripts[1]).op = "OP_0"
    THEN NewEngine(Front(v.scripts[1]), parseScript(Last(v.scripts[1]).data), v.tx,
                   (v.flags \ {"Bip16"}) \cup {"Witness"})
    ELSE [v EXCEPT !.status = "error"]

Init ==
  \E i \in DOMAIN Spends : \E s \in Spends[i] :
    /\ vm = NewEngine(s.sigScript, s.pkScript, s.tx, s.flags)
    /\ inner = InnerEngine(vm)
    /\ decisions = {}

Decision ==
  LET pop == vm.scripts[vm.scriptIdx + 1][vm.scriptOff + 1]
  IN IF /\ vm.scriptOff < Len(vm.scripts[vm.scriptIdx + 1]) /\ pop.op \in {"OP_IF", "OP_NOTIF"}
        /\ isBranchExecuting(vm) /\ Depth(vm) # 0
       THEN {<<vm.scriptOff + 1, asBool(Peek(vm, 0)) = (pop.op = "OP_IF")>>} ELSE {}

Run ==
  /\ vm.status = "run"
  /\ vm' = Execute(vm)
  /\ decisions' = IF vm'.scriptIdx = vm.scriptIdx THEN decisions \cup Decision ELSE {}
  /\ UNCHANGED inner

RunInner ==
  /\ vm.status # "run" /\ inner.status = "run"
  /\ inner' = Execute(inner)
  /\ UNCHANGED <<vm, decisions>>

Next == Run \/ RunInner

Spec == Init /\ [][Next]_vars

-----------------------------------------------------------------------------
(* The engine never indexes past the end of a script or of the saved       *)
(* stack, although validPC does not check the offset, and never goes on    *)
(* with a stack whose mutex a failed nipN left locked: it would hang.      *)
EngineNeverStuck ==
  \A v \in {vm, inner} :
    /\ v.status # "panic"
    /\ v.status # "error" => v.locked = {}

(* What is live at an offset by the block structure of the script: every   *)
(* conditional that encloses it was decided, and took this side of its     *)
(* else opcodes.                                                           *)
Level(script, i) ==
  LET n(ops) == Cardinality({k \in 1..i : script[k].op \in ops})
  IN n({"OP_IF", "OP_NOTIF"}) - n({"OP_ENDIF"})

Live(script, off) ==
  LET opens(j) == /\ script[j].op \in {"OP_IF", "OP_NOTIF"}
                  /\ \A k \in j..off : Level(script, k) >= Level(script, j)
      elses(j) == {k \in (j + 1)..off : script[k].op = "OP_ELSE" /\ Level(script, k) = Level(script, j)}
      oddElses(j) == Cardinality(elses(j)) % 2 = 1
  IN \A j \in 1..off : opens(j) => <<j, ~oddElses(j)>> \in decisions

(* isBranchExecuting, which looks at the top of condStack only, agrees     *)
(* with the block structure of the script.                                 *)
ConditionalsFollowBlocks ==
  vm.status = "run" => (isBranchExecuting(vm) <=> Live(vm.scripts[vm.scriptIdx + 1], vm.scriptOff))

OrderedMatch(v, numKeys, numSigs) ==
  LET good(sig, key) == /\ sig # <<>> /\ SigParses(v, sig) /\ KeyParses(key)
                        /\ Verify(v, Unsigned(v, Popped(v, numKeys + 2, numSigs)), sig, key)
  IN \E f \in [1..numSigs -> 1..numKeys] :
       /\ \A s, t \in 1..numSigs : s < t => f[s] < f[t]
       /\ \A s \in 1..numSigs : good(Peek(v, numKeys + 1 + s), Peek(v, f[s]))

(* The loop of OP_CHECKMULTISIG, which never goes back to a key, succeeds  *)
(* exactly when the signatures can be assigned to keys in order; what it   *)
(* pushes replaces the keys, the signatures, their numbers and one more    *)
(* element.                                                                *)
MultiSigIsOrderedMatch ==
  LET numKeys == Num(vm, 0)
      numSigs == Num(vm, numKeys + 1)
  IN (/\ vm.status = "run" /\ isBranchExecuting(vm)
      /\ vm.scripts[vm.scriptIdx + 1][vm.scriptOff + 1].op = "OP_CHECKMULTISIG") =>
        \A r \in {opcodeCheckMultiSig(vm)} :
          r.err = "none" =>
            r.dstack = Append(SubSeq(vm.dstack, 1, Depth(vm) - (numKeys + numSigs + 3)),
                              fromBool(OrderedMatch(vm, numKeys, numSigs)))

(* A pay to script hash spend is accepted exactly when the pushed script   *)
(* has the hash and, run as a public key script on the other pushes, is    *)
(* accepted: nothing of the outer scripts leaks into it.                   *)
RedeemScriptDecides ==
  (vm.bip16 /\ vm.status \in {"ok", "error"} /\ inner.status \in {"ok", "error"}) =>
    (vm.status = "ok") = (/\ inner.status = "ok" /\ isPushOnly(vm.scripts[1])
                          /\ vm.scripts[2][2].data = <<RIPEMD, SHA256>> \o Last(vm.scripts[1]).data)

=============================================================================

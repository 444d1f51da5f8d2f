---------------------------- MODULE ScriptProofs ----------------------------
(***************************************************************************)
(* Proofs about the script engine, for every script, transaction and set   *)
(* of flags and for all limits.                                            *)
(***************************************************************************)
EXTENDS Script, FiniteSetTheorems, SequenceTheorems, NaturalsInduction, WellFoundedInduction, TLAPS

IsEngine(v) ==
  v = [scripts |-> v.scripts, scriptIdx |-> v.scriptIdx, scriptOff |-> v.scriptOff, lastCodeSep |-> v.lastCodeSep,
       dstack |-> v.dstack, astack |-> v.astack, tx |-> v.tx, condStack |-> v.condStack, numOps |-> v.numOps,
       flags |-> v.flags, bip16 |-> v.bip16, savedFirstStack |-> v.savedFirstStack,
       locked |-> v.locked, err |-> v.err, status |-> v.status]

(* The fields that no handler of an opcode touches.                        *)
Frame(w, v) ==
  /\ IsEngine(w)
  /\ w.scripts = v.scripts /\ w.scriptIdx = v.scriptIdx /\ w.scriptOff = v.scriptOff
  /\ w.bip16 = v.bip16 /\ w.savedFirstStack = v.savedFirstStack /\ w.status = v.status

(* Only data was moved; moreover an error may have been found: a stack     *)
(* whose mutex stays locked is left only with an error.                    *)
Moved(w, v) == Frame(w, v) /\ w.condStack = v.condStack /\ w.err = v.err /\ w.locked = v.locked
Handled(w, v) == Frame(w, v) /\ (w.err = "none" => w.locked = v.locked)
Kept(w, v) == Handled(w, v) /\ w.condStack = v.condStack

-----------------------------------------------------------------------------
(* The operations on the record.                                           *)

LEMMA FailKeeps ==
  ASSUME NEW v, IsEngine(v), NEW code
  PROVE  Kept(Fail(v, code), v) /\ Fail(v, code).err = code
  BY DEF IsEngine, Kept, Handled, Frame, Fail

LEMMA LockKeeps ==
  ASSUME NEW v, IsEngine(v), v.err # "none", NEW s
  PROVE  Kept([v EXCEPT !.locked = s], v) /\ [v EXCEPT !.locked = s].err # "none"
  BY DEF IsEngine, Kept, Handled, Frame

LEMMA PopFailsKeeps ==
  ASSUME NEW v, IsEngine(v), NEW which
  PROVE  Kept(PopFails(v, which), v) /\ PopFails(v, which).err # "none"
<1> DEFINE u == Fail(v, "ErrInvalidStackOperation")
           l == u.locked \cup {which}
<1>1. Kept(u, v) /\ u.err = "ErrInvalidStackOperation"
  BY FailKeeps
<1>2. IsEngine(u)
  BY <1>1 DEF Kept, Handled, Frame
<1>3. PopFails(v, which) = [u EXCEPT !.locked = l]
  BY DEF PopFails
<1> HIDE DEF u, l
<1>4. Kept([u EXCEPT !.locked = l], u) /\ [u EXCEPT !.locked = l].err # "none"
  BY <1>1, <1>2, LockKeeps
<1> QED BY <1>1, <1>3, <1>4 DEF Kept, Handled, Frame

LEMMA StackMoves ==
  ASSUME NEW v, IsEngine(v), NEW s
  PROVE  Moved(WithStack(v, s), v) /\ WithStack(v, s).dstack = s
  BY DEF IsEngine, Moved, Frame, WithStack

LEMMA AltMoves ==
  ASSUME NEW v, IsEngine(v), NEW s
  PROVE  Moved([v EXCEPT !.astack = s], v)
  BY DEF IsEngine, Moved, Frame

LEMMA OpsMove ==
  ASSUME NEW v, IsEngine(v), NEW n
  PROVE  Moved([v EXCEPT !.numOps = n], v) /\ [v EXCEPT !.numOps = n].dstack = v.dstack
  BY DEF IsEngine, Moved, Frame

LEMMA SepMoves ==
  ASSUME NEW v, IsEngine(v), NEW n
  PROVE  Moved([v EXCEPT !.lastCodeSep = n], v)
  BY DEF IsEngine, Moved, Frame

LEMMA CondHandled ==
  ASSUME NEW v, IsEngine(v), NEW s
  PROVE  Handled([v EXCEPT !.condStack = s], v) /\ [v EXCEPT !.condStack = s].condStack = s
         /\ [v EXCEPT !.condStack = s].err = v.err /\ [v EXCEPT !.condStack = s].locked = v.locked
  BY DEF IsEngine, Handled, Frame

LEMMA MovedKept ==
  ASSUME NEW w, NEW v, Moved(w, v)
  PROVE  Kept(w, v) /\ IsEngine(w)
  BY DEF Moved, Kept, Handled, Frame

LEMMA MovedTwice ==
  ASSUME NEW w, NEW u, NEW v, Moved(w, u), Moved(u, v)
  PROVE  Moved(w, v)
  BY DEF Moved, Frame

LEMMA KeptMoved ==
  ASSUME NEW w, NEW u, NEW v, Kept(w, u), Moved(u, v)
  PROVE  Kept(w, v)
  BY DEF Moved, Kept, Handled, Frame

LEMMA KeptTwice ==
  ASSUME NEW w, NEW u, NEW v, Kept(w, u), Kept(u, v), u.err = "none"
  PROVE  Kept(w, v)
  BY DEF Kept, Handled, Frame

LEMMA SelfKept ==
  ASSUME NEW v, IsEngine(v)
  PROVE  Kept(v, v) /\ Moved(v, v)
  BY DEF Kept, Handled, Moved, Frame

LEMMA PushMoves ==
  ASSUME NEW v, IsEngine(v), NEW x
  PROVE  Moved(PushByteArray(v, x), v)
<1>1. PushByteArray(v, x) = WithStack(v, Append(v.dstack, x))
  BY DEF PushByteArray, WithStack, IsEngine
<1> QED BY <1>1, StackMoves

LEMMA PopsMove ==
  ASSUME NEW v, IsEngine(v), NEW n
  PROVE  Moved(Pops(v, n), v) /\ IsEngine(Pops(v, n))
<1>1. Pops(v, n) = WithStack(v, SubSeq(v.dstack, 1, Len(v.dstack) - n))
  BY DEF Pops, WithStack, IsEngine
<1> QED BY <1>1, StackMoves DEF Moved, Frame

LEMMA PopPush ==
  ASSUME NEW v, IsEngine(v), NEW n, NEW x
  PROVE  Kept(PushByteArray(Pops(v, n), x), v)
<1>1. Moved(Pops(v, n), v) /\ IsEngine(Pops(v, n))
  BY PopsMove
<1>2. Moved(PushByteArray(Pops(v, n), x), Pops(v, n))
  BY <1>1, PushMoves
<1> QED BY <1>1, <1>2, MovedTwice, MovedKept

LEMMA BasicKept ==
  ASSUME NEW v, IsEngine(v)
  PROVE  /\ \A code : Kept(Fail(v, code), v)
         /\ \A which : Kept(PopFails(v, which), v)
         /\ \A s : Kept(WithStack(v, s), v)
         /\ \A x : Kept(PushByteArray(v, x), v)
         /\ \A n : Kept(PushInt(v, n), v)
         /\ \A b : Kept(PushBool(v, b), v)
         /\ \A n : Kept(Pops(v, n), v)
         /\ \A n, x : Kept(PushByteArray(Pops(v, n), x), v)
         /\ \A n, i : Kept(PushInt(Pops(v, n), i), v)
         /\ \A n, b : Kept(PushBool(Pops(v, n), b), v)
         /\ \A n : Kept(IntFails(v, n), v)
         /\ Kept(v, v)
<1>1. \A code : Kept(Fail(v, code), v)
  BY FailKeeps
<1>2. \A which : Kept(PopFails(v, which), v)
  BY PopFailsKeeps
<1>3. \A s : Kept(WithStack(v, s), v)
  BY StackMoves, MovedKept
<1>4. \A x : Kept(PushByteArray(v, x), v)
  BY PushMoves, MovedKept
<1>5. \A n : Kept(PushInt(v, n), v)
  BY <1>4 DEF PushInt
<1>6. \A b : Kept(PushBool(v, b), v)
  BY <1>4 DEF PushBool
<1>7. \A n : Kept(Pops(v, n), v)
  BY PopsMove, MovedKept
<1>8. \A n, x : Kept(PushByteArray(Pops(v, n), x), v)
  BY PopPush
<1>9. \A n, i : Kept(PushInt(Pops(v, n), i), v)
  BY <1>8 DEF PushInt
<1>10. \A n, b : Kept(PushBool(Pops(v, n), b), v)
  BY <1>8 DEF PushBool
<1>11. \A n : Kept(IntFails(v, n), v)
  BY <1>1, <1>2 DEF IntFails
<1>12. Kept(v, v)
  BY SelfKept
<1> QED BY <1>1, <1>2, <1>3, <1>4, <1>5, <1>6, <1>7, <1>8, <1>9, <1>10, <1>11, <1>12

-----------------------------------------------------------------------------
(* The handlers, in the order of the module.                               *)

LEMMA StackOpKept ==
  ASSUME NEW v, IsEngine(v), NEW op \in StackOps
  PROVE  Kept(StackOp(op, v), v)
<1>1. \A n : Kept(DropN(v, n), v)
  BY BasicKept DEF DropN
<1>2. \A n : Kept(DupN(v, n), v)
  BY BasicKept DEF DupN
<1>3. \A n : Kept(OverN(v, n), v)
  BY BasicKept DEF OverN
<1>4. \A n : Kept(RotN(v, n), v)
  BY BasicKept DEF RotN
<1>5. \A n : Kept(SwapN(v, n), v)
  BY BasicKept DEF SwapN
<1>6. \A n : Kept(NipN(v, n), v)
  BY BasicKept DEF NipN
<1>7. Kept(Tuck(v), v)
  BY BasicKept DEF Tuck
<1>8. Kept(PushInt(v, Depth(v)), v)
  BY BasicKept
<1> QED BY <1>1, <1>2, <1>3, <1>4, <1>5, <1>6, <1>7, <1>8 DEF StackOp, StackOps

LEMMA PushOpKept ==
  ASSUME NEW v, IsEngine(v), NEW pop, pop.op \in PushOps \ {"OP_RESERVED"}
  PROVE  Kept(PushOp(pop, v), v)
  BY BasicKept DEF PushOp, PushOps

LEMMA VerifyKept ==
  ASSUME NEW v, NEW w, IsEngine(v), Kept(w, v), NEW code
  PROVE  Kept(abstractVerify(w, code), v)
<1>1. IsEngine(w)
  BY DEF Kept, Handled, Frame
<1>2. CASE w.err = "none"
  <2>1. Kept(abstractVerify(w, code), w)
    BY <1>1, BasicKept DEF abstractVerify
  <2> QED BY <1>2, <2>1, KeptTwice
<1>3. CASE w.err # "none"
  BY <1>3 DEF abstractVerify
<1> QED BY <1>2, <1>3

LEMMA LockTimeKept ==
  ASSUME NEW v, IsEngine(v)
  PROVE  Kept(opcodeCheckLockTimeVerify(v), v) /\ Kept(opcodeCheckSequenceVerify(v), v)
<1>1. \A a, b, c : Kept(verifyLockTime(v, a, b, c), v)
  BY BasicKept DEF verifyLockTime
<1>2. \A r : Kept(r, v) => Kept(LockTimeReached(v, r), v)
  BY BasicKept DEF LockTimeReached
<1>3. Kept(opcodeCheckLockTimeVerify(v), v)
  BY <1>1, <1>2, BasicKept DEF opcodeCheckLockTimeVerify, WithOperand
<1>4. Kept(opcodeCheckSequenceVerify(v), v)
  BY <1>1, BasicKept DEF opcodeCheckSequenceVerify, WithOperand
<1> QED BY <1>3, <1>4

LEMMA AltStackKept ==
  ASSUME NEW v, IsEngine(v)
  PROVE  Kept(opcodeToAltStack(v), v) /\ Kept(opcodeFromAltStack(v), v)
<1>1. \A u, s : Moved(u, v) => Kept([u EXCEPT !.astack = s], v)
  <2> SUFFICES ASSUME NEW u, NEW s, Moved(u, v)
               PROVE  Kept([u EXCEPT !.astack = s], v)
    OBVIOUS
  <2>1. Moved([u EXCEPT !.astack = s], u)
    BY MovedKept, AltMoves
  <2> QED BY <2>1, MovedTwice, MovedKept
<1>2. Moved(Pops(v, 1), v) /\ Moved(PushByteArray(v, Last(v.astack)), v)
  BY PopsMove, PushMoves
<1>3. Kept([Pops(v, 1) EXCEPT !.astack = Append(@, Peek(v, 0))], v)
  BY <1>1, <1>2
<1>4. Kept([PushByteArray(v, Last(v.astack)) EXCEPT !.astack = Front(@)], v)
  BY <1>1, <1>2
<1> QED BY <1>3, <1>4, BasicKept DEF opcodeToAltStack, opcodeFromAltStack

LEMMA IndexKept ==
  ASSUME NEW v, IsEngine(v)
  PROVE  Kept(WithIndex(v, PickN), v) /\ Kept(WithIndex(v, RollN), v)
<1>1. Moved(Pops(v, 1), v) /\ IsEngine(Pops(v, 1))
  BY PopsMove
<1>2. \A n : Kept(PickN(Pops(v, 1), n), Pops(v, 1)) /\ Kept(RollN(Pops(v, 1), n), Pops(v, 1))
  BY <1>1, BasicKept DEF PickN, RollN
<1>3. \A n : Kept(PickN(Pops(v, 1), n), v) /\ Kept(RollN(Pops(v, 1), n), v)
  BY <1>1, <1>2, KeptMoved
<1> QED BY <1>3, BasicKept DEF WithIndex

LEMMA NumberKept ==
  ASSUME NEW v, IsEngine(v), NEW op
  PROVE  /\ Kept(Unary(op, v), v)
         /\ Kept(Binary(op, v, ArithmeticResult), v)
         /\ Kept(Binary(op, v, ComparisonResult), v)
         /\ Kept(Binary(op, v, MinMaxResult), v)
         /\ Kept(opcodeWithin(v), v)
  BY BasicKept DEF Unary, Binary, opcodeWithin

LEMMA SmallKept ==
  ASSUME NEW v, IsEngine(v), NEW pop, NEW op
  PROVE  /\ Kept(opcodeNop(pop, v), v)
         /\ Kept(opcodeEqual(v), v)
         /\ Kept(opcodeIfDup(v), v)
         /\ Kept(opcodeSize(v), v)
         /\ Kept(Hash(op, v), v)
         /\ Kept(opcodeCodeSeparator(v), v)
<1>1. Kept(opcodeCodeSeparator(v), v)
  BY SepMoves, MovedKept DEF opcodeCodeSeparator
<1> QED BY <1>1, BasicKept DEF opcodeNop, opcodeEqual, opcodeIfDup, opcodeSize, Hash

LEMMA CheckSigKept ==
  ASSUME NEW v, IsEngine(v)
  PROVE  Kept(opcodeCheckSig(v), v)
<1>1. Moved(Pops(v, 2), v) /\ IsEngine(Pops(v, 2))
  BY PopsMove
<1>2. \A sig, key, script : Kept(CheckedSig(Pops(v, 2), sig, key, script), Pops(v, 2))
  BY <1>1, BasicKept DEF CheckedSig
<1> QED BY <1>1, <1>2, KeptMoved, BasicKept DEF opcodeCheckSig

LEMMA MultiSigKept ==
  ASSUME NEW v, IsEngine(v)
  PROVE  Kept(opcodeCheckMultiSig(v), v)
<1>1. ASSUME NEW w, IsEngine(w), NEW keys, NEW sigs
      PROVE  Kept(MultiSigOf(w, keys, sigs), w)
  BY <1>1, BasicKept DEF MultiSigOf, MultiSigEnd
<1>2. ASSUME NEW w, IsEngine(w), NEW n, NEW m
      PROVE  Kept(MultiSigSigs(w, n, m), w)
  <2> DEFINE used == n + m + 3
  <2>1. Moved(Pops(w, used), w) /\ IsEngine(Pops(w, used))
    BY <1>2, PopsMove
  <2>2. Kept(MultiSigOf(Pops(w, used), Popped(w, 1, n), Popped(w, n + 2, m)), w)
    BY <1>1, <2>1, KeptMoved
  <2> QED BY <1>2, <2>2, BasicKept DEF MultiSigSigs
<1>3. \A n : Kept(MultiSigKeys(v, n), v)
  <2> SUFFICES ASSUME NEW n PROVE Kept(MultiSigKeys(v, n), v)
    OBVIOUS
  <2> DEFINE p == Pops(v, n + 1)
             k == v.numOps + n
             w == [v EXCEPT !.numOps = k]
  <2>1. Moved(p, v) /\ IsEngine(p)
    BY PopsMove
  <2>2. Kept(IntFails(p, 1), v)
    BY <2>1, BasicKept, KeptMoved
  <2>3. Moved(w, v) /\ IsEngine(w)
    BY OpsMove, MovedKept
  <2>4. \A m : Kept(MultiSigSigs(w, n, m), v)
    BY <1>2, <2>3, KeptMoved
  <2>5. [v EXCEPT !.numOps = @ + n] = w
    OBVIOUS
  <2> HIDE DEF w
  <2> QED BY <2>2, <2>4, <2>5, BasicKept DEF MultiSigKeys
<1> QED BY <1>3, BasicKept DEF opcodeCheckMultiSig

LEMMA CondKept ==
  ASSUME NEW v, IsEngine(v)
  PROVE  /\ \A when : Handled(opcodeIf(v, when), v)
         /\ Handled(opcodeElse(v), v)
         /\ Handled(opcodeEndif(v), v)
<1>1. \A u, s : Moved(u, v) => Handled([u EXCEPT !.condStack = s], v)
  <2> SUFFICES ASSUME NEW u, NEW s, Moved(u, v)
               PROVE  Handled([u EXCEPT !.condStack = s], v)
    OBVIOUS
  <2>1. IsEngine(u)
    BY MovedKept
  <2> DEFINE w == [u EXCEPT !.condStack = s]
  <2>2. Handled(w, u) /\ w.err = u.err /\ w.locked = u.locked
    BY <2>1, CondHandled
  <2> HIDE DEF w
  <2>3. Handled(w, v)
    BY <2>2 DEF Handled, Frame, Moved
  <2> QED BY <2>3 DEF w
<1>2. Moved(v, v) /\ Moved(Pops(v, 1), v)
  BY SelfKept, PopsMove
<1>3. \A which, code : Handled(PopFails(v, which), v) /\ Handled(Fail(v, code), v)
  BY BasicKept DEF Kept
<1>4. \A s : Handled([v EXCEPT !.condStack = s], v) /\ Handled([Pops(v, 1) EXCEPT !.condStack = s], v)
  BY <1>1, <1>2
<1>5. ASSUME NEW when PROVE Handled(opcodeIf(v, when), v)
  <2>1. Handled([v EXCEPT !.condStack = Append(@, "skip")], v)
    BY <1>4
  <2>2. \A b : Handled([Pops(v, 1) EXCEPT !.condStack = Append(@, b)], v)
    BY <1>4
  <2> QED BY <1>3, <2>1, <2>2 DEF opcodeIf
<1>6. Handled(opcodeElse(v), v)
  <2> DEFINE n == Len(v.condStack)
             top == v.condStack[n]
             s == [v.condStack EXCEPT ![n] = IF top = "true" THEN "false"
                                             ELSE IF top = "false" THEN "true" ELSE top]
  <2>1. [v EXCEPT !.condStack[Len(v.condStack)] =
           IF @ = "true" THEN "false" ELSE IF @ = "false" THEN "true" ELSE @] = [v EXCEPT !.condStack = s]
    BY DEF IsEngine
  <2> HIDE DEF s
  <2> QED BY <1>3, <1>4, <2>1 DEF opcodeElse
<1>7. Handled(opcodeEndif(v), v)
  <2>1. Handled([v EXCEPT !.condStack = Front(@)], v)
    BY <1>4
  <2> QED BY <1>3, <2>1 DEF opcodeEndif
<1> QED BY <1>5, <1>6, <1>7

(* Every handler: the scripts, the position and the saved stack stay as    *)
(* they are, and a mutex is left locked only with an error.  Only the      *)
(* conditionals touch condStack.                                           *)
LEMMA OpfuncKept ==
  ASSUME NEW v, IsEngine(v), NEW pop, pop.op \notin Conditionals
  PROVE  Kept(opfunc(pop, v), v)
<1> DEFINE op == pop.op
<1>1. op \in PushOps \ {"OP_RESERVED"} => Kept(PushOp(pop, v), v)
  BY PushOpKept
<1>2. \A w, code : Kept(w, v) => Kept(abstractVerify(w, code), v)
  BY VerifyKept
<1>3. Kept(opcodeNop(pop, v), v) /\ Kept(opcodeEqual(v), v) /\ Kept(opcodeIfDup(v), v)
      /\ Kept(opcodeSize(v), v) /\ Kept(Hash(op, v), v) /\ Kept(opcodeCodeSeparator(v), v)
  BY SmallKept
<1>4. op # "OP_IF" /\ op # "OP_NOTIF" /\ op # "OP_ELSE" /\ op # "OP_ENDIF"
  BY DEF Conditionals
<1>5. Kept(abstractVerify(v, "ErrVerify"), v) /\ Kept(abstractVerify(opcodeEqual(v), "ErrEqualVerify"), v)
      /\ Kept(abstractVerify(Binary("OP_NUMEQUAL", v, ComparisonResult), "ErrNumEqualVerify"), v)
      /\ Kept(abstractVerify(opcodeCheckSig(v), "ErrCheckSigVerify"), v)
      /\ Kept(abstractVerify(opcodeCheckMultiSig(v), "ErrCheckMultiSigVerify"), v)
  BY <1>2, SelfKept, SmallKept, NumberKept, CheckSigKept, MultiSigKept
<1>6. Kept(Fail(v, "ErrEarlyReturn"), v) /\ Kept(Fail(v, "ErrReservedOpcode"), v)
  BY BasicKept
<1>7. Kept(opcodeCheckLockTimeVerify(v), v) /\ Kept(opcodeCheckSequenceVerify(v), v)
      /\ Kept(opcodeToAltStack(v), v) /\ Kept(opcodeFromAltStack(v), v)
      /\ Kept(WithIndex(v, PickN), v) /\ Kept(WithIndex(v, RollN), v)
  BY LockTimeKept, AltStackKept, IndexKept
<1>8. op \in StackOps => Kept(StackOp(op, v), v)
  BY StackOpKept
<1>9. Kept(Unary(op, v), v) /\ Kept(Binary(op, v, ArithmeticResult), v)
      /\ Kept(Binary(op, v, ComparisonResult), v) /\ Kept(Binary(op, v, MinMaxResult), v)
      /\ Kept(opcodeWithin(v), v)
  BY NumberKept
<1>10. Kept(opcodeCheckSig(v), v) /\ Kept(opcodeCheckMultiSig(v), v)
  BY CheckSigKept, MultiSigKept
<1> HIDE DEF op
<1> QED BY <1>1, <1>3, <1>4, <1>5, <1>6, <1>7, <1>8, <1>9, <1>10 DEF opfunc, op

LEMMA OpfuncCond ==
  ASSUME NEW v, NEW pop, pop.op \in Conditionals
  PROVE  /\ pop.op = "OP_IF" => opfunc(pop, v) = opcodeIf(v, TRUE)
         /\ pop.op = "OP_NOTIF" => opfunc(pop, v) = opcodeIf(v, FALSE)
         /\ pop.op = "OP_ELSE" => opfunc(pop, v) = opcodeElse(v)
         /\ pop.op = "OP_ENDIF" => opfunc(pop, v) = opcodeEndif(v)
<1>1. ASSUME pop.op = "OP_IF" PROVE opfunc(pop, v) = opcodeIf(v, TRUE)
  BY <1>1 DEF opfunc, PushOps, StackOps, UnaryOps, ArithmeticOps, ComparisonOps, MinMaxOps, HashTags
<1>2. ASSUME pop.op = "OP_NOTIF" PROVE opfunc(pop, v) = opcodeIf(v, FALSE)
  BY <1>2 DEF opfunc, PushOps, StackOps, UnaryOps, ArithmeticOps, ComparisonOps, MinMaxOps, HashTags
<1>3. ASSUME pop.op = "OP_ELSE" PROVE opfunc(pop, v) = opcodeElse(v)
  BY <1>3 DEF opfunc, PushOps, StackOps, UnaryOps, ArithmeticOps, ComparisonOps, MinMaxOps, HashTags
<1>4. ASSUME pop.op = "OP_ENDIF" PROVE opfunc(pop, v) = opcodeEndif(v)
  BY <1>4 DEF opfunc, PushOps, StackOps, UnaryOps, ArithmeticOps, ComparisonOps, MinMaxOps, HashTags
<1> QED BY <1>1, <1>2, <1>3, <1>4

LEMMA OpfuncHandled ==
  ASSUME NEW v, IsEngine(v), NEW pop
  PROVE  Handled(opfunc(pop, v), v)
<1>1. CASE pop.op \notin Conditionals
  BY <1>1, OpfuncKept DEF Kept
<1>2. CASE pop.op \in Conditionals
  <2>1. pop.op = "OP_IF" \/ pop.op = "OP_NOTIF" \/ pop.op = "OP_ELSE" \/ pop.op = "OP_ENDIF"
    BY <1>2 DEF Conditionals
  <2> QED BY <1>2, <2>1, OpfuncCond, CondKept
<1> QED BY <1>1, <1>2

LEMMA ExecuteHandled ==
  ASSUME NEW v, IsEngine(v), NEW pop
  PROVE  Handled(executeOpcode(pop, v), v)
<1> DEFINE n == v.numOps + 1
           counted == IF pop.op \in PushOps THEN v ELSE [v EXCEPT !.numOps = n]
<1>1. Moved(counted, v) /\ IsEngine(counted)
  BY OpsMove, SelfKept, MovedKept
<1>2. Handled(opfunc(pop, counted), counted)
  BY <1>1, OpfuncHandled
<1>3. Handled(opfunc(pop, counted), v) /\ Handled(counted, v)
  BY <1>1, <1>2 DEF Handled, Frame, Moved
<1>4. \A code : Handled(Fail(v, code), v)
  BY BasicKept DEF Kept
<1>5. counted = IF pop.op \in PushOps THEN v ELSE [v EXCEPT !.numOps = @ + 1]
  OBVIOUS
<1> HIDE DEF counted
<1> QED BY <1>3, <1>4, <1>5 DEF executeOpcode

-----------------------------------------------------------------------------
(* The end of a script.                                                    *)

Two(s) == s = <<s[1], s[2]>>
Three(s) == s = <<s[1], s[2], s[3]>>

LEMMA Lengths ==
  ASSUME NEW s
  PROVE  (Two(s) => Len(s) = 2) /\ (Three(s) => Len(s) = 3)
<1>1. ASSUME NEW a, NEW b, s = <<a, b>> PROVE Len(s) = 2
  BY <1>1
<1>2. ASSUME NEW a, NEW b, NEW c, s = <<a, b, c>> PROVE Len(s) = 3
  BY <1>2
<1> QED BY <1>1, <1>2 DEF Two, Three

LEMMA AppendsThird ==
  ASSUME NEW s, Two(s), NEW x
  PROVE  /\ Three(Append(s, x))
         /\ Append(s, x)[1] = s[1] /\ Append(s, x)[2] = s[2] /\ Append(s, x)[3] = x
<1>1. ASSUME NEW a, NEW b, s = <<a, b>>
      PROVE  Append(s, x) = <<a, b, x>>
  <2> DEFINE S == {a, b, x}
  <2>1. s \in Seq(S) /\ x \in S /\ Len(s) = 2 /\ s[1] = a /\ s[2] = b
    BY <1>1
  <2>2. Append(s, x) \in Seq(S) /\ Len(Append(s, x)) = 3 /\ \A i \in 1..3 : Append(s, x)[i] = <<a, b, x>>[i]
    <3> HIDE DEF S
    <3>1. /\ Append(s, x) \in Seq(S) /\ Len(Append(s, x)) = Len(s) + 1 /\ Append(s, x)[Len(s) + 1] = x
          /\ \A i \in 1..Len(s) : Append(s, x)[i] = s[i]
      <4>1. s \in Seq(S) /\ x \in S
        BY <2>1
      <4> QED BY <4>1, AppendProperties
    <3>2. Len(Append(s, x)) = 3 /\ Append(s, x)[1] = a /\ Append(s, x)[2] = b /\ Append(s, x)[3] = x
      BY <2>1, <3>1
    <3>3. <<a, b, x>>[1] = a /\ <<a, b, x>>[2] = b /\ <<a, b, x>>[3] = x
      OBVIOUS
    <3>4. \A i \in 1..3 : i = 1 \/ i = 2 \/ i = 3
      OBVIOUS
    <3> QED BY <3>1, <3>2, <3>3, <3>4
  <2>3. <<a, b, x>> \in Seq(S) /\ Len(<<a, b, x>>) = 3
    OBVIOUS
  <2> HIDE DEF S
  <2> QED BY <2>2, <2>3, SeqEqual
<1>2. Append(s, x) = <<s[1], s[2], x>>
  BY <1>1 DEF Two
<1> DEFINE t == Append(s, x)
<1>3. ASSUME NEW a, NEW b, t = <<a, b, x>>
      PROVE  t[1] = a /\ t[2] = b /\ t[3] = x
  BY <1>3
<1> QED BY <1>2, <1>3 DEF Three

(* A position of the engine between two rounds of Execute, but for the     *)
(* offset.  The third script is the redeem script of a script hash.        *)
Placed(v) ==
  /\ IsEngine(v) /\ v.status = "run" /\ v.err = "none" /\ v.locked = {}
  /\ \/ Two(v.scripts) /\ v.scriptIdx \in {0, 1}
     \/ Three(v.scripts) /\ v.scriptIdx = 2 /\ v.bip16
  /\ \A i \in 1..Len(v.scripts) : IsSequence(v.scripts[i])
  /\ v.bip16 => isScriptHash(v.scripts[2])

(* What Step finds: an offset inside the script, and for the public key    *)
(* script of a script hash the stack that the signature script left, which *)
(* is not empty once the first opcode was executed.                        *)
Ready(v) ==
  /\ Placed(v)
  /\ v.scriptOff \in 0..(Len(v.scripts[v.scriptIdx + 1]) - 1)
  /\ v.bip16 /\ v.scriptIdx = 1 =>
       IF v.scriptOff = 0 THEN v.condStack = <<>> /\ v.dstack = v.savedFirstStack
                          ELSE v.savedFirstStack # <<>>

Good(v) ==
  /\ v.status \in {"run", "ok", "error"}
  /\ v.status = "run" => Ready(v)
  /\ v.status = "ok" => v.locked = {}

(* What the steps between scripts change.                                  *)
AtScript(w, v, n, saved) ==
  /\ IsEngine(w) /\ w.scriptIdx = n /\ w.scriptOff = v.scriptOff /\ w.scripts = v.scripts
  /\ w.dstack = v.dstack /\ w.condStack = v.condStack
  /\ w.savedFirstStack = saved /\ w.bip16 = v.bip16
  /\ w.locked = v.locked /\ w.err = v.err /\ w.status = v.status

WithScripts(w, v, s) ==
  /\ IsEngine(w) /\ w.scriptIdx = v.scriptIdx /\ w.scriptOff = v.scriptOff /\ w.scripts = s
  /\ w.bip16 = v.bip16
  /\ w.locked = v.locked /\ w.err = v.err /\ w.status = v.status

LEMMA FreshIs ==
  ASSUME NEW v, IsEngine(v)
  PROVE  LET w == [v EXCEPT !.astack = <<>>, !.numOps = 0, !.scriptOff = 0]
         IN /\ IsEngine(w) /\ w.scriptOff = 0 /\ w.scripts = v.scripts /\ w.scriptIdx = v.scriptIdx
            /\ w.dstack = v.dstack /\ w.condStack = v.condStack
            /\ w.savedFirstStack = v.savedFirstStack /\ w.bip16 = v.bip16
            /\ w.locked = v.locked /\ w.err = v.err /\ w.status = v.status
<1> DEFINE a == [v EXCEPT !.astack = <<>>]
           b == [a EXCEPT !.numOps = 0]
           c == [b EXCEPT !.scriptOff = 0]
<1>1. IsEngine(a) /\ a.dstack = v.dstack /\ Moved(a, v)
  BY DEF IsEngine, Moved, Frame
<1>2. [v EXCEPT !.astack = <<>>, !.numOps = 0, !.scriptOff = 0] = c
  BY DEF IsEngine
<1> HIDE DEF a
<1>3. IsEngine(b) /\ b.dstack = a.dstack /\ Moved(b, a)
  BY <1>1, OpsMove, MovedKept
<1> HIDE DEF b
<1>4. /\ IsEngine(c) /\ c.scriptOff = 0 /\ c.scripts = b.scripts /\ c.scriptIdx = b.scriptIdx
      /\ c.dstack = b.dstack /\ c.condStack = b.condStack
      /\ c.savedFirstStack = b.savedFirstStack /\ c.bip16 = b.bip16
      /\ c.locked = b.locked /\ c.err = b.err /\ c.status = b.status
  BY <1>3 DEF IsEngine
<1> HIDE DEF c
<1> QED BY <1>1, <1>2, <1>3, <1>4 DEF Moved, Frame

LEMMA IdxIs ==
  ASSUME NEW v, IsEngine(v), NEW n
  PROVE  AtScript([v EXCEPT !.scriptIdx = n], v, n, v.savedFirstStack)
  BY DEF IsEngine, AtScript

LEMMA SavedIs ==
  ASSUME NEW v, IsEngine(v), NEW n, NEW s
  PROVE  AtScript([v EXCEPT !.scriptIdx = n, !.savedFirstStack = s], v, n, s)
<1> DEFINE a == [v EXCEPT !.scriptIdx = n]
           c == [a EXCEPT !.savedFirstStack = s]
<1>1. [v EXCEPT !.scriptIdx = n, !.savedFirstStack = s] = c
  BY DEF IsEngine
<1>2. /\ IsEngine(a) /\ a.scriptIdx = n /\ a.scriptOff = v.scriptOff /\ a.scripts = v.scripts
      /\ a.dstack = v.dstack /\ a.condStack = v.condStack /\ a.bip16 = v.bip16
      /\ a.locked = v.locked /\ a.err = v.err /\ a.status = v.status
  BY DEF IsEngine
<1> HIDE DEF a
<1>3. /\ IsEngine(c) /\ c.scriptIdx = a.scriptIdx /\ c.scriptOff = a.scriptOff /\ c.scripts = a.scripts
      /\ c.dstack = a.dstack /\ c.condStack = a.condStack
      /\ c.savedFirstStack = s /\ c.bip16 = a.bip16
      /\ c.locked = a.locked /\ c.err = a.err /\ c.status = a.status
  BY <1>2 DEF IsEngine
<1> HIDE DEF c
<1> QED BY <1>1, <1>2, <1>3 DEF AtScript

LEMMA RedeemIs ==
  ASSUME NEW v, IsEngine(v), NEW s, NEW d
  PROVE  WithScripts([v EXCEPT !.scripts = s, !.dstack = d], v, s)
<1> DEFINE a == [v EXCEPT !.scripts = s]
           c == [a EXCEPT !.dstack = d]
<1>1. [v EXCEPT !.scripts = s, !.dstack = d] = c
  BY DEF IsEngine
<1>2. /\ IsEngine(a) /\ a.scriptIdx = v.scriptIdx /\ a.scriptOff = v.scriptOff /\ a.scripts = s
      /\ a.bip16 = v.bip16 /\ a.locked = v.locked /\ a.err = v.err /\ a.status = v.status
  BY DEF IsEngine
<1>3. c = WithStack(a, d)
  BY DEF WithStack
<1> HIDE DEF a, c
<1>4. Moved(c, a)
  BY <1>2, <1>3, StackMoves
<1> QED BY <1>1, <1>2, <1>4 DEF Moved, Frame, WithScripts

LEMMA ConcludedIs ==
  ASSUME NEW v, IsEngine(v), v.err = "none" => v.locked = {}
  PROVE  Good(Concluded(v))
<1>1. \A s : [v EXCEPT !.status = s].status = s /\ [v EXCEPT !.status = s].locked = v.locked
  BY DEF IsEngine
<1> QED BY <1>1 DEF Good, Concluded

LEMMA CheckKept ==
  ASSUME NEW v, IsEngine(v), NEW final
  PROVE  Kept(CheckErrorCondition(v, final), v)
  BY BasicKept DEF CheckErrorCondition

LEMMA FailedGood ==
  ASSUME NEW v, IsEngine(v), v.status = "run", v.err # "none"
  PROVE  Good(AfterStep(v))
  BY ConcludedIs DEF AfterStep

LEMMA DoneGood ==
  ASSUME NEW v, IsEngine(v), v.status = "run", v.err = "none", v.locked = {}, v.scriptIdx >= Len(v.scripts)
  PROVE  Good(AfterStep(v))
<1> DEFINE w == CheckErrorCondition(v, TRUE)
<1>1. IsEngine(w) /\ (w.err = "none" => w.locked = {})
  BY CheckKept DEF Kept, Handled, Frame
<1>2. AfterStep(v) = Concluded(w)
  BY DEF AfterStep
<1> HIDE DEF w
<1> QED BY <1>1, <1>2, ConcludedIs

LEMMA ReadyGood ==
  ASSUME NEW v, Ready(v), v.scriptIdx < Len(v.scripts)
  PROVE  Good(AfterStep(v))
<1>1. v.status = "run" /\ v.err = "none"
  BY DEF Ready, Placed
<1>2. v.scriptIdx \in {0, 1, 2} /\ Len(v.scripts) \in {2, 3}
  BY Lengths DEF Ready, Placed
<1>3. ~(v.scriptIdx >= Len(v.scripts))
  BY <1>2
<1>4. AfterStep(v) = v
  BY <1>1, <1>3 DEF AfterStep
<1> QED BY <1>1, <1>4 DEF Good

(* A script was entered, or the last one ended: an empty one is skipped.   *)
Entering(v) ==
  /\ IsEngine(v) /\ v.status = "run" /\ v.err = "none" /\ v.locked = {} /\ v.scriptOff = 0
  /\ \/ Two(v.scripts) /\ v.scriptIdx \in {1, 2}
     \/ Three(v.scripts) /\ v.scriptIdx \in {2, 3} /\ v.bip16
  /\ \A i \in 1..Len(v.scripts) : IsSequence(v.scripts[i])
  /\ v.bip16 => isScriptHash(v.scripts[2])
  /\ v.bip16 /\ v.scriptIdx = 1 => v.condStack = <<>> /\ v.dstack = v.savedFirstStack

LEMMA EnteredGood ==
  ASSUME NEW v, Entering(v)
  PROVE  Good(AfterStep(Entered(v)))
<1> DEFINE w == SkipEmptyScript(v)
           z == [w EXCEPT !.lastCodeSep = 0]
<1>1. Entered(v) = z
  BY DEF Entered, Entering
<1>2. \/ Two(v.scripts) /\ Len(v.scripts) = 2 /\ (v.scriptIdx = 1 \/ v.scriptIdx = 2)
      \/ Three(v.scripts) /\ Len(v.scripts) = 3 /\ (v.scriptIdx = 2 \/ v.scriptIdx = 3) /\ v.bip16
  BY Lengths DEF Entering
<1>3. \A i \in 1..Len(v.scripts) : Len(v.scripts[i]) \in Nat
  BY DEF Entering, IsSequence
<1>4. ASSUME v.scriptIdx < Len(v.scripts), v.scriptOff >= Len(v.scripts[v.scriptIdx + 1])
      PROVE  Good(AfterStep(z))
  <2>1. w = [v EXCEPT !.scriptIdx = v.scriptIdx + 1]
    BY <1>4 DEF SkipEmptyScript
  <2> DEFINE n == v.scriptIdx + 1
  <2>2. /\ IsEngine(w) /\ w.scriptIdx = n /\ w.scripts = v.scripts /\ w.locked = v.locked
        /\ w.err = v.err /\ w.status = v.status
    <3>1. IsEngine(v)
      BY DEF Entering
    <3>2. AtScript([v EXCEPT !.scriptIdx = n], v, n, v.savedFirstStack)
      BY <3>1, IdxIs
    <3> HIDE DEF w, n
    <3> QED BY <2>1, <3>2 DEF AtScript, n
  <2>3. n >= Len(v.scripts)
    <3>1. CASE Len(v.scripts) = 2
      BY <1>2, <1>4, <3>1
    <3>2. CASE Len(v.scripts) = 3
      BY <1>2, <1>4, <3>2
    <3> QED BY <1>2, <3>1, <3>2
  <2> HIDE DEF w, n
  <2>4. Moved(z, w)
    BY <2>2, SepMoves
  <2> HIDE DEF z
  <2>5. /\ IsEngine(z) /\ z.scriptIdx = n /\ z.scripts = v.scripts /\ z.locked = {}
        /\ z.err = "none" /\ z.status = "run"
    BY <2>2, <2>4 DEF Moved, Frame, Entering
  <2> QED BY <2>3, <2>5, DoneGood
<1>5. ASSUME ~(v.scriptIdx < Len(v.scripts) /\ v.scriptOff >= Len(v.scripts[v.scriptIdx + 1]))
      PROVE  Good(AfterStep(z))
  <2>1. w = v
    BY <1>5 DEF SkipEmptyScript
  <2>2. IsEngine(v)
    BY DEF Entering
  <2>3. Moved(z, v) /\ z.dstack = v.dstack
    BY <2>1, <2>2 DEF Moved, Frame, IsEngine
  <2> HIDE DEF w, z
  <2>4. /\ IsEngine(z) /\ z.scriptIdx = v.scriptIdx /\ z.scripts = v.scripts /\ z.locked = {}
        /\ z.err = "none" /\ z.status = "run" /\ z.scriptOff = 0 /\ z.bip16 = v.bip16
        /\ z.savedFirstStack = v.savedFirstStack /\ z.condStack = v.condStack
    BY <2>3 DEF Moved, Frame, Entering
  <2>5. CASE v.scriptIdx >= Len(v.scripts)
    BY <2>4, <2>5, DoneGood
  <2>6. CASE v.scriptIdx < Len(v.scripts)
    <3>1. v.scriptIdx + 1 \in 1..Len(v.scripts)
      BY <1>2, <2>6
    <3>2. z.scriptOff \in 0..(Len(z.scripts[z.scriptIdx + 1]) - 1)
      BY <1>3, <1>5, <2>4, <2>6, <3>1 DEF Entering
    <3>3. \/ Two(z.scripts) /\ z.scriptIdx \in {0, 1}
          \/ Three(z.scripts) /\ z.scriptIdx = 2 /\ z.bip16
      BY <1>2, <2>4, <2>6 DEF Entering
    <3>4. Placed(z)
      BY <2>4, <3>3 DEF Placed, Entering
    <3>5. Ready(z)
      BY <2>3, <2>4, <3>2, <3>4 DEF Ready, Entering
    <3> QED BY <2>4, <2>6, <3>5, ReadyGood
  <2> QED BY <1>2, <2>5, <2>6
<1> QED BY <1>1, <1>4, <1>5

LEMMA ParsedIsSequence ==
  ASSUME NEW x
  PROVE  IsSequence(parseScript(x))
<1>1. IsSequence(<<>>)
  BY DEF IsSequence
<1>2. Serialized(x) => IsSequence(RedeemScripts[x[2]])
  BY ScriptAssumption DEF Serialized
<1> QED BY <1>1, <1>2 DEF parseScript

(* An engine that failed on the way to the redeem script.                  *)
LEMMA EnteredFailed ==
  ASSUME NEW v, IsEngine(v), v.status = "run", v.err # "none"
  PROVE  Good(AfterStep(Entered(v)))
  BY FailedGood DEF Entered

LEMMA RedeemGood ==
  ASSUME NEW v, Placed(v), v.bip16, v.scriptIdx = 1, v.scriptOff = 0, v.savedFirstStack # <<>>
  PROVE  Good(AfterStep(Entered(EnterRedeemScript(v))))
<1> DEFINE g == [v EXCEPT !.scriptIdx = 2]
           c == CheckErrorCondition(g, FALSE)
           saved == v.savedFirstStack
           r == WithRedeemScript(c, saved)
<1>1. IsEngine(v) /\ v.status = "run" /\ v.err = "none" /\ v.locked = {}
  BY DEF Placed
<1>2. /\ IsEngine(g) /\ g.scriptIdx = 2 /\ g.scriptOff = v.scriptOff /\ g.scripts = v.scripts
      /\ g.bip16 = v.bip16 /\ g.locked = v.locked /\ g.err = v.err /\ g.status = v.status
  <2>1. AtScript(g, v, 2, v.savedFirstStack)
    BY <1>1, IdxIs
  <2> HIDE DEF g
  <2> QED BY <2>1 DEF AtScript
<1>3. EnterRedeemScript(v) = r
  <2>1. [v EXCEPT !.scriptIdx = @ + 1] = g
    OBVIOUS
  <2> HIDE DEF g
  <2> QED BY <2>1 DEF EnterRedeemScript
<1> HIDE DEF g
<1>4. Kept(c, g)
  BY <1>2, CheckKept
<1> HIDE DEF c
<1>5. /\ IsEngine(c) /\ c.scriptIdx = 2 /\ c.scriptOff = 0 /\ c.scripts = v.scripts /\ c.bip16 = v.bip16
      /\ c.status = "run" /\ (c.err = "none" => c.locked = {})
  BY <1>1, <1>2, <1>4 DEF Kept, Handled, Frame
<1>6. CASE c.err # "none"
  <2>1. r = c
    BY <1>6 DEF WithRedeemScript
  <2> QED BY <1>3, <1>5, <1>6, <2>1, EnteredFailed
<1>7. CASE c.err = "none" /\ ParseError(Last(saved))
  <2> DEFINE e == Fail(c, "ErrMalformedPush")
  <2>1. r = e
    BY <1>7 DEF WithRedeemScript
  <2>2. IsEngine(e) /\ e.status = "run" /\ e.err # "none"
    BY <1>5, FailKeeps DEF Kept, Handled, Frame
  <2> HIDE DEF e, r
  <2> QED BY <1>3, <2>1, <2>2, EnteredFailed
<1>8. CASE c.err = "none" /\ ~ParseError(Last(saved))
  <2> DEFINE x == parseScript(Last(saved))
             s == Append(c.scripts, x)
             d == Front(saved)
             e == [c EXCEPT !.scripts = s, !.dstack = d]
  <2>1. r = e
    BY <1>8 DEF WithRedeemScript
  <2>2. IsSequence(x)
    BY ParsedIsSequence
  <2>3. Two(v.scripts) /\ Len(v.scripts) = 2 /\ (\A i \in 1..2 : IsSequence(v.scripts[i]))
        /\ isScriptHash(v.scripts[2])
    <3>1. Two(v.scripts)
      BY DEF Placed
    <3> QED BY <3>1, Lengths DEF Placed
  <2> HIDE DEF x, d, saved, r
  <2>4. Three(s) /\ s[1] = v.scripts[1] /\ s[2] = v.scripts[2] /\ s[3] = x
    BY <1>5, <2>3, AppendsThird
  <2> HIDE DEF s
  <2>5. Len(s) = 3
    BY <2>4, Lengths
  <2>6. \A i \in 1..Len(s) : IsSequence(s[i])
    <3>1. IsSequence(s[1]) /\ IsSequence(s[2]) /\ IsSequence(s[3])
      BY <2>2, <2>3, <2>4
    <3>2. \A i \in 1..Len(s) : i = 1 \/ i = 2 \/ i = 3
      BY <2>5
    <3> QED BY <3>1, <3>2
  <2>7. /\ IsEngine(e) /\ e.scriptIdx = c.scriptIdx /\ e.scriptOff = c.scriptOff /\ e.scripts = s
        /\ e.bip16 = c.bip16 /\ e.locked = c.locked /\ e.err = c.err /\ e.status = c.status
    <3>1. WithScripts(e, c, s)
      BY <1>5, RedeemIs
    <3> HIDE DEF e
    <3> QED BY <3>1 DEF WithScripts
  <2> HIDE DEF e
  <2>8. /\ e.scriptIdx = 2 /\ e.scriptOff = 0 /\ e.bip16 /\ e.locked = {} /\ e.err = "none" /\ e.status = "run"
    BY <1>5, <1>8, <2>7
  <2>9. Entering(e)
    BY <2>3, <2>4, <2>6, <2>7, <2>8 DEF Entering
  <2> QED BY <1>3, <2>1, <2>9, EnteredGood
<1> QED BY <1>6, <1>7, <1>8

LEMMA NextGood ==
  ASSUME NEW v, Placed(v), v.bip16 /\ v.scriptIdx = 1 => v.savedFirstStack # <<>>
  PROVE  Good(AfterStep(NextScript(v)))
<1> DEFINE f == [v EXCEPT !.astack = <<>>, !.numOps = 0, !.scriptOff = 0]
<1>1. IsEngine(v) /\ v.status = "run" /\ v.err = "none" /\ v.locked = {}
  BY DEF Placed
<1>2. /\ IsEngine(f) /\ f.scriptOff = 0 /\ f.scripts = v.scripts /\ f.scriptIdx = v.scriptIdx
      /\ f.dstack = v.dstack /\ f.condStack = v.condStack
      /\ f.savedFirstStack = v.savedFirstStack /\ f.bip16 = v.bip16
      /\ f.locked = v.locked /\ f.err = v.err /\ f.status = v.status
  BY <1>1, FreshIs
<1>3. NextScript(v) =
        IF v.condStack # <<>> THEN Fail(v, "ErrUnbalancedConditional")
        ELSE IF v.scriptIdx = 0 /\ v.bip16 THEN Entered([f EXCEPT !.scriptIdx = 1, !.savedFirstStack = v.dstack])
        ELSE IF v.scriptIdx = 1 /\ v.bip16 THEN Entered(EnterRedeemScript(f))
        ELSE Entered([f EXCEPT !.scriptIdx = f.scriptIdx + 1])
  BY DEF NextScript
<1> HIDE DEF f
<1>4. CASE v.condStack # <<>>
  <2> DEFINE e == Fail(v, "ErrUnbalancedConditional")
  <2>1. IsEngine(e) /\ e.status = "run" /\ e.err # "none"
    BY <1>1, FailKeeps DEF Kept, Handled, Frame
  <2>2. NextScript(v) = e
    BY <1>3, <1>4
  <2> HIDE DEF e
  <2> QED BY <2>1, <2>2, FailedGood
<1>5. CASE v.condStack = <<>> /\ v.scriptIdx = 0 /\ v.bip16
  <2> DEFINE d == v.dstack
             u == [f EXCEPT !.scriptIdx = 1, !.savedFirstStack = d]
  <2>1. NextScript(v) = Entered(u)
    BY <1>3, <1>5
  <2> HIDE DEF d
  <2>2. /\ IsEngine(u) /\ u.scriptIdx = 1 /\ u.scriptOff = f.scriptOff /\ u.scripts = f.scripts
        /\ u.dstack = f.dstack /\ u.condStack = f.condStack
        /\ u.savedFirstStack = d /\ u.bip16 = f.bip16
        /\ u.locked = f.locked /\ u.err = f.err /\ u.status = f.status
    <3>1. AtScript(u, f, 1, d)
      BY <1>2, SavedIs
    <3> HIDE DEF u
    <3> QED BY <3>1 DEF AtScript
  <2> HIDE DEF u
  <2>3. Two(v.scripts)
    BY <1>5 DEF Placed
  <2>4. /\ u.scriptOff = 0 /\ u.scripts = v.scripts /\ u.dstack = u.savedFirstStack /\ u.condStack = <<>>
        /\ u.locked = {} /\ u.err = "none" /\ u.status = "run"
    BY <1>1, <1>2, <1>5, <2>2 DEF d
  <2>5. Entering(u)
    BY <1>2, <2>2, <2>3, <2>4 DEF Entering, Placed
  <2> QED BY <2>1, <2>5, EnteredGood
<1>6. CASE v.condStack = <<>> /\ v.scriptIdx = 1 /\ v.bip16
  <2>1. Placed(f)
    BY <1>2, <1>6 DEF Placed
  <2>2. f.bip16 /\ f.scriptIdx = 1 /\ f.scriptOff = 0 /\ f.savedFirstStack # <<>>
    BY <1>2, <1>6
  <2>3. NextScript(v) = Entered(EnterRedeemScript(f))
    BY <1>3, <1>6
  <2> QED BY <2>1, <2>2, <2>3, RedeemGood
<1>7. CASE v.condStack = <<>> /\ ~(v.scriptIdx = 0 /\ v.bip16) /\ ~(v.scriptIdx = 1 /\ v.bip16)
  <2> DEFINE n == f.scriptIdx + 1
             u == [f EXCEPT !.scriptIdx = n]
  <2>1. NextScript(v) = Entered(u)
    BY <1>3, <1>7
  <2>2. \/ Two(v.scripts) /\ (n = 1 \/ n = 2) /\ ~v.bip16
        \/ Three(v.scripts) /\ n = 3 /\ v.bip16
    BY <1>2, <1>7 DEF Placed
  <2> HIDE DEF n
  <2>3. /\ IsEngine(u) /\ u.scriptIdx = n /\ u.scriptOff = f.scriptOff /\ u.scripts = f.scripts
        /\ u.bip16 = f.bip16 /\ u.locked = f.locked /\ u.err = f.err /\ u.status = f.status
    <3>1. AtScript(u, f, n, f.savedFirstStack)
      BY <1>2, IdxIs
    <3> HIDE DEF u
    <3> QED BY <3>1 DEF AtScript
  <2> HIDE DEF u
  <2>4. /\ u.scriptOff = 0 /\ u.scripts = v.scripts /\ u.bip16 = v.bip16
        /\ u.locked = {} /\ u.err = "none" /\ u.status = "run"
    BY <1>1, <1>2, <2>3
  <2>5. Entering(u)
    <3>1. CASE Two(v.scripts) /\ (n = 1 \/ n = 2) /\ ~v.bip16
      BY <2>3, <2>4, <3>1 DEF Entering, Placed
    <3>2. CASE Three(v.scripts) /\ n = 3 /\ v.bip16
      BY <2>3, <2>4, <3>2 DEF Entering, Placed
    <3> QED BY <2>2, <3>1, <3>2
  <2> QED BY <2>1, <2>5, EnteredGood
<1> QED BY <1>4, <1>5, <1>6, <1>7

-----------------------------------------------------------------------------
(* A round of Execute.                                                     *)

(* The hash of the script of a script hash output needs a stack.           *)
LEMMA HashNeedsStack ==
  ASSUME NEW v, IsEngine(v), v.condStack = <<>>, v.dstack = <<>>, NEW pop, pop.op = "OP_HASH160"
  PROVE  executeOpcode(pop, v).err # "none"
<1> DEFINE n == v.numOps + 1
           counted == [v EXCEPT !.numOps = n]
<1>1. pop.op \notin PushOps /\ pop.op \notin Disabled /\ pop.op \notin AlwaysIllegal
  BY DEF PushOps, Disabled, AlwaysIllegal
<1>2. isBranchExecuting(v)
  BY DEF isBranchExecuting
<1>3. executeOpcode(pop, v) =
        IF counted.numOps > MaxOps THEN Fail(v, "ErrTooManyOperations") ELSE opfunc(pop, counted)
  <2>1. counted = IF pop.op \in PushOps THEN v ELSE [v EXCEPT !.numOps = @ + 1]
    BY <1>1
  <2> HIDE DEF counted
  <2> QED BY <1>1, <1>2, <2>1 DEF executeOpcode
<1>4. IsEngine(counted) /\ counted.dstack = <<>>
  BY OpsMove, MovedKept
<1> HIDE DEF counted
<1>5. opfunc(pop, counted) = Hash("OP_HASH160", counted)
  BY DEF opfunc, PushOps, StackOps, UnaryOps, ArithmeticOps, ComparisonOps, MinMaxOps, HashTags
<1>6. Depth(counted) = 0
  BY <1>4 DEF Depth
<1>7. Hash("OP_HASH160", counted) = PopFails(counted, "d")
  BY <1>6 DEF Hash
<1>8. PopFails(counted, "d").err # "none"
  BY <1>4, PopFailsKeeps
<1>9. Fail(v, "ErrTooManyOperations").err # "none"
  BY FailKeeps
<1> QED BY <1>3, <1>5, <1>7, <1>8, <1>9

LEMMA OffMoves ==
  ASSUME NEW v, IsEngine(v), NEW n
  PROVE  LET w == [v EXCEPT !.scriptOff = n]
         IN /\ IsEngine(w) /\ w.scriptOff = n /\ w.scripts = v.scripts /\ w.scriptIdx = v.scriptIdx
            /\ w.dstack = v.dstack /\ w.condStack = v.condStack
            /\ w.savedFirstStack = v.savedFirstStack /\ w.bip16 = v.bip16
            /\ w.locked = v.locked /\ w.err = v.err /\ w.status = v.status
  BY DEF IsEngine

(* The opcode of a round and the engine after it.                          *)
Opcode(v) == v.scripts[v.scriptIdx + 1][v.scriptOff + 1]
Advanced(v) == [v EXCEPT !.scriptOff = v.scriptOff + 1]
Executed(v) == executeOpcode(Opcode(v), Advanced(v))

Stepped(e, v) ==
  /\ IsEngine(e) /\ e.scripts = v.scripts /\ e.scriptIdx = v.scriptIdx /\ e.scriptOff = v.scriptOff + 1
  /\ e.status = "run"
  /\ e.err = "none" => Placed(e) /\ (e.bip16 /\ e.scriptIdx = 1 => e.savedFirstStack # <<>>)

LEMMA PlaceFacts ==
  ASSUME NEW v, Ready(v)
  PROVE  /\ ~(v.scriptIdx >= Len(v.scripts)) /\ v.scriptIdx < Len(v.scripts)
         /\ Len(v.scripts[v.scriptIdx + 1]) \in Nat
         /\ v.scriptOff \in 0..(Len(v.scripts[v.scriptIdx + 1]) - 1)
<1>1. Placed(v)
  BY DEF Ready
<1>2. ~(v.scriptIdx >= Len(v.scripts)) /\ v.scriptIdx < Len(v.scripts) /\ v.scriptIdx + 1 \in 1..Len(v.scripts)
  <2>1. \/ Len(v.scripts) = 2 /\ (v.scriptIdx = 0 \/ v.scriptIdx = 1)
        \/ Len(v.scripts) = 3 /\ v.scriptIdx = 2
    BY <1>1, Lengths DEF Placed
  <2>2. CASE Len(v.scripts) = 2 /\ (v.scriptIdx = 0 \/ v.scriptIdx = 1)
    BY <2>2
  <2>3. CASE Len(v.scripts) = 3 /\ v.scriptIdx = 2
    BY <2>3
  <2> QED BY <2>1, <2>2, <2>3
<1>3. Len(v.scripts[v.scriptIdx + 1]) \in Nat
  <2> DEFINE script == v.scripts[v.scriptIdx + 1]
  <2>1. IsSequence(script)
    BY <1>1, <1>2 DEF Placed
  <2> HIDE DEF script
  <2>2. Len(script) \in Nat
    BY <2>1 DEF IsSequence
  <2> QED BY <2>2 DEF script
<1> QED BY <1>2, <1>3 DEF Ready

LEMMA OpcodeDone ==
  ASSUME NEW v, Ready(v)
  PROVE  /\ Step(v) = AfterOpcode(Executed(v), v.scripts[v.scriptIdx + 1])
         /\ Stepped(Executed(v), v)
<1> DEFINE script == v.scripts[v.scriptIdx + 1]
           n == v.scriptOff + 1
           u == Advanced(v)
           e == Executed(v)
<1>1. Placed(v) /\ IsEngine(v) /\ v.status = "run" /\ v.err = "none" /\ v.locked = {}
  BY DEF Ready, Placed
<1>2. /\ IsEngine(u) /\ u.scriptOff = n /\ u.scripts = v.scripts /\ u.scriptIdx = v.scriptIdx
      /\ u.dstack = v.dstack /\ u.condStack = v.condStack
      /\ u.savedFirstStack = v.savedFirstStack /\ u.bip16 = v.bip16
      /\ u.locked = v.locked /\ u.err = v.err /\ u.status = v.status
  BY <1>1, OffMoves DEF Advanced
<1>3. Step(v) = AfterOpcode(e, script)
  <2>1. ~(v.scriptOff >= Len(script)) /\ ~(v.scriptIdx >= Len(v.scripts))
    BY PlaceFacts
  <2>2. [v EXCEPT !.scriptOff = @ + 1] = u
    BY DEF Advanced
  <2> HIDE DEF u
  <2>3. e = executeOpcode(script[n], u)
    BY DEF Executed, Opcode, u
  <2> QED BY <2>1, <2>2, <2>3 DEF Step
<1> HIDE DEF u
<1>4. Handled(e, u)
  BY <1>2, ExecuteHandled DEF Executed, u
<1>5. v.bip16 /\ v.scriptIdx = 1 /\ e.err = "none" => v.savedFirstStack # <<>>
  <2> SUFFICES ASSUME v.bip16, v.scriptIdx = 1, v.savedFirstStack = <<>>
               PROVE  e.err # "none"
    OBVIOUS
  <2>1. v.scriptOff = 0 /\ v.condStack = <<>> /\ v.dstack = <<>>
    BY DEF Ready
  <2>2. isScriptHash(v.scripts[2])
    BY <1>1 DEF Placed
  <2>3. Opcode(v).op = "OP_HASH160"
    BY <2>1, <2>2 DEF isScriptHash, Opcode
  <2> QED BY <1>2, <2>1, <2>3, HashNeedsStack DEF Executed, u
<1> HIDE DEF e
<1>6. /\ IsEngine(e) /\ e.scripts = v.scripts /\ e.scriptIdx = v.scriptIdx /\ e.scriptOff = n
      /\ e.bip16 = v.bip16 /\ e.savedFirstStack = v.savedFirstStack /\ e.status = "run"
      /\ (e.err = "none" => e.locked = {})
  BY <1>1, <1>2, <1>4 DEF Handled, Frame
<1>7. e.err = "none" => Placed(e)
  BY <1>1, <1>6 DEF Placed
<1>8. Stepped(e, v)
  BY <1>5, <1>6, <1>7 DEF Stepped
<1> QED BY <1>3, <1>8 DEF e

LEMMA ExecuteGood ==
  ASSUME NEW v, Ready(v)
  PROVE  Good(Execute(v))
<1> DEFINE script == v.scripts[v.scriptIdx + 1]
           e == Executed(v)
<1>1. Step(v) = AfterOpcode(e, script) /\ Stepped(e, v)
  BY OpcodeDone
<1>2. /\ v.scriptIdx < Len(v.scripts) /\ Len(script) \in Nat
      /\ v.scriptOff \in 0..(Len(script) - 1)
  BY PlaceFacts
<1> HIDE DEF e
<1>3. CASE e.err # "none"
  BY <1>1, <1>3, FailedGood DEF AfterOpcode, Execute, Stepped
<1>4. CASE e.err = "none" /\ Len(e.dstack) + Len(e.astack) > MaxStackSize
  <2> DEFINE z == Fail(e, "ErrStackOverflow")
  <2>1. Step(v) = z
    BY <1>1, <1>4 DEF AfterOpcode
  <2>2. IsEngine(z) /\ z.status = "run" /\ z.err # "none"
    BY <1>1, FailKeeps DEF Kept, Handled, Frame, Stepped
  <2> HIDE DEF z
  <2> QED BY <2>1, <2>2, FailedGood DEF Execute
<1>5. CASE e.err = "none" /\ ~(Len(e.dstack) + Len(e.astack) > MaxStackSize)
  <2>1. Placed(e) /\ (e.bip16 /\ e.scriptIdx = 1 => e.savedFirstStack # <<>>)
    BY <1>1, <1>5 DEF Stepped
  <2>2. CASE e.scriptOff < Len(script)
    <3>1. Step(v) = e
      BY <1>1, <1>5, <2>2 DEF AfterOpcode
    <3>2. e.scriptOff \in 0..(Len(e.scripts[e.scriptIdx + 1]) - 1) /\ e.scriptOff # 0
      <4> DEFINE n == v.scriptOff + 1
      <4>1. e.scriptOff = n /\ e.scripts[e.scriptIdx + 1] = script
        BY <1>1 DEF Stepped
      <4>2. n \in 0..(Len(script) - 1) /\ n # 0
        BY <1>2, <2>2, <4>1
      <4> QED BY <4>1, <4>2
    <3>3. Ready(e)
      BY <2>1, <3>2 DEF Ready
    <3>4. e.scriptIdx < Len(e.scripts)
      BY <1>1, <1>2 DEF Stepped
    <3> QED BY <3>1, <3>3, <3>4, ReadyGood DEF Execute
  <2>3. CASE ~(e.scriptOff < Len(script))
    <3>1. Step(v) = NextScript(e)
      BY <1>1, <1>5, <2>3 DEF AfterOpcode
    <3> QED BY <2>1, <3>1, NextGood DEF Execute
  <2> QED BY <2>2, <2>3
<1> QED BY <1>3, <1>4, <1>5

-----------------------------------------------------------------------------
(* The theorem.                                                            *)

EngineInv == Good(vm) /\ Good(inner)

(* A new engine that was not refused is at the start of a script that is   *)
(* not empty.                                                              *)
LEMMA NewGood ==
  ASSUME NEW sigScript, NEW pkScript, IsSequence(sigScript), IsSequence(pkScript), NEW t, NEW flags
  PROVE  Good(NewEngine(sigScript, pkScript, t, flags))
<1> DEFINE scripts == <<sigScript, pkScript>>
           idx == IF sigScript = <<>> THEN 1 ELSE 0
           p2sh == "Bip16" \in flags /\ isScriptHash(pkScript)
           v == [scripts |-> scripts, scriptIdx |-> idx,
                 scriptOff |-> 0, lastCodeSep |-> 0, dstack |-> <<>>, astack |-> <<>>, tx |-> t,
                 condStack |-> <<>>, numOps |-> 0, flags |-> flags,
                 bip16 |-> p2sh, savedFirstStack |-> <<>>,
                 locked |-> {}, err |-> "none", status |-> "run"]
           refused == [v EXCEPT !.status = "error"]
           e == NewEngine(sigScript, pkScript, t, flags)
<1>1. /\ e = v \/ \E code : e = Fail(refused, code)
      /\ sigScript = <<>> /\ pkScript = <<>> => \E code : e = Fail(refused, code)
  BY DEF NewEngine
<1>2. \A code : Fail(refused, code).status = "error"
  BY DEF Fail
<1>3. /\ v.scripts = scripts /\ v.scriptIdx = idx /\ v.scriptOff = 0 /\ v.dstack = <<>> /\ v.condStack = <<>>
      /\ v.bip16 = p2sh /\ v.savedFirstStack = <<>> /\ v.locked = {} /\ v.err = "none" /\ v.status = "run"
  OBVIOUS
<1>4. IsEngine(v)
  BY DEF IsEngine
<1>5. ASSUME ~(sigScript = <<>> /\ pkScript = <<>>)
      PROVE  Ready(v)
  <2>1. Two(scripts) /\ Len(scripts) = 2 /\ scripts[1] = sigScript /\ scripts[2] = pkScript
    BY DEF Two
  <2>2. \A i \in 1..Len(scripts) : IsSequence(scripts[i])
    <3>1. \A i \in 1..2 : i = 1 \/ i = 2
      OBVIOUS
    <3> QED BY <2>1, <3>1
  <2>3. \A s : IsSequence(s) /\ s # <<>> => 0 \in 0..(Len(s) - 1)
    BY DEF IsSequence
  <2>4. 0 \in 0..(Len(scripts[idx + 1]) - 1)
    <3>1. CASE sigScript = <<>>
      BY <1>5, <2>1, <2>3, <3>1
    <3>2. CASE sigScript # <<>>
      BY <2>1, <2>3, <3>2
    <3> QED BY <3>1, <3>2
  <2>5. idx \in {0, 1}
    OBVIOUS
  <2>6. p2sh => isScriptHash(scripts[2])
    BY <2>1
  <2> HIDE DEF v, scripts, idx, p2sh
  <2>7. Placed(v)
    BY <1>3, <1>4, <2>1, <2>2, <2>5, <2>6 DEF Placed
  <2> QED BY <1>3, <2>4, <2>7 DEF Ready
<1> HIDE DEF v, refused, e
<1>6. CASE e = v /\ ~(sigScript = <<>> /\ pkScript = <<>>)
  BY <1>3, <1>5, <1>6 DEF Good, e
<1>7. CASE \E code : e = Fail(refused, code)
  BY <1>2, <1>7 DEF Good, e
<1> QED BY <1>1, <1>6, <1>7

LEMMA InnerGood ==
  ASSUME NEW v, IsEngine(v), IsSequence(v.scripts[1])
  PROVE  Good(InnerEngine(v))
<1> DEFINE s == v.scripts[1]
           front == Front(s)
           redeem == parseScript(Last(s).data)
           flags == (v.flags \ {"Bip16"}) \cup {"Witness"}
<1>1. \A x, y, t, f : IsSequence(x) /\ IsSequence(y) => Good(NewEngine(x, y, t, f))
  BY NewGood
<1>2. IsSequence(redeem)
  BY ParsedIsSequence
<1>3. s # <<>> => IsSequence(front)
  <2> SUFFICES ASSUME s # <<>> PROVE IsSequence(front)
    OBVIOUS
  <2> HIDE DEF s
  <2>1. s \in Seq(ToSet(s)) /\ Len(s) \in Nat /\ Len(s) # 0
    BY DEF IsSequence, s
  <2>2. front \in Seq(ToSet(s))
    BY <2>1 DEF Front
  <2> HIDE DEF front
  <2>3. \A i \in 1..Len(front) : front[i] \in ToSet(front)
    BY <2>2 DEF ToSet
  <2>4. front \in Seq(ToSet(front))
    BY <2>2, <2>3
  <2> QED BY <2>4 DEF IsSequence
<1>4. [v EXCEPT !.status = "error"].status = "error"
  BY DEF IsEngine
<1>5. Good([v EXCEPT !.status = "error"])
  BY <1>4 DEF Good
<1> HIDE DEF front, redeem
<1>6. s # <<>> => Good(NewEngine(front, redeem, v.tx, flags))
  BY <1>1, <1>2, <1>3
<1> QED BY <1>5, <1>6 DEF InnerEngine, front, redeem

LEMMA NewIsEngine ==
  ASSUME NEW sigScript, NEW pkScript, NEW t, NEW flags
  PROVE  LET e == NewEngine(sigScript, pkScript, t, flags)
         IN IsEngine(e) /\ e.scripts[1] = sigScript /\ e.scriptOff = 0 /\ e.condStack = <<>>
<1> DEFINE v == [scripts |-> <<sigScript, pkScript>>, scriptIdx |-> IF sigScript = <<>> THEN 1 ELSE 0,
                 scriptOff |-> 0, lastCodeSep |-> 0, dstack |-> <<>>, astack |-> <<>>, tx |-> t,
                 condStack |-> <<>>, numOps |-> 0, flags |-> flags,
                 bip16 |-> "Bip16" \in flags /\ isScriptHash(pkScript), savedFirstStack |-> <<>>,
                 locked |-> {}, err |-> "none", status |-> "run"]
           refused == [v EXCEPT !.status = "error"]
           e == NewEngine(sigScript, pkScript, t, flags)
<1>1. e = v \/ \E code : e = Fail(refused, code)
  BY DEF NewEngine
<1>2. IsEngine(v) /\ v.scripts[1] = sigScript /\ v.scriptOff = 0 /\ v.condStack = <<>>
  BY DEF IsEngine
<1> HIDE DEF v
<1>3. IsEngine(refused) /\ refused.scripts = v.scripts /\ refused.scriptOff = v.scriptOff
      /\ refused.condStack = v.condStack
  BY <1>2 DEF IsEngine
<1> HIDE DEF refused, e
<1>4. \A code : /\ IsEngine(Fail(refused, code)) /\ Fail(refused, code).scripts = v.scripts
                /\ Fail(refused, code).scriptOff = v.scriptOff /\ Fail(refused, code).condStack = v.condStack
  BY <1>3, FailKeeps DEF Kept, Handled, Frame
<1> QED BY <1>1, <1>2, <1>4 DEF e

LEMMA InitGood == Init => EngineInv
<1> SUFFICES ASSUME Init PROVE EngineInv
  OBVIOUS
<1>1. PICK i \in DOMAIN Spends : \E s \in Spends[i] :
        vm = NewEngine(s.sigScript, s.pkScript, s.tx, s.flags) /\ inner = InnerEngine(vm)
  BY DEF Init
<1>2. PICK s \in Spends[i] : vm = NewEngine(s.sigScript, s.pkScript, s.tx, s.flags) /\ inner = InnerEngine(vm)
  BY <1>1
<1>3. IsSequence(s.sigScript) /\ IsSequence(s.pkScript)
  BY ScriptAssumption
<1>4. Good(vm)
  BY <1>2, <1>3, NewGood
<1>5. IsEngine(vm) /\ vm.scripts[1] = s.sigScript
  BY <1>2, NewIsEngine
<1> QED BY <1>2, <1>3, <1>4, <1>5, InnerGood DEF EngineInv

LEMMA EngineInvKept ==
  ASSUME EngineInv, [Next]_vars
  PROVE  EngineInv'
<1>1. CASE Run
  <2>1. Ready(vm) /\ vm' = Execute(vm) /\ inner' = inner
    BY <1>1 DEF Run, EngineInv, Good
  <2>2. Good(Execute(vm))
    BY <2>1, ExecuteGood
  <2> QED BY <2>1, <2>2 DEF EngineInv
<1>2. CASE RunInner
  <2>1. Ready(inner) /\ inner' = Execute(inner) /\ vm' = vm
    BY <1>2 DEF RunInner, EngineInv, Good
  <2>2. Good(Execute(inner))
    BY <2>1, ExecuteGood
  <2> QED BY <2>1, <2>2 DEF EngineInv
<1>3. CASE UNCHANGED vars
  BY <1>3 DEF vars, EngineInv
<1> QED BY <1>1, <1>2, <1>3 DEF Next

(* No round of Execute reads past the end of a script or pops from an      *)
(* empty saved stack, and an engine that goes on, or that accepted, has    *)
(* no stack whose mutex a failed nipN left locked: for every script,       *)
(* transaction and set of flags, and for all limits.                       *)
THEOREM EngineNeverStops == Spec => []EngineNeverStuck
<1>1. EngineInv /\ [Next]_vars => EngineInv'
  BY EngineInvKept
<1>2. ASSUME NEW v, Good(v)
      PROVE  v.status # "panic" /\ (v.status # "error" => v.locked = {})
  BY <1>2 DEF Good, Ready, Placed
<1>3. EngineInv => EngineNeverStuck
  BY <1>2 DEF EngineInv, EngineNeverStuck
<1> QED BY InitGood, <1>1, <1>3, PTL DEF Spec

-----------------------------------------------------------------------------
(* The block structure of a script.                                        *)

Counted(script, ops, i) == {k \in 1..i : script[k].op \in ops}

LEMMA CountStep ==
  ASSUME NEW script, NEW ops, NEW i \in Nat
  PROVE  /\ Cardinality(Counted(script, ops, i)) \in Nat
         /\ Cardinality(Counted(script, ops, i + 1)) =
              Cardinality(Counted(script, ops, i)) + (IF script[i + 1].op \in ops THEN 1 ELSE 0)
<1> DEFINE A == Counted(script, ops, i)
           B == Counted(script, ops, i + 1)
<1>1. IsFiniteSet(A)
  <2>1. IsFiniteSet(1..i)
    BY FS_Interval
  <2> QED BY <2>1, FS_Subset DEF Counted
<1>2. Cardinality(A) \in Nat
  BY <1>1, FS_CardinalityType
<1>3. CASE script[i + 1].op \in ops
  <2>1. B = A \cup {i + 1} /\ i + 1 \notin A
    BY <1>3 DEF Counted
  <2>2. Cardinality(A \cup {i + 1}) = Cardinality(A) + 1
    BY <1>1, <2>1, FS_AddElement
  <2> QED BY <1>2, <1>3, <2>1, <2>2
<1>4. CASE script[i + 1].op \notin ops
  <2>1. B = A
    BY <1>4 DEF Counted
  <2> QED BY <1>2, <1>4, <2>1
<1> QED BY <1>3, <1>4

Opening == {"OP_IF", "OP_NOTIF"}

LEMMA LevelStep ==
  ASSUME NEW script, NEW i \in Nat
  PROVE  /\ Level(script, i) \in Int
         /\ script[i + 1].op \in Opening => Level(script, i + 1) = Level(script, i) + 1
         /\ script[i + 1].op = "OP_ENDIF" => Level(script, i + 1) = Level(script, i) - 1
         /\ script[i + 1].op \notin Opening \cup {"OP_ENDIF"} => Level(script, i + 1) = Level(script, i)
<1> DEFINE a(n) == Cardinality(Counted(script, Opening, n))
           b(n) == Cardinality(Counted(script, {"OP_ENDIF"}, n))
<1>1. \A n : Level(script, n) = a(n) - b(n)
  BY DEF Level, Counted, Opening
<1>2. a(i) \in Nat /\ a(i + 1) = a(i) + (IF script[i + 1].op \in Opening THEN 1 ELSE 0)
  BY CountStep
<1>3. b(i) \in Nat /\ b(i + 1) = b(i) + (IF script[i + 1].op \in {"OP_ENDIF"} THEN 1 ELSE 0)
  BY CountStep
<1>4. "OP_ENDIF" \notin Opening
  BY DEF Opening
<1> HIDE DEF a, b, Opening
<1>5. Level(script, i) = a(i) - b(i) /\ Level(script, i + 1) = a(i + 1) - b(i + 1)
  BY <1>1
<1> QED BY <1>2, <1>3, <1>4, <1>5

LEMMA LevelStart ==
  ASSUME NEW script
  PROVE  Level(script, 0) = 0
<1>1. \A ops : Counted(script, ops, 0) = {}
  BY DEF Counted
<1>2. Level(script, 0) = Cardinality(Counted(script, Opening, 0)) - Cardinality(Counted(script, {"OP_ENDIF"}, 0))
  BY DEF Level, Counted, Opening
<1>3. Cardinality({}) = 0
  BY FS_EmptySet
<1> QED BY <1>1, <1>2, <1>3

(* The conditional at j encloses the offset; its else opcodes so far.      *)
Encloses(script, off, j) ==
  /\ j \in 1..off /\ script[j].op \in Opening
  /\ \A k \in j..off : Level(script, k) >= Level(script, j)

Elses(script, off, j) ==
  {k \in (j + 1)..off : script[k].op = "OP_ELSE" /\ Level(script, k) = Level(script, j)}

Odd(script, off, j) == Cardinality(Elses(script, off, j)) % 2 = 1

LEMMA LiveIs ==
  ASSUME NEW script, NEW off
  PROVE  Live(script, off) <=>
           \A j \in 1..off : Encloses(script, off, j) => <<j, ~Odd(script, off, j)>> \in decisions
  BY DEF Live, Encloses, Elses, Odd, Opening

LEMMA EnclosesStep ==
  ASSUME NEW script, NEW off \in Nat
  PROVE  /\ \A j \in 1..off : Encloses(script, off + 1, j) <=>
              Encloses(script, off, j) /\ Level(script, off + 1) >= Level(script, j)
         /\ Encloses(script, off + 1, off + 1) <=> script[off + 1].op \in Opening
         /\ \A j : Encloses(script, off + 1, j) => j \in 1..off \/ j = off + 1
         /\ \A j : Encloses(script, off, j) => j \in 1..off
<1>1. Level(script, off + 1) >= Level(script, off + 1)
  <2>1. Level(script, off + 1) \in Int
    BY LevelStep
  <2> QED BY <2>1
<1>2. ASSUME NEW j \in 1..off
      PROVE  Encloses(script, off + 1, j) <=> Encloses(script, off, j) /\ Level(script, off + 1) >= Level(script, j)
  <2>1. j..(off + 1) = (j..off) \cup {off + 1} /\ j \in 1..(off + 1)
    OBVIOUS
  <2> QED BY <2>1 DEF Encloses
<1>3. Encloses(script, off + 1, off + 1) <=> script[off + 1].op \in Opening
  <2>1. (off + 1)..(off + 1) = {off + 1} /\ off + 1 \in 1..(off + 1)
    OBVIOUS
  <2> QED BY <1>1, <2>1 DEF Encloses
<1>4. \A j : Encloses(script, off + 1, j) => j \in 1..off \/ j = off + 1
  BY DEF Encloses
<1>5. \A j : Encloses(script, off, j) => j \in 1..off
  BY DEF Encloses
<1> QED BY <1>2, <1>3, <1>4, <1>5

LEMMA OddStep ==
  ASSUME NEW script, NEW off \in Nat, NEW j \in 1..off
  PROVE  /\ script[off + 1].op = "OP_ELSE" /\ Level(script, off + 1) = Level(script, j) =>
              (Odd(script, off + 1, j) <=> ~Odd(script, off, j))
         /\ ~(script[off + 1].op = "OP_ELSE" /\ Level(script, off + 1) = Level(script, j)) =>
              (Odd(script, off + 1, j) <=> Odd(script, off, j))
<1> DEFINE A == Elses(script, off, j)
           B == Elses(script, off + 1, j)
<1>1. IsFiniteSet(A)
  <2>1. IsFiniteSet((j + 1)..off)
    BY FS_Interval
  <2> QED BY <2>1, FS_Subset DEF Elses
<1>2. Cardinality(A) \in Nat
  BY <1>1, FS_CardinalityType
<1>3. (j + 1)..(off + 1) = ((j + 1)..off) \cup {off + 1} /\ off + 1 \notin (j + 1)..off
  OBVIOUS
<1>4. CASE script[off + 1].op = "OP_ELSE" /\ Level(script, off + 1) = Level(script, j)
  <2>1. B = A \cup {off + 1} /\ off + 1 \notin A
    BY <1>3, <1>4 DEF Elses
  <2>2. Cardinality(B) = Cardinality(A) + 1
    BY <1>1, <2>1, FS_AddElement
  <2>3. \A n \in Nat : ((n + 1) % 2 = 1) <=> ~(n % 2 = 1)
    OBVIOUS
  <2> QED BY <1>2, <1>4, <2>2, <2>3 DEF Odd
<1>5. CASE ~(script[off + 1].op = "OP_ELSE" /\ Level(script, off + 1) = Level(script, j))
  <2>1. B = A
    BY <1>3, <1>5 DEF Elses
  <2> QED BY <1>5, <2>1 DEF Odd
<1> QED BY <1>4, <1>5

LEMMA OddStart ==
  ASSUME NEW script, NEW off \in Nat
  PROVE  ~Odd(script, off, off)
<1>1. Elses(script, off, off) = {}
  BY DEF Elses
<1>2. Cardinality({}) = 0 /\ 0 % 2 # 1
  BY FS_EmptySet
<1> QED BY <1>1, <1>2 DEF Odd

Took(dec, j) == <<j, TRUE>> \in dec
Left(dec, j) == <<j, FALSE>> \in dec

(* The branch of the conditional at j that the offset is in was taken, and *)
(* the other one was.                                                      *)
InTaken(script, off, dec, j) == IF Odd(script, off, j) THEN Left(dec, j) ELSE Took(dec, j)
InOther(script, off, dec, j) == IF Odd(script, off, j) THEN Took(dec, j) ELSE Left(dec, j)

(* condStack has an element for every conditional that encloses the        *)
(* offset: its level is the place.  Under an element that is not "skip"    *)
(* every element is "true".                                                *)
Blocks(script, off, cond, dec) ==
  /\ off \in Nat /\ cond \in Seq({"true", "false", "skip"})
  /\ Level(script, off) = Len(cond)
  /\ \A k \in 0..off : Level(script, k) >= 0
  /\ \A i \in 1..Len(cond) : \E j : Encloses(script, off, j) /\ Level(script, j) = i
  /\ \A j : Encloses(script, off, j) =>
       /\ (cond[Level(script, j)] = "true") <=> InTaken(script, off, dec, j)
       /\ (cond[Level(script, j)] = "false") <=> InOther(script, off, dec, j)
  /\ \A i, k \in 1..Len(cond) : i < k /\ cond[k] # "skip" => cond[i] = "true"
  /\ \A j, b : <<j, b>> \in dec => j \in 1..off

Executing(cond) == cond = <<>> \/ cond[Len(cond)] = "true"

LEMMA LevelBounds ==
  ASSUME NEW script, NEW off, NEW cond, NEW dec, Blocks(script, off, cond, dec), NEW j, Encloses(script, off, j)
  PROVE  Level(script, j) \in 1..Len(cond)
<1>1. off \in Nat /\ Len(cond) \in Nat /\ j \in 1..off /\ script[j].op \in Opening
  BY DEF Blocks, Encloses
<1>2. j - 1 \in Nat /\ j - 1 \in 0..off /\ (j - 1) + 1 = j /\ off \in j..off
  BY <1>1
<1>3. Level(script, j - 1) \in Int /\ Level(script, j) = Level(script, j - 1) + 1
  BY <1>1, <1>2, LevelStep
<1>4. Level(script, j - 1) >= 0 /\ Len(cond) >= Level(script, j)
  BY <1>2 DEF Blocks, Encloses
<1> QED BY <1>1, <1>3, <1>4

LEMMA BlocksStart ==
  ASSUME NEW script
  PROVE  Blocks(script, 0, <<>>, {})
<1>1. \A j : ~Encloses(script, 0, j)
  BY DEF Encloses
<1>2. \A k \in 0..0 : k = 0
  OBVIOUS
<1> QED BY <1>1, <1>2, LevelStart DEF Blocks

(* The top of condStack tells whether the offset is live.                  *)
LEMMA BlocksTell ==
  ASSUME NEW script, NEW off, NEW cond, NEW dec, Blocks(script, off, cond, dec)
  PROVE  Executing(cond) <=> \A j : Encloses(script, off, j) => InTaken(script, off, dec, j)
<1>1. cond \in Seq({"true", "false", "skip"}) /\ Len(cond) \in Nat
  BY DEF Blocks
<1>2. ASSUME Executing(cond), NEW j, Encloses(script, off, j)
      PROVE  InTaken(script, off, dec, j)
  <2>1. Level(script, j) \in 1..Len(cond)
    BY <1>2, LevelBounds
  <2>2. cond[Len(cond)] = "true" /\ Len(cond) \in 1..Len(cond)
    BY <1>1, <1>2, <2>1 DEF Executing
  <2>3. cond[Level(script, j)] = "true"
    <3>1. CASE Level(script, j) = Len(cond)
      BY <2>2, <3>1
    <3>2. CASE Level(script, j) < Len(cond)
      BY <2>1, <2>2, <3>2 DEF Blocks
    <3> QED BY <1>1, <2>1, <3>1, <3>2
  <2> QED BY <1>2, <2>3 DEF Blocks
<1>3. ASSUME \A j : Encloses(script, off, j) => InTaken(script, off, dec, j), ~Executing(cond)
      PROVE  FALSE
  <2>1. Len(cond) \in 1..Len(cond) /\ cond[Len(cond)] # "true"
    BY <1>1, <1>3 DEF Executing
  <2>2. PICK j : Encloses(script, off, j) /\ Level(script, j) = Len(cond)
    BY <2>1 DEF Blocks
  <2> QED BY <1>3, <2>1, <2>2 DEF Blocks
<1> QED BY <1>2, <1>3

LEMMA NonNegativeStep ==
  ASSUME NEW script, NEW off \in Nat, \A k \in 0..off : Level(script, k) >= 0, Level(script, off + 1) >= 0
  PROVE  \A k \in 0..(off + 1) : Level(script, k) >= 0
<1>1. \A k \in 0..(off + 1) : k \in 0..off \/ k = off + 1
  OBVIOUS
<1> QED BY <1>1

LEMMA BlocksOther ==
  ASSUME NEW script, NEW off, NEW cond, NEW dec, Blocks(script, off, cond, dec),
         script[off + 1].op \notin Conditionals
  PROVE  Blocks(script, off + 1, cond, dec)
<1>1. off \in Nat /\ cond \in Seq({"true", "false", "skip"}) /\ Len(cond) \in Nat
  BY DEF Blocks
<1>2. Level(script, off + 1) = Len(cond)
  <2>1. script[off + 1].op \notin Opening \cup {"OP_ENDIF"}
    BY DEF Conditionals, Opening
  <2> QED BY <1>1, <2>1, LevelStep DEF Blocks
<1>3. \A j : Encloses(script, off + 1, j) <=> Encloses(script, off, j)
  <2>1. script[off + 1].op \notin Opening
    BY DEF Conditionals, Opening
  <2>2. \A j : Encloses(script, off, j) => Level(script, off + 1) >= Level(script, j)
    BY <1>1, <1>2, LevelBounds
  <2> QED BY <1>1, <2>1, <2>2, EnclosesStep
<1>4. \A j : Encloses(script, off, j) => (Odd(script, off + 1, j) <=> Odd(script, off, j))
  <2>1. script[off + 1].op # "OP_ELSE"
    BY DEF Conditionals
  <2> QED BY <1>1, <2>1, OddStep, EnclosesStep
<1>5. \A j : Encloses(script, off, j) =>
        /\ InTaken(script, off + 1, dec, j) <=> InTaken(script, off, dec, j)
        /\ InOther(script, off + 1, dec, j) <=> InOther(script, off, dec, j)
  BY <1>4 DEF InTaken, InOther
<1>6. \A k \in 0..(off + 1) : Level(script, k) >= 0
  BY <1>1, <1>2, NonNegativeStep DEF Blocks
<1>7. off + 1 \in Nat /\ \A j \in 1..off : j \in 1..(off + 1)
  BY <1>1
<1> QED BY <1>1, <1>2, <1>3, <1>5, <1>6, <1>7 DEF Blocks

Flipped(c) == IF c = "true" THEN "false" ELSE IF c = "false" THEN "true" ELSE c

LEMMA BlocksElse ==
  ASSUME NEW script, NEW off, NEW cond, NEW dec, Blocks(script, off, cond, dec),
         script[off + 1].op = "OP_ELSE", cond # <<>>
  PROVE  Blocks(script, off + 1, [cond EXCEPT ![Len(cond)] = Flipped(cond[Len(cond)])], dec)
<1> DEFINE n == Len(cond)
           c == [cond EXCEPT ![n] = Flipped(cond[n])]
<1>1. off \in Nat /\ cond \in Seq({"true", "false", "skip"}) /\ n \in Nat /\ n \in 1..n
  BY DEF Blocks
<1>2. /\ c \in Seq({"true", "false", "skip"}) /\ Len(c) = n /\ c[n] = Flipped(cond[n])
      /\ \A i \in 1..n : i # n => c[i] = cond[i]
  <2>1. Flipped(cond[n]) \in {"true", "false", "skip"}
    BY <1>1 DEF Flipped
  <2> QED BY <1>1, <2>1
<1>3. Level(script, off + 1) = n
  <2>1. script[off + 1].op \notin Opening \cup {"OP_ENDIF"}
    BY DEF Opening
  <2> QED BY <1>1, <2>1, LevelStep DEF Blocks
<1>4. \A j : Encloses(script, off + 1, j) <=> Encloses(script, off, j)
  <2>1. script[off + 1].op \notin Opening
    BY DEF Opening
  <2>2. \A j : Encloses(script, off, j) => Level(script, off + 1) >= Level(script, j)
    BY <1>1, <1>3, LevelBounds
  <2> QED BY <1>1, <2>1, <2>2, EnclosesStep
<1>5. \A k \in 0..(off + 1) : Level(script, k) >= 0
  BY <1>1, <1>3, NonNegativeStep DEF Blocks
<1>6. off + 1 \in Nat /\ \A j \in 1..off : j \in 1..(off + 1)
  BY <1>1
<1> HIDE DEF c
<1>7. ASSUME NEW j, Encloses(script, off, j)
      PROVE  /\ (c[Level(script, j)] = "true") <=> InTaken(script, off + 1, dec, j)
             /\ (c[Level(script, j)] = "false") <=> InOther(script, off + 1, dec, j)
  <2>1. Level(script, j) \in 1..n /\ j \in 1..off
    BY <1>1, <1>7, LevelBounds, EnclosesStep
  <2>2. /\ (cond[Level(script, j)] = "true") <=> InTaken(script, off, dec, j)
        /\ (cond[Level(script, j)] = "false") <=> InOther(script, off, dec, j)
    BY <1>7 DEF Blocks
  <2>3. CASE Level(script, j) = n
    <3>1. Odd(script, off + 1, j) <=> ~Odd(script, off, j)
      BY <1>1, <1>3, <2>1, <2>3, OddStep
    <3>2. /\ InTaken(script, off + 1, dec, j) <=> InOther(script, off, dec, j)
          /\ InOther(script, off + 1, dec, j) <=> InTaken(script, off, dec, j)
      BY <3>1 DEF InTaken, InOther
    <3>3. c[n] = "true" <=> cond[n] = "false"
      BY <1>2 DEF Flipped
    <3>4. c[n] = "false" <=> cond[n] = "true"
      BY <1>2 DEF Flipped
    <3> QED BY <2>2, <2>3, <3>2, <3>3, <3>4
  <2>4. CASE Level(script, j) # n
    <3>1. Odd(script, off + 1, j) <=> Odd(script, off, j)
      BY <1>1, <1>3, <2>1, <2>4, OddStep
    <3>2. /\ InTaken(script, off + 1, dec, j) <=> InTaken(script, off, dec, j)
          /\ InOther(script, off + 1, dec, j) <=> InOther(script, off, dec, j)
      BY <3>1 DEF InTaken, InOther
    <3> QED BY <1>2, <2>1, <2>2, <2>4, <3>2
  <2> QED BY <2>3, <2>4
<1>8. \A i, k \in 1..n : i < k /\ c[k] # "skip" => c[i] = "true"
  <2> SUFFICES ASSUME NEW i \in 1..n, NEW k \in 1..n, i < k, c[k] # "skip"
               PROVE  c[i] = "true"
    OBVIOUS
  <2>1. cond[k] # "skip"
    BY <1>2 DEF Flipped
  <2>2. cond[i] = "true"
    BY <2>1 DEF Blocks
  <2> QED BY <1>1, <1>2, <2>2
<1>9. \A i \in 1..n : \E j : Encloses(script, off, j) /\ Level(script, j) = i
  BY DEF Blocks
<1>10. \A j, b : <<j, b>> \in dec => j \in 1..(off + 1)
  BY <1>6 DEF Blocks
<1>11. Blocks(script, off + 1, c, dec)
  BY <1>2, <1>3, <1>4, <1>5, <1>6, <1>7, <1>8, <1>9, <1>10 DEF Blocks
<1> QED BY <1>11 DEF c

LEMMA BlocksEndif ==
  ASSUME NEW script, NEW off, NEW cond, NEW dec, Blocks(script, off, cond, dec),
         script[off + 1].op = "OP_ENDIF", cond # <<>>
  PROVE  Blocks(script, off + 1, Front(cond), dec)
<1> DEFINE n == Len(cond)
           c == Front(cond)
<1>1. off \in Nat /\ cond \in Seq({"true", "false", "skip"}) /\ n \in Nat /\ n \in 1..n
  BY DEF Blocks
<1>2. /\ c \in Seq({"true", "false", "skip"}) /\ Len(c) = n - 1
      /\ \A i \in 1..(n - 1) : c[i] = cond[i]
  <2> DEFINE S == {"true", "false", "skip"}
  <2>1. cond \in Seq(S) /\ n - 1 \in Nat /\ n - 1 <= n
    BY <1>1
  <2>2. c = SubSeq(cond, 1, n - 1)
    BY DEF Front
  <2> HIDE DEF S
  <2>3. c \in Seq(S) /\ Len(c) = n - 1 /\ \A i \in 1..(n - 1) : c[i] = cond[i]
    <3> DEFINE m == n - 1
    <3>1. m \in Nat /\ \A i \in 1..m : i \in 1..n
      BY <1>1
    <3>2. \A i \in 1..m : cond[i] \in S
      BY <2>1, <3>1
    <3> HIDE DEF m
    <3>3. /\ SubSeq(cond, 1, m) \in Seq(S) /\ Len(SubSeq(cond, 1, m)) = IF 1 <= m THEN m - 1 + 1 ELSE 0
          /\ \A i \in 1..(m - 1 + 1) : SubSeq(cond, 1, m)[i] = cond[1 + i - 1]
      BY <3>1, <3>2, SubSeqProperties, 1 \in Int, m \in Int
    <3>4. Len(SubSeq(cond, 1, m)) = m /\ \A i \in 1..m : SubSeq(cond, 1, m)[i] = cond[i]
      BY <3>1, <3>3
    <3> QED BY <2>2, <3>3, <3>4 DEF m
  <2> QED BY <2>3 DEF S
<1>3. Level(script, off + 1) = n - 1
  BY <1>1, LevelStep DEF Blocks
<1>4. \A j : Encloses(script, off + 1, j) <=> Encloses(script, off, j) /\ Level(script, j) \in 1..(n - 1)
  <2>1. script[off + 1].op \notin Opening
    BY DEF Opening
  <2>2. \A j : Encloses(script, off, j) => Level(script, j) \in 1..n
    BY LevelBounds
  <2>3. \A j : Encloses(script, off, j) => (n - 1 >= Level(script, j) <=> Level(script, j) \in 1..(n - 1))
    BY <1>1, <2>2
  <2>4. ASSUME NEW j, Encloses(script, off + 1, j)
        PROVE  Encloses(script, off, j) /\ Level(script, j) \in 1..(n - 1)
    <3>1. j \in 1..off
      BY <1>1, <2>1, <2>4, EnclosesStep
    <3>2. Encloses(script, off, j) /\ n - 1 >= Level(script, j)
      <4>1. Encloses(script, off, j) /\ Level(script, off + 1) >= Level(script, j)
        BY <1>1, <2>4, <3>1, EnclosesStep
      <4> QED BY <1>3, <4>1
    <3> QED BY <2>3, <3>2
  <2>5. ASSUME NEW j, Encloses(script, off, j), Level(script, j) \in 1..(n - 1)
        PROVE  Encloses(script, off + 1, j)
    <3>1. j \in 1..off
      BY <1>1, <2>5, EnclosesStep
    <3>2. n - 1 >= Level(script, j)
      BY <2>3, <2>5
    <3> QED BY <1>1, <1>3, <2>5, <3>1, <3>2, EnclosesStep
  <2> QED BY <2>4, <2>5
<1>5. \A k \in 0..(off + 1) : Level(script, k) >= 0
  BY <1>1, <1>3, NonNegativeStep DEF Blocks
<1>6. off + 1 \in Nat /\ (\A j \in 1..off : j \in 1..(off + 1)) /\ \A i \in 1..(n - 1) : i \in 1..n
  BY <1>1
<1> HIDE DEF c
<1>7. ASSUME NEW j, Encloses(script, off, j), Level(script, j) \in 1..(n - 1)
      PROVE  /\ (c[Level(script, j)] = "true") <=> InTaken(script, off + 1, dec, j)
             /\ (c[Level(script, j)] = "false") <=> InOther(script, off + 1, dec, j)
  <2>1. j \in 1..off
    BY <1>1, <1>7, EnclosesStep
  <2>2. Odd(script, off + 1, j) <=> Odd(script, off, j)
    BY <1>1, <2>1, OddStep
  <2>3. /\ (cond[Level(script, j)] = "true") <=> InTaken(script, off, dec, j)
        /\ (cond[Level(script, j)] = "false") <=> InOther(script, off, dec, j)
    BY <1>7 DEF Blocks
  <2>4. /\ InTaken(script, off + 1, dec, j) <=> InTaken(script, off, dec, j)
        /\ InOther(script, off + 1, dec, j) <=> InOther(script, off, dec, j)
    BY <2>2 DEF InTaken, InOther
  <2> QED BY <1>2, <1>7, <2>3, <2>4
<1>8. \A i, k \in 1..(n - 1) : i < k /\ c[k] # "skip" => c[i] = "true"
  BY <1>2, <1>6 DEF Blocks
<1>9. \A i \in 1..(n - 1) : \E j : Encloses(script, off + 1, j) /\ Level(script, j) = i
  BY <1>4, <1>6 DEF Blocks
<1>10. \A j, b : <<j, b>> \in dec => j \in 1..(off + 1)
  BY <1>6 DEF Blocks
<1>11. Blocks(script, off + 1, c, dec)
  BY <1>2, <1>3, <1>4, <1>5, <1>6, <1>7, <1>8, <1>9, <1>10 DEF Blocks
<1> QED BY <1>11 DEF c

(* A conditional that is reached in a branch that does not execute is      *)
(* skipped; another one is decided.                                        *)
LEMMA BlocksIf ==
  ASSUME NEW script, NEW off, NEW cond, NEW dec, Blocks(script, off, cond, dec),
         script[off + 1].op \in Opening, NEW x \in {"true", "false", "skip"}, NEW new,
         (x = "skip") <=> ~Executing(cond),
         Took(new, off + 1) <=> (x = "true"), Left(new, off + 1) <=> (x = "false"),
         \A j, b : <<j, b>> \in new <=> (<<j, b>> \in dec \/ (j = off + 1 /\ <<j, b>> \in new))
  PROVE  Blocks(script, off + 1, Append(cond, x), new)
<1> DEFINE n == Len(cond)
           c == Append(cond, x)
<1>1. off \in Nat /\ cond \in Seq({"true", "false", "skip"}) /\ n \in Nat
  BY DEF Blocks
<1>2. /\ c \in Seq({"true", "false", "skip"}) /\ Len(c) = n + 1 /\ c[n + 1] = x
      /\ \A i \in 1..n : c[i] = cond[i]
  <2> DEFINE S == {"true", "false", "skip"}
  <2>1. cond \in Seq(S) /\ x \in S
    BY <1>1
  <2> HIDE DEF S
  <2>2. c \in Seq(S) /\ Len(c) = n + 1 /\ c[n + 1] = x /\ \A i \in 1..n : c[i] = cond[i]
    BY <2>1, AppendProperties
  <2> QED BY <2>2 DEF S
<1>3. Level(script, off + 1) = n + 1
  BY <1>1, LevelStep DEF Blocks
<1>4. \A j : Encloses(script, off, j) => Level(script, j) \in 1..n /\ j \in 1..off
  BY <1>1, LevelBounds, EnclosesStep
<1>5. \A j : Encloses(script, off, j) => Encloses(script, off + 1, j)
  <2>1. \A j : Encloses(script, off, j) => n + 1 >= Level(script, j)
    BY <1>1, <1>4
  <2>2. \A j : Encloses(script, off, j) => Level(script, off + 1) >= Level(script, j)
    BY <1>3, <2>1
  <2> QED BY <1>1, <1>4, <2>2, EnclosesStep
<1>6. \A j : Encloses(script, off + 1, j) => Encloses(script, off, j) \/ j = off + 1
  BY <1>1, EnclosesStep
<1>7. Encloses(script, off + 1, off + 1)
  BY <1>1, EnclosesStep
<1>8. \A k \in 0..(off + 1) : Level(script, k) >= 0
  BY <1>1, <1>3, NonNegativeStep DEF Blocks
<1>9. /\ off + 1 \in Nat /\ off + 1 \notin 1..off /\ off + 1 \in 1..(off + 1)
      /\ \A j \in 1..off : j \in 1..(off + 1)
      /\ \A i \in 1..(n + 1) : i \in 1..n \/ i = n + 1
  BY <1>1
<1> HIDE DEF c
<1>10. ASSUME NEW j, Encloses(script, off, j)
       PROVE  /\ (c[Level(script, j)] = "true") <=> InTaken(script, off + 1, new, j)
              /\ (c[Level(script, j)] = "false") <=> InOther(script, off + 1, new, j)
  <2>1. j \in 1..off /\ j # off + 1 /\ Level(script, j) \in 1..n
    BY <1>4, <1>9, <1>10
  <2>2. Odd(script, off + 1, j) <=> Odd(script, off, j)
    <3>1. script[off + 1].op # "OP_ELSE"
      BY DEF Opening
    <3> QED BY <1>1, <2>1, <3>1, OddStep
  <2>3. /\ (cond[Level(script, j)] = "true") <=> InTaken(script, off, dec, j)
        /\ (cond[Level(script, j)] = "false") <=> InOther(script, off, dec, j)
    BY <1>10 DEF Blocks
  <2>4. (Took(new, j) <=> Took(dec, j)) /\ (Left(new, j) <=> Left(dec, j))
    BY <2>1 DEF Took, Left
  <2>5. /\ InTaken(script, off + 1, new, j) <=> InTaken(script, off, dec, j)
        /\ InOther(script, off + 1, new, j) <=> InOther(script, off, dec, j)
    BY <2>2, <2>4 DEF InTaken, InOther
  <2> QED BY <1>2, <2>1, <2>3, <2>5
<1>11. /\ (c[Level(script, off + 1)] = "true") <=> InTaken(script, off + 1, new, off + 1)
       /\ (c[Level(script, off + 1)] = "false") <=> InOther(script, off + 1, new, off + 1)
  <2>1. ~Odd(script, off + 1, off + 1)
    BY <1>9, OddStart
  <2> QED BY <1>2, <1>3, <2>1 DEF InTaken, InOther
<1>12. \A i, k \in 1..(n + 1) : i < k /\ c[k] # "skip" => c[i] = "true"
  <2> SUFFICES ASSUME NEW i \in 1..(n + 1), NEW k \in 1..(n + 1), i < k, c[k] # "skip"
               PROVE  c[i] = "true"
    OBVIOUS
  <2>1. i \in 1..n /\ n \in 1..n
    BY <1>1
  <2>2. CASE k \in 1..n
    BY <1>2, <2>1, <2>2 DEF Blocks
  <2>3. CASE k = n + 1
    <3>1. Executing(cond)
      BY <1>2, <2>3
    <3>2. cond # <<>>
      BY <1>1, <2>1
    <3>3. cond[n] = "true"
      BY <3>1, <3>2 DEF Executing
    <3>4. cond[i] = "true"
      <4>1. CASE i = n
        BY <3>3, <4>1
      <4>2. CASE i < n
        BY <2>1, <3>3, <4>2 DEF Blocks
      <4> QED BY <1>1, <2>1, <4>1, <4>2
    <3> QED BY <1>2, <2>1, <3>4
  <2> QED BY <1>9, <2>2, <2>3
<1>13. \A i \in 1..(n + 1) : \E j : Encloses(script, off + 1, j) /\ Level(script, j) = i
  <2>1. \A i \in 1..n : \E j : Encloses(script, off + 1, j) /\ Level(script, j) = i
    BY <1>5 DEF Blocks
  <2> QED BY <1>3, <1>7, <1>9, <2>1
<1>14. \A j, b : <<j, b>> \in new => j \in 1..(off + 1)
  BY <1>9 DEF Blocks
<1>15. Blocks(script, off + 1, c, new)
  BY <1>2, <1>3, <1>6, <1>8, <1>9, <1>10, <1>11, <1>12, <1>13, <1>14 DEF Blocks
<1> QED BY <1>15 DEF c

-----------------------------------------------------------------------------
(* What a step of the engine does to condStack.                            *)

Branch(v, pop) == IF asBool(Peek(v, 0)) = (pop.op = "OP_IF") THEN "true" ELSE "false"

CondStep(cond, v, pop) ==
  /\ pop.op \notin Conditionals => cond = v.condStack
  /\ pop.op \in Opening /\ ~isBranchExecuting(v) => cond = Append(v.condStack, "skip")
  /\ pop.op \in Opening /\ isBranchExecuting(v) =>
       Depth(v) # 0 /\ cond = Append(v.condStack, Branch(v, pop))
  /\ pop.op = "OP_ELSE" =>
       /\ v.condStack # <<>>
       /\ cond = [v.condStack EXCEPT ![Len(v.condStack)] = Flipped(v.condStack[Len(v.condStack)])]
  /\ pop.op = "OP_ENDIF" => v.condStack # <<>> /\ cond = Front(v.condStack)

LEMMA CondFields ==
  ASSUME NEW v, IsEngine(v), NEW s
  PROVE  /\ [v EXCEPT !.condStack = s].condStack = s
         /\ [Pops(v, 1) EXCEPT !.condStack = s].condStack = s
         /\ Pops(v, 1).condStack = v.condStack
<1>1. IsEngine(Pops(v, 1)) /\ Pops(v, 1).condStack = v.condStack
  BY PopsMove DEF Moved
<1> QED BY <1>1, CondHandled

LEMMA OpfuncSteps ==
  ASSUME NEW v, IsEngine(v), NEW pop, opfunc(pop, v).err = "none"
  PROVE  CondStep(opfunc(pop, v).condStack, v, pop)
<1> DEFINE e == opfunc(pop, v)
<1>1. CASE pop.op \notin Conditionals
  <2>1. e.condStack = v.condStack
    BY <1>1, OpfuncKept DEF Kept
  <2>2. pop.op \notin Opening /\ pop.op # "OP_ELSE" /\ pop.op # "OP_ENDIF"
    BY <1>1 DEF Conditionals, Opening
  <2> QED BY <2>1, <2>2 DEF CondStep
<1>2. CASE pop.op \in Opening
  <2>1. pop.op \in Conditionals /\ pop.op # "OP_ELSE" /\ pop.op # "OP_ENDIF"
    BY <1>2 DEF Conditionals, Opening
  <2>2. e = opcodeIf(v, pop.op = "OP_IF")
    <3>1. CASE pop.op = "OP_IF"
      BY <2>1, <3>1, OpfuncCond
    <3>2. CASE pop.op = "OP_NOTIF"
      BY <2>1, <3>2, OpfuncCond
    <3> QED BY <1>2, <3>1, <3>2 DEF Opening
  <2>3. CASE ~isBranchExecuting(v)
    <3> DEFINE s == Append(v.condStack, "skip")
    <3>1. e = [v EXCEPT !.condStack = s]
      BY <2>2, <2>3 DEF opcodeIf
    <3>2. e.condStack = s
      BY <3>1, CondFields
    <3> QED BY <2>1, <2>3, <3>2 DEF CondStep
  <2>4. CASE isBranchExecuting(v)
    <3>1. Depth(v) # 0
      <4>1. PopFails(v, "d").err # "none"
        BY PopFailsKeeps
      <4> QED BY <2>2, <2>4, <4>1 DEF opcodeIf
    <3> DEFINE s == Append(Pops(v, 1).condStack, Branch(v, pop))
    <3>2. e = [Pops(v, 1) EXCEPT !.condStack = s]
      BY <2>2, <2>4, <3>1 DEF opcodeIf, Branch
    <3>3. e.condStack = s
      BY <3>2, CondFields
    <3>4. e.condStack = Append(v.condStack, Branch(v, pop))
      BY <3>3, CondFields
    <3> QED BY <2>1, <2>4, <3>1, <3>4 DEF CondStep
  <2> QED BY <2>3, <2>4
<1>3. CASE pop.op = "OP_ELSE"
  <2>1. pop.op \in Conditionals /\ pop.op \notin Opening /\ pop.op # "OP_ENDIF"
    BY <1>3 DEF Conditionals, Opening
  <2>2. e = opcodeElse(v)
    BY <1>3, <2>1, OpfuncCond
  <2>3. v.condStack # <<>>
    BY <2>2, FailKeeps DEF opcodeElse
  <2> DEFINE n == Len(v.condStack)
             s == [v.condStack EXCEPT ![n] = Flipped(v.condStack[n])]
  <2>4. e = [v EXCEPT !.condStack = s]
    <3>1. [v EXCEPT !.condStack[Len(v.condStack)] =
             IF @ = "true" THEN "false" ELSE IF @ = "false" THEN "true" ELSE @] = [v EXCEPT !.condStack = s]
      BY DEF IsEngine, Flipped
    <3> HIDE DEF s
    <3> QED BY <2>2, <2>3, <3>1 DEF opcodeElse
  <2>5. e.condStack = s
    BY <2>4, CondFields
  <2> QED BY <1>3, <2>1, <2>3, <2>5 DEF CondStep
<1>4. CASE pop.op = "OP_ENDIF"
  <2>1. pop.op \in Conditionals /\ pop.op \notin Opening /\ pop.op # "OP_ELSE"
    BY <1>4 DEF Conditionals, Opening
  <2>2. e = opcodeEndif(v)
    BY <1>4, <2>1, OpfuncCond
  <2>3. v.condStack # <<>>
    BY <2>2, FailKeeps DEF opcodeEndif
  <2> DEFINE s == Front(v.condStack)
  <2>4. e = [v EXCEPT !.condStack = s]
    BY <2>2, <2>3 DEF opcodeEndif
  <2>5. e.condStack = s
    BY <2>4, CondFields
  <2> QED BY <1>4, <2>1, <2>3, <2>5 DEF CondStep
<1> QED BY <1>1, <1>2, <1>3, <1>4 DEF Conditionals, Opening

LEMMA ExecuteSteps ==
  ASSUME NEW v, IsEngine(v), NEW pop, executeOpcode(pop, v).err = "none"
  PROVE  CondStep(executeOpcode(pop, v).condStack, v, pop)
<1> DEFINE n == v.numOps + 1
           counted == IF pop.op \in PushOps THEN v ELSE [v EXCEPT !.numOps = n]
           e == executeOpcode(pop, v)
<1>1. Moved(counted, v) /\ IsEngine(counted) /\ counted.dstack = v.dstack /\ counted.condStack = v.condStack
  BY OpsMove, SelfKept, MovedKept DEF Moved
<1>2. \A code : Fail(v, code).err = code
  BY FailKeeps
<1>3. counted = IF pop.op \in PushOps THEN v ELSE [v EXCEPT !.numOps = @ + 1]
  OBVIOUS
<1> HIDE DEF counted
<1>4. (e = counted /\ pop.op \notin Conditionals) \/ e = opfunc(pop, counted)
  BY <1>2, <1>3 DEF executeOpcode
<1>5. CASE e = counted /\ pop.op \notin Conditionals
  <2>1. pop.op \notin Opening /\ pop.op # "OP_ELSE" /\ pop.op # "OP_ENDIF"
    BY <1>5 DEF Conditionals, Opening
  <2> QED BY <1>1, <1>5, <2>1 DEF CondStep
<1>6. CASE e = opfunc(pop, counted)
  <2>1. CondStep(e.condStack, counted, pop)
    BY <1>1, <1>6, OpfuncSteps
  <2>2. Depth(counted) = Depth(v) /\ Branch(counted, pop) = Branch(v, pop)
        /\ (isBranchExecuting(counted) <=> isBranchExecuting(v))
    BY <1>1 DEF Depth, Branch, Peek, isBranchExecuting
  <2> HIDE DEF e
  <2>3. CondStep(e.condStack, v, pop)
    BY <1>1, <2>1, <2>2 DEF CondStep
  <2> QED BY <2>3 DEF e
<1> QED BY <1>4, <1>5, <1>6

(* A script that ends without an error leaves condStack empty; the next    *)
(* one starts at offset 0.                                                 *)
Turned(w, n) ==
  /\ IsEngine(w)
  /\ w.err = "none" => w.scriptOff = 0 /\ w.condStack = <<>> /\ (w.scriptIdx = n + 1 \/ w.scriptIdx = n + 2)

LEMMA EnteredTurns ==
  ASSUME NEW u, IsEngine(u), NEW n \in Nat, u.scriptOff = 0, u.condStack = <<>>, u.scriptIdx = n + 1,
         u.status = "run"
  PROVE  Turned(Entered(u), n)
<1>1. CASE u.err # "none"
  BY <1>1 DEF Entered, Turned
<1>2. CASE u.err = "none"
  <2> DEFINE m == u.scriptIdx + 1
             b == [u EXCEPT !.scriptIdx = m]
             w == SkipEmptyScript(u)
             z == [w EXCEPT !.lastCodeSep = 0]
  <2>1. AtScript(b, u, m, u.savedFirstStack)
    BY IdxIs
  <2>2. w = u \/ w = b
    BY DEF SkipEmptyScript
  <2>3. Entered(u) = z
    BY <1>2 DEF Entered
  <2>4. m = n + 2
    OBVIOUS
  <2> HIDE DEF b, m
  <2>5. IsEngine(w) /\ w.scriptOff = 0 /\ w.condStack = <<>> /\ (w.scriptIdx = n + 1 \/ w.scriptIdx = n + 2)
    BY <2>1, <2>2, <2>4 DEF AtScript
  <2> HIDE DEF w
  <2>6. Moved(z, w)
    BY <2>5, SepMoves
  <2> HIDE DEF z
  <2> QED BY <2>3, <2>5, <2>6 DEF Moved, Frame, Turned
<1> QED BY <1>1, <1>2

LEMMA RedeemTurns ==
  ASSUME NEW v, Placed(v), v.scriptIdx = 1, v.scriptOff = 0, v.savedFirstStack # <<>>, v.condStack = <<>>
  PROVE  Turned(Entered(EnterRedeemScript(v)), 1)
<1> DEFINE g == [v EXCEPT !.scriptIdx = 2]
           c == CheckErrorCondition(g, FALSE)
           saved == v.savedFirstStack
           r == WithRedeemScript(c, saved)
<1>1. IsEngine(v) /\ v.status = "run"
  BY DEF Placed
<1>2. AtScript(g, v, 2, v.savedFirstStack)
  BY <1>1, IdxIs
<1>3. EnterRedeemScript(v) = r
  <2>1. [v EXCEPT !.scriptIdx = @ + 1] = g
    OBVIOUS
  <2> HIDE DEF g
  <2> QED BY <2>1 DEF EnterRedeemScript
<1> HIDE DEF g
<1>4. IsEngine(g) /\ g.scriptIdx = 2 /\ g.scriptOff = 0 /\ g.condStack = <<>> /\ g.status = "run"
  BY <1>1, <1>2 DEF AtScript
<1>5. Kept(c, g)
  BY <1>4, CheckKept
<1> HIDE DEF c
<1>6. IsEngine(c) /\ c.scriptIdx = 2 /\ c.scriptOff = 0 /\ c.condStack = <<>> /\ c.status = "run"
  BY <1>4, <1>5 DEF Kept, Handled, Frame
<1> DEFINE s == Append(c.scripts, parseScript(Last(saved)))
           d == Front(saved)
           e == [c EXCEPT !.scripts = s, !.dstack = d]
<1>7. r = c \/ r = Fail(c, "ErrMalformedPush") \/ r = e
  BY DEF WithRedeemScript
<1>8. IsEngine(e) /\ e.scriptIdx = 2 /\ e.scriptOff = 0 /\ e.condStack = <<>> /\ e.status = "run"
  <2> HIDE DEF s, d, e
  <2> DEFINE q == [c EXCEPT !.scripts = s]
  <2>1. IsEngine(q) /\ q.scriptIdx = c.scriptIdx /\ q.scriptOff = c.scriptOff /\ q.condStack = c.condStack
        /\ q.status = c.status
    BY <1>6 DEF IsEngine
  <2>2. e = WithStack(q, d)
    BY <1>6 DEF WithStack, IsEngine, e
  <2> HIDE DEF q
  <2>3. Moved(e, q)
    BY <2>1, <2>2, StackMoves
  <2> QED BY <1>6, <2>1, <2>3 DEF Moved, Frame
<1> HIDE DEF e
<1>9. LET f == Fail(c, "ErrMalformedPush")
      IN IsEngine(f) /\ f.scriptIdx = 2 /\ f.scriptOff = 0 /\ f.condStack = <<>> /\ f.status = "run"
  BY <1>6, FailKeeps DEF Kept, Handled, Frame
<1> HIDE DEF r
<1>10. IsEngine(r) /\ r.scriptIdx = 2 /\ r.scriptOff = 0 /\ r.condStack = <<>> /\ r.status = "run"
  BY <1>6, <1>7, <1>8, <1>9
<1>11. 1 \in Nat /\ r.scriptIdx = 1 + 1
  BY <1>10
<1>12. Turned(Entered(r), 1)
  BY <1>10, <1>11, EnteredTurns
<1> QED BY <1>3, <1>12

LEMMA NextTurns ==
  ASSUME NEW v, Placed(v), v.bip16 /\ v.scriptIdx = 1 => v.savedFirstStack # <<>>
  PROVE  Turned(NextScript(v), v.scriptIdx)
<1> DEFINE f == [v EXCEPT !.astack = <<>>, !.numOps = 0, !.scriptOff = 0]
<1>1. IsEngine(v) /\ v.status = "run" /\ v.err = "none" /\ v.locked = {} /\ v.scriptIdx \in Nat
  BY DEF Placed
<1>2. /\ IsEngine(f) /\ f.scriptOff = 0 /\ f.scripts = v.scripts /\ f.scriptIdx = v.scriptIdx
      /\ f.dstack = v.dstack /\ f.condStack = v.condStack
      /\ f.savedFirstStack = v.savedFirstStack /\ f.bip16 = v.bip16
      /\ f.locked = v.locked /\ f.err = v.err /\ f.status = v.status
  BY <1>1, FreshIs
<1>3. NextScript(v) =
        IF v.condStack # <<>> THEN Fail(v, "ErrUnbalancedConditional")
        ELSE IF v.scriptIdx = 0 /\ v.bip16 THEN Entered([f EXCEPT !.scriptIdx = 1, !.savedFirstStack = v.dstack])
        ELSE IF v.scriptIdx = 1 /\ v.bip16 THEN Entered(EnterRedeemScript(f))
        ELSE Entered([f EXCEPT !.scriptIdx = f.scriptIdx + 1])
  BY DEF NextScript
<1> HIDE DEF f
<1>4. CASE v.condStack # <<>>
  <2>1. IsEngine(Fail(v, "ErrUnbalancedConditional")) /\ Fail(v, "ErrUnbalancedConditional").err # "none"
    BY <1>1, FailKeeps DEF Kept, Handled, Frame
  <2> QED BY <1>3, <1>4, <2>1 DEF Turned
<1>5. CASE v.condStack = <<>> /\ v.scriptIdx = 0 /\ v.bip16
  <2> DEFINE d == v.dstack
             u == [f EXCEPT !.scriptIdx = 1, !.savedFirstStack = d]
  <2>1. NextScript(v) = Entered(u)
    BY <1>3, <1>5
  <2> HIDE DEF d
  <2>2. AtScript(u, f, 1, d)
    BY <1>2, SavedIs
  <2> HIDE DEF u
  <2>3. IsEngine(u) /\ u.scriptOff = 0 /\ u.condStack = <<>> /\ u.scriptIdx = v.scriptIdx + 1 /\ u.status = "run"
    BY <1>1, <1>2, <1>5, <2>2 DEF AtScript
  <2> QED BY <1>1, <2>1, <2>3, EnteredTurns
<1>6. CASE v.condStack = <<>> /\ v.scriptIdx = 1 /\ v.bip16
  <2>1. Placed(f)
    BY <1>2, <1>6 DEF Placed
  <2>2. f.scriptIdx = 1 /\ f.scriptOff = 0 /\ f.savedFirstStack # <<>> /\ f.condStack = <<>>
    BY <1>2, <1>6
  <2>3. NextScript(v) = Entered(EnterRedeemScript(f))
    BY <1>3, <1>6
  <2> QED BY <1>6, <2>1, <2>2, <2>3, RedeemTurns
<1>7. CASE v.condStack = <<>> /\ ~(v.scriptIdx = 0 /\ v.bip16) /\ ~(v.scriptIdx = 1 /\ v.bip16)
  <2> DEFINE n == f.scriptIdx + 1
             u == [f EXCEPT !.scriptIdx = n]
  <2>1. NextScript(v) = Entered(u)
    BY <1>3, <1>7
  <2> HIDE DEF n
  <2>2. AtScript(u, f, n, f.savedFirstStack)
    BY <1>2, IdxIs
  <2> HIDE DEF u
  <2>3. IsEngine(u) /\ u.scriptOff = 0 /\ u.condStack = <<>> /\ u.scriptIdx = v.scriptIdx + 1 /\ u.status = "run"
    BY <1>1, <1>2, <1>7, <2>2 DEF AtScript, n
  <2> QED BY <1>1, <2>1, <2>3, EnteredTurns
<1> QED BY <1>4, <1>5, <1>6, <1>7

(* A round that goes on: one opcode further in the script, or at the start *)
(* of another script.                                                      *)
Moves(w, v) ==
  \/ /\ w.scriptIdx = v.scriptIdx /\ w.scripts = v.scripts /\ w.scriptOff = v.scriptOff + 1
     /\ CondStep(w.condStack, v, Opcode(v))
  \/ w.scriptIdx # v.scriptIdx /\ w.scriptOff = 0 /\ w.condStack = <<>>

LEMMA AfterStepRuns ==
  ASSUME NEW z, IsEngine(z), AfterStep(z).status = "run"
  PROVE  AfterStep(z) = z /\ z.err = "none"
<1>1. ASSUME NEW y, IsEngine(y)
      PROVE  Concluded(y).status # "run"
  <2>1. \A s : [y EXCEPT !.status = s].status = s
    BY <1>1 DEF IsEngine
  <2> QED BY <2>1 DEF Concluded
<1>2. IsEngine(CheckErrorCondition(z, TRUE))
  BY CheckKept DEF Kept, Handled, Frame
<1> QED BY <1>1, <1>2 DEF AfterStep

LEMMA ExecuteMoves ==
  ASSUME NEW v, Ready(v), Execute(v).status = "run"
  PROVE  Moves(Execute(v), v)
<1> DEFINE script == v.scripts[v.scriptIdx + 1]
           e == Executed(v)
           w == Step(v)
<1>1. w = AfterOpcode(e, script) /\ Stepped(e, v)
  BY OpcodeDone
<1>2. e.err = "none" => CondStep(e.condStack, v, Opcode(v))
  <2> SUFFICES ASSUME e.err = "none" PROVE CondStep(e.condStack, v, Opcode(v))
    OBVIOUS
  <2> DEFINE u == Advanced(v)
  <2>1. IsEngine(u) /\ u.dstack = v.dstack /\ u.condStack = v.condStack
    BY OffMoves DEF Advanced, Ready, Placed
  <2> HIDE DEF u
  <2>2. CondStep(e.condStack, u, Opcode(v))
    BY <2>1, ExecuteSteps DEF Executed, u
  <2>3. Depth(u) = Depth(v) /\ Branch(u, Opcode(v)) = Branch(v, Opcode(v))
        /\ (isBranchExecuting(u) <=> isBranchExecuting(v))
    BY <2>1 DEF Depth, Branch, Peek, isBranchExecuting
  <2> HIDE DEF e
  <2> QED BY <2>1, <2>2, <2>3 DEF CondStep
<1> HIDE DEF e
<1>3. \A z : IsEngine(z) /\ AfterStep(z).status = "run" => AfterStep(z) = z /\ z.err = "none"
  BY AfterStepRuns
<1>4. Execute(v) = AfterStep(w)
  BY DEF Execute
<1>5. IsEngine(e) /\ IsEngine(Fail(e, "ErrStackOverflow")) /\ Fail(e, "ErrStackOverflow").err # "none"
  BY <1>1, FailKeeps DEF Stepped, Kept, Handled, Frame
<1>6. e.err = "none" => Turned(NextScript(e), e.scriptIdx)
  BY <1>1, NextTurns DEF Stepped
<1> HIDE DEF w
<1>7. (w = e \/ w = Fail(e, "ErrStackOverflow") \/ w = NextScript(e)) /\ (e.err # "none" => w = e)
  BY <1>1 DEF AfterOpcode
<1>8. CASE w = e
  BY <1>1, <1>2, <1>3, <1>4, <1>5, <1>8 DEF Moves, Stepped
<1>9. CASE w = Fail(e, "ErrStackOverflow")
  BY <1>3, <1>4, <1>5, <1>9
<1>10. CASE w = NextScript(e) /\ e.err = "none"
  <2>1. v.scriptIdx \in {0, 1, 2}
    BY DEF Ready, Placed
  <2>2. Execute(v) = w /\ w.err = "none"
    BY <1>3, <1>4, <1>6, <1>10 DEF Turned
  <2>3. w.scriptOff = 0 /\ w.condStack = <<>> /\ (w.scriptIdx = v.scriptIdx + 1 \/ w.scriptIdx = v.scriptIdx + 2)
    BY <1>1, <1>6, <1>10, <2>2 DEF Turned, Stepped
  <2>4. w.scriptIdx # v.scriptIdx
    BY <2>1, <2>3
  <2> QED BY <2>2, <2>3, <2>4 DEF Moves
<1> QED BY <1>7, <1>8, <1>9, <1>10

-----------------------------------------------------------------------------
CondInv ==
  vm.status = "run" => Blocks(vm.scripts[vm.scriptIdx + 1], vm.scriptOff, vm.condStack, decisions)

LEMMA ExecutingIs ==
  ASSUME NEW v
  PROVE  isBranchExecuting(v) <=> Executing(v.condStack)
  BY DEF isBranchExecuting, Executing, Last

(* The history gains the decision of an opcode that opens a conditional in *)
(* a branch that executes.                                                 *)
LEMMA DecisionIs ==
  ASSUME Ready(vm)
  PROVE  /\ Opcode(vm).op \in Opening /\ isBranchExecuting(vm) /\ Depth(vm) # 0 =>
              Decision = {<<vm.scriptOff + 1, asBool(Peek(vm, 0)) = (Opcode(vm).op = "OP_IF")>>}
         /\ ~(Opcode(vm).op \in Opening /\ isBranchExecuting(vm)) => Decision = {}
<1>1. vm.scriptOff < Len(vm.scripts[vm.scriptIdx + 1])
  BY PlaceFacts
<1> QED BY <1>1 DEF Decision, Opcode, Opening

LEMMA RunFollows ==
  ASSUME Ready(vm), CondInv, vm.status = "run", vm' = Execute(vm), vm'.status = "run",
         decisions' = IF vm'.scriptIdx = vm.scriptIdx THEN decisions \cup Decision ELSE {}
  PROVE  CondInv'
<1> DEFINE script == vm.scripts[vm.scriptIdx + 1]
           off == vm.scriptOff
           cond == vm.condStack
           pop == Opcode(vm)
<1>1. Blocks(script, off, cond, decisions) /\ off \in Nat
  BY DEF CondInv, Blocks
<1>2. Moves(vm', vm)
  BY ExecuteMoves
<1>3. CASE vm'.scriptIdx # vm.scriptIdx
  <2>1. vm'.scriptOff = 0 /\ vm'.condStack = <<>> /\ decisions' = {}
    BY <1>2, <1>3 DEF Moves
  <2> QED BY <2>1, BlocksStart DEF CondInv
<1>4. CASE vm'.scriptIdx = vm.scriptIdx
  <2>1. /\ vm'.scripts[vm'.scriptIdx + 1] = script /\ vm'.scriptOff = off + 1
        /\ CondStep(vm'.condStack, vm, pop)
        /\ decisions' = decisions \cup Decision
    BY <1>2, <1>4 DEF Moves
  <2>2. pop = script[off + 1]
    BY DEF Opcode
  <2> SUFFICES Blocks(script, off + 1, vm'.condStack, decisions')
    BY <2>1 DEF CondInv
  <2> HIDE DEF script, off, cond, pop
  <2>3. CASE pop.op \in Opening
    <3> DEFINE b == asBool(Peek(vm, 0)) = (pop.op = "OP_IF")
               x == IF isBranchExecuting(vm) THEN Branch(vm, pop) ELSE "skip"
    <3>1. vm'.condStack = Append(cond, x) /\ (isBranchExecuting(vm) => Depth(vm) # 0)
      BY <2>1, <2>3 DEF CondStep, cond
    <3>2. Decision = IF isBranchExecuting(vm) THEN {<<off + 1, b>>} ELSE {}
      BY <2>3, <3>1, DecisionIs DEF off, pop
    <3>3. \A q : <<off + 1, q>> \notin decisions
      BY <1>1 DEF Blocks
    <3>4. x \in {"true", "false", "skip"} /\ (x = "skip" <=> ~isBranchExecuting(vm))
      BY DEF Branch
    <3>5. x = "skip" <=> ~Executing(cond)
      BY <3>4, ExecutingIs DEF cond
    <3>6. b \in BOOLEAN /\ (isBranchExecuting(vm) => (x = "true" <=> b) /\ (x = "false" <=> ~b))
      BY DEF Branch
    <3> HIDE DEF x, b
    <3>7. (Took(decisions', off + 1) <=> x = "true") /\ (Left(decisions', off + 1) <=> x = "false")
      <4>1. CASE ~isBranchExecuting(vm)
        BY <2>1, <3>2, <3>3, <3>4, <4>1 DEF Took, Left
      <4>2. CASE isBranchExecuting(vm) /\ b = TRUE
        <5>1. decisions' = decisions \cup {<<off + 1, TRUE>>}
          BY <2>1, <3>2, <4>2
        <5>2. Took(decisions', off + 1) /\ ~Left(decisions', off + 1)
          BY <3>3, <5>1 DEF Took, Left
        <5> QED BY <3>6, <4>2, <5>2
      <4>3. CASE isBranchExecuting(vm) /\ b = FALSE
        <5>1. decisions' = decisions \cup {<<off + 1, FALSE>>}
          BY <2>1, <3>2, <4>3
        <5>2. ~Took(decisions', off + 1) /\ Left(decisions', off + 1)
          BY <3>3, <5>1 DEF Took, Left
        <5> QED BY <3>6, <4>3, <5>2
      <4> QED BY <3>6, <4>1, <4>2, <4>3
    <3>8. \A j, q : <<j, q>> \in decisions' <=>
            (<<j, q>> \in decisions \/ (j = off + 1 /\ <<j, q>> \in decisions'))
      BY <2>1, <3>2
    <3> QED BY <1>1, <2>2, <2>3, <3>1, <3>4, <3>5, <3>7, <3>8, BlocksIf
  <2>4. CASE pop.op \notin Opening
    <3>1. decisions' = decisions
      BY <2>1, <2>4, DecisionIs DEF pop
    <3>2. CASE pop.op \notin Conditionals
      BY <1>1, <2>1, <2>2, <3>1, <3>2, BlocksOther DEF CondStep, cond
    <3>3. CASE pop.op = "OP_ELSE"
      <4>1. cond # <<>> /\ vm'.condStack = [cond EXCEPT ![Len(cond)] = Flipped(cond[Len(cond)])]
        BY <2>1, <3>3 DEF CondStep, cond
      <4>2. Blocks(script, off + 1, [cond EXCEPT ![Len(cond)] = Flipped(cond[Len(cond)])], decisions)
        BY <1>1, <2>2, <3>3, <4>1, BlocksElse
      <4> QED BY <3>1, <4>1, <4>2
    <3>4. CASE pop.op = "OP_ENDIF"
      <4>1. cond # <<>> /\ vm'.condStack = Front(cond)
        BY <2>1, <3>4 DEF CondStep, cond
      <4>2. Blocks(script, off + 1, Front(cond), decisions)
        BY <1>1, <2>2, <3>4, <4>1, BlocksEndif
      <4> QED BY <3>1, <4>1, <4>2
    <3> QED BY <2>4, <3>2, <3>3, <3>4 DEF Conditionals, Opening
  <2> QED BY <2>3, <2>4
<1> QED BY <1>3, <1>4

(* Whether the next opcode is executed, which the engine reads off the top *)
(* of condStack, is what the block structure of the script says, however   *)
(* conditionals are nested and however often a block switches branches.    *)
THEOREM ConditionalsAlwaysFollowBlocks == Spec => []ConditionalsFollowBlocks
<1> DEFINE Inv == EngineInv /\ CondInv
<1>1. Init => Inv
  <2> SUFFICES ASSUME Init PROVE CondInv
    BY InitGood
  <2>1. PICK i \in DOMAIN Spends : \E s \in Spends[i] :
          vm = NewEngine(s.sigScript, s.pkScript, s.tx, s.flags) /\ decisions = {}
    BY DEF Init
  <2>2. PICK s \in Spends[i] : vm = NewEngine(s.sigScript, s.pkScript, s.tx, s.flags) /\ decisions = {}
    BY <2>1
  <2>3. vm.scriptOff = 0 /\ vm.condStack = <<>>
    BY <2>2, NewIsEngine
  <2> QED BY <2>2, <2>3, BlocksStart DEF CondInv
<1>2. Inv /\ [Next]_vars => Inv'
  <2> SUFFICES ASSUME Inv, [Next]_vars PROVE CondInv'
    BY EngineInvKept
  <2>1. CASE Run
    <3>1. CASE vm'.status = "run"
      <4>1. Ready(vm)
        BY <2>1 DEF Run, EngineInv, Good
      <4> QED BY <2>1, <3>1, <4>1, RunFollows DEF Run
    <3>2. CASE vm'.status # "run"
      BY <3>2 DEF CondInv
    <3> QED BY <3>1, <3>2
  <2>2. CASE RunInner
    BY <2>2 DEF RunInner, CondInv
  <2>3. CASE UNCHANGED vars
    BY <2>3 DEF vars, CondInv
  <2> QED BY <2>1, <2>2, <2>3 DEF Next
<1>3. Inv => ConditionalsFollowBlocks
  <2> SUFFICES ASSUME Inv, vm.status = "run"
               PROVE  isBranchExecuting(vm) <=> Live(vm.scripts[vm.scriptIdx + 1], vm.scriptOff)
    BY DEF ConditionalsFollowBlocks
  <2> DEFINE script == vm.scripts[vm.scriptIdx + 1]
             off == vm.scriptOff
  <2>1. Blocks(script, off, vm.condStack, decisions)
    BY DEF CondInv
  <2>2. isBranchExecuting(vm) <=>
          \A j : Encloses(script, off, j) => InTaken(script, off, decisions, j)
    BY <2>1, BlocksTell, ExecutingIs
  <2>3. \A j : <<j, ~Odd(script, off, j)>> \in decisions <=> InTaken(script, off, decisions, j)
    <3> SUFFICES ASSUME NEW j
                 PROVE  <<j, ~Odd(script, off, j)>> \in decisions <=> InTaken(script, off, decisions, j)
      OBVIOUS
    <3>1. CASE Odd(script, off, j)
      <4>1. (~Odd(script, off, j)) = FALSE
        BY <3>1
      <4> QED BY <3>1, <4>1 DEF InTaken, Left
    <3>2. CASE ~Odd(script, off, j)
      <4>1. (~Odd(script, off, j)) = TRUE
        BY <3>2
      <4> QED BY <3>2, <4>1 DEF InTaken, Took
    <3> QED BY <3>1, <3>2
  <2>4. \A j : Encloses(script, off, j) => j \in 1..off
    BY DEF Encloses
  <2> HIDE DEF script, off
  <2>5. isBranchExecuting(vm) <=> Live(script, off)
    BY <2>2, <2>3, <2>4, LiveIs
  <2> QED BY <2>5 DEF script, off
<1>4. Inv /\ [Next]_vars => Inv'
  BY <1>2
<1> QED BY <1>1, <1>3, <1>4, PTL DEF Spec

-----------------------------------------------------------------------------
(* The loop of OP_CHECKMULTISIG.  G holds the pairs of a signature and a   *)
(* key that verify; Match says that the signatures after s can be assigned *)
(* to keys after k in order.                                               *)

Ordered(f, G, s, numSigs) ==
  /\ \A t, u \in (s + 1)..numSigs : t < u => f[t] < f[u]
  /\ \A t \in (s + 1)..numSigs : <<t, f[t]>> \in G

Match(G, k, s, numKeys, numSigs) ==
  \E f \in [(s + 1)..numSigs -> (k + 1)..numKeys] : Ordered(f, G, s, numSigs)

LEMMA LeastNumber ==
  ASSUME NEW S \in SUBSET Nat, S # {}
  PROVE  \E n \in S : \A k \in S : n <= k
<1>1. PICK n \in S : \A k \in S : ~(<<k, n>> \in OpToRel(<, Nat))
  BY NatLessThanWellFounded, WFMin
<1>2. \A k \in S : ~(k < n)
  BY <1>1 DEF OpToRel
<1> QED BY <1>2

(* No signature is left: nothing has to be assigned.                       *)
LEMMA MatchDone ==
  ASSUME NEW G, NEW numKeys \in Nat, NEW numSigs \in Nat, NEW k \in Nat
  PROVE  Match(G, k, numSigs, numKeys, numSigs)
<1> DEFINE f == [t \in (numSigs + 1)..numSigs |-> 0]
<1>1. (numSigs + 1)..numSigs = {}
  OBVIOUS
<1>2. f \in [(numSigs + 1)..numSigs -> (k + 1)..numKeys]
  BY <1>1
<1>3. Ordered(f, G, numSigs, numSigs)
  BY <1>1 DEF Ordered
<1> QED BY <1>2, <1>3 DEF Match

(* More signatures than keys are left: an assignment in order needs a key  *)
(* of its own for each.                                                    *)
LEMMA MatchNeeds ==
  ASSUME NEW G, NEW numKeys \in Nat, NEW numSigs \in Nat, NEW k \in 0..numKeys, NEW s \in 0..numSigs,
         numSigs - s > numKeys - k
  PROVE  ~Match(G, k, s, numKeys, numSigs)
<1> SUFFICES ASSUME NEW f \in [(s + 1)..numSigs -> (k + 1)..numKeys], Ordered(f, G, s, numSigs)
             PROVE  FALSE
  BY DEF Match
<1> DEFINE Bad == {t \in Nat : t \in (s + 1)..numSigs /\ f[t] < k + (t - s)}
<1>1. \A t \in (s + 1)..numSigs : f[t] \in Int /\ f[t] >= k + 1 /\ f[t] <= numKeys
  OBVIOUS
<1>2. numSigs \in Bad
  BY <1>1
<1>3. PICK t \in Bad : \A u \in Bad : t <= u
  BY <1>2, LeastNumber
<1>4. t # s + 1
  BY <1>1, <1>3
<1>5. t - 1 \in (s + 1)..numSigs /\ ~(t - 1 \in Bad)
  BY <1>3, <1>4
<1>6. f[t - 1] >= k + (t - 1 - s)
  BY <1>1, <1>5
<1>7. f[t - 1] < f[t]
  BY <1>3, <1>5 DEF Ordered
<1> QED BY <1>1, <1>3, <1>5, <1>6, <1>7

(* A key that the next signature is not one of can be left out.            *)
LEMMA MatchSkips ==
  ASSUME NEW G, NEW numKeys \in Nat, NEW numSigs \in Nat, NEW k \in Nat, NEW s \in Nat,
         s < numSigs, ~(<<s + 1, k + 1>> \in G)
  PROVE  Match(G, k, s, numKeys, numSigs) <=> Match(G, k + 1, s, numKeys, numSigs)
<1>1. ASSUME NEW f \in [(s + 1)..numSigs -> (k + 1)..numKeys], Ordered(f, G, s, numSigs)
      PROVE  Match(G, k + 1, s, numKeys, numSigs)
  <2>1. \A t \in (s + 1)..numSigs : f[t] \in (k + 1)..numKeys
    OBVIOUS
  <2>2. s + 1 \in (s + 1)..numSigs /\ f[s + 1] # k + 1
    BY <1>1 DEF Ordered
  <2>3. \A t \in (s + 1)..numSigs : t # s + 1 => f[s + 1] < f[t]
    BY <1>1, <2>2 DEF Ordered
  <2>4. \A t \in (s + 1)..numSigs : f[t] \in (k + 1 + 1)..numKeys
    BY <2>1, <2>2, <2>3
  <2>5. f \in [(s + 1)..numSigs -> (k + 1 + 1)..numKeys]
    BY <2>4
  <2> QED BY <1>1, <2>5 DEF Match
<1>2. ASSUME NEW f \in [(s + 1)..numSigs -> (k + 1 + 1)..numKeys], Ordered(f, G, s, numSigs)
      PROVE  Match(G, k, s, numKeys, numSigs)
  <2>1. \A t \in (s + 1)..numSigs : f[t] \in (k + 1)..numKeys
    OBVIOUS
  <2>2. f \in [(s + 1)..numSigs -> (k + 1)..numKeys]
    BY <2>1
  <2> QED BY <1>2, <2>2 DEF Match
<1> QED BY <1>1, <1>2 DEF Match

(* The first key that the next signature is one of can be taken for it:    *)
(* a later key would leave fewer for the signatures that follow.           *)
LEMMA MatchTakes ==
  ASSUME NEW G, NEW numKeys \in Nat, NEW numSigs \in Nat, NEW k \in Nat, NEW s \in Nat,
         s < numSigs, k < numKeys, <<s + 1, k + 1>> \in G
  PROVE  Match(G, k, s, numKeys, numSigs) <=> Match(G, k + 1, s + 1, numKeys, numSigs)
<1>1. ASSUME NEW f \in [(s + 1)..numSigs -> (k + 1)..numKeys], Ordered(f, G, s, numSigs)
      PROVE  Match(G, k + 1, s + 1, numKeys, numSigs)
  <2> DEFINE g == [t \in (s + 1 + 1)..numSigs |-> f[t]]
  <2>1. \A t \in (s + 1 + 1)..numSigs : t \in (s + 1)..numSigs /\ g[t] = f[t]
    OBVIOUS
  <2>2. \A t \in (s + 1 + 1)..numSigs : f[s + 1] < f[t]
    BY <1>1, <2>1 DEF Ordered
  <2>3. \A t \in (s + 1)..numSigs : f[t] \in (k + 1)..numKeys
    OBVIOUS
  <2>4. \A t \in (s + 1 + 1)..numSigs : f[t] \in (k + 1 + 1)..numKeys
    BY <2>1, <2>2, <2>3
  <2>5. g \in [(s + 1 + 1)..numSigs -> (k + 1 + 1)..numKeys]
    BY <2>4
  <2>6. Ordered(g, G, s + 1, numSigs)
    BY <1>1, <2>1 DEF Ordered
  <2> QED BY <2>5, <2>6 DEF Match
<1>2. ASSUME NEW f \in [(s + 1 + 1)..numSigs -> (k + 1 + 1)..numKeys], Ordered(f, G, s + 1, numSigs)
      PROVE  Match(G, k, s, numKeys, numSigs)
  <2> DEFINE g == [t \in (s + 1)..numSigs |-> IF t = s + 1 THEN k + 1 ELSE f[t]]
  <2>1. g[s + 1] = k + 1
    OBVIOUS
  <2>2. \A t \in (s + 1)..numSigs : t # s + 1 =>
          t \in (s + 1 + 1)..numSigs /\ g[t] = f[t] /\ f[t] \in (k + 1 + 1)..numKeys
    OBVIOUS
  <2>3. g \in [(s + 1)..numSigs -> (k + 1)..numKeys]
    BY <2>2
  <2> HIDE DEF g
  <2>4. \A t, u \in (s + 1)..numSigs : t < u => g[t] < g[u]
    <3> SUFFICES ASSUME NEW t \in (s + 1)..numSigs, NEW u \in (s + 1)..numSigs, t < u
                 PROVE  g[t] < g[u]
      OBVIOUS
    <3>1. u # s + 1
      OBVIOUS
    <3>2. CASE t = s + 1
      BY <2>1, <2>2, <3>1, <3>2
    <3>3. CASE t # s + 1
      BY <1>2, <2>2, <3>1, <3>3 DEF Ordered
    <3> QED BY <3>2, <3>3
  <2>5. \A t \in (s + 1)..numSigs : <<t, g[t]>> \in G
    BY <1>2, <2>1, <2>2 DEF Ordered
  <2> QED BY <2>3, <2>4, <2>5 DEF Match, Ordered
<1> QED BY <1>1, <1>2 DEF Match

(* The recursive function of LoopResult exists.                            *)
IsLoop(g, n, tries, numKeys, numSigs) ==
  g = [k \in 0..n |-> IF k = 0 THEN LoopAt(0, 0, numKeys, numSigs)
                      ELSE LoopRound(g[k - 1], tries, k, numKeys, numSigs)]

LEMMA LoopExists ==
  ASSUME NEW tries, NEW numKeys, NEW numSigs, NEW n \in Nat
  PROVE  \E g : IsLoop(g, n, tries, numKeys, numSigs)
<1> DEFINE Start == LoopAt(0, 0, numKeys, numSigs)
           Round(at, k) == LoopRound(at, tries, k, numKeys, numSigs)
           Bad == {m \in Nat : ~\E g : IsLoop(g, m, tries, numKeys, numSigs)}
<1>1. SUFFICES ASSUME Bad # {} PROVE FALSE
  OBVIOUS
<1>2. PICK m \in Bad : \A k \in Bad : m <= k
  BY <1>1, LeastNumber
<1>3. CASE m = 0
  <2> DEFINE g == [k \in 0..0 |-> Start]
  <2>1. \A k \in 0..0 : k = 0
    OBVIOUS
  <2>2. g = [k \in 0..0 |-> IF k = 0 THEN Start ELSE Round(g[k - 1], k)]
    BY <2>1
  <2>3. IsLoop(g, 0, tries, numKeys, numSigs)
    BY <2>2 DEF IsLoop
  <2> QED BY <1>3, <2>3
<1>4. CASE m # 0
  <2>1. m - 1 \in Nat /\ ~(m - 1 \in Bad)
    BY <1>2, <1>4
  <2>2. PICK g : IsLoop(g, m - 1, tries, numKeys, numSigs)
    BY <2>1
  <2> DEFINE h == [k \in 0..m |-> IF k = m THEN Round(g[m - 1], m) ELSE g[k]]
  <2>3. \A k \in 0..(m - 1) : g[k] = IF k = 0 THEN Start ELSE Round(g[k - 1], k)
    BY <2>2 DEF IsLoop
  <2>4. \A k \in 0..(m - 1) : h[k] = g[k]
    BY <2>1
  <2>5. h[m] = Round(g[m - 1], m)
    BY <2>1
  <2>6. h = [k \in 0..m |-> h[k]]
    OBVIOUS
  <2> HIDE DEF h
  <2>7. \A k \in 0..m : h[k] = IF k = 0 THEN Start ELSE Round(h[k - 1], k)
    <3> SUFFICES ASSUME NEW k \in 0..m
                 PROVE  h[k] = IF k = 0 THEN Start ELSE Round(h[k - 1], k)
      OBVIOUS
    <3>1. CASE k = m
      <4>1. h[k - 1] = g[m - 1]
        BY <2>1, <2>4, <3>1
      <4> QED BY <1>4, <2>5, <3>1, <4>1
    <3>2. CASE k = 0
      BY <1>4, <2>1, <2>3, <2>4, <3>2
    <3>3. CASE k # m /\ k # 0
      <4>1. k \in 0..(m - 1) /\ k - 1 \in 0..(m - 1)
        BY <2>1, <3>3
      <4> QED BY <2>3, <2>4, <3>3, <4>1
    <3> QED BY <3>1, <3>2, <3>3
  <2>8. IsLoop(h, m, tries, numKeys, numSigs)
    BY <2>6, <2>7 DEF IsLoop
  <2> QED BY <2>8
<1> QED BY <1>3, <1>4

(* What tries says of the pairs in G; an error has a name of its own.      *)
Tells(tries, G, numKeys, numSigs) ==
  \A k \in 1..numKeys, s \in 1..numSigs :
    /\ tries[k][s] \notin {"none", "true", "false", "more"}
    /\ tries[k][s] = "yes" => <<s, k>> \in G
    /\ tries[k][s] = "no" => ~(<<s, k>> \in G)

(* The loop after k keys: what it has found out, or what is left to find.  *)
LoopInv(at, G, k, numKeys, numSigs) ==
  /\ at.result # "none"
  /\ at.result = "true" => Match(G, 0, 0, numKeys, numSigs)
  /\ at.result = "false" => ~Match(G, 0, 0, numKeys, numSigs)
  /\ at.result = "more" =>
       /\ at.sigs \in 0..(numSigs - 1) /\ numSigs - at.sigs <= numKeys - k
       /\ Match(G, 0, 0, numKeys, numSigs) <=> Match(G, k, at.sigs, numKeys, numSigs)

LEMMA LoopAtInv ==
  ASSUME NEW G, NEW numKeys \in Nat, NEW numSigs \in 0..numKeys, NEW k \in 0..numKeys, NEW s \in 0..numSigs,
         Match(G, 0, 0, numKeys, numSigs) <=> Match(G, k, s, numKeys, numSigs)
  PROVE  LoopInv(LoopAt(k, s, numKeys, numSigs), G, k, numKeys, numSigs)
<1>1. /\ LoopAt(k, s, numKeys, numSigs).sigs = s
      /\ LoopAt(k, s, numKeys, numSigs).result =
           IF s = numSigs THEN "true" ELSE IF numSigs - s > numKeys - k THEN "false" ELSE "more"
  BY DEF LoopAt
<1>2. CASE s = numSigs
  BY <1>1, <1>2, MatchDone DEF LoopInv
<1>3. CASE s # numSigs /\ numSigs - s > numKeys - k
  BY <1>1, <1>3, MatchNeeds DEF LoopInv
<1>4. CASE s # numSigs /\ ~(numSigs - s > numKeys - k)
  BY <1>1, <1>4 DEF LoopInv
<1> QED BY <1>2, <1>3, <1>4

LEMMA LoopRoundInv ==
  ASSUME NEW G, NEW tries, NEW numKeys \in Nat, NEW numSigs \in 0..numKeys, NEW k \in 1..numKeys, NEW at,
         Tells(tries, G, numKeys, numSigs), LoopInv(at, G, k - 1, numKeys, numSigs)
  PROVE  LoopInv(LoopRound(at, tries, k, numKeys, numSigs), G, k, numKeys, numSigs)
<1> DEFINE s == at.sigs
           tried == tries[k][s + 1]
           next == LoopRound(at, tries, k, numKeys, numSigs)
<1>1. CASE at.result # "more"
  <2>1. next = at
    BY <1>1 DEF LoopRound
  <2> QED BY <1>1, <2>1 DEF LoopInv
<1>2. CASE at.result = "more"
  <2>1. /\ s \in 0..(numSigs - 1) /\ k - 1 \in Nat /\ k - 1 < numKeys /\ k - 1 + 1 = k
        /\ Match(G, 0, 0, numKeys, numSigs) <=> Match(G, k - 1, s, numKeys, numSigs)
    BY <1>2 DEF LoopInv
  <2>2. /\ tried \notin {"none", "true", "false", "more"}
        /\ tried = "yes" => <<s + 1, k>> \in G
        /\ tried = "no" => ~(<<s + 1, k>> \in G)
    BY <2>1 DEF Tells
  <2>3. next = IF tried = "no" THEN LoopAt(k, s, numKeys, numSigs)
               ELSE IF tried = "yes" THEN LoopAt(k, s + 1, numKeys, numSigs)
               ELSE [sigs |-> s, result |-> tried]
    BY <1>2 DEF LoopRound
  <2> HIDE DEF next, s, tried
  <2>4. CASE tried = "no"
    <3>1. Match(G, k - 1, s, numKeys, numSigs) <=> Match(G, k - 1 + 1, s, numKeys, numSigs)
      BY <2>1, <2>2, <2>4, MatchSkips
    <3>2. LoopInv(LoopAt(k, s, numKeys, numSigs), G, k, numKeys, numSigs)
      BY <2>1, <3>1, LoopAtInv
    <3> QED BY <2>3, <2>4, <3>2 DEF next
  <2>5. CASE tried = "yes"
    <3>1. Match(G, k - 1, s, numKeys, numSigs) <=> Match(G, k - 1 + 1, s + 1, numKeys, numSigs)
      BY <2>1, <2>2, <2>5, MatchTakes
    <3>2. LoopInv(LoopAt(k, s + 1, numKeys, numSigs), G, k, numKeys, numSigs)
      BY <2>1, <3>1, LoopAtInv
    <3> QED BY <2>3, <2>5, <3>2 DEF next
  <2>6. CASE tried # "no" /\ tried # "yes"
    <3>1. next.result = tried
      BY <2>3, <2>6
    <3>2. LoopInv(next, G, k, numKeys, numSigs)
      BY <2>2, <3>1 DEF LoopInv
    <3> QED BY <3>2 DEF next
  <2> QED BY <2>4, <2>5, <2>6
<1> QED BY <1>1, <1>2

(* The loop succeeds exactly when the signatures match keys in order.      *)
LEMMA LoopDecides ==
  ASSUME NEW G, NEW tries, NEW numKeys \in Nat, NEW numSigs \in 0..numKeys,
         Tells(tries, G, numKeys, numSigs)
  PROVE  LET r == LoopResult(tries, numKeys, numSigs)
         IN /\ r # "none"
            /\ r = "true" => Match(G, 0, 0, numKeys, numSigs)
            /\ r = "false" => ~Match(G, 0, 0, numKeys, numSigs)
<1> DEFINE loop == CHOOSE g : IsLoop(g, numKeys, tries, numKeys, numSigs)
           Inv(k) == LoopInv(loop[k], G, k, numKeys, numSigs)
           Bad == {k \in Nat : k \in 0..numKeys /\ ~Inv(k)}
<1>1. LoopResult(tries, numKeys, numSigs) = loop[numKeys].result
  BY DEF LoopResult, IsLoop
<1>2. IsLoop(loop, numKeys, tries, numKeys, numSigs)
  BY LoopExists
<1> HIDE DEF loop
<1>3. \A k \in 0..numKeys : loop[k] = IF k = 0 THEN LoopAt(0, 0, numKeys, numSigs)
                                      ELSE LoopRound(loop[k - 1], tries, k, numKeys, numSigs)
  BY <1>2 DEF IsLoop
<1>4. Inv(0)
  <2>1. LoopInv(LoopAt(0, 0, numKeys, numSigs), G, 0, numKeys, numSigs)
    BY LoopAtInv
  <2> QED BY <1>3, <2>1
<1>5. ASSUME NEW k \in 1..numKeys, Inv(k - 1)
      PROVE  Inv(k)
  BY <1>3, <1>5, LoopRoundInv
<1> HIDE DEF Inv
<1>6. Bad = {}
  <2> SUFFICES ASSUME Bad # {} PROVE FALSE
    OBVIOUS
  <2>1. PICK k \in Bad : \A j \in Bad : k <= j
    BY LeastNumber
  <2>2. k # 0
    BY <1>4, <2>1
  <2>3. k \in 1..numKeys /\ k - 1 \in Nat /\ k - 1 \in 0..numKeys /\ ~(k - 1 \in Bad)
    BY <2>1, <2>2
  <2> QED BY <1>5, <2>1, <2>3
<1>7. Inv(numKeys)
  BY <1>6
<1> QED BY <1>1, <1>7 DEF Inv, LoopInv

(* A pair of a signature and a key that verifies, and what a round of the  *)
(* loop says of it.                                                        *)
GoodPair(v, script, sig, key) ==
  sig # <<>> /\ SigParses(v, sig) /\ KeyParses(key) /\ Verify(v, script, sig, key)

LoopWords == {"true", "false", "more", "yes", "no"}

LEMMA IntegerErrorIs ==
  ASSUME NEW sig, NEW type, NEW len, NEW off
  PROVE  integerError(sig, type, len, off) \notin LoopWords
  BY DEF integerError, LoopWords

LEMMA EncodingErrorIs ==
  ASSUME NEW sig, NEW lowS
  PROVE  checkSignatureEncoding(sig, lowS) \notin LoopWords
<1>1. \A type, len, off : integerError(sig, type, len, off) \notin LoopWords
  BY IntegerErrorIs
<1> QED BY <1>1 DEF checkSignatureEncoding, LoopWords

LEMMA SigErrorIs ==
  ASSUME NEW v, NEW sig
  PROVE  SigError(v, sig) \notin LoopWords
<1>1. checkSignatureEncoding(Encoding(sig), hasFlag(v, "LowS")) \notin LoopWords
  BY EncodingErrorIs
<1> QED BY <1>1 DEF SigError, LoopWords

LEMMA KeyErrorIs ==
  ASSUME NEW v, NEW key
  PROVE  KeyError(v, key) \notin LoopWords
  BY DEF KeyError, LoopWords

LEMMA TriedIs ==
  ASSUME NEW v, NEW script, NEW sig, NEW key
  PROVE  /\ Tried(v, script, sig, key) \notin {"none", "true", "false", "more"}
         /\ Tried(v, script, sig, key) = "yes" => GoodPair(v, script, sig, key)
         /\ Tried(v, script, sig, key) = "no" => ~GoodPair(v, script, sig, key)
<1>1. SigError(v, sig) \notin LoopWords /\ KeyError(v, key) \notin LoopWords
  BY SigErrorIs, KeyErrorIs
<1> QED BY <1>1 DEF Tried, GoodPair, LoopWords

(* The fields that a signature check reads.                                *)
Sees(w, v) ==
  /\ w.tx = v.tx /\ w.flags = v.flags /\ w.lastCodeSep = v.lastCodeSep
  /\ w.scripts = v.scripts /\ w.scriptIdx = v.scriptIdx

LEMMA SeesAlike ==
  ASSUME NEW v, NEW w, Sees(w, v)
  PROVE  /\ \A sigs : Unsigned(w, sigs) = Unsigned(v, sigs)
         /\ \A script, sig, key : GoodPair(w, script, sig, key) <=> GoodPair(v, script, sig, key)
<1>1. subScript(w) = subScript(v)
  BY DEF Sees, subScript
<1>2. ASSUME NEW sigs PROVE Unsigned(w, sigs) = Unsigned(v, sigs)
  BY <1>1 DEF Unsigned
<1>3. ASSUME NEW script, NEW sig, NEW key
      PROVE  GoodPair(w, script, sig, key) <=> GoodPair(v, script, sig, key)
  BY DEF Sees, GoodPair, SigParses, Verify
<1> QED BY <1>2, <1>3

LEMMA PushOnly ==
  ASSUME NEW v, IsEngine(v), NEW b
  PROVE  PushBool(v, b).dstack = Append(v.dstack, fromBool(b))
  BY PushMoves DEF PushBool, PushByteArray, IsEngine

LEMMA PopsSee ==
  ASSUME NEW v, IsEngine(v), NEW n
  PROVE  /\ IsEngine(Pops(v, n)) /\ Sees(Pops(v, n), v)
         /\ Pops(v, n).dstack = SubSeq(v.dstack, 1, Len(v.dstack) - n)
<1> DEFINE s == SubSeq(v.dstack, 1, Len(v.dstack) - n)
<1>1. Pops(v, n) = WithStack(v, s)
  BY DEF Pops, WithStack, IsEngine
<1> HIDE DEF s
<1>2. IsEngine(WithStack(v, s)) /\ Sees(WithStack(v, s), v) /\ WithStack(v, s).dstack = s
  BY DEF IsEngine, Sees, WithStack
<1> QED BY <1>1, <1>2 DEF s

LEMMA OpsSee ==
  ASSUME NEW v, IsEngine(v), NEW n
  PROVE  LET w == [v EXCEPT !.numOps = @ + n]
         IN IsEngine(w) /\ Sees(w, v) /\ w.dstack = v.dstack
  BY DEF IsEngine, Sees

(* What the end of the handler pushes, given what the loop decides.        *)
LEMMA MultiSigEndIs ==
  ASSUME NEW v, IsEngine(v), NEW sigs, NEW result, result # "none", NEW matches \in BOOLEAN,
         result = "true" => matches, result = "false" => ~matches,
         MultiSigEnd(v, sigs, result).err = "none"
  PROVE  MultiSigEnd(v, sigs, result).dstack = Append(v.dstack, fromBool(matches))
<1>1. \A code : Fail(v, code).err = code
  BY FailKeeps
<1>2. \A b : PushBool(v, b).dstack = Append(v.dstack, fromBool(b))
  BY PushOnly
<1>3. result \in {"true", "false"}
  BY <1>1 DEF MultiSigEnd
<1>4. MultiSigEnd(v, sigs, result) = PushBool(v, result = "true")
  BY <1>1, <1>3 DEF MultiSigEnd
<1>5. (result = "true") = matches
  BY <1>3
<1> QED BY <1>2, <1>4, <1>5

LEMMA MultiSigSigsIs ==
  ASSUME NEW v, NEW w, IsEngine(w), Sees(w, v), w.dstack = v.dstack,
         NEW numKeys \in Nat, NEW numSigs, MultiSigSigs(w, numKeys, numSigs).err = "none"
  PROVE  MultiSigSigs(w, numKeys, numSigs).dstack =
           Append(SubSeq(v.dstack, 1, Depth(v) - (numKeys + numSigs + 3)),
                  fromBool(OrderedMatch(v, numKeys, numSigs)))
<1> DEFINE used == numKeys + numSigs + 3
           p == Pops(w, used)
           keys == Popped(v, 1, numKeys)
           sigs == Popped(v, numKeys + 2, numSigs)
           script == Unsigned(v, sigs)
           tries == [k \in 1..numKeys |-> [s \in 1..numSigs |-> Tried(p, script, sigs[s], keys[k])]]
           G == {q \in (1..numSigs) \X (1..numKeys) : GoodPair(v, script, sigs[q[1]], keys[q[2]])}
<1>1. /\ numSigs \in 0..numKeys
      /\ MultiSigSigs(w, numKeys, numSigs) = MultiSigOf(p, Popped(w, 1, numKeys), Popped(w, numKeys + 2, numSigs))
  <2>1. \A code : Fail(w, code).err = code
    BY FailKeeps
  <2>2. PopFails(w, "d").err # "none"
    BY PopFailsKeeps
  <2> QED BY <2>1, <2>2 DEF MultiSigSigs
<1>2. IsEngine(p) /\ Sees(p, w) /\ p.dstack = SubSeq(v.dstack, 1, Depth(v) - used)
  BY PopsSee DEF Depth
<1>3. Sees(p, v)
  BY <1>2 DEF Sees
<1>4. Popped(w, 1, numKeys) = keys /\ Popped(w, numKeys + 2, numSigs) = sigs
  BY DEF Popped, Peek, Depth
<1>5. /\ Len(keys) = numKeys /\ Len(sigs) = numSigs
      /\ \A k \in 1..numKeys : keys[k] = Peek(v, k)
      /\ \A s \in 1..numSigs : sigs[s] = Peek(v, numKeys + 1 + s)
  <2>1. \A k \in 1..numKeys : 1 + k - 1 = k
    OBVIOUS
  <2>2. \A s \in 1..numSigs : numKeys + 2 + s - 1 = numKeys + 1 + s
    BY <1>1
  <2> QED BY <1>1, <2>1, <2>2 DEF Popped
<1>6. Unsigned(p, sigs) = script
  BY <1>3, SeesAlike
<1>7. MultiSigSigs(w, numKeys, numSigs) = MultiSigEnd(p, sigs, LoopResult(tries, numKeys, numSigs))
  BY <1>1, <1>4, <1>5, <1>6 DEF MultiSigOf, MultiSigLoop
<1>8. Tells(tries, G, numKeys, numSigs)
  <2> SUFFICES ASSUME NEW k \in 1..numKeys, NEW s \in 1..numSigs
               PROVE  /\ tries[k][s] \notin {"none", "true", "false", "more"}
                      /\ tries[k][s] = "yes" => <<s, k>> \in G
                      /\ tries[k][s] = "no" => ~(<<s, k>> \in G)
    BY DEF Tells
  <2>1. tries[k][s] = Tried(p, script, sigs[s], keys[k])
    OBVIOUS
  <2>2. <<s, k>> \in G <=> GoodPair(v, script, sigs[s], keys[k])
    OBVIOUS
  <2>3. GoodPair(p, script, sigs[s], keys[k]) <=> GoodPair(v, script, sigs[s], keys[k])
    BY <1>3, SeesAlike
  <2> HIDE DEF tries, G
  <2> QED BY <2>1, <2>2, <2>3, TriedIs
<1>9. OrderedMatch(v, numKeys, numSigs) <=> Match(G, 0, 0, numKeys, numSigs)
  <2>1. /\ (0 + 1)..numSigs = 1..numSigs /\ (0 + 1)..numKeys = 1..numKeys
    OBVIOUS
  <2>2. ASSUME NEW f \in [1..numSigs -> 1..numKeys], NEW s \in 1..numSigs
        PROVE  <<s, f[s]>> \in G <=> GoodPair(v, script, Peek(v, numKeys + 1 + s), Peek(v, f[s]))
    BY <1>5
  <2> HIDE DEF G
  <2> QED BY <2>1, <2>2 DEF OrderedMatch, Match, Ordered, GoodPair
<1> HIDE DEF p, tries, G, used
<1>10. LET r == LoopResult(tries, numKeys, numSigs)
       IN /\ r # "none"
          /\ r = "true" => OrderedMatch(v, numKeys, numSigs)
          /\ r = "false" => ~OrderedMatch(v, numKeys, numSigs)
  BY <1>1, <1>8, <1>9, LoopDecides
<1>11. OrderedMatch(v, numKeys, numSigs) \in BOOLEAN
  BY DEF OrderedMatch
<1>12. MultiSigSigs(w, numKeys, numSigs).dstack = Append(p.dstack, fromBool(OrderedMatch(v, numKeys, numSigs)))
  <2> DEFINE result == LoopResult(tries, numKeys, numSigs)
             matches == OrderedMatch(v, numKeys, numSigs)
  <2>1. MultiSigEnd(p, sigs, result).err = "none"
    BY <1>7
  <2> HIDE DEF result, matches, sigs
  <2>2. /\ result # "none" /\ matches \in BOOLEAN
        /\ result = "true" => matches
        /\ result = "false" => ~matches
    BY <1>10, <1>11 DEF result, matches
  <2>3. MultiSigEnd(p, sigs, result).dstack = Append(p.dstack, fromBool(matches))
    BY <1>2, <2>1, <2>2, MultiSigEndIs
  <2> QED BY <1>7, <2>3 DEF result, matches
<1> QED BY <1>2, <1>12 DEF used

LEMMA MultiSigIs ==
  ASSUME NEW v, IsEngine(v), opcodeCheckMultiSig(v).err = "none"
  PROVE  LET numKeys == Num(v, 0)
             numSigs == Num(v, numKeys + 1)
         IN opcodeCheckMultiSig(v).dstack =
              Append(SubSeq(v.dstack, 1, Depth(v) - (numKeys + numSigs + 3)),
                     fromBool(OrderedMatch(v, numKeys, numSigs)))
<1> DEFINE numKeys == Num(v, 0)
           numSigs == Num(v, numKeys + 1)
           w == [v EXCEPT !.numOps = @ + numKeys]
<1>1. ASSUME NEW u, IsEngine(u), IntError(u, 1) # "none"
      PROVE  IntFails(u, 1).err # "none"
  BY <1>1, FailKeeps, PopFailsKeeps DEF IntFails
<1>2. opcodeCheckMultiSig(v) = MultiSigKeys(v, numKeys)
  BY <1>1 DEF opcodeCheckMultiSig
<1> HIDE DEF numKeys
<1>3. /\ numKeys \in Nat
      /\ MultiSigKeys(v, numKeys) = MultiSigSigs(w, numKeys, numSigs)
  <2>1. \A code : Fail(v, code).err = code
    BY FailKeeps
  <2>2. PopFails(v, "d").err # "none"
    BY PopFailsKeeps
  <2>3. IsEngine(Pops(v, numKeys + 1))
    BY PopsSee
  <2>4. IntError(Pops(v, numKeys + 1), 1) # "none" => IntFails(Pops(v, numKeys + 1), 1).err # "none"
    BY <1>1, <2>3
  <2>5. numKeys \in 0..MaxKeys
    BY <1>2, <2>1 DEF MultiSigKeys
  <2> QED BY <1>2, <2>1, <2>2, <2>4, <2>5 DEF MultiSigKeys
<1>4. IsEngine(w) /\ Sees(w, v) /\ w.dstack = v.dstack
  BY OpsSee
<1> HIDE DEF w, numSigs
<1>5. MultiSigSigs(w, numKeys, numSigs).err = "none"
  BY <1>2, <1>3
<1>6. MultiSigSigs(w, numKeys, numSigs).dstack =
        Append(SubSeq(v.dstack, 1, Depth(v) - (numKeys + numSigs + 3)),
               fromBool(OrderedMatch(v, numKeys, numSigs)))
  BY <1>3, <1>4, <1>5, MultiSigSigsIs, Zenon
<1> QED BY <1>2, <1>3, <1>6 DEF numKeys, numSigs

(* OP_CHECKMULTISIG, whose loop never goes back to a key, pushes whether   *)
(* the signatures can be assigned to keys in order, in place of everything *)
(* it takes from the stack: for all numbers of keys and signatures, every  *)
(* transaction and set of flags.                                           *)
THEOREM MultiSigAlwaysOrderedMatch == Spec => []MultiSigIsOrderedMatch
<1>1. EngineInv /\ [Next]_vars => EngineInv'
  BY EngineInvKept
<1>2. EngineInv => MultiSigIsOrderedMatch
  <2> SUFFICES ASSUME EngineInv, vm.status = "run", opcodeCheckMultiSig(vm).err = "none"
               PROVE  LET numKeys == Num(vm, 0)
                          numSigs == Num(vm, numKeys + 1)
                      IN opcodeCheckMultiSig(vm).dstack =
                           Append(SubSeq(vm.dstack, 1, Depth(vm) - (numKeys + numSigs + 3)),
                                  fromBool(OrderedMatch(vm, numKeys, numSigs)))
    BY DEF MultiSigIsOrderedMatch
  <2>1. IsEngine(vm)
    BY DEF EngineInv, Good, Ready, Placed
  <2> QED BY <2>1, MultiSigIs
<1> QED BY InitGood, <1>1, <1>2, PTL DEF Spec
=============================================================================

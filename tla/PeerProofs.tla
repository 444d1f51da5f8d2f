----------------------------- MODULE PeerProofs -----------------------------
(***************************************************************************)
(* Proofs about Peer, for any number of callers, messages and inventory:   *)
(* what travels between the goroutines is written in order and once.       *)
(***************************************************************************)
EXTENDS Peer, FiniteSetTheorems, SequenceTheorems, WellFoundedInduction, TLAPS

(* How many elements of a queue are in a set.                              *)
Places(q, S) == {i \in DOMAIN q : q[i] \in S}
Count(q, S) == Cardinality(Places(q, S))
One(m, S) == IF m \in S THEN 1 ELSE 0

LEMMA CountType ==
  ASSUME NEW M, NEW q \in Seq(M), NEW S
  PROVE  Count(q, S) \in Nat /\ IsFiniteSet(Places(q, S))
<1>1. IsFiniteSet(DOMAIN q)
  BY FS_Interval
<1>2. Places(q, S) \subseteq DOMAIN q
  BY DEF Places
<1> QED BY <1>1, <1>2, FS_Subset, FS_CardinalityType DEF Count

LEMMA CountEmpty ==
  ASSUME NEW S
  PROVE  Count(<<>>, S) = 0
<1>1. Places(<<>>, S) = {}
  BY DEF Places
<1> QED BY <1>1, FS_EmptySet DEF Count

LEMMA CountSingle ==
  ASSUME NEW m, NEW S
  PROVE  Count(<<m>>, S) = One(m, S)
<1>1. Places(<<m>>, S) = IF m \in S THEN {1} ELSE {}
  BY DEF Places
<1> QED BY <1>1, FS_EmptySet, FS_Singleton DEF Count, One

LEMMA CountConcat ==
  ASSUME NEW M, NEW q \in Seq(M), NEW r \in Seq(M), NEW S
  PROVE  Count(q \o r, S) = Count(q, S) + Count(r, S)
<1> DEFINE n == Len(q)
           T == {i + n : i \in Places(r, S)}
           f == [i \in Places(r, S) |-> i + n]
<1>1. n \in Nat /\ DOMAIN q = 1 .. n /\ DOMAIN r = 1 .. Len(r) /\ Len(r) \in Nat
  OBVIOUS
<1>2. q \o r \in Seq(M) /\ Len(q \o r) = n + Len(r) /\ DOMAIN (q \o r) = 1 .. n + Len(r)
  OBVIOUS
<1>3. \A i \in 1 .. n + Len(r) : (q \o r)[i] = IF i <= n THEN q[i] ELSE r[i - n]
  OBVIOUS
<1>4. Places(q \o r, S) = Places(q, S) \cup T
  <2>1. ASSUME NEW i \in Places(q \o r, S) PROVE i \in Places(q, S) \cup T
    <3>1. i \in 1 .. n + Len(r) /\ (q \o r)[i] \in S
      BY <1>2 DEF Places
    <3>2. CASE i <= n
      BY <1>1, <1>3, <3>1, <3>2 DEF Places
    <3>3. CASE i > n
      <4>1. i - n \in 1 .. Len(r) /\ r[i - n] \in S
        BY <1>1, <1>3, <3>1, <3>3
      <4>2. i - n \in Places(r, S) /\ i = (i - n) + n
        BY <1>1, <3>1, <4>1 DEF Places
      <4> QED BY <4>2
    <3> QED BY <1>1, <3>1, <3>2, <3>3
  <2>2. ASSUME NEW i \in Places(q, S) PROVE i \in Places(q \o r, S)
    BY <1>1, <1>2, <1>3 DEF Places
  <2>3. ASSUME NEW j \in Places(r, S) PROVE j + n \in Places(q \o r, S)
    <3>1. j \in 1 .. Len(r) /\ r[j] \in S
      BY <1>1 DEF Places
    <3>2. j + n \in 1 .. n + Len(r) /\ ~(j + n <= n) /\ (j + n) - n = j
      BY <1>1, <3>1
    <3>3. (q \o r)[j + n] = r[j]
      BY <1>3, <3>2
    <3> QED BY <1>2, <3>1, <3>2, <3>3 DEF Places
  <2> QED BY <2>1, <2>2, <2>3
<1>5. Places(q, S) \cap T = {}
  BY <1>1 DEF Places
<1>6. f \in Bijection(Places(r, S), T)
  <2>1. \A i \in Places(r, S) : i \in Nat
    BY <1>1 DEF Places
  <2>2. f \in [Places(r, S) -> T]
    OBVIOUS
  <2>3. \A a, b \in Places(r, S) : f[a] = f[b] => a = b
    BY <1>1, <2>1
  <2>4. \A t \in T : \E a \in Places(r, S) : f[a] = t
    OBVIOUS
  <2> QED BY <2>2, <2>3, <2>4 DEF Bijection, Injection, Surjection, IsInjective
<1>7. IsFiniteSet(Places(q, S)) /\ IsFiniteSet(Places(r, S))
  BY CountType
<1>8. IsFiniteSet(T) /\ Cardinality(T) = Cardinality(Places(r, S))
  BY <1>6, <1>7, FS_Bijection DEF ExistsBijection
<1> HIDE DEF T
<1>9. Cardinality(Places(q, S) \cup T) = Cardinality(Places(q, S)) + Cardinality(T) - 0
  <2>1. Cardinality(Places(q, S) \cup T)
          = Cardinality(Places(q, S)) + Cardinality(T) - Cardinality(Places(q, S) \cap T)
    BY <1>7, <1>8, FS_Union
  <2>2. Cardinality(Places(q, S) \cap T) = 0
    BY <1>5, FS_EmptySet
  <2> QED BY <2>1, <2>2
<1>10. Cardinality(Places(q, S)) \in Nat /\ Cardinality(T) \in Nat
  BY <1>7, <1>8, FS_CardinalityType
<1> QED BY <1>4, <1>8, <1>9, <1>10 DEF Count

LEMMA CountAppend ==
  ASSUME NEW M, NEW q \in Seq(M), NEW m \in M, NEW S
  PROVE  Count(Append(q, m), S) = Count(q, S) + One(m, S)
<1>1. Append(q, m) = q \o <<m>> /\ <<m>> \in Seq(M)
  BY AppendIsConcat
<1>2. Count(q \o <<m>>, S) = Count(q, S) + Count(<<m>>, S)
  BY <1>1, CountConcat
<1> QED BY <1>1, <1>2, CountSingle

LEMMA CountTail ==
  ASSUME NEW M, NEW q \in Seq(M), q # <<>>, NEW S
  PROVE  Count(q, S) = One(Head(q), S) + Count(Tail(q), S)
<1>1. q = <<Head(q)>> \o Tail(q) /\ <<Head(q)>> \in Seq(M) /\ Tail(q) \in Seq(M)
  OBVIOUS
<1>2. Count(<<Head(q)>> \o Tail(q), S) = Count(<<Head(q)>>, S) + Count(Tail(q), S)
  BY <1>1, CountConcat
<1> QED BY <1>1, <1>2, CountSingle

LEMMA CountNone ==
  ASSUME NEW M, NEW q \in Seq(M), NEW S, \A i \in DOMAIN q : q[i] \notin S
  PROVE  Count(q, S) = 0
<1>1. Places(q, S) = {}
  BY DEF Places
<1> QED BY <1>1, FS_EmptySet DEF Count

LEMMA CountAtMostOne ==
  ASSUME NEW M, NEW q \in Seq(M), NEW S, \A i, j \in DOMAIN q : q[i] \in S /\ q[j] \in S => i = j
  PROVE  Count(q, S) <= 1
<1>1. CASE Places(q, S) = {}
  BY <1>1, FS_EmptySet DEF Count
<1>2. CASE Places(q, S) # {}
  <2>1. PICK i : i \in Places(q, S)
    BY <1>2
  <2>2. Places(q, S) = {i}
    BY <2>1 DEF Places
  <2>3. Count(q, S) = 1
    BY <2>2, FS_Singleton DEF Count
  <2> QED BY <2>3
<1> QED BY <1>1, <1>2

-----------------------------------------------------------------------------
(* What is fresh, and its batches.                                         *)

LEMMA NatMin ==
  ASSUME NEW T \in SUBSET Nat, T # {}
  PROVE  \E x \in T : \A y \in T : x <= y
<1>1. PICK x \in T : \A y \in T : ~(<<y, x>> \in OpToRel(<, Nat))
  BY NatLessThanWellFounded, WFMin
<1>2. \A y \in T : ~(y < x)
  BY <1>1 DEF OpToRel
<1> QED BY <1>2

(* The elements of a set of numbers can be counted off in order.           *)
LEMMA Ranks ==
  ASSUME NEW len \in Nat, NEW K \in SUBSET (1 .. len), NEW n \in 1 .. Cardinality(K)
  PROVE  \E i \in K : Cardinality({j \in K : j <= i}) = n
<1> DEFINE Below(x) == {j \in K : j <= x}
           T == {x \in Nat : Cardinality(Below(x)) >= n}
<1>1. IsFiniteSet(K) /\ Cardinality(K) \in Nat
  <2>1. IsFiniteSet(1 .. len)
    BY FS_Interval
  <2>2. IsFiniteSet(K)
    BY <2>1, FS_Subset
  <2> QED BY <2>2, FS_CardinalityType
<1>2. \A x \in Nat : IsFiniteSet(Below(x)) /\ Cardinality(Below(x)) \in Nat
  <2> TAKE x \in Nat
  <2>1. Below(x) \in SUBSET K
    OBVIOUS
  <2> QED BY <1>1, <2>1, FS_Subset, FS_CardinalityType
<1>3. \A j \in K : j \in Nat /\ j # 0 /\ j <= len
  OBVIOUS
<1>4. len \in T
  <2>1. Below(len) = K
    BY <1>3
  <2>2. Cardinality(Below(len)) >= n
    BY <1>1, <2>1
  <2> QED BY <2>2
<1>5. PICK x \in T : \A y \in T : x <= y
  <2>1. T \in SUBSET Nat /\ T # {}
    BY <1>4
  <2> HIDE DEF T
  <2> QED BY <2>1, NatMin
<1>6. x \in Nat /\ Cardinality(Below(x)) >= n
  BY <1>5
<1>7. x # 0
  <2>0. \A j \in K : ~(j <= 0)
    BY <1>3
  <2>1. Below(0) = {}
    BY <2>0
  <2>2. Cardinality(Below(0)) = 0
    BY <2>1, FS_EmptySet
  <2> QED BY <1>6, <2>2
<1>8. x - 1 \in Nat /\ x - 1 \notin T
  <2>1. x - 1 \in Nat /\ ~(x <= x - 1)
    BY <1>6, <1>7
  <2> QED BY <1>5, <2>1
<1>9. Cardinality(Below(x - 1)) < n
  <2>1. ~(Cardinality(Below(x - 1)) >= n)
    BY <1>8
  <2>2. Cardinality(Below(x - 1)) \in Nat
    BY <1>2, <1>8
  <2> HIDE DEF Below
  <2> QED BY <1>1, <2>1, <2>2
<1>10. Below(x) \ {x} = Below(x - 1)
  <2>1. \A j \in K : (j <= x /\ j # x) <=> j <= x - 1
    BY <1>3, <1>6, <1>7
  <2> QED BY <2>1
<1>11. x \in K
  <2> SUFFICES ASSUME x \notin K PROVE FALSE
    OBVIOUS
  <2>1. Below(x) \ {x} = Below(x)
    OBVIOUS
  <2>2. Cardinality(Below(x)) = Cardinality(Below(x - 1))
    BY <1>10, <2>1
  <2>3. Cardinality(Below(x)) \in Nat
    BY <1>2, <1>6
  <2> HIDE DEF Below
  <2> QED BY <1>1, <1>6, <1>9, <2>2, <2>3
<1>12. x \in Below(x)
  BY <1>6, <1>11
<1> HIDE DEF Below
<1>13. Cardinality(Below(x - 1)) = Cardinality(Below(x)) - 1
  BY <1>2, <1>6, <1>10, <1>12, FS_RemoveElement
<1>14. Cardinality(Below(x)) = n
  <2>1. Cardinality(Below(x)) \in Nat
    BY <1>2, <1>6
  <2> QED BY <1>1, <1>6, <1>9, <1>13, <2>1
<1> QED BY <1>11, <1>14 DEF Below

(* Trickle announces nothing that is known, and nothing twice.             *)
LEMMA FreshFacts ==
  ASSUME invSendQueue \in Seq(Invs)
  PROVE  /\ Fresh \in Seq(Invs)
         /\ \A a, b \in DOMAIN Fresh : Fresh[a] = Fresh[b] => a = b
         /\ \A a \in DOMAIN Fresh : Fresh[a] \notin knownInventory
<1> DEFINE q == invSendQueue
           first(i) == \A j \in 1 .. (i - 1) : q[j] # q[i]
           keep == {i \in DOMAIN q : first(i) /\ q[i] \notin knownInventory}
           c(n) == CHOOSE i \in keep : Cardinality({j \in keep : j <= i}) = n
<1>1. DOMAIN q = 1 .. Len(q) /\ Len(q) \in Nat /\ \A i \in DOMAIN q : q[i] \in Invs
  OBVIOUS
<1>2. keep \in SUBSET (1 .. Len(q))
  BY <1>1
<1>3. Cardinality(keep) \in Nat
  <2>1. IsFiniteSet(1 .. Len(q))
    BY <1>1, FS_Interval
  <2>2. IsFiniteSet(keep)
    BY <1>2, <2>1, FS_Subset
  <2> QED BY <2>2, FS_CardinalityType
<1>4. Fresh = [n \in 1 .. Cardinality(keep) |-> q[c(n)]]
  BY DEF Fresh
<1>5. \A i, j \in keep : q[i] = q[j] => i = j
  <2> SUFFICES ASSUME NEW i \in keep, NEW j \in keep, i < j, q[i] = q[j] PROVE FALSE
    BY <1>2
  <2>1. i \in 1 .. j - 1
    BY <1>2
  <2>2. first(j)
    OBVIOUS
  <2> QED BY <2>1, <2>2
<1>6. \A i \in keep : q[i] \in Invs /\ q[i] \notin knownInventory
  BY <1>1
<1> HIDE DEF keep, q
<1>7. \A n \in 1 .. Cardinality(keep) : c(n) \in keep /\ Cardinality({j \in keep : j <= c(n)}) = n
  <2> TAKE n \in 1 .. Cardinality(keep)
  <2>1. \E i \in keep : Cardinality({j \in keep : j <= i}) = n
    BY <1>1, <1>2, Ranks
  <2> QED BY <2>1
<1> HIDE DEF c
<1>8. DOMAIN Fresh = 1 .. Cardinality(keep) /\ \A n \in 1 .. Cardinality(keep) : Fresh[n] = q[c(n)]
  BY <1>4
<1>9. Fresh \in [1 .. Cardinality(keep) -> Invs]
  BY <1>4, <1>6, <1>7
<1>10. Fresh \in Seq(Invs)
  BY <1>3, <1>9, SeqDef
<1>11. ASSUME NEW a \in DOMAIN Fresh, NEW b \in DOMAIN Fresh, Fresh[a] = Fresh[b] PROVE a = b
  <2>1. c(a) = c(b)
    BY <1>5, <1>7, <1>8, <1>11
  <2>2. Cardinality({j \in keep : j <= c(a)}) = a /\ Cardinality({j \in keep : j <= c(b)}) = b
    BY <1>7, <1>8
  <2> QED BY <2>1, <2>2
<1>12. \A a \in DOMAIN Fresh : Fresh[a] \notin knownInventory
  BY <1>6, <1>7, <1>8
<1> QED BY <1>10, <1>11, <1>12

(* A batch holds fresh inventory, and no two batches share any.            *)
Carrying(iv) == {m \in {InvMsg(S) : S \in SUBSET Invs} : iv \in m.id}

LEMMA BatchFacts ==
  ASSUME NEW s \in Seq(Invs), \A a, b \in DOMAIN s : s[a] = s[b] => a = b
  PROVE  /\ Batches(s) \in Seq({InvMsg(S) : S \in SUBSET Invs})
         /\ \A iv : Count(Batches(s), Carrying(iv)) <= 1
         /\ \A iv : iv \notin ToSet(s) => Count(Batches(s), Carrying(iv)) = 0
<1> DEFINE M == {InvMsg(S) : S \in SUBSET Invs}
           len == (Len(s) + MaxInvTrickleSize - 1) \div MaxInvTrickleSize
           batch(n) == {s[i] : i \in {j \in DOMAIN s : (j - 1) \div MaxInvTrickleSize = n - 1}}
<1>1. Batches(s) = [n \in 1 .. len |-> InvMsg(batch(n))]
  BY DEF Batches
<1>2. len \in Nat
  BY ConstantAssumption
<1>3. \A n : batch(n) \in SUBSET ToSet(s) /\ batch(n) \in SUBSET Invs
  BY DEF ToSet
<1>4. \A n : InvMsg(batch(n)) \in M
  BY <1>3
<1>5. \A n, o \in 1 .. len : \A iv : iv \in batch(n) /\ iv \in batch(o) => n = o
  <2> SUFFICES ASSUME NEW n \in 1 .. len, NEW o \in 1 .. len, NEW iv, iv \in batch(n), iv \in batch(o)
               PROVE  n = o
    OBVIOUS
  <2>1. PICK i \in DOMAIN s : iv = s[i] /\ (i - 1) \div MaxInvTrickleSize = n - 1
    OBVIOUS
  <2>2. PICK j \in DOMAIN s : iv = s[j] /\ (j - 1) \div MaxInvTrickleSize = o - 1
    OBVIOUS
  <2>3. i = j
    BY <2>1, <2>2
  <2>4. n - 1 = o - 1
    BY <2>1, <2>2, <2>3
  <2> HIDE DEF len
  <2> QED BY <1>2, <2>4
<1> HIDE DEF len, batch, M
<1>6. DOMAIN Batches(s) = 1 .. len /\ \A n \in 1 .. len : Batches(s)[n] = InvMsg(batch(n))
  BY <1>1
<1>7. Batches(s) \in Seq(M)
  <2>1. Batches(s) \in [1 .. len -> M]
    BY <1>1, <1>4
  <2> QED BY <1>2, <2>1, SeqDef
<1>8. \A iv : \A n \in DOMAIN Batches(s) : Batches(s)[n] \in Carrying(iv) => iv \in batch(n)
  BY <1>6 DEF Carrying, InvMsg
<1>9. ASSUME NEW iv PROVE Count(Batches(s), Carrying(iv)) <= 1
  <2>1. \A i, j \in DOMAIN Batches(s) : Batches(s)[i] \in Carrying(iv) /\ Batches(s)[j] \in Carrying(iv) => i = j
    BY <1>5, <1>6, <1>8
  <2> QED BY <1>7, <2>1, CountAtMostOne
<1>10. ASSUME NEW iv, iv \notin ToSet(s) PROVE Count(Batches(s), Carrying(iv)) = 0
  <2>1. \A i \in DOMAIN Batches(s) : Batches(s)[i] \notin Carrying(iv)
    BY <1>3, <1>8, <1>10
  <2> QED BY <1>7, <2>1, CountNone
<1> QED BY <1>7, <1>9, <1>10 DEF M

-----------------------------------------------------------------------------
(* The inductive invariant.                                                *)

Threads == Handlers \cup Senders \cup {"neg"}

Labels ==
  {"run", "error", "result", "wait", "failed", "check", "enqueue", "sent", "off", "done", "read", "tell",
   "start", "handled", "waitdone", "exit", "select", "drain", "writecheck", "write", "written", "waitqueue"}

Msgs ==
  {MsgOf(s) : s \in Senders} \cup {Reject} \cup {Pong(n) : n \in 0 .. MaxRecv} \cup {InvMsg(S) : S \in SUBSET Invs}

(* Where outHandler has a message that it has not written, or any.         *)
Sending == {"tell", "writecheck", "write"}
HasMsg == Sending \cup {"written"}

TypeInv ==
  /\ pc \in [Threads -> Labels]
  /\ disconnect \in BOOLEAN /\ versionKnown \in BOOLEAN /\ waiting \in BOOLEAN /\ ioStopped \in BOOLEAN
  /\ inQuit \in BOOLEAN /\ queueQuit \in BOOLEAN /\ outQuit \in BOOLEAN
  /\ negotiated \in {"no", "ok", "failed"}
  /\ negotiateErr \in {<<>>, <<"nil">>, <<"error">>}
  /\ stallControl = <<>> \/ \E x : stallControl = <<x>>
  /\ outputQueue \in Seq(Msgs) /\ pendingMsgs \in Seq(Msgs) /\ sendQueue \in Seq(Msgs) /\ unwritten \in Seq(Msgs)
  /\ outputInvChan \in Seq(Invs) /\ invSendQueue \in Seq(Invs) /\ knownInventory \in SUBSET Invs
  /\ outMsg \in Msgs \cup {None} /\ (pc["out"] \in HasMsg => outMsg \in Msgs)
  /\ signalled \in [WithDone \cup {"in"} -> Nat] /\ sendDoneQueue \in 0 .. 1
  /\ relayed \in [Invs -> Nat]
  /\ pendingResponses \in SUBSET Answers
  /\ received \in 0 .. MaxRecv

(* Until start goes on the handlers do not run; the handlers that end know *)
(* of the disconnect.                                                      *)
PlaceInv ==
  /\ pc["start"] = "wait" => \A h \in Handlers : pc[h] = "off"
  /\ pc["queue"] \in {"drain", "done"} => disconnect
  /\ pc["out"] = "waitqueue" => disconnect

(* What queueHandler took and was not written is what outHandler has, or   *)
(* is about to get, followed by what is pending.                           *)
Flight == IF sendQueue # <<>> THEN sendQueue ELSE IF pc["out"] \in Sending THEN <<outMsg>> ELSE <<>>

OrderInv ==
  /\ OneInFlight
  /\ ~waiting => pendingMsgs = <<>>
  /\ ~disconnect => unwritten = Flight \o pendingMsgs

(* The messages of a set that are queued, that outHandler has still to     *)
(* write, and that it has at all.                                          *)
Queued(S) == Count(outputQueue, S) + Count(pendingMsgs, S) + Count(sendQueue, S)
Unsent(S) == Queued(S) + (IF pc["out"] \in Sending THEN One(outMsg, S) ELSE 0)
Held(S) == Queued(S) + (IF pc["out"] \in HasMsg THEN One(outMsg, S) ELSE 0)

Own(s) == IF s = "in" THEN Reject ELSE MsgOf(s)

(* Whether a goroutine has yet to queue its message.                       *)
ToQueue(s) ==
  IF pc[s] \in (IF s = "in" THEN {"off", "read", "tell", "start", "handled", "check", "enqueue"}
                            ELSE {"check", "enqueue"})
    THEN 1 ELSE 0

(* A message with a done channel exists once or its signal was given.      *)
DoneTotal(s) == ToQueue(s) + Held({Own(s)}) + signalled[s]

(* The message of a caller exists once or was written.                     *)
WriteTotal(c) == ToQueue(c) + Unsent({MsgOf(c)}) + (IF c \in written THEN 1 ELSE 0)

(* A transaction is on its way or was announced, once, when it is known.   *)
RelayTotal(iv) == Unsent(Carrying(iv)) + relayed[iv]

DoneInv ==
  /\ \A s \in WithDone \cup {"in"} :
       DoneTotal(s) <= 1 /\ (signalled[s] # 0 => disconnect \/ s \in written)
  /\ pc["out"] = "written" => disconnect \/ outMsg.cmd \in {"inv", "pong"} \/ outMsg.id \in written

WriteInv == \A c \in Callers : WriteTotal(c) <= 1

RelayInv ==
  \A iv \in TxInvs : RelayTotal(iv) <= 1 /\ (iv \notin knownInventory => RelayTotal(iv) = 0)

(* The only request of its kind, once answered, was written and is not     *)
(* announced to stallHandler again.                                        *)
StallInv ==
  \A c \in Callers :
    c \in answered /\ (\A d \in Callers : Cmd[d] = Cmd[c] => d = c) =>
      /\ c \in written
      /\ Expects(Cmd[c]) \cap pendingResponses = {}
      /\ stallControl # <<>> /\ Expects(Cmd[c]) # {} =>
           ~(Head(stallControl).kind = "send" /\ Head(stallControl).cmd = Cmd[c])

IInv == TypeInv /\ PlaceInv /\ OrderInv /\ DoneInv /\ WriteInv /\ RelayInv /\ StallInv

-----------------------------------------------------------------------------
(* Messages, and who signals for them.                                     *)

LEMMA MsgFacts ==
  /\ \A s \in Senders : MsgOf(s) \in Msgs
  /\ Reject \in Msgs
  /\ \A n \in 0 .. MaxRecv : Pong(n) \in Msgs
  /\ \A S \in SUBSET Invs : InvMsg(S) \in Msgs
  /\ received \in 0 .. MaxRecv => Reply \in Msgs
  BY DEF Msgs, Reply

(* Every message with a done channel is the one of its sender.             *)
LEMMA DoneIsOwn ==
  ASSUME NEW m \in Msgs, NEW s \in WithDone \cup {"in"}
  PROVE  HasDone(m) /\ m.id = s <=> m \in {Own(s)}
<1>1. WithDone \subseteq Callers /\ "in" \notin Callers /\ "start" \notin Callers
  BY ConstantAssumption
<1>2. \A c \in Callers : Cmd[c] \in {"getdata", "getheaders", "ping", "addr"}
  BY ConstantAssumption
<1>3. CASE m = Reject
  <2>1. m.cmd = "reject" /\ m.id = "in"
    BY <1>3 DEF Reject
  <2>2. s # "in" => m # Own(s)
    <3> SUFFICES ASSUME s \in WithDone, m = MsgOf(s) PROVE FALSE
      BY DEF Own
    <3>1. m.id = s
      BY DEF MsgOf
    <3> QED BY <1>1, <2>1, <3>1
  <2> QED BY <1>3, <2>1, <2>2 DEF HasDone, Own
<1>4. CASE m.cmd \in {"pong", "inv"}
  <2>1. ~HasDone(m)
    BY <1>4 DEF HasDone
  <2>2. m # Own(s)
    BY <1>1, <1>2, <1>4 DEF Own, MsgOf, Reject
  <2> QED BY <2>1, <2>2
<1>5. ASSUME NEW c \in Senders, m = MsgOf(c) PROVE HasDone(m) /\ m.id = s <=> m \in {Own(s)}
  <2>1. m.id = c /\ m.cmd \in {"getdata", "getheaders", "ping", "addr", "verack"}
    BY <1>1, <1>2, <1>5 DEF MsgOf, Senders
  <2>2. c \in WithDone => HasDone(m)
    BY <2>1 DEF HasDone
  <2>3. HasDone(m) => c \in WithDone
    BY <2>1 DEF HasDone
  <2>4. c = s => m = Own(s)
    BY <1>1, <1>5 DEF Own, Senders
  <2>5. m = Own(s) => c = s
    <3>1. Own(s).id = s
      BY DEF Own, Reject, MsgOf
    <3> QED BY <2>1, <3>1
  <2>6. c # "in"
    BY <1>1 DEF Senders
  <2> QED BY <2>1, <2>2, <2>3, <2>4, <2>5, <2>6
<1>6. m \in {Pong(n) : n \in 0 .. MaxRecv} \cup {InvMsg(S) : S \in SUBSET Invs} => m.cmd \in {"pong", "inv"}
  BY DEF Pong, InvMsg
<1> QED BY <1>3, <1>4, <1>5, <1>6 DEF Msgs

LEMMA SignalFacts ==
  ASSUME TypeInv, NEW ms \in Seq(Msgs), Signal(ms)
  PROVE  /\ signalled' \in [WithDone \cup {"in"} -> Nat]
         /\ \A s \in WithDone \cup {"in"} : signalled'[s] = signalled[s] + Count(ms, {Own(s)})
<1>1. \A s \in WithDone \cup {"in"} : {i \in DOMAIN ms : HasDone(ms[i]) /\ ms[i].id = s} = Places(ms, {Own(s)})
  <2> TAKE s \in WithDone \cup {"in"}
  <2>1. \A i \in DOMAIN ms : HasDone(ms[i]) /\ ms[i].id = s <=> ms[i] \in {Own(s)}
    <3> TAKE i \in DOMAIN ms
    <3>1. ms[i] \in Msgs
      OBVIOUS
    <3> QED BY <3>1, DoneIsOwn
  <2> QED BY <2>1 DEF Places
<1>2. signalled' = [s \in WithDone \cup {"in"} |-> signalled[s] + Count(ms, {Own(s)})]
  BY <1>1 DEF Signal, Count
<1>3. \A s \in WithDone \cup {"in"} : Count(ms, {Own(s)}) \in Nat /\ signalled[s] \in Nat
  BY CountType DEF TypeInv
<1> QED BY <1>2, <1>3

(* One message that is signalled, as most are.                             *)
LEMMA SignalOne ==
  ASSUME TypeInv, NEW m \in Msgs, Signal(<<m>>)
  PROVE  /\ signalled' \in [WithDone \cup {"in"} -> Nat]
         /\ \A s \in WithDone \cup {"in"} : signalled'[s] = signalled[s] + One(m, {Own(s)})
<1>1. <<m>> \in Seq(Msgs)
  OBVIOUS
<1> QED BY <1>1, SignalFacts, CountSingle

(* What queuePacket does with the messages it is given.                    *)
LEMMA PacketFacts ==
  ASSUME TypeInv, NEW ms \in Seq(Msgs), QueuePackets(ms, pendingMsgs)
  PROVE  /\ unwritten' \in Seq(Msgs) /\ pendingMsgs' \in Seq(Msgs) /\ sendQueue' \in Seq(Msgs)
         /\ waiting' \in BOOLEAN
         /\ \A S : Count(pendingMsgs', S) + Count(sendQueue', S)
                     = Count(pendingMsgs, S) + Count(sendQueue, S) + Count(ms, S)
<1>1. pendingMsgs \in Seq(Msgs) /\ sendQueue \in Seq(Msgs) /\ unwritten \in Seq(Msgs) /\ waiting \in BOOLEAN
  BY DEF TypeInv
<1>2. \A S : Count(pendingMsgs, S) \in Nat /\ Count(sendQueue, S) \in Nat /\ Count(ms, S) \in Nat
  BY <1>1, CountType
<1>3. unwritten' \in Seq(Msgs) /\ waiting' \in BOOLEAN
  BY <1>1 DEF QueuePackets
<1>4. CASE ~waiting /\ ms # <<>>
  <2>1. Head(ms) \in Msgs /\ Tail(ms) \in Seq(Msgs)
    BY <1>4
  <2>2. sendQueue' = Append(sendQueue, Head(ms)) /\ pendingMsgs' = pendingMsgs \o Tail(ms)
    BY <1>4 DEF QueuePackets
  <2>3. sendQueue' \in Seq(Msgs) /\ pendingMsgs' \in Seq(Msgs)
    BY <1>1, <2>1, <2>2
  <2>4. ASSUME NEW S
        PROVE  Count(pendingMsgs', S) + Count(sendQueue', S)
                 = Count(pendingMsgs, S) + Count(sendQueue, S) + Count(ms, S)
    <3>1. Count(sendQueue', S) = Count(sendQueue, S) + One(Head(ms), S)
      BY <1>1, <2>1, <2>2, CountAppend
    <3>2. Count(pendingMsgs', S) = Count(pendingMsgs, S) + Count(Tail(ms), S)
      BY <1>1, <2>1, <2>2, CountConcat
    <3>3. Count(ms, S) = One(Head(ms), S) + Count(Tail(ms), S)
      BY <1>4, CountTail
    <3>4. Count(Tail(ms), S) \in Nat /\ One(Head(ms), S) \in Nat
      BY <2>1, CountType DEF One
    <3> QED BY <1>2, <3>1, <3>2, <3>3, <3>4
  <2> QED BY <1>3, <2>3, <2>4
<1>5. CASE ~(~waiting /\ ms # <<>>)
  <2>1. sendQueue' = sendQueue /\ pendingMsgs' = pendingMsgs \o ms
    BY <1>5 DEF QueuePackets
  <2>2. \A S : Count(pendingMsgs', S) = Count(pendingMsgs, S) + Count(ms, S)
    BY <1>1, <2>1, CountConcat
  <2>3. sendQueue' \in Seq(Msgs) /\ pendingMsgs' \in Seq(Msgs)
    BY <1>1, <2>1
  <2> QED BY <1>2, <1>3, <2>1, <2>2, <2>3
<1> QED BY <1>4, <1>5

-----------------------------------------------------------------------------
(* Types.                                                                  *)

LEMMA ThreadFacts ==
  /\ {"neg", "start", "in", "queue", "out", "stall"} \subseteq Threads
  /\ Senders \subseteq Threads
  /\ \A s \in Senders : s \notin {"in", "queue", "out", "stall", "neg"}
  BY ConstantAssumption DEF Threads, Handlers, Senders

LEMMA InitType == Init => TypeInv
<1> SUFFICES ASSUME Init PROVE TypeInv
  OBVIOUS
<1>1. pc \in [Threads -> Labels]
  BY DEF Init, Threads, Labels
<1>2. \A M : <<>> \in Seq(M)
  OBVIOUS
<1>3. pc["out"] = "off"
  BY ThreadFacts, ConstantAssumption DEF Init, Threads
<1>4. signalled \in [WithDone \cup {"in"} -> Nat] /\ relayed \in [Invs -> Nat] /\ received \in 0 .. MaxRecv
  BY ConstantAssumption DEF Init
<1>5. outMsg \in Msgs \cup {None} /\ ~(pc["out"] \in HasMsg)
  BY <1>3 DEF Init, HasMsg, Sending
<1>6. knownInventory \in SUBSET Invs /\ pendingResponses \in SUBSET Answers /\ sendDoneQueue \in 0 .. 1
  BY DEF Init
<1> QED BY <1>1, <1>2, <1>4, <1>5, <1>6 DEF Init, TypeInv

LEMMA NegotiateType ==
  ASSUME TypeInv, (\E ok \in BOOLEAN : Negotiate(ok)) \/ NegotiateSend \/ StartFails \/ Disconnect
  PROVE  TypeInv'
<1>1. /\ pc' \in [Threads -> Labels] /\ pc'["out"] = pc["out"]
      /\ negotiated' \in {"no", "ok", "failed"} /\ versionKnown' \in BOOLEAN /\ disconnect' \in BOOLEAN
      /\ negotiateErr' \in {<<>>, <<"nil">>, <<"error">>}
  BY ThreadFacts DEF TypeInv, Negotiate, NegotiateSend, StartFails, Disconnect, Goto, negVars, Labels
<1>2. UNCHANGED <<inMsg, outMsg, queueVars, outputQueue, sendQueue, sendDoneQueue, stallControl, stallVars,
                  quitVars, historyVars, signalled, announced, received>>
  BY DEF Negotiate, NegotiateSend, StartFails, Disconnect
<1> QED BY <1>1, <1>2 DEF TypeInv, queueVars, stallVars, quitVars, historyVars

LEMMA StartHandlersType ==
  ASSUME TypeInv, StartHandlers
  PROVE  TypeInv'
<1>1. pc' \in [Threads -> Labels] /\ pc'["out"] = "select"
  BY ThreadFacts DEF TypeInv, StartHandlers, Labels
<1>2. UNCHANGED <<disconnect, versionKnown, negotiated, inMsg, outMsg, queueVars, outputQueue, sendQueue,
                  sendDoneQueue, stallControl, stallVars, quitVars, historyVars, signalled, announced, received>>
      /\ negotiateErr' = <<>>
  BY DEF StartHandlers
<1> QED BY <1>1, <1>2 DEF TypeInv, queueVars, stallVars, quitVars, historyVars, HasMsg, Sending

LEMMA QueueCheckType ==
  ASSUME TypeInv, NEW s \in Senders, QueueCheck(s) \/ Enqueue(s)
  PROVE  TypeInv'
<1>1. pc' \in [Threads -> Labels] /\ pc'["out"] = pc["out"]
  BY ThreadFacts DEF TypeInv, QueueCheck, Enqueue, Goto, Labels
<1>2. UNCHANGED <<disconnect, negVars, inMsg, outMsg, queueVars, sendQueue, sendDoneQueue, stallControl,
                  stallVars, quitVars, historyVars, announced, received>>
  BY DEF QueueCheck, Enqueue
<1>3. MsgOf(s) \in Msgs
  BY MsgFacts
<1>4. signalled' \in [WithDone \cup {"in"} -> Nat]
  BY <1>3, SignalOne DEF QueueCheck, Enqueue, TypeInv
<1>5. outputQueue' \in Seq(Msgs)
  <2>1. outputQueue' = outputQueue \/ outputQueue' = Append(outputQueue, MsgOf(s))
    BY DEF QueueCheck, Enqueue
  <2>2. outputQueue \in Seq(Msgs)
    BY DEF TypeInv
  <2> QED BY <1>3, <2>1, <2>2
<1> QED BY <1>1, <1>2, <1>4, <1>5 DEF TypeInv, negVars, queueVars, stallVars, quitVars, historyVars

LEMMA QueueInventoryType ==
  ASSUME TypeInv, NEW iv \in Invs, QueueInventory(iv)
  PROVE  TypeInv'
<1>1. outputInvChan' \in Seq(Invs)
  BY DEF QueueInventory, TypeInv
<1> QED BY <1>1 DEF QueueInventory, TypeInv, negVars, stallVars, quitVars, historyVars

LEMMA InType ==
  ASSUME TypeInv, (\E cmd \in RecvCmds : Receive(cmd)) \/ ReadFails \/ InStep
  PROVE  TypeInv'
<1>1. UNCHANGED <<negVars, outMsg, queueVars, sendQueue, sendDoneQueue, stallVars, queueQuit, outQuit,
                  historyVars, announced>>
  BY DEF Receive, ReadFails, InStep, InTellStall, InQueueCheck, InEnqueue, RejectSent, InExit, InUnchanged
<1>2. pc' \in [Threads -> Labels] /\ pc'["out"] = pc["out"]
  BY ThreadFacts DEF Receive, ReadFails, InStep, InTellStall, InQueueCheck, InEnqueue, RejectSent, InExit,
                     Goto, Handle, Labels, TypeInv
<1>3. Reply \in Msgs
  BY MsgFacts DEF TypeInv
<1>4. signalled' \in [WithDone \cup {"in"} -> Nat]
  <2>1. CASE InQueueCheck /\ disconnect
    BY <1>3, <2>1, SignalOne DEF InQueueCheck
  <2>2. CASE ~(InQueueCheck /\ disconnect)
    BY <2>2 DEF Receive, ReadFails, InStep, InTellStall, InQueueCheck, InEnqueue, RejectSent, InExit, TypeInv
  <2> QED BY <2>1, <2>2
<1>5. outputQueue' \in Seq(Msgs)
  <2>1. outputQueue' = outputQueue \/ outputQueue' = Append(outputQueue, Reply)
    BY DEF Receive, ReadFails, InStep, InTellStall, InQueueCheck, InEnqueue, RejectSent, InExit
  <2>2. outputQueue \in Seq(Msgs)
    BY DEF TypeInv
  <2> QED BY <1>3, <2>1, <2>2
<1>6. stallControl' = <<>> \/ \E x : stallControl' = <<x>>
  BY DEF Receive, ReadFails, InStep, InTellStall, InQueueCheck, InEnqueue, RejectSent, InExit, TypeInv
<1>7. received' \in 0 .. MaxRecv
  BY ConstantAssumption
  DEF Receive, ReadFails, InStep, InTellStall, InQueueCheck, InEnqueue, RejectSent, InExit, TypeInv
<1>8. disconnect' \in BOOLEAN /\ inQuit' \in BOOLEAN
  BY DEF Receive, ReadFails, InStep, InTellStall, InQueueCheck, InEnqueue, RejectSent, InExit, TypeInv
<1> QED BY <1>1, <1>2, <1>4, <1>5, <1>6, <1>7, <1>8 DEF TypeInv, negVars, queueVars, stallVars, historyVars

(* What QueueInv and Trickle hand to queuePacket.                          *)
LEMMA InvPackets ==
  ASSUME TypeInv
  PROVE  /\ outputInvChan # <<>> /\ Head(outputInvChan) \in BlockInvs => <<InvMsg({Head(outputInvChan)})>> \in Seq(Msgs)
         /\ Batches(Fresh) \in Seq(Msgs)
         /\ ToSet(Fresh) \in SUBSET Invs
<1>1. Fresh \in Seq(Invs) /\ \A a, b \in DOMAIN Fresh : Fresh[a] = Fresh[b] => a = b
  BY FreshFacts DEF TypeInv
<1>2. Batches(Fresh) \in Seq({InvMsg(S) : S \in SUBSET Invs})
  BY <1>1, BatchFacts
<1>3. {InvMsg(S) : S \in SUBSET Invs} \subseteq Msgs
  BY DEF Msgs
<1>4. Batches(Fresh) \in Seq(Msgs)
  BY <1>2, <1>3, SeqMonotonic
<1>5. ASSUME outputInvChan # <<>>, Head(outputInvChan) \in BlockInvs PROVE <<InvMsg({Head(outputInvChan)})>> \in Seq(Msgs)
  <2>1. {Head(outputInvChan)} \in SUBSET Invs
    BY <1>5 DEF Invs
  <2>2. InvMsg({Head(outputInvChan)}) \in Msgs
    BY <1>3, <2>1
  <2> QED BY <2>2
<1>6. ToSet(Fresh) \in SUBSET Invs
  BY <1>1 DEF ToSet
<1> QED BY <1>4, <1>5, <1>6

LEMMA QueueType ==
  ASSUME TypeInv, QueueStep
  PROVE  TypeInv'
<1>1. /\ outputQueue \in Seq(Msgs) /\ pendingMsgs \in Seq(Msgs) /\ sendQueue \in Seq(Msgs) /\ unwritten \in Seq(Msgs)
      /\ outputInvChan \in Seq(Invs) /\ invSendQueue \in Seq(Invs) /\ knownInventory \in SUBSET Invs
  BY DEF TypeInv
<1>2. UNCHANGED <<disconnect, negVars, inMsg, outMsg, stallControl, stallVars, inQuit, outQuit, written, relayed,
                  announced, received>>
  BY DEF QueueStep, QueueTake, QueueSendDone, QueueInv, Trickle, QueueSeesQuit, QueueDrain, QueueExit, QueueUnchanged
<1>3. pc' \in [Threads -> Labels] /\ pc'["out"] = pc["out"] /\ sendDoneQueue' \in 0 .. 1 /\ queueQuit' \in BOOLEAN
  <2>1. pc' = pc \/ pc' = [pc EXCEPT !["queue"] = "drain"] \/ pc' = [pc EXCEPT !["queue"] = "done"]
    BY DEF QueueStep, QueueTake, QueueSendDone, QueueInv, Trickle, QueueSeesQuit, QueueDrain, QueueExit, Goto
  <2>2. pc' \in [Threads -> Labels] /\ pc'["out"] = pc["out"]
    BY <2>1, ThreadFacts DEF TypeInv, Labels
  <2>3. sendDoneQueue' = sendDoneQueue \/ (sendDoneQueue > 0 /\ sendDoneQueue' = sendDoneQueue - 1)
    BY DEF QueueStep, QueueTake, QueueSendDone, QueueInv, Trickle, QueueSeesQuit, QueueDrain, QueueExit
  <2>4. sendDoneQueue' \in 0 .. 1
    BY <2>3 DEF TypeInv
  <2>5. queueQuit' \in BOOLEAN
    BY DEF QueueStep, QueueTake, QueueSendDone, QueueInv, Trickle, QueueSeesQuit, QueueDrain, QueueExit, TypeInv
  <2> QED BY <2>2, <2>4, <2>5
<1>4. /\ outputQueue' \in Seq(Msgs)
      /\ outputInvChan' \in Seq(Invs) /\ invSendQueue' \in Seq(Invs) /\ knownInventory' \in SUBSET Invs
  <2>1. outputQueue' = outputQueue \/ (outputQueue # <<>> /\ outputQueue' = Tail(outputQueue))
    BY DEF QueueStep, QueueTake, QueueSendDone, QueueInv, Trickle, QueueSeesQuit, QueueDrain, QueueExit
  <2>2. outputInvChan' = outputInvChan \/ (outputInvChan # <<>> /\ outputInvChan' = Tail(outputInvChan))
    BY DEF QueueStep, QueueTake, QueueSendDone, QueueInv, Trickle, QueueSeesQuit, QueueDrain, QueueExit, queueVars
  <2>3. \/ invSendQueue' \in {invSendQueue, <<>>}
        \/ outputInvChan # <<>> /\ invSendQueue' = Append(invSendQueue, Head(outputInvChan))
    BY DEF QueueStep, QueueTake, QueueSendDone, QueueInv, Trickle, QueueSeesQuit, QueueDrain, QueueExit, queueVars
  <2>4. knownInventory' \in {knownInventory, knownInventory \cup ToSet(Fresh)}
    BY DEF QueueStep, QueueTake, QueueSendDone, QueueInv, Trickle, QueueSeesQuit, QueueDrain, QueueExit, queueVars
  <2>5. invSendQueue' \in Seq(Invs)
    <3>1. outputInvChan # <<>> => Append(invSendQueue, Head(outputInvChan)) \in Seq(Invs)
      BY <1>1, HeadTailProperties, AppendProperties
    <3>2. <<>> \in Seq(Invs)
      OBVIOUS
    <3> QED BY <1>1, <2>3, <3>1, <3>2
  <2>6. outputQueue' \in Seq(Msgs) /\ outputInvChan' \in Seq(Invs)
    <3>1. (outputQueue # <<>> => Tail(outputQueue) \in Seq(Msgs)) /\ (outputInvChan # <<>> => Tail(outputInvChan) \in Seq(Invs))
      BY <1>1, HeadTailProperties
    <3> QED BY <1>1, <2>1, <2>2, <3>1
  <2> QED BY <1>1, <2>4, <2>5, <2>6, InvPackets
<1>5. /\ pendingMsgs' \in Seq(Msgs) /\ sendQueue' \in Seq(Msgs) /\ unwritten' \in Seq(Msgs)
      /\ waiting' \in BOOLEAN /\ signalled' \in [WithDone \cup {"in"} -> Nat]
  <2>0. waiting \in BOOLEAN /\ signalled \in [WithDone \cup {"in"} -> Nat]
    BY DEF TypeInv
  <2>1. CASE QueueTake
    <3>1. <<Head(outputQueue)>> \in Seq(Msgs) /\ QueuePackets(<<Head(outputQueue)>>, pendingMsgs) /\ UNCHANGED signalled
      BY <1>1, <2>1 DEF QueueTake
    <3> QED BY <2>0, <3>1, PacketFacts
  <2>2. CASE QueueSendDone
    <3>1. unwritten' = unwritten /\ signalled' = signalled /\ waiting' \in BOOLEAN
      BY <2>2 DEF QueueSendDone
    <3>2. \/ sendQueue' = sendQueue /\ pendingMsgs' = pendingMsgs
          \/ /\ pendingMsgs # <<>> /\ pendingMsgs' = Tail(pendingMsgs)
             /\ sendQueue' = Append(sendQueue, Head(pendingMsgs))
      BY <2>2 DEF QueueSendDone
    <3>3. pendingMsgs # <<>> => Tail(pendingMsgs) \in Seq(Msgs) /\ Append(sendQueue, Head(pendingMsgs)) \in Seq(Msgs)
      BY <1>1, HeadTailProperties, AppendProperties
    <3> QED BY <1>1, <2>0, <3>1, <3>2, <3>3
  <2>3. CASE QueueInv
    <3>1. PICK ms \in Seq(Msgs) : QueuePackets(ms, pendingMsgs)
      <4>1. CASE versionKnown /\ Head(outputInvChan) \in BlockInvs
        BY <2>3, <4>1, InvPackets DEF QueueInv
      <4>2. CASE ~(versionKnown /\ Head(outputInvChan) \in BlockInvs)
        <5>1. QueuePackets(<<>>, pendingMsgs) /\ <<>> \in Seq(Msgs)
          BY <2>3, <4>2 DEF QueueInv
        <5> QED BY <5>1
      <4> QED BY <4>1, <4>2
    <3>2. UNCHANGED signalled
      BY <2>3 DEF QueueInv
    <3> QED BY <2>0, <3>1, <3>2, PacketFacts
  <2>4. CASE Trickle
    <3>1. Batches(Fresh) \in Seq(Msgs) /\ QueuePackets(Batches(Fresh), pendingMsgs) /\ UNCHANGED signalled
      BY <2>4, InvPackets DEF Trickle
    <3> QED BY <2>0, <3>1, PacketFacts
  <2>5. CASE QueueSeesQuit
    <3>1. Signal(pendingMsgs) /\ pendingMsgs' = <<>> /\ UNCHANGED <<sendQueue, unwritten, waiting>>
      BY <2>5 DEF QueueSeesQuit
    <3>2. signalled' \in [WithDone \cup {"in"} -> Nat]
      BY <1>1, <3>1, SignalFacts
    <3> QED BY <1>1, <2>0, <3>1, <3>2
  <2>6. CASE QueueDrain
    <3>1. UNCHANGED <<sendQueue, unwritten, waiting, pendingMsgs>>
      BY <2>6 DEF QueueDrain
    <3>2. signalled' \in [WithDone \cup {"in"} -> Nat]
      <4>1. CASE outputQueue # <<>>
        <5>1. Head(outputQueue) \in Msgs /\ Signal(<<Head(outputQueue)>>)
          BY <1>1, <2>6, <4>1 DEF QueueDrain
        <5> QED BY <5>1, SignalOne
      <4>2. CASE outputQueue = <<>>
        BY <2>0, <2>6, <4>2 DEF QueueDrain
      <4> QED BY <4>1, <4>2
    <3> QED BY <1>1, <2>0, <3>1, <3>2
  <2>7. CASE QueueExit
    BY <1>1, <2>0, <2>7 DEF QueueExit, queueVars
  <2> QED BY <2>1, <2>2, <2>3, <2>4, <2>5, <2>6, <2>7 DEF QueueStep
<1> QED BY <1>2, <1>3, <1>4, <1>5 DEF TypeInv, negVars, stallVars

LEMMA OutType ==
  ASSUME TypeInv, OrderInv, OutStep \/ WriteFails
  PROVE  TypeInv'
<1>1. /\ sendQueue \in Seq(Msgs) /\ unwritten \in Seq(Msgs) /\ pendingMsgs \in Seq(Msgs)
      /\ outMsg \in Msgs \cup {None} /\ (pc["out"] \in HasMsg => outMsg \in Msgs)
      /\ pc \in [Threads -> Labels] /\ "out" \in Threads
  BY ThreadFacts DEF TypeInv
<1>2. UNCHANGED <<negVars, inMsg, queueVars, outputQueue, stallVars, inQuit, queueQuit, announced, received>>
  BY DEF OutStep, OutTake, OutTellStall, WriteCheck, Write, WriteFails, OutDone, OutSeesQuit, OutExit, OutUnchanged
<1>3. \E l \in Labels : pc' = [pc EXCEPT !["out"] = l]
  BY DEF OutStep, OutTake, OutTellStall, WriteCheck, Write, WriteFails, OutDone, OutSeesQuit, OutExit, Goto, Labels
<1>4. pc' \in [Threads -> Labels]
  BY <1>1, <1>3
<1>5. disconnect' \in BOOLEAN /\ outQuit' \in BOOLEAN /\ sendDoneQueue' \in 0 .. 1
  <2>1. disconnect' \in {disconnect, TRUE} /\ outQuit' \in {outQuit, TRUE} /\ sendDoneQueue' \in {sendDoneQueue, 1}
    BY DEF OutStep, OutTake, OutTellStall, WriteCheck, Write, WriteFails, OutDone, OutSeesQuit, OutExit
  <2>2. disconnect \in BOOLEAN /\ outQuit \in BOOLEAN /\ sendDoneQueue \in 0 .. 1
    BY DEF TypeInv
  <2>3. disconnect' \in BOOLEAN /\ outQuit' \in BOOLEAN
    BY <2>1, <2>2
  <2>4. sendDoneQueue' \in 0 .. 1
    BY <2>1, <2>2
  <2> QED BY <2>3, <2>4
<1>10. stallControl' = <<>> \/ \E x : stallControl' = <<x>>
  <2>1. stallControl' = stallControl \/ stallControl' = <<[kind |-> "send", cmd |-> outMsg.cmd]>>
    BY DEF OutStep, OutTake, OutTellStall, WriteCheck, Write, WriteFails, OutDone, OutSeesQuit, OutExit
  <2> QED BY <2>1 DEF TypeInv
<1>6. sendQueue' \in Seq(Msgs)
  <2>1. sendQueue' \in {sendQueue, <<>>} \/ (sendQueue # <<>> /\ sendQueue' = Tail(sendQueue))
    BY DEF OutStep, OutTake, OutTellStall, WriteCheck, Write, WriteFails, OutDone, OutSeesQuit, OutExit
  <2>2. (sendQueue # <<>> => Tail(sendQueue) \in Seq(Msgs)) /\ <<>> \in Seq(Msgs)
    BY <1>1, HeadTailProperties
  <2> QED BY <1>1, <2>1, <2>2
<1>7. outMsg' \in Msgs \cup {None} /\ (pc'["out"] \in HasMsg => outMsg' \in Msgs)
  <2>1. CASE OutTake
    <3>1. outMsg' = Head(sendQueue) /\ sendQueue # <<>>
      BY <2>1 DEF OutTake
    <3> QED BY <1>1, <3>1, HeadTailProperties
  <2>2. CASE OutTellStall \/ WriteCheck \/ Write
    <3>1. outMsg' = outMsg /\ pc["out"] \in HasMsg
      BY <2>2 DEF OutTellStall, WriteCheck, Write, HasMsg, Sending
    <3> QED BY <1>1, <3>1
  <2>3. CASE WriteFails \/ OutDone \/ OutSeesQuit \/ OutExit
    <3>1. outMsg' \in {outMsg, None} /\ pc'["out"] \in {"select", "waitqueue", "done"}
      BY <1>1, <2>3 DEF WriteFails, OutDone, OutSeesQuit, OutExit, Goto
    <3> QED BY <1>1, <3>1 DEF HasMsg, Sending
  <2> QED BY <2>1, <2>2, <2>3 DEF OutStep
<1>8. signalled' \in [WithDone \cup {"in"} -> Nat]
  <2>1. CASE WriteFails \/ OutDone
    <3>1. outMsg \in Msgs /\ Signal(<<outMsg>>)
      BY <1>1, <2>1 DEF WriteFails, OutDone, HasMsg, Sending
    <3> QED BY <3>1, SignalOne
  <2>2. CASE OutExit
    <3>1. Signal(sendQueue)
      BY <2>2 DEF OutExit
    <3> QED BY <1>1, <3>1, SignalFacts
  <2>3. CASE OutTake \/ OutTellStall \/ WriteCheck \/ Write \/ OutSeesQuit
    BY <2>3 DEF OutTake, OutTellStall, WriteCheck, Write, OutSeesQuit, TypeInv
  <2> QED BY <2>1, <2>2, <2>3 DEF OutStep
<1>9. unwritten' \in Seq(Msgs) /\ relayed' \in [Invs -> Nat]
  <2>1. CASE Write
    <3>1. pc["out"] = "write" /\ unwritten = Flight \o pendingMsgs /\ outMsg \in Msgs
      BY <1>1, <2>1 DEF Write, OrderInv, HasMsg, Sending
    <3>2. unwritten # <<>>
      <4>1. Flight \in Seq(Msgs) /\ Flight # <<>>
        BY <1>1, <3>1 DEF Flight, Sending
      <4> QED BY <1>1, <3>1, <4>1
    <3>3. Tail(unwritten) \in Seq(Msgs)
      BY <1>1, <3>2, HeadTailProperties
    <3>4. relayed' \in [Invs -> Nat]
      BY <2>1 DEF Write, TypeInv
    <3> QED BY <2>1, <3>3, <3>4 DEF Write
  <2>2. CASE ~Write
    BY <2>2 DEF OutStep, OutTake, OutTellStall, WriteCheck, WriteFails, OutDone, OutSeesQuit, OutExit,
                historyVars, TypeInv
  <2> QED BY <2>1, <2>2
<1> QED BY <1>2, <1>4, <1>5, <1>6, <1>7, <1>8, <1>9, <1>10 DEF TypeInv, negVars, queueVars, stallVars

LEMMA StallType ==
  ASSUME TypeInv, StallStep \/ StallTick
  PROVE  TypeInv'
<1>1. UNCHANGED <<negVars, inMsg, outMsg, queueVars, outputQueue, sendQueue, sendDoneQueue, quitVars, historyVars,
                  signalled, announced, received>>
  BY DEF StallStep, StallTick, StallControl, StallSeesQuit, StallExit, StallUnchanged
<1>2. pc' \in [Threads -> Labels] /\ pc'["out"] = pc["out"]
  BY ThreadFacts DEF StallStep, StallTick, StallControl, StallSeesQuit, StallExit, Goto, TypeInv, Labels
<1>3. disconnect' \in BOOLEAN /\ ioStopped' \in BOOLEAN /\ (stallControl' = <<>> \/ \E x : stallControl' = <<x>>)
  BY DEF StallStep, StallTick, StallControl, StallSeesQuit, StallExit, TypeInv, stallVars
<1>4. pendingResponses' \in SUBSET Answers
  <2>1. \A cmd : Expects(cmd) \in SUBSET Answers
    BY DEF Expects, Answers
  <2>2. \/ pendingResponses' = pendingResponses
        \/ \E cmd : pendingResponses' = pendingResponses \cup Expects(cmd)
        \/ \E cmd : pendingResponses' = pendingResponses \ Settles(cmd)
    BY DEF StallStep, StallTick, StallControl, StallSeesQuit, StallExit, stallVars
  <2> QED BY <2>1, <2>2 DEF TypeInv
<1> QED BY <1>1, <1>2, <1>3, <1>4 DEF TypeInv, negVars, queueVars, quitVars, historyVars

LEMMA TypeStep ==
  ASSUME IInv, Next
  PROVE  TypeInv'
  BY NegotiateType, StartHandlersType, QueueCheckType, QueueInventoryType, InType, QueueType, OutType, StallType
  DEF IInv, Next

-----------------------------------------------------------------------------
(* Where the goroutines are.                                               *)

(* A disconnect is for ever, and so is a write.                            *)
LEMMA Forever ==
  ASSUME TypeInv, Next
  PROVE  (disconnect => disconnect') /\ written \subseteq written'
<1>1. CASE (\E ok \in BOOLEAN : Negotiate(ok)) \/ NegotiateSend \/ StartHandlers \/ StartFails \/ Disconnect
  BY <1>1 DEF Negotiate, NegotiateSend, StartHandlers, StartFails, Disconnect, historyVars
<1>2. CASE (\E s \in Senders : QueueCheck(s) \/ Enqueue(s)) \/ \E iv \in Invs : QueueInventory(iv)
  <2>1. UNCHANGED <<disconnect, historyVars>>
    BY <1>2 DEF QueueCheck, Enqueue, QueueInventory
  <2> QED BY <2>1 DEF historyVars
<1>3. CASE (\E cmd \in RecvCmds : Receive(cmd)) \/ ReadFails \/ InStep
  BY <1>3 DEF Receive, ReadFails, InStep, InTellStall, InQueueCheck, InEnqueue, RejectSent, InExit, InUnchanged, historyVars
<1>4. CASE QueueStep
  BY <1>4 DEF QueueStep, QueueTake, QueueSendDone, QueueInv, Trickle, QueueSeesQuit, QueueDrain, QueueExit, QueueUnchanged
<1>5. CASE OutStep \/ WriteFails
  BY <1>5 DEF OutStep, OutTake, OutTellStall, WriteCheck, Write, WriteFails, OutDone, OutSeesQuit, OutExit, historyVars
<1>6. CASE StallStep \/ StallTick
  BY <1>6 DEF StallStep, StallTick, StallControl, StallSeesQuit, StallExit, StallUnchanged, historyVars
<1> QED BY <1>1, <1>2, <1>3, <1>4, <1>5, <1>6 DEF Next

(* A step of one goroutine moves that goroutine only.                      *)
LEMMA NegMoves ==
  ASSUME TypeInv, (\E ok \in BOOLEAN : Negotiate(ok)) \/ NegotiateSend \/ StartFails \/ Disconnect
  PROVE  /\ \A t \in Threads \ {"neg", "start"} : pc'[t] = pc[t]
         /\ pc'["start"] \in {pc["start"], "failed"}
  BY ThreadFacts DEF TypeInv, Negotiate, NegotiateSend, StartFails, Disconnect, Goto

LEMMA StartMoves ==
  ASSUME TypeInv, PlaceInv, StartHandlers
  PROVE  /\ \A t \in Threads \ (Handlers \cup {"start"}) : pc'[t] = pc[t]
         /\ pc'["start"] = "check" /\ pc["in"] = "off" /\ pc'["in"] = "read" /\ pc["queue"] = "off"
         /\ pc'["queue"] = "select" /\ pc["out"] = "off" /\ pc'["out"] = "select"
<1>1. pc["in"] = "off" /\ pc["queue"] = "off" /\ pc["out"] = "off"
  BY DEF PlaceInv, StartHandlers, Handlers
<1> QED BY <1>1, ThreadFacts DEF TypeInv, StartHandlers, Handlers

LEMMA InMoves ==
  ASSUME TypeInv, (\E cmd \in RecvCmds : Receive(cmd)) \/ ReadFails \/ InStep
  PROVE  (\A t \in Threads \ {"in"} : pc'[t] = pc[t]) /\ pc["in"] # "off"
<1>1. \E l : pc' = [pc EXCEPT !["in"] = l]
  <2>1. CASE InQueueCheck \/ InEnqueue \/ RejectSent \/ InExit
    BY <2>1 DEF InQueueCheck, InEnqueue, RejectSent, InExit, Goto
  <2>2. CASE ~(InQueueCheck \/ InEnqueue \/ RejectSent \/ InExit)
    BY <2>2 DEF Receive, ReadFails, InStep, InTellStall, Goto
  <2> QED BY <2>1, <2>2
<1>2. pc["in"] # "off"
  BY DEF Receive, ReadFails, InStep, InTellStall, InQueueCheck, InEnqueue, RejectSent, InExit
<1> QED BY <1>1, <1>2, ThreadFacts DEF TypeInv

LEMMA QueueMoves ==
  ASSUME TypeInv, QueueStep
  PROVE  /\ \A t \in Threads \ {"queue"} : pc'[t] = pc[t]
         /\ pc["queue"] # "off"
         /\ pc'["queue"] \in {"drain", "done"} => disconnect \/ pc["queue"] \in {"drain", "done"}
  BY ThreadFacts
  DEF TypeInv, QueueStep, QueueTake, QueueSendDone, QueueInv, Trickle, QueueSeesQuit, QueueDrain, QueueExit, Goto

LEMMA OutMoves ==
  ASSUME TypeInv, OutStep \/ WriteFails
  PROVE  /\ \A t \in Threads \ {"out"} : pc'[t] = pc[t]
         /\ pc["out"] # "off"
         /\ pc'["out"] = "waitqueue" => disconnect
  BY ThreadFacts
  DEF TypeInv, OutStep, OutTake, OutTellStall, WriteCheck, Write, WriteFails, OutDone, OutSeesQuit, OutExit, Goto

LEMMA StallMoves ==
  ASSUME TypeInv, StallStep \/ StallTick
  PROVE  (\A t \in Threads \ {"stall"} : pc'[t] = pc[t]) /\ (pc["stall"] # "off" \/ pc' = pc)
  BY ThreadFacts DEF TypeInv, StallStep, StallTick, StallControl, StallSeesQuit, StallExit, Goto

LEMMA PlaceStep ==
  ASSUME IInv, Next
  PROVE  PlaceInv'
<1>0. TypeInv /\ PlaceInv /\ (disconnect => disconnect')
  BY Forever DEF IInv
<1>1. CASE (\E ok \in BOOLEAN : Negotiate(ok)) \/ NegotiateSend \/ StartFails \/ Disconnect
  BY <1>0, <1>1, NegMoves, ThreadFacts DEF PlaceInv, Handlers
<1>2. CASE StartHandlers
  BY <1>0, <1>2, StartMoves DEF PlaceInv
<1>3. ASSUME NEW s \in Senders, QueueCheck(s) \/ Enqueue(s) PROVE PlaceInv'
  <2>1. \A t \in Threads \ {s} : pc'[t] = pc[t]
    BY <1>0, <1>3 DEF QueueCheck, Enqueue, Goto, TypeInv
  <2>2. pc'[s] # "wait" /\ pc[s] # "wait"
    BY <1>0, <1>3, ThreadFacts DEF QueueCheck, Enqueue, Goto, TypeInv
  <2> QED BY <1>0, <2>1, <2>2, ThreadFacts DEF PlaceInv, Handlers
<1>4. CASE \E iv \in Invs : QueueInventory(iv)
  BY <1>0, <1>4 DEF QueueInventory, PlaceInv
<1>5. CASE (\E cmd \in RecvCmds : Receive(cmd)) \/ ReadFails \/ InStep
  BY <1>0, <1>5, InMoves, ThreadFacts DEF PlaceInv, Handlers
<1>6. CASE QueueStep
  BY <1>0, <1>6, QueueMoves, ThreadFacts DEF PlaceInv, Handlers
<1>7. CASE OutStep \/ WriteFails
  BY <1>0, <1>7, OutMoves, ThreadFacts DEF PlaceInv, Handlers
<1>8. CASE StallStep \/ StallTick
  BY <1>0, <1>8, StallMoves, ThreadFacts DEF PlaceInv, Handlers
<1> QED BY <1>1, <1>2, <1>3, <1>4, <1>5, <1>6, <1>7, <1>8 DEF Next

-----------------------------------------------------------------------------
(* The hand-off from queueHandler to outHandler.                           *)

(* What is on its way: a message, or the signal that comes back.           *)
OutBusy == IF pc["out"] \in HasMsg THEN 1 ELSE 0
InFlight == Len(sendQueue) + OutBusy + sendDoneQueue

LEMMA OneInFlightAlt == OneInFlight <=> InFlight <= 1 /\ (~waiting => InFlight = 0)
  BY DEF OneInFlight, InFlight, OutBusy, HasMsg, Sending

LEMMA OrderSame ==
  ASSUME TypeInv, OrderInv, UNCHANGED <<sendQueue, sendDoneQueue, waiting, pendingMsgs, unwritten, outMsg>>,
         disconnect => disconnect',
         \/ pc'["out"] = pc["out"]
         \/ pc["out"] \notin HasMsg /\ pc'["out"] \notin HasMsg
         \/ pc["out"] \in Sending /\ pc'["out"] \in Sending
  PROVE  OrderInv'
<1>1. (pc["out"] \in HasMsg <=> pc'["out"] \in HasMsg) /\ (pc["out"] \in Sending <=> pc'["out"] \in Sending)
  BY DEF HasMsg
<1>2. OutBusy' = OutBusy /\ InFlight' = InFlight
  BY <1>1 DEF OutBusy, InFlight
<1>3. OneInFlight'
  <2>1. InFlight <= 1 /\ (~waiting => InFlight = 0)
    BY OneInFlightAlt DEF OrderInv
  <2>2. OneInFlight' <=> InFlight' <= 1 /\ (~waiting' => InFlight' = 0)
    BY DEF OneInFlight, InFlight, OutBusy, HasMsg, Sending
  <2> QED BY <1>2, <2>1, <2>2
<1>4. Flight' = Flight
  BY <1>1 DEF Flight
<1> QED BY <1>3, <1>4 DEF OrderInv

LEMMA OrderPackets ==
  ASSUME TypeInv, OrderInv, NEW ms \in Seq(Msgs), QueuePackets(ms, pendingMsgs),
         UNCHANGED <<pc, sendDoneQueue, outMsg, disconnect>>
  PROVE  OrderInv'
<1>1. pendingMsgs \in Seq(Msgs) /\ sendQueue \in Seq(Msgs) /\ unwritten \in Seq(Msgs) /\ waiting \in BOOLEAN
  BY DEF TypeInv
<1>2. OutBusy \in 0 .. 1 /\ sendDoneQueue \in 0 .. 1 /\ OutBusy' = OutBusy /\ Len(sendQueue) \in Nat
  BY <1>1 DEF TypeInv, OutBusy
<1>3. InFlight <= 1 /\ (~waiting => InFlight = 0 /\ pendingMsgs = <<>>)
  BY OneInFlightAlt DEF OrderInv
<1>4. OneInFlight' <=> InFlight' <= 1 /\ (~waiting' => InFlight' = 0)
  BY DEF OneInFlight, InFlight, OutBusy, HasMsg, Sending
<1>5. Flight \in Seq(Msgs)
  <2>1. pc["out"] \in Sending => outMsg \in Msgs
    BY DEF TypeInv, HasMsg
  <2> QED BY <1>1, <2>1 DEF Flight
<1>6. unwritten' = unwritten \o ms /\ waiting' = (waiting \/ ms # <<>>)
  BY DEF QueuePackets
<1>7. CASE ~waiting /\ ms # <<>>
  <2>1. Len(sendQueue) = 0 /\ OutBusy = 0 /\ sendDoneQueue = 0 /\ pendingMsgs = <<>>
    BY <1>2, <1>3, <1>7 DEF InFlight
  <2>2. sendQueue = <<>> /\ pc["out"] \notin HasMsg
    BY <1>1, <2>1 DEF OutBusy
  <2>3. Head(ms) \in Msgs /\ Tail(ms) \in Seq(Msgs) /\ ms = <<Head(ms)>> \o Tail(ms)
    BY <1>7
  <2>4. sendQueue' = <<Head(ms)>> /\ pendingMsgs' = Tail(ms)
    BY <1>7, <2>1, <2>2, <2>3, ConcatEmptySeq DEF QueuePackets
  <2>5. InFlight' = 1 /\ waiting'
    <3>1. Len(sendQueue') = 1
      BY <2>4
    <3>2. OutBusy' = 0 /\ sendDoneQueue' = 0
      BY <1>2, <2>1
    <3>3. InFlight' = 1
      BY <3>1, <3>2 DEF InFlight
    <3>4. waiting'
      BY <1>6, <1>7
    <3> QED BY <3>3, <3>4
  <2>6. ~disconnect => unwritten = <<>>
    BY <2>1, <2>2 DEF OrderInv, Flight, HasMsg
  <2>7. ~disconnect' => unwritten' = Flight' \o pendingMsgs'
    <3>1. Flight' = <<Head(ms)>>
      BY <2>4 DEF Flight
    <3> QED BY <1>6, <2>3, <2>4, <2>6, <3>1, ConcatEmptySeq
  <2> QED BY <1>4, <2>5, <2>7 DEF OrderInv
<1>8. CASE waiting \/ ms = <<>>
  <2>1. sendQueue' = sendQueue /\ pendingMsgs' = pendingMsgs \o ms /\ (waiting' <=> waiting)
    BY <1>6, <1>8 DEF QueuePackets
  <2>2. InFlight' = InFlight /\ Flight' = Flight
    BY <1>2, <2>1 DEF InFlight, Flight
  <2>3. ~waiting' => pendingMsgs' = <<>>
    BY <1>3, <1>8, <2>1, ConcatEmptySeq
  <2>4. ~disconnect' => unwritten' = Flight' \o pendingMsgs'
    <3>1. (Flight \o pendingMsgs) \o ms = Flight \o (pendingMsgs \o ms)
      <4>1. \A f, p, m \in Seq(Msgs) : (f \o p) \o m = f \o (p \o m)
        BY ConcatAssociative
      <4> QED BY <1>1, <1>5, <4>1
    <3> QED BY <1>6, <2>1, <2>2, <3>1 DEF OrderInv
  <2>5. OneInFlight'
    BY <1>3, <1>4, <2>1, <2>2
  <2> QED BY <2>3, <2>4, <2>5 DEF OrderInv
<1> QED BY <1>1, <1>7, <1>8

LEMMA OrderQueue ==
  ASSUME TypeInv, OrderInv, QueueStep
  PROVE  OrderInv'
<1>1. /\ outputQueue \in Seq(Msgs) /\ pendingMsgs \in Seq(Msgs) /\ sendQueue \in Seq(Msgs)
      /\ waiting \in BOOLEAN /\ sendDoneQueue \in 0 .. 1
  BY DEF TypeInv
<1>2. OneInFlight' <=> InFlight' <= 1 /\ (~waiting' => InFlight' = 0)
  BY DEF OneInFlight, InFlight, OutBusy, HasMsg, Sending
<1>3. InFlight <= 1 /\ (~waiting => InFlight = 0 /\ pendingMsgs = <<>>)
  BY OneInFlightAlt DEF OrderInv
<1>4. OutBusy \in 0 .. 1 /\ Len(sendQueue) \in Nat
  BY <1>1 DEF OutBusy
<1>5. CASE QueueTake
  <2>1. <<Head(outputQueue)>> \in Seq(Msgs)
    BY <1>1, <1>5 DEF QueueTake
  <2> QED BY <1>5, <2>1, OrderPackets DEF QueueTake, QueueUnchanged
<1>6. CASE QueueInv
  <2>1. CASE versionKnown /\ Head(outputInvChan) \in BlockInvs
    <3>1. <<InvMsg({Head(outputInvChan)})>> \in Seq(Msgs) /\ QueuePackets(<<InvMsg({Head(outputInvChan)})>>, pendingMsgs)
      BY <1>6, <2>1, InvPackets DEF QueueInv
    <3> QED BY <1>6, <3>1, OrderPackets DEF QueueInv, QueueUnchanged
  <2>2. CASE ~(versionKnown /\ Head(outputInvChan) \in BlockInvs)
    <3>1. QueuePackets(<<>>, pendingMsgs) /\ <<>> \in Seq(Msgs)
      BY <1>6, <2>2 DEF QueueInv
    <3> QED BY <1>6, <3>1, OrderPackets DEF QueueInv, QueueUnchanged
  <2> QED BY <2>1, <2>2
<1>7. CASE Trickle
  <2>1. Batches(Fresh) \in Seq(Msgs) /\ QueuePackets(Batches(Fresh), pendingMsgs)
    BY <1>7, InvPackets DEF Trickle
  <2> QED BY <1>7, <2>1, OrderPackets DEF Trickle, QueueUnchanged
<1>8. CASE QueueSendDone
  <2>1. UNCHANGED <<pc, outMsg, disconnect, unwritten>> /\ sendDoneQueue > 0 /\ sendDoneQueue' = sendDoneQueue - 1
    BY <1>8 DEF QueueSendDone, QueueUnchanged
  <2>2. sendDoneQueue = 1 /\ OutBusy = 0 /\ Len(sendQueue) = 0 /\ sendDoneQueue' = 0 /\ OutBusy' = 0
    BY <1>1, <1>3, <1>4, <2>1 DEF InFlight, OutBusy
  <2>3. sendQueue = <<>> /\ pc["out"] \notin Sending /\ pc'["out"] \notin Sending
    BY <1>1, <2>1, <2>2 DEF OutBusy, HasMsg
  <2>4. ~disconnect => unwritten = pendingMsgs
    BY <1>1, <2>3, ConcatEmptySeq DEF OrderInv, Flight
  <2>5. CASE pendingMsgs = <<>>
    <3>1. sendQueue' = <<>> /\ pendingMsgs' = <<>> /\ ~waiting'
      BY <1>8, <2>3, <2>5 DEF QueueSendDone
    <3>2. InFlight' = 0
      BY <2>2, <3>1 DEF InFlight
    <3>3. Flight' = <<>>
      BY <2>3, <3>1 DEF Flight
    <3>4. ~disconnect' => unwritten' = Flight' \o pendingMsgs'
      BY <2>1, <2>4, <2>5, <3>1, <3>3, ConcatEmptySeq
    <3> QED BY <1>2, <3>1, <3>2, <3>4 DEF OrderInv
  <2>6. CASE pendingMsgs # <<>>
    <3>1. Head(pendingMsgs) \in Msgs /\ pendingMsgs = <<Head(pendingMsgs)>> \o Tail(pendingMsgs)
      BY <1>1, <2>6
    <3>2. sendQueue' = <<Head(pendingMsgs)>> /\ pendingMsgs' = Tail(pendingMsgs) /\ waiting'
      <4>1. sendQueue' = Append(sendQueue, Head(pendingMsgs)) /\ pendingMsgs' = Tail(pendingMsgs)
        BY <1>8, <2>6 DEF QueueSendDone
      <4>2. waiting'
        BY <1>8, <2>6 DEF QueueSendDone
      <4> QED BY <2>3, <3>1, <4>1, <4>2
    <3>3. Flight' = sendQueue' /\ Len(sendQueue') = 1
      BY <3>2 DEF Flight
    <3>4. InFlight' = 1
      BY <2>2, <3>3 DEF InFlight
    <3>5. ~disconnect' => unwritten' = Flight' \o pendingMsgs'
      BY <2>1, <2>4, <3>1, <3>2, <3>3
    <3> QED BY <1>2, <3>2, <3>4, <3>5 DEF OrderInv
  <2> QED BY <2>5, <2>6
<1>9. CASE QueueSeesQuit
  <2>1. /\ UNCHANGED <<outMsg, disconnect, unwritten, sendQueue, waiting, sendDoneQueue>> /\ disconnect
        /\ pendingMsgs' = <<>> /\ pc'["out"] = pc["out"]
    BY <1>9, QueueMoves, ThreadFacts DEF QueueSeesQuit, QueueUnchanged, QueueStep
  <2>2. InFlight' = InFlight
    BY <2>1 DEF InFlight, OutBusy
  <2>3. OneInFlight'
    BY <1>2, <1>3, <2>1, <2>2
  <2> QED BY <2>1, <2>3 DEF OrderInv
<1>10. CASE QueueDrain \/ QueueExit
  <2>1. /\ UNCHANGED <<sendQueue, sendDoneQueue, waiting, pendingMsgs, unwritten, outMsg>>
        /\ pc'["out"] = pc["out"] /\ disconnect' = disconnect
    BY <1>10, QueueMoves, ThreadFacts DEF QueueDrain, QueueExit, QueueUnchanged, queueVars, QueueStep
  <2> QED BY <2>1, OrderSame
<1> QED BY <1>5, <1>6, <1>7, <1>8, <1>9, <1>10 DEF QueueStep

LEMMA OrderOut ==
  ASSUME TypeInv, PlaceInv, OrderInv, OutStep \/ WriteFails
  PROVE  OrderInv'
<1>1. /\ pendingMsgs \in Seq(Msgs) /\ sendQueue \in Seq(Msgs) /\ sendDoneQueue \in 0 .. 1
      /\ pc \in [Threads -> Labels] /\ "out" \in Threads
      /\ (pc["out"] \in HasMsg => outMsg \in Msgs)
  BY ThreadFacts DEF TypeInv
<1>2. OneInFlight' <=> InFlight' <= 1 /\ (~waiting' => InFlight' = 0)
  BY DEF OneInFlight, InFlight, OutBusy, HasMsg, Sending
<1>3. InFlight <= 1 /\ (~waiting => InFlight = 0 /\ pendingMsgs = <<>>)
  BY OneInFlightAlt DEF OrderInv
<1>4. OutBusy \in 0 .. 1 /\ Len(sendQueue) \in Nat
  BY <1>1 DEF OutBusy
<1>5. UNCHANGED <<waiting, pendingMsgs>>
  BY DEF OutStep, OutTake, OutTellStall, WriteCheck, Write, WriteFails, OutDone, OutSeesQuit, OutExit, OutUnchanged, queueVars
<1>6. CASE OutTake
  <2>1. /\ UNCHANGED <<disconnect, unwritten, sendDoneQueue>> /\ sendQueue # <<>> /\ sendQueue' = Tail(sendQueue)
        /\ outMsg' = Head(sendQueue) /\ pc["out"] = "select" /\ pc'["out"] = "tell"
    BY <1>1, <1>6 DEF OutTake, Goto, historyVars
  <2>2. OutBusy = 0 /\ OutBusy' = 1 /\ pc'["out"] \in Sending
    BY <2>1 DEF OutBusy, HasMsg, Sending
  <2>3. Len(sendQueue) = 1
    <3>1. Len(sendQueue) # 0
      BY <1>1, <2>1
    <3>2. Len(sendQueue) + OutBusy + sendDoneQueue <= 1
      BY <1>3 DEF InFlight
    <3>3. \A n, d \in Nat : n # 0 /\ n + 0 + d <= 1 => n = 1
      OBVIOUS
    <3>4. Len(sendQueue) \in Nat /\ sendDoneQueue \in Nat /\ Len(sendQueue) + 0 + sendDoneQueue <= 1
      BY <1>1, <1>4, <2>2, <3>2
    <3> QED BY <3>1, <3>3, <3>4
  <2>4. sendQueue' = <<>> /\ sendQueue = <<outMsg'>>
    BY <1>1, <2>1, <2>3
  <2>5. InFlight' = InFlight
    BY <1>1, <2>1, <2>2, <2>3, <2>4 DEF InFlight
  <2>6. Flight' = Flight
    BY <2>1, <2>2, <2>4 DEF Flight
  <2>7. OneInFlight'
    BY <1>2, <1>3, <1>5, <2>5
  <2> QED BY <1>5, <2>1, <2>6, <2>7 DEF OrderInv
<1>7. CASE OutTellStall \/ (WriteCheck /\ ~disconnect)
  <2>1. /\ UNCHANGED <<disconnect, unwritten, sendDoneQueue, sendQueue, outMsg>>
        /\ pc["out"] \in Sending /\ pc'["out"] \in Sending
    BY <1>1, <1>7 DEF OutTellStall, WriteCheck, Goto, historyVars, Sending
  <2> QED BY <1>5, <2>1, OrderSame
<1>8. CASE WriteCheck /\ disconnect
  <2>1. UNCHANGED <<disconnect, sendDoneQueue, sendQueue>> /\ pc["out"] \in HasMsg /\ pc'["out"] \in HasMsg
    BY <1>1, <1>8 DEF WriteCheck, Goto, HasMsg, Sending
  <2>2. InFlight' = InFlight
    BY <2>1 DEF InFlight, OutBusy
  <2>3. OneInFlight'
    BY <1>2, <1>3, <1>5, <2>2
  <2> QED BY <1>5, <1>8, <2>1, <2>3 DEF OrderInv
<1>9. CASE Write
  <2>1. /\ UNCHANGED <<disconnect, sendDoneQueue, sendQueue, outMsg>> /\ ~disconnect /\ unwritten' = Tail(unwritten)
        /\ pc["out"] = "write" /\ pc'["out"] = "written"
    BY <1>1, <1>9 DEF Write, Goto
  <2>2. OutBusy = 1 /\ OutBusy' = 1 /\ pc["out"] \in Sending /\ pc'["out"] \notin Sending
    BY <2>1 DEF OutBusy, HasMsg, Sending
  <2>3. InFlight' = InFlight /\ Len(sendQueue) = 0
    BY <1>1, <1>3, <1>4, <2>1, <2>2 DEF InFlight
  <2>4. sendQueue = <<>> /\ outMsg \in Msgs
    BY <1>1, <2>2, <2>3 DEF HasMsg
  <2>5. unwritten = <<outMsg>> \o pendingMsgs
    BY <2>1, <2>2, <2>4 DEF OrderInv, Flight
  <2>6. Tail(unwritten) = pendingMsgs
    BY <1>1, <2>4, <2>5
  <2>7. Flight' = <<>>
    BY <2>1, <2>2, <2>4 DEF Flight
  <2>8. unwritten' = Flight' \o pendingMsgs'
    BY <1>1, <1>5, <2>1, <2>6, <2>7, ConcatEmptySeq
  <2>9. OneInFlight'
    BY <1>2, <1>3, <1>5, <2>3
  <2> QED BY <1>3, <1>5, <2>8, <2>9 DEF OrderInv
<1>10. CASE WriteFails
  <2>1. UNCHANGED <<sendDoneQueue, sendQueue>> /\ disconnect' /\ pc["out"] = "write" /\ pc'["out"] = "select"
    BY <1>1, <1>10 DEF WriteFails, Goto
  <2>2. OutBusy = 1 /\ OutBusy' = 0
    BY <2>1 DEF OutBusy, HasMsg, Sending
  <2>3. InFlight' = InFlight - 1 /\ InFlight \in Nat
    BY <1>1, <1>4, <2>1, <2>2 DEF InFlight
  <2>4. InFlight = 1 /\ waiting
    BY <1>1, <1>3, <1>4, <2>2, <2>3 DEF InFlight
  <2>5. OneInFlight'
    BY <1>2, <1>5, <2>3, <2>4
  <2> QED BY <1>3, <1>5, <2>1, <2>5 DEF OrderInv
<1>11. CASE OutDone
  <2>1. /\ UNCHANGED <<disconnect, sendQueue, unwritten>> /\ sendDoneQueue = 0 /\ sendDoneQueue' = 1
        /\ pc["out"] = "written" /\ pc'["out"] = "select"
    BY <1>1, <1>11 DEF OutDone, Goto, historyVars
  <2>2. OutBusy = 1 /\ OutBusy' = 0 /\ pc["out"] \notin Sending /\ pc'["out"] \notin Sending
    BY <2>1 DEF OutBusy, HasMsg, Sending
  <2>3. InFlight' = InFlight
    BY <1>1, <1>4, <2>1, <2>2 DEF InFlight
  <2>4. Flight' = Flight
    BY <2>1, <2>2 DEF Flight
  <2>5. OneInFlight'
    BY <1>2, <1>3, <1>5, <2>3
  <2> QED BY <1>5, <2>1, <2>4, <2>5 DEF OrderInv
<1>12. CASE OutSeesQuit
  <2>1. /\ UNCHANGED <<disconnect, sendQueue, sendDoneQueue, unwritten, outMsg>>
        /\ pc["out"] \notin HasMsg /\ pc'["out"] \notin HasMsg
    BY <1>1, <1>12 DEF OutSeesQuit, Goto, historyVars, HasMsg, Sending
  <2> QED BY <1>5, <2>1, OrderSame
<1>13. CASE OutExit
  <2>1. /\ UNCHANGED <<disconnect, sendDoneQueue>> /\ sendQueue' = <<>>
        /\ pc["out"] = "waitqueue" /\ pc'["out"] = "done"
    BY <1>1, <1>13 DEF OutExit, Goto
  <2>2. OutBusy = 0 /\ OutBusy' = 0
    BY <2>1 DEF OutBusy, HasMsg, Sending
  <2>3. Len(sendQueue') = 0
    BY <2>1
  <2>4. InFlight' <= InFlight /\ InFlight' \in Nat /\ InFlight \in Nat
    BY <1>1, <1>4, <2>1, <2>2, <2>3 DEF InFlight
  <2>5. OneInFlight'
    BY <1>2, <1>3, <1>5, <2>4
  <2> QED BY <1>3, <1>5, <2>5, <2>1 DEF OrderInv, PlaceInv
<1> QED BY <1>6, <1>7, <1>8, <1>9, <1>10, <1>11, <1>12, <1>13 DEF OutStep

LEMMA OrderStep ==
  ASSUME IInv, Next
  PROVE  OrderInv'
<1>0. TypeInv /\ PlaceInv /\ OrderInv /\ (disconnect => disconnect')
  BY Forever DEF IInv
<1>1. CASE (\E ok \in BOOLEAN : Negotiate(ok)) \/ NegotiateSend \/ StartFails \/ Disconnect
  <2>1. UNCHANGED <<sendQueue, sendDoneQueue, waiting, pendingMsgs, unwritten, outMsg>>
    BY <1>1 DEF Negotiate, NegotiateSend, StartFails, Disconnect, queueVars, historyVars
  <2>2. pc'["out"] = pc["out"]
    BY <1>0, <1>1, NegMoves, ThreadFacts
  <2> QED BY <1>0, <2>1, <2>2, OrderSame
<1>2. CASE StartHandlers
  <2>1. UNCHANGED <<sendQueue, sendDoneQueue, waiting, pendingMsgs, unwritten, outMsg>>
    BY <1>2 DEF StartHandlers, queueVars, historyVars
  <2>2. pc["out"] \notin HasMsg /\ pc'["out"] \notin HasMsg
    BY <1>0, <1>2, StartMoves DEF HasMsg, Sending
  <2> QED BY <1>0, <2>1, <2>2, OrderSame
<1>3. ASSUME NEW s \in Senders, QueueCheck(s) \/ Enqueue(s) PROVE OrderInv'
  <2>1. UNCHANGED <<sendQueue, sendDoneQueue, waiting, pendingMsgs, unwritten, outMsg>>
    BY <1>3 DEF QueueCheck, Enqueue, queueVars, historyVars
  <2>2. pc'["out"] = pc["out"]
    BY <1>0, <1>3, ThreadFacts DEF QueueCheck, Enqueue, Goto, TypeInv
  <2> QED BY <1>0, <2>1, <2>2, OrderSame
<1>4. CASE \E iv \in Invs : QueueInventory(iv)
  <2>1. UNCHANGED <<sendQueue, sendDoneQueue, waiting, pendingMsgs, unwritten, outMsg>> /\ pc'["out"] = pc["out"]
    BY <1>4 DEF QueueInventory, historyVars
  <2> QED BY <1>0, <2>1, OrderSame
<1>5. CASE (\E cmd \in RecvCmds : Receive(cmd)) \/ ReadFails \/ InStep
  <2>1. UNCHANGED <<sendQueue, sendDoneQueue, waiting, pendingMsgs, unwritten, outMsg>>
    BY <1>5 DEF Receive, ReadFails, InStep, InTellStall, InQueueCheck, InEnqueue, RejectSent, InExit,
                InUnchanged, queueVars, historyVars
  <2>2. pc'["out"] = pc["out"]
    BY <1>0, <1>5, InMoves, ThreadFacts
  <2> QED BY <1>0, <2>1, <2>2, OrderSame
<1>6. CASE StallStep \/ StallTick
  <2>1. UNCHANGED <<sendQueue, sendDoneQueue, waiting, pendingMsgs, unwritten, outMsg>>
    BY <1>6 DEF StallStep, StallTick, StallControl, StallSeesQuit, StallExit, StallUnchanged, queueVars, historyVars
  <2>2. pc'["out"] = pc["out"]
    BY <1>0, <1>6, StallMoves, ThreadFacts
  <2> QED BY <1>0, <2>1, <2>2, OrderSame
<1> QED BY <1>0, <1>1, <1>2, <1>3, <1>4, <1>5, <1>6, OrderQueue, OrderOut DEF Next

-----------------------------------------------------------------------------
(* How many messages of a set S each step moves, adds or removes.          *)

LEMMA CountsAreNat ==
  ASSUME TypeInv, NEW S
  PROVE  /\ Count(outputQueue, S) \in Nat /\ Count(pendingMsgs, S) \in Nat /\ Count(sendQueue, S) \in Nat
         /\ Queued(S) \in Nat /\ Unsent(S) \in Nat /\ Held(S) \in Nat
         /\ \A m : One(m, S) \in 0 .. 1
<1>1. Count(outputQueue, S) \in Nat /\ Count(pendingMsgs, S) \in Nat /\ Count(sendQueue, S) \in Nat
  BY CountType DEF TypeInv
<1>2. \A m : One(m, S) \in 0 .. 1
  BY DEF One
<1>3. Queued(S) \in Nat
  BY <1>1 DEF Queued
<1> QED BY <1>1, <1>2, <1>3 DEF Unsent, Held

(* The steps that leave the queues alone.                                  *)
LEMMA FlowSame ==
  ASSUME TypeInv, UNCHANGED <<outputQueue, pendingMsgs, sendQueue, outMsg>>,
         \/ pc'["out"] = pc["out"]
         \/ pc["out"] \notin HasMsg /\ pc'["out"] \notin HasMsg
         \/ pc["out"] \in Sending /\ pc'["out"] \in Sending,
         NEW S
  PROVE  Unsent(S)' = Unsent(S) /\ Held(S)' = Held(S)
<1>1. (pc["out"] \in HasMsg <=> pc'["out"] \in HasMsg) /\ (pc["out"] \in Sending <=> pc'["out"] \in Sending)
  BY DEF HasMsg
<1>2. Queued(S)' = Queued(S)
  BY DEF Queued
<1> QED BY <1>1, <1>2 DEF Unsent, Held

(* A message that is put into outputQueue.                                 *)
LEMMA FlowEnqueue ==
  ASSUME TypeInv, NEW m \in Msgs, outputQueue' = Append(outputQueue, m),
         UNCHANGED <<pendingMsgs, sendQueue, outMsg>>, pc'["out"] = pc["out"], NEW S
  PROVE  Unsent(S)' = Unsent(S) + One(m, S) /\ Held(S)' = Held(S) + One(m, S)
<1>1. Count(outputQueue', S) = Count(outputQueue, S) + One(m, S)
  BY CountAppend DEF TypeInv
<1>2. Count(outputQueue, S) \in Nat /\ Count(pendingMsgs, S) \in Nat /\ Count(sendQueue, S) \in Nat
      /\ One(m, S) \in Nat /\ One(outMsg, S) \in Nat
  BY CountsAreNat
<1>3. Queued(S)' = Queued(S) + One(m, S)
  BY <1>1, <1>2 DEF Queued
<1>4. Queued(S) \in Nat
  BY CountsAreNat
<1>5. CASE pc["out"] \in Sending
  BY <1>2, <1>3, <1>4, <1>5 DEF Unsent, Held, HasMsg
<1>6. CASE pc["out"] \notin Sending
  BY <1>2, <1>3, <1>4, <1>6 DEF Unsent, Held
<1> QED BY <1>5, <1>6

(* queueHandler: what it takes, announces, passes on and drops.            *)
LEMMA FlowPackets ==
  ASSUME TypeInv, NEW ms \in Seq(Msgs), QueuePackets(ms, pendingMsgs), UNCHANGED outputQueue, NEW S
  PROVE  Queued(S)' = Queued(S) + Count(ms, S) /\ Count(ms, S) \in Nat
<1>1. Count(outputQueue, S) \in Nat /\ Count(pendingMsgs, S) \in Nat /\ Count(sendQueue, S) \in Nat /\ Count(ms, S) \in Nat
  BY CountsAreNat, CountType
<1>2. pendingMsgs' \in Seq(Msgs) /\ sendQueue' \in Seq(Msgs)
  BY PacketFacts
<1>3. Count(pendingMsgs', S) \in Nat /\ Count(sendQueue', S) \in Nat
  BY <1>2, CountType
<1>4. Count(pendingMsgs', S) + Count(sendQueue', S) = Count(pendingMsgs, S) + Count(sendQueue, S) + Count(ms, S)
  BY PacketFacts
<1>6. Count(outputQueue, S) + Count(pendingMsgs', S) + Count(sendQueue', S)
        = (Count(outputQueue, S) + Count(pendingMsgs, S) + Count(sendQueue, S)) + Count(ms, S)
  <2> DEFINE o == Count(outputQueue, S)
             p == Count(pendingMsgs, S)
             q == Count(sendQueue, S)
             p2 == Count(pendingMsgs', S)
             q2 == Count(sendQueue', S)
             m == Count(ms, S)
  <2>1. o \in Nat /\ p \in Nat /\ q \in Nat /\ p2 \in Nat /\ q2 \in Nat /\ m \in Nat
    BY <1>1, <1>3
  <2>2. p2 + q2 = p + q + m
    BY <1>4
  <2> HIDE DEF o, p, q, p2, q2, m
  <2>3. o + p2 + q2 = (o + p + q) + m
    BY <2>1, <2>2
  <2> QED BY <2>3 DEF o, p, q, p2, q2, m
<1> QED BY <1>1, <1>6 DEF Queued

LEMMA FlowTake ==
  ASSUME TypeInv, QueueTake, NEW S
  PROVE  Queued(S)' = Queued(S)
<1> DEFINE m == Head(outputQueue)
<1>1. outputQueue \in Seq(Msgs) /\ outputQueue # <<>> /\ outputQueue' = Tail(outputQueue)
  BY DEF TypeInv, QueueTake
<1>2. QueuePackets(<<m>>, pendingMsgs) /\ <<m>> \in Seq(Msgs)
  BY <1>1 DEF QueueTake
<1>3. Count(<<m>>, S) = One(m, S)
  BY CountSingle
<1>4. Count(outputQueue, S) = One(m, S) + Count(outputQueue', S) /\ outputQueue' \in Seq(Msgs)
  BY <1>1, CountTail, HeadTailProperties
<1> HIDE DEF m
<1>5. Count(pendingMsgs', S) + Count(sendQueue', S) = Count(pendingMsgs, S) + Count(sendQueue, S) + One(m, S)
  BY <1>2, <1>3, PacketFacts
<1>6. pendingMsgs' \in Seq(Msgs) /\ sendQueue' \in Seq(Msgs)
  BY <1>2, PacketFacts
<1>7. Count(outputQueue', S) \in Nat /\ Count(pendingMsgs', S) \in Nat /\ Count(sendQueue', S) \in Nat
  BY <1>4, <1>6, CountType
<1>8. Count(outputQueue, S) \in Nat /\ Count(pendingMsgs, S) \in Nat /\ Count(sendQueue, S) \in Nat /\ One(m, S) \in 0 .. 1
  BY CountsAreNat
<1>9. \A o, p, q, o2, p2, q2, k \in Nat : o = k + o2 /\ p2 + q2 = p + q + k => o2 + p2 + q2 = o + p + q
  OBVIOUS
<1>11. One(m, S) \in Nat
  BY DEF One
<1>10. Count(outputQueue', S) + Count(pendingMsgs', S) + Count(sendQueue', S)
         = Count(outputQueue, S) + Count(pendingMsgs, S) + Count(sendQueue, S)
  <2> DEFINE k == One(m, S)
             o == Count(outputQueue, S)
             o2 == Count(outputQueue', S)
             r == Count(pendingMsgs, S)
             r2 == Count(pendingMsgs', S)
             q == Count(sendQueue, S)
             q2 == Count(sendQueue', S)
  <2>1. {k, o, o2, r, r2, q, q2} \subseteq Nat
    BY <1>7, <1>8, <1>11
  <2>2. o = k + o2
    BY <1>4
  <2>3. r2 + q2 = r + q + k
    BY <1>5
  <2> HIDE DEF k, o, o2, r, r2, q, q2
  <2>4. o2 + r2 + q2 = o + r + q
    BY <1>9, <2>1, <2>2, <2>3
  <2> QED BY <2>4 DEF o, o2, r, r2, q, q2
<1> QED BY <1>10 DEF Queued

LEMMA FlowSendDone ==
  ASSUME TypeInv, QueueSendDone, NEW S
  PROVE  Queued(S)' = Queued(S)
<1>1. pendingMsgs \in Seq(Msgs) /\ sendQueue \in Seq(Msgs) /\ UNCHANGED outputQueue
  BY DEF TypeInv, QueueSendDone
<1>2. CASE pendingMsgs = <<>>
  BY <1>1, <1>2 DEF QueueSendDone, Queued
<1>3. CASE pendingMsgs # <<>>
  <2> DEFINE m == Head(pendingMsgs)
  <2>1. m \in Msgs /\ Tail(pendingMsgs) \in Seq(Msgs)
    BY <1>1, <1>3, HeadTailProperties
  <2>2. Count(pendingMsgs, S) = One(m, S) + Count(Tail(pendingMsgs), S)
    BY <1>1, <1>3, CountTail
  <2>3. sendQueue' = Append(sendQueue, m) /\ pendingMsgs' = Tail(pendingMsgs)
    BY <1>3 DEF QueueSendDone
  <2> HIDE DEF m
  <2>4. Count(Append(sendQueue, m), S) = Count(sendQueue, S) + One(m, S)
    BY <1>1, <2>1, CountAppend
  <2>5. Count(Tail(pendingMsgs), S) \in Nat
    BY <2>1, CountType
  <2>6. Count(outputQueue, S) \in Nat /\ Count(pendingMsgs, S) \in Nat /\ Count(sendQueue, S) \in Nat /\ One(m, S) \in 0 .. 1
    BY CountsAreNat
  <2>7. Count(pendingMsgs', S) + Count(sendQueue', S) = Count(pendingMsgs, S) + Count(sendQueue, S)
    BY <2>2, <2>3, <2>4, <2>5, <2>6
  <2>8. Count(pendingMsgs', S) \in Nat /\ Count(sendQueue', S) \in Nat
    BY <2>3, <2>4, <2>5, <2>6
  <2>9. \A o, p, q, p2, q2 \in Nat : p2 + q2 = p + q => o + p2 + q2 = o + p + q
    OBVIOUS
  <2>10. Count(outputQueue, S) + Count(pendingMsgs', S) + Count(sendQueue', S)
           = Count(outputQueue, S) + Count(pendingMsgs, S) + Count(sendQueue, S)
    BY <2>6, <2>7, <2>8, <2>9
  <2> QED BY <1>1, <2>10 DEF Queued
<1> QED BY <1>2, <1>3

LEMMA FlowSeesQuit ==
  ASSUME TypeInv, QueueSeesQuit, NEW S
  PROVE  Queued(S) = Queued(S)' + Count(pendingMsgs, S) /\ Queued(S)' \in Nat
<1>1. UNCHANGED <<outputQueue, sendQueue>> /\ pendingMsgs' = <<>>
  BY DEF QueueSeesQuit
<1>2. Count(pendingMsgs', S) = 0
  BY <1>1, CountEmpty
<1>3. Count(outputQueue, S) \in Nat /\ Count(pendingMsgs, S) \in Nat /\ Count(sendQueue, S) \in Nat
  BY CountsAreNat
<1> QED BY <1>1, <1>2, <1>3 DEF Queued

LEMMA FlowDrain ==
  ASSUME TypeInv, QueueDrain, NEW S
  PROVE  /\ Queued(S)' \in Nat
         /\ outputQueue = <<>> => Queued(S)' = Queued(S)
         /\ outputQueue # <<>> => Queued(S) = Queued(S)' + One(Head(outputQueue), S)
<1>1. outputQueue \in Seq(Msgs) /\ UNCHANGED <<pendingMsgs, sendQueue>>
  BY DEF TypeInv, QueueDrain
<1>2. Count(outputQueue, S) \in Nat /\ Count(pendingMsgs, S) \in Nat /\ Count(sendQueue, S) \in Nat
      /\ \A m : One(m, S) \in 0 .. 1
  BY CountsAreNat
<1>3. CASE outputQueue = <<>>
  BY <1>1, <1>2, <1>3 DEF QueueDrain, Queued
<1>4. CASE outputQueue # <<>>
  <2>1. outputQueue' = Tail(outputQueue) /\ Tail(outputQueue) \in Seq(Msgs)
    BY <1>1, <1>4, HeadTailProperties DEF QueueDrain
  <2>2. Count(outputQueue, S) = One(Head(outputQueue), S) + Count(outputQueue', S) /\ Count(outputQueue', S) \in Nat
    BY <1>1, <1>4, <2>1, CountTail, CountType
  <2> QED BY <1>1, <1>2, <1>4, <2>2 DEF Queued
<1> QED BY <1>3, <1>4

(* outHandler and pc.                                                      *)
LEMMA FlowOutTake ==
  ASSUME TypeInv, OutTake, NEW S
  PROVE  Unsent(S)' = Unsent(S) /\ Held(S)' = Held(S)
<1>1. /\ sendQueue \in Seq(Msgs) /\ sendQueue # <<>> /\ sendQueue' = Tail(sendQueue) /\ outMsg' = Head(sendQueue)
      /\ pc["out"] = "select" /\ pc'["out"] = "tell" /\ UNCHANGED <<outputQueue, pendingMsgs>>
  BY ThreadFacts DEF TypeInv, OutTake, OutUnchanged, queueVars, Goto
<1>2. Count(sendQueue, S) = One(outMsg', S) + Count(sendQueue', S)
  BY <1>1, CountTail
<1>3. Count(sendQueue', S) \in Nat
  BY <1>1, HeadTailProperties, CountType
<1>4. Count(outputQueue, S) \in Nat /\ Count(pendingMsgs, S) \in Nat /\ One(outMsg', S) \in 0 .. 1
  BY CountsAreNat
<1>5. Queued(S) = Queued(S)' + One(outMsg', S) /\ Queued(S)' \in Nat /\ Queued(S) \in Nat
  BY <1>1, <1>2, <1>3, <1>4 DEF Queued
<1>6. pc["out"] \notin HasMsg /\ pc["out"] \notin Sending /\ pc'["out"] \in HasMsg /\ pc'["out"] \in Sending
  BY <1>1 DEF HasMsg, Sending
<1>7. Unsent(S) = Queued(S) + 0 /\ Held(S) = Queued(S) + 0
  BY <1>6 DEF Unsent, Held
<1>8. Unsent(S)' = Queued(S)' + One(outMsg', S) /\ Held(S)' = Queued(S)' + One(outMsg', S)
  BY <1>6 DEF Unsent, Held
<1> QED BY <1>5, <1>7, <1>8

LEMMA FlowOut ==
  ASSUME TypeInv, WriteCheck \/ Write \/ WriteFails \/ OutDone, NEW S
  PROVE  /\ Unsent(S)' \in Nat /\ Held(S)' \in Nat /\ Unsent(S)' <= Unsent(S) /\ Held(S)' <= Held(S)
         /\ WriteFails \/ OutDone => Held(S) = Held(S)' + One(outMsg, S)
         /\ Write => Unsent(S) = Unsent(S)' + One(outMsg, S)
<1>1. UNCHANGED <<outputQueue, pendingMsgs, sendQueue>> /\ pc \in [Threads -> Labels] /\ "out" \in Threads
  BY ThreadFacts DEF WriteCheck, Write, WriteFails, OutDone, OutUnchanged, queueVars, TypeInv
<1>2. Queued(S)' = Queued(S) /\ Queued(S) \in Nat /\ One(outMsg, S) \in 0 .. 1 /\ One(outMsg', S) \in 0 .. 1
  BY <1>1, CountsAreNat DEF Queued
<1>3. CASE WriteCheck \/ Write
  <2>1. pc["out"] \in Sending /\ pc["out"] \in HasMsg /\ pc'["out"] \in HasMsg /\ outMsg' = outMsg
        /\ (Write => pc'["out"] \notin Sending)
    BY <1>1, <1>3 DEF WriteCheck, Write, Goto, HasMsg, Sending
  <2>2. Unsent(S) = Queued(S) + One(outMsg, S) /\ Held(S) = Queued(S) + One(outMsg, S)
    BY <2>1 DEF Unsent, Held
  <2>3. Held(S)' = Queued(S) + One(outMsg, S)
    BY <1>2, <2>1 DEF Held
  <2>4. Unsent(S)' \in {Queued(S), Queued(S) + One(outMsg, S)} /\ (Write => Unsent(S)' = Queued(S))
    BY <1>2, <2>1 DEF Unsent
  <2>5. ~WriteFails /\ ~OutDone
    <3>1. pc'["out"] # "select"
      BY <2>1 DEF HasMsg, Sending
    <3> QED BY <1>1, <3>1 DEF WriteFails, OutDone, Goto
  <2> QED BY <1>2, <2>2, <2>3, <2>4, <2>5
<1>4. CASE WriteFails \/ OutDone
  <2>1. pc["out"] \in HasMsg /\ pc'["out"] \notin HasMsg /\ pc'["out"] \notin Sending /\ ~Write
    BY <1>1, <1>4 DEF WriteFails, OutDone, Write, Goto, HasMsg, Sending
  <2>2. Held(S) = Queued(S) + One(outMsg, S) /\ Held(S)' = Queued(S) /\ Unsent(S)' = Queued(S)
    BY <1>2, <2>1 DEF Unsent, Held
  <2>3. Unsent(S) \in {Queued(S), Queued(S) + One(outMsg, S)}
    BY <1>2 DEF Unsent
  <2> QED BY <1>2, <2>1, <2>2, <2>3
<1> QED BY <1>3, <1>4

LEMMA FlowOutExit ==
  ASSUME TypeInv, OutExit, NEW S
  PROVE  /\ Unsent(S)' \in Nat /\ Held(S)' \in Nat /\ Unsent(S)' <= Unsent(S)
         /\ Held(S) = Held(S)' + Count(sendQueue, S)
<1>1. /\ UNCHANGED <<outputQueue, pendingMsgs>> /\ sendQueue' = <<>>
      /\ pc["out"] = "waitqueue" /\ pc'["out"] = "done"
  BY ThreadFacts DEF OutExit, OutUnchanged, queueVars, TypeInv, Goto
<1>2. Count(sendQueue', S) = 0
  BY <1>1, CountEmpty
<1>3. Count(outputQueue, S) \in Nat /\ Count(pendingMsgs, S) \in Nat /\ Count(sendQueue, S) \in Nat
  BY CountsAreNat
<1>4. Queued(S) = Queued(S)' + Count(sendQueue, S) /\ Queued(S)' \in Nat /\ Queued(S) \in Nat
  BY <1>1, <1>2, <1>3 DEF Queued
<1>5. pc["out"] \notin HasMsg /\ pc["out"] \notin Sending /\ pc'["out"] \notin HasMsg /\ pc'["out"] \notin Sending
  BY <1>1 DEF HasMsg, Sending
<1>6. Unsent(S) = Queued(S) /\ Held(S) = Queued(S) /\ Unsent(S)' = Queued(S)' /\ Held(S)' = Queued(S)'
  BY <1>4, <1>5 DEF Unsent, Held
<1> QED BY <1>3, <1>4, <1>6

(* A step of queueHandler leaves outHandler alone.                         *)
LEMMA FlowQueue ==
  ASSUME TypeInv, QueueStep, NEW S
  PROVE  \E a, b \in Nat :
           /\ Unsent(S) = Queued(S) + a /\ Unsent(S)' = Queued(S)' + a
           /\ Held(S) = Queued(S) + b /\ Held(S)' = Queued(S)' + b
<1> DEFINE a == IF pc["out"] \in Sending THEN One(outMsg, S) ELSE 0
           b == IF pc["out"] \in HasMsg THEN One(outMsg, S) ELSE 0
<1>1. pc'["out"] = pc["out"]
  BY QueueMoves, ThreadFacts
<1>2. outMsg' = outMsg
  BY DEF QueueStep, QueueTake, QueueSendDone, QueueInv, Trickle, QueueSeesQuit, QueueDrain, QueueExit, QueueUnchanged
<1>3. a \in Nat /\ b \in Nat
  BY DEF One
<1>4. Unsent(S) = Queued(S) + a /\ Unsent(S)' = Queued(S)' + a
  BY <1>1, <1>2 DEF Unsent
<1>5. Held(S) = Queued(S) + b /\ Held(S)' = Queued(S)' + b
  BY <1>1, <1>2 DEF Held
<1> HIDE DEF a, b
<1> QED BY <1>3, <1>4, <1>5

(* The inventory messages that queueHandler makes.                         *)
LEMMA FlowInv ==
  ASSUME TypeInv, NEW S
  PROVE  /\ QueueInv => \E ms \in Seq({InvMsg({iv}) : iv \in BlockInvs}) :
                          Unsent(S)' = Unsent(S) + Count(ms, S) /\ Held(S)' = Held(S) + Count(ms, S)
         /\ Trickle => LET ms == Batches(Fresh) IN
                         Unsent(S)' = Unsent(S) + Count(ms, S) /\ Held(S)' = Held(S) + Count(ms, S)
<1>0. \A u, q, n, a \in Nat : \A u2, q2 : u = q + a /\ u2 = q2 + a /\ q2 = q + n => u2 = u + n
  OBVIOUS
<1>1. Queued(S) \in Nat /\ Unsent(S) \in Nat /\ Held(S) \in Nat
  BY CountsAreNat
<1>2. ASSUME NEW ms \in Seq(Msgs), QueueStep, QueuePackets(ms, pendingMsgs), UNCHANGED outputQueue
      PROVE  Unsent(S)' = Unsent(S) + Count(ms, S) /\ Held(S)' = Held(S) + Count(ms, S)
  <2>1. Queued(S)' = Queued(S) + Count(ms, S) /\ Count(ms, S) \in Nat
    BY <1>2, FlowPackets
  <2>2. PICK a, b \in Nat :
           /\ Unsent(S) = Queued(S) + a /\ Unsent(S)' = Queued(S)' + a
           /\ Held(S) = Queued(S) + b /\ Held(S)' = Queued(S)' + b
    BY <1>2, FlowQueue
  <2> QED BY <1>0, <1>1, <2>1, <2>2
<1>3. ASSUME QueueInv
      PROVE  \E ms \in Seq({InvMsg({iv}) : iv \in BlockInvs}) :
               Unsent(S)' = Unsent(S) + Count(ms, S) /\ Held(S)' = Held(S) + Count(ms, S)
  <2>1. QueueStep /\ UNCHANGED outputQueue
    BY <1>3 DEF QueueInv, QueueStep
  <2>2. CASE versionKnown /\ Head(outputInvChan) \in BlockInvs
    <3>1. <<InvMsg({Head(outputInvChan)})>> \in Seq(Msgs) /\ QueuePackets(<<InvMsg({Head(outputInvChan)})>>, pendingMsgs)
      BY <1>3, <2>2, InvPackets DEF QueueInv
    <3>2. <<InvMsg({Head(outputInvChan)})>> \in Seq({InvMsg({iv}) : iv \in BlockInvs})
      BY <2>2
    <3> QED BY <1>2, <2>1, <3>1, <3>2
  <2>3. CASE ~(versionKnown /\ Head(outputInvChan) \in BlockInvs)
    <3>1. QueuePackets(<<>>, pendingMsgs) /\ <<>> \in Seq(Msgs) /\ <<>> \in Seq({InvMsg({iv}) : iv \in BlockInvs})
      BY <1>3, <2>3 DEF QueueInv
    <3> QED BY <1>2, <2>1, <3>1
  <2> QED BY <2>2, <2>3
<1>4. ASSUME Trickle
      PROVE  LET ms == Batches(Fresh) IN
               Unsent(S)' = Unsent(S) + Count(ms, S) /\ Held(S)' = Held(S) + Count(ms, S)
  <2>1. Batches(Fresh) \in Seq(Msgs) /\ QueuePackets(Batches(Fresh), pendingMsgs) /\ UNCHANGED outputQueue /\ QueueStep
    BY <1>4, InvPackets DEF Trickle, QueueStep
  <2> QED BY <1>2, <2>1
<1> QED BY <1>3, <1>4

(* The steps that leave every message where it is.                         *)
Quiet ==
  \/ (\E ok \in BOOLEAN : Negotiate(ok)) \/ NegotiateSend \/ StartHandlers \/ StartFails \/ Disconnect
  \/ (\E s \in Senders : QueueCheck(s)) \/ (\E iv \in Invs : QueueInventory(iv))
  \/ (\E cmd \in RecvCmds : Receive(cmd)) \/ ReadFails \/ (InStep /\ ~InEnqueue)
  \/ QueueExit \/ OutTellStall \/ OutSeesQuit \/ StallStep \/ StallTick

LEMMA NextCases ==
  ASSUME Next
  PROVE  \/ Quiet \/ (\E s \in Senders : Enqueue(s)) \/ InEnqueue
         \/ QueueTake \/ QueueSendDone \/ QueueInv \/ Trickle \/ QueueSeesQuit \/ QueueDrain
         \/ OutTake \/ WriteCheck \/ Write \/ WriteFails \/ OutDone \/ OutExit
  BY DEF Next, Quiet, QueueStep, OutStep

LEMMA FlowQuiet ==
  ASSUME TypeInv, PlaceInv, Quiet, NEW S
  PROVE  Unsent(S)' = Unsent(S) /\ Held(S)' = Held(S)
<1>1. CASE (\E ok \in BOOLEAN : Negotiate(ok)) \/ NegotiateSend \/ StartFails \/ Disconnect
  <2>1. UNCHANGED <<outputQueue, pendingMsgs, sendQueue, outMsg>>
    BY <1>1 DEF Negotiate, NegotiateSend, StartFails, Disconnect, queueVars
  <2> QED BY <1>1, <2>1, FlowSame, NegMoves, ThreadFacts
<1>2. CASE StartHandlers
  <2>1. UNCHANGED <<outputQueue, pendingMsgs, sendQueue, outMsg>>
    BY <1>2 DEF StartHandlers, queueVars
  <2>2. pc["out"] \notin HasMsg /\ pc'["out"] \notin HasMsg
    BY <1>2, StartMoves DEF HasMsg, Sending
  <2> QED BY <2>1, <2>2, FlowSame
<1>3. ASSUME NEW s \in Senders, QueueCheck(s) PROVE Unsent(S)' = Unsent(S) /\ Held(S)' = Held(S)
  <2>1. UNCHANGED <<outputQueue, pendingMsgs, sendQueue, outMsg>>
    BY <1>3 DEF QueueCheck, queueVars
  <2>2. pc'["out"] = pc["out"]
    BY <1>3, ThreadFacts DEF QueueCheck, Goto, TypeInv
  <2> QED BY <2>1, <2>2, FlowSame
<1>4. CASE \E iv \in Invs : QueueInventory(iv)
  <2>1. UNCHANGED <<outputQueue, pendingMsgs, sendQueue, outMsg>> /\ pc'["out"] = pc["out"]
    BY <1>4 DEF QueueInventory
  <2> QED BY <2>1, FlowSame
<1>5. CASE (\E cmd \in RecvCmds : Receive(cmd)) \/ ReadFails \/ (InStep /\ ~InEnqueue)
  <2>1. UNCHANGED <<outputQueue, pendingMsgs, sendQueue, outMsg>>
    BY <1>5 DEF Receive, ReadFails, InStep, InTellStall, InQueueCheck, RejectSent, InExit, InUnchanged, queueVars
  <2> QED BY <1>5, <2>1, FlowSame, InMoves, ThreadFacts
<1>6. CASE QueueExit
  <2>1. UNCHANGED <<outputQueue, pendingMsgs, sendQueue, outMsg>> /\ QueueStep
    BY <1>6 DEF QueueExit, QueueUnchanged, queueVars, QueueStep
  <2> QED BY <2>1, FlowSame, QueueMoves, ThreadFacts
<1>7. CASE OutTellStall \/ OutSeesQuit
  <2>1. UNCHANGED <<outputQueue, pendingMsgs, sendQueue, outMsg>>
    BY <1>7 DEF OutTellStall, OutSeesQuit, OutUnchanged, queueVars
  <2>2. \/ pc["out"] \notin HasMsg /\ pc'["out"] \notin HasMsg
        \/ pc["out"] \in Sending /\ pc'["out"] \in Sending
    BY <1>7, ThreadFacts DEF OutTellStall, OutSeesQuit, Goto, HasMsg, Sending, TypeInv
  <2> QED BY <2>1, <2>2, FlowSame
<1>8. CASE StallStep \/ StallTick
  <2>1. UNCHANGED <<outputQueue, pendingMsgs, sendQueue, outMsg>>
    BY <1>8 DEF StallStep, StallTick, StallControl, StallSeesQuit, StallExit, StallUnchanged, queueVars
  <2> QED BY <1>8, <2>1, FlowSame, StallMoves, ThreadFacts
<1> QED BY <1>1, <1>2, <1>3, <1>4, <1>5, <1>6, <1>7, <1>8 DEF Quiet

(* Only goroutines that queue a message, and inventory, add to what is     *)
(* still to be written.                                                    *)
LEMMA FlowDown ==
  ASSUME TypeInv, PlaceInv, Next, NEW S,
         ~(\E s \in Senders : Enqueue(s)), ~InEnqueue, ~QueueInv, ~Trickle
  PROVE  Unsent(S)' \in Nat /\ Unsent(S)' <= Unsent(S)
<1>1. Queued(S) \in Nat /\ Unsent(S) \in Nat
  BY CountsAreNat
<1>2. CASE Quiet
  BY <1>1, <1>2, FlowQuiet
<1>3. CASE QueueTake \/ QueueSendDone \/ QueueSeesQuit \/ QueueDrain
  <2>1. Queued(S)' \in Nat /\ Queued(S)' <= Queued(S)
    <3>1. CASE QueueTake \/ QueueSendDone
      BY <1>1, <3>1, FlowTake, FlowSendDone
    <3>2. CASE QueueSeesQuit
      <4>1. Count(pendingMsgs, S) \in Nat
        BY CountsAreNat
      <4>2. Queued(S) = Queued(S)' + Count(pendingMsgs, S) /\ Queued(S)' \in Nat
        BY <3>2, FlowSeesQuit
      <4> QED BY <1>1, <4>1, <4>2
    <3>3. CASE QueueDrain
      <4>1. One(Head(outputQueue), S) \in Nat
        BY DEF One
      <4>2. /\ Queued(S)' \in Nat
            /\ Queued(S) = Queued(S)' \/ Queued(S) = Queued(S)' + One(Head(outputQueue), S)
        BY <3>3, FlowDrain
      <4> QED BY <1>1, <4>1, <4>2
    <3> QED BY <1>3, <3>1, <3>2, <3>3
  <2>2. PICK a, b \in Nat :
           /\ Unsent(S) = Queued(S) + a /\ Unsent(S)' = Queued(S)' + a
           /\ Held(S) = Queued(S) + b /\ Held(S)' = Queued(S)' + b
    BY <1>3, FlowQueue DEF QueueStep
  <2> QED BY <1>1, <2>1, <2>2
<1>4. CASE OutTake
  BY <1>1, <1>4, FlowOutTake
<1>5. CASE WriteCheck \/ Write \/ WriteFails \/ OutDone
  BY <1>5, FlowOut
<1>6. CASE OutExit
  BY <1>6, FlowOutExit
<1> QED BY <1>2, <1>3, <1>4, <1>5, <1>6, NextCases
-----------------------------------------------------------------------------
(* No message exists twice.                                                *)

(* A message is its sender's own or nobody's.                              *)
LEMMA OwnFacts ==
  ASSUME NEW s \in Callers \cup {"in"}
  PROVE  /\ \A t \in Senders : One(MsgOf(t), {Own(s)}) = (IF t = s THEN 1 ELSE 0)
         /\ One(Reject, {Own(s)}) = (IF s = "in" THEN 1 ELSE 0)
         /\ \A n : One(Pong(n), {Own(s)}) = 0
         /\ \A ms \in Seq({InvMsg(S) : S \in SUBSET Invs}) : Count(ms, {Own(s)}) = 0
         /\ Own(s).id = s /\ Own(s).cmd \notin {"inv", "pong"}
         /\ s # "in" => Own(s) = MsgOf(s)
<1>1. "in" \notin Callers /\ "start" \notin Callers /\ \A c \in Callers : Cmd[c] \in {"getdata", "getheaders", "ping", "addr"}
  BY ConstantAssumption
<1>2. Own(s).id = s
  BY DEF Own, Reject, MsgOf
<1>3. Own(s).cmd \notin {"inv", "pong"}
  BY <1>1 DEF Own, Reject, MsgOf
<1>4. s # "in" => Own(s) = MsgOf(s)
  BY DEF Own
<1>5. \A t \in Senders : One(MsgOf(t), {Own(s)}) = (IF t = s THEN 1 ELSE 0)
  <2> TAKE t \in Senders
  <2>1. MsgOf(t).id = t /\ t # "in"
    BY <1>1 DEF MsgOf, Senders
  <2> QED BY <1>2, <1>4, <2>1 DEF One
<1>6. One(Reject, {Own(s)}) = (IF s = "in" THEN 1 ELSE 0)
  <2>1. Reject.id = "in"
    BY DEF Reject
  <2> QED BY <1>2, <2>1 DEF One, Own
<1>7. \A n : One(Pong(n), {Own(s)}) = 0
  <2> TAKE n
  <2>1. Pong(n).cmd = "pong"
    BY DEF Pong
  <2> QED BY <1>3, <2>1 DEF One
<1>8. ASSUME NEW ms \in Seq({InvMsg(S) : S \in SUBSET Invs}) PROVE Count(ms, {Own(s)}) = 0
  <2>1. \A i \in DOMAIN ms : ms[i] \in {InvMsg(S) : S \in SUBSET Invs}
    OBVIOUS
  <2>2. \A m \in {InvMsg(S) : S \in SUBSET Invs} : m.cmd = "inv"
    BY DEF InvMsg
  <2>3. \A i \in DOMAIN ms : ms[i] \notin {Own(s)}
    BY <1>3, <2>1, <2>2
  <2> QED BY <2>3, CountNone
<1> QED BY <1>2, <1>3, <1>4, <1>5, <1>6, <1>7, <1>8

LEMMA ToQueueType ==
  ASSUME NEW s
  PROVE  ToQueue(s) \in 0 .. 1 /\ ToQueue(s)' \in 0 .. 1
  BY DEF ToQueue

(* A goroutine queues its message once.                                    *)
LEMMA ToQueueSender ==
  ASSUME TypeInv, NEW t \in Senders, NEW s \in Callers \cup {"in"}
  PROVE  /\ Enqueue(t) => ToQueue(s)' = ToQueue(s) - (IF t = s THEN 1 ELSE 0)
         /\ QueueCheck(t) => ToQueue(s)' = ToQueue(s) - (IF t = s /\ disconnect THEN 1 ELSE 0)
<1>1. s \in Threads /\ t \in Threads /\ (t = s => s # "in") /\ pc \in [Threads -> Labels]
  BY ThreadFacts DEF Senders, TypeInv
<1>2. CASE t = s
  <2>1. Enqueue(t) => ToQueue(s) = 1 /\ ToQueue(s)' = 0
    BY <1>1, <1>2 DEF Enqueue, Goto, ToQueue
  <2>2. QueueCheck(t) => ToQueue(s) = 1 /\ ToQueue(s)' = (IF disconnect THEN 0 ELSE 1)
    BY <1>1, <1>2 DEF QueueCheck, Goto, ToQueue
  <2> QED BY <1>2, <2>1, <2>2
<1>3. CASE t # s
  <2>1. Enqueue(t) \/ QueueCheck(t) => pc'[s] = pc[s]
    BY <1>1, <1>3 DEF Enqueue, QueueCheck, Goto
  <2>2. Enqueue(t) \/ QueueCheck(t) => ToQueue(s)' = ToQueue(s)
    BY <2>1 DEF ToQueue
  <2> QED BY <1>3, <2>2, ToQueueType
<1> QED BY <1>2, <1>3

LEMMA ToQueueIn ==
  ASSUME TypeInv
  PROVE  /\ InEnqueue => ToQueue("in")' = ToQueue("in") - (IF inMsg = "ping" THEN 0 ELSE 1)
         /\ InQueueCheck => ToQueue("in")' = ToQueue("in") - (IF disconnect /\ inMsg # "ping" THEN 1 ELSE 0)
<1>1. "in" \in Threads /\ pc \in [Threads -> Labels]
  BY ThreadFacts DEF TypeInv
<1>2. InEnqueue => ToQueue("in") = 1 /\ ToQueue("in")' = (IF inMsg = "ping" THEN 1 ELSE 0)
  BY <1>1 DEF InEnqueue, Goto, ToQueue
<1>3. InQueueCheck => ToQueue("in") = 1 /\ ToQueue("in")' = (IF disconnect /\ inMsg # "ping" THEN 0 ELSE 1)
  BY <1>1 DEF InQueueCheck, Goto, ToQueue
<1> QED BY <1>2, <1>3

(* No other step puts a goroutine back before its QueueMessage.            *)
LEMMA ToQueueDown ==
  ASSUME TypeInv, PlaceInv, Next, NEW s \in Callers \cup {"in"}
  PROVE  ToQueue(s)' <= ToQueue(s)
<1>0. /\ \A t \in Senders : t # "in"
      /\ s \in Threads \ {"neg", "start", "queue", "out", "stall"} /\ pc \in [Threads -> Labels]
      /\ (s # "in" => s \notin Handlers)
  BY ThreadFacts, ConstantAssumption DEF Senders, TypeInv, Handlers
<1>1. pc'[s] = pc[s] => ToQueue(s)' <= ToQueue(s)
  BY ToQueueType DEF ToQueue
<1>2. CASE (\E ok \in BOOLEAN : Negotiate(ok)) \/ NegotiateSend \/ StartFails \/ Disconnect
  BY <1>0, <1>1, <1>2, NegMoves
<1>3. CASE StartHandlers
  <2>1. CASE s = "in"
    BY <1>3, <2>1, StartMoves DEF ToQueue
  <2>2. CASE s # "in"
    BY <1>0, <1>1, <1>3, <2>2, StartMoves
  <2> QED BY <2>1, <2>2
<1>4. ASSUME NEW t \in Senders, QueueCheck(t) \/ Enqueue(t) PROVE ToQueue(s)' <= ToQueue(s)
  BY <1>4, ToQueueSender, ToQueueType
<1>5. CASE \E iv \in Invs : QueueInventory(iv)
  BY <1>1, <1>5 DEF QueueInventory
<1>6. CASE (\E cmd \in RecvCmds : Receive(cmd)) \/ ReadFails \/ InStep
  <2>1. CASE s # "in"
    BY <1>0, <1>1, <1>6, <2>1, InMoves
  <2>2. CASE s = "in" /\ (InEnqueue \/ InQueueCheck)
    BY <2>2, ToQueueIn, ToQueueType
  <2>3. CASE s = "in" /\ (RejectSent \/ InExit)
    <3>1. pc'["in"] \in {"exit", "done"}
      BY <1>0, <2>3 DEF RejectSent, InExit, Goto
    <3>2. ToQueue("in")' = 0
      BY <3>1 DEF ToQueue
    <3> QED BY <2>3, <3>2, ToQueueType
  <2>4. CASE s = "in" /\ ~(InEnqueue \/ InQueueCheck \/ RejectSent \/ InExit)
    <3>1. pc["in"] \in {"read", "tell", "start", "handled"}
      BY <1>6, <2>4 DEF Receive, ReadFails, InStep, InTellStall
    <3>2. ToQueue("in") = 1
      BY <3>1 DEF ToQueue
    <3> QED BY <2>4, <3>2, ToQueueType
  <2> QED BY <2>1, <2>2, <2>3, <2>4
<1>7. CASE QueueStep
  BY <1>0, <1>1, <1>7, QueueMoves
<1>8. CASE OutStep \/ WriteFails
  BY <1>0, <1>1, <1>8, OutMoves
<1>9. CASE StallStep \/ StallTick
  BY <1>0, <1>1, <1>9, StallMoves
<1> QED BY <1>2, <1>3, <1>4, <1>5, <1>6, <1>7, <1>8, <1>9 DEF Next

(* The steps that give no signal.                                          *)
LEMMA NoSignal ==
  ASSUME Next, ~(\E t \in Senders : QueueCheck(t)), ~InQueueCheck, ~QueueSeesQuit, ~QueueDrain, ~WriteFails, ~OutDone, ~OutExit
  PROVE  UNCHANGED signalled
<1>1. CASE \/ (\E ok \in BOOLEAN : Negotiate(ok)) \/ NegotiateSend \/ StartHandlers \/ StartFails \/ Disconnect
           \/ (\E t \in Senders : Enqueue(t)) \/ (\E iv \in Invs : QueueInventory(iv))
  BY <1>1 DEF Negotiate, NegotiateSend, StartHandlers, StartFails, Disconnect, Enqueue, QueueInventory
<1>2. CASE (\E cmd \in RecvCmds : Receive(cmd)) \/ ReadFails \/ InStep
  BY <1>2 DEF Receive, ReadFails, InStep, InTellStall, InEnqueue, RejectSent, InExit
<1>3. CASE QueueStep
  BY <1>3 DEF QueueStep, QueueTake, QueueSendDone, QueueInv, Trickle, QueueExit
<1>4. CASE OutStep
  BY <1>4 DEF OutStep, OutTake, OutTellStall, WriteCheck, Write, OutSeesQuit
<1>5. CASE StallStep \/ StallTick
  BY <1>5 DEF StallStep, StallTick, StallControl, StallSeesQuit, StallExit, StallUnchanged
<1> QED BY <1>1, <1>2, <1>3, <1>4, <1>5 DEF Next

(* A message with a done channel that leaves the queues was signalled.     *)
LEMMA DoneStep ==
  ASSUME IInv, Next, NEW s \in WithDone \cup {"in"}
  PROVE  DoneTotal(s)' <= 1
<1> DEFINE H == Held({Own(s)})
           H2 == Held({Own(s)})'
           T == ToQueue(s)
           T2 == ToQueue(s)'
           G == signalled[s]
           G2 == signalled'[s]
<1>0. TypeInv /\ PlaceInv /\ s \in Callers \cup {"in"} /\ T + H + G <= 1
  BY ConstantAssumption DEF IInv, DoneInv, DoneTotal
<1>1. H \in Nat /\ T \in 0 .. 1 /\ T2 \in 0 .. 1 /\ G \in Nat /\ T2 <= T
  BY <1>0, CountsAreNat, ToQueueType, ToQueueDown DEF TypeInv
<1>2. DoneTotal(s)' = T2 + H2 + G2
  BY DEF DoneTotal
<1> HIDE DEF H, H2, T, T2, G, G2
<1>3. SUFFICES T2 + H2 + G2 <= 1
  BY <1>2
<1>5. ASSUME NEW m \in Msgs, Signal(<<m>>) PROVE G2 = G + One(m, {Own(s)}) /\ One(m, {Own(s)}) \in Nat
  BY <1>0, <1>5, SignalOne DEF G, G2, One
<1>6. CASE Quiet
  <2>1. H2 = H
    BY <1>0, <1>6, FlowQuiet DEF H, H2
  <2>2. ASSUME NEW t \in Senders, QueueCheck(t) PROVE T2 + H2 + G2 <= 1
    <3>1. T2 = T - (IF t = s /\ disconnect THEN 1 ELSE 0)
      BY <1>0, <2>2, ToQueueSender DEF T, T2
    <3>2. CASE disconnect
      <4>1. Signal(<<MsgOf(t)>>) /\ MsgOf(t) \in Msgs
        BY <2>2, <3>2, MsgFacts DEF QueueCheck
      <4>2. One(MsgOf(t), {Own(s)}) = IF t = s THEN 1 ELSE 0
        BY <1>0, OwnFacts
      <4> QED BY <1>0, <1>1, <1>5, <2>1, <3>1, <3>2, <4>1, <4>2
    <3>3. CASE ~disconnect
      <4>1. G2 = G
        BY <2>2, <3>3 DEF QueueCheck, G, G2
      <4> QED BY <1>0, <1>1, <2>1, <3>1, <3>3, <4>1
    <3> QED BY <3>2, <3>3
  <2>3. CASE InQueueCheck
    <3>1. CASE disconnect
      <4>1. Signal(<<Reply>>) /\ Reply \in Msgs
        BY <1>0, <2>3, <3>1, MsgFacts DEF InQueueCheck, TypeInv
      <4>2. One(Reply, {Own(s)}) = IF s = "in" /\ inMsg # "ping" THEN 1 ELSE 0
        BY <1>0, OwnFacts DEF Reply
      <4>3. s = "in" => T2 = T - (IF inMsg # "ping" THEN 1 ELSE 0)
        BY <1>0, <2>3, <3>1, ToQueueIn DEF T, T2
      <4> QED BY <1>0, <1>1, <1>5, <2>1, <4>1, <4>2, <4>3
    <3>2. CASE ~disconnect
      <4>1. G2 = G
        BY <2>3, <3>2 DEF InQueueCheck, G, G2
      <4> QED BY <1>0, <1>1, <2>1, <4>1
    <3> QED BY <3>1, <3>2
  <2>4. CASE ~(\E t \in Senders : QueueCheck(t)) /\ ~InQueueCheck
    <3>2. G2 = G
      <4>1. CASE \/ (\E ok \in BOOLEAN : Negotiate(ok)) \/ NegotiateSend \/ StartHandlers \/ StartFails \/ Disconnect
                 \/ (\E iv \in Invs : QueueInventory(iv))
        BY <4>1 DEF Negotiate, NegotiateSend, StartHandlers, StartFails, Disconnect, QueueInventory, G, G2
      <4>2. CASE (\E cmd \in RecvCmds : Receive(cmd)) \/ ReadFails \/ (InStep /\ ~InEnqueue)
        BY <2>4, <4>2 DEF Receive, ReadFails, InStep, InTellStall, RejectSent, InExit, G, G2
      <4>3. CASE QueueExit \/ OutTellStall \/ OutSeesQuit
        BY <4>3 DEF QueueExit, OutTellStall, OutSeesQuit, G, G2
      <4>4. CASE StallStep \/ StallTick
        BY <4>4 DEF StallStep, StallTick, StallControl, StallSeesQuit, StallExit, StallUnchanged, G, G2
      <4> QED BY <1>6, <2>4, <4>1, <4>2, <4>3, <4>4 DEF Quiet
    <3> QED BY <1>0, <1>1, <2>1, <3>2
  <2> QED BY <2>2, <2>3, <2>4
<1>7. ASSUME NEW t \in Senders, Enqueue(t) PROVE T2 + H2 + G2 <= 1
  <2>1. H2 = H + One(MsgOf(t), {Own(s)})
    <3>1. pc'["out"] = pc["out"]
      BY <1>0, <1>7, ThreadFacts DEF Enqueue, Goto, TypeInv
    <3>2. outputQueue' = Append(outputQueue, MsgOf(t)) /\ UNCHANGED <<pendingMsgs, sendQueue, outMsg>>
      BY <1>7 DEF Enqueue, queueVars
    <3>3. MsgOf(t) \in Msgs
      BY MsgFacts
    <3> QED BY <1>0, <3>1, <3>2, <3>3, FlowEnqueue DEF H, H2
  <2>2. One(MsgOf(t), {Own(s)}) = IF t = s THEN 1 ELSE 0
    BY <1>0, OwnFacts
  <2>3. T2 = T - (IF t = s THEN 1 ELSE 0)
    BY <1>0, <1>7, ToQueueSender DEF T, T2
  <2>4. G2 = G
    BY <1>7 DEF Enqueue, G, G2
  <2> QED BY <1>0, <1>1, <2>1, <2>2, <2>3, <2>4
<1>8. CASE InEnqueue
  <2>1. H2 = H + One(Reply, {Own(s)})
    <3>1. pc'["out"] = pc["out"]
      BY <1>0, <1>8, ThreadFacts DEF InEnqueue, Goto, TypeInv
    <3>2. outputQueue' = Append(outputQueue, Reply) /\ UNCHANGED <<pendingMsgs, sendQueue, outMsg>>
      BY <1>8 DEF InEnqueue, InUnchanged, queueVars
    <3>3. Reply \in Msgs
      BY <1>0, MsgFacts DEF TypeInv
    <3> QED BY <1>0, <3>1, <3>2, <3>3, FlowEnqueue DEF H, H2
  <2>2. One(Reply, {Own(s)}) = IF s = "in" /\ inMsg # "ping" THEN 1 ELSE 0
    BY <1>0, OwnFacts DEF Reply
  <2>3. s = "in" => T2 = T - (IF inMsg = "ping" THEN 0 ELSE 1)
    BY <1>0, <1>8, ToQueueIn DEF T, T2
  <2>4. G2 = G
    BY <1>8 DEF InEnqueue, G, G2
  <2> QED BY <1>0, <1>1, <2>1, <2>2, <2>3, <2>4
<1>9. CASE QueueTake \/ QueueSendDone \/ QueueSeesQuit \/ QueueDrain
  <2>1. PICK a, b \in Nat : Held({Own(s)}) = Queued({Own(s)}) + b /\ Held({Own(s)})' = Queued({Own(s)})' + b
    BY <1>0, <1>9, FlowQueue DEF QueueStep
  <2>2. Queued({Own(s)}) \in Nat
    BY <1>0, CountsAreNat
  <2>3. ASSUME NEW n \in Nat, Queued({Own(s)}) = Queued({Own(s)})' + n, Queued({Own(s)})' \in Nat, G2 = G + n
        PROVE  T2 + H2 + G2 <= 1
    BY <1>0, <1>1, <2>1, <2>2, <2>3 DEF H, H2
  <2>4. CASE QueueTake \/ QueueSendDone
    <3>1. Queued({Own(s)})' = Queued({Own(s)})
      BY <1>0, <2>4, FlowTake, FlowSendDone
    <3>2. G2 = G
      BY <2>4 DEF QueueTake, QueueSendDone, G, G2
    <3> QED BY <1>1, <2>2, <2>3, <3>1, <3>2
  <2>5. CASE QueueSeesQuit
    <3>1. pendingMsgs \in Seq(Msgs) /\ Signal(pendingMsgs)
      BY <1>0, <2>5 DEF QueueSeesQuit, TypeInv
    <3>2. G2 = G + Count(pendingMsgs, {Own(s)})
      BY <1>0, <3>1, SignalFacts DEF G, G2
    <3>3. Queued({Own(s)}) = Queued({Own(s)})' + Count(pendingMsgs, {Own(s)}) /\ Queued({Own(s)})' \in Nat
      BY <1>0, <2>5, FlowSeesQuit
    <3>4. Count(pendingMsgs, {Own(s)}) \in Nat
      BY <1>0, CountsAreNat
    <3> QED BY <2>3, <3>2, <3>3, <3>4
  <2>6. CASE QueueDrain
    <3>1. CASE outputQueue = <<>>
      <4>1. G2 = G
        BY <2>6, <3>1 DEF QueueDrain, G, G2
      <4>2. Queued({Own(s)})' = Queued({Own(s)})
        BY <1>0, <2>6, <3>1, FlowDrain
      <4> QED BY <1>1, <2>2, <2>3, <4>1, <4>2
    <3>2. CASE outputQueue # <<>>
      <4>1. Signal(<<Head(outputQueue)>>) /\ Head(outputQueue) \in Msgs
        BY <1>0, <2>6, <3>2 DEF QueueDrain, TypeInv
      <4>2. Queued({Own(s)}) = Queued({Own(s)})' + One(Head(outputQueue), {Own(s)}) /\ Queued({Own(s)})' \in Nat
        BY <1>0, <2>6, <3>2, FlowDrain
      <4> QED BY <1>5, <2>3, <4>1, <4>2
    <3> QED BY <3>1, <3>2
  <2> QED BY <1>9, <2>4, <2>5, <2>6
<1>10. CASE QueueInv \/ Trickle
  <2>1. H2 = H
    <3>1. CASE QueueInv
      <4>1. PICK ms \in Seq({InvMsg({iv}) : iv \in BlockInvs}) : Held({Own(s)})' = Held({Own(s)}) + Count(ms, {Own(s)})
        BY <1>0, <3>1, FlowInv
      <4>2. ms \in Seq({InvMsg(S) : S \in SUBSET Invs})
        <5>1. {InvMsg({iv}) : iv \in BlockInvs} \subseteq {InvMsg(S) : S \in SUBSET Invs}
          BY DEF Invs
        <5>2. \A A, B : A \subseteq B => \A q \in Seq(A) : q \in Seq(B)
          OBVIOUS
        <5> QED BY <5>1, <5>2
      <4>3. Count(ms, {Own(s)}) = 0
        BY <1>0, <4>2, OwnFacts
      <4> QED BY <1>1, <4>1, <4>3 DEF H, H2
    <3>2. CASE Trickle
      <4>1. Held({Own(s)})' = Held({Own(s)}) + Count(Batches(Fresh), {Own(s)})
        BY <1>0, <3>2, FlowInv
      <4>2. Batches(Fresh) \in Seq({InvMsg(S) : S \in SUBSET Invs})
        BY <1>0, FreshFacts, BatchFacts DEF TypeInv
      <4>3. Count(Batches(Fresh), {Own(s)}) = 0
        BY <1>0, <4>2, OwnFacts
      <4> QED BY <1>1, <4>1, <4>3 DEF H, H2
    <3> QED BY <1>10, <3>1, <3>2
  <2>2. G2 = G
    BY <1>10 DEF QueueInv, Trickle, G, G2
  <2> QED BY <1>0, <1>1, <2>1, <2>2
<1>11. CASE OutTake \/ WriteCheck \/ Write
  <2>1. H2 \in Nat /\ H2 <= H
    BY <1>0, <1>1, <1>11, FlowOut, FlowOutTake DEF H, H2
  <2>2. G2 = G
    BY <1>11 DEF OutTake, WriteCheck, Write, G, G2
  <2> QED BY <1>0, <1>1, <2>1, <2>2
<1>12. CASE WriteFails \/ OutDone
  <2>1. Signal(<<outMsg>>) /\ outMsg \in Msgs
    BY <1>0, <1>12 DEF WriteFails, OutDone, TypeInv, HasMsg, Sending
  <2>2. H = H2 + One(outMsg, {Own(s)}) /\ H2 \in Nat
    BY <1>0, <1>12, FlowOut DEF H, H2
  <2>3. G2 = G + One(outMsg, {Own(s)}) /\ One(outMsg, {Own(s)}) \in Nat
    BY <1>5, <2>1
  <2>4. \A n, h2, g, t, t2 \in Nat : t + (h2 + n) + g <= 1 /\ t2 <= t => t2 + h2 + (g + n) <= 1
    OBVIOUS
  <2>5. T + (H2 + One(outMsg, {Own(s)})) + G <= 1 /\ T \in Nat /\ T2 \in Nat
    BY <1>0, <1>1, <2>2 DEF H, T, G
  <2>6. T2 + H2 + (G + One(outMsg, {Own(s)})) <= 1
    BY <1>1, <2>2, <2>3, <2>4, <2>5
  <2> QED BY <2>3, <2>6
<1>13. CASE OutExit
  <2>1. Signal(sendQueue) /\ sendQueue \in Seq(Msgs)
    BY <1>0, <1>13 DEF OutExit, TypeInv
  <2>2. G2 = G + Count(sendQueue, {Own(s)})
    BY <1>0, <2>1, SignalFacts DEF G, G2
  <2>3. H = H2 + Count(sendQueue, {Own(s)}) /\ H2 \in Nat /\ Count(sendQueue, {Own(s)}) \in Nat
    BY <1>0, <1>13, FlowOutExit, CountsAreNat DEF H, H2
  <2> QED BY <1>0, <1>1, <2>2, <2>3
<1> QED BY <1>6, <1>7, <1>8, <1>9, <1>10, <1>11, <1>12, <1>13, NextCases

(* A signal before the write is given while the peer disconnects.          *)
LEMMA SignalsTimely ==
  ASSUME IInv, Next, NEW s \in WithDone \cup {"in"}, signalled'[s] # 0
  PROVE  disconnect' \/ s \in written'
<1>0. TypeInv /\ PlaceInv /\ DoneInv /\ s \in Callers \cup {"in"} /\ (disconnect => disconnect') /\ written \subseteq written'
  BY ConstantAssumption, Forever DEF IInv
<1>1. SUFFICES ASSUME ~disconnect', signalled[s] = 0 PROVE s \in written'
  BY <1>0 DEF DoneInv
<1>2. ~disconnect
  BY <1>0, <1>1
<1>3. ~(\E t \in Senders : QueueCheck(t)) /\ ~InQueueCheck
  <2>1. ASSUME NEW t \in Senders, QueueCheck(t) PROVE FALSE
    BY <1>1, <1>2, <2>1 DEF QueueCheck
  <2>2. ASSUME InQueueCheck PROVE FALSE
    BY <1>1, <1>2, <2>2 DEF InQueueCheck
  <2> QED BY <2>1, <2>2
<1>4. ~QueueSeesQuit /\ ~QueueDrain /\ ~WriteFails /\ ~OutExit
  BY <1>0, <1>1, <1>2 DEF QueueSeesQuit, QueueDrain, WriteFails, OutExit, PlaceInv
<1>5. OutDone
  BY <1>1, <1>3, <1>4, NoSignal
<1>6. outMsg \in Msgs /\ Signal(<<outMsg>>) /\ (outMsg.cmd \in {"inv", "pong"} \/ outMsg.id \in written)
  BY <1>0, <1>2, <1>5 DEF OutDone, TypeInv, HasMsg, Sending, DoneInv
<1>7. One(outMsg, {Own(s)}) # 0
  BY <1>0, <1>1, <1>6, SignalOne
<1>8. outMsg = Own(s)
  BY <1>7 DEF One
<1> QED BY <1>0, <1>6, <1>8, OwnFacts

(* What outHandler has written, or skipped because of a disconnect.        *)
LEMMA WrittenPlace ==
  ASSUME IInv, Next, pc'["out"] = "written"
  PROVE  disconnect' \/ outMsg'.cmd \in {"inv", "pong"} \/ outMsg'.id \in written'
<1>0. TypeInv /\ PlaceInv /\ DoneInv /\ (disconnect => disconnect') /\ written \subseteq written'
  BY Forever DEF IInv
<1>1. CASE OutStep \/ WriteFails
  <2>1. CASE WriteCheck
    BY <1>0, <2>1, ThreadFacts DEF WriteCheck, Goto, TypeInv
  <2>2. CASE Write
    BY <2>2 DEF Write
  <2>3. ~WriteCheck /\ ~Write => pc'["out"] # "written"
    BY <1>0, <1>1, ThreadFacts DEF OutStep, OutTake, OutTellStall, WriteFails, OutDone, OutSeesQuit, OutExit, Goto, TypeInv
  <2> QED BY <2>1, <2>2, <2>3
<1>2. CASE ~(OutStep \/ WriteFails)
  <2>1. outMsg' = outMsg
    <3>1. CASE \/ (\E ok \in BOOLEAN : Negotiate(ok)) \/ NegotiateSend \/ StartHandlers \/ StartFails \/ Disconnect
               \/ (\E t \in Senders : QueueCheck(t) \/ Enqueue(t)) \/ (\E iv \in Invs : QueueInventory(iv))
      BY <3>1 DEF Negotiate, NegotiateSend, StartHandlers, StartFails, Disconnect, QueueCheck, Enqueue, QueueInventory
    <3>2. CASE (\E cmd \in RecvCmds : Receive(cmd)) \/ ReadFails \/ InStep
      BY <3>2 DEF Receive, ReadFails, InStep, InTellStall, InQueueCheck, InEnqueue, RejectSent, InExit, InUnchanged
    <3>3. CASE QueueStep
      BY <3>3 DEF QueueStep, QueueTake, QueueSendDone, QueueInv, Trickle, QueueSeesQuit, QueueDrain, QueueExit, QueueUnchanged
    <3>4. CASE StallStep \/ StallTick
      BY <3>4 DEF StallStep, StallTick, StallControl, StallSeesQuit, StallExit, StallUnchanged
    <3> QED BY <1>2, <3>1, <3>2, <3>3, <3>4 DEF Next
  <2>2. pc["out"] = "written"
    <3>1. CASE StartHandlers
      BY <1>0, <3>1, StartMoves
    <3>2. CASE (\E ok \in BOOLEAN : Negotiate(ok)) \/ NegotiateSend \/ StartFails \/ Disconnect
      BY <1>0, <3>2, NegMoves, ThreadFacts
    <3>3. CASE \E t \in Senders : QueueCheck(t) \/ Enqueue(t)
      BY <1>0, <3>3, ThreadFacts DEF QueueCheck, Enqueue, Goto, TypeInv
    <3>4. CASE \E iv \in Invs : QueueInventory(iv)
      BY <3>4 DEF QueueInventory
    <3>5. CASE (\E cmd \in RecvCmds : Receive(cmd)) \/ ReadFails \/ InStep
      BY <1>0, <3>5, InMoves, ThreadFacts
    <3>6. CASE QueueStep
      BY <1>0, <3>6, QueueMoves, ThreadFacts
    <3>7. CASE StallStep \/ StallTick
      BY <1>0, <3>7, StallMoves, ThreadFacts
    <3> QED BY <1>2, <3>1, <3>2, <3>3, <3>4, <3>5, <3>6, <3>7 DEF Next
  <2> QED BY <1>0, <2>1, <2>2 DEF DoneInv
<1> QED BY <1>1, <1>2

(* Nothing but Write writes.                                               *)
LEMMA NoWrite ==
  ASSUME Next, ~Write
  PROVE  UNCHANGED <<written, relayed>>
<1>1. CASE \/ (\E ok \in BOOLEAN : Negotiate(ok)) \/ NegotiateSend \/ StartHandlers \/ StartFails \/ Disconnect
           \/ (\E t \in Senders : QueueCheck(t) \/ Enqueue(t)) \/ (\E iv \in Invs : QueueInventory(iv))
  <2>1. historyVars' = historyVars
    BY <1>1 DEF Negotiate, NegotiateSend, StartHandlers, StartFails, Disconnect, QueueCheck, Enqueue, QueueInventory
  <2> QED BY <2>1 DEF historyVars
<1>2. CASE (\E cmd \in RecvCmds : Receive(cmd)) \/ ReadFails \/ InStep
  BY <1>2 DEF Receive, ReadFails, InStep, InTellStall, InQueueCheck, InEnqueue, RejectSent, InExit, InUnchanged, historyVars
<1>3. CASE QueueStep
  BY <1>3 DEF QueueStep, QueueTake, QueueSendDone, QueueInv, Trickle, QueueSeesQuit, QueueDrain, QueueExit, QueueUnchanged
<1>4. CASE OutStep \/ WriteFails
  BY <1>4 DEF OutStep, OutTake, OutTellStall, WriteCheck, WriteFails, OutDone, OutSeesQuit, OutExit, historyVars
<1>5. CASE StallStep \/ StallTick
  BY <1>5 DEF StallStep, StallTick, StallControl, StallSeesQuit, StallExit, StallUnchanged, historyVars
<1> QED BY <1>1, <1>2, <1>3, <1>4, <1>5 DEF Next

LEMMA WriteStep ==
  ASSUME IInv, Next, NEW c \in Callers
  PROVE  WriteTotal(c)' <= 1
<1> DEFINE U == Unsent({MsgOf(c)})
           U2 == Unsent({MsgOf(c)})'
           T == ToQueue(c)
           T2 == ToQueue(c)'
           W == IF c \in written THEN 1 ELSE 0
           W2 == IF c \in written' THEN 1 ELSE 0
<1>0. TypeInv /\ PlaceInv /\ c \in Callers \cup {"in"} /\ Own(c) = MsgOf(c) /\ c # "in" /\ c \in Senders /\ T + U + W <= 1
  BY ConstantAssumption DEF IInv, WriteInv, WriteTotal, Own, Senders
<1>1. U \in Nat /\ T \in 0 .. 1 /\ T2 \in 0 .. 1 /\ W \in Nat /\ W2 \in Nat /\ T2 <= T
  BY <1>0, CountsAreNat, ToQueueType, ToQueueDown
<1>2. WriteTotal(c)' = T2 + U2 + W2
  BY DEF WriteTotal
<1>3. ~Write => W2 = W
  BY NoWrite
<1> HIDE DEF U, U2, T, T2, W, W2
<1>4. SUFFICES T2 + U2 + W2 <= 1
  BY <1>2
<1>5. CASE Write
  <2>1. U = U2 + One(outMsg, {MsgOf(c)}) /\ U2 \in Nat
    BY <1>0, <1>5, FlowOut DEF U, U2
  <2>2. outMsg \in Msgs
    BY <1>0, <1>5 DEF Write, TypeInv, HasMsg, Sending
  <2>3. CASE outMsg = MsgOf(c)
    <3>1. One(outMsg, {MsgOf(c)}) = 1
      BY <2>3 DEF One
    <3>2. W2 <= 1
      BY DEF W2
    <3> QED BY <1>0, <1>1, <2>1, <3>1, <3>2
  <2>4. CASE outMsg # MsgOf(c)
    <3>1. One(outMsg, {MsgOf(c)}) = 0
      BY <2>4 DEF One
    <3>2. outMsg.cmd \notin {"inv", "pong"} => outMsg.id # c
      <4>1. outMsg \in {Pong(n) : n \in 0 .. MaxRecv} \cup {InvMsg(S) : S \in SUBSET Invs} => outMsg.cmd \in {"inv", "pong"}
        BY DEF Pong, InvMsg
      <4>2. outMsg = Reject => outMsg.id = "in"
        BY DEF Reject
      <4>3. \A t \in Senders : outMsg = MsgOf(t) => outMsg.id = t
        BY DEF MsgOf
      <4> QED BY <1>0, <2>2, <2>4, <4>1, <4>2, <4>3 DEF Msgs
    <3>3. c \in written' => c \in written
      BY <1>5, <3>2 DEF Write
    <3>4. W2 <= W
      BY <3>3 DEF W, W2
    <3> QED BY <1>0, <1>1, <2>1, <3>1, <3>4
  <2> QED BY <2>3, <2>4
<1>6. ASSUME NEW t \in Senders, Enqueue(t) PROVE T2 + U2 + W2 <= 1
  <2>1. U2 = U + One(MsgOf(t), {MsgOf(c)})
    <3>1. pc'["out"] = pc["out"] /\ ~Write
      BY <1>0, <1>6, ThreadFacts DEF Enqueue, Write, Goto, TypeInv
    <3>2. outputQueue' = Append(outputQueue, MsgOf(t)) /\ UNCHANGED <<pendingMsgs, sendQueue, outMsg>>
      BY <1>6 DEF Enqueue, queueVars
    <3>3. MsgOf(t) \in Msgs
      BY MsgFacts
    <3> QED BY <1>0, <3>1, <3>2, <3>3, FlowEnqueue DEF U, U2
  <2>2. One(MsgOf(t), {MsgOf(c)}) = IF t = c THEN 1 ELSE 0
    BY <1>0, OwnFacts, ZenonT(40)
  <2>3. T2 = T - (IF t = c THEN 1 ELSE 0)
    BY <1>0, <1>6, ToQueueSender DEF T, T2
  <2>4. W2 = W
    BY <1>6 DEF Enqueue, historyVars, W, W2
  <2> QED BY <1>0, <1>1, <2>1, <2>2, <2>3, <2>4
<1>7. CASE InEnqueue
  <2>1. U2 = U + One(Reply, {MsgOf(c)})
    <3>1. pc'["out"] = pc["out"]
      BY <1>0, <1>7, ThreadFacts DEF InEnqueue, Goto, TypeInv
    <3>2. outputQueue' = Append(outputQueue, Reply) /\ UNCHANGED <<pendingMsgs, sendQueue, outMsg>>
      BY <1>7 DEF InEnqueue, InUnchanged, queueVars
    <3>3. Reply \in Msgs
      BY <1>0, MsgFacts DEF TypeInv
    <3> QED BY <1>0, <3>1, <3>2, <3>3, FlowEnqueue DEF U, U2
  <2>2. One(Reply, {MsgOf(c)}) = 0
    BY <1>0, OwnFacts DEF Reply
  <2>3. W2 = W
    BY <1>7 DEF InEnqueue, InUnchanged, historyVars, W, W2
  <2> QED BY <1>0, <1>1, <2>1, <2>2, <2>3
<1>8. CASE QueueInv \/ Trickle
  <2>1. U2 = U
    <3>1. CASE QueueInv
      <4>1. PICK ms \in Seq({InvMsg({iv}) : iv \in BlockInvs}) : Unsent({MsgOf(c)})' = Unsent({MsgOf(c)}) + Count(ms, {MsgOf(c)})
        BY <1>0, <3>1, FlowInv
      <4>2. ms \in Seq({InvMsg(S) : S \in SUBSET Invs})
        <5>1. {InvMsg({iv}) : iv \in BlockInvs} \subseteq {InvMsg(S) : S \in SUBSET Invs}
          BY DEF Invs
        <5>2. \A A, B : A \subseteq B => \A q \in Seq(A) : q \in Seq(B)
          OBVIOUS
        <5> QED BY <5>1, <5>2
      <4>3. Count(ms, {MsgOf(c)}) = 0
        BY <1>0, <4>2, OwnFacts
      <4> QED BY <1>1, <4>1, <4>3 DEF U, U2
    <3>2. CASE Trickle
      <4>1. Unsent({MsgOf(c)})' = Unsent({MsgOf(c)}) + Count(Batches(Fresh), {MsgOf(c)})
        BY <1>0, <3>2, FlowInv
      <4>2. Batches(Fresh) \in Seq({InvMsg(S) : S \in SUBSET Invs})
        BY <1>0, FreshFacts, BatchFacts DEF TypeInv
      <4>3. Count(Batches(Fresh), {MsgOf(c)}) = 0
        BY <1>0, <4>2, OwnFacts
      <4> QED BY <1>1, <4>1, <4>3 DEF U, U2
    <3> QED BY <1>8, <3>1, <3>2
  <2>2. W2 = W
    BY <1>8 DEF QueueInv, Trickle, QueueUnchanged, W, W2
  <2> QED BY <1>0, <1>1, <2>1, <2>2
<1>9. CASE ~(\E t \in Senders : Enqueue(t)) /\ ~InEnqueue /\ ~QueueInv /\ ~Trickle /\ ~Write
  <2>1. U2 \in Nat /\ U2 <= U
    BY <1>0, <1>9, FlowDown DEF U, U2
  <2> QED BY <1>0, <1>1, <1>3, <1>9, <2>1
<1> QED BY <1>5, <1>6, <1>7, <1>8, <1>9

(* Known inventory stays known.                                            *)
LEMMA KnownGrows ==
  ASSUME Next
  PROVE  knownInventory \subseteq knownInventory'
<1>1. CASE \/ (\E ok \in BOOLEAN : Negotiate(ok)) \/ NegotiateSend \/ StartHandlers \/ StartFails \/ Disconnect
           \/ (\E t \in Senders : QueueCheck(t) \/ Enqueue(t)) \/ (\E iv \in Invs : QueueInventory(iv))
  BY <1>1 DEF Negotiate, NegotiateSend, StartHandlers, StartFails, Disconnect, QueueCheck, Enqueue, QueueInventory, queueVars
<1>2. CASE (\E cmd \in RecvCmds : Receive(cmd)) \/ ReadFails \/ InStep
  BY <1>2 DEF Receive, ReadFails, InStep, InTellStall, InQueueCheck, InEnqueue, RejectSent, InExit, InUnchanged, queueVars
<1>3. CASE QueueStep
  BY <1>3 DEF QueueStep, QueueTake, QueueSendDone, QueueInv, Trickle, QueueSeesQuit, QueueDrain, QueueExit, queueVars
<1>4. CASE OutStep \/ WriteFails
  BY <1>4 DEF OutStep, OutTake, OutTellStall, WriteCheck, Write, WriteFails, OutDone, OutSeesQuit, OutExit, OutUnchanged, queueVars
<1>5. CASE StallStep \/ StallTick
  BY <1>5 DEF StallStep, StallTick, StallControl, StallSeesQuit, StallExit, StallUnchanged, queueVars
<1> QED BY <1>1, <1>2, <1>3, <1>4, <1>5 DEF Next

(* Only inv messages carry inventory.                                      *)
LEMMA CarryingFacts ==
  ASSUME NEW iv \in TxInvs
  PROVE  /\ \A t \in Senders : One(MsgOf(t), Carrying(iv)) = 0
         /\ One(Reply, Carrying(iv)) = 0
         /\ \A ms \in Seq({InvMsg({b}) : b \in BlockInvs}) : Count(ms, Carrying(iv)) = 0
         /\ \A m \in Msgs : m.cmd = "inv" /\ iv \in m.id <=> m \in Carrying(iv)
<1>1. \A m \in Carrying(iv) : m.cmd = "inv" /\ iv \in m.id
  BY DEF Carrying, InvMsg
<1>2. \A t \in Senders : MsgOf(t).cmd # "inv"
  BY ConstantAssumption DEF MsgOf, Senders
<1>3. Reply.cmd # "inv" /\ Reject.cmd # "inv" /\ \A n : Pong(n).cmd # "inv"
  BY DEF Reply, Pong, Reject
<1>4. ASSUME NEW ms \in Seq({InvMsg({b}) : b \in BlockInvs}) PROVE Count(ms, Carrying(iv)) = 0
  <2>1. \A m \in {InvMsg({b}) : b \in BlockInvs} : iv \notin m.id
    BY ConstantAssumption DEF InvMsg
  <2>2. \A i \in DOMAIN ms : ms[i] \in {InvMsg({b}) : b \in BlockInvs}
    <3>1. \A M : \A q \in Seq(M) : \A i \in DOMAIN q : q[i] \in M
      OBVIOUS
    <3> QED BY <1>4, <3>1
  <2>3. \A i \in DOMAIN ms : ms[i] \notin Carrying(iv)
    BY <1>1, <2>1, <2>2
  <2> QED BY <2>3, CountNone
<1>5. \A m \in Msgs : m.cmd = "inv" => m \in {InvMsg(S) : S \in SUBSET Invs}
  BY <1>2, <1>3 DEF Msgs
<1>6. \A m \in Msgs : m.cmd = "inv" /\ iv \in m.id <=> m \in Carrying(iv)
  BY <1>1, <1>5 DEF Carrying
<1> QED BY <1>1, <1>2, <1>3, <1>4, <1>6 DEF One

LEMMA RelayStep ==
  ASSUME IInv, Next, NEW iv \in TxInvs
  PROVE  RelayTotal(iv)' <= 1 /\ (iv \notin knownInventory' => RelayTotal(iv)' = 0)
<1> DEFINE U == Unsent(Carrying(iv))
           U2 == Unsent(Carrying(iv))'
           R == relayed[iv]
           R2 == relayed'[iv]
<1>0. TypeInv /\ PlaceInv /\ iv \in Invs /\ U + R <= 1 /\ (iv \notin knownInventory => U + R = 0)
  BY DEF IInv, RelayInv, RelayTotal, Invs
<1>1. U \in Nat /\ R \in Nat /\ knownInventory \subseteq knownInventory'
  BY <1>0, CountsAreNat, KnownGrows DEF TypeInv
<1>2. RelayTotal(iv)' = U2 + R2
  BY DEF RelayTotal
<1>3. ~Write => R2 = R
  BY NoWrite
<1> HIDE DEF U, U2, R, R2
<1>4. SUFFICES U2 + R2 <= 1 /\ (iv \notin knownInventory' => U2 + R2 = 0)
  BY <1>2
<1>5. ASSUME U2 + R2 <= U + R, U2 \in Nat, R2 \in Nat
      PROVE  U2 + R2 <= 1 /\ (iv \notin knownInventory' => U2 + R2 = 0)
  BY <1>0, <1>1, <1>5
<1>6. CASE Write
  <2>1. U = U2 + One(outMsg, Carrying(iv)) /\ U2 \in Nat
    BY <1>0, <1>6, FlowOut DEF U, U2
  <2>2. outMsg \in Msgs
    BY <1>0, <1>6 DEF Write, TypeInv, HasMsg, Sending
  <2>3. R2 = IF outMsg.cmd = "inv" /\ iv \in outMsg.id THEN R + 1 ELSE R
    BY <1>0, <1>6 DEF Write, R, R2
  <2>4. R2 = R + One(outMsg, Carrying(iv)) /\ One(outMsg, Carrying(iv)) \in Nat
    <3>1. outMsg.cmd = "inv" /\ iv \in outMsg.id <=> outMsg \in Carrying(iv)
      BY <2>2, CarryingFacts
    <3> QED BY <1>1, <2>3, <3>1 DEF One
  <2>5. \A u, r, n \in Nat : u + (r + n) <= (u + n) + r /\ r + n \in Nat
    OBVIOUS
  <2> QED BY <1>1, <1>5, <2>1, <2>4, <2>5
<1>7. ASSUME NEW t \in Senders, Enqueue(t) PROVE U2 + R2 <= U + R /\ U2 \in Nat /\ R2 \in Nat
  <2>1. U2 = U + One(MsgOf(t), Carrying(iv))
    <3>1. pc'["out"] = pc["out"]
      BY <1>0, <1>7, ThreadFacts DEF Enqueue, Goto, TypeInv
    <3>2. outputQueue' = Append(outputQueue, MsgOf(t)) /\ UNCHANGED <<pendingMsgs, sendQueue, outMsg>>
      BY <1>7 DEF Enqueue, queueVars
    <3>3. MsgOf(t) \in Msgs
      BY MsgFacts
    <3> QED BY <1>0, <3>1, <3>2, <3>3, FlowEnqueue DEF U, U2
  <2>2. One(MsgOf(t), Carrying(iv)) = 0
    BY CarryingFacts
  <2>3. R2 = R
    BY <1>7 DEF Enqueue, historyVars, R, R2
  <2> QED BY <1>1, <2>1, <2>2, <2>3
<1>8. CASE InEnqueue
  <2>1. U2 = U + One(Reply, Carrying(iv))
    <3>1. pc'["out"] = pc["out"]
      BY <1>0, <1>8, ThreadFacts DEF InEnqueue, Goto, TypeInv
    <3>2. outputQueue' = Append(outputQueue, Reply) /\ UNCHANGED <<pendingMsgs, sendQueue, outMsg>>
      BY <1>8 DEF InEnqueue, InUnchanged, queueVars
    <3>3. Reply \in Msgs
      BY <1>0, MsgFacts DEF TypeInv
    <3> QED BY <1>0, <3>1, <3>2, <3>3, FlowEnqueue DEF U, U2
  <2>2. One(Reply, Carrying(iv)) = 0
    BY CarryingFacts
  <2>3. R2 = R
    BY <1>8 DEF InEnqueue, InUnchanged, historyVars, R, R2
  <2> QED BY <1>1, <1>5, <2>1, <2>2, <2>3
<1>9. CASE QueueInv
  <2>1. PICK ms \in Seq({InvMsg({b}) : b \in BlockInvs}) : Unsent(Carrying(iv))' = Unsent(Carrying(iv)) + Count(ms, Carrying(iv))
    BY <1>0, <1>9, FlowInv
  <2>2. Count(ms, Carrying(iv)) = 0
    BY CarryingFacts
  <2>3. U2 = U
    BY <1>1, <2>1, <2>2 DEF U, U2
  <2>4. R2 = R
    BY <1>9 DEF QueueInv, QueueUnchanged, R, R2
  <2> QED BY <1>1, <1>5, <2>3, <2>4
<1>10. CASE Trickle
  <2> DEFINE n == Count(Batches(Fresh), Carrying(iv))
  <2>1. /\ Fresh \in Seq(Invs)
        /\ \A a, b \in DOMAIN Fresh : Fresh[a] = Fresh[b] => a = b
        /\ \A a \in DOMAIN Fresh : Fresh[a] \notin knownInventory
    BY <1>0, FreshFacts DEF TypeInv
  <2>2. /\ Batches(Fresh) \in Seq({InvMsg(S) : S \in SUBSET Invs})
        /\ n <= 1 /\ (iv \notin ToSet(Fresh) => n = 0)
    BY <2>1, BatchFacts
  <2>3. n \in Nat
    BY <2>2, CountType
  <2>4. U2 = U + n
    BY <1>0, <1>10, FlowInv DEF U, U2
  <2>5. iv \in ToSet(Fresh) => iv \notin knownInventory
    BY <2>1 DEF ToSet
  <2>6. knownInventory' = knownInventory \cup ToSet(Fresh)
    BY <1>10 DEF Trickle
  <2>7. R2 = R
    BY <1>10 DEF Trickle, QueueUnchanged, R, R2
  <2> HIDE DEF n
  <2>8. CASE iv \in ToSet(Fresh)
    <3>1. U + R = 0 /\ iv \in knownInventory'
      BY <1>0, <2>5, <2>6, <2>8
    <3> QED BY <1>1, <2>2, <2>3, <2>4, <2>7, <3>1
  <2>9. CASE iv \notin ToSet(Fresh)
    BY <1>1, <1>5, <2>2, <2>4, <2>7, <2>9
  <2> QED BY <2>8, <2>9
<1>11. CASE ~(\E t \in Senders : Enqueue(t)) /\ ~InEnqueue /\ ~QueueInv /\ ~Trickle /\ ~Write
  <2>1. U2 \in Nat /\ U2 <= U
    BY <1>0, <1>11, FlowDown DEF U, U2
  <2> QED BY <1>1, <1>3, <1>5, <1>11, <2>1
<1> QED BY <1>5, <1>6, <1>7, <1>8, <1>9, <1>10, <1>11

-----------------------------------------------------------------------------
(* stallHandler.                                                           *)

LEMMA StallOther ==
  ASSUME Next, ~StallControl, ~StallExit, ~OutTellStall,
         ~InTellStall("tell", "receive", {"start"}), ~InTellStall("start", "start", Handle), ~InTellStall("handled", "done", {"read"})
  PROVE  UNCHANGED <<stallControl, pendingResponses, answered>>
<1>1. CASE \/ (\E ok \in BOOLEAN : Negotiate(ok)) \/ NegotiateSend \/ StartHandlers \/ StartFails \/ Disconnect
           \/ (\E t \in Senders : QueueCheck(t) \/ Enqueue(t)) \/ (\E iv \in Invs : QueueInventory(iv))
  BY <1>1 DEF Negotiate, NegotiateSend, StartHandlers, StartFails, Disconnect, QueueCheck, Enqueue, QueueInventory, stallVars
<1>2. CASE (\E cmd \in RecvCmds : Receive(cmd)) \/ ReadFails \/ InStep
  BY <1>2 DEF Receive, ReadFails, InStep, InQueueCheck, InEnqueue, RejectSent, InExit, InUnchanged, stallVars
<1>3. CASE QueueStep
  BY <1>3 DEF QueueStep, QueueTake, QueueSendDone, QueueInv, Trickle, QueueSeesQuit, QueueDrain, QueueExit, QueueUnchanged, stallVars
<1>4. CASE OutStep \/ WriteFails
  BY <1>4 DEF OutStep, OutTake, WriteCheck, Write, WriteFails, OutDone, OutSeesQuit, OutExit, OutUnchanged, stallVars
<1>5. CASE StallStep \/ StallTick
  BY <1>5 DEF StallStep, StallTick, StallSeesQuit, stallVars
<1> QED BY <1>1, <1>2, <1>3, <1>4, <1>5 DEF Next

(* The responses of different requests do not overlap, and one response    *)
(* settles them all.                                                       *)
LEMMA ExpectsFacts ==
  /\ \A a, b : a # b => Expects(a) \cap Expects(b) = {}
  /\ \A a, b : b \in Expects(a) => Expects(a) \subseteq Settles(b)
  /\ \A a : Expects(a) # {} => a \in {"getdata", "getheaders"}
  BY DEF Expects, Settles

LEMMA StallStepInv ==
  ASSUME IInv, Next
  PROVE  StallInv'
<1>0. TypeInv /\ StallInv /\ WriteInv /\ written \subseteq written'
  BY Forever DEF IInv
<1>1. SUFFICES ASSUME NEW c \in Callers, c \in answered', \A d \in Callers : Cmd[d] = Cmd[c] => d = c
               PROVE  /\ c \in written'
                      /\ Expects(Cmd[c]) \cap pendingResponses' = {}
                      /\ stallControl' # <<>> /\ Expects(Cmd[c]) # {} =>
                           ~(Head(stallControl').kind = "send" /\ Head(stallControl').cmd = Cmd[c])
  BY DEF StallInv
<1>2. c \in answered =>
        /\ c \in written
        /\ Expects(Cmd[c]) \cap pendingResponses = {}
        /\ stallControl # <<>> /\ Expects(Cmd[c]) # {} =>
             ~(Head(stallControl).kind = "send" /\ Head(stallControl).cmd = Cmd[c])
  BY <1>0, <1>1 DEF StallInv
<1>3. CASE StallControl
  <2> DEFINE item == Head(stallControl)
  <2>1. /\ stallControl' = <<>> /\ stallControl # <<>>
        /\ pendingResponses' = CASE item.kind = "send"    -> pendingResponses \cup Expects(item.cmd)
                                 [] item.kind = "receive" -> pendingResponses \ Settles(item.cmd)
                                 [] OTHER                 -> pendingResponses
        /\ answered' = IF item.kind = "receive" /\ item.cmd \in Answers
                         THEN answered \cup {d \in written \cap Callers : item.cmd \in Expects(Cmd[d])}
                         ELSE answered
    BY <1>3 DEF StallControl
  <2> HIDE DEF item
  <2>2. CASE c \in answered
    <3>1. item.kind = "send" /\ Expects(Cmd[c]) # {} => item.cmd # Cmd[c]
      BY <1>2, <2>1, <2>2 DEF item
    <3>2. item.kind = "send" => Expects(item.cmd) \cap Expects(Cmd[c]) = {}
      BY <3>1, ExpectsFacts
    <3>3. \/ item.kind = "send" /\ pendingResponses' = pendingResponses \cup Expects(item.cmd)
          \/ pendingResponses' \subseteq pendingResponses
      BY <2>1
    <3>4. Expects(Cmd[c]) \cap pendingResponses' = {}
      BY <1>2, <2>2, <3>2, <3>3
    <3> QED BY <1>0, <1>2, <2>1, <2>2, <3>4
  <2>3. CASE c \notin answered
    <3>1. item.kind = "receive" /\ c \in written /\ item.cmd \in Expects(Cmd[c])
      BY <1>1, <2>1, <2>3
    <3>2. Expects(Cmd[c]) \subseteq Settles(item.cmd)
      BY <3>1, ExpectsFacts
    <3>3. pendingResponses' = pendingResponses \ Settles(item.cmd)
      BY <2>1, <3>1
    <3> QED BY <1>0, <2>1, <3>1, <3>2, <3>3
  <2> QED BY <2>2, <2>3
<1>4. CASE OutTellStall
  <2>1. stallControl' = <<[kind |-> "send", cmd |-> outMsg.cmd]>> /\ UNCHANGED <<pendingResponses, answered>>
        /\ pc["out"] \in Sending /\ outMsg \in Msgs
    BY <1>0, <1>4 DEF OutTellStall, OutUnchanged, stallVars, TypeInv, HasMsg, Sending
  <2>2. Head(stallControl').cmd = outMsg.cmd
    BY <2>1
  <2>3. ASSUME Expects(Cmd[c]) # {}, outMsg.cmd = Cmd[c] PROVE FALSE
    <3>1. outMsg.cmd \in {"getdata", "getheaders"}
      BY <2>3, ExpectsFacts
    <3>2. PICK d \in Senders : outMsg = MsgOf(d)
      BY <2>1, <3>1 DEF Msgs, Reject, Pong, InvMsg
    <3>3. d \in Callers /\ Cmd[d] = Cmd[c]
      BY <2>3, <3>1, <3>2 DEF MsgOf, Senders
    <3>4. outMsg = MsgOf(c)
      BY <1>1, <3>2, <3>3
    <3>5. Unsent({MsgOf(c)}) = Queued({MsgOf(c)}) + 1
      BY <2>1, <3>4 DEF Unsent, One
    <3>6. WriteTotal(c) = ToQueue(c) + Unsent({MsgOf(c)}) + 1
      BY <1>1, <1>2, <2>1 DEF WriteTotal
    <3>7. ToQueue(c) \in 0 .. 1 /\ Queued({MsgOf(c)}) \in Nat
      BY <1>0, CountsAreNat, ToQueueType
    <3>8. WriteTotal(c) <= 1
      BY <1>0 DEF WriteInv
    <3> QED BY <3>5, <3>6, <3>7, <3>8
  <2> QED BY <1>0, <1>1, <1>2, <2>1, <2>2, <2>3
<1>5. CASE \/ InTellStall("tell", "receive", {"start"}) \/ InTellStall("start", "start", Handle)
           \/ InTellStall("handled", "done", {"read"})
  <2>1. UNCHANGED <<pendingResponses, answered>> /\ Head(stallControl').kind # "send"
    BY <1>5 DEF InTellStall, InUnchanged, stallVars
  <2> QED BY <1>0, <1>1, <1>2, <2>1
<1>6. CASE StallExit
  <2>1. UNCHANGED <<pendingResponses, answered>> /\ stallControl' = <<>>
    BY <1>6 DEF StallExit, stallVars
  <2> QED BY <1>0, <1>1, <1>2, <2>1
<1>7. CASE UNCHANGED <<stallControl, pendingResponses, answered>>
  BY <1>0, <1>1, <1>2, <1>7
<1> QED BY <1>3, <1>4, <1>5, <1>6, <1>7, StallOther

-----------------------------------------------------------------------------
(* The invariant, and the properties of the runs.                          *)

LEMMA InitInv ==
  ASSUME Init
  PROVE  IInv
<1>1. TypeInv
  BY InitType
<1>2. PlaceInv
  BY ConstantAssumption DEF Init, PlaceInv, Handlers, Senders
<1>3. \A h \in Handlers : pc[h] = "off"
  BY ConstantAssumption DEF Init, Handlers, Senders
<1>4. pc["out"] \notin HasMsg /\ pc["out"] \notin Sending /\ pc["out"] # "written"
  BY <1>3 DEF Handlers, HasMsg, Sending
<1>5. \A S : Unsent(S) = 0 /\ Held(S) = 0
  <2> TAKE S
  <2>1. Count(<<>>, S) = 0
    BY CountEmpty
  <2>2. Queued(S) = 0
    BY <2>1 DEF Init, Queued
  <2> QED BY <1>4, <2>2 DEF Unsent, Held
<1>6. OrderInv
  <2>1. Flight = <<>> /\ OutBusy = 0
    BY <1>4 DEF Init, Flight, OutBusy
  <2>2. InFlight = 0
    BY <2>1 DEF Init, InFlight
  <2>3. OneInFlight
    BY <2>2, OneInFlightAlt
  <2> QED BY <2>1, <2>3 DEF Init, OrderInv
<1>7. DoneInv
  <2>1. \A s \in WithDone \cup {"in"} : signalled[s] = 0
    BY DEF Init
  <2>2. \A s \in WithDone \cup {"in"} : DoneTotal(s) <= 1
    BY <1>5, <2>1, ToQueueType DEF DoneTotal
  <2> QED BY <1>4, <2>1, <2>2 DEF DoneInv
<1>8. WriteInv
  BY <1>5, ToQueueType DEF Init, WriteInv, WriteTotal
<1>9. RelayInv
  BY <1>5 DEF Init, RelayInv, RelayTotal, Invs
<1>10. StallInv
  BY DEF Init, StallInv
<1> QED BY <1>1, <1>2, <1>6, <1>7, <1>8, <1>9, <1>10 DEF IInv

(* A stuttering step.                                                      *)
LEMMA SameInv ==
  ASSUME IInv, UNCHANGED vars
  PROVE  IInv'
<1>1. /\ UNCHANGED <<pc, disconnect, versionKnown, negotiated, negotiateErr, inMsg, outMsg, waiting, pendingMsgs,
                     invSendQueue, knownInventory, outputInvChan, outputQueue, sendQueue, sendDoneQueue>>
      /\ UNCHANGED <<stallControl, pendingResponses, ioStopped, answered, inQuit, queueQuit, outQuit, unwritten,
                     written, relayed, signalled, announced, received>>
  BY DEF vars, negVars, queueVars, stallVars, historyVars, quitVars
<1>2. TypeInv'
  BY <1>1 DEF IInv, TypeInv
<1>3. PlaceInv'
  BY <1>1 DEF IInv, PlaceInv
<1>4. OrderInv'
  BY <1>1, OrderSame DEF IInv
<1>5. \A S : Queued(S)' = Queued(S) /\ Unsent(S)' = Unsent(S) /\ Held(S)' = Held(S)
  BY <1>1 DEF Queued, Unsent, Held
<1>6. \A s : ToQueue(s)' = ToQueue(s)
  BY <1>1 DEF ToQueue
<1>7. DoneInv'
  BY <1>1, <1>5, <1>6 DEF IInv, DoneInv, DoneTotal
<1>8. WriteInv'
  BY <1>1, <1>5, <1>6 DEF IInv, WriteInv, WriteTotal
<1>9. RelayInv'
  BY <1>1, <1>5 DEF IInv, RelayInv, RelayTotal
<1>10. StallInv'
  BY <1>1 DEF IInv, StallInv
<1> QED BY <1>2, <1>3, <1>4, <1>7, <1>8, <1>9, <1>10 DEF IInv

LEMMA NextInv ==
  ASSUME IInv, Next
  PROVE  IInv'
<1>1. TypeInv' /\ PlaceInv' /\ OrderInv' /\ StallInv'
  BY TypeStep, PlaceStep, OrderStep, StallStepInv DEF IInv
<1>2. DoneInv'
  <2>1. \A s \in WithDone \cup {"in"} : DoneTotal(s)' <= 1 /\ (signalled'[s] # 0 => disconnect' \/ s \in written')
    BY DoneStep, SignalsTimely
  <2>2. pc'["out"] = "written" => disconnect' \/ outMsg'.cmd \in {"inv", "pong"} \/ outMsg'.id \in written'
    BY WrittenPlace
  <2> QED BY <2>1, <2>2 DEF DoneInv
<1>3. WriteInv'
  BY WriteStep DEF WriteInv
<1>4. RelayInv'
  BY RelayStep DEF RelayInv
<1> QED BY <1>1, <1>2, <1>3, <1>4 DEF IInv

(* What the goroutines of one connection keep true together: the one-place *)
(* hand-off, the order of what is unwritten, and one token per message.    *)
THEOREM PeerInvariant == Spec => []IInv
<1>1. IInv /\ [Next]_vars => IInv'
  BY SameInv, NextInv
<1>2. Init => IInv
  BY InitInv
<1> QED BY <1>1, <1>2, PTL DEF Spec

(* Between queueHandler and outHandler at most one message is on its way,  *)
(* none of their one-place channels blocks, and messages are written in    *)
(* the order in which queueHandler took them.                              *)
THEOREM HandoffIsOrdered == Spec => []HandoffInOrder
<1>1. IInv => HandoffInOrder
  <2> SUFFICES ASSUME IInv PROVE HandoffInOrder
    OBVIOUS
  <2>0. TypeInv /\ OrderInv
    BY DEF IInv
  <2>1. OneInFlight
    BY <2>0 DEF OrderInv
  <2>2. Msgs \subseteq Messages
    <3>1. \A s \in Senders : MsgOf(s) \in [cmd : {"getdata", "getheaders", "ping", "addr", "verack"}, id : Senders]
      BY ConstantAssumption DEF MsgOf, Senders
    <3> QED BY <3>1 DEF Msgs, Messages
  <2>3. Len(sendQueue) <= 1
    <3>1. InFlight <= 1
      BY <2>1, OneInFlightAlt
    <3>2. Len(sendQueue) \in Nat /\ OutBusy \in 0 .. 1 /\ sendDoneQueue \in 0 .. 1
      BY <2>0 DEF TypeInv, OutBusy
    <3> QED BY <3>1, <3>2 DEF InFlight
  <2>4. \A q \in Seq(Msgs) : ToSet(q) \subseteq Messages
    BY <2>2 DEF ToSet
  <2>5. \A q \in Seq(Invs) : ToSet(q) \subseteq Invs
    BY DEF ToSet
  <2>6. Len(negotiateErr) <= 1 /\ Len(stallControl) <= 1
    <3>3. negotiateErr \in {<<>>, <<"nil">>, <<"error">>} /\ (stallControl = <<>> \/ \E x : stallControl = <<x>>)
      BY <2>0 DEF TypeInv
    <3>4. negotiateErr = <<>> \/ \E x : negotiateErr = <<x>>
      BY <3>3
    <3>5. \A q : q = <<>> \/ (\E x : q = <<x>>) => Len(q) <= 1
      <4> SUFFICES ASSUME NEW q, q = <<>> \/ (\E x : q = <<x>>) PROVE Len(q) <= 1
        OBVIOUS
      <4>1. CASE q = <<>>
        BY <4>1
      <4>2. CASE \E x : q = <<x>>
        <5>1. PICK x : q = <<x>>
          BY <4>2
        <5> QED BY <5>1
      <4> QED BY <4>1, <4>2
    <3> QED BY <3>3, <3>4, <3>5
  <2>7. TypeOK
    <3>1. DOMAIN pc = Handlers \cup Senders \cup {"neg"}
      BY <2>0 DEF TypeInv, Threads
    <3>2. {disconnect, versionKnown, waiting, ioStopped, inQuit, queueQuit, outQuit} \subseteq BOOLEAN
      BY <2>0 DEF TypeInv
    <3>3. ToSet(outputQueue) \cup ToSet(pendingMsgs) \cup ToSet(unwritten) \subseteq Messages
      BY <2>0, <2>4 DEF TypeInv
    <3>4. ToSet(outputInvChan) \cup ToSet(invSendQueue) \cup knownInventory \subseteq Invs
      BY <2>0, <2>5 DEF TypeInv
    <3>5. outMsg \in Messages \cup {None} /\ pendingResponses \subseteq Answers
      BY <2>0, <2>2 DEF TypeInv
    <3>6. /\ negotiated \in {"no", "ok", "failed"} /\ signalled \in [WithDone \cup {"in"} -> Nat]
          /\ sendDoneQueue \in 0 .. 1 /\ received \in 0 .. MaxRecv
      BY <2>0 DEF TypeInv
    <3> QED BY <2>3, <2>6, <3>1, <3>2, <3>3, <3>4, <3>5, <3>6 DEF TypeOK
  <2>8. WrittenInOrder
    <3> SUFFICES ASSUME pc["out"] = "write", ~disconnect PROVE unwritten # <<>> /\ outMsg = Head(unwritten)
      BY DEF WrittenInOrder
    <3>1. InFlight <= 1
      BY <2>1, OneInFlightAlt
    <3>2. Len(sendQueue) \in Nat /\ OutBusy = 1 /\ sendDoneQueue \in 0 .. 1 /\ sendQueue \in Seq(Msgs)
      BY <2>0 DEF TypeInv, OutBusy, HasMsg, Sending
    <3>3. Len(sendQueue) = 0
      BY <3>1, <3>2 DEF InFlight
    <3>4. sendQueue = <<>>
      BY <3>2, <3>3
    <3>5. Flight = <<outMsg>>
      BY <3>4 DEF Flight, Sending
    <3>6. unwritten = <<outMsg>> \o pendingMsgs
      BY <2>0, <3>5 DEF OrderInv
    <3>7. outMsg \in Msgs /\ pendingMsgs \in Seq(Msgs)
      BY <2>0 DEF TypeInv, HasMsg, Sending
    <3>8. \A m \in Msgs : \A q \in Seq(Msgs) : <<m>> \o q # <<>> /\ m = Head(<<m>> \o q)
      OBVIOUS
    <3> QED BY <3>6, <3>7, <3>8
  <2> QED BY <2>1, <2>7, <2>8 DEF HandoffInOrder
<1> QED BY <1>1, PeerInvariant, PTL

(* However QueueMessage, the handlers and a disconnect interleave, no done *)
(* channel is signalled twice or too early, and no transaction is          *)
(* announced twice.                                                        *)
THEOREM SignalledOnce == Spec => []OnlyOnce
<1>1. IInv => OnlyOnce
  <2> SUFFICES ASSUME IInv PROVE OnlyOnce
    OBVIOUS
  <2>0. TypeInv /\ DoneInv /\ RelayInv
    BY DEF IInv
  <2>1. ASSUME NEW s \in WithDone \cup {"in"}
        PROVE  signalled[s] <= 1 /\ (signalled[s] = 1 => disconnect \/ s \in written)
    <3>1. signalled[s] \in Nat /\ Held({Own(s)}) \in Nat /\ ToQueue(s) \in 0 .. 1
      BY <2>0, CountsAreNat, ToQueueType DEF TypeInv
    <3>2. ToQueue(s) + Held({Own(s)}) + signalled[s] <= 1
      BY <2>0 DEF DoneInv, DoneTotal
    <3>3. signalled[s] # 0 => disconnect \/ s \in written
      BY <2>0 DEF DoneInv
    <3>4. \A a, b, d \in Nat : a + b + d <= 1 => d <= 1
      OBVIOUS
    <3>5. ToQueue(s) \in Nat
      BY <3>1
    <3> QED BY <3>1, <3>2, <3>3, <3>4, <3>5
  <2>2. ASSUME NEW iv \in TxInvs PROVE relayed[iv] <= 1
    <3>1. relayed[iv] \in Nat /\ Unsent(Carrying(iv)) \in Nat
      BY <2>0, CountsAreNat DEF TypeInv, Invs
    <3>2. Unsent(Carrying(iv)) + relayed[iv] <= 1
      BY <2>0 DEF RelayInv, RelayTotal
    <3> QED BY <3>1, <3>2
  <2> QED BY <2>1, <2>2 DEF OnlyOnce, DoneOnce, InventoryOnce
<1> QED BY <1>1, PeerInvariant, PTL

(* stallHandler never goes on waiting for a request that was answered: the *)
(* answer cannot overtake the announcement of its request.                 *)
THEOREM AnswerSettles == Spec => []AnsweredIsNotPending
<1>1. IInv => AnsweredIsNotPending
  BY DEF IInv, StallInv, AnsweredIsNotPending
<1> QED BY <1>1, PeerInvariant, PTL
=============================================================================

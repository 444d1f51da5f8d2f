-------------------------- MODULE ScriptValProofs ---------------------------
(***************************************************************************)
(* Proofs about ScriptVal, for any number of calls, inputs, goroutines and *)
(* cache entries: the verdict of the pool is right.                        *)
(***************************************************************************)
EXTENDS ScriptVal, FiniteSetTheorems, TLAPS

WorkerState ==
  [place : {"select", "lookup", "verify", "send", "exit"}, item : Nat, result : {"none", "ok", "error"}]

CallState ==
  [place : {"idle", "loop", "returned", "refused"}, items : Seq(Inputs),
   next : Nat, processed : Nat, result : {"none", "ok", "error"}]

(* The invariant speaks of the state k of a call and of its goroutines ws. *)

(* The goroutines that work on an item or hold the result of one.          *)
Busy(ws) == {w \in DOMAIN ws : ws[w].place \in {"lookup", "verify", "send"}}

TypeInv(k, ws) ==
  /\ k \in CallState
  /\ ws \in [DOMAIN ws -> WorkerState]
  /\ IsFiniteSet(DOMAIN ws)

(* A goroutine works on an item of its call, and its result is right.      *)
WorkerInv(k, g) ==
  /\ g.item \in 1 .. Len(k.items)
  /\ g.place = "verify" => k.items[g.item].usable
  /\ g.place = "send" => g.result = IF InputOk(k.items[g.item]) THEN "ok" ELSE "error"

(* While a call collects results, every item it handed out was found valid *)
(* or is still in the hands of a goroutine, and it has counted the former. *)
LoopInv(k, ws) ==
  /\ k.next \in 1 .. Len(k.items) + 1
  /\ k.processed + Cardinality(Busy(ws)) = k.next - 1
  /\ k.processed < Len(k.items)
  /\ \A i \in 1 .. k.next - 1 : InputOk(k.items[i]) \/ \E w \in Busy(ws) : ws[w].item = i

Sound(k) ==
  /\ k.result = "ok" <=> \A i \in DOMAIN k.items : InputOk(k.items[i])
  /\ k.result = "ok" => k.processed = Len(k.items)

CallInv(k, q, ws) ==
  /\ TypeInv(k, ws)
  /\ q \in BOOLEAN
  /\ \A w \in Busy(ws) : WorkerInv(k, ws[w])
  /\ k.place \in {"idle", "loop"} => ~q
  /\ k.place = "loop" => LoopInv(k, ws)
  /\ k.place = "returned" => Sound(k)

(* The cache only holds signatures that verify.                            *)
CacheInv(cache) ==
  \A h \in DOMAIN cache : [hash |-> h, sig |-> cache[h][1], key |-> cache[h][2]] \in Valid

IInv ==
  /\ call \in [Calls -> CallState] /\ quit \in [Calls -> BOOLEAN]
  /\ worker = [c \in Calls |-> worker[c]]
  /\ \A c \in Calls : CallInv(call[c], quit[c], worker[c])
  /\ CacheInv(validSigs)

-----------------------------------------------------------------------------
(* Facts about the operators of the model.                                 *)

(* A call starts finitely many goroutines.                                 *)
LEMMA GoRoutines ==
  ASSUME NEW n \in Nat
  PROVE  maxGoRoutines(n) \in Nat
<1>1. \A a, b \in Nat : Max({a, b}) \in Nat /\ Min({a, b}) \in Nat
  <2> SUFFICES ASSUME NEW a \in Nat, NEW b \in Nat PROVE Max({a, b}) \in Nat /\ Min({a, b}) \in Nat
    OBVIOUS
  <2>1. (\E x \in {a, b} : \A y \in {a, b} : x >= y) /\ (\E x \in {a, b} : \A y \in {a, b} : x <= y)
    OBVIOUS
  <2> QED BY <2>1 DEF Max, Min
<1>2. NumCPU * 3 \in Nat /\ n * 3 \in Nat
  BY ScriptValAssumption
<1> QED BY <1>1, <1>2 DEF maxGoRoutines

(* An entry that Exists finds is a signature that verifies.                *)
LEMMA ExistsSound ==
  ASSUME NEW cache, CacheInv(cache), NEW in \in Inputs, Exists(cache, in.check)
  PROVE  in.check \in Valid
<1> DEFINE h == in.check.hash
<1>1. h \in DOMAIN cache /\ cache[h][1] = in.check.sig /\ cache[h][2] = in.check.key
  BY DEF Exists
<1>2. in.check = [hash |-> h, sig |-> cache[h][1], key |-> cache[h][2]]
  BY <1>1, ScriptValAssumption
<1> QED BY <1>1, <1>2 DEF CacheInv

(* Add keeps the cache sound, whichever entry it evicts.                   *)
LEMMA AddSound ==
  ASSUME NEW cache, CacheInv(cache), NEW in \in Inputs, in.check \in Valid,
         NEW new \in Add(cache, in.check)
  PROVE  CacheInv(new)
<1>1. in.check = [hash |-> in.check.hash, sig |-> in.check.sig, key |-> in.check.key]
  BY ScriptValAssumption
<1>2. ASSUME NEW old, CacheInv(old) PROVE CacheInv(Put(old, in.check))
  BY <1>1, <1>2 DEF CacheInv, Put
<1>3. \A h : CacheInv(Restrict(cache, DOMAIN cache \ {h}))
  BY DEF CacheInv, Restrict
<1> QED BY <1>2, <1>3 DEF Add

-----------------------------------------------------------------------------
LEMMA InitIInv == Init => IInv
<1> SUFFICES ASSUME Init PROVE IInv
  OBVIOUS
<1>1. Idle \in CallState /\ Idle.place = "idle"
  BY DEF Idle, At, CallState
<1>2. \A c \in Calls : call[c] = Idle /\ quit[c] = FALSE /\ worker[c] = <<>>
  BY DEF Init
<1>3. DOMAIN <<>> = {} /\ Busy(<<>>) = {}
  BY DEF Busy
<1>4. CallInv(Idle, FALSE, <<>>)
  BY <1>1, <1>3, FS_EmptySet DEF CallInv, TypeInv
<1>5. CacheInv(validSigs)
  BY DEF Init, CacheInv
<1>6. call \in [Calls -> CallState] /\ quit \in [Calls -> BOOLEAN] /\ worker = [c \in Calls |-> worker[c]]
  BY <1>1 DEF Init
<1> QED BY <1>2, <1>4, <1>5, <1>6 DEF IInv

(* A call that begins has no busy goroutine, and when it returns at once   *)
(* there was nothing to validate.                                          *)
LEMMA BeginKeeps ==
  ASSUME NEW c \in Calls, NEW a \in Arguments[c], NEW k, k = Begun(a),
         NEW ws, ws = [w \in 1 .. maxGoRoutines(Len(k.items)) |-> Waiting]
  PROVE  CallInv(k, FALSE, ws)
<1>1. Collect(a.txs) \in Seq(Inputs)
  BY CollectAssumption
<1>2. /\ k \in CallState
      /\ k.next = 1 /\ k.processed = 0
      /\ k.place = "loop" => Len(k.items) > 0
      /\ k.place = "returned" => k.result = "ok" /\ k.items = <<>>
  <2> DEFINE items == Collect(a.txs)
  <2>1. items \in Seq(Inputs)
    BY <1>1
  <2>2. items # <<>> => Len(items) > 0
    BY <2>1
  <2>3. \/ k = At("refused", <<>>, "error")
        \/ k = At("returned", <<>>, "ok")
        \/ k = At("loop", items, "none") /\ items # <<>>
    BY DEF Begun
  <2> HIDE DEF items
  <2>4. <<>> \in Seq(Inputs)
    OBVIOUS
  <2>5. CASE k = At("refused", <<>>, "error")
    BY <2>4, <2>5 DEF At, CallState
  <2>6. CASE k = At("returned", <<>>, "ok")
    BY <2>4, <2>6 DEF At, CallState
  <2>7. CASE k = At("loop", items, "none") /\ items # <<>>
    BY <2>1, <2>2, <2>7 DEF At, CallState
  <2> QED BY <2>3, <2>5, <2>6, <2>7
<1>3. Len(k.items) \in Nat
  BY <1>2 DEF CallState
<1>4. maxGoRoutines(Len(k.items)) \in Nat
  BY <1>3, GoRoutines
<1>5. Waiting \in WorkerState /\ Waiting.place = "select"
  BY DEF Waiting, WorkerState
<1>6. DOMAIN ws = 1 .. maxGoRoutines(Len(k.items)) /\ \A w \in DOMAIN ws : ws[w] = Waiting
  OBVIOUS
<1>7. IsFiniteSet(DOMAIN ws)
  BY <1>4, <1>6, FS_Interval
<1>8. TypeInv(k, ws)
  BY <1>2, <1>5, <1>6, <1>7 DEF TypeInv
<1>9. Busy(ws) = {} /\ Cardinality(Busy(ws)) = 0
  BY <1>5, <1>6, FS_EmptySet DEF Busy
<1>10. k.place = "loop" => LoopInv(k, ws)
  BY <1>2, <1>3, <1>9 DEF LoopInv
<1>11. k.place = "returned" => Sound(k)
  BY <1>2 DEF Sound
<1> QED BY <1>8, <1>9, <1>10, <1>11 DEF CallInv

(* The steps of one call, as functions of its state k, its goroutines ws   *)
(* and the goroutine w that moves.                                         *)
LEMMA SendItemKeeps ==
  ASSUME NEW k, NEW q, NEW ws, CallInv(k, q, ws), NEW w \in DOMAIN ws,
         k.place = "loop", k.next <= Len(k.items), ws[w].place = "select",
         NEW k2, k2 = [k EXCEPT !.next = @ + 1],
         NEW ws2, ws2 = [ws EXCEPT ![w] = [place |-> "lookup", item |-> k.next, result |-> "none"]]
  PROVE  CallInv(k2, q, ws2)
<1>1. k \in CallState /\ ws \in [DOMAIN ws -> WorkerState] /\ IsFiniteSet(DOMAIN ws)
  BY DEF CallInv, TypeInv
<1>2. /\ k2 \in CallState /\ k2.next = k.next + 1 /\ k2.items = k.items
      /\ k2.place = "loop" /\ k2.processed = k.processed
  BY <1>1 DEF CallState
<1>3. k.next \in Nat /\ k.processed \in Nat /\ Len(k.items) \in Nat
  BY <1>1 DEF CallState
<1>4. /\ DOMAIN ws2 = DOMAIN ws /\ ws2 \in [DOMAIN ws -> WorkerState]
      /\ ws2[w] = [place |-> "lookup", item |-> k.next, result |-> "none"]
      /\ \A v \in DOMAIN ws \ {w} : ws2[v] = ws[v]
  BY <1>1, <1>3 DEF WorkerState
<1>5. Busy(ws2) = Busy(ws) \cup {w} /\ w \notin Busy(ws) /\ Busy(ws) \subseteq DOMAIN ws
  BY <1>4 DEF Busy
<1>6. IsFiniteSet(Busy(ws)) /\ Cardinality(Busy(ws)) \in Nat
  BY <1>1, <1>5, FS_Subset, FS_CardinalityType
<1>7. Cardinality(Busy(ws2)) = Cardinality(Busy(ws)) + 1
  BY <1>5, <1>6, FS_AddElement
<1>8. LoopInv(k, ws)
  BY DEF CallInv
<1>9. LoopInv(k2, ws2)
  <2>1. k2.next - 1 = k.next /\ k.next - 1 \in Nat /\ k.next \in 1 .. Len(k.items)
    BY <1>2, <1>3, <1>8 DEF LoopInv
  <2>2. \A i \in 1 .. k.next - 1 : InputOk(k.items[i]) \/ \E v \in Busy(ws) : ws[v].item = i
    BY <1>8 DEF LoopInv
  <2>3. ASSUME NEW i \in 1 .. k.next
        PROVE  InputOk(k.items[i]) \/ \E v \in Busy(ws2) : ws2[v].item = i
    <3>1. CASE i = k.next
      BY <1>4, <1>5, <3>1
    <3>2. CASE i # k.next
      <4>1. i \in 1 .. k.next - 1
        BY <1>3, <3>2
      <4>2. InputOk(k.items[i]) \/ \E v \in Busy(ws) : ws[v].item = i
        BY <2>2, <4>1
      <4> QED BY <1>4, <1>5, <4>2
    <3> QED BY <3>1, <3>2
  <2>4. k2.next \in 1 .. Len(k2.items) + 1
    BY <1>2, <1>3, <2>1
  <2>5. k2.processed + Cardinality(Busy(ws2)) = k2.next - 1 /\ k2.processed < Len(k2.items)
    <3>1. k.processed + Cardinality(Busy(ws)) = k.next - 1 /\ k.processed < Len(k.items)
      BY <1>8 DEF LoopInv
    <3> QED BY <1>2, <1>3, <1>6, <1>7, <3>1
  <2>6. \A i \in 1 .. k2.next - 1 : InputOk(k2.items[i]) \/ \E v \in Busy(ws2) : ws2[v].item = i
    BY <1>2, <2>1, <2>3
  <2> QED BY <2>4, <2>5, <2>6 DEF LoopInv
<1>10. ASSUME NEW v \in Busy(ws2) PROVE WorkerInv(k2, ws2[v])
  <2>1. CASE v = w
    BY <1>2, <1>3, <1>4, <1>8, <2>1 DEF WorkerInv, LoopInv
  <2>2. CASE v # w
    BY <1>2, <1>4, <1>5, <2>2 DEF CallInv, WorkerInv
  <2> QED BY <2>1, <2>2
<1> QED BY <1>1, <1>2, <1>4, <1>9, <1>10 DEF CallInv, TypeInv

(* A goroutine that goes on with its item.                                 *)
LEMMA WorkKeeps ==
  ASSUME NEW k, NEW q, NEW ws, CallInv(k, q, ws), NEW w \in DOMAIN ws,
         ws[w].place \in {"lookup", "verify"},
         NEW place \in {"verify", "send"}, NEW result \in {"none", "ok", "error"},
         NEW ws2, ws2 = [ws EXCEPT ![w] = [place |-> place, item |-> @.item, result |-> result]],
         place = "verify" => k.items[ws[w].item].usable,
         place = "send" => result = IF InputOk(k.items[ws[w].item]) THEN "ok" ELSE "error"
  PROVE  CallInv(k, q, ws2)
<1>1. k \in CallState /\ ws \in [DOMAIN ws -> WorkerState] /\ IsFiniteSet(DOMAIN ws)
  BY DEF CallInv, TypeInv
<1>2. /\ DOMAIN ws2 = DOMAIN ws /\ ws2 \in [DOMAIN ws -> WorkerState]
      /\ ws2[w] = [place |-> place, item |-> ws[w].item, result |-> result]
      /\ \A v \in DOMAIN ws \ {w} : ws2[v] = ws[v]
  BY <1>1 DEF WorkerState
<1>3. w \in Busy(ws) /\ Busy(ws2) = Busy(ws)
  BY <1>2 DEF Busy
<1>4. \A v \in Busy(ws) : ws2[v].item = ws[v].item
  BY <1>2 DEF Busy
<1>5. k.place = "loop" => ~q /\ LoopInv(k, ws2)
  BY <1>3, <1>4, ZenonT(40) DEF CallInv, LoopInv
<1>6. ASSUME NEW v \in Busy(ws2) PROVE WorkerInv(k, ws2[v])
  <2>1. WorkerInv(k, ws[v])
    BY <1>3 DEF CallInv
  <2>2. CASE v = w
    BY <1>2, <2>1, <2>2 DEF WorkerInv
  <2>3. CASE v # w
    BY <1>2, <1>3, <2>1, <2>3 DEF Busy
  <2> QED BY <2>2, <2>3
<1> QED BY <1>1, <1>2, <1>5, <1>6 DEF CallInv, TypeInv

(* A goroutine that is done with its item, or ends, while the call no      *)
(* longer listens.                                                         *)
LEMMA LeaveKeeps ==
  ASSUME NEW k, NEW q, NEW ws, CallInv(k, q, ws), NEW w \in DOMAIN ws, k.place # "loop",
         NEW place \in {"select", "exit"},
         NEW ws2, ws2 = [ws EXCEPT ![w] = [place |-> place, item |-> @.item, result |-> "none"]]
  PROVE  CallInv(k, q, ws2)
<1>1. k \in CallState /\ ws \in [DOMAIN ws -> WorkerState] /\ IsFiniteSet(DOMAIN ws)
  BY DEF CallInv, TypeInv
<1>2. /\ DOMAIN ws2 = DOMAIN ws /\ ws2 \in [DOMAIN ws -> WorkerState]
      /\ ws2[w].place = place
      /\ \A v \in DOMAIN ws \ {w} : ws2[v] = ws[v]
  BY <1>1 DEF WorkerState
<1>3. \A v \in Busy(ws2) : v \in Busy(ws) /\ ws2[v] = ws[v]
  BY <1>2 DEF Busy
<1> QED BY <1>1, <1>2, <1>3 DEF CallInv, TypeInv

(* A result that the call receives.  A goroutine that is not busy holds no *)
(* item, so when the last result is counted no item is left.               *)
LEMMA ResultKeeps ==
  ASSUME NEW k, NEW q, NEW ws, CallInv(k, q, ws), NEW w \in DOMAIN ws,
         k.place = "loop", ws[w].place = "send", NEW place \in {"select", "exit"},
         NEW ws2, ws2 = [ws EXCEPT ![w] = [place |-> place, item |-> @.item, result |-> "none"]],
         NEW k2, NEW q2 \in BOOLEAN,
         \/ /\ ws[w].result = "error" /\ q2
            /\ k2 = [place |-> "returned", items |-> k.items, next |-> k.next,
                     processed |-> k.processed + 1, result |-> "error"]
         \/ /\ ws[w].result = "ok" /\ k.processed + 1 = Len(k.items) /\ q2
            /\ k2 = [place |-> "returned", items |-> k.items, next |-> k.next,
                     processed |-> k.processed + 1, result |-> "ok"]
         \/ /\ ws[w].result = "ok" /\ k.processed + 1 < Len(k.items) /\ q2 = q
            /\ k2 = [k EXCEPT !.processed = @ + 1]
  PROVE  CallInv(k2, q2, ws2)
<1>1. k \in CallState /\ ws \in [DOMAIN ws -> WorkerState] /\ IsFiniteSet(DOMAIN ws)
  BY DEF CallInv, TypeInv
<1>2. k.next \in Nat /\ k.processed \in Nat /\ Len(k.items) \in Nat /\ k.items \in Seq(Inputs)
  BY <1>1 DEF CallState
<1>3. /\ DOMAIN ws2 = DOMAIN ws /\ ws2 \in [DOMAIN ws -> WorkerState]
      /\ ws2[w].place = place
      /\ \A v \in DOMAIN ws \ {w} : ws2[v] = ws[v]
  BY <1>1 DEF WorkerState
<1>4. w \in Busy(ws) /\ Busy(ws2) = Busy(ws) \ {w} /\ Busy(ws) \subseteq DOMAIN ws
  BY <1>3 DEF Busy
<1>5. IsFiniteSet(Busy(ws)) /\ Cardinality(Busy(ws)) \in Nat
  BY <1>1, <1>4, FS_Subset, FS_CardinalityType
<1>6. Cardinality(Busy(ws2)) = Cardinality(Busy(ws)) - 1
  BY <1>4, <1>5, FS_RemoveElement
<1>7. LoopInv(k, ws) /\ ~q /\ WorkerInv(k, ws[w])
  BY <1>4 DEF CallInv
<1>8. ws[w].item \in 1 .. Len(k.items) /\ (ws[w].result = "ok" <=> InputOk(k.items[ws[w].item]))
  BY <1>7 DEF WorkerInv
<1>9. \A i \in 1 .. k.next - 1 : InputOk(k.items[i]) \/ \E v \in Busy(ws) : ws[v].item = i
  BY <1>7 DEF LoopInv
<1>10. k2 \in CallState /\ k2.items = k.items
  BY <1>1, <1>2 DEF CallState
<1>11. ASSUME NEW v \in Busy(ws2) PROVE WorkerInv(k2, ws2[v])
  BY <1>3, <1>4, <1>10 DEF CallInv, WorkerInv
<1>12. TypeInv(k2, ws2)
  BY <1>1, <1>3, <1>10 DEF TypeInv
<1>13. DOMAIN k.items = 1 .. Len(k.items)
  BY <1>2
<1>14. CASE ws[w].result = "error" /\ q2
            /\ k2 = [place |-> "returned", items |-> k.items, next |-> k.next,
                     processed |-> k.processed + 1, result |-> "error"]
  <2>1. k2.place = "returned" /\ k2.result = "error"
    BY <1>14
  <2>2. ~InputOk(k.items[ws[w].item])
    BY <1>8, <1>14
  <2>3. Sound(k2)
    BY <1>8, <1>10, <1>13, <2>1, <2>2 DEF Sound
  <2> QED BY <1>11, <1>12, <2>1, <2>3 DEF CallInv
<1>15. ASSUME NEW i \in 1 .. k.next - 1, ws[w].result = "ok"
       PROVE  InputOk(k.items[i]) \/ \E v \in Busy(ws2) : ws2[v].item = i
  <2>1. CASE i = ws[w].item
    BY <1>8, <1>15, <2>1
  <2>2. CASE i # ws[w].item
    BY <1>3, <1>4, <1>9, <2>2
  <2> QED BY <2>1, <2>2
<1>16. CASE ws[w].result = "ok" /\ k.processed + 1 = Len(k.items) /\ q2
            /\ k2 = [place |-> "returned", items |-> k.items, next |-> k.next,
                     processed |-> k.processed + 1, result |-> "ok"]
  <2>1. k2.place = "returned" /\ k2.result = "ok" /\ k2.processed = Len(k.items)
    BY <1>16
  <2>2. k.processed + Cardinality(Busy(ws)) = k.next - 1 /\ k.next \in 1 .. Len(k.items) + 1
    BY <1>7 DEF LoopInv
  <2>3. Cardinality(Busy(ws2)) = 0 /\ k.next - 1 = Len(k.items)
    <3>1. Cardinality(Busy(ws)) >= 1
      <4>1. Cardinality(Busy(ws2)) \in Nat
        BY <1>4, <1>5, FS_Subset, FS_CardinalityType
      <4> QED BY <4>1, <1>5, <1>6
    <3>2. Cardinality(Busy(ws)) = k.next - 1 - k.processed /\ k.next - 1 <= Len(k.items)
      BY <1>2, <1>5, <2>2
    <3> QED BY <1>2, <1>5, <1>6, <1>16, <3>1, <3>2
  <2>4. Busy(ws2) = {}
    <3>1. IsFiniteSet(Busy(ws2))
      BY <1>4, <1>5, FS_Subset
    <3> QED BY <2>3, <3>1, FS_EmptySet
  <2>5. \A i \in 1 .. Len(k.items) : InputOk(k.items[i])
    BY <1>15, <1>16, <2>3, <2>4
  <2>6. Sound(k2)
    BY <1>10, <1>13, <2>1, <2>5 DEF Sound
  <2> QED BY <1>11, <1>12, <2>1, <2>6 DEF CallInv
<1>17. CASE ws[w].result = "ok" /\ k.processed + 1 < Len(k.items) /\ q2 = q
            /\ k2 = [k EXCEPT !.processed = @ + 1]
  <2>1. k2.place = "loop" /\ k2.next = k.next /\ k2.processed = k.processed + 1
    BY <1>1, <1>17 DEF CallState
  <2>2. \A i \in 1 .. k2.next - 1 : InputOk(k2.items[i]) \/ \E v \in Busy(ws2) : ws2[v].item = i
    BY <1>10, <1>15, <1>17, <2>1
  <2>3. k2.next \in 1 .. Len(k2.items) + 1 /\ k2.processed < Len(k2.items)
    BY <1>7, <1>10, <1>17, <2>1 DEF LoopInv
  <2>4. k2.processed + Cardinality(Busy(ws2)) = k2.next - 1
    <3>1. k.processed + Cardinality(Busy(ws)) = k.next - 1
      BY <1>7 DEF LoopInv
    <3>2. \A p, b, n \in Nat : p + b = n - 1 => p + 1 + (b - 1) = n - 1
      OBVIOUS
    <3>3. (k.processed + 1) + (Cardinality(Busy(ws)) - 1) = k.next - 1
      BY <1>2, <1>5, <3>1, <3>2
    <3> QED BY <1>6, <2>1, <3>3
  <2>5. LoopInv(k2, ws2)
    BY <2>2, <2>3, <2>4 DEF LoopInv
  <2> QED BY <1>7, <1>11, <1>12, <1>17, <2>1, <2>5 DEF CallInv
<1> QED BY <1>14, <1>16, <1>17

-----------------------------------------------------------------------------
(* A step of one call leaves the others alone.                             *)
LEMMA OneCall ==
  ASSUME IInv, NEW c \in Calls, NEW k, NEW q, NEW ws, CallInv(k, q, ws),
         call' = [call EXCEPT ![c] = k], quit' = [quit EXCEPT ![c] = q],
         worker' = [worker EXCEPT ![c] = ws], CacheInv(validSigs')
  PROVE  IInv'
<1>1. call' \in [Calls -> CallState] /\ quit' \in [Calls -> BOOLEAN] /\ worker' = [d \in Calls |-> worker'[d]]
  BY DEF IInv, CallInv, TypeInv
<1>2. call'[c] = k /\ quit'[c] = q /\ worker'[c] = ws
  BY DEF IInv
<1>3. \A d \in Calls \ {c} : call'[d] = call[d] /\ quit'[d] = quit[d] /\ worker'[d] = worker[d]
  BY DEF IInv
<1>4. ASSUME NEW d \in Calls PROVE CallInv(call'[d], quit'[d], worker'[d])
  BY <1>2, <1>3 DEF IInv
<1> QED BY <1>1, <1>4 DEF IInv

LEMMA BeginIInv ==
  ASSUME IInv, NEW c \in Calls, NEW a \in Arguments[c], Begin(c, a)
  PROVE  IInv'
<1> DEFINE k == Begun(a)
           ws == [w \in 1 .. maxGoRoutines(Len(k.items)) |-> Waiting]
<1>1. CallInv(k, FALSE, ws)
  BY BeginKeeps
<1>2. CallInv(call[c], quit[c], worker[c]) /\ quit \in [Calls -> BOOLEAN]
  BY DEF IInv, CallInv
<1>3. quit[c] = FALSE
  BY <1>2 DEF Begin, CallInv
<1>4. call' = [call EXCEPT ![c] = k] /\ worker' = [worker EXCEPT ![c] = ws]
  BY DEF Begin
<1>5. quit' = [quit EXCEPT ![c] = FALSE] /\ CacheInv(validSigs')
  BY <1>2, <1>3 DEF Begin, IInv
<1> HIDE DEF k, ws
<1> QED BY <1>1, <1>4, <1>5, OneCall

LEMMA SendItemIInv ==
  ASSUME IInv, NEW c \in Calls, NEW w \in DOMAIN worker[c], SendItem(c, w)
  PROVE  IInv'
<1> DEFINE k == [call[c] EXCEPT !.next = @ + 1]
           ws == [worker[c] EXCEPT ![w] = [place |-> "lookup", item |-> call[c].next, result |-> "none"]]
<1>1. CallInv(call[c], quit[c], worker[c]) /\ quit \in [Calls -> BOOLEAN]
  BY DEF IInv
<1>2. CallInv(k, quit[c], ws)
  BY <1>1, SendItemKeeps DEF SendItem, Items
<1>3. call' = [call EXCEPT ![c] = k] /\ worker' = [worker EXCEPT ![c] = ws]
  BY DEF SendItem
<1>4. quit' = [quit EXCEPT ![c] = quit[c]] /\ CacheInv(validSigs')
  BY <1>1 DEF SendItem, IInv
<1> HIDE DEF k, ws
<1> QED BY <1>2, <1>3, <1>4, OneCall

(* A goroutine of a running call that goes on with its item.               *)
LEMMA GoIInv ==
  ASSUME IInv, NEW c \in Calls, NEW w \in DOMAIN worker[c],
         NEW place, NEW result, Go(c, w, place, result),
         CallInv(call[c], quit[c],
                 [worker[c] EXCEPT ![w] = [place |-> place, item |-> @.item, result |-> result]]),
         UNCHANGED <<call, quit>>, CacheInv(validSigs')
  PROVE  IInv'
<1> DEFINE ws == [worker[c] EXCEPT ![w] = [place |-> place, item |-> @.item, result |-> result]]
<1>1. quit \in [Calls -> BOOLEAN] /\ call \in [Calls -> CallState]
  BY DEF IInv
<1>2. worker' = [worker EXCEPT ![c] = ws]
  BY DEF Go
<1>3. call' = [call EXCEPT ![c] = call[c]] /\ quit' = [quit EXCEPT ![c] = quit[c]]
  BY <1>1
<1>4. CallInv(call[c], quit[c], ws)
  OBVIOUS
<1> HIDE DEF ws
<1> QED BY <1>2, <1>3, <1>4, OneCall

(* The item of a busy goroutine is an input.                               *)
LEMMA ItemIsInput ==
  ASSUME IInv, NEW c \in Calls, NEW w \in DOMAIN worker[c], worker[c][w].place \in {"lookup", "verify", "send"}
  PROVE  /\ ItemOf(c, w) \in Inputs /\ WorkerInv(call[c], worker[c][w])
         /\ ItemOf(c, w) = call[c].items[worker[c][w].item]
<1>1. CallInv(call[c], quit[c], worker[c])
  BY DEF IInv
<1>2. w \in Busy(worker[c]) /\ call[c].items \in Seq(Inputs)
  BY <1>1 DEF Busy, CallInv, TypeInv, CallState
<1>3. WorkerInv(call[c], worker[c][w])
  BY <1>1, <1>2 DEF CallInv
<1> QED BY <1>2, <1>3 DEF WorkerInv, ItemOf, Items

LEMMA LookupIInv ==
  ASSUME IInv, NEW c \in Calls, NEW w \in DOMAIN worker[c], Lookup(c, w)
  PROVE  IInv'
<1> DEFINE in == ItemOf(c, w)
<1>1. in \in Inputs /\ in = call[c].items[worker[c][w].item]
  BY ItemIsInput DEF Lookup
<1>2. worker[c][w].place = "lookup" /\ UNCHANGED <<call, quit, validSigs>>
  BY DEF Lookup
<1>3. CallInv(call[c], quit[c], worker[c]) /\ CacheInv(validSigs) /\ CacheInv(validSigs')
  BY <1>2 DEF IInv
<1>4. \/ ~in.usable /\ Go(c, w, "send", "error")
      \/ in.usable /\ Exists(validSigs, in.check) /\ Go(c, w, "send", "ok")
      \/ in.usable /\ Go(c, w, "verify", "none")
  BY DEF Lookup
<1> HIDE DEF in
<1>5. CASE ~in.usable /\ Go(c, w, "send", "error")
  <2>1. ~InputOk(in)
    BY <1>5 DEF InputOk
  <2>2. CallInv(call[c], quit[c], [worker[c] EXCEPT ![w] = [place |-> "send", item |-> @.item, result |-> "error"]])
    BY <1>1, <1>2, <1>3, <2>1, WorkKeeps
  <2> QED BY <1>2, <1>3, <1>5, <2>2, GoIInv
<1>6. CASE in.usable /\ Exists(validSigs, in.check) /\ Go(c, w, "send", "ok")
  <2>1. InputOk(in)
    BY <1>1, <1>3, <1>6, ExistsSound DEF InputOk
  <2>2. CallInv(call[c], quit[c], [worker[c] EXCEPT ![w] = [place |-> "send", item |-> @.item, result |-> "ok"]])
    BY <1>1, <1>2, <1>3, <2>1, WorkKeeps
  <2> QED BY <1>2, <1>3, <1>6, <2>2, GoIInv
<1>7. CASE in.usable /\ Go(c, w, "verify", "none")
  <2>1. CallInv(call[c], quit[c], [worker[c] EXCEPT ![w] = [place |-> "verify", item |-> @.item, result |-> "none"]])
    BY <1>1, <1>2, <1>3, <1>7, WorkKeeps
  <2> QED BY <1>2, <1>3, <1>7, <2>1, GoIInv
<1> QED BY <1>4, <1>5, <1>6, <1>7

LEMMA VerifyIInv ==
  ASSUME IInv, NEW c \in Calls, NEW w \in DOMAIN worker[c], Verify(c, w)
  PROVE  IInv'
<1> DEFINE in == ItemOf(c, w)
<1>1. in \in Inputs /\ in = call[c].items[worker[c][w].item] /\ WorkerInv(call[c], worker[c][w])
  BY ItemIsInput DEF Verify
<1>2. worker[c][w].place = "verify" /\ UNCHANGED <<call, quit>>
  BY DEF Verify
<1>3. in.usable /\ CallInv(call[c], quit[c], worker[c]) /\ CacheInv(validSigs)
  BY <1>1, <1>2 DEF IInv, WorkerInv
<1>4. \/ in.check \in Valid /\ validSigs' \in Add(validSigs, in.check) /\ Go(c, w, "send", "ok")
      \/ in.check \notin Valid /\ UNCHANGED validSigs /\ Go(c, w, "send", "error")
  BY DEF Verify
<1> HIDE DEF in
<1>5. CASE in.check \in Valid /\ validSigs' \in Add(validSigs, in.check) /\ Go(c, w, "send", "ok")
  <2>1. InputOk(in)
    BY <1>3, <1>5 DEF InputOk
  <2>2. CallInv(call[c], quit[c], [worker[c] EXCEPT ![w] = [place |-> "send", item |-> @.item, result |-> "ok"]])
    BY <1>1, <1>2, <1>3, <2>1, WorkKeeps
  <2>3. CacheInv(validSigs')
    BY <1>1, <1>3, <1>5, AddSound
  <2> QED BY <1>2, <1>5, <2>2, <2>3, GoIInv
<1>6. CASE in.check \notin Valid /\ UNCHANGED validSigs /\ Go(c, w, "send", "error")
  <2>1. ~InputOk(in)
    BY <1>6 DEF InputOk
  <2>2. CallInv(call[c], quit[c], [worker[c] EXCEPT ![w] = [place |-> "send", item |-> @.item, result |-> "error"]])
    BY <1>1, <1>2, <1>3, <2>1, WorkKeeps
  <2>3. CacheInv(validSigs')
    BY <1>3, <1>6
  <2> QED BY <1>2, <1>6, <2>2, <2>3, GoIInv
<1> QED BY <1>4, <1>5, <1>6

LEMMA SendResultIInv ==
  ASSUME IInv, NEW c \in Calls, NEW w \in DOMAIN worker[c], SendResult(c, w)
  PROVE  IInv'
<1> DEFINE place == AfterSend(c, w)
           ws == [worker[c] EXCEPT ![w] = [place |-> place, item |-> @.item, result |-> "none"]]
           end(r) == [place |-> "returned", items |-> call[c].items, next |-> call[c].next,
                      processed |-> call[c].processed + 1, result |-> r]
           k == call'[c]
           q == quit'[c]
<1>1. place \in {"select", "exit"}
  BY DEF AfterSend
<1>2. CallInv(call[c], quit[c], worker[c]) /\ CacheInv(validSigs') /\ quit \in [Calls -> BOOLEAN] /\ call \in [Calls -> CallState]
  BY DEF IInv, SendResult
<1>3. worker' = [worker EXCEPT ![c] = ws] /\ worker[c][w].place = "send" /\ call[c].place = "loop"
  BY DEF SendResult, Go
<1>4. \/ worker[c][w].result = "error" /\ q /\ k = end("error")
      \/ worker[c][w].result = "ok" /\ call[c].processed + 1 = Len(call[c].items) /\ q /\ k = end("ok")
      \/ /\ worker[c][w].result = "ok" /\ call[c].processed + 1 < Len(call[c].items) /\ q = quit[c]
         /\ k = [call[c] EXCEPT !.processed = @ + 1]
  BY <1>2 DEF SendResult, Returned, Items
<1>5. call' = [call EXCEPT ![c] = k] /\ quit' = [quit EXCEPT ![c] = q] /\ q \in BOOLEAN
  BY <1>2 DEF SendResult, Returned
<1>6. ws = [worker[c] EXCEPT ![w] = [place |-> place, item |-> @.item, result |-> "none"]]
  OBVIOUS
<1> HIDE DEF place, ws, k, q
<1>7. CallInv(k, q, ws)
  BY <1>1, <1>2, <1>3, <1>4, <1>5, <1>6, ResultKeeps
<1> QED BY <1>2, <1>3, <1>5, <1>7, OneCall

LEMMA LeaveIInv ==
  ASSUME IInv, NEW c \in Calls, NEW w \in DOMAIN worker[c], DropResult(c, w) \/ Exit(c, w)
  PROVE  IInv'
<1>1. PICK place \in {"select", "exit"} : Go(c, w, place, "none")
  BY DEF DropResult, Exit, AfterSend
<1>2. UNCHANGED <<call, quit, validSigs>> /\ quit[c]
  BY DEF DropResult, Exit
<1>3. CallInv(call[c], quit[c], worker[c]) /\ CacheInv(validSigs')
  BY <1>2 DEF IInv
<1>4. call[c].place # "loop"
  BY <1>2, <1>3 DEF CallInv
<1>5. CallInv(call[c], quit[c], [worker[c] EXCEPT ![w] = [place |-> place, item |-> @.item, result |-> "none"]])
  BY <1>3, <1>4, LeaveKeeps
<1> QED BY <1>1, <1>2, <1>3, <1>5, GoIInv

(* The invariant IInv is inductive.                                        *)
THEOREM PoolInvariant == Spec => []IInv
<1>1. IInv /\ [Next]_vars => IInv'
  <2> SUFFICES ASSUME IInv, [Next]_vars PROVE IInv'
    OBVIOUS
  <2>1. CASE UNCHANGED vars
    BY <2>1 DEF IInv, vars
  <2>2. CASE Finished
    BY <2>2 DEF IInv, vars, Finished
  <2>3. CASE \E c \in Calls : \E a \in Arguments[c] : Begin(c, a)
    BY <2>3, BeginIInv
  <2>4. ASSUME NEW c \in Calls, NEW w \in DOMAIN worker[c], SendItem(c, w) \/ WorkerStep(c, w)
        PROVE  IInv'
    BY <2>4, SendItemIInv, LookupIInv, VerifyIInv, SendResultIInv, LeaveIInv DEF WorkerStep
  <2> QED BY <2>1, <2>2, <2>3, <2>4 DEF Next
<1> QED BY <1>1, InitIInv, PTL DEF Spec

(* A call of Validate that returns has the right verdict, however many     *)
(* calls share the cache and whatever their goroutines interleave to.      *)
THEOREM VerdictIsSound == Spec => []VerdictSound
<1>1. IInv => VerdictSound
  BY DEF IInv, CallInv, Sound, VerdictSound, Items
<1> QED BY <1>1, PoolInvariant, PTL

(* The shared cache never holds a signature that does not verify, whatever *)
(* it evicts (SigCache.Add).                                               *)
THEOREM CacheIsSound == Spec => []CacheInv(validSigs)
<1>1. IInv => CacheInv(validSigs)
  BY DEF IInv
<1> QED BY <1>1, PoolInvariant, PTL
=============================================================================

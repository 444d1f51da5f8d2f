----------------------------- MODULE ScriptVal ------------------------------
(***************************************************************************)
(* The validation of the scripts of a block or of a transaction by a pool  *)
(* of goroutines (scriptval.go), with the signature cache that all calls   *)
(* share (sigcache.go).                                                    *)
(*                                                                         *)
(* A call of Validate and its goroutines talk over two channels without    *)
(* buffer: a send and its receive are one step of both.  quit is the       *)
(* channel that is closed when the call returns.  The scripts of an input  *)
(* come down to one signature check; the script engine is in Script.       *)
(***************************************************************************)
EXTENDS Integers, Sequences, FiniteSets, FiniteSetsExt, SequencesExt, Functions

CONSTANTS
  Calls,          \* the calls of checkBlockScripts and ValidateTransactionScripts
  Inputs,         \* transaction inputs: of a coinbase or not, its output is known
                  \* and parses or not, and the signature check its scripts ask for
  Arguments,      \* what they may be called with: transactions, each a sequence
                  \* of inputs, and whether one pays a suspended address
  NumCPU,
  maxEntries,     \* the size of the signature cache
  Valid           \* the triples of hash, signature and key that verify

ASSUME ScriptValAssumption ==
  /\ NumCPU \in Nat /\ maxEntries \in Nat
  /\ DOMAIN Arguments = Calls
  /\ \A in \in Inputs :
       in.check = [hash |-> in.check.hash, sig |-> in.check.sig, key |-> in.check.key]

VARIABLES
  call,           \* per call: its items, its counters, whether it runs, its result
  quit,           \* per call: whether quitChan is closed
  worker,         \* per call: its goroutines, each with its place, item and result
  validSigs       \* the signature cache: sigHash to signature and key

vars == <<call, quit, worker, validSigs>>

-----------------------------------------------------------------------------
(* The signature cache.                                                    *)

ExistsMutant(cache, check) == check.hash \in DOMAIN cache

Exists(cache, check) ==
  check.hash \in DOMAIN cache /\ cache[check.hash] = <<check.sig, check.key>>

Put(cache, check) ==
  [h \in DOMAIN cache \cup {check.hash} |-> IF h = check.hash THEN <<check.sig, check.key>> ELSE cache[h]]

\* The caches an Add may leave.  A full cache loses some entry, even where
\* the new one only replaces the entry of its hash.
Add(cache, check) ==
  IF maxEntries = 0 THEN {cache}
  ELSE IF Cardinality(DOMAIN cache) + 1 > maxEntries
       THEN {Put(Restrict(cache, DOMAIN cache \ {h}), check) : h \in DOMAIN cache}
       ELSE {Put(cache, check)}

-----------------------------------------------------------------------------
(* A call.                                                                 *)

\* the inputs of all transactions, without those of coinbases
Collect(txs) == SelectSeq(FlattenSeq(txs), LAMBDA in : ~in.coinbase)

\* what is collected from sequences of inputs is a sequence of inputs
ASSUME CollectAssumption ==
  \A c \in Calls : \A a \in Arguments[c] : Collect(a.txs) \in Seq(Inputs)

\* a call that has handed out no item yet
At(place, items, result) == [place |-> place, items |-> items, next |-> 1, processed |-> 0, result |-> result]

Idle == At("idle", <<>>, "none")

Items(c) == call[c].items

maxGoRoutines(n) == Min({Max({NumCPU * 3, 1}), n * 3})

\* a goroutine that waits for an item
Waiting == [place |-> "select", item |-> 0, result |-> "none"]

\* what a call is once it was given its argument: it returns at once when
\* the transaction is refused or there is nothing to validate
Begun(a) ==
  LET items == Collect(a.txs)
  IN  IF a.blacklisted THEN At("refused", <<>>, "error")
      ELSE IF items = <<>> THEN At("returned", <<>>, "ok")
      ELSE At("loop", items, "none")

Begin(c, a) ==
  /\ call[c].place = "idle"
  /\ call' = [call EXCEPT ![c] = Begun(a)]
  /\ worker' = [worker EXCEPT ![c] = [w \in 1 .. maxGoRoutines(Len(Begun(a).items)) |-> Waiting]]
  /\ UNCHANGED <<quit, validSigs>>

\* the call hands the next item to a goroutine that waits for one
SendItem(c, w) ==
  /\ call[c].place = "loop" /\ call[c].next <= Len(Items(c))
  /\ worker[c][w].place = "select"
  /\ worker' = [worker EXCEPT ![c][w] = [place |-> "lookup", item |-> call[c].next, result |-> "none"]]
  /\ call' = [call EXCEPT ![c].next = @ + 1]
  /\ UNCHANGED <<quit, validSigs>>

-----------------------------------------------------------------------------
(* A goroutine.                                                            *)

Go(c, w, place, result) ==
  worker' = [worker EXCEPT ![c][w] = [place |-> place, item |-> @.item, result |-> result]]

ItemOf(c, w) == Items(c)[worker[c][w].item]

\* the output must be in the view and its script must parse; then the cache is
\* asked
Lookup(c, w) ==
  /\ worker[c][w].place = "lookup"
  /\ LET in == ItemOf(c, w) IN
       \/ ~in.usable /\ Go(c, w, "send", "error")
       \/ in.usable /\ Exists(validSigs, in.check) /\ Go(c, w, "send", "ok")
       \/ in.usable /\ ~Exists(validSigs, in.check) /\ Go(c, w, "verify", "none")
  /\ UNCHANGED <<call, quit, validSigs>>

\* the signature is verified outside the lock of the cache and added if valid
Verify(c, w) ==
  /\ worker[c][w].place = "verify"
  /\ LET check == ItemOf(c, w).check IN
       \/ check \in Valid /\ validSigs' \in Add(validSigs, check) /\ Go(c, w, "send", "ok")
       \/ check \notin Valid /\ UNCHANGED validSigs /\ Go(c, w, "send", "error")
  /\ UNCHANGED <<call, quit>>

\* where a goroutine goes once its result is sent or dropped
AfterSend(c, w) == IF worker[c][w].result = "error" THEN "exit" ELSE "select"

Returned(c, result) ==
  /\ call' = [call EXCEPT ![c] = [place |-> "returned", items |-> @.items, next |-> @.next,
                                   processed |-> @.processed + 1, result |-> result]]
  /\ quit' = [quit EXCEPT ![c] = TRUE]

\* sendResult, with the call at the other end of resultChan
SendResult(c, w) ==
  /\ worker[c][w].place = "send" /\ call[c].place = "loop"
  /\ \/ worker[c][w].result = "error" /\ Returned(c, "error")
     \/ worker[c][w].result = "ok" /\ call[c].processed + 1 = Len(Items(c)) /\ Returned(c, "ok")
     \/ /\ worker[c][w].result = "ok" /\ call[c].processed + 1 < Len(Items(c))
        /\ call' = [call EXCEPT ![c].processed = @ + 1]
        /\ UNCHANGED quit
  /\ Go(c, w, AfterSend(c, w), "none")
  /\ UNCHANGED validSigs

DropResultMutant(c, w) == FALSE

\* sendResult, when the call no longer listens
DropResult(c, w) ==
  /\ worker[c][w].place = "send" /\ quit[c]
  /\ Go(c, w, AfterSend(c, w), "none")
  /\ UNCHANGED <<call, quit, validSigs>>

Exit(c, w) ==
  /\ worker[c][w].place = "select" /\ quit[c]
  /\ Go(c, w, "exit", "none")
  /\ UNCHANGED <<call, quit, validSigs>>

-----------------------------------------------------------------------------
Init ==
  /\ call = [c \in Calls |-> Idle]
  /\ quit = [c \in Calls |-> FALSE]
  /\ worker = [c \in Calls |-> <<>>]
  /\ validSigs = [h \in {} |-> <<>>]

WorkerStep(c, w) ==
  Lookup(c, w) \/ Verify(c, w) \/ SendResult(c, w) \/ DropResult(c, w) \/ Exit(c, w)

Ended(c) == call[c].place \in {"returned", "refused"} /\ \A w \in DOMAIN worker[c] : worker[c][w].place = "exit"

Finished == (\A c \in Calls : Ended(c)) /\ UNCHANGED vars

Next ==
  \/ \E c \in Calls : \E a \in Arguments[c] : Begin(c, a)
  \/ \E c \in Calls : \E w \in DOMAIN worker[c] : SendItem(c, w) \/ WorkerStep(c, w)
  \/ Finished

Spec == Init /\ [][Next]_vars

MaxWorkers == Max({1, NumCPU * 3})

(* The goroutines and the loop of every call keep running.  A call may be  *)
(* delayed for ever before it begins.                                      *)
FairSpec ==
  /\ Spec
  /\ \A c \in Calls :
       /\ WF_vars(\E w \in DOMAIN worker[c] : SendItem(c, w))
       /\ \A w \in 1 .. MaxWorkers : WF_vars(w \in DOMAIN worker[c] /\ WorkerStep(c, w))

-----------------------------------------------------------------------------
InputOk(in) == in.usable /\ in.check \in Valid

(* However the goroutines of concurrent calls interleave, and whatever the *)
(* shared cache has evicted, a call that returns has the right verdict: no *)
(* error exactly if every input validates, and then every input was        *)
(* checked (Validate, SigCache.Exists, SigCache.Add).                      *)
VerdictSound ==
  \A c \in Calls : call[c].place = "returned" =>
    /\ call[c].result = "ok" <=> \A i \in DOMAIN Items(c) : InputOk(Items(c)[i])
    /\ call[c].result = "ok" => call[c].processed = Len(Items(c))

(* A call that has begun returns and all its goroutines end, those too     *)
(* that finish an item after another one failed (sendResult, Validate).    *)
PoolEnds == \A c \in Calls : call[c].place # "idle" ~> Ended(c)
=============================================================================

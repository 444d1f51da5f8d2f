------------------------------ MODULE TxStore -------------------------------
(***************************************************************************)
(* What pkg/database promises to its callers, and what BlockChain takes    *)
(* for granted: one write transaction at a time reads the committed rows   *)
(* and its own writes, its commit replaces the rows by what it sees, and a *)
(* process that dies comes back with rows that were committed before, none *)
(* older than the last ones that reached the disk.  No cache, no files, no *)
(* snapshots.                                                              *)
(***************************************************************************)

CONSTANTS
  None,      \* no holder
  Workers,   \* goroutines that run transactions
  Initial    \* the rows of a new database

VARIABLES
  rows,      \* the committed rows
  disk,      \* the rows that a crash leaves
  holder,    \* who has the write transaction, or None
  view       \* what the write transaction sees, the committed rows without one

vars == <<rows, disk, holder, view>>

Init ==
  /\ rows = Initial
  /\ disk = Initial
  /\ holder = None
  /\ view = Initial

Begin(w) ==
  /\ holder = None
  /\ holder' = w
  /\ UNCHANGED <<rows, disk, view>>

(* One row is put or deleted, for the transaction itself only.             *)
Write ==
  /\ holder # None
  /\ \E r \in DOMAIN view : view' = [view EXCEPT ![r] = view'[r]]
  /\ UNCHANGED <<rows, disk, holder>>

(* Everything at once; whether it is on disk already is up to the store.   *)
Commit ==
  /\ holder # None
  /\ holder' = None
  /\ rows' = view
  /\ disk' \in {disk, view}
  /\ UNCHANGED view

(* Also a commit that fails.                                               *)
Rollback ==
  /\ holder # None
  /\ holder' = None
  /\ view' = rows
  /\ UNCHANGED <<rows, disk>>

Flush ==
  /\ disk' = rows
  /\ UNCHANGED <<rows, holder, view>>

(* A crash, or a close whose flush fails.                                  *)
Lose ==
  /\ rows' = disk
  /\ view' = disk
  /\ holder' = None
  /\ UNCHANGED disk

Next ==
  \/ \E w \in Workers : Begin(w)
  \/ Write
  \/ Commit
  \/ Rollback
  \/ Flush
  \/ Lose

Spec == Init /\ [][Next]_vars
=============================================================================

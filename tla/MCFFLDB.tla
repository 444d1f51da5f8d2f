------------------------------- MODULE MCFFLDB ------------------------------
(***************************************************************************)
(* Instances of FFLDB for model checking.  A file holds one block and has  *)
(* room for half another, so that the second block rolls over into a new   *)
(* file.                                                                   *)
(***************************************************************************)
EXTENDS FFLDB

Symmetry == Permutations(Workers) \cup Permutations(Blocks)

\* Two faults in all: a failure and the failure of the rollback that answers
\* it, or a failure and a crash.
FaultBound == failures + crashes <= 2
=============================================================================

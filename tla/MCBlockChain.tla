---------------------------- MODULE MCBlockChain ----------------------------
(***************************************************************************)
(* Block trees and attributes for model checking BlockChain.  Blocks are   *)
(* strings; each cfg picks a set of blocks closed under Parent.            *)
(*                                                                         *)
(*      g -- a -- b -- d      a, b, d: 2 units of work each                *)
(*      |--- c -- e           c: 5 units, more than the workSum of b       *)
(*      `--- x -- y           x: 5 units, fails checkConnectBlock; y: 7    *)
(***************************************************************************)
EXTENDS BlockChain

Parent ==
  [a |-> "g", b |-> "a", d |-> "b", c |-> "g", e |-> "c", x |-> "g", y |-> "x"]

MCPrev == [n \in Blocks \ {"g"} |-> Parent[n]]

MCPath ==
  LET path[n \in Blocks] == IF n = "g" THEN <<"g">> ELSE Append(path[Parent[n]], n)
  IN  path

MCWork == [n \in Blocks |-> CASE n \in {"c", "x"} -> 5 [] n = "y" -> 7 [] n = "g" -> 1 [] OTHER -> 2]

MCNumTx == [n \in Blocks |-> IF n \in {"a", "c"} THEN 2 ELSE 1]

MCTotalTxns == [n \in Blocks |-> FoldLeft(LAMBDA t, x : t + NumTx[x], 0, Path[n])]

WorkerSymmetry == Permutations(Workers)
=============================================================================

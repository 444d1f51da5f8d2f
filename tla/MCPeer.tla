------------------------------- MODULE MCPeer -------------------------------
(***************************************************************************)
(* Instances of Peer for model checking: one caller sends a request and    *)
(* waits for it to be sent, the others queue plain messages.               *)
(***************************************************************************)
EXTENDS Peer

MCCmd == [c \in Callers |-> IF c = "a" THEN "getdata" ELSE "addr"]

(* The remote side sends one message in all, a malformed one included.     *)
OneMessage == ~(received > 0 /\ inMsg = "malformed")
=============================================================================

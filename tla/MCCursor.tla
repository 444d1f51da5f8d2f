------------------------------ MODULE MCCursor ------------------------------
(***************************************************************************)
(* Cursor with one reader and one writer.                                  *)
(***************************************************************************)
EXTENDS Cursor
=============================================================================

---------------------------- MODULE MCClosedLoop ----------------------------
(* ClosedLoop with small bounds. *)
EXTENDS ClosedLoop
=============================================================================

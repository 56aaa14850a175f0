------------------------- MODULE MCProcessTransport -------------------------
(* ProcessTransport with small bounds; the configurations choose whether   *)
(* the caller and the child's recv() may be interrupted.                   *)
EXTENDS ProcessTransport
=============================================================================

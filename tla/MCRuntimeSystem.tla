--------------------------- MODULE MCRuntimeSystem ---------------------------
(* RuntimeSystem with small bounds. *)
EXTENDS RuntimeSystem
=============================================================================

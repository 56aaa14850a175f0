-------------------------------- MODULE Study --------------------------------
(***************************************************************************)
(* What the scripts of the studies have in common: which study it is, and  *)
(* that they meet in files that Path.write_text truncates and then writes. *)
(***************************************************************************)

VARIABLE study   \* the study that is carried out

ProbeStudies   == {"stage18", "stage21a", "stage22", "stage23"}
ControlStudies == {"stage20", "stage20b"}

(* A file is absent, torn (truncated, not yet rewritten) or whole. *)
FileStates == {"absent", "torn", "whole"}
=============================================================================

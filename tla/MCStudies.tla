----------------------------- MODULE MCStudies -----------------------------
(* Two conditions that the number of steps tells apart where successes and *)
(* distances tie; the shorter one has the longer period.                   *)
EXTENDS Studies
MCSteps == <<2, 1>>
MCDt    == <<1, 2>>
============================================================================

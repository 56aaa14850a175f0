------------------------------ MODULE Studies ------------------------------
(***************************************************************************)
(* The studies together: the probe studies (ProbeStudy) and the control    *)
(* studies (ControlStudy) are separate scripts over separate files, and of *)
(* the two only the one that is carried out moves.                         *)
(***************************************************************************)
EXTENDS ProbeStudy, ControlStudy

StudiesInit ==
    study \in ProbeStudies \cup ControlStudies /\ NothingAsked /\ NothingRun

StudiesNext ==
    \/ study \in ProbeStudies /\ ProbeNext /\ UNCHANGED controlVars
    \/ study \in ControlStudies /\ ControlNext /\ UNCHANGED probeVars

StudiesSpec == StudiesInit /\ [][StudiesNext]_<<probeVars, controlVars>>

-----------------------------------------------------------------------------
(* The study that is carried out keeps its types: a collection has no more *)
(* rows than its mode has requests, a control study no more episodes than  *)
(* conditions times targets.                                               *)
StudiesTypeOK ==
    IF study \in ProbeStudies THEN ProbeTypeOK ELSE ControlTypeOK
============================================================================

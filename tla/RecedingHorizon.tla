-------------------------- MODULE RecedingHorizon --------------------------
(***************************************************************************)
(* What a receding-horizon run promises, whatever the policy and the robot *)
(* are: it asks the policy, executes at most H actions of the answer and   *)
(* asks again, until it has executed its budget of actions; or it holds    *)
(* the robot, and a run that held executes nothing more.                   *)
(***************************************************************************)
EXTENDS Naturals

CONSTANTS MaxHorizon,   \* the largest execution horizon configured
          MaxSteps      \* the largest budget of a run

VARIABLES horizon,      \* actions executed per answer, at most
          mode,         \* resting between runs, asking, or acting
          left,         \* actions of the current answer still to execute
          budget        \* actions the run may still execute

vars == <<horizon, mode, left, budget>>

Init ==
    /\ horizon \in 1..MaxHorizon
    /\ mode = "resting"
    /\ left = 0
    /\ budget = 0

Start ==
    /\ mode = "resting"
    /\ mode' = "acting"
    /\ left' = 0
    /\ budget' \in 0..MaxSteps
    /\ UNCHANGED horizon

Ask ==
    /\ mode = "acting"
    /\ left = 0
    /\ budget > 0
    /\ mode' = "asking"
    /\ UNCHANGED <<horizon, left, budget>>

Accept ==
    /\ mode = "asking"
    /\ mode' = "acting"
    /\ left' \in 1..horizon
    /\ left' <= budget
    /\ UNCHANGED <<horizon, budget>>

Act ==
    /\ mode = "acting"
    /\ left > 0
    /\ left' = left - 1
    /\ budget' = budget - 1
    /\ UNCHANGED <<horizon, mode>>

(* The run is over: its budget is used up, or the robot holds. *)
Stop ==
    /\ \/ mode = "acting" /\ left = 0 /\ budget = 0
       \/ mode = "asking"
       \/ mode = "acting" /\ left > 0
    /\ mode' = "resting"
    /\ left' = 0
    /\ budget' = 0
    /\ UNCHANGED horizon

Next == Start \/ Ask \/ Accept \/ Act \/ Stop

Spec == Init /\ [][Next]_vars
=============================================================================

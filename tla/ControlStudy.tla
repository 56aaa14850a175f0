---------------------------- MODULE ControlStudy ----------------------------
(***************************************************************************)
(* The control studies (stages 20 and 20B): every declared condition is    *)
(* run on every development target, one condition is selected by a rule    *)
(* declared beforehand, and the final targets are run with four            *)
(* controllers under that condition.  The script may be stopped anywhere   *)
(* and run again; only the file report.json outlives a run.                *)
(*                                                                         *)
(* The rows of a condition are summed up in a tally, as all the rule asks  *)
(* of them is how many there are, the successes, the mean of the final     *)
(* distances and the clips; over equally many rows means compare as sums.  *)
(***************************************************************************)
EXTENDS Study, Integers, Sequences

CONSTANTS
    NumConditions,   \* declared conditions, in the order of declaration
    NumTargets,      \* development targets, and as many final targets
    Steps,           \* episode_steps of each condition
    Dt,              \* bridge_dt_seconds of each condition
    Threshold,       \* the distance that counts as success
    MaxDistance,     \* bound: the largest final distance
    MaxClips,        \* bound: clipped steps in an episode
    MaxStudies       \* bound: how often the script is run

Conditions == 1..NumConditions
Targets    == 1..NumTargets

ASSUME ControlAssumption ==
    /\ {NumConditions, NumTargets, MaxStudies} \subseteq Nat \ {0}
    /\ {Threshold, MaxDistance, MaxClips} \subseteq Nat
    /\ Steps \in [Conditions -> Nat] /\ Dt \in [Conditions -> Nat]

Controllers == {"no_op", "fixed_raw_action_bridge",
                "closed_loop_dls_velocity_oracle",
                "direct_position_ik_oracle"}

VARIABLES
    studies,    \* how often the script was begun
    at,         \* where the script is
    done,       \* development episodes done
    tally,      \* the development rows of each condition, summed up
    selected,   \* the selected condition (0: none yet)
    finals,     \* the final rows: who ran on what, under which condition
    report      \* the file report.json

controlVars == <<study, studies, at, done, tally, selected, finals, report>>

Tallies   == [rows : Nat, successes : Nat, distance : Nat, clips : Nat]
FinalRows == [target : Targets, controller : Controllers,
              condition : 0..NumConditions]
NoTally   == [rows |-> 0, successes |-> 0, distance |-> 0, clips |-> 0]

ControlTypeOK ==
    /\ study \in ControlStudies
    /\ studies \in 0..MaxStudies
    /\ at \in {"idle", "development", "final", "writing"}
    /\ done \in 0..(NumConditions * NumTargets)
    /\ tally \in [Conditions -> Tallies]
    /\ selected \in 0..NumConditions
    /\ finals \in Seq(FinalRows)
    /\ report \in [state : FileStates,
                   tally : [Conditions -> Tallies],
                   selected : 0..NumConditions, finals : Seq(FinalRows)]

NothingRun ==
    /\ studies = 0
    /\ at = "idle"
    /\ done = 0
    /\ tally = [c \in Conditions |-> NoTally]
    /\ selected = 0
    /\ finals = <<>>
    /\ report = [state |-> "absent", tally |-> tally, selected |-> 0,
                 finals |-> <<>>]

ControlInit == study \in ControlStudies /\ NothingRun

-----------------------------------------------------------------------------
(* Python's order of tuples. *)
LexLess(r, s) ==
    \E i \in 1..Len(r) :
        /\ r[i] < s[i]
        /\ \A j \in 1..(i - 1) : r[j] = s[j]

AllSucceed(t) == IF t.successes = t.rows THEN 1 ELSE 0

(* Mutation of Rank: the distance before the number of successes. *)
MutDistanceFirst(t, c) ==
    IF study = "stage20"
    THEN <<-AllSucceed(t), t.distance, -t.successes, Steps[c], Dt[c], c>>
    ELSE <<t.distance, -t.successes, t.clips, c>>

(* The rank of condition c with tally t: the least one is selected. *)
Rank(t, c) ==
    IF study = "stage20"
    THEN <<-AllSucceed(t), -t.successes, t.distance, Steps[c], Dt[c], c>>
    ELSE <<-t.successes, t.distance, t.clips, c>>

(* select_diagnostic_condition and select_condition: the name that goes    *)
(* with the minimum of the ranks.                                          *)
Selects(c) ==
    \A d \in Conditions \ {c} : LexLess(Rank(tally[c], c), Rank(tally[d], d))

StudyStarts ==
    /\ at = "idle"
    /\ studies < MaxStudies
    /\ studies' = studies + 1
    /\ at' = "development"
    /\ done' = 0
    /\ tally' = [c \in Conditions |-> NoTally]
    /\ selected' = 0
    /\ finals' = <<>>
    /\ UNCHANGED <<study, report>>

(* An episode succeeds if it ends at the target, and not by an exception,  *)
(* which the row keeps as its safety_event.                                *)
DevelopmentEpisode ==
    /\ at = "development"
    /\ done < NumConditions * NumTargets
    /\ LET c == (done \div NumTargets) + 1
       IN  \E success \in BOOLEAN, distance \in 0..MaxDistance,
              clips \in 0..MaxClips :
                /\ success => distance <= Threshold
                /\ tally' = [tally EXCEPT ![c] =
                        [rows |-> @.rows + 1,
                         successes |-> @.successes + IF success THEN 1 ELSE 0,
                         distance |-> @.distance + distance,
                         clips |-> @.clips + clips]]
    /\ done' = done + 1
    /\ UNCHANGED <<study, studies, at, selected, finals, report>>

(* The rule raises if a condition has not one row for each target. *)
ConditionIsSelected ==
    /\ at = "development"
    /\ done = NumConditions * NumTargets
    /\ \A c \in Conditions : tally[c].rows = NumTargets
    /\ \E c \in Conditions : Selects(c) /\ selected' = c
    /\ at' = "final"
    /\ UNCHANGED <<study, studies, done, tally, finals, report>>

(* Each final target is run with the controllers in this order. *)
ControllerOrder == <<"no_op", "fixed_raw_action_bridge",
                     "closed_loop_dls_velocity_oracle",
                     "direct_position_ik_oracle">>

(* The inverse kinematics knows no condition, the others run under the     *)
(* selected one; how an episode ends is of no consequence.                 *)
FinalEpisode ==
    /\ at = "final"
    /\ Len(finals) < 4 * NumTargets
    /\ LET controller == ControllerOrder[(Len(finals) % 4) + 1]
       IN  finals' = Append(finals,
                [target |-> (Len(finals) \div 4) + 1,
                 controller |-> controller,
                 condition |-> IF controller = "direct_position_ik_oracle"
                               THEN 0 ELSE selected])
    /\ UNCHANGED <<study, studies, at, done, tally, selected, report>>

ReportIsTruncated ==
    /\ at = "final"
    /\ Len(finals) = 4 * NumTargets
    /\ at' = "writing"
    /\ report' = [report EXCEPT !.state = "torn"]
    /\ UNCHANGED <<study, studies, done, tally, selected, finals>>

ReportIsSaved ==
    /\ at = "writing"
    /\ at' = "idle"
    /\ report' = [state |-> "whole", tally |-> tally, selected |-> selected,
                  finals |-> finals]
    /\ UNCHANGED <<study, studies, done, tally, selected, finals>>

(* The script is killed, or raises outside an episode. *)
StudyStops ==
    /\ at # "idle"
    /\ at' = "idle"
    /\ UNCHANGED <<study, studies, done, tally, selected, finals, report>>

ControlNext ==
    \/ StudyStarts \/ DevelopmentEpisode \/ ConditionIsSelected
    \/ FinalEpisode \/ ReportIsTruncated \/ ReportIsSaved \/ StudyStops

ControlSpec == ControlInit /\ [][ControlNext]_controlVars

-----------------------------------------------------------------------------
(* Condition d would have been preferred to condition c, by what the       *)
(* documents declare of the rule: "all-target success first, then number   *)
(* of successes, lower mean final distance, fewer steps, then smaller dt"  *)
(* (docs/STAGE_20_CONTROL_FEASIBILITY.md:52-53); "highest success count;   *)
(* then lowest mean final distance; then fewest bridge clips; then         *)
(* declaration order"                                                      *)
(* (docs/STAGE_20B_CONTROL_CONTRACT_REPLICATION.md:39-41).                 *)
Preferred(t, d, c) ==
    \/ study = "stage20" /\ AllSucceed(t[d]) > AllSucceed(t[c])
    \/ t[d].successes > t[c].successes
    \/ /\ t[d].successes = t[c].successes
       /\ \/ t[d].distance < t[c].distance
          \/ /\ t[d].distance = t[c].distance
             /\ IF study = "stage20"
                THEN \/ Steps[d] < Steps[c]
                     \/ Steps[d] = Steps[c] /\ Dt[d] < Dt[c]
                ELSE \/ t[d].clips < t[c].clips
                     \/ t[d].clips = t[c].clips /\ d < c

(* Wherever runs of the script were stopped, a report that can be read is  *)
(* that of one run: every condition had a row for every development        *)
(* target, none is preferred to the selected one, and every controller was *)
(* run once on every final target under the selected condition             *)
(* (stage20.py:26-40, stage20b.py:21-27).                                  *)
ReportIsOfDeclaredRule ==
    report.state = "whole" =>
        /\ report.selected \in Conditions
        /\ \A c \in Conditions :
            /\ report.tally[c].rows = NumTargets
            /\ ~Preferred(report.tally, c, report.selected)
        /\ \A target \in Targets, k \in Controllers :
            \E i \in 1..Len(report.finals) :
                /\ report.finals[i].target = target
                /\ report.finals[i].controller = k
                /\ report.finals[i].condition =
                    IF k = "direct_position_ik_oracle"
                    THEN 0 ELSE report.selected
        /\ Len(report.finals) = 4 * NumTargets
=============================================================================

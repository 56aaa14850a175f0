----------------------------- MODULE ProbeStudy -----------------------------
(***************************************************************************)
(* The studies that ask the policy server a fixed list of questions, keep  *)
(* the answers in a file and analyse the file: a collector script (stages  *)
(* 18, 21A, 22, 23) and an analysis script, run by hand, possibly at the   *)
(* same time, and possibly stopped at any point.  They meet in the files.  *)
(*                                                                         *)
(* Requests are asked in one fixed order, so a row is abstracted to        *)
(* whether its request was answered, and a collection to the sequence of   *)
(* its rows.  Request i is about state group GroupOf(i).                   *)
(***************************************************************************)
EXTENDS Study, Naturals, Sequences, FiniteSets

CONSTANTS
    NumGroups,       \* state groups (stage 22) or targets (stage 21A)
    PerGroup,        \* requests about each of them in a full collection
    LastTrain,       \* the last group of the training split
    LastValidation,  \* the last group of the validation split
    PilotSize,       \* requests of a pilot
    MaxCollections   \* bound: collector scripts started

ASSUME ProbeAssumption ==
    /\ {NumGroups, PerGroup, PilotSize, MaxCollections} \subseteq Nat \ {0}
    /\ LastTrain \in Nat /\ LastValidation \in Nat
    /\ LastTrain <= LastValidation /\ LastValidation <= NumGroups
    /\ PilotSize <= NumGroups * PerGroup

Modes == {"pilot", "full"}

FullSize    == NumGroups * PerGroup
Size(mode)  == IF mode = "pilot" THEN PilotSize ELSE FullSize
GroupOf(i)  == (i - 1) \div PerGroup + 1

(* stage22.split and stage21a.split_for_target. *)
Split(group) == IF group <= LastTrain THEN "train"
                ELSE IF group <= LastValidation THEN "validation"
                ELSE "test"

(* The requests of a full collection that belong to a split. *)
Held(split) == {i \in 1..FullSize : Split(GroupOf(i)) = split}

VARIABLES
    begun,      \* collector scripts started
    collector,  \* the collector script: where it is, its mode and its rows
    analyst,    \* the analysis script: where it is and what it computed
    pilot,      \* the file pilot.json
    data,       \* the file data.json (stage 18: the file of the samples
                \* and seed that train_stage18_residual_adapter.py reads)
    probe       \* the file probe_report.json (stage 18: training_report.json)

collectorVars == <<begun, collector, pilot, data>>
probeVars == <<study, collectorVars, analyst, probe>>

AnyRows == Seq(BOOLEAN)
Results == [learned : SUBSET (1..FullSize), scored : SUBSET (1..FullSize)]

NoRows   == [state |-> "absent", rows |-> <<>>, passed |-> FALSE]
NoResult == [learned |-> {}, scored |-> {}]

ProbeTypeOK ==
    /\ study \in ProbeStudies
    /\ begun \in 0..MaxCollections
    /\ collector \in [at : {"idle", "warming", "asking", "writing"},
                      mode : Modes, rows : AnyRows, passed : BOOLEAN]
    /\ Len(collector.rows) <= Size(collector.mode)
    /\ analyst \in [at : {"idle", "fitted", "writing"}, result : Results]
    /\ {pilot, data} \subseteq [state : FileStates, rows : AnyRows,
                                passed : BOOLEAN]
    /\ probe \in [state : FileStates, result : Results]

NothingAsked ==
    /\ begun = 0
    /\ collector = [at |-> "idle", mode |-> "full", rows |-> <<>>,
                    passed |-> FALSE]
    /\ analyst = [at |-> "idle", result |-> NoResult]
    /\ pilot = NoRows
    /\ data = NoRows
    /\ probe = [state |-> "absent", result |-> NoResult]

ProbeInit == study \in ProbeStudies /\ NothingAsked

-----------------------------------------------------------------------------
(* Stages 22 and 23 have a pilot, and warm the server up themselves.       *)
HasPilot == study \in {"stage22", "stage23"}

Answered(rows) == {i \in 1..Len(rows) : rows[i]}

(* main() of a collector, up to its first request.  The mode is a flag of  *)
(* the command line: nothing that an earlier pilot wrote is read.          *)
CollectionStarts ==
    /\ collector.at = "idle"
    /\ begun < MaxCollections
    /\ begun' = begun + 1
    /\ \E mode \in IF HasPilot THEN Modes ELSE {"full"} :
            collector' = [at |-> IF HasPilot THEN "warming" ELSE "asking",
                          mode |-> mode, rows |-> <<>>, passed |-> FALSE]
    /\ UNCHANGED <<study, analyst, pilot, data, probe>>

(* The answer of the warm-up request is thrown away.  An exception is not  *)
(* caught: it ends the script, as CollectionStops does.                    *)
WarmUpIsAnswered ==
    /\ collector.at = "warming"
    /\ collector' = [collector EXCEPT !.at = "asking"]
    /\ UNCHANGED <<study, begun, analyst, pilot, data, probe>>

(* Mutation of RequestEnds: one request too many. *)
MutOneMoreRequest ==
    /\ collector.at = "asking"
    /\ Len(collector.rows) <= Size(collector.mode)
    /\ \E answered \in BOOLEAN :
            collector' = [collector EXCEPT !.rows = Append(@, answered)]
    /\ UNCHANGED <<study, begun, analyst, pilot, data, probe>>

(* policy.infer returns or raises; a row is appended either way. *)
RequestEnds ==
    /\ collector.at = "asking"
    /\ Len(collector.rows) < Size(collector.mode)
    /\ \E answered \in BOOLEAN :
            collector' = [collector EXCEPT !.rows = Append(@, answered)]
    /\ UNCHANGED <<study, begun, analyst, pilot, data, probe>>

(* pilot_gate_passed: all answered, and the answers differ. *)
PilotPasses(rows, differ) ==
    Cardinality(Answered(rows)) = PilotSize /\ differ

(* Stage 23 takes the maximum over pairs of answers, and raises if there   *)
(* is no pair; stage 22 has a default.                                     *)
PilotIsJudged(rows) == study = "stage23" => Cardinality(Answered(rows)) >= 2

(* The loops are done: the gate is computed and write_text truncates the   *)
(* file.  A full collection of stage 22 always says pilot_gate_passed.     *)
FileIsOpened ==
    /\ collector.at = "asking"
    /\ Len(collector.rows) = Size(collector.mode)
    /\ \/ /\ collector.mode = "full"
          /\ collector' = [collector EXCEPT !.at = "writing",
                                           !.passed = study = "stage22"]
          /\ data' = [data EXCEPT !.state = "torn"]
          /\ UNCHANGED pilot
       \/ /\ collector.mode = "pilot"
          /\ PilotIsJudged(collector.rows)
          /\ \E differ \in BOOLEAN :
                collector' = [collector EXCEPT
                    !.at = "writing",
                    !.passed = PilotPasses(collector.rows, differ)]
          /\ pilot' = [pilot EXCEPT !.state = "torn"]
          /\ UNCHANGED data
    /\ UNCHANGED <<study, begun, analyst, probe>>

(* write_text is done.  After a failed pilot the script exits with an      *)
(* error, its file written.                                                *)
FileIsWritten ==
    /\ collector.at = "writing"
    /\ collector' = [collector EXCEPT !.at = "idle"]
    /\ LET file == [state |-> "whole", rows |-> collector.rows,
                    passed |-> collector.passed]
       IN  IF collector.mode = "pilot"
           THEN pilot' = file /\ UNCHANGED data
           ELSE data' = file /\ UNCHANGED pilot
    /\ UNCHANGED <<study, begun, analyst, probe>>

(* The script is killed or interrupted, or an exception ends it: an        *)
(* assertion of the audit, the warm-up, the judgement of a pilot.  Rows in *)
(* memory are lost, the files stay as they are.                            *)
CollectionStops ==
    /\ collector.at # "idle"
    /\ collector' = [collector EXCEPT !.at = "idle"]
    /\ UNCHANGED <<study, begun, analyst, pilot, data, probe>>

-----------------------------------------------------------------------------
(* Mutation of Accepted: every group is there. *)
MutGroupsOnly(rows) ==
    study # "stage18" => \A g \in 1..NumGroups :
        \E i \in Answered(rows) : GroupOf(i) = g

(* The assertion on the rows that were answered: stage 22 counts them and  *)
(* wants every group, stage 21A counts them, stage 18 takes what there is  *)
(* (and raises if that is nothing).                                        *)
Accepted(rows) ==
    /\ IF study = "stage18"
       THEN Answered(rows) # {}
       ELSE Cardinality(Answered(rows)) = FullSize
    /\ study = "stage22" => \A g \in 1..NumGroups :
            \E i \in Answered(rows) : GroupOf(i) = g

(* The rows any number of the fitted models depends on: normalisation,     *)
(* fit and shuffle are over the training split (stages 21A and 22), early  *)
(* stopping over the validation split (stage 21A).  Stage 18 takes the     *)
(* first four fifths of a permutation fixed by a seed.                     *)
LearnedFrom(rows) ==
    IF study = "stage18"
    THEN CHOOSE S \in SUBSET Answered(rows) :
            Cardinality(S) = (4 * Cardinality(Answered(rows))) \div 5
    ELSE {i \in Answered(rows) :
            \/ Split(GroupOf(i)) = "train"
            \/ study = "stage21a" /\ Split(GroupOf(i)) = "validation"}

(* The rows the models are scored on. *)
ScoredOn(rows) ==
    IF study = "stage18"
    THEN Answered(rows) \ LearnedFrom(rows)
    ELSE {i \in Answered(rows) : Split(GroupOf(i)) = "test"}

(* The analysis reads the file and accepts it.  (If the file is torn, or   *)
(* rewritten while it is read, or not accepted, the script raises and has  *)
(* changed nothing.)                                                       *)
RowsAreAnalysed ==
    /\ study # "stage23"
    /\ analyst.at = "idle"
    /\ data.state = "whole"
    /\ Accepted(data.rows)
    /\ analyst' = [at |-> "fitted",
                   result |-> [learned |-> LearnedFrom(data.rows),
                               scored |-> ScoredOn(data.rows)]]
    /\ UNCHANGED <<study, collectorVars, probe>>

ReportIsOpened ==
    /\ analyst.at = "fitted"
    /\ analyst' = [analyst EXCEPT !.at = "writing"]
    /\ probe' = [probe EXCEPT !.state = "torn"]
    /\ UNCHANGED <<study, collectorVars>>

ReportIsWritten ==
    /\ analyst.at = "writing"
    /\ analyst' = [analyst EXCEPT !.at = "idle"]
    /\ probe' = [state |-> "whole", result |-> analyst.result]
    /\ UNCHANGED <<study, collectorVars>>

AnalysisStops ==
    /\ analyst.at # "idle"
    /\ analyst' = [analyst EXCEPT !.at = "idle"]
    /\ UNCHANGED <<study, collectorVars, probe>>

-----------------------------------------------------------------------------
Collector ==
    \/ CollectionStarts \/ WarmUpIsAnswered \/ RequestEnds
    \/ FileIsOpened \/ FileIsWritten \/ CollectionStops

Analyst ==
    RowsAreAnalysed \/ ReportIsOpened \/ ReportIsWritten \/ AnalysisStops

ProbeNext == Collector \/ Analyst

ProbeSpec == ProbeInit /\ [][ProbeNext]_probeVars

-----------------------------------------------------------------------------
(* However collections fail, stop and overwrite each other's file, a probe *)
(* report of stage 21A or 22 that can be read is about all test requests   *)
(* of one complete collection, with models no number of which depends on a *)
(* test request; and a pilot that is on record as passed had every request *)
(* answered (analyze_remote_stage22_probes.py:32-47,                       *)
(* train_stage21a_probes.py:22-32,                                         *)
(* collect_remote_stage22_counterfactual.py:69-72).                        *)
RecordedFilesAreSound ==
    /\ (probe.state = "whole" /\ study # "stage18") =>
            /\ probe.result.scored = Held("test")
            /\ probe.result.learned = Held("train")
                 \cup (IF study = "stage21a" THEN Held("validation") ELSE {})
    /\ probe.result.learned \cap probe.result.scored = {}
    /\ (pilot.state = "whole" /\ pilot.passed) =>
            pilot.rows = [i \in 1..PilotSize |-> TRUE]

(* "Collection proceeds only if all six responses are safe/nonempty and    *)
(* the maximum pairwise L2 difference between first actions is greater     *)
(* than 1e-4 ... diagnosed before any 480-request run"                     *)
(* (docs/STAGE_22_COUNTERFACTUAL_INTENT_BENCHMARK.md:82-85): a full        *)
(* collection asks its first question only if a passed pilot is on record. *)
FullRunFollowsPilot ==
    (HasPilot /\ collector.mode = "full" /\ collector.rows # <<>>) =>
        pilot.state = "whole" /\ pilot.passed
=============================================================================

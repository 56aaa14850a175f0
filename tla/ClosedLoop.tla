----------------------------- MODULE ClosedLoop -----------------------------
(***************************************************************************)
(* ClosedLoopRuntime (runtime.py) with the adapter, the safety filter and  *)
(* the mock robot it drives: observe, ask the policy for a chunk, execute  *)
(* its first k actions one by one, and again, until max_execution_steps    *)
(* actions were executed; on any failure hold the robot and return.        *)
(*                                                                         *)
(* An action of a chunk is abstracted to its length and to whether its     *)
(* values are inside the limits of the filter, outside, or not finite.     *)
(* Observations are numbered in the order they are taken, and a chunk      *)
(* names the observation it was computed from.                             *)
(***************************************************************************)
EXTENDS Naturals, Sequences, FiniteSets

CONSTANTS
    MaxRuns,       \* bound: calls of run() on one runtime
    MaxSteps,      \* bound: the largest max_execution_steps
    MaxHorizon,    \* bound: the largest execution_horizon
    MaxChunk,      \* bound: the longest chunk
    ActionDim,     \* DROID_LIKE_ACTION_DIM
    OtherDim       \* some other length of an action

ASSUME LoopBoundsAssumption ==
    {MaxRuns, MaxSteps, MaxHorizon, MaxChunk} \subseteq Nat \ {0}
ASSUME DimAssumption == ActionDim # OtherDim

Dims    == {ActionDim, OtherDim}
Actions == [dim : Dims, values : {"inside", "outside", "nonfinite"}]

(* Every chunk a policy may return, empty, ragged or not finite included.  *)
Chunks == UNION {[1..n -> Actions] : n \in 0..MaxChunk}

(* Why a run held the robot. *)
Reasons == {"policy", "chunk", "action"}

VARIABLES
    config,      \* RuntimeConfig: execution_horizon, expected_action_dim
    loop,        \* where run() is
    run,         \* number of run() calls begun
    budget,      \* max_execution_steps of this run
    completed,   \* actions of this run executed
    pending,     \* actions_to_execute still to come, with their chunk's
                 \* observation and the row of the next one
    observed,    \* observations taken
    commands,    \* robot.executed_commands
    holds,       \* robot.safe_hold_reasons
    metrics,     \* RuntimeMetrics
    interrupted  \* history: runs that KeyboardInterrupt ended

loopVars == <<config, loop, run, budget, completed, pending, observed,
              commands, holds, metrics, interrupted>>

Commands == [run : 1..MaxRuns, obs : Nat, row : 1..MaxChunk,
             clipped : BOOLEAN]
Holds    == [run : 1..MaxRuns, after : Nat, reason : Reasons]

NoPending == [obs |-> 0, row |-> 1, actions |-> <<>>]

LoopTypeOK ==
    /\ config \in [horizon : 1..MaxHorizon, dim : Dims]
    /\ loop \in {"idle", "deciding", "calling", "executing"}
    /\ run \in 0..MaxRuns
    /\ budget \in 0..MaxSteps
    /\ completed \in 0..MaxSteps
    /\ pending \in [obs : Nat, row : 1..MaxChunk + 1, actions : Seq(Actions)]
    /\ observed \in Nat
    /\ commands \in Seq(Commands)
    /\ holds \in Seq(Holds)
    /\ metrics \in [requests : Nat, executed : Nat, clipped : Nat,
                    safeHolds : Nat, reason : Reasons \cup {"none"}]
    /\ interrupted \in Seq(1..MaxRuns)

LoopInit ==
    /\ config \in [horizon : 1..MaxHorizon, dim : Dims]
    /\ loop = "idle"
    /\ run = 0
    /\ budget = 0
    /\ completed = 0
    /\ pending = NoPending
    /\ observed = 0
    /\ commands = <<>>
    /\ holds = <<>>
    /\ metrics = [requests |-> 0, executed |-> 0, clipped |-> 0,
                  safeHolds |-> 0, reason |-> "none"]
    /\ interrupted = <<>>

-----------------------------------------------------------------------------
(* Mutation of Valid: only the first row is compared with the expected one. *)
MutValidFirstRow(chunk, dim) ==
    /\ chunk # <<>>
    /\ chunk[1].dim = dim
    /\ \A i \in 1..Len(chunk) : chunk[i].values # "nonfinite"

(* ActionChunk.validate: not empty, every row of the expected length and   *)
(* finite (the length of the first row is compared with the expected one,  *)
(* the others with the first).                                             *)
Valid(chunk, dim) ==
    /\ chunk # <<>>
    /\ chunk[1].dim = dim
    /\ \A i \in 1..Len(chunk) :
            chunk[i].dim = chunk[1].dim /\ chunk[i].values # "nonfinite"

(* MockDroidAdapter.to_command and DroidLikeSafetyFilter.apply raise.      *)
Rejected(action) == action.dim # ActionDim \/ action.values = "nonfinite"

(* SafetyResult.clipped: the limited command differs from the command.     *)
Clipped(action) == action.values = "outside"

(* Mutation of FailSafeHold: the robot holds, and run() does not return. *)
MutHoldGoesOn(reason, counted) ==
    /\ holds' = Append(holds, [run |-> run, after |-> Len(commands),
                               reason |-> reason])
    /\ metrics' = [counted EXCEPT !.safeHolds = @ + 1, !.reason = reason]
    /\ loop' = "deciding"
    /\ pending' = NoPending

(* _fail_safe_hold: the robot holds and run() returns. *)
FailSafeHold(reason, counted) ==
    /\ holds' = Append(holds, [run |-> run, after |-> Len(commands),
                               reason |-> reason])
    /\ metrics' = [counted EXCEPT !.safeHolds = @ + 1, !.reason = reason]
    /\ loop' = "idle"
    /\ pending' = NoPending

StartRun ==
    /\ loop = "idle"
    /\ run < MaxRuns
    /\ run' = run + 1
    /\ budget' \in 0..MaxSteps
    /\ completed' = 0
    /\ loop' = "deciding"
    /\ UNCHANGED <<config, pending, observed, commands, holds, metrics,
                   interrupted>>

(* The while condition fails: run() returns the metrics. *)
BudgetUsed ==
    /\ loop = "deciding"
    /\ completed >= budget
    /\ loop' = "idle"
    /\ UNCHANGED <<config, run, budget, completed, pending, observed,
                   commands, holds, metrics, interrupted>>

(* _request_policy: the robot is observed and the policy is called. *)
RequestPolicy ==
    /\ loop = "deciding"
    /\ completed < budget
    /\ observed' = observed + 1
    /\ loop' = "calling"
    /\ UNCHANGED <<config, run, budget, completed, pending, commands, holds,
                   metrics, interrupted>>

(* Mutations of PolicyRaises: the request is counted before infer is       *)
(* called; the exception ends run() without a hold.                        *)
MutCountsBeforeInfer ==
    /\ loop = "calling"
    /\ FailSafeHold("policy", [metrics EXCEPT !.requests = @ + 1])
    /\ UNCHANGED <<config, run, budget, completed, observed, commands,
                   interrupted>>

MutRaisesWithoutHold ==
    /\ loop = "calling"
    /\ loop' = "idle"
    /\ UNCHANGED <<config, run, budget, completed, pending, observed,
                   commands, holds, metrics, interrupted>>

(* infer raised: nothing is counted as a request. *)
PolicyRaises ==
    /\ loop = "calling"
    /\ FailSafeHold("policy", metrics)
    /\ UNCHANGED <<config, run, budget, completed, observed, commands,
                   interrupted>>

(* KeyboardInterrupt is no Exception: run() ends without a hold. *)
RunIsInterrupted ==
    /\ loop = "calling"
    /\ loop' = "idle"
    /\ pending' = NoPending
    /\ interrupted' = Append(interrupted, run)
    /\ UNCHANGED <<config, run, budget, completed, observed, commands, holds,
                   metrics>>

Least(S) == CHOOSE n \in S : \A m \in S : n <= m

(* Mutations of ActionsToExecute: one of the limits is forgotten. *)
MutIgnoresBudget(chunk)  == Least({config.horizon, Len(chunk)})
MutIgnoresHorizon(chunk) == Least({Len(chunk), budget - completed})

(* How many actions of a chunk are executed: actions_to_execute. *)
ActionsToExecute(chunk) ==
    Least({config.horizon, Len(chunk), budget - completed})

(* infer returned a chunk computed from observation o: the request is      *)
(* counted, the chunk validated and cut to the actions to execute.         *)
PolicyAnswers(o, chunk) ==
    /\ loop = "calling"
    /\ LET counted == [metrics EXCEPT !.requests = @ + 1]
       IN  \/ /\ ~Valid(chunk, config.dim)
              /\ FailSafeHold("chunk", counted)
           \/ /\ Valid(chunk, config.dim)
              /\ metrics' = counted
              /\ pending' = [obs |-> o, row |-> 1,
                             actions |-> SubSeq(chunk, 1,
                                                ActionsToExecute(chunk))]
              /\ loop' = "executing"
              /\ UNCHANGED holds
    /\ UNCHANGED <<config, run, budget, completed, observed, commands,
                   interrupted>>

(* The next action is adapted, filtered and executed; after the last one   *)
(* the loop decides again.                                                 *)
ExecuteAction ==
    /\ loop = "executing"
    /\ LET action == Head(pending.actions)
           rest == Tail(pending.actions)
       IN  /\ ~Rejected(action)
           /\ commands' = Append(commands,
                    [run |-> run, obs |-> pending.obs, row |-> pending.row,
                     clipped |-> Clipped(action)])
           /\ metrics' = [metrics EXCEPT
                    !.executed = @ + 1,
                    !.clipped = @ + IF Clipped(action) THEN 1 ELSE 0]
           /\ completed' = completed + 1
           /\ IF rest = <<>>
              THEN loop' = "deciding" /\ pending' = NoPending
              ELSE loop' = loop /\ pending' = [pending EXCEPT
                                    !.row = @ + 1, !.actions = rest]
    /\ UNCHANGED <<config, run, budget, observed, holds, interrupted>>

ActionRaises ==
    /\ loop = "executing"
    /\ Rejected(Head(pending.actions))
    /\ FailSafeHold("action", metrics)
    /\ UNCHANGED <<config, run, budget, completed, observed, commands,
                   interrupted>>

(* The steps run() takes without the policy. *)
LoopAlone == BudgetUsed \/ ExecuteAction \/ ActionRaises

(* The policy as run() sees it: it answers about the last observation or   *)
(* raises.                                                                 *)
Policy ==
    \/ PolicyRaises
    \/ RunIsInterrupted
    \/ \E chunk \in Chunks : PolicyAnswers(observed, chunk)

LoopNext == StartRun \/ RequestPolicy \/ LoopAlone \/ Policy

LoopSpec == LoopInit /\ [][LoopNext]_loopVars

-----------------------------------------------------------------------------
(* Only actions of the chunk of the newest observation are executed: its   *)
(* rows in order from the first, no row twice, and never more than the     *)
(* execution horizon before the robot is observed again                    *)
(* (runtime.py:58-78).                                                     *)
RowsOfLatestChunkInOrder ==
    \A i \in 1..Len(commands) :
        /\ commands[i].row <= config.horizon
        /\ IF i > 1 /\ commands[i].obs = commands[i-1].obs
           THEN commands[i].row = commands[i-1].row + 1
           ELSE commands[i].row = 1
        /\ i > 1 => commands[i].obs >= commands[i-1].obs

(* A run that held the robot sends it no further command, and holds it     *)
(* once; whatever was sent before the hold stays counted (runtime.py:81).  *)
HoldIsFinal ==
    \A h \in 1..Len(holds) :
        /\ \A i \in 1..Len(commands) :
                commands[i].run = holds[h].run => i <= holds[h].after
        /\ \A k \in 1..Len(holds) : holds[k].run = holds[h].run => k = h

(* A run that returned before its budget of actions was used up left the   *)
(* robot holding, unless it was interrupted (runtime.py:62-63, 73-74).     *)
UnfinishedRunHolds ==
    (loop = "idle" /\ completed < budget)
        => \/ \E h \in 1..Len(holds) : holds[h].run = run
           \/ \E i \in 1..Len(interrupted) : interrupted[i] = run

(* The metrics of the runtime agree with what the robot received and with  *)
(* the requests made, over all runs: an action the robot executed is       *)
(* counted, and every observation taken is a request counted, a request    *)
(* that raised, one that was interrupted or the one in progress            *)
(* (runtime.py:75-99).                                                     *)
MetricsTellTheRobot ==
    /\ metrics.executed = Len(commands)
    /\ metrics.clipped = Cardinality({i \in 1..Len(commands) :
                                            commands[i].clipped})
    /\ metrics.safeHolds = Len(holds)
    /\ metrics.requests
          + Cardinality({h \in 1..Len(holds) : holds[h].reason = "policy"})
          + Len(interrupted)
          + (IF loop = "calling" THEN 1 ELSE 0) = observed

(* Validating the whole chunk before its first action pays off: once one   *)
(* action of a chunk was executed the next ones are not rejected, so no    *)
(* run executes half a chunk and then holds; and with the action length of *)
(* the embodiment no validated action is rejected at all                   *)
(* (contracts.py:46-58, adapters.py:27, safety.py:26).                     *)
ValidatedChunkIsExecutable ==
    /\ (loop = "executing" /\ pending.row > 1)
            => ~Rejected(Head(pending.actions))
    /\ config.dim = ActionDim =>
            \A h \in 1..Len(holds) : holds[h].reason # "action"

Horizon == INSTANCE RecedingHorizon WITH
    horizon <- config.horizon,
    mode    <- CASE loop = "idle" -> "resting"
                 [] loop = "calling" -> "asking"
                 [] OTHER -> "acting",
    left    <- Len(pending.actions),
    budget  <- IF loop = "idle" THEN 0 ELSE budget - completed

(* The runtime keeps the promise of RecedingHorizon. *)
ImplementsRecedingHorizon == Horizon!Spec
=============================================================================

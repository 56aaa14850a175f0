-------------------------- MODULE ClosedLoopProofs --------------------------
(***************************************************************************)
(* Proofs about ClosedLoop for every number of runs, every budget, every   *)
(* horizon and every length of chunk.                                      *)
(*                                                                         *)
(* What the loop owes to itself is proved of a loop whose policy may       *)
(* answer about any observation, a stale one included (DisciplineInv); to  *)
(* it LoopInv adds what the loop owes to a policy that answers about the   *)
(* last one.                                                               *)
(***************************************************************************)
EXTENDS ClosedLoop, FiniteSetTheorems, TLAPS

(* The loop over a policy that may answer about any observation. *)
AnswersAboutAny == \E o \in Nat, chunk \in Chunks : PolicyAnswers(o, chunk)

AnyPolicyNext == LoopNext \/ AnswersAboutAny

AnyPolicySpec == LoopInit /\ [][AnyPolicyNext]_loopVars

-----------------------------------------------------------------------------
(* What is still to be executed: part of a validated chunk, within the     *)
(* budget and within the horizon.                                          *)
PendingIsSound ==
    IF loop = "executing"
    THEN /\ pending.actions # <<>>
         /\ completed + Len(pending.actions) <= budget
         /\ pending.row + Len(pending.actions) <= config.horizon + 1
         /\ pending.row + Len(pending.actions) <= MaxChunk + 1
         /\ \A i \in 1..Len(pending.actions) :
                /\ pending.actions[i].dim = config.dim
                /\ pending.actions[i].values # "nonfinite"
         /\ pending.row > 1 => config.dim = ActionDim
    ELSE pending = NoPending

(* The holds so far, and none yet in the run that is going on. *)
HoldsUpToNow ==
    /\ completed <= budget
    /\ loop = "calling" => completed < budget
    /\ \A h \in 1..Len(holds) :
            holds[h].run <= run /\ holds[h].after <= Len(commands)
    /\ loop # "idle" =>
            run > 0 /\ \A h \in 1..Len(holds) : holds[h].run < run

(* Whatever observation an answer is about, its rows reach the robot from  *)
(* the first one on, in order, within one run and within the horizon.      *)
RowsOfOneAnswer ==
    \A i \in 1..Len(commands) :
        /\ commands[i].row <= config.horizon
        /\ commands[i].row > 1 =>
                /\ i > 1
                /\ commands[i-1].row = commands[i].row - 1
                /\ commands[i-1].obs = commands[i].obs
                /\ commands[i-1].run = commands[i].run

(* The last command is the row before the next one. *)
RowsUpToNow ==
    (loop = "executing" /\ pending.row > 1)
        => /\ commands # <<>>
           /\ commands[Len(commands)].row = pending.row - 1
           /\ commands[Len(commands)].obs = pending.obs
           /\ commands[Len(commands)].run = run

DisciplineInv ==
    /\ LoopTypeOK
    /\ PendingIsSound
    /\ HoldsUpToNow
    /\ HoldIsFinal
    /\ RowsOfOneAnswer
    /\ RowsUpToNow

(* Where the commands sent so far stand with respect to the next one, if   *)
(* the policy answers about the last observation.                          *)
CommandsUpToNow ==
    /\ loop = "executing" => pending.obs = observed
    /\ \A i \in 1..Len(commands) : commands[i].obs <= observed
    /\ (loop = "calling" \/ (loop = "executing" /\ pending.row = 1))
            => \A i \in 1..Len(commands) : commands[i].obs < observed

LoopInv ==
    /\ DisciplineInv
    /\ CommandsUpToNow
    /\ RowsOfLatestChunkInOrder

MetricsSet == [requests : Nat, executed : Nat, clipped : Nat,
               safeHolds : Nat, reason : Reasons \cup {"none"}]

-----------------------------------------------------------------------------
LEMMA LoopBounds ==
  /\ MaxRuns \in Nat /\ MaxRuns > 0
  /\ MaxSteps \in Nat /\ MaxSteps > 0
  /\ MaxHorizon \in Nat /\ MaxHorizon > 0
  /\ MaxChunk \in Nat /\ MaxChunk > 0
  BY LoopBoundsAssumption

LEMMA LoopNumbers ==
  ASSUME LoopTypeOK
  PROVE  /\ run \in Nat /\ budget \in Nat /\ completed \in Nat
         /\ observed \in Nat
         /\ config.horizon \in Nat
         /\ pending.row \in Nat /\ pending.obs \in Nat
         /\ pending.actions \in Seq(Actions)
         /\ Len(commands) \in Nat /\ Len(holds) \in Nat
         /\ Len(interrupted) \in Nat
         /\ metrics \in MetricsSet
  BY LoopBounds DEF LoopTypeOK, MetricsSet

LEMMA NumbersOfRecords ==
  ASSUME LoopTypeOK
  PROVE  /\ \A i \in 1..Len(commands) : /\ commands[i].run \in Nat
                                       /\ commands[i].obs \in Nat
                                       /\ commands[i].row \in Nat
         /\ \A h \in 1..Len(holds) : /\ holds[h].run \in Nat
                                    /\ holds[h].after \in Nat
<1>1. /\ \A i \in 1..Len(commands) : commands[i] \in Commands
      /\ \A h \in 1..Len(holds) : holds[h] \in Holds
  BY DEF LoopTypeOK
<1> QED
  BY <1>1 DEF Commands, Holds

LEMMA LoopInitInv == LoopInit => LoopInv
<1> SUFFICES ASSUME LoopInit
             PROVE  LoopInv
  OBVIOUS
<1>1. LoopTypeOK
  BY LoopBounds DEF LoopInit, LoopTypeOK, NoPending, Commands, Holds
<1>2. DisciplineInv
  BY <1>1
  DEF LoopInit, DisciplineInv, PendingIsSound, HoldsUpToNow, HoldIsFinal,
      RowsOfOneAnswer, RowsUpToNow
<1> QED
  BY <1>2 DEF LoopInit, LoopInv, CommandsUpToNow, RowsOfLatestChunkInOrder

-----------------------------------------------------------------------------
(* A hold ends the run without disturbing what was executed. *)
LEMMA FailSafeHoldInv ==
  ASSUME DisciplineInv, loop # "idle", NEW reason \in Reasons,
         NEW counted \in MetricsSet,
         FailSafeHold(reason, counted),
         UNCHANGED <<config, run, budget, completed, observed, commands,
                     interrupted>>
  PROVE  /\ DisciplineInv'
         /\ holds' # <<>>
         /\ holds'[Len(holds')].run = run /\ holds'[Len(holds')].reason = reason
<1> DEFINE hold == [run |-> run, after |-> Len(commands), reason |-> reason]
<1>1. run \in 1..MaxRuns /\ commands \in Seq(Commands) /\ holds \in Seq(Holds)
  BY LoopBounds DEF DisciplineInv, LoopTypeOK, HoldsUpToNow
<1>2. hold \in Holds
  BY <1>1 DEF Holds
<1>3. /\ holds' = Append(holds, hold)
      /\ holds' \in Seq(Holds)
      /\ Len(holds') = Len(holds) + 1
      /\ \A h \in 1..Len(holds) : holds'[h] = holds[h]
      /\ holds'[Len(holds) + 1] = hold
  BY <1>1, <1>2 DEF FailSafeHold
<1>6. hold.run = run /\ hold.after = Len(commands) /\ hold.reason = reason
  OBVIOUS
<1> HIDE DEF hold
<1>4. LoopTypeOK'
  <2>1. metrics' \in MetricsSet
    <3>1. [counted EXCEPT !.safeHolds = @ + 1] \in MetricsSet
      BY DEF MetricsSet
    <3> QED
      BY <3>1 DEF FailSafeHold, MetricsSet
  <2>2. pending' \in [obs : Nat, row : 1..MaxChunk + 1, actions : Seq(Actions)]
    BY LoopBounds DEF FailSafeHold, NoPending
  <2> QED
    BY <1>3, <2>1, <2>2
    DEF DisciplineInv, LoopTypeOK, FailSafeHold, MetricsSet
<1>5. PendingIsSound' /\ RowsUpToNow'
  BY DEF FailSafeHold, PendingIsSound, RowsUpToNow, NoPending
<1>7. \A h \in 1..Len(holds') : h = Len(holds) + 1 \/ h \in 1..Len(holds)
  BY <1>1, <1>3
<1>8. HoldsUpToNow'
  BY <1>1, <1>3, <1>6, <1>7 DEF DisciplineInv, HoldsUpToNow, FailSafeHold
<1>9. HoldIsFinal'
  <2>1. ASSUME NEW h \in 1..Len(holds'), NEW i \in 1..Len(commands),
               commands[i].run = holds'[h].run
        PROVE  i <= holds'[h].after
    BY <1>1, <1>3, <1>6, <1>7, <2>1 DEF DisciplineInv, HoldIsFinal
  <2>2. ASSUME NEW h \in 1..Len(holds'), NEW k \in 1..Len(holds'),
               holds'[k].run = holds'[h].run
        PROVE  k = h
    <3>1. \A n \in 1..Len(holds) : holds[n] \in Holds /\ holds[n].run < run
      BY <1>1 DEF DisciplineInv, HoldsUpToNow
    <3>2. \A n \in 1..Len(holds) : holds[n].run < run /\ holds[n].run \in Nat
      BY <3>1 DEF Holds
    <3> QED
      BY <1>1, <1>3, <1>6, <1>7, <2>2, <3>2 DEF DisciplineInv, HoldIsFinal
  <2> QED
    BY <2>1, <2>2 DEF HoldIsFinal
<1>10. RowsOfOneAnswer'
  BY DEF DisciplineInv, RowsOfOneAnswer
<1>11. holds' # <<>> /\ holds'[Len(holds')] = hold
  BY <1>1, <1>3
<1> QED
  BY <1>4, <1>5, <1>6, <1>8, <1>9, <1>10, <1>11 DEF DisciplineInv

LEMMA ActionsToExecuteBounds ==
  ASSUME LoopTypeOK, NEW chunk \in Chunks, chunk # <<>>, completed < budget
  PROVE  /\ ActionsToExecute(chunk) \in 1..Len(chunk)
         /\ ActionsToExecute(chunk) <= config.horizon
         /\ ActionsToExecute(chunk) <= budget - completed
<1>1. Len(chunk) \in Nat /\ Len(chunk) > 0
  BY LoopBounds DEF Chunks
<1>2. config.horizon \in Nat \ {0} /\ budget - completed \in Nat \ {0}
  BY LoopBounds DEF LoopTypeOK
<1>3. \E n \in {config.horizon, Len(chunk), budget - completed} :
        \A m \in {config.horizon, Len(chunk), budget - completed} : n <= m
  BY <1>1, <1>2
<1> QED
  BY <1>1, <1>2, <1>3 DEF ActionsToExecute, Least

LEMMA StartRunInv == ASSUME DisciplineInv, StartRun PROVE DisciplineInv'
<1>1. LoopTypeOK'
  BY LoopBounds DEF DisciplineInv, LoopTypeOK, StartRun
<1>2. PendingIsSound' /\ RowsUpToNow'
  BY DEF DisciplineInv, PendingIsSound, RowsUpToNow, StartRun
<1>4. HoldsUpToNow'
  <2>1. /\ run' = run + 1 /\ run \in Nat /\ UNCHANGED <<holds, commands>>
        /\ loop' = "deciding" /\ completed' = 0 /\ budget' \in 0..MaxSteps
    BY LoopNumbers DEF DisciplineInv, StartRun
  <2>2. \A h \in 1..Len(holds) :
            /\ holds[h].run < run + 1 /\ holds[h].run <= run + 1
            /\ holds[h].after <= Len(commands)
    BY <2>1, NumbersOfRecords DEF DisciplineInv, HoldsUpToNow
  <2>3. 0 <= budget' /\ run + 1 > 0
    BY <2>1, LoopBounds
  <2> QED
    BY <2>1, <2>2, <2>3 DEF HoldsUpToNow
<1> QED
  BY <1>1, <1>2, <1>4
  DEF DisciplineInv, StartRun, RowsOfOneAnswer, HoldIsFinal

LEMMA BudgetUsedInv == ASSUME DisciplineInv, BudgetUsed PROVE DisciplineInv'
<1>1. LoopTypeOK'
  BY DEF DisciplineInv, LoopTypeOK, BudgetUsed
<1> QED
  BY <1>1
  DEF DisciplineInv, BudgetUsed, PendingIsSound, HoldsUpToNow,
      RowsOfOneAnswer, RowsUpToNow, HoldIsFinal

LEMMA RequestPolicyInv ==
  ASSUME DisciplineInv, RequestPolicy
  PROVE  DisciplineInv'
<1>1. LoopTypeOK'
  BY DEF DisciplineInv, LoopTypeOK, RequestPolicy
<1>2. PendingIsSound' /\ HoldsUpToNow' /\ RowsUpToNow'
  BY DEF DisciplineInv, PendingIsSound, HoldsUpToNow, RowsUpToNow,
         RequestPolicy
<1> QED
  BY <1>1, <1>2
  DEF DisciplineInv, RequestPolicy, RowsOfOneAnswer, HoldIsFinal

LEMMA RunIsInterruptedInv ==
  ASSUME DisciplineInv, RunIsInterrupted
  PROVE  DisciplineInv'
<1>1. LoopTypeOK'
  BY LoopBounds
  DEF DisciplineInv, LoopTypeOK, RunIsInterrupted, NoPending, HoldsUpToNow
<1> QED
  BY <1>1
  DEF DisciplineInv, RunIsInterrupted, PendingIsSound, HoldsUpToNow,
      RowsOfOneAnswer, RowsUpToNow, HoldIsFinal

(* What an accepted answer leaves to be executed. *)
LEMMA AcceptedChunk ==
  ASSUME LoopTypeOK, completed < budget, NEW chunk \in Chunks,
         Valid(chunk, config.dim)
  PROVE  LET part == SubSeq(chunk, 1, ActionsToExecute(chunk))
         IN  /\ part \in Seq(Actions)
             /\ Len(part) = ActionsToExecute(chunk)
             /\ Len(part) \in 1..MaxChunk
             /\ Len(part) <= config.horizon
             /\ Len(part) <= budget - completed
             /\ \A i \in 1..Len(part) :
                    part[i].dim = config.dim /\ part[i].values # "nonfinite"
<1> DEFINE n == ActionsToExecute(chunk)
<1>1. /\ chunk \in Seq(Actions) /\ Len(chunk) \in 0..MaxChunk
      /\ \A i \in 1..Len(chunk) :
            chunk[i].dim = config.dim /\ chunk[i].values # "nonfinite"
  BY LoopBounds DEF Chunks, Valid
<1>2. /\ n \in 1..Len(chunk)
      /\ n <= config.horizon
      /\ n <= budget - completed
  BY ActionsToExecuteBounds DEF Valid
<1> HIDE DEF n
<1>3. /\ SubSeq(chunk, 1, n) \in Seq(Actions)
      /\ Len(SubSeq(chunk, 1, n)) = n
      /\ \A i \in 1..n : SubSeq(chunk, 1, n)[i] = chunk[i]
  BY <1>1, <1>2
<1> QED
  BY <1>1, <1>2, <1>3, LoopBounds DEF n

LEMMA PolicyAnswersInv ==
  ASSUME DisciplineInv, NEW o \in Nat, NEW chunk \in Chunks,
         PolicyAnswers(o, chunk)
  PROVE  DisciplineInv'
<1> DEFINE counted == [metrics EXCEPT !.requests = @ + 1]
           part == SubSeq(chunk, 1, ActionsToExecute(chunk))
<1>1. counted \in MetricsSet
  <2>1. metrics \in MetricsSet
    BY LoopNumbers DEF DisciplineInv
  <2> QED
    BY <2>1 DEF MetricsSet
<1>2. CASE FailSafeHold("chunk", counted)
  <2>1. "chunk" \in Reasons /\ loop # "idle"
    BY DEF Reasons, PolicyAnswers
  <2> QED
    BY <1>1, <1>2, <2>1, FailSafeHoldInv DEF PolicyAnswers
<1>3. CASE /\ Valid(chunk, config.dim)
           /\ metrics' = counted
           /\ pending' = [obs |-> o, row |-> 1, actions |-> part]
           /\ loop' = "executing"
           /\ UNCHANGED holds
  <2>1. /\ part \in Seq(Actions)
        /\ Len(part) \in 1..MaxChunk
        /\ Len(part) <= config.horizon
        /\ Len(part) <= budget - completed
        /\ \A i \in 1..Len(part) :
               part[i].dim = config.dim /\ part[i].values # "nonfinite"
    BY <1>3, AcceptedChunk DEF DisciplineInv, HoldsUpToNow, PolicyAnswers
  <2>2. pending'.row = 1 /\ pending'.actions = part
    BY <1>3
  <2> HIDE DEF part, counted
  <2>3. LoopTypeOK'
    BY <1>1, <1>3, <2>1, <2>2, LoopBounds
    DEF DisciplineInv, LoopTypeOK, PolicyAnswers, MetricsSet
  <2>4. PendingIsSound'
    <3>1. part # <<>>
      BY <2>1
    <3>2. completed + Len(part) <= budget
      BY <2>1 DEF DisciplineInv, LoopTypeOK
    <3>3. 1 + Len(part) <= config.horizon + 1 /\ 1 + Len(part) <= MaxChunk + 1
      BY <2>1, LoopBounds DEF DisciplineInv, LoopTypeOK
    <3> QED
      BY <1>3, <2>1, <2>2, <3>1, <3>2, <3>3
      DEF PendingIsSound, PolicyAnswers
  <2>5. RowsUpToNow' /\ HoldsUpToNow'
    BY <1>3, <2>2 DEF DisciplineInv, RowsUpToNow, HoldsUpToNow, PolicyAnswers
  <2> QED
    BY <1>3, <2>3, <2>4, <2>5
    DEF DisciplineInv, RowsOfOneAnswer, HoldIsFinal, PolicyAnswers
<1> QED
  BY <1>2, <1>3 DEF PolicyAnswers

(* What an execution appends, and what it leaves to be executed. *)
LEMMA ExecutedCommand ==
  ASSUME DisciplineInv, ExecuteAction
  PROVE  \E command \in Commands :
            /\ commands' = Append(commands, command)
            /\ commands' \in Seq(Commands)
            /\ Len(commands') = Len(commands) + 1
            /\ \A i \in 1..Len(commands) : commands'[i] = commands[i]
            /\ commands'[Len(commands) + 1] = command
            /\ \A i \in 1..Len(commands') :
                    i = Len(commands) + 1 \/ i \in 1..Len(commands)
            /\ command.run = run
            /\ command.obs = pending.obs
            /\ command.row = pending.row
            /\ pending.row \in 1..MaxChunk
            /\ pending.row <= config.horizon
<1> DEFINE action == Head(pending.actions)
           command == [run |-> run, obs |-> pending.obs, row |-> pending.row,
                       clipped |-> Clipped(action)]
<1>1. /\ loop = "executing"
      /\ LoopTypeOK /\ PendingIsSound /\ HoldsUpToNow
      /\ pending.actions \in Seq(Actions) /\ pending.actions # <<>>
      /\ Len(commands) \in Nat
  BY LoopNumbers DEF DisciplineInv, PendingIsSound, ExecuteAction
<1>2. /\ pending.row \in 1..MaxChunk
      /\ pending.row <= config.horizon
      /\ run \in 1..MaxRuns
  <2>1. Len(pending.actions) \in Nat \ {0}
    BY <1>1
  <2> QED
    BY <1>1, <2>1, LoopBounds DEF LoopTypeOK, PendingIsSound, HoldsUpToNow
<1>3. command \in Commands
  BY <1>1, <1>2, LoopBounds DEF Commands, Clipped, LoopTypeOK
<1>4. /\ command.run = run
      /\ command.obs = pending.obs
      /\ command.row = pending.row
  OBVIOUS
<1>5. commands' = Append(commands, command) /\ commands \in Seq(Commands)
  BY <1>1 DEF ExecuteAction, LoopTypeOK
<1> HIDE DEF command
<1>6. /\ commands' \in Seq(Commands)
      /\ Len(commands') = Len(commands) + 1
      /\ \A i \in 1..Len(commands) : commands'[i] = commands[i]
      /\ commands'[Len(commands) + 1] = command
  BY <1>3, <1>5
<1>7. \A i \in 1..Len(commands') :
            i = Len(commands) + 1 \/ i \in 1..Len(commands)
  BY <1>1, <1>6
<1> QED
  BY <1>2, <1>3, <1>4, <1>5, <1>6, <1>7

LEMMA ExecuteActionInv == ASSUME DisciplineInv, ExecuteAction PROVE DisciplineInv'
<1> DEFINE action == Head(pending.actions)
           rest == Tail(pending.actions)
<1>0. /\ loop = "executing"
      /\ LoopTypeOK /\ PendingIsSound /\ HoldsUpToNow
      /\ pending.actions \in Seq(Actions) /\ pending.actions # <<>>
      /\ Len(commands) \in Nat /\ Len(holds) \in Nat
      /\ UNCHANGED <<config, run, budget, observed, holds, interrupted>>
  BY LoopNumbers DEF DisciplineInv, PendingIsSound, ExecuteAction
<1>1. /\ pending.row + Len(pending.actions) <= MaxChunk + 1
      /\ pending.row + Len(pending.actions) <= config.horizon + 1
      /\ config.horizon \in Nat
      /\ completed + Len(pending.actions) <= budget
      /\ Len(pending.actions) \in Nat \ {0}
  BY <1>0, LoopNumbers DEF PendingIsSound
<1>2. PICK command \in Commands :
        /\ commands' = Append(commands, command)
        /\ commands' \in Seq(Commands)
        /\ Len(commands') = Len(commands) + 1
        /\ \A i \in 1..Len(commands) : commands'[i] = commands[i]
        /\ commands'[Len(commands) + 1] = command
        /\ \A i \in 1..Len(commands') :
                i = Len(commands) + 1 \/ i \in 1..Len(commands)
        /\ command.run = run
        /\ command.obs = pending.obs
        /\ command.row = pending.row
        /\ pending.row \in 1..MaxChunk
        /\ pending.row <= config.horizon
  BY ExecutedCommand
<1>3. config.dim = ActionDim
  <2>1. action = pending.actions[1] /\ 1 \in 1..Len(pending.actions)
    BY <1>0
  <2> QED
    BY <1>0, <2>1 DEF PendingIsSound, ExecuteAction, Rejected
<1>5. /\ rest \in Seq(Actions)
      /\ Len(rest) = Len(pending.actions) - 1
      /\ \A i \in 1..Len(rest) : rest[i] = pending.actions[i + 1]
      /\ \A i \in 1..Len(rest) : i + 1 \in 1..Len(pending.actions)
  BY <1>0
<1>6. metrics' \in MetricsSet
  <2>0. metrics \in MetricsSet
    BY <1>0, LoopNumbers
  <2>1. metrics.clipped + (IF Clipped(action) THEN 1 ELSE 0) \in Nat
    BY <2>0 DEF MetricsSet
  <2>2. metrics.executed + 1 \in Nat
    BY <2>0 DEF MetricsSet
  <2> QED
    BY <2>0, <2>1, <2>2 DEF ExecuteAction, MetricsSet
<1>7. /\ rest = <<>> => loop' = "deciding" /\ pending' = NoPending
      /\ rest # <<>> => /\ loop' = "executing"
                        /\ pending' = [obs |-> pending.obs,
                                       row |-> pending.row + 1,
                                       actions |-> rest]
  BY <1>0 DEF ExecuteAction, LoopTypeOK
<1>8. completed' = completed + 1 /\ completed' <= budget
  BY <1>0, <1>1 DEF ExecuteAction, LoopTypeOK
<1> HIDE DEF rest, action
<1>9. LoopTypeOK'
  <2>1. completed' \in 0..MaxSteps
    BY <1>0, <1>8, LoopBounds DEF LoopTypeOK
  <2>2. pending' \in [obs : Nat, row : 1..MaxChunk + 1, actions : Seq(Actions)]
    <3>1. pending.row + 1 \in 1..MaxChunk + 1 /\ 1 \in 1..MaxChunk + 1
      BY <1>2, LoopBounds
    <3>2. pending.obs \in Nat
      BY <1>0 DEF LoopTypeOK
    <3> QED
      BY <1>5, <1>7, <3>1, <3>2 DEF NoPending
  <2>3. loop' \in {"idle", "deciding", "calling", "executing"}
    BY <1>7
  <2> QED
    BY <1>0, <1>2, <1>6, <2>1, <2>2, <2>3 DEF LoopTypeOK, MetricsSet
<1>10. PendingIsSound'
  <2>1. CASE rest = <<>>
    BY <1>7, <2>1 DEF PendingIsSound, NoPending
  <2>2. CASE rest # <<>>
    <3>1. /\ pending'.row = pending.row + 1
          /\ pending'.actions = rest
          /\ loop' = "executing"
      BY <1>7, <2>2
    <3>2. /\ completed + 1 + Len(rest) <= budget
          /\ pending.row + 1 + Len(rest) <= config.horizon + 1
          /\ pending.row + 1 + Len(rest) <= MaxChunk + 1
      <4>1. /\ Len(rest) \in Nat /\ Len(pending.actions) \in Nat
            /\ pending.row \in Nat /\ completed \in Nat /\ budget \in Nat
        BY <1>0, <1>5, LoopNumbers
      <4>2. Len(pending.actions) = Len(rest) + 1
        BY <1>5, <4>1
      <4> QED
        BY <1>1, <4>1, <4>2, LoopBounds
    <3>3. \A i \in 1..Len(rest) :
                rest[i].dim = config.dim /\ rest[i].values # "nonfinite"
      BY <1>0, <1>5 DEF PendingIsSound
    <3> QED
      BY <1>0, <1>1, <1>3, <1>8, <2>2, <3>1, <3>2, <3>3 DEF PendingIsSound
  <2> QED
    BY <2>1, <2>2
<1>12. RowsUpToNow'
  <2>1. loop' = "executing" =>
            pending'.row = pending.row + 1 /\ pending'.obs = pending.obs
    BY <1>7
  <2>2. /\ commands' # <<>>
        /\ commands'[Len(commands')] = commands'[Len(commands) + 1]
    BY <1>0, <1>2
  <2>3. (pending.row + 1) - 1 = pending.row
    BY <1>2, LoopBounds
  <2> QED
    BY <1>0, <1>2, <2>1, <2>2, <2>3 DEF RowsUpToNow
<1>13. HoldsUpToNow'
  <2>1. \A h \in 1..Len(holds) :
            /\ holds[h].run < run /\ holds[h].run <= run
            /\ holds[h].after <= Len(commands) + 1
    BY <1>0, NumbersOfRecords DEF LoopTypeOK, HoldsUpToNow
  <2>2. loop' # "calling"
    BY <1>7
  <2> QED
    BY <1>0, <1>1, <1>2, <1>8, <2>1, <2>2 DEF HoldsUpToNow
<1>14. RowsOfOneAnswer'
  <2>1. \A i \in 1..Len(commands) : i > 1 => i - 1 \in 1..Len(commands)
    BY <1>0
  <2>2. ASSUME NEW i \in 1..Len(commands)
        PROVE  /\ commands'[i].row <= config.horizon
               /\ commands'[i].row > 1 =>
                    /\ i > 1
                    /\ commands'[i-1].row = commands'[i].row - 1
                    /\ commands'[i-1].obs = commands'[i].obs
                    /\ commands'[i-1].run = commands'[i].run
    BY <1>2, <2>1 DEF DisciplineInv, RowsOfOneAnswer
  <2>3. LET i == Len(commands) + 1
        IN  /\ commands'[i].row <= config.horizon
            /\ commands'[i].row > 1 =>
                    /\ i > 1
                    /\ commands'[i-1].row = commands'[i].row - 1
                    /\ commands'[i-1].obs = commands'[i].obs
                    /\ commands'[i-1].run = commands'[i].run
    <3>1. CASE pending.row > 1
      <4>1. /\ Len(commands) \in 1..Len(commands)
            /\ commands'[Len(commands)].row = pending.row - 1
            /\ commands'[Len(commands)].obs = pending.obs
            /\ commands'[Len(commands)].run = run
        BY <1>0, <1>2, <3>1 DEF DisciplineInv, RowsUpToNow, LoopTypeOK
      <4>2. /\ (Len(commands) + 1) - 1 = Len(commands)
            /\ Len(commands) + 1 > 1
        BY <1>0, <4>1
      <4> QED
        BY <1>2, <4>1, <4>2
    <3> QED
      BY <1>2, <3>1
  <2> QED
    BY <1>0, <1>2, <2>2, <2>3 DEF RowsOfOneAnswer
<1>15. HoldIsFinal'
  <2>1. \A h \in 1..Len(holds) : holds[h].run < run /\ holds[h].run \in Nat
    BY <1>0, NumbersOfRecords DEF HoldsUpToNow
  <2>2. \A h \in 1..Len(holds), i \in 1..Len(commands') :
            commands'[i].run = holds[h].run => i <= holds[h].after
    BY <1>0, <1>2, <2>1, LoopNumbers DEF DisciplineInv, HoldIsFinal
  <2> QED
    BY <1>0, <2>2 DEF DisciplineInv, HoldIsFinal
<1> QED
  BY <1>9, <1>10, <1>12, <1>13, <1>14, <1>15 DEF DisciplineInv

(* The steps of the loop, with the answers about the last observation      *)
(* among the answers about any.                                            *)
LEMMA AnyPolicySteps ==
  ASSUME DisciplineInv, AnyPolicyNext
  PROVE  \/ StartRun \/ RequestPolicy \/ BudgetUsed
         \/ ExecuteAction \/ ActionRaises
         \/ PolicyRaises \/ RunIsInterrupted \/ AnswersAboutAny
<1>1. observed \in Nat
  BY LoopNumbers DEF DisciplineInv
<1> QED
  BY <1>1 DEF AnyPolicyNext, LoopNext, LoopAlone, Policy, AnswersAboutAny

LEMMA DisciplineNextInv ==
  ASSUME DisciplineInv, AnyPolicyNext
  PROVE  DisciplineInv'
<1>1. metrics \in MetricsSet
  BY LoopNumbers DEF DisciplineInv
<1>2. CASE PolicyRaises
  BY <1>1, <1>2, FailSafeHoldInv DEF PolicyRaises, Reasons
<1>3. CASE ActionRaises
  BY <1>1, <1>3, FailSafeHoldInv DEF ActionRaises, Reasons
<1>4. CASE AnswersAboutAny
  BY <1>4, PolicyAnswersInv DEF AnswersAboutAny
<1> QED
  BY <1>2, <1>3, <1>4, AnyPolicySteps, StartRunInv, BudgetUsedInv,
     RequestPolicyInv, RunIsInterruptedInv, ExecuteActionInv

LEMMA DisciplineStep ==
  ASSUME DisciplineInv, [AnyPolicyNext]_loopVars
  PROVE  DisciplineInv'
<1>1. CASE UNCHANGED loopVars
  BY <1>1
  DEF loopVars, DisciplineInv, LoopTypeOK, PendingIsSound, HoldsUpToNow,
      HoldIsFinal, RowsOfOneAnswer, RowsUpToNow
<1> QED
  BY <1>1, DisciplineNextInv

-----------------------------------------------------------------------------
(* With a policy that answers about the last observation, what is executed *)
(* is of the newest chunk.                                                 *)
LEMMA ExecuteLatestInv ==
  ASSUME LoopInv, ExecuteAction
  PROVE  CommandsUpToNow' /\ RowsOfLatestChunkInOrder'
<1>0. /\ DisciplineInv /\ LoopTypeOK
      /\ loop = "executing" /\ pending.obs = observed
      /\ UNCHANGED <<config, observed>>
      /\ Len(commands) \in Nat /\ observed \in Nat /\ pending.row \in Nat
  BY LoopNumbers
  DEF LoopInv, DisciplineInv, CommandsUpToNow, ExecuteAction
<1>2. PICK command \in Commands :
        /\ commands' = Append(commands, command)
        /\ commands' \in Seq(Commands)
        /\ Len(commands') = Len(commands) + 1
        /\ \A i \in 1..Len(commands) : commands'[i] = commands[i]
        /\ commands'[Len(commands) + 1] = command
        /\ \A i \in 1..Len(commands') :
                i = Len(commands) + 1 \/ i \in 1..Len(commands)
        /\ command.run = run
        /\ command.obs = pending.obs
        /\ command.row = pending.row
        /\ pending.row \in 1..MaxChunk
        /\ pending.row <= config.horizon
  BY <1>0, ExecutedCommand
<1>3. /\ loop' \in {"deciding", "executing"}
      /\ loop' = "executing" =>
            pending'.obs = observed /\ pending'.row = pending.row + 1
  BY <1>0 DEF ExecuteAction, LoopTypeOK
<1>4. CommandsUpToNow'
  <2>1. \A i \in 1..Len(commands') : commands'[i].obs <= observed
    BY <1>0, <1>2 DEF LoopInv, CommandsUpToNow
  <2>2. loop' = "executing" => pending'.row # 1
    BY <1>2, <1>3, LoopBounds
  <2> QED
    BY <1>0, <1>3, <2>1, <2>2 DEF CommandsUpToNow
<1>5. RowsOfLatestChunkInOrder'
  <2>1. \A i \in 1..Len(commands) : i > 1 => i - 1 \in 1..Len(commands)
    BY <1>0
  <2>2. ASSUME NEW i \in 1..Len(commands)
        PROVE  /\ commands'[i].row <= config.horizon
               /\ IF i > 1 /\ commands'[i].obs = commands'[i-1].obs
                  THEN commands'[i].row = commands'[i-1].row + 1
                  ELSE commands'[i].row = 1
               /\ i > 1 => commands'[i].obs >= commands'[i-1].obs
    BY <1>2, <2>1 DEF LoopInv, RowsOfLatestChunkInOrder
  <2>3. LET i == Len(commands) + 1
        IN  /\ commands'[i].row <= config.horizon
            /\ IF i > 1 /\ commands'[i].obs = commands'[i-1].obs
               THEN commands'[i].row = commands'[i-1].row + 1
               ELSE commands'[i].row = 1
            /\ i > 1 => commands'[i].obs >= commands'[i-1].obs
    <3>1. CASE pending.row = 1
      <4>1. \A i \in 1..Len(commands) :
                commands'[i].obs \in Nat /\ commands'[i].obs < observed
        BY <1>0, <1>2, <3>1, NumbersOfRecords DEF LoopInv, CommandsUpToNow
      <4>2. /\ Len(commands) + 1 > 1 => Len(commands) \in 1..Len(commands)
            /\ (Len(commands) + 1) - 1 = Len(commands)
        BY <1>0
      <4>4. Len(commands) + 1 > 1 =>
                /\ commands'[Len(commands)].obs # observed
                /\ observed >= commands'[Len(commands)].obs
        BY <1>0, <4>1, <4>2
      <4> QED
        BY <1>0, <1>2, <3>1, <4>2, <4>4
    <3>2. CASE pending.row > 1
      <4>1. /\ Len(commands) \in 1..Len(commands)
            /\ commands'[Len(commands)].obs = observed
            /\ commands'[Len(commands)].row = pending.row - 1
        BY <1>0, <1>2, <3>2 DEF DisciplineInv, RowsUpToNow, LoopTypeOK
      <4>2. (pending.row - 1) + 1 = pending.row
        BY <1>0
      <4>3. (Len(commands) + 1) - 1 = Len(commands) /\ Len(commands) + 1 > 1
        BY <1>0, <4>1
      <4> QED
        BY <1>0, <1>2, <4>1, <4>2, <4>3
    <3> QED
      BY <1>2, <3>1, <3>2, LoopBounds
  <2> QED
    BY <1>0, <1>2, <2>2, <2>3 DEF RowsOfLatestChunkInOrder
<1> QED
  BY <1>4, <1>5

LEMMA LoopNextInv == ASSUME LoopInv, LoopNext PROVE LoopInv'
<1>1. DisciplineInv' /\ LoopTypeOK
  BY DisciplineNextInv DEF LoopInv, AnyPolicyNext, DisciplineInv
<1>2. CASE ExecuteAction
  BY <1>1, <1>2, ExecuteLatestInv DEF LoopInv
<1>3. CASE RequestPolicy
  <2>1. \A i \in 1..Len(commands) :
            commands[i].obs < observed + 1 /\ commands[i].obs <= observed + 1
    BY <1>1, NumbersOfRecords, LoopNumbers DEF LoopInv, CommandsUpToNow
  <2> QED
    BY <1>1, <1>3, <2>1
    DEF LoopInv, CommandsUpToNow, RequestPolicy, RowsOfLatestChunkInOrder
<1>4. CASE StartRun \/ BudgetUsed \/ RunIsInterrupted
  BY <1>1, <1>4
  DEF LoopInv, CommandsUpToNow, StartRun, BudgetUsed, RunIsInterrupted,
      RowsOfLatestChunkInOrder
<1>5. CASE PolicyRaises \/ ActionRaises
  BY <1>1, <1>5
  DEF LoopInv, CommandsUpToNow, PolicyRaises, ActionRaises, FailSafeHold,
      RowsOfLatestChunkInOrder
<1>6. CASE \E chunk \in Chunks : PolicyAnswers(observed, chunk)
  BY <1>1, <1>6
  DEF LoopInv, CommandsUpToNow, PolicyAnswers, FailSafeHold,
      RowsOfLatestChunkInOrder
<1> QED
  BY <1>2, <1>3, <1>4, <1>5, <1>6 DEF LoopNext, LoopAlone, Policy

LEMMA LoopStep ==
  ASSUME LoopInv, [LoopNext]_loopVars
  PROVE  LoopInv'
<1>1. CASE UNCHANGED loopVars
  BY <1>1, DisciplineStep
  DEF loopVars, LoopInv, CommandsUpToNow, RowsOfLatestChunkInOrder
<1> QED
  BY <1>1, LoopNextInv

LEMMA LoopInvAlways == LoopSpec => []LoopInv
  BY LoopInitInv, LoopStep, PTL DEF LoopSpec

LEMMA DisciplineAlways == AnyPolicySpec => []DisciplineInv
<1>1. LoopInit => DisciplineInv
  BY LoopInitInv DEF LoopInv
<1> QED
  BY <1>1, DisciplineStep, PTL DEF AnyPolicySpec

(* A policy that answers about the last observation is one that answers    *)
(* about some observation.                                                 *)
LEMMA LoopIsAnyPolicy == LoopSpec => AnyPolicySpec
<1>1. [LoopNext]_loopVars => [AnyPolicyNext]_loopVars
  BY DEF AnyPolicyNext
<1> QED
  BY <1>1, PTL DEF LoopSpec, AnyPolicySpec

-----------------------------------------------------------------------------
(* Once a row of an answer was executed, no later one is rejected. *)
LEMMA AnyPolicyExecutesWholeParts ==
  AnyPolicySpec => []ValidatedChunkIsExecutable
<1> DEFINE NoActionHold ==
        config.dim = ActionDim =>
            \A h \in 1..Len(holds) : holds[h].reason # "action"
<1>1. LoopInit => NoActionHold
  BY DEF LoopInit
<1>2. ASSUME DisciplineInv, loop = "executing"
      PROVE  /\ Head(pending.actions).dim = config.dim
             /\ Head(pending.actions).values # "nonfinite"
  <2>1. Head(pending.actions) = pending.actions[1]
        /\ 1 \in 1..Len(pending.actions)
    BY <1>2 DEF DisciplineInv, LoopTypeOK, PendingIsSound
  <2> QED
    BY <1>2, <2>1 DEF DisciplineInv, PendingIsSound
<1>3. ASSUME DisciplineInv, NoActionHold, NEW reason, reason # "action",
             NEW counted, FailSafeHold(reason, counted), UNCHANGED config
      PROVE  NoActionHold'
  <2>1. holds \in Seq(Holds)
    BY <1>3 DEF DisciplineInv, LoopTypeOK
  <2>2. \A h \in 1..Len(holds') :
            \/ h \in 1..Len(holds) /\ holds'[h] = holds[h]
            \/ holds'[h].reason = reason
    BY <1>3, <2>1 DEF FailSafeHold
  <2> QED
    BY <1>3, <2>2
<1>4. ASSUME DisciplineInv, NoActionHold, AnyPolicyNext
      PROVE  NoActionHold'
  <2>1. CASE UNCHANGED <<config, holds>>
    BY <1>4, <2>1
  <2>2. CASE PolicyRaises
    BY <1>3, <1>4, <2>2 DEF PolicyRaises
  <2>3. CASE ActionRaises
    BY <1>2, <1>4, <2>3 DEF ActionRaises, Rejected
  <2>4. CASE AnswersAboutAny
    BY <1>3, <1>4, <2>1, <2>4 DEF AnswersAboutAny, PolicyAnswers
  <2> QED
    BY <1>4, <2>1, <2>2, <2>3, <2>4, AnyPolicySteps
    DEF StartRun, BudgetUsed, RequestPolicy, RunIsInterrupted, ExecuteAction
<1>5. NoActionHold /\ UNCHANGED loopVars => NoActionHold'
  BY DEF loopVars
<1>6. DisciplineInv /\ NoActionHold => ValidatedChunkIsExecutable
  BY <1>2 DEF ValidatedChunkIsExecutable, DisciplineInv, PendingIsSound, Rejected
<1> QED
  BY <1>1, <1>4, <1>5, <1>6, DisciplineAlways, PTL DEF AnyPolicySpec

LEMMA AnyPolicyEndsInHold ==
  AnyPolicySpec => []UnfinishedRunHolds
<1>1. LoopInit => UnfinishedRunHolds
  BY DEF LoopInit, UnfinishedRunHolds
<1>2. ASSUME DisciplineInv, NEW reason, NEW counted, FailSafeHold(reason, counted),
             UNCHANGED run
      PROVE  UnfinishedRunHolds'
  <2>1. holds \in Seq(Holds)
    BY <1>2 DEF DisciplineInv, LoopTypeOK
  <2>2. Len(holds) + 1 \in 1..Len(holds')
        /\ holds'[Len(holds) + 1].run = run
    BY <1>2, <2>1 DEF FailSafeHold
  <2> QED
    BY <1>2, <2>2 DEF UnfinishedRunHolds
<1>3. ASSUME DisciplineInv, UnfinishedRunHolds, AnyPolicyNext
      PROVE  UnfinishedRunHolds'
  <2>1. CASE loop' # "idle"
    BY <2>1 DEF UnfinishedRunHolds
  <2>2. CASE PolicyRaises \/ ActionRaises
    BY <1>2, <1>3, <2>2 DEF PolicyRaises, ActionRaises
  <2>3. CASE AnswersAboutAny
    BY <1>2, <1>3, <2>1, <2>3 DEF AnswersAboutAny, PolicyAnswers
  <2>4. CASE BudgetUsed
    BY <1>3, <2>4 DEF BudgetUsed, UnfinishedRunHolds, DisciplineInv, LoopTypeOK
  <2>5. CASE RunIsInterrupted
    <3>1. interrupted \in Seq(1..MaxRuns)
      BY <1>3 DEF DisciplineInv, LoopTypeOK
    <3>2. /\ run' = run
          /\ Len(interrupted) + 1 \in 1..Len(interrupted')
          /\ interrupted'[Len(interrupted) + 1] = run
      BY <2>5, <3>1 DEF RunIsInterrupted
    <3> QED
      BY <3>2 DEF UnfinishedRunHolds
  <2>6. CASE ExecuteAction
    BY <2>1, <2>6 DEF ExecuteAction
  <2> QED
    BY <1>3, <2>1, <2>2, <2>3, <2>4, <2>5, <2>6,
       AnyPolicySteps DEF StartRun, RequestPolicy
<1>4. UnfinishedRunHolds /\ UNCHANGED loopVars => UnfinishedRunHolds'
  BY DEF UnfinishedRunHolds, loopVars
<1> QED
  BY <1>1, <1>3, <1>4, DisciplineAlways, PTL DEF AnyPolicySpec

-----------------------------------------------------------------------------
(* Counting entries of a log: none in an empty one, and the count of the   *)
(* commands that were clipped, or of the holds because of the policy,      *)
(* grows by one exactly when such an entry is appended.                    *)
ClippedCommands(log) == {i \in 1..Len(log) : log[i].clipped}
PolicyHolds(log)     == {h \in 1..Len(log) : log[h].reason = "policy"}

LEMMA CountClipped ==
  ASSUME NEW log \in Seq(Commands), NEW command \in Commands
  PROVE  Cardinality(ClippedCommands(Append(log, command))) =
            Cardinality(ClippedCommands(log))
                + IF command.clipped THEN 1 ELSE 0
<1> DEFINE longer == Append(log, command)
           new == Len(log) + 1
<1>1. /\ Len(longer) = new
      /\ longer[new] = command
      /\ \A i \in 1..Len(log) : longer[i] = log[i]
      /\ new \notin ClippedCommands(log)
      /\ \A i : i \in 1..new <=> i = new \/ i \in 1..Len(log)
  BY DEF ClippedCommands
<1>2. IsFiniteSet(ClippedCommands(log))
  BY FS_Interval, FS_Subset, 1 \in Int, Len(log) \in Int DEF ClippedCommands
<1>3. CASE command.clipped
  <2>1. ClippedCommands(longer) = ClippedCommands(log) \cup {new}
    BY <1>1, <1>3 DEF ClippedCommands
  <2> QED
    BY <1>1, <1>2, <1>3, <2>1, FS_AddElement
<1>4. CASE ~command.clipped
  <2>1. ClippedCommands(longer) = ClippedCommands(log)
    BY <1>1, <1>4 DEF ClippedCommands
  <2>2. Cardinality(ClippedCommands(log)) \in Nat
    BY <1>2, FS_CardinalityType
  <2> QED
    BY <1>4, <2>1, <2>2
<1> QED
  BY <1>3, <1>4

LEMMA CountPolicyHolds ==
  ASSUME NEW log \in Seq(Holds), NEW hold \in Holds
  PROVE  Cardinality(PolicyHolds(Append(log, hold))) =
            Cardinality(PolicyHolds(log))
                + IF hold.reason = "policy" THEN 1 ELSE 0
<1> DEFINE longer == Append(log, hold)
           new == Len(log) + 1
<1>1. /\ Len(longer) = new
      /\ longer[new] = hold
      /\ \A i \in 1..Len(log) : longer[i] = log[i]
      /\ new \notin PolicyHolds(log)
      /\ \A i : i \in 1..new <=> i = new \/ i \in 1..Len(log)
  BY DEF PolicyHolds
<1>2. IsFiniteSet(PolicyHolds(log))
  BY FS_Interval, FS_Subset, 1 \in Int, Len(log) \in Int DEF PolicyHolds
<1>3. CASE hold.reason = "policy"
  <2>1. PolicyHolds(longer) = PolicyHolds(log) \cup {new}
    BY <1>1, <1>3 DEF PolicyHolds
  <2> QED
    BY <1>1, <1>2, <1>3, <2>1, FS_AddElement
<1>4. CASE hold.reason # "policy"
  <2>1. PolicyHolds(longer) = PolicyHolds(log)
    BY <1>1, <1>4 DEF PolicyHolds
  <2>2. Cardinality(PolicyHolds(log)) \in Nat
    BY <1>2, FS_CardinalityType
  <2> QED
    BY <1>4, <2>1, <2>2
<1> QED
  BY <1>3, <1>4

LEMMA AppendedIsTyped ==
  ASSUME NEW S, NEW log, NEW e, Append(log, e) \in Seq(S), log \in Seq(S)
  PROVE  e \in S
<1>1. Append(log, e)[Len(log) + 1] = e /\ Len(log) + 1 \in 1..Len(Append(log, e))
  OBVIOUS
<1> QED
  BY <1>1

(* The requests counted, those that raised, those that were interrupted    *)
(* and the one in progress are the observations taken.                     *)
RequestsAccountedFor ==
    metrics.requests + Cardinality(PolicyHolds(holds))
      + Len(interrupted)
      + (IF loop = "calling" THEN 1 ELSE 0) = observed

ExecutionsCounted ==
    /\ metrics.executed = Len(commands)
    /\ metrics.clipped = Cardinality(ClippedCommands(commands))
    /\ metrics.safeHolds = Len(holds)

LEMMA MetricsMeaning ==
  MetricsTellTheRobot <=> ExecutionsCounted /\ RequestsAccountedFor
  BY DEF MetricsTellTheRobot, ExecutionsCounted, RequestsAccountedFor,
         ClippedCommands, PolicyHolds

LEMMA CountsAreNat ==
  ASSUME LoopTypeOK
  PROVE  /\ Cardinality(PolicyHolds(holds)) \in Nat
         /\ Cardinality(ClippedCommands(commands)) \in Nat
         /\ Len(interrupted) \in Nat
         /\ metrics.requests \in Nat
         /\ metrics.executed \in Nat
         /\ metrics.clipped \in Nat
         /\ metrics.safeHolds \in Nat
         /\ observed \in Nat
<1>1. Len(holds) \in Nat /\ Len(commands) \in Nat
  BY DEF LoopTypeOK
<1>2. IsFiniteSet(1..Len(holds)) /\ IsFiniteSet(1..Len(commands))
  BY <1>1, FS_Interval
<1>3. PolicyHolds(holds) \subseteq 1..Len(holds)
      /\ ClippedCommands(commands) \subseteq 1..Len(commands)
  BY DEF PolicyHolds, ClippedCommands
<1>4. IsFiniteSet(PolicyHolds(holds)) /\ IsFiniteSet(ClippedCommands(commands))
  BY <1>2, <1>3, FS_Subset
<1> QED
  BY <1>4, FS_CardinalityType DEF LoopTypeOK

(* What a hold does to the counts. *)
LEMMA HoldCounts ==
  ASSUME LoopTypeOK, LoopTypeOK',
         NEW reason, NEW counted \in MetricsSet,
         FailSafeHold(reason, counted)
  PROVE  /\ Len(holds') = Len(holds) + 1
         /\ Cardinality(PolicyHolds(holds')) =
                Cardinality(PolicyHolds(holds))
                    + IF reason = "policy" THEN 1 ELSE 0
         /\ metrics'.requests = counted.requests
         /\ metrics'.executed = counted.executed
         /\ metrics'.clipped = counted.clipped
         /\ metrics'.safeHolds = counted.safeHolds + 1
         /\ loop' = "idle"
<1> DEFINE hold == [run |-> run, after |-> Len(commands), reason |-> reason]
<1>1. holds' = Append(holds, hold) /\ holds \in Seq(Holds)
      /\ holds' \in Seq(Holds)
  BY DEF FailSafeHold, LoopTypeOK
<1>2. hold \in Holds /\ hold.reason = reason
  <2>1. hold.reason = reason
    OBVIOUS
  <2> HIDE DEF hold
  <2> QED
    BY <1>1, <2>1, AppendedIsTyped
<1> HIDE DEF hold
<1>3. Len(holds') = Len(holds) + 1
  BY <1>1, <1>2
<1> QED
  BY <1>1, <1>2, <1>3, CountPolicyHolds DEF FailSafeHold, MetricsSet

LEMMA ExecuteActionCounts ==
  ASSUME LoopTypeOK, LoopTypeOK', ExecutionsCounted, ExecuteAction
  PROVE  ExecutionsCounted'
<1> DEFINE action == Head(pending.actions)
           command == [run |-> run, obs |-> pending.obs, row |-> pending.row,
                       clipped |-> Clipped(action)]
<1>1. /\ commands' = Append(commands, command)
      /\ commands \in Seq(Commands)
      /\ commands' \in Seq(Commands)
      /\ command.clipped = Clipped(action)
      /\ metrics' = [metrics EXCEPT
                        !.executed = @ + 1,
                        !.clipped = @ + IF Clipped(action) THEN 1 ELSE 0]
      /\ UNCHANGED holds
  BY DEF ExecuteAction, LoopTypeOK
<1> HIDE DEF command
<1>2. command \in Commands
  BY <1>1, AppendedIsTyped
<1>3. Len(commands') = Len(commands) + 1
  BY <1>1, <1>2
<1>4. Cardinality(ClippedCommands(commands')) =
            Cardinality(ClippedCommands(commands))
                + IF Clipped(action) THEN 1 ELSE 0
  BY <1>1, <1>2, CountClipped
<1>5. /\ metrics'.executed = metrics.executed + 1
      /\ metrics'.clipped = metrics.clipped + IF Clipped(action) THEN 1 ELSE 0
      /\ metrics'.safeHolds = metrics.safeHolds
  BY <1>1 DEF LoopTypeOK
<1> QED
  BY <1>1, <1>3, <1>4, <1>5 DEF ExecutionsCounted

LEMMA AnyPolicyIsCounted ==
  AnyPolicySpec => []MetricsTellTheRobot
<1> DEFINE Counts == ExecutionsCounted /\ RequestsAccountedFor
<1>1. LoopInit => Counts
  <2> SUFFICES ASSUME LoopInit PROVE Counts
    OBVIOUS
  <2>1. PolicyHolds(holds) = {} /\ ClippedCommands(commands) = {}
    BY DEF LoopInit, PolicyHolds, ClippedCommands
  <2>2. /\ Cardinality(PolicyHolds(holds)) = 0
        /\ Cardinality(ClippedCommands(commands)) = 0
    BY <2>1, FS_EmptySet
  <2>4. Len(interrupted) = 0
    BY DEF LoopInit
  <2>3. /\ metrics.requests = 0 /\ metrics.executed = 0
        /\ metrics.clipped = 0 /\ metrics.safeHolds = 0
        /\ Len(commands) = 0 /\ Len(holds) = 0
        /\ observed = 0 /\ loop # "calling"
    BY DEF LoopInit
  <2> QED
    BY <2>2, <2>3, <2>4 DEF ExecutionsCounted, RequestsAccountedFor
<1>2. ASSUME DisciplineInv, DisciplineInv', Counts, AnyPolicyNext
      PROVE  Counts'
  <2>1. LoopTypeOK /\ LoopTypeOK' /\ metrics \in MetricsSet
    BY <1>2, LoopNumbers DEF DisciplineInv
  <2>2. CASE StartRun \/ BudgetUsed
    BY <1>2, <2>2
    DEF StartRun, BudgetUsed, ExecutionsCounted, RequestsAccountedFor
  <2>3. CASE RequestPolicy
    BY <1>2, <2>1, <2>3, CountsAreNat
    DEF RequestPolicy, ExecutionsCounted, RequestsAccountedFor
  <2>4. CASE RunIsInterrupted
    <3>1. Len(interrupted') = Len(interrupted) + 1
      BY <2>1, <2>4 DEF RunIsInterrupted, LoopTypeOK
    <3> QED
      BY <1>2, <2>1, <2>4, <3>1, CountsAreNat
      DEF RunIsInterrupted, ExecutionsCounted, RequestsAccountedFor
  <2>5. CASE ExecuteAction
    <3>1. ExecutionsCounted'
      BY <1>2, <2>1, <2>5, ExecuteActionCounts
    <3>2. metrics'.requests = metrics.requests /\ loop' # "calling"
      BY <2>1, <2>5 DEF ExecuteAction
    <3> QED
      BY <1>2, <2>5, <3>1, <3>2 DEF ExecuteAction, RequestsAccountedFor
  <2>6. CASE PolicyRaises
    <3>1. /\ loop = "calling" /\ loop' = "idle"
          /\ UNCHANGED <<observed, commands, interrupted>>
          /\ FailSafeHold("policy", metrics)
      BY <2>6 DEF PolicyRaises, FailSafeHold
    <3>2. /\ Len(holds') = Len(holds) + 1
          /\ Cardinality(PolicyHolds(holds')) = Cardinality(PolicyHolds(holds)) + 1
          /\ metrics'.requests = metrics.requests
          /\ metrics'.executed = metrics.executed
          /\ metrics'.clipped = metrics.clipped
          /\ metrics'.safeHolds = metrics.safeHolds + 1
      BY <2>1, <3>1, HoldCounts
    <3> QED
      BY <1>2, <2>1, <3>1, <3>2, CountsAreNat
      DEF ExecutionsCounted, RequestsAccountedFor
  <2>7. CASE ActionRaises
    BY <1>2, <2>1, <2>7, HoldCounts, CountsAreNat
    DEF ActionRaises, ExecutionsCounted, RequestsAccountedFor
  <2>8. ASSUME NEW o \in Nat, NEW chunk \in Chunks, PolicyAnswers(o, chunk)
        PROVE  Counts'
    <3> DEFINE counted == [metrics EXCEPT !.requests = @ + 1]
    <3>1. /\ counted \in MetricsSet
          /\ counted.requests = metrics.requests + 1
          /\ counted.executed = metrics.executed
          /\ counted.clipped = metrics.clipped
          /\ counted.safeHolds = metrics.safeHolds
      BY <2>1 DEF MetricsSet
    <3>2. /\ loop = "calling"
          /\ UNCHANGED <<observed, commands, interrupted>>
          /\ \/ FailSafeHold("chunk", counted)
             \/ metrics' = counted /\ loop' = "executing" /\ UNCHANGED holds
      BY <2>8 DEF PolicyAnswers
    <3> HIDE DEF counted
    <3>3. CASE FailSafeHold("chunk", counted)
      <4>1. ExecutionsCounted'
        BY <1>2, <2>1, <3>1, <3>2, <3>3, HoldCounts DEF ExecutionsCounted
      <4>2. RequestsAccountedFor'
        <5>1. /\ Cardinality(PolicyHolds(holds')) = Cardinality(PolicyHolds(holds))
              /\ metrics'.requests = metrics.requests + 1
              /\ loop' = "idle"
          BY <2>1, <3>1, <3>3, HoldCounts, CountsAreNat
        <5> QED
          BY <1>2, <2>1, <3>2, <5>1, CountsAreNat DEF RequestsAccountedFor
      <4> QED
        BY <4>1, <4>2
    <3>4. CASE metrics' = counted /\ loop' = "executing" /\ UNCHANGED holds
      BY <1>2, <2>1, <3>1, <3>2, <3>4, CountsAreNat
      DEF ExecutionsCounted, RequestsAccountedFor
    <3> QED
      BY <3>2, <3>3, <3>4
  <2> QED
    BY <1>2, <2>2, <2>3, <2>4, <2>5, <2>6, <2>7, <2>8,
       AnyPolicySteps DEF AnswersAboutAny
<1>3. Counts /\ UNCHANGED loopVars => Counts'
  BY DEF ExecutionsCounted, RequestsAccountedFor, loopVars
<1> QED
  BY <1>1, <1>2, <1>3, DisciplineAlways, MetricsMeaning, PTL DEF AnyPolicySpec

-----------------------------------------------------------------------------
(* The refinement mapping, value by value. *)
ModeOf   == CASE loop = "idle" -> "resting"
              [] loop = "calling" -> "asking"
              [] OTHER -> "acting"
LeftOf   == Len(pending.actions)
BudgetOf == IF loop = "idle" THEN 0 ELSE budget - completed

LEMMA MappedHold ==
  ASSUME DisciplineInv, NEW reason, NEW counted, FailSafeHold(reason, counted),
         loop \in {"calling", "executing"}, UNCHANGED config
  PROVE  Horizon!Stop
<1>1. LeftOf' = 0 /\ BudgetOf' = 0 /\ ModeOf' = "resting"
  BY DEF FailSafeHold, NoPending, LeftOf, BudgetOf, ModeOf
<1>2. \/ ModeOf = "asking"
      \/ ModeOf = "acting" /\ LeftOf > 0
  BY DEF ModeOf, LeftOf, DisciplineInv, LoopTypeOK, PendingIsSound
<1> QED
  BY <1>1, <1>2 DEF Horizon!Stop, LeftOf, BudgetOf, ModeOf

LEMMA MappedAnswer ==
  ASSUME DisciplineInv, NEW o \in Nat, NEW chunk \in Chunks,
         PolicyAnswers(o, chunk)
  PROVE  Horizon!Accept \/ Horizon!Stop
<1> DEFINE counted == [metrics EXCEPT !.requests = @ + 1]
           part == SubSeq(chunk, 1, ActionsToExecute(chunk))
<1>1. CASE FailSafeHold("chunk", counted)
  BY <1>1, MappedHold DEF PolicyAnswers
<1>2. CASE /\ Valid(chunk, config.dim)
           /\ pending' = [obs |-> o, row |-> 1, actions |-> part]
           /\ loop' = "executing"
  <2>1. /\ Len(part) \in Nat \ {0}
        /\ Len(part) <= config.horizon
        /\ Len(part) <= budget - completed
    BY <1>2, AcceptedChunk, LoopBounds
    DEF DisciplineInv, HoldsUpToNow, PolicyAnswers
  <2> HIDE DEF part
  <2>0. /\ loop = "calling"
        /\ UNCHANGED <<config, budget, completed>>
        /\ config.horizon \in Nat
    BY DEF PolicyAnswers, DisciplineInv, LoopTypeOK
  <2>2. /\ LeftOf' = Len(part)
        /\ BudgetOf = budget - completed /\ BudgetOf' = BudgetOf
        /\ ModeOf = "asking" /\ ModeOf' = "acting"
    BY <1>2, <2>0 DEF LeftOf, BudgetOf, ModeOf
  <2>3. LeftOf' \in 1..config.horizon /\ LeftOf' <= BudgetOf
    BY <2>0, <2>1, <2>2
  <2> QED
    BY <2>0, <2>2, <2>3 DEF Horizon!Accept, LeftOf, BudgetOf, ModeOf
<1> QED
  BY <1>1, <1>2 DEF PolicyAnswers

LEMMA MappedAct == ASSUME DisciplineInv, ExecuteAction PROVE Horizon!Act
<1>1. /\ pending.actions \in Seq(Actions) /\ pending.actions # <<>>
      /\ loop = "executing"
  BY DEF ExecuteAction, DisciplineInv, LoopTypeOK, PendingIsSound
<1>2. LeftOf > 0 /\ LeftOf' = LeftOf - 1
  <2>1. CASE Tail(pending.actions) = <<>>
    BY <1>1, <2>1 DEF ExecuteAction, LeftOf, NoPending
  <2>2. CASE Tail(pending.actions) # <<>>
    <3>1. pending'.actions = Tail(pending.actions)
      BY <2>2 DEF ExecuteAction, DisciplineInv, LoopTypeOK
    <3> QED
      BY <1>1, <3>1 DEF LeftOf
  <2> QED
    BY <2>1, <2>2
<1>3. /\ loop' \in {"deciding", "executing"}
      /\ completed' = completed + 1
      /\ UNCHANGED <<budget, config>>
      /\ budget \in Nat /\ completed \in Nat
  BY <1>1 DEF ExecuteAction, DisciplineInv, LoopTypeOK
<1>4. BudgetOf' = BudgetOf - 1
  <2>1. budget - (completed + 1) = (budget - completed) - 1
    BY <1>3
  <2> QED
    BY <1>1, <1>3, <2>1 DEF BudgetOf
<1>5. ModeOf = "acting" /\ ModeOf' = "acting"
  BY <1>1, <1>3 DEF ModeOf
<1> QED
  BY <1>2, <1>3, <1>4, <1>5 DEF Horizon!Act, LeftOf, BudgetOf, ModeOf

(* Every step of run() is a step of the promise or is not visible in it. *)
LEMMA AnyPolicyIsRecedingHorizon ==
  AnyPolicySpec => ImplementsRecedingHorizon
<1>1. LoopInit => Horizon!Init
  BY DEF LoopInit, Horizon!Init, NoPending
<1>2. ASSUME DisciplineInv, AnyPolicyNext
      PROVE  Horizon!Next \/ UNCHANGED Horizon!vars
  <2>1. CASE StartRun
    <3>1. budget' \in 0..MaxSteps /\ completed' = 0
      BY <2>1 DEF StartRun
    <3>2. \A b \in 0..MaxSteps : b - 0 = b
      BY LoopBounds
    <3> QED
      BY <1>2, <2>1, <3>1, <3>2
      DEF StartRun, Horizon!Next, Horizon!Start, DisciplineInv, PendingIsSound,
          NoPending
  <2>2. CASE BudgetUsed
    <3>1. budget - completed = 0
      BY <1>2, <2>2 DEF BudgetUsed, DisciplineInv, LoopTypeOK, HoldsUpToNow
    <3> QED
      BY <1>2, <2>2, <3>1
      DEF BudgetUsed, Horizon!Next, Horizon!Stop, DisciplineInv, PendingIsSound,
          NoPending
  <2>3. CASE RequestPolicy
    <3>1. budget - completed > 0
      BY <1>2, <2>3 DEF RequestPolicy, DisciplineInv, LoopTypeOK
    <3> QED
      BY <1>2, <2>3, <3>1
      DEF RequestPolicy, Horizon!Next, Horizon!Ask, DisciplineInv, PendingIsSound,
          NoPending
  <2>4. CASE PolicyRaises \/ ActionRaises
    BY <1>2, <2>4, MappedHold DEF PolicyRaises, ActionRaises, Horizon!Next
  <2>5. CASE RunIsInterrupted
    BY <2>5 DEF RunIsInterrupted, Horizon!Next, Horizon!Stop, NoPending
  <2>6. CASE AnswersAboutAny
    BY <1>2, <2>6, MappedAnswer DEF AnswersAboutAny, Horizon!Next
  <2>7. CASE ExecuteAction
    BY <1>2, <2>7, MappedAct DEF Horizon!Next
  <2> QED
    BY <1>2, <2>1, <2>2, <2>3, <2>4, <2>5, <2>6, <2>7, AnyPolicySteps
<1>3. UNCHANGED loopVars => UNCHANGED Horizon!vars
  BY DEF loopVars, Horizon!vars
<1> QED
  BY <1>1, <1>2, <1>3, DisciplineAlways, PTL
  DEF AnyPolicySpec, ImplementsRecedingHorizon, Horizon!Spec

-----------------------------------------------------------------------------
(* How many steps the run can still take: an iteration that decides, calls *)
(* the policy and executes an action takes three, and executes at least    *)
(* one action of the budget; the last one decides to return.               *)
StepsLeft ==
    CASE loop = "idle"     -> 0
      [] loop = "deciding" -> 3 * (budget - completed) + 3
      [] loop = "calling"  -> 3 * (budget - completed) + 2
      [] OTHER             -> 3 * (budget - completed) + 1

(* Every step inside a run brings its end closer, whatever the policy      *)
(* answers: no failure, no short chunk and no refused action makes the     *)
(* loop of run() go round without using up its budget (runtime.py:56-79).  *)
RunsWindDown ==
    [][loop # "idle" => StepsLeft' < StepsLeft]_loopVars

LEMMA StepsLeftBounds ==
  ASSUME DisciplineInv
  PROVE  /\ budget \in Nat /\ completed \in Nat
         /\ loop \in {"idle", "deciding", "calling", "executing"}
         /\ completed <= budget /\ budget <= MaxSteps
         /\ loop = "executing" => completed + 1 <= budget
         /\ StepsLeft \in 0..(3 * MaxSteps + 3)
         /\ loop # "idle" => StepsLeft > 0
<1>1. /\ budget \in Nat /\ completed \in Nat /\ MaxSteps \in Nat
      /\ budget <= MaxSteps /\ completed <= budget
      /\ loop \in {"idle", "deciding", "calling", "executing"}
  BY LoopBounds DEF DisciplineInv, LoopTypeOK, HoldsUpToNow
<1>2. loop = "executing" => completed + 1 <= budget
  <2> SUFFICES ASSUME loop = "executing" PROVE completed + 1 <= budget
    OBVIOUS
  <2>1. /\ pending.actions \in Seq(Actions) /\ pending.actions # <<>>
        /\ completed + Len(pending.actions) <= budget
    BY DEF DisciplineInv, LoopTypeOK, PendingIsSound
  <2>2. Len(pending.actions) \in Nat /\ Len(pending.actions) > 0
    BY <2>1
  <2> QED
    BY <1>1, <2>1, <2>2
<1>3. StepsLeft \in 0..(3 * MaxSteps + 3) /\ (loop # "idle" => StepsLeft > 0)
  BY <1>1 DEF StepsLeft
<1> QED
  BY <1>1, <1>2, <1>3

LEMMA StepsLeftIsNat == DisciplineInv => StepsLeft \in Nat
  BY StepsLeftBounds, LoopBounds

LEMMA StepWindsDown ==
  ASSUME DisciplineInv, AnyPolicyNext, loop # "idle"
  PROVE  StepsLeft' < StepsLeft
<1>0. /\ budget \in Nat /\ completed \in Nat /\ completed <= budget
      /\ loop \in {"idle", "deciding", "calling", "executing"}
      /\ loop = "executing" => completed + 1 <= budget
      /\ StepsLeft > 0
  BY StepsLeftBounds
<1>1. CASE loop' = "idle"
  BY <1>0, <1>1 DEF StepsLeft
<1>2. CASE RequestPolicy
  <2>1. /\ loop = "deciding" /\ loop' = "calling"
        /\ budget' = budget /\ completed' = completed
    BY <1>2 DEF RequestPolicy
  <2> QED
    BY <1>0, <2>1 DEF StepsLeft
<1>3. CASE ExecuteAction
  <2>1. /\ loop = "executing" /\ loop' \in {"deciding", "executing"}
        /\ budget' = budget /\ completed' = completed + 1
    BY <1>3 DEF ExecuteAction
  <2> QED
    BY <1>0, <2>1 DEF StepsLeft
<1>4. CASE AnswersAboutAny /\ loop' # "idle"
  <2>1. /\ loop = "calling" /\ loop' = "executing"
        /\ budget' = budget /\ completed' = completed
    BY <1>4 DEF AnswersAboutAny, PolicyAnswers, FailSafeHold
  <2> QED
    BY <1>0, <2>1 DEF StepsLeft
<1>5. loop' = "idle" \/ RequestPolicy \/ ExecuteAction \/ AnswersAboutAny
  BY AnyPolicySteps
  DEF StartRun, BudgetUsed, ActionRaises, PolicyRaises, RunIsInterrupted,
      FailSafeHold
<1> QED
  BY <1>1, <1>2, <1>3, <1>4, <1>5

-----------------------------------------------------------------------------
(* The loop keeps its discipline whatever observation an answer is about,  *)
(* a stale one included: a run that held executes nothing more, one that   *)
(* ended early held or was interrupted, every answer is cut to its first   *)
(* rows, none of which is rejected halfway, and the metrics are true       *)
(* (runtime.py:56-99).                                                     *)
THEOREM AnyPolicyIsDisciplined ==
  AnyPolicySpec => [](/\ LoopTypeOK
                      /\ HoldIsFinal
                      /\ UnfinishedRunHolds
                      /\ RowsOfOneAnswer
                      /\ ValidatedChunkIsExecutable
                      /\ MetricsTellTheRobot)
<1>1. DisciplineInv => LoopTypeOK /\ HoldIsFinal /\ RowsOfOneAnswer
  BY DEF DisciplineInv
<1> QED
  BY <1>1, DisciplineAlways, AnyPolicyExecutesWholeParts, AnyPolicyEndsInHold,
     AnyPolicyIsCounted, PTL

(* RunsWindDown, over any policy: a run takes at most 3 * MaxSteps + 3     *)
(* steps, so it can only fail to return inside a call of the policy        *)
(* (runtime.py:56-79).                                                     *)
THEOREM AnyPolicyWindsDown ==
  AnyPolicySpec => RunsWindDown /\ [](StepsLeft \in 0..(3 * MaxSteps + 3))
<1>1. DisciplineInv => StepsLeft \in 0..(3 * MaxSteps + 3)
  BY StepsLeftBounds
<1>2. DisciplineInv /\ [AnyPolicyNext]_loopVars
        => [loop # "idle" => StepsLeft' < StepsLeft]_loopVars
  BY StepWindsDown
<1> QED
  BY <1>1, <1>2, DisciplineAlways, PTL DEF AnyPolicySpec, RunsWindDown

(* The rest is of the loop with a policy that answers about the last       *)
(* observation, which is one of these policies.                            *)

(* Every variable of the control loop keeps its type (runtime.py:37-100).  *)
THEOREM LoopTypeCorrect == LoopSpec => []LoopTypeOK
<1>1. LoopInv => LoopTypeOK
  BY DEF LoopInv, DisciplineInv
<1> QED
  BY <1>1, LoopInvAlways, PTL

(* Only rows of the newest chunk reach the robot, in order, without a gap, *)
(* and at most a horizon of them (runtime.py:58-78).                       *)
THEOREM OnlyRowsOfLatestChunk == LoopSpec => []RowsOfLatestChunkInOrder
<1>1. LoopInv => RowsOfLatestChunkInOrder
  BY DEF LoopInv
<1> QED
  BY <1>1, LoopInvAlways, PTL

(* Nothing is executed in a run after it held the robot (runtime.py:81-88). *)
THEOREM NothingAfterHold == LoopSpec => []HoldIsFinal
<1>1. LoopInv => HoldIsFinal
  BY DEF LoopInv, DisciplineInv
<1> QED
  BY <1>1, LoopInvAlways, PTL

(* No run executes part of a chunk and then holds because of the rest      *)
(* (contracts.py:46-58, adapters.py:27, safety.py:26).                     *)
THEOREM NoHalfExecutedChunk == LoopSpec => []ValidatedChunkIsExecutable
  BY LoopIsAnyPolicy, AnyPolicyExecutesWholeParts, PTL

(* A run that returned early left the robot holding, unless it was         *)
(* interrupted (runtime.py:62-63, 73-74).                                  *)
THEOREM UnfinishedRunsHold == LoopSpec => []UnfinishedRunHolds
  BY LoopIsAnyPolicy, AnyPolicyEndsInHold, PTL

(* The metrics agree with the robot and the requests, whatever the runs    *)
(* did (runtime.py:75-99).                                                 *)
THEOREM MetricsAreTrue == LoopSpec => []MetricsTellTheRobot
  BY LoopIsAnyPolicy, AnyPolicyIsCounted, PTL

(* The control loop does what RecedingHorizon promises of it, for every    *)
(* horizon, budget and length of chunk (runtime.py:56-88).                 *)
THEOREM LoopImplementsRecedingHorizon == LoopSpec => ImplementsRecedingHorizon
  BY LoopIsAnyPolicy, AnyPolicyIsRecedingHorizon, PTL
=============================================================================

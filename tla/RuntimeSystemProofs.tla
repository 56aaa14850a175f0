------------------------ MODULE RuntimeSystemProofs ------------------------
(***************************************************************************)
(* Proofs about the runtime as a whole, from the invariants of its two     *)
(* halves: every step of the system is a step or a stutter of each.        *)
(*                                                                         *)
(* What needs no fresh answers (SystemShape) is proved for any transport;  *)
(* what does (SystemInv) for one that never leaves recv() with the reply   *)
(* unread.                                                                 *)
(***************************************************************************)
EXTENDS RuntimeSystem, ProcessTransportProofs, ClosedLoopProofs

(* The synchronous call that links the two: while the transport works, the *)
(* control loop waits for it, and the call in progress carries the newest  *)
(* observation.                                                            *)
CallInStep ==
    /\ carried \in Seq(Nat)
    /\ Len(carried) = calls
    /\ pc \in {"starting", "waiting"} =>
            loop = "calling" /\ carried[calls] = observed

TransportShape == TypeOK /\ CallBookkeeping /\ AskedFor

SystemShape == TransportShape /\ DisciplineInv /\ CallInStep

SystemInv == SystemShape /\ FreshInv /\ LoopInv

-----------------------------------------------------------------------------
LEMMA TransportShapeStep ==
  ASSUME TransportShape, [Next]_vars
  PROVE  TransportShape'
<1>1. CASE Next
  BY <1>1, CallerType, WorkerType, CallerAskedFor, WorkerAskedFor
  DEF Next, TransportShape
<1>2. CASE UNCHANGED vars
  BY <1>2 DEF TransportShape, TypeOK, CallBookkeeping, AskedFor, Alive, vars,
      caller, children
<1> QED
  BY <1>1, <1>2

LEMMA FreshStep ==
  ASSUME ~RecvMayAbort, TransportShape, FreshInv, [Next]_vars
  PROVE  FreshInv'
<1>1. CASE Next
  BY <1>1, CallerFresh, WorkerFresh DEF Next, TransportShape
<1>2. CASE UNCHANGED vars
  BY <1>2 DEF FreshInv, RequestsCurrent, RepliesCurrent, SocketInStep,
      PayloadIsForThisCall, vars, caller, children
<1> QED
  BY <1>1, <1>2

LEMMA SystemIsTransport == [SystemNext]_systemVars => [Next]_vars
  BY DEF SystemNext, RunStarts, RunSteps, RunGoesOn, BuildRaises,
         CallTransport, ConnectionIsReady, CallFails, TransportRaises,
         AnswerIsRefused, AnswerIsDecoded, CallIsBroken, TransportIsReset,
         ChildSteps, Next, Caller, WaitEnds, systemVars

(* Whatever is decoded is about an observation that was sent. *)
LEMMA DecodedWasSent ==
  ASSUME SystemShape, AnswerIsDecoded
  PROVE  AnswersAboutAny
<1>1. outcome'.obs \in 1..calls
  BY AnswerWasAskedFor DEF SystemShape, TransportShape, AnswerIsDecoded
<1>2. carried[outcome'.obs] \in Nat
  BY <1>1 DEF SystemShape, CallInStep
<1> QED
  BY <1>2 DEF AnswerIsDecoded, AnswersAboutAny

LEMMA SystemIsAnyPolicy ==
  ASSUME SystemShape, [SystemNext]_systemVars
  PROVE  [AnyPolicyNext]_loopVars
  BY DecodedWasSent
  DEF SystemNext, RunStarts, RunSteps, RunGoesOn, BuildRaises,
      CallTransport, ConnectionIsReady, CallFails, AnswerIsRefused,
      CallIsBroken, TransportIsReset, ChildSteps, AnyPolicyNext, LoopNext,
      Policy, systemVars

LEMMA CallEnds ==
  ASSUME TransportRaises \/ ReplyIsAnswer \/ CallIsInterrupted
  PROVE  pc' = "idle" /\ calls' = calls
  BY DEF TransportRaises, StartupFails, StartupTimesOut, ReplyIsMalformed,
         ReplyIsMismatched, ReplyIsError, RequestTimesOut, ReplyIsAnswer,
         CallIsInterrupted, TakeReply, Fail, Return

LEMMA ChildrenOnly ==
  ASSUME ChildSteps
  PROVE  UNCHANGED <<caller, loopVars, carried>>
  BY DEF ChildSteps, Worker, Environment, WorkerConnects,
         WorkerCannotConnect, WorkerTakesClose, WorkerTakesRequest,
         WorkerSends, WorkerReceives, ReplyIsDropped, WorkerReportsError,
         ConnectionBreaks, WorkerExits, WorkerIsKilled, WorkerCrashes, Gone

LEMMA CallInStepStep ==
  ASSUME SystemShape, SystemNext
  PROVE  CallInStep'
<1>1. CASE RunStarts \/ BuildRaises
  BY <1>1
  DEF SystemShape, CallInStep, RunStarts, BuildRaises, vars, caller
<1>2. CASE RunGoesOn
  <2>1. loop # "calling"
    BY <1>2 DEF RunGoesOn, RequestPolicy, LoopAlone, BudgetUsed,
        ExecuteAction, ActionRaises
  <2> QED
    BY <1>2, <2>1 DEF SystemShape, CallInStep, RunGoesOn, vars, caller
<1>3. CASE CallTransport
  <2>1. /\ calls' = calls + 1 /\ calls \in Nat
        /\ observed \in Nat
        /\ loop' = "calling" /\ observed' = observed
        /\ carried' = Append(carried, observed)
    BY <1>3, BoundsAssumption
    DEF CallTransport, InferOnLiveWorker, InferStartsWorker, SystemShape,
        TransportShape, TypeOK, DisciplineInv, LoopTypeOK, loopVars
  <2> QED
    BY <2>1 DEF SystemShape, CallInStep
<1>4. CASE CallFails \/ AnswerIsRefused \/ AnswerIsDecoded \/ CallIsBroken
  BY <1>4, CallEnds
  DEF SystemShape, CallInStep, CallFails, AnswerIsRefused, AnswerIsDecoded,
      CallIsBroken
<1>5. CASE ConnectionIsReady
  BY <1>5 DEF ConnectionIsReady, StartupReady, SystemShape, CallInStep, loopVars
<1>6. CASE TransportIsReset
  BY <1>6
  DEF TransportIsReset, Reconnect, CloseBegins, CloseEnds, SystemShape,
      CallInStep, loopVars
<1>7. CASE ChildSteps
  BY <1>7, ChildrenOnly DEF SystemShape, CallInStep, caller, loopVars
<1> QED
  BY <1>1, <1>2, <1>3, <1>4, <1>5, <1>6, <1>7 DEF SystemNext, RunSteps

LEMMA SystemShapeAlways == SystemSpec => []SystemShape
<1>1. SystemInit => SystemShape
  <2> SUFFICES ASSUME SystemInit PROVE SystemShape
    OBVIOUS
  <2>1. TransportShape /\ DisciplineInv
    BY InitType, InitAskedFor, LoopInitInv
    DEF SystemInit, TransportShape, LoopInv
  <2> QED
    BY <2>1 DEF SystemInit, Init, SystemShape, CallInStep
<1>2. ASSUME SystemShape, [SystemNext]_systemVars
      PROVE  SystemShape'
  <2>1. TransportShape' /\ DisciplineInv'
    BY <1>2, TransportShapeStep, SystemIsTransport, DisciplineStep,
       SystemIsAnyPolicy
    DEF SystemShape
  <2>2. CallInStep'
    <3>1. CASE UNCHANGED systemVars
      BY <1>2, <3>1
      DEF SystemShape, CallInStep, systemVars, vars, caller, loopVars
    <3> QED
      BY <1>2, <3>1, CallInStepStep
  <2> QED
    BY <2>1, <2>2 DEF SystemShape
<1> QED
  BY <1>1, <1>2, PTL DEF SystemSpec

LEMMA SystemIsTransportSteps == SystemSpec => TransportSteps
<1>1. SystemInit => Init
  BY DEF SystemInit
<1> QED
  BY <1>1, SystemIsTransport, PTL DEF SystemSpec, TransportSteps

-----------------------------------------------------------------------------
(***************************************************************************)
(* What the assembled runtime guarantees over any transport.               *)
(***************************************************************************)

(* Every variable of the assembled runtime keeps its type, and a call of   *)
(* the transport happens only inside a call of infer by run().             *)
THEOREM SystemTypeCorrect == SystemSpec => []SystemTypeOK
<1>1. SystemShape => SystemTypeOK
  BY DEF SystemShape, SystemTypeOK, TransportShape, DisciplineInv, CallInStep
<1> QED
  BY <1>1, SystemShapeAlways, PTL

(* Whatever a transport answers about, the runtime over it is the control  *)
(* loop over some policy (runtime.py over official_openpi.py:45-61 over    *)
(* remote_client.py).                                                      *)
THEOREM SystemImplementsAnyPolicy == SystemSpec => AnyPolicySpec
<1>1. SystemInit => LoopInit
  BY DEF SystemInit
<1> QED
  BY <1>1, SystemIsAnyPolicy, SystemShapeAlways, PTL
  DEF SystemSpec, AnyPolicySpec

(* So even with a transport whose answers may be stale a hold ends its run *)
(* and is the last word of it, a run that ends early holds, the rows of an *)
(* answer reach the robot in order and within one run, no run executes     *)
(* half a validated chunk, and the metrics agree with the robot            *)
(* (runtime.py:56-99).                                                     *)
THEOREM SystemIsDisciplined ==
  SystemSpec => [](/\ HoldIsFinal
                   /\ UnfinishedRunHolds
                   /\ RowsOfOneAnswer
                   /\ ValidatedChunkIsExecutable
                   /\ MetricsTellTheRobot)
  BY SystemImplementsAnyPolicy, AnyPolicyIsDisciplined, PTL

(* ... and it keeps the promise of RecedingHorizon: after every answer at  *)
(* most the horizon and at most what the budget leaves (runtime.py:56-88). *)
THEOREM SystemImplementsRecedingHorizon ==
  SystemSpec => ImplementsRecedingHorizon
  BY SystemImplementsAnyPolicy, AnyPolicyIsRecedingHorizon, PTL

(* How many steps the robot-side thread can still take inside a run: to    *)
(* those of the loop the transport adds a start of a child and a request   *)
(* for each call, and no more.                                             *)
SystemStepsLeft ==
    3 * StepsLeft + CASE pc = "waiting"  -> 0
                      [] pc = "starting" -> 1
                      [] OTHER           -> 2

(* Inside a run every step of the robot-side thread brings the end of the  *)
(* run closer, whatever the children and the connection do meanwhile: no   *)
(* layer repeats a call, waits twice or starts a child twice for it        *)
(* (runtime.py:56-79, remote_client.py:137-202).                           *)
SystemRunsWindDown ==
    [][loop # "idle" => \/ SystemStepsLeft' < SystemStepsLeft
                        \/ UNCHANGED <<caller, loopVars, carried>>]_systemVars

LEMMA ThreadWindsDown ==
  ASSUME SystemShape, SystemNext, loop # "idle"
  PROVE  \/ SystemStepsLeft' < SystemStepsLeft
         \/ UNCHANGED <<caller, loopVars, carried>>
<1>0. StepsLeft \in Nat /\ StepsLeft' \in Nat
  <2>1. DisciplineInv'
    BY DisciplineStep, SystemIsAnyPolicy DEF SystemShape
  <2>2. (DisciplineInv => StepsLeft \in Nat)'
    BY StepsLeftIsNat, PTL
  <2> QED
    BY <2>1, <2>2, StepsLeftIsNat DEF SystemShape
<1>1. ASSUME StepsLeft' < StepsLeft
      PROVE  SystemStepsLeft' < SystemStepsLeft
  BY <1>0, <1>1 DEF SystemStepsLeft
<1>2. ASSUME UNCHANGED loopVars
      PROVE  StepsLeft' = StepsLeft
  BY <1>2 DEF StepsLeft, loopVars
<1>3. CASE CallTransport \/ ConnectionIsReady
  <2>1. /\ \/ pc = "idle" /\ pc' \in {"starting", "waiting"}
           \/ pc = "starting" /\ pc' = "waiting"
        /\ UNCHANGED loopVars
    BY <1>3, Zenon
    DEF CallTransport, ConnectionIsReady, InferOnLiveWorker,
        InferStartsWorker, StartupReady, Submit
  <2> QED
    BY <1>0, <1>2, <2>1 DEF SystemStepsLeft
<1>4. CASE ChildSteps
  BY <1>4, ChildrenOnly
<1>5. CASE TransportIsReset \/ RunStarts
  BY <1>5 DEF TransportIsReset, RunStarts, StartRun
<1>6. CASE RunGoesOn \/ BuildRaises \/ CallFails \/ AnswerIsRefused
           \/ AnswerIsDecoded \/ CallIsBroken
  <2>1. AnyPolicyNext
    BY <1>6, DecodedWasSent
    DEF RunGoesOn, BuildRaises, CallFails, AnswerIsRefused, CallIsBroken,
        AnyPolicyNext, LoopNext, Policy
  <2> QED
    BY <1>1, <2>1, StepWindsDown DEF SystemShape
<1> QED
  BY <1>3, <1>4, <1>5, <1>6 DEF SystemNext, RunSteps

(* SystemRunsWindDown: what EveryRunReturns needs of the steps themselves; *)
(* the rest of it is that the thread always has a step to take, which the  *)
(* deadlines of its waits provide.                                         *)
THEOREM SystemWindsDown == SystemSpec => SystemRunsWindDown
<1>1. SystemShape /\ [SystemNext]_systemVars
        => [loop # "idle" => \/ SystemStepsLeft' < SystemStepsLeft
                             \/ UNCHANGED <<caller, loopVars, carried>>
           ]_systemVars
  BY ThreadWindsDown
<1> QED
  BY <1>1, SystemShapeAlways, PTL DEF SystemSpec, SystemRunsWindDown

(* What was proved of the transport alone holds of the transport inside    *)
(* the runtime: no child is leaked, a retired one is never asked again, an *)
(* id disagrees only after an interrupt and a stale answer gets through    *)
(* only by a child kept after an error (remote_client.py:137-202).         *)
THEOREM SystemKeepsTransport ==
  SystemSpec => [](/\ NoChildIsLeaked
                   /\ RetiredIsNeverReused
                   /\ StaleReplyNeedsInterrupt
                   /\ StaleAnswerNeedsKeptChild)
  BY SystemIsTransportSteps, NoLeakSteps, RetiredSteps, StaleReplySteps,
     StaleAnswerSteps, PTL

(* An observation that waits to be sent is newer than all that were sent. *)
AskedUpToNow ==
    \A i \in 1..Len(carried) :
        /\ carried[i] <= observed
        /\ (loop = "calling" /\ pc = "idle") => carried[i] < observed

(* No layer sends an observation a second time (runtime.py:90-93,          *)
(* official_openpi.py:45-61, remote_client.py:137-158).                    *)
THEOREM ObservationsAreAskedOnce == SystemSpec => []ObservationIsAskedOnce
<1> DEFINE Asked == AskedUpToNow /\ ObservationIsAskedOnce
<1>1. SystemInit => Asked
  BY DEF SystemInit, AskedUpToNow, ObservationIsAskedOnce
<1>2. ASSUME SystemShape, Asked, SystemNext
      PROVE  Asked'
  <2>0. /\ carried \in Seq(Nat) /\ observed \in Nat
        /\ \A i \in 1..Len(carried) : carried[i] \in Nat
        /\ pc \in {"starting", "waiting"} => loop = "calling"
    BY <1>2, LoopNumbers DEF SystemShape, CallInStep, DisciplineInv
  <2>1. CASE CallTransport
    <3>1. /\ carried' = Append(carried, observed)
          /\ pc = "idle" /\ pc' # "idle"
          /\ loop = "calling" /\ observed' = observed
      BY <2>1 DEF CallTransport, InferOnLiveWorker, InferStartsWorker, Submit,
          loopVars
    <3>2. \A i \in 1..Len(carried) : carried[i] < observed
      BY <1>2, <3>1 DEF AskedUpToNow
    <3>3. /\ Len(carried') = Len(carried) + 1
          /\ carried'[Len(carried) + 1] = observed
          /\ \A i \in 1..Len(carried) : carried'[i] = carried[i]
          /\ \A i \in 1..Len(carried') :
                i = Len(carried) + 1 \/ i \in 1..Len(carried)
      BY <2>0, <3>1
    <3>4. AskedUpToNow'
      BY <2>0, <3>1, <3>2, <3>3 DEF AskedUpToNow
    <3>5. ObservationIsAskedOnce'
      BY <1>2, <2>0, <3>2, <3>3 DEF ObservationIsAskedOnce
    <3> QED
      BY <3>4, <3>5
  <2>2. CASE RequestPolicy /\ UNCHANGED <<vars, carried>>
    <3>1. observed' = observed + 1 /\ carried' = carried
      BY <2>2 DEF RequestPolicy
    <3> QED
      BY <1>2, <2>0, <3>1 DEF AskedUpToNow, ObservationIsAskedOnce
  <2>3. ASSUME UNCHANGED <<carried, observed>>,
               (loop' = "calling" /\ pc' = "idle")
                    => (loop = "calling" /\ pc = "idle")
        PROVE  Asked'
    BY <1>2, <2>3 DEF AskedUpToNow, ObservationIsAskedOnce
  <2>4. CASE RunStarts \/ (LoopAlone /\ UNCHANGED <<vars, carried>>)
    BY <2>3, <2>4
    DEF RunStarts, StartRun, LoopAlone, BudgetUsed, ExecuteAction,
        ActionRaises, FailSafeHold
  <2>5. CASE BuildRaises \/ CallFails \/ AnswerIsRefused
    BY <2>3, <2>5
    DEF BuildRaises, CallFails, AnswerIsRefused, PolicyRaises, FailSafeHold
  <2>6. CASE AnswerIsDecoded
    BY <2>3, <2>6 DEF AnswerIsDecoded, PolicyAnswers, FailSafeHold
  <2>7. CASE CallIsBroken
    BY <2>3, <2>7 DEF CallIsBroken, RunIsInterrupted
  <2>8. CASE ConnectionIsReady
    BY <2>3, <2>8 DEF ConnectionIsReady, StartupReady, Submit, loopVars
  <2>9. CASE TransportIsReset
    BY <2>3, <2>9 DEF TransportIsReset, loopVars
  <2>10. CASE ChildSteps
    BY <2>3, <2>10, ChildrenOnly DEF caller, loopVars
  <2> QED
    BY <1>2, <2>1, <2>2, <2>4, <2>5, <2>6, <2>7, <2>8, <2>9, <2>10
    DEF SystemNext, RunSteps, RunGoesOn
<1>3. Asked /\ UNCHANGED systemVars => Asked'
  BY DEF AskedUpToNow, ObservationIsAskedOnce, systemVars, vars, caller,
         loopVars
<1> QED
  BY <1>1, <1>2, <1>3, SystemShapeAlways, PTL DEF SystemSpec

(* Whichever layer fails, a run that ended early left the robot holding,   *)
(* unless KeyboardInterrupt ended it (runtime.py:59-63, 81-88).            *)
THEOREM FailedRunsHold == SystemSpec => []FailedRunHolds
<1>1. SystemInit => FailedRunHolds
  BY DEF SystemInit, LoopInit, FailedRunHolds
<1>2. ASSUME DisciplineInv, NEW reason, NEW counted, FailSafeHold(reason, counted),
             UNCHANGED run
      PROVE  FailedRunHolds'
  <2>1. holds \in Seq(Holds)
    BY <1>2 DEF DisciplineInv, LoopTypeOK
  <2>2. Len(holds) + 1 \in 1..Len(holds')
        /\ holds'[Len(holds) + 1].run = run
    BY <1>2, <2>1 DEF FailSafeHold
  <2> QED
    BY <1>2, <2>2 DEF FailedRunHolds
<1>3. ASSUME SystemShape, FailedRunHolds, SystemNext
      PROVE  FailedRunHolds'
  <2>1. DisciplineInv
    BY <1>3 DEF SystemShape
  <2>2. CASE loop' # "idle"
    BY <2>2 DEF FailedRunHolds
  <2>3. CASE PolicyRaises
    BY <1>2, <2>1, <2>3 DEF PolicyRaises
  <2>4. CASE RunGoesOn
    <3>1. CASE ActionRaises
      BY <1>2, <2>1, <3>1 DEF ActionRaises
    <3>2. CASE BudgetUsed
      BY <2>1, <3>2 DEF BudgetUsed, FailedRunHolds, DisciplineInv, LoopTypeOK
    <3>3. CASE RequestPolicy \/ ExecuteAction
      BY <2>2, <3>3 DEF RequestPolicy, ExecuteAction
    <3> QED
      BY <2>4, <3>1, <3>2, <3>3 DEF RunGoesOn, LoopAlone
  <2>5. CASE AnswerIsDecoded
    BY <1>2, <2>1, <2>2, <2>5 DEF AnswerIsDecoded, PolicyAnswers
  <2>6. CASE CallIsBroken
    BY <2>6 DEF CallIsBroken, CallIsInterrupted, Fail, Return,
        Abstract!Raised, FailedRunHolds
  <2>7. CASE CallTransport \/ ConnectionIsReady
    <3>1. loop' # "idle"
      BY <1>3, <2>7
      DEF CallTransport, ConnectionIsReady, StartupReady, SystemShape,
          CallInStep, loopVars
    <3> QED
      BY <2>2, <3>1
  <2>8. CASE TransportIsReset
    BY <1>3, <2>8
    DEF TransportIsReset, Reconnect, CloseBegins, CloseEnds, FailedRunHolds,
        loopVars
  <2>9. CASE ChildSteps
    BY <1>3, <2>9, ChildrenOnly DEF FailedRunHolds, caller, loopVars
  <2>10. CASE RunStarts
    BY <2>2, <2>10 DEF RunStarts, StartRun
  <2> QED
    BY <1>3, <2>3, <2>4, <2>5, <2>6, <2>7, <2>8, <2>9, <2>10
    DEF SystemNext, RunSteps, BuildRaises, CallFails, AnswerIsRefused
<1>4. FailedRunHolds /\ UNCHANGED systemVars => FailedRunHolds'
  BY DEF FailedRunHolds, systemVars, vars, caller, loopVars
<1> QED
  BY <1>1, <1>3, <1>4, SystemShapeAlways, PTL DEF SystemSpec

-----------------------------------------------------------------------------
(* The child in use had answered a request with an error before, and an    *)
(* earlier run had been ended by its policy, with a hold.                  *)
KeptAfterHold ==
    /\ <<process, "error">> \in failures
    /\ \E h \in 1..Len(holds) :
            holds[h].reason = "policy" /\ holds[h].run < run

(* If a transport may leave recv() with the reply unread, the robot can be *)
(* sent an action that was computed from an older observation; but only    *)
(* through a child kept after an error reply, in a later run than the one  *)
(* that error ended with a hold.  Within one run the robot never gets a    *)
(* stale action (runtime.py:81-93, remote_client.py:154-158).              *)
StaleActionNeedsKeptChild ==
    [][\A i \in 1..Len(commands') : i > Len(commands)
            => commands'[i].obs = observed \/ KeptAfterHold]_systemVars

(* Every error reply ended its run in a hold, and the rows of a stale      *)
(* answer wait to be executed only after such a hold.                      *)
ErrorsHeld ==
    (\E g \in Workers : <<g, "error">> \in failures)
        => \E h \in 1..Len(holds) : holds[h].reason = "policy"

StalePending ==
    loop = "executing" =>
        pending.obs = observed \/ <<process, "error">> \in failures

(* Holds are only added. *)
LEMMA HoldsGrow ==
  ASSUME DisciplineInv, [AnyPolicyNext]_loopVars,
         \E h \in 1..Len(holds) : holds[h].reason = "policy"
  PROVE  \E h \in 1..Len(holds') : holds'[h].reason = "policy"
<1>1. holds \in Seq(Holds)
  BY DEF DisciplineInv, LoopTypeOK
<1>2. CASE UNCHANGED holds
  BY <1>2
<1>3. CASE \E hold : holds' = Append(holds, hold)
  BY <1>1, <1>3
<1>4. CASE AnyPolicyNext
  BY <1>2, <1>3, <1>4, AnyPolicySteps
  DEF StartRun, RequestPolicy, BudgetUsed, ExecuteAction, ActionRaises,
      PolicyRaises, RunIsInterrupted, AnswersAboutAny, PolicyAnswers,
      FailSafeHold
<1> QED
  BY <1>2, <1>4 DEF loopVars

(* A reply that is an error, and nothing else, puts one on record. *)
LEMMA ErrorIsReported ==
  ASSUME [Next]_vars, NEW g, <<g, "error">> \in failures',
         <<g, "error">> \notin failures
  PROVE  ReplyIsError
  BY DEF Next, Caller, WaitEnds, InferOnLiveWorker, StartupReady,
         StartupFails, StartupTimesOut, InferStartsWorker, ReplyIsMalformed,
         ReplyIsMismatched, ReplyIsAnswer, RequestTimesOut,
         CallIsInterrupted, Reconnect, CloseBegins, CloseEnds, Fail, Return,
         TakeReply, vars, caller, Worker, Environment, WorkerConnects,
         WorkerCannotConnect, WorkerTakesClose, WorkerTakesRequest,
         WorkerSends, WorkerReceives, ReplyIsDropped, WorkerReportsError,
         ConnectionBreaks, WorkerExits, WorkerIsKilled, WorkerCrashes, Gone,
         children

LEMMA ErrorEndsRun ==
  ASSUME SystemShape, SystemNext, ReplyIsError
  PROVE  PolicyRaises
<1>1. pc = "waiting" /\ pc' = "idle" /\ UNCHANGED calls
      /\ outcome' = Abstract!Raised("error")
      /\ failures' = failures \cup {<<process, "error">>}
  BY DEF ReplyIsError, TakeReply, Fail, Return
<1>2. ~RunStarts /\ ~RunGoesOn /\ ~BuildRaises
  BY <1>1 DEF RunStarts, RunGoesOn, BuildRaises, vars, caller
<1>3. ~CallTransport /\ ~ConnectionIsReady /\ ~TransportIsReset
  BY <1>1 DEF CallTransport, InferOnLiveWorker, InferStartsWorker,
     ConnectionIsReady, StartupReady, Submit, TransportIsReset, Reconnect,
     CloseBegins, CloseEnds
<1>4. ~ChildSteps
  BY <1>1, ChildrenOnly DEF caller
<1>5. ~CallIsBroken /\ ~AnswerIsDecoded
  BY <1>1 DEF CallIsBroken, CallIsInterrupted, AnswerIsDecoded,
     ReplyIsAnswer, Fail, Return, Abstract!Raised, Abstract!Answer
<1> QED
  BY <1>2, <1>3, <1>4, <1>5
  DEF SystemNext, RunSteps, CallFails, AnswerIsRefused

LEMMA ErrorsHeldStep ==
  ASSUME SystemShape, ErrorsHeld, [SystemNext]_systemVars
  PROVE  ErrorsHeld'
<1>1. [AnyPolicyNext]_loopVars /\ [Next]_vars
  BY SystemIsAnyPolicy, SystemIsTransport
<1>2. CASE ReplyIsError
  <2>1. SystemNext
    BY <1>2 DEF ReplyIsError, TakeReply, Fail, Return, systemVars, vars, caller
  <2>2. PolicyRaises
    BY <1>2, <2>1, ErrorEndsRun
  <2>3. metrics \in MetricsSet
    BY LoopNumbers DEF SystemShape, DisciplineInv
  <2>4. holds' \in Seq(Holds) /\ holds' # <<>>
        /\ holds'[Len(holds')].reason = "policy"
    BY <2>2, <2>3, FailSafeHoldInv
    DEF PolicyRaises, SystemShape, Reasons, DisciplineInv, LoopTypeOK
  <2> QED
    BY <2>4 DEF ErrorsHeld
<1>3. CASE ~ReplyIsError
  <2>1. SUFFICES ASSUME NEW g \in Workers, <<g, "error">> \in failures'
                 PROVE  \E h \in 1..Len(holds') : holds'[h].reason = "policy"
    BY DEF ErrorsHeld
  <2>2. <<g, "error">> \in failures
    BY <1>1, <1>3, <2>1, ErrorIsReported
  <2> QED
    BY <1>1, <2>2, HoldsGrow DEF ErrorsHeld, SystemShape
<1> QED
  BY <1>2, <1>3

LEMMA StalePendingStep ==
  ASSUME SystemShape, StalePending, StaleAnswerNeedsKeptChild',
         [SystemNext]_systemVars
  PROVE  StalePending'
<1>1. CASE UNCHANGED systemVars
  BY <1>1 DEF StalePending, systemVars, vars, caller, loopVars
<1>2. CASE AnswerIsDecoded
  <2>1. /\ ReplyIsAnswer
        /\ pc = "waiting" /\ process # 0
        /\ UNCHANGED <<calls, process, failures, observed>>
    BY <1>2
    DEF AnswerIsDecoded, ReplyIsAnswer, TakeReply, SystemShape,
        TransportShape, CallBookkeeping, PolicyAnswers
  <2>2. outcome'.kind = "payload"
    BY <2>1, AnswerWasAskedFor DEF SystemShape, TransportShape
  <2>3. CASE outcome'.obs # calls
    BY <2>1, <2>2, <2>3 DEF StaleAnswerNeedsKeptChild, StalePending
  <2>4. CASE outcome'.obs = calls
    <3>1. carried[outcome'.obs] = observed
      BY <2>1, <2>4 DEF SystemShape, CallInStep
    <3>2. PICK chunk \in Chunks : PolicyAnswers(observed, chunk)
      BY <1>2, <3>1 DEF AnswerIsDecoded
    <3> QED
      BY <2>1, <3>2 DEF PolicyAnswers, FailSafeHold, StalePending
  <2> QED
    BY <2>3, <2>4
<1>3. CASE RunGoesOn
  <2>1. loop' = "executing" => loop = "executing"
            /\ pending'.obs = pending.obs /\ UNCHANGED observed
    <3>1. LoopTypeOK
      BY DEF SystemShape, DisciplineInv
    <3> QED
      BY <1>3, <3>1
      DEF RunGoesOn, RequestPolicy, LoopAlone, BudgetUsed, ExecuteAction,
          ActionRaises, FailSafeHold, LoopTypeOK
  <2> QED
    BY <1>3, <2>1 DEF RunGoesOn, StalePending, vars, caller
<1>4. CASE loop' # "executing"
  BY <1>4 DEF StalePending
<1>5. CASE UNCHANGED loopVars /\ loop # "executing"
  BY <1>4, <1>5 DEF loopVars
<1>6. CASE ChildSteps
  BY <1>6, ChildrenOnly DEF StalePending, caller, loopVars
<1>7. CASE CallTransport \/ ConnectionIsReady \/ TransportIsReset
  BY <1>5, <1>7
  DEF CallTransport, ConnectionIsReady, StartupReady, TransportIsReset,
      SystemShape, CallInStep
<1> QED
  BY <1>1, <1>2, <1>3, <1>4, <1>6, <1>7
  DEF SystemNext, RunSteps, RunStarts, StartRun, BuildRaises, CallFails,
      AnswerIsRefused, CallIsBroken, PolicyRaises, RunIsInterrupted,
      FailSafeHold

(* StaleActionNeedsKeptChild, whatever recv() may leave unread: the reply  *)
(* that is stale is one of a child with an error reply (StalePending), and *)
(* that error ended its run with a hold (ErrorsHeld), so the command is of *)
(* a later run (remote_client.py:154-158, runtime.py:81-93).               *)
THEOREM StaleActionsNeedAKeptChild == SystemSpec => StaleActionNeedsKeptChild
<1> DEFINE Inv == /\ SystemShape /\ StaleAnswerNeedsKeptChild
                  /\ ErrorsHeld /\ StalePending
           NewIsExcused == \A i \in 1..Len(commands') : i > Len(commands)
                => commands'[i].obs = observed \/ KeptAfterHold
<1>1. SystemInit => ErrorsHeld /\ StalePending
  BY DEF SystemInit, Init, LoopInit, ErrorsHeld, StalePending
<1>2. ASSUME Inv, SystemShape', StaleAnswerNeedsKeptChild',
             [SystemNext]_systemVars
      PROVE  ErrorsHeld' /\ StalePending'
  BY <1>2, ErrorsHeldStep, StalePendingStep
<1>3. ASSUME Inv, [SystemNext]_systemVars
      PROVE  NewIsExcused
  <2>1. commands \in Seq(Commands)
    BY <1>3 DEF SystemShape, DisciplineInv, LoopTypeOK
  <2>2. CASE UNCHANGED commands
    BY <2>1, <2>2
  <2>3. CASE ExecuteAction
    <3>1. PICK command : /\ commands' = Append(commands, command)
                         /\ command.obs = pending.obs
      BY <2>3 DEF ExecuteAction
    <3>2. loop = "executing"
      BY <2>3 DEF ExecuteAction
    <3>3. CASE pending.obs = observed
      BY <2>1, <3>1, <3>3
    <3>4. CASE <<process, "error">> \in failures
      <4>1. process \in Workers
        BY <1>3, <3>4 DEF SystemShape, TransportShape, TypeOK
      <4>2. \E h \in 1..Len(holds) : holds[h].reason = "policy"
        BY <1>3, <3>4, <4>1 DEF ErrorsHeld
      <4>3. KeptAfterHold
        BY <1>3, <3>2, <3>4, <4>2
        DEF KeptAfterHold, SystemShape, DisciplineInv, HoldsUpToNow
      <4> QED
        BY <4>3
    <3> QED
      BY <1>3, <3>2, <3>3, <3>4 DEF StalePending
  <2>4. CASE AnyPolicyNext
    BY <1>3, <2>2, <2>3, <2>4, AnyPolicySteps
    DEF SystemShape, StartRun, RequestPolicy, BudgetUsed, ActionRaises,
        PolicyRaises, RunIsInterrupted, AnswersAboutAny, PolicyAnswers
  <2> QED
    BY <1>3, <2>2, <2>4, SystemIsAnyPolicy DEF loopVars
<1>4. SystemSpec => []StaleAnswerNeedsKeptChild
  BY SystemIsTransportSteps, StaleAnswerSteps, PTL
<1> QED
  BY <1>1, <1>2, <1>3, <1>4, SystemShapeAlways, PTL
  DEF SystemSpec, StaleActionNeedsKeptChild

-----------------------------------------------------------------------------
(***************************************************************************)
(* What it guarantees in addition over a transport that never leaves       *)
(* recv() with the reply unread: fresh answers.                            *)
(***************************************************************************)
LEMMA DecodedIsAboutLatest ==
  ASSUME ~RecvMayAbort, SystemInv, AnswerIsDecoded
  PROVE  \E chunk \in Chunks : PolicyAnswers(observed, chunk)
<1>1. PayloadIsForThisCall' /\ calls' = calls
  BY CallerFresh
  DEF SystemInv, SystemShape, TransportShape, FreshInv, AnswerIsDecoded,
      ReplyIsAnswer, TakeReply, Caller, WaitEnds
<1>2. outcome'.obs = calls
  BY <1>1 DEF AnswerIsDecoded, ReplyIsAnswer, Return, Abstract!Answer,
      PayloadIsForThisCall
<1>3. carried[calls] = observed
  BY DEF SystemInv, SystemShape, CallInStep, AnswerIsDecoded, ReplyIsAnswer,
      TakeReply
<1> QED
  BY <1>2, <1>3 DEF AnswerIsDecoded

LEMMA SystemIsLoop ==
  ASSUME ~RecvMayAbort, SystemInv, [SystemNext]_systemVars
  PROVE  [LoopNext]_loopVars
  BY DecodedIsAboutLatest
  DEF SystemNext, RunStarts, RunSteps, RunGoesOn, BuildRaises,
      CallTransport, ConnectionIsReady, CallFails, AnswerIsRefused,
      CallIsBroken, TransportIsReset, ChildSteps, LoopNext, Policy, systemVars

LEMMA SystemInvAlways ==
  ASSUME ~RecvMayAbort
  PROVE  SystemSpec => []SystemInv
<1>1. SystemInit => FreshInv /\ LoopInv
  BY InitFresh, LoopInitInv DEF SystemInit
<1>2. ASSUME SystemInv, SystemShape', [SystemNext]_systemVars
      PROVE  SystemInv'
  <2>1. FreshInv'
    BY <1>2, FreshStep, SystemIsTransport DEF SystemInv, SystemShape
  <2>2. LoopInv'
    BY <1>2, LoopStep, SystemIsLoop DEF SystemInv
  <2> QED
    BY <1>2, <2>1, <2>2 DEF SystemInv
<1>3. SystemShape /\ FreshInv /\ LoopInv => SystemInv
  BY DEF SystemInv
<1> QED
  BY <1>1, <1>2, <1>3, SystemShapeAlways, PTL DEF SystemSpec

(* Over the process-owned transport the runtime behaves as ClosedLoop says *)
(* of a policy that always answers about the last observation: whatever    *)
(* holds of every behaviour of ClosedLoop holds of the assembled runtime   *)
(* (runtime.py over official_openpi.py:45-61 over remote_client.py).       *)
THEOREM SystemImplementsClosedLoop ==
  ASSUME ~RecvMayAbort
  PROVE  SystemSpec => ImplementsClosedLoop
<1>1. SystemInit => LoopInit
  BY DEF SystemInit
<1> QED
  BY <1>1, SystemIsLoop, SystemInvAlways, PTL
  DEF SystemSpec, LoopSpec, ImplementsClosedLoop

(* ... and so its transport behaves as PolicyCall says, its termination    *)
(* aside, and the robot receives rows of the newest chunk only, in order   *)
(* (remote_client.py:137-202, runtime.py:58-78).                           *)
THEOREM SystemImplementsPolicyCall ==
  ASSUME ~RecvMayAbort
  PROVE  SystemSpec => /\ Abstract!Init /\ [][Abstract!Next]_(Abstract!vars)
                       /\ []PayloadIsForThisCall
                       /\ []RowsOfLatestChunkInOrder
<1>1. SystemSpec => LoopSpec
  BY SystemImplementsClosedLoop DEF ImplementsClosedLoop
<1> QED
  BY <1>1, SystemIsTransportSteps, PolicyCallSteps, PayloadFreshSteps,
     OnlyRowsOfLatestChunk, PTL

(* The robot never executes an action that was computed from anything but  *)
(* the newest observation, for any number of runs, calls and children and  *)
(* under timeouts, crashes, lost connections and interrupts                *)
(* (runtime.py:58-78, remote_client.py:137-202).                           *)
THEOREM ExecutedActionsAreFresh ==
  ASSUME ~RecvMayAbort
  PROVE  SystemSpec => ExecutedActionIsFresh
<1> DEFINE NewIsFresh ==
        \A i \in 1..Len(commands') : i > Len(commands)
            => commands'[i].obs = observed
<1>1. ASSUME LoopInv, LoopNext
      PROVE  NewIsFresh
  <2>1. commands \in Seq(Commands)
    BY <1>1 DEF LoopInv, DisciplineInv, LoopTypeOK
  <2>2. CASE ExecuteAction
    <3>1. pending.obs = observed
      BY <1>1, <2>2 DEF ExecuteAction, LoopInv, CommandsUpToNow
    <3>2. PICK command : /\ commands' = Append(commands, command)
                         /\ command.obs = pending.obs
      BY <2>2 DEF ExecuteAction
    <3> QED
      BY <2>1, <3>1, <3>2
  <2>3. CASE UNCHANGED commands
    BY <2>1, <2>3
  <2> QED
    BY <1>1, <2>2, <2>3
    DEF LoopNext, LoopAlone, Policy, StartRun, BudgetUsed, RequestPolicy,
        PolicyRaises, RunIsInterrupted, PolicyAnswers, ActionRaises
<1>2. SystemInv /\ [SystemNext]_systemVars => NewIsFresh
  <2> SUFFICES ASSUME SystemInv, [SystemNext]_systemVars PROVE NewIsFresh
    OBVIOUS
  <2>1. [LoopNext]_loopVars
    BY SystemIsLoop DEF systemVars
  <2>2. CASE UNCHANGED loopVars
    BY <2>2 DEF loopVars, SystemInv, SystemShape, DisciplineInv, LoopTypeOK
  <2> QED
    BY <1>1, <2>1, <2>2 DEF SystemInv
<1> QED
  BY <1>2, SystemInvAlways, PTL DEF SystemSpec, ExecutedActionIsFresh
=============================================================================

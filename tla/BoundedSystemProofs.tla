------------------------- MODULE BoundedSystemProofs -------------------------
(***************************************************************************)
(* Proofs about the runtime over the thread-bounded client, for every      *)
(* number of runs, calls and transports.                                   *)
(***************************************************************************)
EXTENDS BoundedSystem, BoundedClientProofs, ClosedLoopProofs, SequenceTheorems

(* A payload, read or still on a socket, answers a request that was sent. *)
PayloadsWereAskedFor ==
    /\ \A k \in Connections : wire[k] \in Seq(sent)
    /\ \A c \in Threads : result[c].kind = "payload" => result[c].obs \in sent

ClientInv == BoundedInv /\ PayloadsWereAskedFor

(* The synchronous call that links the two halves. *)
BoundedCallInStep ==
    /\ carried \in Seq(Nat)
    /\ Len(carried) = calls
    /\ program \in {"running", "exiting", "gone"}
    /\ waiting => loop = "calling" /\ carried[calls] = observed

-----------------------------------------------------------------------------
LEMMA FutureAskedFor ==
  ASSUME BoundedInv, PayloadsWereAskedFor, NEW c \in Threads,
         NEW r \in Results, FutureIsDone(c, r),
         sent \subseteq sent',
         r.kind = "payload" => r.obs \in sent,
         \A k \in Connections : wire'[k] \in Seq(sent')
  PROVE  PayloadsWereAskedFor'
<1>1. \A d \in Threads : result'[d] = r \/ result'[d] = result[d]
  BY DEF FutureIsDone, BoundedInv, BoundedTypeOK
<1> QED
  BY <1>1 DEF PayloadsWereAskedFor

LEMMA SentGrows ==
  ASSUME BoundedInv, PayloadsWereAskedFor, NEW c \in Threads,
         sent' = sent \cup {c},
         wire' = [wire EXCEPT ![uses[c]] = Append(@, c)]
  PROVE  \A k \in Connections : wire'[k] \in Seq(sent')
<1> SUFFICES ASSUME NEW k \in Connections
             PROVE  wire'[k] \in Seq(sent')
  OBVIOUS
<1>1. wire[k] \in Seq(sent')
  BY SeqMonotonic DEF PayloadsWereAskedFor
<1>2. Append(wire[k], c) \in Seq(sent')
  BY <1>1, AppendProperties
<1>3. wire'[k] = wire[k] \/ wire'[k] = Append(wire[k], c)
  BY DEF BoundedInv, BoundedTypeOK
<1> QED
  BY <1>1, <1>2, <1>3

LEMMA AskedForStep ==
  ASSUME BoundedInv, PayloadsWereAskedFor, [BoundedNext]_boundedVars
  PROVE  PayloadsWereAskedFor'
<1>1. CASE UNCHANGED <<result, sent, wire>>
  BY <1>1 DEF PayloadsWereAskedFor
<1>2. ASSUME NEW c \in Threads, ThreadSends(c)
      PROVE  PayloadsWereAskedFor'
  <2>1. \A k \in Connections : wire'[k] \in Seq(sent')
    BY <1>2, SentGrows DEF ThreadSends
  <2>2. sent \subseteq sent' /\ result' = result
    BY <1>2 DEF ThreadSends
  <2> QED
    BY <2>1, <2>2 DEF PayloadsWereAskedFor
<1>3. ASSUME NEW c \in Threads, ThreadReceives(c)
      PROVE  PayloadsWereAskedFor'
  <2>1. PICK r \in {Payload(Head(wire[uses[c]])), NotADict, Error} :
            FutureIsDone(c, r)
    BY <1>3 DEF ThreadReceives
  <2>2. uses[c] \in Connections /\ wire[uses[c]] # <<>>
    BY <1>3 DEF ThreadReceives, BoundedInv, BoundedTypeOK
  <2>3. /\ Head(wire[uses[c]]) \in sent
        /\ Tail(wire[uses[c]]) \in Seq(sent)
    BY <2>2, HeadTailProperties DEF PayloadsWereAskedFor
  <2>4. \A k \in Connections :
            wire'[k] = wire[k] \/ wire'[k] = Tail(wire[uses[c]])
    BY <1>3, <2>2 DEF ThreadReceives, BoundedInv, BoundedTypeOK
  <2>5. sent' = sent
    BY <1>3 DEF ThreadReceives
  <2>6. sent \subseteq Threads
    BY DEF BoundedInv, BoundedTypeOK
  <2>7. r \in Results /\ (r.kind = "payload" => r.obs \in sent)
    BY <2>1, <2>3, <2>6, ResultTypes DEF Payload, NotADict, Error
  <2> QED
    BY <2>1, <2>3, <2>4, <2>5, <2>7, FutureAskedFor DEF PayloadsWereAskedFor
<1>4. ASSUME NEW c \in Threads,
             ThreadIsRefused(c) \/ ThreadRaises(c) \/ ThreadTimesOut(c)
      PROVE  PayloadsWereAskedFor'
  <2>1. PICK r \in {Error, TimedOut} : FutureIsDone(c, r)
    BY <1>4 DEF ThreadIsRefused, ThreadRaises, ThreadTimesOut
  <2>2. r \in Results /\ r.kind # "payload"
    BY <2>1, ResultTypes DEF Error, TimedOut
  <2>3. /\ sent \subseteq sent'
        /\ \A k \in Connections : wire'[k] \in Seq(sent')
    BY <1>4, SentGrows
    DEF ThreadIsRefused, ThreadRaises, ThreadTimesOut, PayloadsWereAskedFor
  <2> QED
    BY <2>1, <2>2, <2>3, FutureAskedFor
<1>5. ASSUME NEW k \in Connections, ConnectionBreaks(k)
      PROVE  PayloadsWereAskedFor'
  <2>1. \A j \in Connections : wire'[j] = wire[j] \/ wire'[j] = <<>>
    BY <1>5 DEF ConnectionBreaks, BoundedInv, BoundedTypeOK
  <2>2. sent' = sent /\ result' = result /\ <<>> \in Seq(sent)
    BY <1>5 DEF ConnectionBreaks
  <2> QED
    BY <2>1, <2>2 DEF PayloadsWereAskedFor
<1>6. CASE BoundedCaller \/ \E c \in Threads : ThreadBegins(c)
  BY <1>1, <1>6
  DEF BoundedCaller, WaitEnds, Infer, NewConnection, ResultIsPayload,
      ResultIsError, ResultIsTimeoutError, DeadlineExpires,
      CallIsInterrupted, threadVars, ThreadBegins
<1>7. CASE UNCHANGED boundedVars
  BY <1>1, <1>7 DEF boundedVars, threadVars
<1> QED
  BY <1>2, <1>3, <1>4, <1>5, <1>6, <1>7 DEF BoundedNext, Thread

LEMMA ClientStep ==
  ASSUME ClientInv, [BoundedNext]_boundedVars
  PROVE  ClientInv'
  BY BoundedStepInv, AskedForStep DEF ClientInv

(* What infer returns answers a call made so far; the one in progress, if  *)
(* no earlier call over the same transport was left unconfirmed.           *)
LEMMA PayloadOfSomeCall ==
  ASSUME ClientInv, ResultIsPayload
  PROVE  /\ waiting
         /\ outcome'.obs \in 1..calls
         /\ UNCHANGED <<calls, unconfirmed, uses>>
         /\ \/ outcome'.obs = calls
            \/ \E c \in unconfirmed : c < calls /\ uses[c] = uses[calls]
<1>1. /\ waiting /\ thread[calls] = "done" /\ result[calls].kind = "payload"
      /\ outcome' = Call!Answer(result[calls].obs)
      /\ UNCHANGED <<calls, unconfirmed, uses>>
  BY DEF ResultIsPayload, Finished, Return, threadVars
<1>2. calls \in Threads
  BY <1>1, BoundedAssumption
  DEF ClientInv, BoundedInv, BoundedTypeOK, ThreadsInStep, Threads
<1>3. result[calls].obs \in sent
  BY <1>1, <1>2 DEF ClientInv, PayloadsWereAskedFor
<1>4. sent \subseteq 1..calls
  <2> SUFFICES ASSUME NEW c \in sent
               PROVE  c \in 1..calls
    OBVIOUS
  <2>1. c \in Nat /\ c > 0 /\ c \in Threads /\ calls \in Nat
    BY BoundedAssumption DEF ClientInv, BoundedInv, BoundedTypeOK, Threads
  <2>2. ~(c > calls)
    BY <2>1 DEF ClientInv, BoundedInv, ThreadsInStep
  <2> QED
    BY <2>1, <2>2
<1>5. outcome'.kind = "payload" /\ outcome'.obs = result[calls].obs
  BY <1>1 DEF Call!Answer
<1>6. StaleNeedsUnconfirmed'
  BY BoundedStepInv
  DEF ClientInv, BoundedInv, BoundedNext, BoundedCaller, WaitEnds
<1> QED
  BY <1>1, <1>3, <1>4, <1>5, <1>6 DEF StaleNeedsUnconfirmed
-----------------------------------------------------------------------------
(* Every unconfirmed call ended its run: with a hold, or by an interrupt.  *)
FailedBefore(limit) ==
    \/ \E h \in 1..Len(holds) :
            holds[h].run <= limit /\ holds[h].reason = "policy"
    \/ \E k \in 1..Len(interrupted) : interrupted[k] <= limit

OlderCallUnconfirmed ==
    \E c \in unconfirmed : c < calls /\ uses[c] = uses[calls]

(* Where a stale chunk may come from. *)
StaleInStep ==
    /\ unconfirmed # {} =>
            FailedBefore(IF loop = "idle" THEN run ELSE run - 1)
    /\ loop = "executing" => pending.obs = observed \/ OlderCallUnconfirmed

BoundedSystemInv == ClientInv /\ DisciplineInv /\ BoundedCallInStep

-----------------------------------------------------------------------------
LEMMA BoundedSystemIsClient ==
  BoundedSystemNext => [BoundedNext]_boundedVars
  BY DEF BoundedSystemNext, BoundedRunStarts, BoundedRunSteps,
         BoundedRunGoesOn, BuildRaises, CallClient, ClientRaises,
         AnswerIsRefused, AnswerIsDecoded, CallIsBroken, ClientIsReplaced,
         ThreadSteps, ExitBegins, ThreadsAreJoined, BoundedNext,
         BoundedCaller, WaitEnds

LEMMA CallReturns ==
  ASSUME \/ ResultIsError \/ ResultIsTimeoutError \/ DeadlineExpires
         \/ ResultIsPayload \/ CallIsInterrupted
  PROVE  waiting /\ ~waiting' /\ calls' = calls
  BY DEF ResultIsError, ResultIsTimeoutError, DeadlineExpires,
         ResultIsPayload, CallIsInterrupted, Unconfirmed, Return

(* The decoded answer is a chunk about an observation that was taken. *)
LEMMA DecodedChunk ==
  ASSUME BoundedSystemInv, AnswerIsDecoded
  PROVE  /\ carried[outcome'.obs] \in Nat
         /\ \E chunk \in Chunks : PolicyAnswers(carried[outcome'.obs], chunk)
         /\ \/ carried[outcome'.obs] = observed
            \/ OlderCallUnconfirmed /\ UNCHANGED <<calls, unconfirmed, uses>>
<1>1. /\ waiting /\ outcome'.obs \in 1..calls
      /\ UNCHANGED <<calls, unconfirmed, uses>>
      /\ outcome'.obs = calls \/ OlderCallUnconfirmed
  BY PayloadOfSomeCall
  DEF BoundedSystemInv, AnswerIsDecoded, OlderCallUnconfirmed
<1>2. /\ carried \in Seq(Nat) /\ Len(carried) = calls
      /\ carried[calls] = observed
  BY <1>1 DEF BoundedSystemInv, BoundedCallInStep
<1> QED
  BY <1>1, <1>2 DEF AnswerIsDecoded

LEMMA CallInStepStepBounded ==
  ASSUME BoundedSystemInv, BoundedSystemNext
  PROVE  BoundedCallInStep'
<1>0. /\ BoundedCallInStep
      /\ observed \in Nat /\ calls \in Nat
  BY BoundedAssumption
  DEF BoundedSystemInv, DisciplineInv, LoopTypeOK, ClientInv, BoundedInv,
      BoundedTypeOK
<1>1. CASE BoundedRunStarts \/ BuildRaises
  BY <1>0, <1>1
  DEF BoundedCallInStep, BoundedRunStarts, BuildRaises, StartRun,
      PolicyRaises, boundedVars, callerVars
<1>2. CASE BoundedRunGoesOn
  <2>1. loop # "calling"
    BY <1>2 DEF BoundedRunGoesOn, RequestPolicy, LoopAlone, BudgetUsed,
        ExecuteAction, ActionRaises
  <2> QED
    BY <1>0, <1>2, <2>1
    DEF BoundedCallInStep, BoundedRunGoesOn, boundedVars, callerVars
<1>3. CASE CallClient
  <2>1. /\ calls' = calls + 1 /\ loop = "calling" /\ loop' = loop
        /\ observed' = observed /\ carried' = Append(carried, observed)
        /\ program' = program
    BY <1>3 DEF CallClient, Infer, loopVars
  <2> QED
    BY <1>0, <2>1 DEF BoundedCallInStep
<1>4. CASE ClientRaises \/ AnswerIsRefused \/ AnswerIsDecoded \/ CallIsBroken
  BY <1>0, <1>4, CallReturns
  DEF BoundedCallInStep, ClientRaises, AnswerIsRefused, AnswerIsDecoded,
      CallIsBroken
<1>5. CASE ClientIsReplaced
  BY <1>0, <1>5 DEF ClientIsReplaced, NewConnection, BoundedCallInStep, loopVars
<1>6. CASE ThreadSteps
  <2>1. UNCHANGED callerVars
    BY <1>6
    DEF ThreadSteps, Thread, ThreadBegins, ThreadSends, ThreadReceives,
        ThreadIsRefused, ThreadRaises, ThreadTimesOut, FutureIsDone,
        ConnectionBreaks
  <2> QED
    BY <1>0, <1>6, <2>1
    DEF ThreadSteps, BoundedCallInStep, callerVars, loopVars
<1>7. CASE ExitBegins \/ ThreadsAreJoined
  BY <1>0, <1>7
  DEF ExitBegins, ThreadsAreJoined, BoundedCallInStep, boundedVars,
      callerVars, loopVars
<1> QED
  BY <1>1, <1>2, <1>3, <1>4, <1>5, <1>6, <1>7
  DEF BoundedSystemNext, BoundedRunSteps

LEMMA BoundedSystemIsAnyPolicy ==
  ASSUME BoundedSystemInv, [BoundedSystemNext]_boundedSystemVars
  PROVE  [AnyPolicyNext]_loopVars
<1>1. AnswerIsDecoded => AnswersAboutAny
  BY DecodedChunk DEF AnswersAboutAny
<1> QED
  BY <1>1
  DEF BoundedSystemNext, BoundedRunStarts, BoundedRunSteps,
      BoundedRunGoesOn, BuildRaises, CallClient, ClientRaises,
      AnswerIsRefused, CallIsBroken, ClientIsReplaced, ThreadSteps,
      ExitBegins, ThreadsAreJoined, AnyPolicyNext, LoopNext, Policy,
      boundedSystemVars

LEMMA BoundedSystemInvAlways == BoundedSystemSpec => []BoundedSystemInv
<1>1. BoundedSystemInit => BoundedSystemInv
  <2> SUFFICES ASSUME BoundedSystemInit PROVE BoundedSystemInv
    OBVIOUS
  <2>1. ClientInv
    <3>1. BoundedInv
      BY BoundedInitInv DEF BoundedSystemInit
    <3>2. PayloadsWereAskedFor
      BY DEF BoundedSystemInit, BoundedInit, PayloadsWereAskedFor, Error
    <3> QED
      BY <3>1, <3>2 DEF ClientInv
  <2>2. DisciplineInv
    BY LoopInitInv DEF BoundedSystemInit, LoopInv
  <2> QED
    BY <2>1, <2>2
    DEF BoundedSystemInit, BoundedInit, BoundedSystemInv, BoundedCallInStep
<1>2. BoundedSystemInv /\ BoundedSystemNext => BoundedSystemInv'
  BY BoundedSystemIsClient, ClientStep, DisciplineStep,
     BoundedSystemIsAnyPolicy, CallInStepStepBounded
  DEF BoundedSystemInv
<1>3. BoundedSystemInv /\ UNCHANGED boundedSystemVars => BoundedSystemInv'
  <2> SUFFICES ASSUME BoundedSystemInv, UNCHANGED boundedSystemVars
               PROVE  BoundedSystemInv'
    OBVIOUS
  <2>1. ClientInv'
    BY ClientStep DEF BoundedSystemInv, boundedSystemVars
  <2>2. DisciplineInv'
    BY DisciplineStep DEF BoundedSystemInv, boundedSystemVars
  <2> QED
    BY <2>1, <2>2
    DEF BoundedSystemInv, BoundedCallInStep, boundedSystemVars, boundedVars,
        callerVars, loopVars
<1> QED
  BY <1>1, <1>2, <1>3, PTL DEF BoundedSystemSpec

(* Every variable of the runtime over the thread-bounded client keeps its  *)
(* type, and a call of the client happens only inside a call of infer by   *)
(* run() (official_openpi.py:45-61).                                       *)
THEOREM BoundedSystemTypeCorrect == BoundedSystemSpec => []BoundedSystemTypeOK
<1>1. BoundedSystemInv => BoundedSystemTypeOK
  BY DEF BoundedSystemInv, BoundedSystemTypeOK, ClientInv, BoundedInv,
         DisciplineInv, BoundedCallInStep
<1> QED
  BY <1>1, BoundedSystemInvAlways, PTL

(* The client inside the runtime keeps what was proved of it alone: about  *)
(* stale answers, late requests and threads that share a socket            *)
(* (remote_client.py:43-66).                                               *)
THEOREM BoundedSystemStaleNeedsUnconfirmed ==
  BoundedSystemSpec =>
    [](StaleNeedsUnconfirmed /\ LateRequestIsUnconfirmed /\ OneThreadPerSocket)
<1>1. BoundedSystemInv =>
        StaleNeedsUnconfirmed /\ LateRequestIsUnconfirmed /\ OneThreadPerSocket
  BY OneThreadInv
  DEF BoundedSystemInv, ClientInv, BoundedInv, ThreadsInStep,
      LateRequestIsUnconfirmed, Running
<1> QED
  BY <1>1, BoundedSystemInvAlways, PTL

-----------------------------------------------------------------------------
(* How many steps the robot-side thread can still take inside a run: to    *)
(* those of the loop the client adds one for each call.                    *)
BoundedStepsLeft == 2 * StepsLeft + IF waiting THEN 0 ELSE 1

(* Inside a run every step of the robot-side thread brings the end of the  *)
(* run closer, whatever the threads of this and of earlier calls do: no    *)
(* call is repeated after its deadline (runtime.py:56-79,                  *)
(* remote_client.py:53-70).                                                *)
BoundedRunsWindDown ==
    [][loop # "idle" =>
            \/ BoundedStepsLeft' < BoundedStepsLeft
            \/ UNCHANGED <<callerVars, loopVars, carried>>]_boundedSystemVars

LEMMA TwiceLess ==
  ASSUME NEW m \in Nat, NEW n \in Nat, m < n, NEW a \in 0..1, NEW b \in 0..1
  PROVE  2 * m + a < 2 * n + b
OBVIOUS

LEMMA BoundedThreadWindsDown ==
  ASSUME BoundedSystemInv, BoundedSystemNext, loop # "idle"
  PROVE  \/ BoundedStepsLeft' < BoundedStepsLeft
         \/ UNCHANGED <<callerVars, loopVars, carried>>
<1>0. StepsLeft \in Nat /\ StepsLeft' \in Nat
  <2>1. DisciplineInv'
    BY DisciplineStep, BoundedSystemIsAnyPolicy DEF BoundedSystemInv
  <2>2. (DisciplineInv => StepsLeft \in Nat)'
    BY StepsLeftIsNat, PTL
  <2> QED
    BY <2>1, <2>2, StepsLeftIsNat DEF BoundedSystemInv
<1>1. ASSUME StepsLeft' < StepsLeft
      PROVE  BoundedStepsLeft' < BoundedStepsLeft
  <2>1. (IF waiting THEN 0 ELSE 1) \in 0..1 /\ (IF waiting' THEN 0 ELSE 1) \in 0..1
    OBVIOUS
  <2> QED
    BY <1>0, <1>1, <2>1, TwiceLess DEF BoundedStepsLeft
<1>2. CASE CallClient
  <2>1. /\ ~waiting /\ waiting' /\ UNCHANGED loopVars
    BY <1>2 DEF CallClient, Infer
  <2>2. StepsLeft' = StepsLeft
    BY <2>1 DEF StepsLeft, loopVars
  <2> QED
    BY <1>0, <2>1, <2>2 DEF BoundedStepsLeft
<1>3. CASE ThreadSteps
  BY <1>3
  DEF ThreadSteps, Thread, ThreadBegins, ThreadSends, ThreadReceives,
      ThreadIsRefused, ThreadRaises, ThreadTimesOut, FutureIsDone,
      ConnectionBreaks
<1>4. CASE ClientIsReplaced \/ BoundedRunStarts \/ ExitBegins
  BY <1>4 DEF ClientIsReplaced, BoundedRunStarts, StartRun, ExitBegins
<1>5. CASE ThreadsAreJoined
  BY <1>5 DEF ThreadsAreJoined, boundedVars
<1>6. CASE BoundedRunGoesOn \/ BuildRaises \/ ClientRaises \/ AnswerIsRefused
           \/ AnswerIsDecoded \/ CallIsBroken
  <2>1. AnyPolicyNext
    BY <1>6, DecodedChunk
    DEF BoundedRunGoesOn, BuildRaises, ClientRaises, AnswerIsRefused,
        CallIsBroken, AnyPolicyNext, LoopNext, Policy, AnswersAboutAny
  <2> QED
    BY <1>1, <2>1, StepWindsDown DEF BoundedSystemInv
<1> QED
  BY <1>2, <1>3, <1>4, <1>5, <1>6 DEF BoundedSystemNext, BoundedRunSteps

(* BoundedRunsWindDown: what EveryBoundedRunReturns needs of the steps     *)
(* themselves; the rest of it is that the thread always has a step to      *)
(* take, which the timeout of future.result provides.                      *)
THEOREM BoundedSystemWindsDown == BoundedSystemSpec => BoundedRunsWindDown
<1>1. BoundedSystemInv /\ [BoundedSystemNext]_boundedSystemVars
        => [loop # "idle" =>
                \/ BoundedStepsLeft' < BoundedStepsLeft
                \/ UNCHANGED <<callerVars, loopVars, carried>>
           ]_boundedSystemVars
  BY BoundedThreadWindsDown
<1> QED
  BY <1>1, BoundedSystemInvAlways, PTL
  DEF BoundedSystemSpec, BoundedRunsWindDown

(* Once the main thread has ended no call is in progress, and the threads  *)
(* the exit of the interpreter waits for are those of calls that were      *)
(* reported as unconfirmed; when it is gone none is left                   *)
(* (remote_client.py:57-66).                                               *)
ExitWaitsForUnconfirmed ==
    /\ program # "running" =>
            \A c \in Threads : Running(c) => c \in unconfirmed
    /\ program = "gone" => \A c \in Threads : ~Running(c)

(* ExitWaitsForUnconfirmed: what ExitHangsOnUnconfirmedOnly says of the    *)
(* states of a program that is exiting, for any number of calls.           *)
THEOREM ExitsWaitForUnconfirmed == BoundedSystemSpec => []ExitWaitsForUnconfirmed
<1> DEFINE Gone == /\ program # "running" => loop = "idle"
                   /\ program = "gone" => \A c \in Threads : ~Running(c)
<1>1. BoundedSystemInit => Gone
  BY DEF BoundedSystemInit
<1>2. ASSUME BoundedSystemInv, Gone, [BoundedSystemNext]_boundedSystemVars
      PROVE  Gone'
  <2>1. CASE program' # program
    BY <1>2, <2>1
    DEF BoundedSystemNext, BoundedRunStarts, BoundedRunSteps,
        BoundedRunGoesOn, BuildRaises, CallClient, ClientRaises,
        AnswerIsRefused, AnswerIsDecoded, CallIsBroken, ClientIsReplaced,
        ThreadSteps, ExitBegins, ThreadsAreJoined, boundedSystemVars,
        boundedVars, threadVars, loopVars, Running
  <2>2. CASE program' = "running"
    BY <2>2
  <2>3. CASE program' = program /\ program # "running"
    <3>1. loop = "idle" /\ ~waiting
      BY <1>2, <2>3 DEF BoundedSystemInv, BoundedCallInStep
    <3>2. ThreadSteps \/ UNCHANGED <<loopVars, thread>>
      BY <1>2, <2>3, <3>1, CallReturns
      DEF BoundedSystemNext, BoundedRunStarts, BoundedRunSteps,
          BoundedRunGoesOn, RequestPolicy, LoopAlone, BudgetUsed,
          ExecuteAction, ActionRaises, BuildRaises, PolicyRaises,
          CallClient, ClientRaises, AnswerIsRefused, AnswerIsDecoded,
          CallIsBroken, ClientIsReplaced, ExitBegins, ThreadsAreJoined,
          boundedSystemVars, boundedVars, threadVars
    <3>3. loop' = "idle"
      BY <3>1, <3>2 DEF ThreadSteps, loopVars
    <3>4. ASSUME program = "gone", NEW c \in Threads
          PROVE  ~Running(c)'
      <4>1. \A d \in Threads :
                thread[d] \notin {"submitted", "sending", "receiving"}
        <5>1. \A d \in Threads : d > calls \/ d \in 1..calls
          BY <1>2, BoundedAssumption
          DEF BoundedSystemInv, ClientInv, BoundedInv, BoundedTypeOK, Threads
        <5> QED
          BY <1>2, <3>1, <3>4, <5>1
          DEF Running, BoundedSystemInv, ClientInv, BoundedInv, ThreadsInStep
      <4>2. UNCHANGED thread
        BY <3>2, <4>1
        DEF ThreadSteps, Thread, ThreadBegins, ThreadSends, ThreadReceives,
            ThreadIsRefused, ThreadRaises, ThreadTimesOut, ConnectionBreaks
      <4> QED
        BY <1>2, <3>4, <4>2 DEF Running
    <3> QED
      BY <2>3, <3>3, <3>4
  <2> QED
    BY <2>1, <2>2, <2>3
<1>3. BoundedSystemInv /\ Gone => ExitWaitsForUnconfirmed
  <2> SUFFICES ASSUME BoundedSystemInv, Gone, program # "running",
                      NEW c \in Threads, Running(c)
               PROVE  c \in unconfirmed
    BY DEF ExitWaitsForUnconfirmed
  <2>1. ~waiting
    BY DEF BoundedSystemInv, BoundedCallInStep
  <2>2. c \in 1..calls
    BY BoundedAssumption
    DEF BoundedSystemInv, ClientInv, BoundedInv, BoundedTypeOK,
        ThreadsInStep, Threads, Running
  <2> QED
    BY <2>1, <2>2
    DEF BoundedSystemInv, ClientInv, BoundedInv, ThreadsInStep, Running
<1> QED
  BY <1>1, <1>2, <1>3, BoundedSystemInvAlways, PTL DEF BoundedSystemSpec

-----------------------------------------------------------------------------
LEMMA FailuresStay ==
  ASSUME LoopTypeOK, LoopTypeOK', NEW m \in Int, NEW n \in Int, m <= n,
         FailedBefore(m),
         holds' = holds \/ \E hold \in Holds : holds' = Append(holds, hold),
         interrupted' = interrupted
            \/ \E r \in 1..MaxRuns : interrupted' = Append(interrupted, r)
  PROVE  \/ \E h \in 1..Len(holds') :
                holds'[h].run <= n /\ holds'[h].reason = "policy"
         \/ \E k \in 1..Len(interrupted') : interrupted'[k] <= n
<1>1. /\ holds \in Seq(Holds) /\ interrupted \in Seq(1..MaxRuns)
      /\ MaxRuns \in Nat
  BY LoopBounds DEF LoopTypeOK
<1>2. /\ Len(holds) <= Len(holds')
      /\ \A h \in 1..Len(holds) : holds'[h] = holds[h]
      /\ Len(holds') \in Nat /\ Len(holds) \in Nat
  BY <1>1
<1>3. /\ Len(interrupted) <= Len(interrupted')
      /\ \A k \in 1..Len(interrupted) : interrupted'[k] = interrupted[k]
      /\ Len(interrupted') \in Nat /\ Len(interrupted) \in Nat
  <2>1. ASSUME NEW r \in 1..MaxRuns, interrupted' = Append(interrupted, r)
        PROVE  /\ Len(interrupted') = Len(interrupted) + 1
               /\ \A k \in 1..Len(interrupted) : interrupted'[k] = interrupted[k]
    BY <1>1, <2>1, AppendProperties
  <2>2. Len(interrupted) \in Nat
    BY <1>1, LenProperties
  <2> QED
    BY <2>1, <2>2
<1>4. ASSUME NEW h \in 1..Len(holds), holds[h].run <= m,
             holds[h].reason = "policy"
      PROVE  \E g \in 1..Len(holds') :
                holds'[g].run <= n /\ holds'[g].reason = "policy"
  <2>1. holds[h].run \in Int
    BY NumbersOfRecords
  <2>2. h \in 1..Len(holds') /\ holds'[h] = holds[h]
    BY <1>2
  <2> QED
    BY <1>4, <2>1, <2>2
<1>5. ASSUME NEW k \in 1..Len(interrupted), interrupted[k] <= m
      PROVE  \E j \in 1..Len(interrupted') : interrupted'[j] <= n
  <2>1. interrupted[k] \in Int
    BY <1>1, ElementOfSeq
  <2>2. k \in 1..Len(interrupted') /\ interrupted'[k] = interrupted[k]
    BY <1>3
  <2> QED
    BY <1>5, <2>1, <2>2
<1> QED
  BY <1>4, <1>5 DEF FailedBefore

(* The hold a failed call leads to is a failure of this run. *)
LEMMA HoldIsAFailure ==
  ASSUME BoundedSystemInv, PolicyRaises
  PROVE  /\ loop' = "idle" /\ run' = run
         /\ \E h \in 1..Len(holds') :
                holds'[h].run <= run /\ holds'[h].reason = "policy"
<1>1. DisciplineInv /\ LoopTypeOK /\ loop # "idle" /\ "policy" \in Reasons
  BY DEF BoundedSystemInv, DisciplineInv, PolicyRaises, Reasons
<1>2. metrics \in MetricsSet
  BY <1>1, LoopNumbers
<1>3. /\ DisciplineInv' /\ holds' # <<>>
      /\ holds'[Len(holds')].run = run /\ holds'[Len(holds')].reason = "policy"
  BY <1>1, <1>2, FailSafeHoldInv DEF PolicyRaises
<1>4. Len(holds') \in 1..Len(holds') /\ run \in Nat
  BY <1>1, <1>3, LoopBounds DEF DisciplineInv, LoopTypeOK
<1> QED
  BY <1>3, <1>4 DEF PolicyRaises, FailSafeHold

LEMMA InterruptIsAFailure ==
  ASSUME BoundedSystemInv, RunIsInterrupted
  PROVE  /\ loop' = "idle" /\ run' = run
         /\ \E k \in 1..Len(interrupted') : interrupted'[k] <= run
<1>1. interrupted \in Seq(1..MaxRuns) /\ run \in 1..MaxRuns
  BY LoopBounds
  DEF BoundedSystemInv, DisciplineInv, HoldsUpToNow, LoopTypeOK,
      RunIsInterrupted
<1>2. /\ interrupted' = Append(interrupted, run)
      /\ Len(interrupted) + 1 \in 1..Len(interrupted')
      /\ interrupted'[Len(interrupted) + 1] = run
  BY <1>1 DEF RunIsInterrupted
<1> QED
  BY <1>1, <1>2, LoopBounds DEF RunIsInterrupted

(* How every step leaves what the loop records of failures. *)
LEMMA RecordsOfFailure ==
  ASSUME BoundedSystemInv, BoundedSystemNext
  PROVE  /\ holds' = holds \/ \E hold \in Holds : holds' = Append(holds, hold)
         /\ interrupted' = interrupted
              \/ \E r \in 1..MaxRuns : interrupted' = Append(interrupted, r)
<1>1. loop # "idle" => run \in 1..MaxRuns
  BY LoopBounds DEF BoundedSystemInv, DisciplineInv, HoldsUpToNow,
      LoopTypeOK
<1>2. ASSUME NEW reason \in Reasons, NEW counted,
             FailSafeHold(reason, counted), loop # "idle"
      PROVE  \E hold \in Holds : holds' = Append(holds, hold)
  <2>1. Len(commands) \in Nat
    BY DEF BoundedSystemInv, DisciplineInv, LoopTypeOK
  <2> QED
    BY <1>1, <1>2, <2>1 DEF FailSafeHold, Holds
<1>3. CASE PolicyRaises \/ ActionRaises
  BY <1>2, <1>3 DEF PolicyRaises, ActionRaises, Reasons
<1>4. CASE AnswerIsDecoded
  BY <1>2, <1>4 DEF AnswerIsDecoded, PolicyAnswers, Reasons
<1>5. CASE RunIsInterrupted
  BY <1>1, <1>5 DEF RunIsInterrupted
<1>6. CASE UNCHANGED <<holds, interrupted>>
  BY <1>6
<1> QED
  BY <1>3, <1>4, <1>5, <1>6
  DEF BoundedSystemNext, BoundedRunStarts, BoundedRunSteps, BoundedRunGoesOn,
      RequestPolicy, LoopAlone, BudgetUsed, ExecuteAction, StartRun,
      BuildRaises, CallClient, ClientRaises, AnswerIsRefused,
      CallIsBroken, ClientIsReplaced, ThreadSteps, ExitBegins,
      ThreadsAreJoined, loopVars

(* Steps that leave no new call unconfirmed. *)
LEMMA FailuresStep ==
  ASSUME BoundedSystemInv, BoundedSystemInv', BoundedSystemNext, StaleInStep,
         unconfirmed' = unconfirmed, unconfirmed # {}
  PROVE  LET n == IF loop' = "idle" THEN run' ELSE run' - 1
         IN  \/ \E h \in 1..Len(holds') :
                    holds'[h].run <= n /\ holds'[h].reason = "policy"
             \/ \E k \in 1..Len(interrupted') : interrupted'[k] <= n
<1> DEFINE m == IF loop = "idle" THEN run ELSE run - 1
           n == IF loop' = "idle" THEN run' ELSE run' - 1
<1>1. LoopTypeOK /\ LoopTypeOK' /\ run \in Nat /\ run' \in Nat
  BY LoopBounds DEF BoundedSystemInv, DisciplineInv, LoopTypeOK
<1>2. \/ UNCHANGED <<loop, run>>
      \/ loop = "idle" /\ loop' = "deciding" /\ run' = run + 1
      \/ loop # "idle" /\ run' = run
  BY DEF BoundedSystemNext, BoundedRunStarts, BoundedRunSteps,
         BoundedRunGoesOn, RequestPolicy, LoopAlone, BudgetUsed,
         ExecuteAction, StartRun, BuildRaises, CallClient, ClientRaises,
         AnswerIsRefused, AnswerIsDecoded, CallIsBroken, ClientIsReplaced,
         ThreadSteps, ExitBegins, ThreadsAreJoined, loopVars,
         PolicyRaises, ActionRaises, PolicyAnswers, RunIsInterrupted
<1>3. m \in Int /\ n \in Int /\ m <= n
  <2>1. CASE UNCHANGED <<loop, run>>
    BY <1>1, <2>1
  <2>2. CASE loop = "idle" /\ loop' = "deciding" /\ run' = run + 1
    BY <1>1, <2>2
  <2>3. CASE loop # "idle" /\ run' = run
    BY <1>1, <2>3
  <2> QED
    BY <1>2, <2>1, <2>2, <2>3
<1>4. FailedBefore(m)
  BY DEF StaleInStep
<1> HIDE DEF m, n
<1> QED
  BY <1>1, <1>3, <1>4, FailuresStay, RecordsOfFailure DEF n

LEMMA StaleStep ==
  ASSUME BoundedSystemInv, BoundedSystemInv', BoundedSystemNext, StaleInStep
  PROVE  StaleInStep'
<1>1. CASE ClientRaises /\ unconfirmed' # unconfirmed
  BY <1>1, HoldIsAFailure DEF ClientRaises, StaleInStep, FailedBefore
<1>2. CASE CallIsBroken
  BY <1>2, InterruptIsAFailure DEF CallIsBroken, StaleInStep, FailedBefore
<1>3. ASSUME unconfirmed' = unconfirmed,
             loop' = "executing" =>
                pending'.obs = observed' \/ OlderCallUnconfirmed'
      PROVE  StaleInStep'
  BY <1>3, FailuresStep DEF StaleInStep, FailedBefore
<1>4. CASE UNCHANGED <<loop, pending, observed, unconfirmed, calls, uses>>
  BY <1>3, <1>4 DEF StaleInStep, OlderCallUnconfirmed
<1>5. CASE ClientRaises /\ unconfirmed' = unconfirmed
  BY <1>3, <1>5 DEF ClientRaises, PolicyRaises, FailSafeHold
<1>6. CASE BoundedRunStarts
  BY <1>3, <1>6 DEF BoundedRunStarts, StartRun, boundedVars, callerVars
<1>7. CASE BuildRaises
  BY <1>3, <1>7
  DEF BuildRaises, PolicyRaises, FailSafeHold, boundedVars, callerVars
<1>8. CASE AnswerIsRefused
  BY <1>3, <1>8
  DEF AnswerIsRefused, PolicyRaises, FailSafeHold, ResultIsPayload
<1>9. CASE AnswerIsDecoded
  <2>0. unconfirmed' = unconfirmed
    BY <1>9 DEF AnswerIsDecoded, ResultIsPayload
  <2>1. \/ carried[outcome'.obs] = observed
        \/ OlderCallUnconfirmed /\ UNCHANGED <<calls, unconfirmed, uses>>
    BY <1>9, DecodedChunk
  <2>2. /\ observed' = observed
        /\ loop' = "executing" => pending'.obs = carried[outcome'.obs]
    BY <1>9 DEF AnswerIsDecoded, PolicyAnswers, FailSafeHold
  <2> QED
    BY <1>3, <2>0, <2>1, <2>2 DEF OlderCallUnconfirmed
<1>10. CASE BoundedRunGoesOn
  <2>1. UNCHANGED <<calls, unconfirmed, uses>>
    BY <1>10 DEF BoundedRunGoesOn, boundedVars, callerVars, threadVars
  <2>2. loop' = "executing" =>
            loop = "executing" /\ pending'.obs = pending.obs /\ UNCHANGED observed
    <3>1. LoopTypeOK
      BY DEF BoundedSystemInv, DisciplineInv
    <3> QED
      BY <1>10, <3>1
      DEF BoundedRunGoesOn, RequestPolicy, LoopAlone, BudgetUsed,
          ExecuteAction, ActionRaises, FailSafeHold, LoopTypeOK
  <2> QED
    BY <1>3, <2>1, <2>2 DEF StaleInStep, OlderCallUnconfirmed
<1>11. CASE CallClient
  BY <1>3, <1>11 DEF CallClient, Infer, loopVars
<1>12. CASE ClientIsReplaced
  BY <1>4, <1>12 DEF ClientIsReplaced, NewConnection, loopVars, threadVars
<1>13. CASE ThreadSteps
  <2>1. UNCHANGED <<unconfirmed, calls, uses>>
    BY <1>13
    DEF ThreadSteps, Thread, ThreadBegins, ThreadSends, ThreadReceives,
        ThreadIsRefused, ThreadRaises, ThreadTimesOut, FutureIsDone,
        ConnectionBreaks, callerVars
  <2> QED
    BY <1>4, <1>13, <2>1 DEF ThreadSteps, loopVars
<1>14. CASE ExitBegins \/ ThreadsAreJoined
  BY <1>4, <1>14
  DEF ExitBegins, ThreadsAreJoined, loopVars, boundedVars, callerVars,
      threadVars
<1> QED
  BY <1>1, <1>2, <1>5, <1>6, <1>7, <1>8, <1>9, <1>10, <1>11, <1>12, <1>13,
     <1>14 DEF BoundedSystemNext, BoundedRunSteps

LEMMA StaleAlways ==
  BoundedSystemSpec => [](BoundedSystemInv /\ StaleInStep)
<1>1. BoundedSystemInit => StaleInStep
  BY DEF BoundedSystemInit, BoundedInit, LoopInit, StaleInStep
<1>2. /\ BoundedSystemInv /\ BoundedSystemInv' /\ StaleInStep
      /\ [BoundedSystemNext]_boundedSystemVars
      => StaleInStep'
  <2>1. StaleInStep /\ UNCHANGED boundedSystemVars => StaleInStep'
    BY DEF StaleInStep, OlderCallUnconfirmed, FailedBefore, boundedSystemVars,
           boundedVars, callerVars, threadVars, loopVars
  <2> QED
    BY <2>1, StaleStep
<1> QED
  BY <1>1, <1>2, BoundedSystemInvAlways, PTL DEF BoundedSystemSpec

(* An action the robot executes was computed from the newest observation,  *)
(* unless an earlier call over the same transport was left unconfirmed in  *)
(* an earlier run that this call ended: for every number of runs, calls    *)
(* and transports (remote_client.py:43-66, runtime.py:58-63).              *)
THEOREM BoundedStaleActionNeedsUnconfirmed ==
  BoundedSystemSpec => StaleActionNeedsUnconfirmed
<1> DEFINE Fresh ==
      \A i \in 1..Len(commands') : i > Len(commands) =>
            \/ commands'[i].obs = observed
            \/ /\ \E c \in unconfirmed : c < calls /\ uses[c] = uses[calls]
               /\ \/ \E h \in 1..Len(holds) :
                        holds[h].run < run /\ holds[h].reason = "policy"
                  \/ \E k \in 1..Len(interrupted) : interrupted[k] < run
<1>1. ASSUME BoundedSystemInv, StaleInStep, BoundedSystemNext
      PROVE  Fresh
  <2>1. LoopTypeOK
    BY <1>1 DEF BoundedSystemInv, DisciplineInv
  <2>2. commands \in Seq(Commands)
    BY <2>1 DEF LoopTypeOK
  <2>3. CASE commands' = commands
    BY <2>2, <2>3
  <2>4. CASE ExecuteAction
    <3>1. \E command : commands' = Append(commands, command)
                       /\ command.obs = pending.obs
      BY <2>4 DEF ExecuteAction
    <3>2. \A i \in 1..Len(commands') :
            i > Len(commands) => commands'[i].obs = pending.obs
      BY <2>2, <3>1
    <3>3. CASE pending.obs = observed
      BY <3>2, <3>3
    <3>4. CASE OlderCallUnconfirmed
      <4>1. FailedBefore(run - 1)
        BY <1>1, <2>4, <3>4
        DEF ExecuteAction, StaleInStep, OlderCallUnconfirmed
      <4>2. /\ \A h \in 1..Len(holds) : holds[h].run \in Int
            /\ \A k \in 1..Len(interrupted) : interrupted[k] \in Int
            /\ run \in Int
        <5>1. interrupted \in Seq(1..MaxRuns) /\ MaxRuns \in Nat
          BY <2>1, LoopBounds DEF LoopTypeOK
        <5>2. \A k \in 1..Len(interrupted) : interrupted[k] \in 1..MaxRuns
          BY <5>1, ElementOfSeq
        <5> QED
          BY <2>1, <5>2, NumbersOfRecords, LoopNumbers
      <4>3. \/ \E h \in 1..Len(holds) :
                    holds[h].run < run /\ holds[h].reason = "policy"
            \/ \E k \in 1..Len(interrupted) : interrupted[k] < run
        BY <4>1, <4>2 DEF FailedBefore
      <4> QED
        BY <3>4, <4>3 DEF OlderCallUnconfirmed
    <3> QED
      BY <1>1, <2>4, <3>3, <3>4 DEF StaleInStep, ExecuteAction
  <2> QED
    BY <1>1, <2>3, <2>4
    DEF BoundedSystemNext, BoundedRunStarts, BoundedRunSteps,
        BoundedRunGoesOn, RequestPolicy, LoopAlone, BudgetUsed,
        StartRun, BuildRaises, CallClient, ClientRaises,
        AnswerIsRefused, AnswerIsDecoded, CallIsBroken, ClientIsReplaced,
        ThreadSteps, ExitBegins, ThreadsAreJoined, loopVars,
        PolicyRaises, ActionRaises, PolicyAnswers, RunIsInterrupted
<1>2. BoundedSystemInv /\ StaleInStep /\ [BoundedSystemNext]_boundedSystemVars
        => [Fresh]_boundedSystemVars
  BY <1>1
<1> QED
  BY <1>2, StaleAlways, PTL DEF BoundedSystemSpec, StaleActionNeedsUnconfirmed
-----------------------------------------------------------------------------
(* Whatever observation its answers are about, the runtime over the        *)
(* default typed client is the control loop over some policy               *)
(* (official_openpi.py:45-61, runtime.py:56-99).                           *)
THEOREM BoundedSystemImplementsAnyPolicy ==
  BoundedSystemSpec => AnyPolicySpec
<1>1. BoundedSystemInit => LoopInit
  BY DEF BoundedSystemInit
<1> QED
  BY <1>1, BoundedSystemIsAnyPolicy, BoundedSystemInvAlways, PTL
  DEF BoundedSystemSpec, AnyPolicySpec

(* So even when late threads make answers stale, a hold ends its run and   *)
(* is the last word of it, a run that ends early holds, the rows of an     *)
(* answer reach the robot in order and within one run, no run executes     *)
(* half a validated chunk, the metrics agree with the robot, and the       *)
(* promise of RecedingHorizon is kept (runtime.py:56-99).                  *)
THEOREM BoundedSystemIsDisciplined ==
  BoundedSystemSpec => /\ [](/\ HoldIsFinal
                             /\ UnfinishedRunHolds
                             /\ RowsOfOneAnswer
                             /\ ValidatedChunkIsExecutable
                             /\ MetricsTellTheRobot)
                       /\ ImplementsRecedingHorizon
  BY BoundedSystemImplementsAnyPolicy, AnyPolicyIsDisciplined,
     AnyPolicyIsRecedingHorizon, PTL

(* A caller that reconnects decodes no answer but the one about the        *)
(* observation it has just taken.                                          *)
LEMMA DecodedAboutObserved ==
  ASSUME CallerReconnects, BoundedSystemInv, AnswerIsDecoded
  PROVE  \E chunk \in Chunks : PolicyAnswers(observed, chunk)
<1>1. calls \in 1..calls
  <2>1. waiting /\ outcome'.obs \in 1..calls /\ calls \in Nat
    BY PayloadOfSomeCall, BoundedAssumption
    DEF BoundedSystemInv, AnswerIsDecoded, ClientInv, BoundedInv, BoundedTypeOK
  <2> QED
    BY <2>1
<1>2. ASSUME NEW c \in unconfirmed, c < calls, uses[c] = uses[calls]
      PROVE  FALSE
  <2>1. calls <= c
    BY <1>1, <1>2
    DEF BoundedSystemInv, ClientInv, BoundedInv, ReconnectsInStep
  <2>2. c \in Nat /\ calls \in Nat
    BY BoundedAssumption
    DEF BoundedSystemInv, ClientInv, BoundedInv, BoundedTypeOK, Threads
  <2> QED
    BY <1>2, <2>1, <2>2
<1>3. carried[outcome'.obs] = observed
  BY <1>2, DecodedChunk DEF OlderCallUnconfirmed
<1> QED
  BY <1>3, DecodedChunk

(* With a caller that reconnects after every unconfirmed call, the runtime *)
(* over the default typed client behaves as ClosedLoop says: the chunks it *)
(* executes are about the last observation, however late the threads of    *)
(* other transports are (official_openpi.py:45-61, runtime.py:58-99).      *)
THEOREM BoundedSystemImplementsClosedLoop ==
  ASSUME CallerReconnects
  PROVE  BoundedSystemSpec => ImplementsClosedLoop
<1>1. BoundedSystemInit => LoopInit
  BY DEF BoundedSystemInit
<1>2. BoundedSystemInv /\ [BoundedSystemNext]_boundedSystemVars
        => [LoopNext]_loopVars
  BY DecodedAboutObserved
  DEF BoundedSystemNext, BoundedRunStarts, BoundedRunSteps,
      BoundedRunGoesOn, BuildRaises, CallClient, ClientRaises,
      AnswerIsRefused, CallIsBroken, ClientIsReplaced, ThreadSteps,
      ExitBegins, ThreadsAreJoined, LoopNext, Policy, boundedSystemVars
<1> QED
  BY <1>1, <1>2, BoundedSystemInvAlways, PTL
  DEF BoundedSystemSpec, LoopSpec, ImplementsClosedLoop

(* ... and so the robot receives rows of the newest chunk only, in order,  *)
(* and its client behaves as PolicyCall says, termination aside            *)
(* (runtime.py:58-78, remote_client.py:43-66).                             *)
THEOREM BoundedSystemImplementsPolicyCall ==
  ASSUME CallerReconnects
  PROVE  BoundedSystemSpec => /\ Call!Init /\ [][Call!Next]_(Call!vars)
                              /\ []RowsOfLatestChunkInOrder
<1>1. BoundedSystemSpec => LoopSpec
  BY BoundedSystemImplementsClosedLoop DEF ImplementsClosedLoop
<1>2. BoundedSystemInit => Call!Init
  BY CallInit DEF BoundedSystemInit
<1>3. BoundedSystemInv => BoundedInv
  BY DEF BoundedSystemInv, ClientInv
<1>4. [BoundedSystemNext]_boundedSystemVars => [BoundedNext]_boundedVars
  BY BoundedSystemIsClient DEF boundedSystemVars
<1> QED
  BY <1>1, <1>2, <1>3, <1>4, CallStep, BoundedSystemInvAlways,
     OnlyRowsOfLatestChunk, PTL
  DEF BoundedSystemSpec
=============================================================================

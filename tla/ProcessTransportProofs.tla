----------------------- MODULE ProcessTransportProofs -----------------------
(***************************************************************************)
(* Proofs about ProcessTransport for every number of calls and of child    *)
(* processes.                                                              *)
(***************************************************************************)
EXTENDS ProcessTransport, TLAPS

(* The safety part of Spec: what the transport may do, fairness aside. *)
TransportSteps == Init /\ [][Next]_vars

-----------------------------------------------------------------------------
(* Type correctness.  Every action of the caller and of a child keeps      *)
(* every variable of the model in its type.                                *)
LEMMA MessageTypes ==
  /\ CloseMessage \in Requests
  /\ \A n, o \in 0..MaxCalls : Request(n, o) \in Requests
  /\ \A k \in StartupKinds \cup ReplyKinds, n, o \in 0..MaxCalls :
        Reply(k, n, o) \in Replies
  /\ \A m \in Requests : m.id \in 0..MaxCalls /\ m.obs \in 0..MaxCalls
  /\ \A r \in Replies : r.id \in 0..MaxCalls /\ r.obs \in 0..MaxCalls
  BY BoundsAssumption DEF CloseMessage, Requests, Request, Replies, Reply

LEMMA OutcomeTypes ==
  /\ Abstract!Pending \in Abstract!Outcomes
  /\ \A n \in 0..MaxCalls : Abstract!Answer(n) \in Abstract!Outcomes
  /\ \A e \in {"timeout", "error", "interrupt"} :
        Abstract!Raised(e) \in Abstract!Outcomes
  BY BoundsAssumption DEF Abstract!Pending, Abstract!Answer, Abstract!Raised,
        Abstract!Outcomes, Abstract!Exceptions

LEMMA InitType == Init => TypeOK /\ CallBookkeeping
  BY BoundsAssumption, MessageTypes, OutcomeTypes
  DEF Init, TypeOK, CallBookkeeping, Workers

(* The effects shared by the actions of the caller. *)
LEMMA CloseForcedType ==
  ASSUME TypeOK, CallBookkeeping, CloseForced
  PROVE  /\ process' = 0
         /\ signalled' \subseteq Workers
         /\ \A g \in signalled' : g <= started
  BY DEF TypeOK, CallBookkeeping, CloseForced, Terminate, HandleAlive, Workers

LEMMA FailType ==
  ASSUME TypeOK, CallBookkeeping, pc # "idle", NEW how \in HowFailed,
         NEW e \in {"timeout", "error", "interrupt"}, Fail(how, e)
  PROVE  /\ pc' = "idle"
         /\ outcome' \in Abstract!Outcomes
         /\ failures' \subseteq Workers \X HowFailed
         /\ \A f \in failures' : f[1] <= started
<1>1. process \in Workers
  BY DEF TypeOK, CallBookkeeping, Workers
<1> QED
  BY <1>1, OutcomeTypes DEF TypeOK, CallBookkeeping, Fail, Return, Workers

LEMMA SubmitType ==
  ASSUME TypeOK, process \in Workers, NEW o \in 1..MaxCalls, nextId < o,
         Submit(o)
  PROVE  /\ pc' = "waiting"
         /\ nextId' \in 1..MaxCalls
         /\ nextId' = nextId + 1
         /\ requests' \in [Workers -> Seq(Requests)]
<1>1. nextId + 1 \in 1..MaxCalls
  BY BoundsAssumption DEF TypeOK
<1> QED
  BY <1>1, MessageTypes DEF TypeOK, Submit

LEMMA TakeReplyType ==
  ASSUME TypeOK, CallBookkeeping, TakeReply
  PROVE  /\ process \in Workers
         /\ responses' \in [Workers -> Seq(Replies)]
         /\ OldestReply \in Replies
<1>1. process \in Workers
  BY DEF TypeOK, CallBookkeeping, TakeReply, Workers
<1>2. responses[process] \in Seq(Replies) /\ responses[process] # <<>>
  BY <1>1 DEF TypeOK, TakeReply
<1>3. Tail(responses[process]) \in Seq(Replies)
  BY <1>2
<1> QED
  BY <1>1, <1>2, <1>3 DEF TypeOK, TakeReply, OldestReply

LEMMA CallerType ==
  ASSUME TypeOK, CallBookkeeping, Caller
  PROVE  TypeOK' /\ CallBookkeeping'
<1> USE BoundsAssumption
<1>1. CASE InferOnLiveWorker
  <2>1. process \in Workers /\ calls + 1 \in 1..MaxCalls /\ nextId < calls + 1
    BY <1>1
    DEF InferOnLiveWorker, HandleAlive, TypeOK, CallBookkeeping, Workers
  <2>2. /\ pc' = "waiting"
        /\ nextId' \in 1..MaxCalls
        /\ nextId' = nextId + 1
        /\ requests' \in [Workers -> Seq(Requests)]
    BY <1>1, <2>1, SubmitType DEF InferOnLiveWorker
  <2> QED
    BY <1>1, <2>1, <2>2, OutcomeTypes
    DEF InferOnLiveWorker, TypeOK, CallBookkeeping, Workers
<1>2. CASE InferStartsWorker
  <2>1. started + 1 \in Workers /\ calls + 1 \in 1..MaxCalls
    BY <1>2 DEF InferStartsWorker, TypeOK, CallBookkeeping, Workers
  <2>2. /\ requests' \in [Workers -> Seq(Requests)]
        /\ responses' \in [Workers -> Seq(Replies)]
    BY <1>2, <2>1 DEF InferStartsWorker, TypeOK
  <2>3. TypeOK'
    BY <1>2, <2>1, <2>2, OutcomeTypes DEF InferStartsWorker, TypeOK, Workers
  <2>4. CallBookkeeping'
    BY <1>2, <2>1 DEF InferStartsWorker, TypeOK, CallBookkeeping, Workers
  <2> QED
    BY <2>3, <2>4
<1>3. CASE StartupReady
  <2>1. process \in Workers /\ calls \in 1..MaxCalls /\ nextId < calls
    BY <1>3 DEF StartupReady, TypeOK, CallBookkeeping, Workers
  <2>2. /\ pc' = "waiting"
        /\ nextId' \in 1..MaxCalls
        /\ nextId' = nextId + 1
        /\ requests' \in [Workers -> Seq(Requests)]
    BY <1>3, <2>1, SubmitType DEF StartupReady
  <2>3. responses' \in [Workers -> Seq(Replies)]
    BY <1>3, <2>1 DEF StartupReady, TypeOK
  <2>4. TypeOK'
    BY <1>3, <2>2, <2>3 DEF StartupReady, TypeOK
  <2>5. CallBookkeeping'
    BY <1>3, <2>1, <2>2 DEF StartupReady, TypeOK, CallBookkeeping
  <2> QED
    BY <2>4, <2>5
<1>4. CASE StartupFails
  <2>0. process \in Workers
    BY <1>4 DEF StartupFails, TypeOK, CallBookkeeping, Workers
  <2>1. responses' \in [Workers -> Seq(Replies)]
    BY <1>4, <2>0 DEF StartupFails, TypeOK
  <2>2. /\ pc' = "idle"
        /\ outcome' \in Abstract!Outcomes
        /\ failures' \subseteq Workers \X HowFailed
        /\ \A f \in failures' : f[1] <= started
    BY <1>4, FailType DEF StartupFails, HowFailed
  <2>3. /\ process' = 0
        /\ signalled' \subseteq Workers
        /\ \A g \in signalled' : g <= started
    BY <1>4, CloseForcedType DEF StartupFails
  <2>4. TypeOK'
    BY <1>4, <2>1, <2>2, <2>3 DEF StartupFails, TypeOK
  <2>5. CallBookkeeping'
    BY <1>4, <2>1, <2>2, <2>3 
    DEF StartupFails, TypeOK, CallBookkeeping, Workers
  <2> QED
    BY <2>4, <2>5
<1>5. CASE StartupTimesOut
  <2>1. /\ pc' = "idle"
        /\ outcome' \in Abstract!Outcomes
        /\ failures' \subseteq Workers \X HowFailed
        /\ \A f \in failures' : f[1] <= started
    BY <1>5, FailType DEF StartupTimesOut, HowFailed
  <2>2. /\ process' = 0
        /\ signalled' \subseteq Workers
        /\ \A g \in signalled' : g <= started
    BY <1>5, CloseForcedType DEF StartupTimesOut
  <2>3. TypeOK'
    BY <1>5, <2>1, <2>2 DEF StartupTimesOut, TypeOK
  <2>4. UNCHANGED <<nextId, calls, started, status>>
    BY <1>5 DEF StartupTimesOut
  <2>5. CallBookkeeping'
    BY <2>1, <2>2, <2>4, BoundsAssumption DEF TypeOK, CallBookkeeping, Workers
  <2> QED
    BY <2>3, <2>5
<1>6. CASE ReplyIsMalformed
  <2>1. responses' \in [Workers -> Seq(Replies)]
    BY <1>6, TakeReplyType DEF ReplyIsMalformed
  <2>2. /\ pc' = "idle"
        /\ outcome' \in Abstract!Outcomes
        /\ failures' \subseteq Workers \X HowFailed
        /\ \A f \in failures' : f[1] <= started
    BY <1>6, FailType DEF ReplyIsMalformed, HowFailed, TakeReply
  <2> QED
    BY <1>6, <2>1, <2>2
    DEF ReplyIsMalformed, TypeOK, CallBookkeeping, Workers, TakeReply
<1>7. CASE ReplyIsMismatched
  <2>1. responses' \in [Workers -> Seq(Replies)]
    BY <1>7, TakeReplyType DEF ReplyIsMismatched
  <2>2. /\ pc' = "idle"
        /\ outcome' \in Abstract!Outcomes
        /\ failures' \subseteq Workers \X HowFailed
        /\ \A f \in failures' : f[1] <= started
    BY <1>7, FailType DEF ReplyIsMismatched, HowFailed, TakeReply
  <2>3. /\ process' = 0
        /\ signalled' \subseteq Workers
        /\ \A g \in signalled' : g <= started
    BY <1>7, CloseForcedType DEF ReplyIsMismatched
  <2>4. TypeOK'
    BY <1>7, <2>1, <2>2, <2>3 DEF ReplyIsMismatched, TypeOK, TakeReply
  <2>5. CallBookkeeping'
    BY <1>7, <2>1, <2>2, <2>3 
    DEF ReplyIsMismatched, TakeReply, TypeOK, CallBookkeeping, Workers
  <2> QED
    BY <2>4, <2>5
<1>8. CASE ReplyIsError
  <2>1. responses' \in [Workers -> Seq(Replies)]
    BY <1>8, TakeReplyType DEF ReplyIsError
  <2>2. /\ pc' = "idle"
        /\ outcome' \in Abstract!Outcomes
        /\ failures' \subseteq Workers \X HowFailed
        /\ \A f \in failures' : f[1] <= started
    BY <1>8, FailType DEF ReplyIsError, HowFailed, TakeReply
  <2> QED
    BY <1>8, <2>1, <2>2
    DEF ReplyIsError, TypeOK, CallBookkeeping, Workers, TakeReply
<1>9. CASE ReplyIsAnswer
  <2>2. responses' \in [Workers -> Seq(Replies)] /\ OldestReply \in Replies
    BY <1>9, TakeReplyType DEF ReplyIsAnswer
  <2>3. pc' = "idle" /\ outcome' \in Abstract!Outcomes
    BY <1>9, <2>2, OutcomeTypes, MessageTypes DEF ReplyIsAnswer, Return
  <2> QED
    BY <1>9, <2>2, <2>3
    DEF ReplyIsAnswer, TakeReply, TypeOK, CallBookkeeping, Workers
<1>10. CASE RequestTimesOut
  <2>1. /\ pc' = "idle"
        /\ outcome' \in Abstract!Outcomes
        /\ failures' \subseteq Workers \X HowFailed
        /\ \A f \in failures' : f[1] <= started
    BY <1>10, FailType DEF RequestTimesOut, HowFailed
  <2>2. /\ process' = 0
        /\ signalled' \subseteq Workers
        /\ \A g \in signalled' : g <= started
    BY <1>10, CloseForcedType DEF RequestTimesOut
  <2>3. TypeOK'
    BY <1>10, <2>1, <2>2 DEF RequestTimesOut, TypeOK
  <2>4. UNCHANGED <<nextId, calls, started, status>>
    BY <1>10 DEF RequestTimesOut
  <2>5. CallBookkeeping'
    BY <2>1, <2>2, <2>4, BoundsAssumption DEF TypeOK, CallBookkeeping, Workers
  <2> QED
    BY <2>3, <2>5
<1>11. CASE CallIsInterrupted
  <2>1. /\ pc' = "idle"
        /\ outcome' \in Abstract!Outcomes
        /\ failures' \subseteq Workers \X HowFailed
        /\ \A f \in failures' : f[1] <= started
    BY <1>11, FailType DEF CallIsInterrupted, HowFailed
  <2> QED
    BY <1>11, <2>1
    DEF CallIsInterrupted, TypeOK, CallBookkeeping, Workers, children
<1>12. CASE Reconnect
  <2>1. /\ process' = 0
        /\ signalled' \subseteq Workers
        /\ \A g \in signalled' : g <= started
    BY <1>12, CloseForcedType DEF Reconnect
  <2> QED
    BY <1>12, <2>1
    DEF Reconnect, TypeOK, CallBookkeeping, Workers
<1>13. CASE CloseBegins
  <2>1. requests' \in [Workers -> Seq(Requests)]
    BY <1>13, MessageTypes DEF CloseBegins, HandleAlive, TypeOK, CallBookkeeping, Workers
  <2> QED
    BY <1>13, <2>1 DEF CloseBegins, HandleAlive, TypeOK, CallBookkeeping, Workers
<1>14. CASE CloseEnds
  <2>1. /\ process' = 0
        /\ signalled' \subseteq Workers
        /\ \A g \in signalled' : g <= started
    BY <1>14, CloseForcedType DEF CloseEnds
  <2> QED
    BY <1>14, <2>1
    DEF CloseEnds, TypeOK, CallBookkeeping, Workers
<1> QED
  BY <1>1, <1>2, <1>3, <1>4, <1>5, <1>6, <1>7, <1>8, <1>9, <1>10, <1>11,
     <1>12, <1>13, <1>14 DEF Caller, WaitEnds

LEMMA WorkerType ==
  ASSUME TypeOK, CallBookkeeping, NEW g \in Workers, Worker(g) \/ Environment(g)
  PROVE  TypeOK' /\ CallBookkeeping'
<1> USE BoundsAssumption, MessageTypes
    DEF TypeOK, CallBookkeeping, Workers, StartupKinds, ReplyKinds, Becomes,
        Put, caller
<1>1. CASE WorkerConnects(g)
  <2>1. responses' \in [Workers -> Seq(Replies)]
    BY <1>1 DEF WorkerConnects
  <2>2. TypeOK'
    BY <1>1, <2>1 DEF WorkerConnects
  <2>3. CallBookkeeping'
    BY <1>1 DEF WorkerConnects
  <2> QED BY <2>2, <2>3
<1>2. CASE WorkerCannotConnect(g)
  <2>1. responses' \in [Workers -> Seq(Replies)]
    BY <1>2 DEF WorkerCannotConnect
  <2>2. TypeOK'
    BY <1>2, <2>1 DEF WorkerCannotConnect
  <2>3. CallBookkeeping'
    BY <1>2 DEF WorkerCannotConnect
  <2> QED BY <2>2, <2>3
<1>3. CASE WorkerTakesClose(g)
  <2>1. requests' \in [Workers -> Seq(Requests)]
    BY <1>3 DEF WorkerTakesClose
  <2>2. TypeOK'
    BY <1>3, <2>1 DEF WorkerTakesClose
  <2>3. CallBookkeeping'
    BY <1>3 DEF WorkerTakesClose
  <2> QED BY <2>2, <2>3
<1>4. CASE WorkerTakesRequest(g)
  <2>1. requests' \in [Workers -> Seq(Requests)]
    BY <1>4 DEF WorkerTakesRequest
  <2>2. serving' \in [Workers -> Requests]
    BY <1>4 DEF WorkerTakesRequest
  <2>3. TypeOK'
    BY <1>4, <2>1, <2>2 DEF WorkerTakesRequest
  <2>4. CallBookkeeping'
    BY <1>4 DEF WorkerTakesRequest
  <2> QED BY <2>3, <2>4
<1>5. CASE WorkerSends(g)
  <2>1. wire' \in [Workers -> Seq(0..MaxCalls)]
    BY <1>5 DEF WorkerSends
  <2>2. TypeOK'
    BY <1>5, <2>1 DEF WorkerSends
  <2>3. CallBookkeeping'
    BY <1>5 DEF WorkerSends
  <2> QED BY <2>2, <2>3
<1>6. CASE WorkerReceives(g)
  <2>1. wire' \in [Workers -> Seq(0..MaxCalls)]
    BY <1>6 DEF WorkerReceives
  <2>2. responses' \in [Workers -> Seq(Replies)]
    BY <1>6 DEF WorkerReceives
  <2>3. TypeOK'
    BY <1>6, <2>1, <2>2 DEF WorkerReceives
  <2>4. CallBookkeeping'
    BY <1>6 DEF WorkerReceives
  <2> QED BY <2>3, <2>4
<1>7. CASE ReplyIsDropped(g)
  <2>1. wire' \in [Workers -> Seq(0..MaxCalls)]
    BY <1>7 DEF ReplyIsDropped
  <2>2. TypeOK'
    BY <1>7, <2>1 DEF ReplyIsDropped
  <2>3. CallBookkeeping'
    BY <1>7 DEF ReplyIsDropped
  <2> QED BY <2>2, <2>3
<1>8. CASE WorkerReportsError(g)
  <2>1. responses' \in [Workers -> Seq(Replies)]
    BY <1>8 DEF WorkerReportsError
  <2>2. TypeOK'
    BY <1>8, <2>1 DEF WorkerReportsError
  <2>3. CallBookkeeping'
    BY <1>8 DEF WorkerReportsError
  <2> QED BY <2>2, <2>3
<1>9. CASE ConnectionBreaks(g)
  BY <1>9 DEF ConnectionBreaks
<1>10. CASE Alive(g) /\ Gone(g)
  <2>1. requests' \in [Workers -> Seq(Requests)]
    BY <1>10 DEF Gone
  <2>2. wire' \in [Workers -> Seq(0..MaxCalls)]
    BY <1>10 DEF Gone
  <2>3. TypeOK'
    BY <1>10, <2>1, <2>2 DEF Gone
  <2>4. CallBookkeeping'
    BY <1>10 DEF Gone, Alive
  <2> QED BY <2>3, <2>4
<1> QED
  BY <1>1, <1>2, <1>3, <1>4, <1>5, <1>6, <1>7, <1>8, <1>9, <1>10
  DEF Worker, Environment, WorkerExits, WorkerIsKilled, WorkerCrashes, Alive

LEMMA TypeCorrectSteps == TransportSteps => [](TypeOK /\ CallBookkeeping)
<1> DEFINE IInv == TypeOK /\ CallBookkeeping
<1>1. IInv /\ UNCHANGED vars => IInv'
  BY DEF TypeOK, CallBookkeeping, vars, caller, children, Alive
<1>2. IInv /\ [Next]_vars => IInv'
  BY <1>1, CallerType, WorkerType DEF Next
<1> QED
  BY InitType, <1>2, PTL DEF TransportSteps

(* The state of the transport keeps its type, and the bookkeeping of the   *)
(* call in progress holds, for every MaxCalls and MaxWorkers, whatever may *)
(* be interrupted.                                                         *)
THEOREM TypeCorrect == Spec => [](TypeOK /\ CallBookkeeping)
  BY TypeCorrectSteps, PTL DEF Spec, TransportSteps

-----------------------------------------------------------------------------
(***************************************************************************)
(* Freshness.  A message is current, seen from a state with n ids given    *)
(* out, the caller waiting or not and c calls begun, when its id was given *)
(* out and, should it be the id the caller waits for, it is about the call *)
(* in progress.  Messages stay current because ids only grow; and a child  *)
(* reads the answer to the observation it serves because its socket is     *)
(* empty between two requests, or gone.                                    *)
(***************************************************************************)
Current(m, n, waiting, c) ==
    m.id <= n /\ (waiting /\ m.id = n => m.obs = c)

RequestsCurrent ==
    /\ \A g \in Workers : \A i \in 1..Len(requests[g]) :
            Current(requests[g][i], nextId, pc = "waiting", calls)
    /\ \A g \in Workers :
            Current(serving[g], nextId, pc = "waiting", calls)

RepliesCurrent ==
    \A g \in Workers : \A i \in 1..Len(responses[g]) :
        responses[g][i].kind = "response" =>
            Current(responses[g][i], nextId, pc = "waiting", calls)

SocketInStep ==
    \A g \in Workers :
        IF status[g] = "receiving" THEN wire[g] = <<serving[g].obs>>
                                   ELSE wire[g] = <<>> \/ g \in lost

FreshInv == RequestsCurrent /\ RepliesCurrent /\ SocketInStep /\ PayloadIsForThisCall

LEMMA InitFresh == Init => FreshInv
  BY DEF Init, FreshInv, RequestsCurrent, RepliesCurrent, SocketInStep, PayloadIsForThisCall,
         Current, CloseMessage, Abstract!Pending

(* How the caller changes what FreshInv reads. *)
Aging == \/ nextId' = nextId + 1
         \/ nextId' = nextId /\ pc' # "waiting"
         \/ UNCHANGED <<nextId, calls, pc>>

LEMMA StaysCurrent ==
  ASSUME TypeOK, Aging, NEW m, m.id \in Nat,
         Current(m, nextId, pc = "waiting", calls)
  PROVE  Current(m, nextId', pc' = "waiting", calls')
  BY DEF TypeOK, Aging, Current

LEMMA CallerEffect ==
  ASSUME TypeOK, CallBookkeeping, Caller
  PROVE  /\ Aging
         /\ UNCHANGED <<serving, wire, lost>>
         /\ \A g \in Workers : status'[g] = "receiving" <=> status[g] = "receiving"
         /\ \A g \in Workers :
                \/ requests'[g] = requests[g]
                \/ requests'[g] = <<>>
                \/ /\ requests'[g] = Append(requests[g], CloseMessage)
                   /\ pc' # "waiting"
                \/ requests'[g] = Append(requests[g], Request(nextId', calls'))
         /\ \A g \in Workers :
                \/ responses'[g] = responses[g]
                \/ responses'[g] = <<>>
                \/ responses[g] # <<>> /\ responses'[g] = Tail(responses[g])
<1> USE DEF TypeOK, CallBookkeeping, Workers, Aging
<1>1. CASE InferOnLiveWorker
  BY <1>1 DEF InferOnLiveWorker, HandleAlive, Submit
<1>2. CASE InferStartsWorker
  BY <1>2 DEF InferStartsWorker
<1>3. CASE StartupReady
  BY <1>3 DEF StartupReady, Submit
<1>4. CASE StartupFails
  BY <1>4 DEF StartupFails, Fail, Return
<1>5. CASE StartupTimesOut
  BY <1>5 DEF StartupTimesOut, Fail, Return
<1>6. CASE ReplyIsMalformed
  BY <1>6 DEF ReplyIsMalformed, TakeReply, Fail, Return
<1>7. CASE ReplyIsMismatched
  BY <1>7 DEF ReplyIsMismatched, TakeReply, Fail, Return
<1>8. CASE ReplyIsError
  BY <1>8 DEF ReplyIsError, TakeReply, Fail, Return
<1>9. CASE ReplyIsAnswer
  BY <1>9 DEF ReplyIsAnswer, TakeReply, Return
<1>10. CASE RequestTimesOut
  BY <1>10 DEF RequestTimesOut, Fail, Return
<1>11. CASE CallIsInterrupted
  BY <1>11 DEF CallIsInterrupted, Fail, Return, children
<1>12. CASE Reconnect
  BY <1>12 DEF Reconnect
<1>13. CASE CloseBegins
  BY <1>13 DEF CloseBegins, HandleAlive
<1>14. CASE CloseEnds
  BY <1>14 DEF CloseEnds
<1> QED
  BY <1>1, <1>2, <1>3, <1>4, <1>5, <1>6, <1>7, <1>8, <1>9, <1>10, <1>11,
     <1>12, <1>13, <1>14 DEF Caller, WaitEnds

LEMMA CallerAsks ==
  ASSUME TypeOK, CallBookkeeping, RequestsCurrent, Caller
  PROVE  RequestsCurrent'
<1> USE BoundsAssumption
<1>1. TypeOK' /\ CallBookkeeping'
  BY CallerType
<1>2. ASSUME NEW g \in Workers, NEW i \in 1..Len(requests'[g])
      PROVE  Current(requests'[g][i], nextId', pc' = "waiting", calls')
  <2>1. requests[g] \in Seq(Requests) /\ requests'[g] \in Seq(Requests)
    BY <1>1 DEF TypeOK
  <2>2. ASSUME i \in 1..Len(requests[g]), requests'[g][i] = requests[g][i]
        PROVE  Current(requests'[g][i], nextId', pc' = "waiting", calls')
    <3>1. requests[g][i].id \in Nat
      BY <2>1, <2>2, MessageTypes
    <3> QED
      BY <2>2, <3>1, CallerEffect, StaysCurrent DEF RequestsCurrent
  <2>3. CASE requests'[g] = Append(requests[g], CloseMessage) /\ pc' # "waiting"
    <3>1. CASE i = Len(requests[g]) + 1
      BY <1>1, <2>1, <2>3, <3>1 DEF Current, CloseMessage, TypeOK
    <3> QED
      BY <2>1, <2>2, <2>3, <3>1
  <2>4. CASE requests'[g] = Append(requests[g], Request(nextId', calls'))
    <3>1. CASE i = Len(requests[g]) + 1
      BY <1>1, <2>1, <2>4, <3>1 DEF Current, Request, TypeOK
    <3> QED
      BY <2>1, <2>2, <2>4, <3>1
  <2> QED
    BY <2>1, <2>2, <2>3, <2>4, CallerEffect
<1>3. ASSUME NEW g \in Workers
      PROVE  Current(serving'[g], nextId', pc' = "waiting", calls')
  <2>1. serving[g].id \in Nat
    BY MessageTypes DEF TypeOK
  <2> QED
    BY <2>1, CallerEffect, StaysCurrent DEF RequestsCurrent
<1> QED
  BY <1>2, <1>3 DEF RequestsCurrent

LEMMA CallerFresh ==
  ASSUME TypeOK, CallBookkeeping, FreshInv, Caller
  PROVE  FreshInv'
<1> USE BoundsAssumption
<1>1. TypeOK' /\ CallBookkeeping'
  BY CallerType
<1>2. RequestsCurrent'
  BY CallerAsks DEF FreshInv
<1>4. ASSUME NEW g \in Workers, NEW i \in 1..Len(responses'[g]),
             responses'[g][i].kind = "response"
      PROVE  Current(responses'[g][i], nextId', pc' = "waiting", calls')
  <2>1. responses[g] \in Seq(Replies)
    BY DEF TypeOK
  <2>2. \E j \in 1..Len(responses[g]) : responses'[g][i] = responses[g][j]
    <3>1. CASE responses[g] # <<>> /\ responses'[g] = Tail(responses[g])
      BY <2>1, <3>1
    <3> QED
      BY <3>1, CallerEffect
  <2>3. PICK j \in 1..Len(responses[g]) : responses'[g][i] = responses[g][j]
    BY <2>2
  <2>4. responses[g][j].id \in Nat
    BY <2>1, MessageTypes
  <2> QED
    BY <1>4, <2>3, <2>4, CallerEffect, StaysCurrent DEF FreshInv, RequestsCurrent, RepliesCurrent
<1>5. SocketInStep'
  BY CallerEffect DEF FreshInv, SocketInStep
<1>6. PayloadIsForThisCall'
  <2>1. CASE ReplyIsAnswer
    <3>1. process \in Workers /\ OldestReply = responses[process][1]
          /\ 1 \in 1..Len(responses[process])
      BY <2>1, TakeReplyType DEF ReplyIsAnswer, TakeReply, OldestReply, TypeOK
    <3>2. Current(OldestReply, nextId, pc = "waiting", calls)
      BY <2>1, <3>1 DEF ReplyIsAnswer, FreshInv, RequestsCurrent, RepliesCurrent
    <3>3. OldestReply.obs = calls /\ calls' = calls
      BY <2>1, <3>2 DEF ReplyIsAnswer, TakeReply, Current
    <3> QED
      BY <2>1, <3>3
      DEF ReplyIsAnswer, Return, PayloadIsForThisCall, Abstract!Answer
  <2>2. CASE InferOnLiveWorker \/ InferStartsWorker
    BY <2>2 DEF InferOnLiveWorker, InferStartsWorker, PayloadIsForThisCall,
        Abstract!Pending
  <2>3. CASE \/ StartupFails \/ StartupTimesOut \/ RequestTimesOut
             \/ ReplyIsMalformed \/ ReplyIsMismatched \/ ReplyIsError
             \/ CallIsInterrupted
    BY <2>3 DEF StartupFails, StartupTimesOut, RequestTimesOut,
        ReplyIsMalformed, ReplyIsMismatched, ReplyIsError, CallIsInterrupted,
        Fail, Return, PayloadIsForThisCall, Abstract!Raised
  <2>4. CASE StartupReady \/ Reconnect \/ CloseBegins \/ CloseEnds
    BY <2>4 DEF StartupReady, Reconnect, CloseBegins, CloseEnds, FreshInv,
        PayloadIsForThisCall
  <2> QED
    BY <2>1, <2>2, <2>3, <2>4 DEF Caller, WaitEnds
<1> QED
  BY <1>2, <1>4, <1>5, <1>6 DEF FreshInv, RepliesCurrent

LEMMA WorkerAsks ==
  ASSUME TypeOK, RequestsCurrent, NEW w \in Workers,
         Worker(w) \/ Environment(w)
  PROVE  RequestsCurrent'
<1> USE BoundsAssumption
<1> DEFINE Cur(m) == Current(m, nextId, pc = "waiting", calls)
<1>1. UNCHANGED <<pc, nextId, calls, outcome>>
  BY DEF Worker, Environment, WorkerConnects, WorkerCannotConnect,
         WorkerTakesClose, WorkerTakesRequest, WorkerSends, WorkerReceives,
         ReplyIsDropped, WorkerReportsError, ConnectionBreaks, WorkerExits,
         WorkerIsKilled, WorkerCrashes, Gone, caller
<1>2. \A g \in Workers :
         \/ requests'[g] = requests[g]
         \/ requests'[g] = <<>>
         \/ requests[g] # <<>> /\ requests'[g] = Tail(requests[g])
  BY DEF Worker, Environment, WorkerConnects, WorkerCannotConnect,
         WorkerTakesClose, WorkerTakesRequest, WorkerSends, WorkerReceives,
         ReplyIsDropped, WorkerReportsError, ConnectionBreaks, WorkerExits,
         WorkerIsKilled, WorkerCrashes, Gone, TypeOK
<1>3. \A g \in Workers :
         \/ serving'[g] = serving[g]
         \/ requests[g] # <<>> /\ serving'[g] = Head(requests[g])
  BY DEF Worker, Environment, WorkerConnects, WorkerCannotConnect,
         WorkerTakesClose, WorkerTakesRequest, WorkerSends, WorkerReceives,
         ReplyIsDropped, WorkerReportsError, ConnectionBreaks, WorkerExits,
         WorkerIsKilled, WorkerCrashes, Gone, TypeOK
<1>5. ASSUME NEW g \in Workers, NEW i \in 1..Len(requests'[g])
      PROVE  Cur(requests'[g][i])
  <2>1. requests[g] \in Seq(Requests)
    BY DEF TypeOK
  <2>2. \E j \in 1..Len(requests[g]) : requests'[g][i] = requests[g][j]
    <3>1. CASE requests[g] # <<>> /\ requests'[g] = Tail(requests[g])
      BY <2>1, <3>1
    <3> QED
      BY <1>2, <3>1
  <2> QED
    BY <2>2 DEF RequestsCurrent
<1>6. ASSUME NEW g \in Workers
      PROVE  Cur(serving'[g])
  <2>1. requests[g] \in Seq(Requests)
    BY DEF TypeOK
  <2> QED
    BY <1>3, <2>1 DEF RequestsCurrent
<1> QED
  BY <1>1, <1>5, <1>6 DEF RequestsCurrent

LEMMA WorkerFresh ==
  ASSUME TypeOK, FreshInv, ~RecvMayAbort, NEW w \in Workers,
         Worker(w) \/ Environment(w)
  PROVE  FreshInv'
<1> USE BoundsAssumption
<1> DEFINE Cur(m) == Current(m, nextId, pc = "waiting", calls)
<1>1. UNCHANGED <<pc, nextId, calls, outcome>>
  BY DEF Worker, Environment, WorkerConnects, WorkerCannotConnect,
         WorkerTakesClose, WorkerTakesRequest, WorkerSends, WorkerReceives,
         ReplyIsDropped, WorkerReportsError, ConnectionBreaks, WorkerExits,
         WorkerIsKilled, WorkerCrashes, Gone, caller
<1>5. RequestsCurrent'
  BY WorkerAsks DEF FreshInv
<1>4. \A g \in Workers :
         \/ responses'[g] = responses[g]
         \/ \E r \in Replies :
                /\ responses'[g] = Append(responses[g], r)
                /\ r.kind = "response" =>
                        r.id = serving[g].id /\ r.obs = serving[g].obs
  <2>1. serving[w] \in Requests
    BY DEF TypeOK
  <2>2. CASE WorkerReceives(w)
    <3>1. Head(wire[w]) = serving[w].obs
      BY <2>2 DEF WorkerReceives, Becomes, FreshInv, SocketInStep
    <3>2. \A k \in ReplyKinds : LET r == Reply(k, serving[w].id, serving[w].obs)
            IN r \in Replies /\ r.id = serving[w].id /\ r.obs = serving[w].obs
      BY <2>1, MessageTypes DEF Reply
    <3> QED
      BY <2>2, <3>1, <3>2 DEF WorkerReceives, Put, TypeOK, ReplyKinds
  <2>3. CASE WorkerReportsError(w)
    <3>1. Reply("error", serving[w].id, serving[w].obs) \in Replies
      BY <2>1, MessageTypes DEF ReplyKinds
    <3> QED
      BY <2>3, <3>1 DEF WorkerReportsError, Put, TypeOK, Reply
  <2>4. CASE WorkerConnects(w) \/ WorkerCannotConnect(w)
    <3>1. Reply("ready", 0, 0) \in Replies /\ Reply("startup_error", 0, 0) \in Replies
      BY MessageTypes DEF StartupKinds
    <3> QED
      BY <2>4, <3>1 DEF WorkerConnects, WorkerCannotConnect, Put, TypeOK, Reply
  <2> QED
    BY <2>2, <2>3, <2>4
    DEF Worker, Environment, WorkerTakesClose, WorkerTakesRequest,
        WorkerSends, ReplyIsDropped, ConnectionBreaks, WorkerExits,
        WorkerIsKilled, WorkerCrashes, Gone
<1>7. ASSUME NEW g \in Workers, NEW i \in 1..Len(responses'[g]),
             responses'[g][i].kind = "response"
      PROVE  Cur(responses'[g][i])
  <2>1. responses[g] \in Seq(Replies)
    BY DEF TypeOK
  <2>2. CASE responses'[g] = responses[g]
    BY <1>7, <2>2 DEF FreshInv, RequestsCurrent, RepliesCurrent
  <2>3. ASSUME NEW r \in Replies, responses'[g] = Append(responses[g], r),
               r.kind = "response" =>
                    r.id = serving[g].id /\ r.obs = serving[g].obs
        PROVE  Cur(responses'[g][i])
    <3>1. CASE i = Len(responses[g]) + 1
      BY <1>7, <2>1, <2>3, <3>1 DEF FreshInv, RequestsCurrent, RepliesCurrent, Current
    <3>2. CASE i \in 1..Len(responses[g])
      BY <1>7, <2>1, <2>3, <3>2 DEF FreshInv, RequestsCurrent, RepliesCurrent
    <3> QED
      BY <2>1, <2>3, <3>1, <3>2
  <2> QED
    BY <1>4, <2>2, <2>3
<1>8. SocketInStep'
  <2>1. CASE WorkerSends(w)
    <3>1. wire[w] = <<>>
      BY <2>1 DEF WorkerSends, Becomes, FreshInv, SocketInStep
    <3> QED
      BY <2>1, <3>1 DEF WorkerSends, Becomes, FreshInv, SocketInStep, TypeOK
  <2>2. CASE WorkerReceives(w) \/ ReplyIsDropped(w)
    <3>1. wire[w] = <<serving[w].obs>>
      BY <2>2 DEF WorkerReceives, ReplyIsDropped, Becomes, FreshInv, SocketInStep
    <3>2. wire' = [wire EXCEPT ![w] = <<>>]
      BY <2>2, <3>1 DEF WorkerReceives, ReplyIsDropped
    <3> QED
      BY <2>2, <3>2
      DEF WorkerReceives, ReplyIsDropped, Becomes, FreshInv, SocketInStep, TypeOK
  <2>3. CASE WorkerTakesRequest(w)
    BY <2>3 DEF WorkerTakesRequest, Becomes, FreshInv, SocketInStep, TypeOK
  <2>4. CASE WorkerReportsError(w)
    BY <2>4 DEF WorkerReportsError, Becomes, FreshInv, SocketInStep, TypeOK
  <2>5. CASE \/ WorkerConnects(w) \/ WorkerCannotConnect(w)
             \/ WorkerTakesClose(w)
    BY <2>5 DEF WorkerConnects, WorkerCannotConnect, WorkerTakesClose,
        Becomes, FreshInv, SocketInStep, TypeOK
  <2>6. CASE ConnectionBreaks(w)
    BY <2>6 DEF ConnectionBreaks, FreshInv, SocketInStep, TypeOK
  <2>7. CASE Gone(w)
    BY <2>7 DEF Gone, FreshInv, SocketInStep, TypeOK
  <2> QED
    BY <2>1, <2>2, <2>3, <2>4, <2>5, <2>6, <2>7
    DEF Worker, Environment, WorkerExits, WorkerIsKilled, WorkerCrashes
<1>9. PayloadIsForThisCall'
  BY <1>1 DEF FreshInv, PayloadIsForThisCall
<1> QED
  BY <1>1, <1>5, <1>7, <1>8, <1>9 DEF FreshInv, RepliesCurrent

LEMMA PayloadFreshSteps ==
  ASSUME ~RecvMayAbort
  PROVE  TransportSteps => []PayloadIsForThisCall
<1> DEFINE IInv == TypeOK /\ CallBookkeeping /\ FreshInv
<1>1. Init => IInv
  BY InitType, InitFresh
<1>2. IInv /\ Next => IInv'
  BY CallerType, WorkerType, CallerFresh, WorkerFresh DEF Next
<1>3. IInv /\ UNCHANGED vars => IInv'
  BY DEF TypeOK, CallBookkeeping, FreshInv, RequestsCurrent, RepliesCurrent, SocketInStep,
         PayloadIsForThisCall, vars, caller, children
<1>4. IInv => PayloadIsForThisCall
  BY DEF FreshInv
<1> QED
  BY <1>1, <1>2, <1>3, <1>4, PTL DEF TransportSteps

(* As long as a transport does not leave recv() with a reply unread, no    *)
(* infer call ever returns the answer to another call's observation: for   *)
(* any number of calls and of restarts, under timeouts, crashes, lost      *)
(* connections and interrupts (remote_client.py:137-202).                  *)
THEOREM PayloadFresh ==
  ASSUME ~RecvMayAbort
  PROVE  Spec => []PayloadIsForThisCall
  BY PayloadFreshSteps, PTL DEF Spec, TransportSteps

-----------------------------------------------------------------------------
(* Everything under way is about a call that was made, even if replies are *)
(* left unread: the worker makes no observation up.                        *)
AskedFor ==
    /\ \A g \in Workers : \A i \in 1..Len(requests[g]) :
            requests[g][i] = CloseMessage \/ requests[g][i].obs \in 1..calls
    /\ \A g \in Workers : status[g] \in {"serving", "receiving"} =>
            serving[g].obs \in 1..calls
    /\ \A g \in Workers : \A i \in 1..Len(wire[g]) : wire[g][i] \in 1..calls
    /\ \A g \in Workers : \A i \in 1..Len(responses[g]) :
            responses[g][i].kind = "response" =>
                responses[g][i].obs \in 1..calls

LEMMA InitAskedFor == Init => AskedFor
  BY DEF Init, AskedFor

LEMMA CallerNeverServes ==
  ASSUME TypeOK, CallBookkeeping, Caller
  PROVE  /\ calls' \in Nat /\ calls' >= calls
         /\ \A g \in Workers : status'[g] \in {"serving", "receiving"} =>
                status'[g] = status[g]
         /\ \A g \in Workers :
                \/ requests'[g] = requests[g]
                \/ requests'[g] = <<>>
                \/ requests'[g] = Append(requests[g], CloseMessage)
                \/ /\ requests'[g] = Append(requests[g], Request(nextId', calls'))
                   /\ calls' >= 1
<1> USE BoundsAssumption
    DEF TypeOK, CallBookkeeping, Workers
<1>1. CASE InferOnLiveWorker
  BY <1>1 DEF InferOnLiveWorker, HandleAlive, Submit
<1>2. CASE InferStartsWorker
  BY <1>2 DEF InferStartsWorker
<1>3. CASE StartupReady
  BY <1>3 DEF StartupReady, Submit
<1>4. CASE CloseBegins
  BY <1>4 DEF CloseBegins, HandleAlive
<1>5. CASE UNCHANGED <<calls, status, requests>> /\ pc' # "waiting"
  BY <1>5
<1> QED
  BY <1>1, <1>2, <1>3, <1>4, <1>5
  DEF Caller, WaitEnds, StartupFails, StartupTimesOut, ReplyIsMalformed,
      ReplyIsMismatched, ReplyIsError, ReplyIsAnswer, RequestTimesOut,
      CallIsInterrupted, Reconnect, CloseEnds, TakeReply, Fail, Return,
      children

LEMMA CallerAskedFor ==
  ASSUME TypeOK, CallBookkeeping, AskedFor, Caller
  PROVE  AskedFor'
<1>1. calls \in Nat /\ calls' \in Nat /\ calls' >= calls
  BY BoundsAssumption, CallerNeverServes DEF TypeOK
<1>2. 1..calls \subseteq 1..calls'
  BY <1>1
<1>3. ASSUME NEW g \in Workers, NEW i \in 1..Len(requests'[g])
      PROVE  requests'[g][i] = CloseMessage \/ requests'[g][i].obs \in 1..calls'
  <2>1. requests[g] \in Seq(Requests)
    BY DEF TypeOK
  <2>2. CASE i \in 1..Len(requests[g]) /\ requests'[g][i] = requests[g][i]
    BY <1>2, <2>2 DEF AskedFor
  <2>3. CASE requests'[g] = Append(requests[g], CloseMessage)
    BY <2>1, <2>2, <2>3
  <2>4. CASE requests'[g] = Append(requests[g], Request(nextId', calls'))
             /\ calls' >= 1
    <3>1. CASE i = Len(requests[g]) + 1
      BY <1>1, <2>1, <2>4, <3>1 DEF Request
    <3> QED
      BY <2>1, <2>2, <2>4, <3>1
  <2> QED
    BY <2>1, <2>2, <2>3, <2>4, CallerNeverServes
<1>4. ASSUME NEW g \in Workers, status'[g] \in {"serving", "receiving"}
      PROVE  serving'[g].obs \in 1..calls'
  BY <1>2, <1>4, CallerNeverServes, CallerEffect DEF AskedFor
<1>5. ASSUME NEW g \in Workers, NEW i \in 1..Len(wire'[g])
      PROVE  wire'[g][i] \in 1..calls'
  BY <1>2, CallerEffect DEF AskedFor
<1>6. ASSUME NEW g \in Workers, NEW i \in 1..Len(responses'[g]),
             responses'[g][i].kind = "response"
      PROVE  responses'[g][i].obs \in 1..calls'
  <2>1. responses[g] \in Seq(Replies)
    BY DEF TypeOK
  <2>2. \E j \in 1..Len(responses[g]) : responses'[g][i] = responses[g][j]
    <3>1. CASE responses[g] # <<>> /\ responses'[g] = Tail(responses[g])
      BY <2>1, <3>1
    <3> QED
      BY <3>1, CallerEffect
  <2> QED
    BY <1>2, <1>6, <2>2 DEF AskedFor
<1> QED
  BY <1>3, <1>4, <1>5, <1>6 DEF AskedFor

LEMMA WorkerAskedFor ==
  ASSUME TypeOK, AskedFor, NEW w \in Workers, Worker(w) \/ Environment(w)
  PROVE  AskedFor'
<1> DEFINE Made(o) == o \in 1..calls
<1>0. calls' = calls
  BY DEF Worker, Environment, WorkerConnects, WorkerCannotConnect,
         WorkerTakesClose, WorkerTakesRequest, WorkerSends, WorkerReceives,
         ReplyIsDropped, WorkerReportsError, ConnectionBreaks, WorkerExits,
         WorkerIsKilled, WorkerCrashes, Gone, caller
<1>1. \A g \in Workers :
         \/ requests'[g] = requests[g]
         \/ requests'[g] = <<>>
         \/ requests[g] # <<>> /\ requests'[g] = Tail(requests[g])
  BY DEF Worker, Environment, WorkerConnects, WorkerCannotConnect,
         WorkerTakesClose, WorkerTakesRequest, WorkerSends, WorkerReceives,
         ReplyIsDropped, WorkerReportsError, ConnectionBreaks, WorkerExits,
         WorkerIsKilled, WorkerCrashes, Gone, TypeOK
<1>2. ASSUME NEW g \in Workers
      PROVE  \/ status'[g] \notin {"serving", "receiving"}
             \/ status[g] \in {"serving", "receiving"} /\ serving'[g] = serving[g]
             \/ /\ requests[g] # <<>> /\ serving'[g] = Head(requests[g])
                /\ Head(requests[g]) # CloseMessage
  BY DEF Worker, Environment, WorkerConnects, WorkerCannotConnect,
         WorkerTakesClose, WorkerTakesRequest, WorkerSends, WorkerReceives,
         ReplyIsDropped, WorkerReportsError, ConnectionBreaks, WorkerExits,
         WorkerIsKilled, WorkerCrashes, Gone, TypeOK, Becomes
<1>3. ASSUME NEW g \in Workers
      PROVE  \/ wire'[g] = wire[g]
             \/ wire'[g] = <<>>
             \/ wire[g] # <<>> /\ wire'[g] = Tail(wire[g])
             \/ status[g] = "serving" /\ wire'[g] = Append(wire[g], serving[g].obs)
  BY DEF Worker, Environment, WorkerConnects, WorkerCannotConnect,
         WorkerTakesClose, WorkerTakesRequest, WorkerSends, WorkerReceives,
         ReplyIsDropped, WorkerReportsError, ConnectionBreaks, WorkerExits,
         WorkerIsKilled, WorkerCrashes, Gone, TypeOK, Becomes
<1>4. ASSUME NEW g \in Workers
      PROVE  \/ responses'[g] = responses[g]
             \/ \E m : /\ responses'[g] = Append(responses[g], m)
                       /\ m.kind = "response" =>
                            wire[g] # <<>> /\ m.obs = Head(wire[g])
  <2> DEFINE Harmless(r) ==
            r.kind = "response" => wire[w] # <<>> /\ r.obs = Head(wire[w])
  <2>0. ASSUME NEW r, Put(w, r), Harmless(r)
        PROVE  \/ responses'[g] = responses[g]
               \/ \E m : /\ responses'[g] = Append(responses[g], m)
                         /\ m.kind = "response" =>
                              wire[g] # <<>> /\ m.obs = Head(wire[g])
    BY <2>0 DEF Put, TypeOK
  <2>1. CASE WorkerReceives(w)
    <3>1. PICK k \in ReplyKinds : Put(w, Reply(k, serving[w].id, Head(wire[w])))
      BY <2>1 DEF WorkerReceives
    <3>2. Harmless(Reply(k, serving[w].id, Head(wire[w])))
      BY <2>1 DEF WorkerReceives, Reply
    <3> QED
      BY <2>0, <3>1, <3>2
  <2>2. CASE WorkerReportsError(w)
    <3>1. Harmless(Reply("error", serving[w].id, serving[w].obs))
      BY DEF Reply
    <3> QED
      BY <2>0, <2>2, <3>1 DEF WorkerReportsError
  <2>3. CASE WorkerConnects(w) \/ WorkerCannotConnect(w)
    <3>1. Harmless(Reply("ready", 0, 0)) /\ Harmless(Reply("startup_error", 0, 0))
      BY DEF Reply
    <3> QED
      BY <2>0, <2>3, <3>1 DEF WorkerConnects, WorkerCannotConnect
  <2>4. CASE UNCHANGED responses
    BY <2>4
  <2> QED
    BY <2>1, <2>2, <2>3, <2>4
    DEF Worker, Environment, WorkerTakesClose, WorkerTakesRequest,
        WorkerSends, ReplyIsDropped, ConnectionBreaks, WorkerExits,
        WorkerIsKilled, WorkerCrashes, Gone
<1>5. ASSUME NEW g \in Workers, NEW i \in 1..Len(requests'[g])
      PROVE  requests'[g][i] = CloseMessage \/ Made(requests'[g][i].obs)
  <2>1. requests[g] \in Seq(Requests)
    BY DEF TypeOK
  <2>2. \E j \in 1..Len(requests[g]) : requests'[g][i] = requests[g][j]
    <3>1. CASE requests[g] # <<>> /\ requests'[g] = Tail(requests[g])
      BY <2>1, <3>1
    <3> QED
      BY <1>1, <3>1
  <2> QED
    BY <2>2 DEF AskedFor
<1>6. ASSUME NEW g \in Workers, status'[g] \in {"serving", "receiving"}
      PROVE  Made(serving'[g].obs)
  <2>1. requests[g] \in Seq(Requests)
    BY DEF TypeOK
  <2>2. CASE requests[g] # <<>> /\ Head(requests[g]) # CloseMessage
             /\ serving'[g] = Head(requests[g])
    <3>1. 1 \in 1..Len(requests[g]) /\ serving'[g] = requests[g][1]
      BY <2>1, <2>2
    <3> QED
      BY <2>2, <3>1 DEF AskedFor
  <2> QED
    BY <1>2, <1>6, <2>2 DEF AskedFor
<1>7. ASSUME NEW g \in Workers, NEW i \in 1..Len(wire'[g])
      PROVE  Made(wire'[g][i])
  <2>1. wire[g] \in Seq(0..MaxCalls)
    BY DEF TypeOK
  <2>2. CASE \E j \in 1..Len(wire[g]) : wire'[g][i] = wire[g][j]
    BY <2>2 DEF AskedFor
  <2>3. CASE wire[g] # <<>> /\ wire'[g] = Tail(wire[g])
    BY <2>1, <2>2, <2>3
  <2>4. CASE status[g] = "serving" /\ wire'[g] = Append(wire[g], serving[g].obs)
    <3>1. CASE i = Len(wire[g]) + 1
      BY <2>1, <2>4, <3>1 DEF AskedFor
    <3> QED
      BY <2>1, <2>2, <2>4, <3>1
  <2> QED
    BY <1>3, <2>1, <2>2, <2>3, <2>4
<1>8. ASSUME NEW g \in Workers, NEW i \in 1..Len(responses'[g]),
             responses'[g][i].kind = "response"
      PROVE  Made(responses'[g][i].obs)
  <2>1. responses[g] \in Seq(Replies) /\ wire[g] \in Seq(0..MaxCalls)
    BY DEF TypeOK
  <2>2. CASE i \in 1..Len(responses[g]) /\ responses'[g][i] = responses[g][i]
    BY <1>8, <2>2 DEF AskedFor
  <2>3. ASSUME NEW r, responses'[g] = Append(responses[g], r),
               r.kind = "response" => wire[g] # <<>> /\ r.obs = Head(wire[g])
        PROVE  Made(responses'[g][i].obs)
    <3>1. CASE i = Len(responses[g]) + 1
      <4>1. responses'[g][i] = r /\ wire[g] # <<>> /\ r.obs = wire[g][1]
        BY <1>8, <2>1, <2>3, <3>1
      <4> QED
        BY <2>1, <4>1 DEF AskedFor
    <3> QED
      BY <2>1, <2>2, <2>3, <3>1
  <2> QED
    BY <1>4, <2>1, <2>2, <2>3
<1> QED
  BY <1>0, <1>5, <1>6, <1>7, <1>8 DEF AskedFor

(* What infer returns is the answer to this or to an earlier call. *)
LEMMA AnswerWasAskedFor ==
  ASSUME TypeOK, CallBookkeeping, AskedFor, ReplyIsAnswer
  PROVE  outcome'.kind = "payload" /\ outcome'.obs \in 1..calls
<1>1. process \in Workers /\ OldestReply = responses[process][1]
      /\ 1 \in 1..Len(responses[process])
  BY TakeReplyType DEF ReplyIsAnswer, TakeReply, OldestReply, TypeOK
<1> QED
  BY <1>1 DEF ReplyIsAnswer, AskedFor, Return, Abstract!Answer

-----------------------------------------------------------------------------
(* The two ways the caller lets go of a child, and what a child's own step *)
(* leaves alone.                                                           *)
LEMMA CallerHandles ==
  ASSUME TypeOK, CallBookkeeping, Caller
  PROVE  \/ UNCHANGED <<process, signalled, status, started>>
         \/ CloseForced /\ UNCHANGED <<status, started>>
         \/ InferStartsWorker
  BY DEF Caller, WaitEnds, InferOnLiveWorker, StartupReady, StartupFails,
         StartupTimesOut, ReplyIsMalformed, ReplyIsMismatched, ReplyIsError,
         ReplyIsAnswer, RequestTimesOut, CallIsInterrupted, Reconnect,
         CloseBegins, CloseEnds, TakeReply, children

LEMMA WorkerStatus ==
  ASSUME TypeOK, NEW w \in Workers, Worker(w) \/ Environment(w)
  PROVE  /\ UNCHANGED <<process, signalled, started, failures, pc>>
         /\ \A g \in Workers : Alive(g)' => Alive(g)
         /\ \A g \in Workers : Alive(g)' /\ status[g] = "exiting"
                => status'[g] = "exiting"
  BY DEF Worker, Environment, WorkerConnects, WorkerCannotConnect,
         WorkerTakesClose, WorkerTakesRequest, WorkerSends, WorkerReceives,
         ReplyIsDropped, WorkerReportsError, ConnectionBreaks, WorkerExits,
         WorkerIsKilled, WorkerCrashes, Gone, Becomes, Alive, TypeOK, caller

LEMMA NoLeakSteps == TransportSteps => []NoChildIsLeaked
<1> DEFINE TInv == TypeOK /\ CallBookkeeping
<1>1. Init => NoChildIsLeaked
  BY DEF Init, NoChildIsLeaked, Alive
<1>2. TInv /\ NoChildIsLeaked /\ Caller => NoChildIsLeaked'
  <2> SUFFICES ASSUME TInv, NoChildIsLeaked, Caller
               PROVE  NoChildIsLeaked'
    OBVIOUS
  <2>1. CASE UNCHANGED <<process, signalled, status, started>>
    BY <2>1 DEF NoChildIsLeaked, Alive
  <2>2. CASE CloseForced /\ UNCHANGED <<status, started>>
    BY <2>2 DEF NoChildIsLeaked, Alive, CloseForced, Terminate, HandleAlive,
        Workers
  <2>3. CASE InferStartsWorker
    BY <2>3 DEF NoChildIsLeaked, Alive, HandleAlive, InferStartsWorker,
        TypeOK, CallBookkeeping, Workers
  <2> QED
    BY <2>1, <2>2, <2>3, CallerHandles
<1>3. TInv /\ NoChildIsLeaked
        /\ (\E w \in Workers : Worker(w) \/ Environment(w))
        => NoChildIsLeaked'
  BY WorkerStatus DEF NoChildIsLeaked
<1>4. NoChildIsLeaked /\ UNCHANGED vars => NoChildIsLeaked'
  BY DEF NoChildIsLeaked, Alive, vars, caller, children
<1>5. TInv /\ NoChildIsLeaked /\ [Next]_vars => NoChildIsLeaked'
  BY <1>2, <1>3, <1>4 DEF Next
<1> QED
  BY <1>1, <1>5, TypeCorrectSteps, PTL DEF TransportSteps

(* No child that keeps running is ever lost sight of: it is the one the    *)
(* instance holds, it was sent SIGTERM, or it has left its loop, for any   *)
(* number of restarts (remote_client.py:165-183).                          *)
THEOREM NoLeak == Spec => []NoChildIsLeaked
  BY NoLeakSteps, PTL DEF Spec, TransportSteps

(* The generation the instance holds, asked or not, never missed a         *)
(* deadline, failed to start or answered for another request.              *)
HeldIsNotRetired ==
    process # 0 =>
        {<<process, how>> : how \in {"startup", "timeout", "mismatch"}}
            \cap failures = {}

LEMMA RetiredSteps == TransportSteps => []RetiredIsNeverReused
<1> DEFINE TInv == TypeOK /\ CallBookkeeping
<1>1. Init => HeldIsNotRetired
  BY DEF Init, HeldIsNotRetired
<1>2. TInv /\ HeldIsNotRetired /\ Caller => HeldIsNotRetired'
  <2> SUFFICES ASSUME TInv, HeldIsNotRetired, Caller
               PROVE  HeldIsNotRetired'
    OBVIOUS
  <2>1. CASE InferStartsWorker
    BY <2>1 DEF InferStartsWorker, HeldIsNotRetired, TypeOK, CallBookkeeping
  <2>2. CASE CloseForced
    BY <2>2 DEF CloseForced, HeldIsNotRetired
  <2>3. CASE UNCHANGED <<process, failures>>
    BY <2>3 DEF HeldIsNotRetired
  <2>4. CASE \/ Fail("malformed", "error") /\ process' = process
             \/ Fail("error", "error") /\ process' = process
             \/ Fail("interrupt", "interrupt") /\ process' = process
    BY <2>4 DEF Fail, HeldIsNotRetired
  <2> QED
    BY <2>1, <2>2, <2>3, <2>4
    DEF Caller, WaitEnds, InferOnLiveWorker, StartupReady, StartupFails,
        StartupTimesOut, ReplyIsMalformed, ReplyIsMismatched, ReplyIsError,
        ReplyIsAnswer, RequestTimesOut, CallIsInterrupted, Reconnect,
        CloseBegins, CloseEnds, TakeReply, children
<1>3. TInv /\ HeldIsNotRetired
        /\ (\E w \in Workers : Worker(w) \/ Environment(w))
        => HeldIsNotRetired'
  BY WorkerStatus DEF HeldIsNotRetired
<1>4. HeldIsNotRetired /\ UNCHANGED vars => HeldIsNotRetired'
  BY DEF HeldIsNotRetired, vars, caller
<1>5. TInv /\ HeldIsNotRetired /\ [Next]_vars => HeldIsNotRetired'
  BY <1>2, <1>3, <1>4 DEF Next
<1>6. TInv /\ HeldIsNotRetired => RetiredIsNeverReused
  BY DEF HeldIsNotRetired, RetiredIsNeverReused, CallBookkeeping
<1> QED
  BY <1>1, <1>5, <1>6, TypeCorrectSteps, PTL DEF TransportSteps

(* A generation that missed a deadline, failed to start or answered for    *)
(* another request is never asked again, for any number of calls           *)
(* (remote_client.py:146-153, 192-202).                                    *)
THEOREM RetiredStaysRetired == Spec => []RetiredIsNeverReused
  BY RetiredSteps, PTL DEF Spec, TransportSteps

-----------------------------------------------------------------------------
(***************************************************************************)
(* Lock step.  As long as no interrupt has reached the caller on the child *)
(* it holds, no call leaves anything behind for the next one: between two  *)
(* calls nothing is under way, while a child starts nothing but its        *)
(* startup message, and during a request nothing but this request, which   *)
(* is in one place at a time: in the request queue, with the child or in   *)
(* the response queue.                                                     *)
(***************************************************************************)
Busy(g) == status[g] \in {"connecting", "serving", "receiving"}

Quiet(g) == requests[g] = <<>> /\ responses[g] = <<>> /\ ~Busy(g)

Opening(g) ==
    /\ requests[g] = <<>>
    /\ \/ status[g] = "connecting" /\ responses[g] = <<>>
       \/ /\ ~Busy(g)
          /\ \/ responses[g] = <<>>
             \/ \E r \in Replies :
                    responses[g] = <<r>> /\ r.kind \in StartupKinds

Awaited(g) ==
    \/ Quiet(g)
    \/ /\ responses[g] = <<>> /\ ~Busy(g)
       /\ \E r \in Requests : requests[g] = <<r>> /\ r.id = nextId
    \/ /\ requests[g] = <<>> /\ responses[g] = <<>>
       /\ status[g] \in {"serving", "receiving"} /\ serving[g].id = nextId
    \/ /\ requests[g] = <<>> /\ ~Busy(g)
       /\ \E r \in Replies : /\ responses[g] = <<r>>
                             /\ r.kind \in ReplyKinds /\ r.id = nextId

LockStep ==
    (process # 0 /\ <<process, "interrupt">> \notin failures) =>
        /\ pc = "idle" => Quiet(process)
        /\ pc = "starting" => Opening(process)
        /\ pc = "waiting" => Awaited(process)

(* Queues of one message. *)
LEMMA OneMessage ==
  ASSUME NEW r
  PROVE  /\ <<r>> # <<>> /\ Head(<<r>>) = r /\ Tail(<<r>>) = <<>>
         /\ Append(<<>>, r) = <<r>>
  OBVIOUS

(* A submitted request is the only thing under way. *)
LEMMA SubmitIsAwaited ==
  ASSUME TypeOK, process \in Workers, NEW o \in 1..MaxCalls, nextId < o,
         Submit(o), requests[process] = <<>>,
         responses'[process] = <<>>, ~Busy(process),
         UNCHANGED <<process, status>>
  PROVE  Awaited(process)'
<1> DEFINE r == Request(nextId + 1, o)
<1>1. nextId + 1 \in 0..MaxCalls
  BY BoundsAssumption DEF TypeOK
<1>2. r \in Requests /\ r.id = nextId + 1
  BY <1>1, MessageTypes DEF Request
<1>3. requests'[process] = <<r>> /\ nextId' = nextId + 1
  BY OneMessage DEF Submit, TypeOK
<1> HIDE DEF r
<1> QED
  BY <1>2, <1>3 DEF Awaited, Busy

LEMMA CallerLockStep ==
  ASSUME TypeOK, CallBookkeeping, LockStep, Caller
  PROVE  LockStep'
<1> USE BoundsAssumption
<1>1. CASE InferOnLiveWorker
  <2>1. /\ process \in Workers /\ calls + 1 \in 1..MaxCalls
        /\ nextId < calls + 1
    BY <1>1
    DEF InferOnLiveWorker, HandleAlive, TypeOK, CallBookkeeping, Workers
  <2>2. /\ pc = "idle" /\ pc' = "waiting" /\ Submit(calls + 1)
        /\ UNCHANGED <<process, failures, status, responses>>
    BY <1>1 DEF InferOnLiveWorker, Submit
  <2>3. CASE <<process, "interrupt">> \in failures
    BY <2>2, <2>3 DEF LockStep
  <2>4. CASE Quiet(process)
    <3>1. Awaited(process)'
      BY <2>1, <2>2, <2>4, SubmitIsAwaited DEF Quiet
    <3> QED
      BY <2>2, <3>1 DEF LockStep
  <2> QED
    BY <2>1, <2>2, <2>3, <2>4 DEF LockStep, Workers
<1>2. CASE InferStartsWorker
  <2>1. /\ started + 1 \in Workers /\ process' = started + 1
        /\ pc' = "starting" /\ status'[started + 1] = "connecting"
        /\ requests'[started + 1] = <<>> /\ responses'[started + 1] = <<>>
    BY <1>2 DEF InferStartsWorker, TypeOK, Workers
  <2> QED
    BY <2>1 DEF LockStep, Opening
<1>3. CASE StartupReady
  <2>1. process \in Workers /\ calls \in 1..MaxCalls /\ nextId < calls
    BY <1>3 DEF StartupReady, TypeOK, CallBookkeeping, Workers
  <2>2. /\ pc = "starting" /\ pc' = "waiting" /\ Submit(calls)
        /\ responses[process] # <<>>
        /\ responses' = [responses EXCEPT ![process] = Tail(@)]
        /\ UNCHANGED <<process, failures, status>>
    BY <1>3 DEF StartupReady, Submit
  <2>3. CASE <<process, "interrupt">> \in failures
    BY <2>2, <2>3 DEF LockStep
  <2>4. CASE Opening(process)
    <3>1. /\ requests[process] = <<>> /\ ~Busy(process)
          /\ Tail(responses[process]) = <<>>
      BY <2>2, <2>4, OneMessage DEF Opening
    <3>2. responses'[process] = <<>>
      BY <2>1, <2>2, <3>1 DEF TypeOK
    <3>3. Awaited(process)'
      BY <2>1, <2>2, <3>1, <3>2, SubmitIsAwaited
    <3> QED
      BY <2>2, <3>3 DEF LockStep
  <2> QED
    BY <2>1, <2>2, <2>3, <2>4 DEF LockStep, Workers
<1>4. CASE process' = 0
  BY <1>4 DEF LockStep
<1>5. CASE ReplyIsMalformed \/ ReplyIsError \/ ReplyIsAnswer
  <2>1. /\ pc = "waiting" /\ pc' = "idle" /\ responses[process] # <<>>
        /\ responses' = [responses EXCEPT ![process] = Tail(@)]
        /\ UNCHANGED <<process, requests, status>>
        /\ failures \subseteq failures' /\ process \in Workers
    BY <1>5, TakeReplyType DEF ReplyIsMalformed, ReplyIsError, ReplyIsAnswer,
        TakeReply, Fail, Return
  <2>2. CASE <<process, "interrupt">> \in failures
    BY <2>1, <2>2 DEF LockStep
  <2>3. CASE Awaited(process)
    <3>1. /\ requests[process] = <<>> /\ ~Busy(process)
          /\ Tail(responses[process]) = <<>>
      BY <2>1, <2>3, OneMessage DEF Awaited, Quiet
    <3>2. Quiet(process)'
      BY <2>1, <3>1 DEF Quiet, Busy, TypeOK
    <3> QED
      BY <2>1, <3>2 DEF LockStep
  <2> QED
    BY <2>1, <2>2, <2>3 DEF LockStep, Workers
<1>6. CASE CallIsInterrupted
  BY <1>6 DEF CallIsInterrupted, Fail, LockStep
<1>7. CASE CloseBegins
  BY <1>7 DEF CloseBegins, LockStep
<1> QED
  BY <1>1, <1>2, <1>3, <1>4, <1>5, <1>6, <1>7
  DEF Caller, WaitEnds, StartupFails, StartupTimesOut, ReplyIsMismatched,
      RequestTimesOut, Reconnect, CloseEnds, CloseForced

LEMMA WorkerLockStep ==
  ASSUME TypeOK, CallBookkeeping, LockStep, NEW w \in Workers,
         Worker(w) \/ Environment(w)
  PROVE  LockStep'
<1> USE BoundsAssumption
<1>1. UNCHANGED <<pc, nextId, process, failures>>
  BY DEF Worker, Environment, WorkerConnects, WorkerCannotConnect,
         WorkerTakesClose, WorkerTakesRequest, WorkerSends, WorkerReceives,
         ReplyIsDropped, WorkerReportsError, ConnectionBreaks, WorkerExits,
         WorkerIsKilled, WorkerCrashes, Gone, caller
<1>2. \A g \in Workers \ {w} :
         /\ requests'[g] = requests[g] /\ responses'[g] = responses[g]
         /\ status'[g] = status[g] /\ serving'[g] = serving[g]
  BY DEF Worker, Environment, WorkerConnects, WorkerCannotConnect,
         WorkerTakesClose, WorkerTakesRequest, WorkerSends, WorkerReceives,
         ReplyIsDropped, WorkerReportsError, ConnectionBreaks, WorkerExits,
         WorkerIsKilled, WorkerCrashes, Gone, Becomes, Put, TypeOK
<1>3. CASE process # w
  <2>1. process # 0 => process \in Workers \ {w}
    BY <1>3 DEF TypeOK, Workers
  <2> QED
    BY <1>1, <1>2, <2>1 DEF LockStep, Quiet, Opening, Awaited, Busy
<1>4. CASE process = w /\ <<w, "interrupt">> \in failures
  BY <1>1, <1>4 DEF LockStep
<1>5. CASE process = w /\ <<w, "interrupt">> \notin failures
  <2>1. /\ pc = "idle" => Quiet(w)
        /\ pc = "starting" => Opening(w)
        /\ pc = "waiting" => Awaited(w)
    BY <1>5 DEF LockStep, Workers
  <2>2. ASSUME /\ pc = "idle" => Quiet(w)'
               /\ pc = "starting" => Opening(w)'
               /\ pc = "waiting" => Awaited(w)'
        PROVE  LockStep'
    BY <1>1, <1>5, <2>2 DEF LockStep
  <2>3. pc = "waiting" => nextId > 0
    BY DEF CallBookkeeping
  <2>4. CASE WorkerConnects(w) \/ WorkerCannotConnect(w)
    <3>1. /\ status[w] = "connecting" /\ requests'[w] = requests[w]
          /\ status'[w] \in {"polling", "exiting"}
      BY <2>4 DEF WorkerConnects, WorkerCannotConnect, Becomes, TypeOK
    <3>2. PICK k \in StartupKinds :
                responses'[w] = Append(responses[w], Reply(k, 0, 0))
      BY <2>4 DEF WorkerConnects, WorkerCannotConnect, Put, TypeOK,
          StartupKinds
    <3>3. ~Quiet(w) /\ ~Awaited(w)
      BY <3>1 DEF Quiet, Awaited, Busy
    <3>4. ASSUME Opening(w)
          PROVE  Opening(w)'
      <4>1. requests[w] = <<>> /\ responses[w] = <<>>
        BY <3>1, <3>4 DEF Opening, Busy
      <4>2. responses'[w] = <<Reply(k, 0, 0)>>
        BY <3>2, <4>1, OneMessage
      <4>3. Reply(k, 0, 0) \in Replies /\ Reply(k, 0, 0).kind = k
        BY MessageTypes DEF Reply
      <4> QED
        BY <3>1, <4>1, <4>2, <4>3 DEF Opening, Busy
    <3> QED
      BY <2>1, <2>2, <3>3, <3>4
  <2>5. CASE WorkerTakesClose(w)
    <3>1. requests[w] # <<>> /\ Head(requests[w]) = CloseMessage
      BY <2>5 DEF WorkerTakesClose
    <3>2. ~Quiet(w) /\ ~Opening(w)
      BY <3>1 DEF Quiet, Opening
    <3>3. pc # "waiting"
      BY <2>1, <2>3, <3>1, <3>2, OneMessage DEF Awaited, CloseMessage
    <3> QED
      BY <2>1, <2>2, <3>2, <3>3
  <2>6. CASE WorkerTakesRequest(w)
    <3>1. /\ requests[w] # <<>> /\ status'[w] = "serving"
          /\ serving'[w] = Head(requests[w])
          /\ requests'[w] = Tail(requests[w])
          /\ responses'[w] = responses[w]
          /\ status[w] = "polling"
      BY <2>6 DEF WorkerTakesRequest, Becomes, TypeOK
    <3>2. ~Quiet(w) /\ ~Opening(w)
      BY <3>1 DEF Quiet, Opening
    <3>3. ASSUME Awaited(w)
          PROVE  Awaited(w)'
      <4>1. PICK r \in Requests : requests[w] = <<r>> /\ r.id = nextId
        BY <3>1, <3>3 DEF Awaited, Quiet
      <4>2. responses[w] = <<>>
        BY <3>1, <3>3 DEF Awaited, Quiet
      <4>3. requests'[w] = <<>> /\ serving'[w] = r
        BY <3>1, <4>1, OneMessage
      <4> QED
        BY <1>1, <3>1, <4>1, <4>2, <4>3 DEF Awaited
    <3> QED
      BY <2>1, <2>2, <3>2, <3>3
  <2>7. CASE WorkerSends(w)
    <3>1. /\ status[w] = "serving" /\ status'[w] = "receiving"
          /\ UNCHANGED <<serving, requests, responses>>
      BY <2>7 DEF WorkerSends, Becomes, TypeOK
    <3>2. ~Quiet(w) /\ ~Opening(w)
      BY <3>1 DEF Quiet, Opening, Busy
    <3>3. Awaited(w) => Awaited(w)'
      BY <1>1, <3>1 DEF Awaited, Quiet, Busy
    <3> QED
      BY <2>1, <2>2, <3>2, <3>3
  <2>8. CASE WorkerReceives(w) \/ WorkerReportsError(w)
    <3>1. /\ status[w] \in {"serving", "receiving"}
          /\ status'[w] = "polling" /\ requests'[w] = requests[w]
      BY <2>8 DEF WorkerReceives, WorkerReportsError, Becomes, TypeOK
    <3>2. \E r \in Replies :
             /\ responses'[w] = Append(responses[w], r)
             /\ r.kind \in ReplyKinds /\ r.id = serving[w].id
      <4>0. serving[w] \in Requests /\ serving[w].id \in 0..MaxCalls
            /\ serving[w].obs \in 0..MaxCalls
        BY MessageTypes DEF TypeOK
      <4>1. CASE WorkerReceives(w)
        <5>1. PICK k \in ReplyKinds :
                 responses' = [responses EXCEPT ![w] =
                    Append(@, Reply(k, serving[w].id, Head(wire[w])))]
          BY <4>1 DEF WorkerReceives, Put
        <5>2. Head(wire[w]) \in 0..MaxCalls
          BY <4>1 DEF WorkerReceives, TypeOK
        <5>3. Reply(k, serving[w].id, Head(wire[w])) \in Replies
          BY <4>0, <5>2, MessageTypes
        <5> QED
          BY <5>1, <5>3 DEF Reply, TypeOK
      <4>2. CASE WorkerReportsError(w)
        <5>1. responses' = [responses EXCEPT ![w] =
                    Append(@, Reply("error", serving[w].id, serving[w].obs))]
          BY <4>2 DEF WorkerReportsError, Put
        <5>2. Reply("error", serving[w].id, serving[w].obs) \in Replies
          BY <4>0, MessageTypes DEF ReplyKinds
        <5> QED
          BY <5>1, <5>2 DEF Reply, TypeOK, ReplyKinds
      <4> QED
        BY <2>8, <4>1, <4>2
    <3>3. ~Quiet(w) /\ ~Opening(w)
      BY <3>1 DEF Quiet, Opening, Busy
    <3>4. ASSUME Awaited(w)
          PROVE  Awaited(w)'
      <4>1. /\ requests[w] = <<>> /\ responses[w] = <<>>
            /\ serving[w].id = nextId
        BY <3>1, <3>4 DEF Awaited, Quiet, Busy
      <4>2. PICK r \in Replies :
                /\ responses'[w] = Append(responses[w], r)
                /\ r.kind \in ReplyKinds /\ r.id = serving[w].id
        BY <3>2
      <4>3. responses'[w] = <<r>> /\ r.id = nextId
        BY <4>1, <4>2, OneMessage
      <4> QED
        BY <1>1, <3>1, <4>1, <4>2, <4>3 DEF Awaited, Busy
    <3> QED
      BY <2>1, <2>2, <3>3, <3>4
  <2>9. CASE ReplyIsDropped(w)
    <3>1. /\ status[w] = "receiving" /\ status'[w] = "polling"
          /\ UNCHANGED <<requests, responses>>
      BY <2>9 DEF ReplyIsDropped, Becomes, TypeOK
    <3>2. ~Quiet(w) /\ ~Opening(w)
      BY <3>1 DEF Quiet, Opening, Busy
    <3>3. Awaited(w) => Awaited(w)'
      BY <3>1 DEF Awaited, Quiet, Busy
    <3> QED
      BY <2>1, <2>2, <3>2, <3>3
  <2>10. CASE ConnectionBreaks(w)
    BY <1>1, <2>1, <2>2, <2>10
    DEF ConnectionBreaks, Quiet, Opening, Awaited, Busy
  <2>11. CASE Gone(w)
    <3>1. /\ status'[w] = "dead" /\ requests'[w] = <<>>
          /\ responses'[w] = responses[w]
      BY <2>11 DEF Gone, TypeOK
    <3>2. ~(Busy(w)')
      BY <3>1 DEF Busy
    <3>3. Quiet(w) => Quiet(w)'
      BY <3>1, <3>2 DEF Quiet
    <3>4. Opening(w) => Opening(w)'
      BY <3>1, <3>2 DEF Opening
    <3>5. Awaited(w) => Awaited(w)'
      BY <1>1, <3>1, <3>2 DEF Awaited, Quiet
    <3> QED
      BY <2>1, <2>2, <3>3, <3>4, <3>5
  <2> QED
    BY <2>4, <2>5, <2>6, <2>7, <2>8, <2>9, <2>10, <2>11
    DEF Worker, Environment, WorkerExits, WorkerIsKilled, WorkerCrashes
<1> QED
  BY <1>3, <1>4, <1>5

(* Nothing is left behind on a child without an interrupt. *)
LEMMA LockStepSteps == TransportSteps => []LockStep
<1>1. Init => LockStep
  BY DEF Init, LockStep
<1>2. TypeOK /\ CallBookkeeping /\ LockStep /\ [Next]_vars => LockStep'
  <2>1. LockStep /\ UNCHANGED vars => LockStep'
    BY DEF LockStep, Quiet, Opening, Awaited, Busy, vars, caller, children
  <2> QED
    BY <2>1, CallerLockStep, WorkerLockStep DEF Next
<1> QED
  BY <1>1, <1>2, TypeCorrectSteps, PTL DEF TransportSteps

LEMMA StaleReplySteps == TransportSteps => []StaleReplyNeedsInterrupt
<1> DEFINE IInv == TypeOK /\ CallBookkeeping /\ LockStep
<1>1. Init => StaleReplyNeedsInterrupt
  BY DEF Init, StaleReplyNeedsInterrupt
<1>2. IInv /\ StaleReplyNeedsInterrupt /\ [Next]_vars
        => StaleReplyNeedsInterrupt'
  <2> SUFFICES ASSUME IInv, StaleReplyNeedsInterrupt, [Next]_vars
               PROVE  StaleReplyNeedsInterrupt'
    OBVIOUS
  <2>1. CASE ReplyIsMalformed \/ ReplyIsMismatched
    <3>1. /\ pc = "waiting" /\ responses[process] # <<>>
          /\ process # 0
          /\ OldestReply.kind \in ReplyKinds => OldestReply.id # nextId
      BY <2>1 DEF ReplyIsMalformed, ReplyIsMismatched, TakeReply,
          CallBookkeeping, StartupKinds, ReplyKinds
    <3>2. ~Awaited(process)
      BY <3>1, OneMessage DEF Awaited, Quiet, OldestReply
    <3>3. <<process, "interrupt">> \in failures
      BY <3>1, <3>2 DEF LockStep
    <3>4. failures' \in {failures \cup {<<process, "malformed">>},
                         failures \cup {<<process, "mismatch">>}}
      BY <2>1 DEF ReplyIsMalformed, ReplyIsMismatched, Fail
    <3> QED
      BY <3>3, <3>4 DEF StaleReplyNeedsInterrupt
  <2>2. CASE UNCHANGED failures
    BY <2>2 DEF StaleReplyNeedsInterrupt
  <2>3. CASE \E how \in {"startup", "timeout", "error", "interrupt"} :
                failures' = failures \cup {<<process, how>>}
    BY <2>3 DEF StaleReplyNeedsInterrupt
  <2>4. CASE \E w \in Workers : Worker(w) \/ Environment(w)
    BY <2>2, <2>4, WorkerStatus
  <2>5. CASE UNCHANGED vars
    BY <2>2, <2>5 DEF vars, caller
  <2> QED
    BY <2>1, <2>2, <2>3, <2>4, <2>5
    DEF Next, Caller, WaitEnds, InferOnLiveWorker, StartupReady,
        StartupFails, StartupTimesOut, InferStartsWorker, ReplyIsError,
        ReplyIsAnswer, RequestTimesOut, CallIsInterrupted, Reconnect,
        CloseBegins, CloseEnds, Fail
<1> QED
  BY <1>1, <1>2, LockStepSteps, TypeCorrectSteps, PTL DEF TransportSteps

(* The id check never fires, and no startup message is read as a reply,    *)
(* but on a child on which the caller was interrupted before, for any      *)
(* number of calls and of children, whatever times out, breaks or dies     *)
(* (remote_client.py:148-153).                                             *)
THEOREM StaleReplyNeedsAnInterrupt == Spec => []StaleReplyNeedsInterrupt
  BY StaleReplySteps, PTL DEF Spec, TransportSteps

(* What the class documents of unconfirmed requests holds on every child   *)
(* on which the caller was not interrupted: whatever timed out, broke,     *)
(* died or was answered with an error before, only the request of this     *)
(* call is under way on the child infer waits for                          *)
(* (remote_client.py:110-112, 143-158).                                    *)
THEOREM UnconfirmedNeedsAnInterrupt ==
    Spec => [](UnconfirmedIsNeverReused \/ <<process, "interrupt">> \in failures)
<1> DEFINE Kept == UnconfirmedIsNeverReused
                    \/ <<process, "interrupt">> \in failures
<1>1. TypeOK /\ CallBookkeeping /\ LockStep => Kept
  <2> SUFFICES ASSUME TypeOK, CallBookkeeping, LockStep, pc = "waiting",
                      <<process, "interrupt">> \notin failures
               PROVE  UnconfirmedIsNeverReused
    BY DEF UnconfirmedIsNeverReused
  <2>1. Awaited(process)
    BY DEF LockStep, CallBookkeeping
  <2>2. CASE Quiet(process)
    BY <2>2 DEF Quiet, Busy, UnconfirmedIsNeverReused
  <2>3. ASSUME NEW r, requests[process] = <<r>>, r.id = nextId,
               responses[process] = <<>>, ~Busy(process)
        PROVE  UnconfirmedIsNeverReused
    BY <2>3 DEF Busy, UnconfirmedIsNeverReused
  <2>4. CASE /\ requests[process] = <<>> /\ responses[process] = <<>>
             /\ serving[process].id = nextId
    BY <2>4 DEF UnconfirmedIsNeverReused
  <2>5. ASSUME NEW r, responses[process] = <<r>>, r.id = nextId,
               requests[process] = <<>>, ~Busy(process)
        PROVE  UnconfirmedIsNeverReused
    BY <2>5 DEF Busy, UnconfirmedIsNeverReused
  <2> QED
    BY <2>1, <2>2, <2>3, <2>4, <2>5 DEF Awaited
<1>2. TransportSteps => []LockStep
  BY LockStepSteps
<1>3. TransportSteps => []Kept
  BY <1>1, <1>2, TypeCorrectSteps, PTL
<1> QED
  BY <1>3, PTL DEF Spec, TransportSteps

-----------------------------------------------------------------------------
(***************************************************************************)
(* A transport that leaves recv() with the reply unread puts its socket    *)
(* out of step for good, but it reports an error when it does, and the     *)
(* caller reads replies in order: up to the first error reply that the     *)
(* caller has not read, the replies of the child it holds are current.     *)
(***************************************************************************)
ErrorBefore(g, n) == \E j \in 1..(n - 1) : responses[g][j].kind = "error"

InStep(g) ==
    IF status[g] = "receiving" THEN wire[g] = <<serving[g].obs>>
                               ELSE wire[g] = <<>> \/ g \in lost

CurrentUntilError(g) ==
    /\ \A i \in 1..Len(responses[g]) :
            responses[g][i].kind = "response" =>
                \/ Current(responses[g][i], nextId, pc = "waiting", calls)
                \/ ErrorBefore(g, i)
    /\ InStep(g) \/ ErrorBefore(g, Len(responses[g]) + 1)

KeptInv ==
    /\ RequestsCurrent
    /\ \A g \in Workers : g > started => wire[g] = <<>>
    /\ (process # 0 /\ <<process, "error">> \notin failures) =>
            CurrentUntilError(process)

(* Taking a reply that is not an error leaves the first error where it is. *)
LEMMA TakenReply ==
  ASSUME TypeOK, CallBookkeeping, Caller, process \in Workers,
         CurrentUntilError(process),
         \/ responses'[process] = responses[process]
         \/ /\ responses[process] # <<>>
            /\ responses[process][1].kind # "error"
            /\ responses'[process] = Tail(responses[process]),
         process' = process
  PROVE  CurrentUntilError(process)'
<1> DEFINE rs == responses[process]
           e  == IF responses'[process] = rs THEN 0 ELSE 1
<1>1. rs \in Seq(Replies)
  BY DEF TypeOK
<1>2. /\ e \in {0, 1} /\ Len(responses'[process]) = Len(rs) - e
      /\ \A i \in 1..(Len(rs) - e) : responses'[process][i] = rs[i + e]
      /\ Len(rs) \in Nat
      /\ e = 1 => Len(rs) > 0 /\ rs[1].kind # "error"
  <2> HIDE DEF rs
  <2>1. CASE responses'[process] = rs
    BY <1>1, <2>1
  <2>2. CASE rs # <<>> /\ responses'[process] = Tail(rs)
             /\ rs[1].kind # "error"
    BY <1>1, <2>2
  <2> QED
    BY <2>1, <2>2 DEF rs
<1> HIDE DEF rs, e
<1>3. ASSUME NEW n \in 1..(Len(rs) - e + 1),
             \E j \in 1..((n + e) - 1) : rs[j].kind = "error"
      PROVE  ErrorBefore(process, n)'
  <2>1. PICK j \in 1..((n + e) - 1) : rs[j].kind = "error"
    BY <1>3
  <2>2. j - e \in 1..(n - 1) /\ j - e \in 1..(Len(rs) - e)
    BY <1>2, <2>1
  <2>3. responses'[process][j - e] = rs[j]
    BY <1>2, <2>2
  <2> QED
    BY <2>1, <2>2, <2>3 DEF ErrorBefore
<1>4. ASSUME NEW i \in 1..Len(responses'[process]),
             responses'[process][i].kind = "response"
      PROVE  \/ Current(responses'[process][i], nextId', pc' = "waiting",
                        calls')
             \/ ErrorBefore(process, i)'
  <2>1. /\ i + e \in 1..Len(rs) /\ responses'[process][i] = rs[i + e]
        /\ i \in 1..(Len(rs) - e + 1)
    BY <1>2
  <2>2. CASE Current(rs[i + e], nextId, pc = "waiting", calls)
    <3>1. rs[i + e].id \in Nat
      BY <1>1, <2>1, MessageTypes
    <3> QED
      BY <2>1, <2>2, <3>1, CallerEffect, StaysCurrent
  <2>3. CASE ErrorBefore(process, i + e)
    <3>1. \E j \in 1..((i + e) - 1) : rs[j].kind = "error"
      BY <2>3 DEF ErrorBefore, rs
    <3> QED
      BY <1>3, <2>1, <3>1
  <2> QED
    BY <1>4, <2>1, <2>2, <2>3 DEF CurrentUntilError, rs
<1>5. InStep(process) => InStep(process)'
  BY CallerEffect DEF InStep
<1>6. ErrorBefore(process, Len(rs) + 1)
        => ErrorBefore(process, Len(responses[process]) + 1)'
  <2> SUFFICES ASSUME ErrorBefore(process, Len(rs) + 1)
               PROVE  ErrorBefore(process, Len(responses[process]) + 1)'
    OBVIOUS
  <2>1. \E j \in 1..(((Len(rs) - e + 1) + e) - 1) : rs[j].kind = "error"
    <3>1. ((Len(rs) - e + 1) + e) - 1 = (Len(rs) + 1) - 1
      BY <1>2
    <3>2. \E j \in 1..((Len(rs) + 1) - 1) : rs[j].kind = "error"
      BY DEF ErrorBefore, rs
    <3> QED
      BY <3>1, <3>2
  <2> DEFINE m == Len(rs) - e + 1
  <2>0. m \in 1..m
    <3>1. Len(rs) - e \in Nat
      BY <1>2
    <3> QED
      BY <3>1
  <2> HIDE DEF m
  <2>2. PICK n \in 1..m : n = m
    BY <2>0
  <2>3. ErrorBefore(process, n)'
    BY <1>3, <2>1, <2>2 DEF m
  <2>4. Len(responses[process])' + 1 = n
    BY <1>2, <2>2 DEF m
  <2> QED
    BY <2>3, <2>4
<1> QED
  BY <1>4, <1>5, <1>6 DEF CurrentUntilError, rs

LEMMA CallerKept ==
  ASSUME TypeOK, CallBookkeeping, KeptInv, Caller
  PROVE  KeptInv'
<1> USE BoundsAssumption
<1>1. RequestsCurrent'
  BY CallerAsks DEF KeptInv
<1>2. (\A g \in Workers : g > started => wire[g] = <<>>)'
  <2>1. wire' = wire /\ started' \in Nat /\ started' >= started
    BY CallerEffect, CallerHandles DEF InferStartsWorker, TypeOK
  <2> QED
    BY <2>1 DEF KeptInv, TypeOK, Workers
<1>3. ASSUME process' # 0, <<process', "error">> \notin failures'
      PROVE  CurrentUntilError(process)'
  <2>1. CASE InferStartsWorker
    <3>1. /\ started + 1 \in Workers /\ process' = started + 1
          /\ responses'[started + 1] = <<>>
          /\ status'[started + 1] = "connecting"
          /\ wire' = wire
      BY <2>1 DEF InferStartsWorker, TypeOK, Workers
    <3>2. wire[started + 1] = <<>>
      BY <3>1 DEF KeptInv, TypeOK
    <3> QED
      BY <3>1, <3>2 DEF CurrentUntilError, InStep
  <2>2. CASE process' = process /\ ~InferStartsWorker
    <3>1. process \in Workers
      BY <1>3, <2>2 DEF TypeOK, Workers
    <3>2. failures \subseteq failures'
      BY <2>2 DEF Caller, WaitEnds, InferOnLiveWorker, StartupReady,
          StartupFails, StartupTimesOut, ReplyIsMalformed, ReplyIsMismatched,
          ReplyIsError, ReplyIsAnswer, RequestTimesOut, CallIsInterrupted,
          Reconnect, CloseBegins, CloseEnds, Fail
    <3>3. CurrentUntilError(process)
      BY <1>3, <2>2, <3>2 DEF KeptInv
    <3>4. \/ responses'[process] = responses[process]
          \/ /\ responses[process] # <<>>
             /\ responses[process][1].kind # "error"
             /\ responses'[process] = Tail(responses[process])
      <4>1. CASE StartupReady
        BY <3>1, <4>1 DEF StartupReady, TypeOK
      <4>2. CASE ReplyIsMalformed \/ ReplyIsAnswer
        BY <3>1, <4>2 DEF ReplyIsMalformed, ReplyIsAnswer, TakeReply,
            OldestReply, StartupKinds, TypeOK
      <4>3. ~ReplyIsError
        BY <1>3, <2>2 DEF ReplyIsError, Fail
      <4> QED
        BY <1>3, <2>2, <4>1, <4>2, <4>3
        DEF Caller, WaitEnds, InferOnLiveWorker, StartupFails,
            StartupTimesOut, ReplyIsMismatched, RequestTimesOut,
            CallIsInterrupted, Reconnect, CloseBegins, CloseEnds,
            CloseForced, children
    <3> QED
      BY <2>2, <3>1, <3>3, <3>4, TakenReply
  <2> QED
    BY <1>3, <2>1, <2>2, CallerHandles DEF CloseForced
<1> QED
  BY <1>1, <1>2, <1>3 DEF KeptInv

(* A reply that is put goes behind the errors that are in the queue. *)
LEMMA PutReply ==
  ASSUME TypeOK, NEW g \in Workers, NEW r \in Replies,
         responses'[g] = Append(responses[g], r),
         UNCHANGED <<pc, nextId, calls>>,
         CurrentUntilError(g),
         r.kind = "response" =>
            \/ Current(r, nextId, pc = "waiting", calls)
            \/ ErrorBefore(g, Len(responses[g]) + 1),
         \/ InStep(g)'
         \/ r.kind = "error"
         \/ ErrorBefore(g, Len(responses[g]) + 1)
  PROVE  CurrentUntilError(g)'
<1> DEFINE rs == responses[g]
<1>1. /\ rs \in Seq(Replies) /\ Len(rs) \in Nat
      /\ Len(responses'[g]) = Len(rs) + 1
      /\ \A j \in 1..Len(rs) : responses'[g][j] = rs[j]
      /\ responses'[g][Len(rs) + 1] = r
  <2>1. rs \in Seq(Replies)
    BY DEF TypeOK
  <2> HIDE DEF rs
  <2>2. responses'[g] = Append(rs, r)
    BY DEF rs
  <2> QED
    BY <2>1, <2>2
<1>2. ASSUME NEW n \in 1..(Len(rs) + 1), ErrorBefore(g, n)
      PROVE  ErrorBefore(g, n)'
  <2>1. PICK j \in 1..(n - 1) : rs[j].kind = "error"
    BY <1>2 DEF ErrorBefore
  <2>2. j \in 1..Len(rs)
    BY <1>1, <2>1
  <2> QED
    BY <1>1, <2>1, <2>2 DEF ErrorBefore
<1>3. ASSUME NEW i \in 1..Len(responses'[g]),
             responses'[g][i].kind = "response"
      PROVE  Current(responses'[g][i], nextId', pc' = "waiting", calls')
                \/ ErrorBefore(g, i)'
  <2>1. CASE i = Len(rs) + 1
    BY <1>1, <1>2, <1>3, <2>1
  <2>2. CASE i \in 1..Len(rs)
    <3>1. responses'[g][i] = rs[i] /\ i \in 1..(Len(rs) + 1)
      BY <1>1, <2>2
    <3>2. Current(rs[i], nextId, pc = "waiting", calls) \/ ErrorBefore(g, i)
      BY <1>3, <2>2, <3>1 DEF CurrentUntilError
    <3> QED
      BY <1>2, <3>1, <3>2
  <2> QED
    BY <1>1, <2>1, <2>2
<1>4. ASSUME r.kind = "error" \/ ErrorBefore(g, Len(rs) + 1)
      PROVE  ErrorBefore(g, Len(responses[g]) + 1)'
  <2>1. \E j \in 1..(Len(rs) + 1) : responses'[g][j].kind = "error"
    <3>1. CASE r.kind = "error"
      BY <1>1, <3>1
    <3>2. CASE ErrorBefore(g, Len(rs) + 1)
      <4>1. PICK j \in 1..((Len(rs) + 1) - 1) : rs[j].kind = "error"
        BY <3>2 DEF ErrorBefore
      <4>2. j \in 1..Len(rs) /\ j \in 1..(Len(rs) + 1)
        BY <1>1, <4>1
      <4> QED
        BY <1>1, <4>1, <4>2
    <3> QED
      BY <1>4, <3>1, <3>2
  <2>2. (Len(responses'[g]) + 1) - 1 = Len(rs) + 1
    BY <1>1
  <2> QED
    BY <2>1, <2>2 DEF ErrorBefore
<1> QED
  BY <1>3, <1>4 DEF CurrentUntilError

LEMMA WorkerKept ==
  ASSUME TypeOK, CallBookkeeping, KeptInv, NEW w \in Workers,
         Worker(w) \/ Environment(w)
  PROVE  KeptInv'
<1> USE BoundsAssumption
<1>1. UNCHANGED <<pc, nextId, calls, process, failures, started>>
  BY DEF Worker, Environment, WorkerConnects, WorkerCannotConnect,
         WorkerTakesClose, WorkerTakesRequest, WorkerSends, WorkerReceives,
         ReplyIsDropped, WorkerReportsError, ConnectionBreaks, WorkerExits,
         WorkerIsKilled, WorkerCrashes, Gone, caller
<1>2. RequestsCurrent'
  BY WorkerAsks DEF KeptInv
<1>3. ASSUME NEW g \in Workers, g > started
      PROVE  wire'[g] = <<>>
  <2>1. wire[g] = <<>> /\ status[g] = "unborn"
    BY <1>3 DEF KeptInv, CallBookkeeping
  <2> QED
    BY <2>1 DEF Worker, Environment, WorkerConnects, WorkerCannotConnect,
         WorkerTakesClose, WorkerTakesRequest, WorkerSends, WorkerReceives,
         ReplyIsDropped, WorkerReportsError, ConnectionBreaks, WorkerExits,
         WorkerIsKilled, WorkerCrashes, Gone, Becomes, TypeOK
<1>4. ASSUME process # 0, CurrentUntilError(process)
      PROVE  CurrentUntilError(process)'
  <2>1. process \in Workers
    BY <1>4 DEF TypeOK, Workers
  <2>2. CASE process # w
    <3>1. /\ status'[process] = status[process]
          /\ wire'[process] = wire[process]
          /\ serving'[process] = serving[process]
          /\ responses'[process] = responses[process]
          /\ lost \subseteq lost'
      BY <2>1, <2>2 DEF Worker, Environment, WorkerConnects,
         WorkerCannotConnect, WorkerTakesClose, WorkerTakesRequest,
         WorkerSends, WorkerReceives, ReplyIsDropped, WorkerReportsError,
         ConnectionBreaks, WorkerExits, WorkerIsKilled, WorkerCrashes, Gone,
         Becomes, Put, TypeOK
    <3> QED
      BY <1>1, <1>4, <3>1 DEF CurrentUntilError, ErrorBefore, InStep
  <2>3. CASE process = w
    <3>0. CurrentUntilError(w)
      BY <1>4, <2>3
    <3>w. ASSUME CurrentUntilError(w)'
          PROVE  CurrentUntilError(process)'
      BY <1>1, <2>3, <3>w DEF CurrentUntilError, ErrorBefore, InStep
    <3>1. CASE UNCHANGED responses /\ (InStep(w) => InStep(w)')
      BY <1>1, <2>3, <3>0, <3>1 DEF CurrentUntilError, ErrorBefore
    <3>2. CASE WorkerReceives(w)
      <4>1. serving[w].id \in 0..MaxCalls /\ Head(wire[w]) \in 0..MaxCalls
        BY <3>2, MessageTypes DEF WorkerReceives, TypeOK
      <4>2. PICK k \in ReplyKinds : responses' = [responses EXCEPT ![w] =
                    Append(@, Reply(k, serving[w].id, Head(wire[w])))]
        BY <3>2 DEF WorkerReceives, Put
      <4> DEFINE r == Reply(k, serving[w].id, Head(wire[w]))
      <4>3. /\ r \in Replies /\ r.kind = k
            /\ r.id = serving[w].id /\ r.obs = Head(wire[w])
        BY <4>1, MessageTypes DEF Reply
      <4>4. responses'[w] = Append(responses[w], r)
        BY <4>2 DEF TypeOK
      <4> HIDE DEF r
      <4>5. status[w] = "receiving" /\ status'[w] = "polling"
        BY <3>2 DEF WorkerReceives, Becomes, TypeOK
      <4>6. CASE InStep(w)
        <5>1. Head(wire[w]) = serving[w].obs /\ wire'[w] = <<>>
          BY <3>2, <4>5, <4>6, OneMessage DEF WorkerReceives, InStep, TypeOK
        <5>2. InStep(w)'
          BY <4>5, <5>1 DEF InStep
        <5>3. Current(r, nextId, pc = "waiting", calls)
          BY <4>3, <5>1 DEF KeptInv, RequestsCurrent, Current
        <5>4. CurrentUntilError(w)'
          BY <1>1, <3>0, <4>3, <4>4, <5>2, <5>3, PutReply
        <5> QED
          BY <3>w, <5>4
      <4>7. CASE ErrorBefore(w, Len(responses[w]) + 1)
        <5>1. CurrentUntilError(w)'
          BY <1>1, <3>0, <4>3, <4>4, <4>7, PutReply
        <5> QED
          BY <3>w, <5>1
      <4> QED
        BY <3>0, <4>6, <4>7 DEF CurrentUntilError
    <3>3. CASE WorkerReportsError(w)
      <4> DEFINE r == Reply("error", serving[w].id, serving[w].obs)
      <4>1. r \in Replies /\ r.kind = "error"
        BY MessageTypes DEF Reply, ReplyKinds, TypeOK
      <4>2. responses'[w] = Append(responses[w], r)
        BY <3>3 DEF WorkerReportsError, Put, TypeOK
      <4> HIDE DEF r
      <4>3. CurrentUntilError(w)'
        BY <1>1, <3>0, <4>1, <4>2, PutReply
      <4> QED
        BY <3>w, <4>3
    <3>4. CASE WorkerConnects(w) \/ WorkerCannotConnect(w)
      <4>1. PICK k \in StartupKinds :
                responses'[w] = Append(responses[w], Reply(k, 0, 0))
        BY <3>4 DEF WorkerConnects, WorkerCannotConnect, Put, TypeOK,
            StartupKinds
      <4> DEFINE r == Reply(k, 0, 0)
      <4>2. r \in Replies /\ r.kind # "response"
        BY MessageTypes DEF Reply, StartupKinds
      <4>3. InStep(w) => InStep(w)'
        BY <3>4 DEF WorkerConnects, WorkerCannotConnect, Becomes, InStep,
            TypeOK
      <4> HIDE DEF r
      <4>4. responses'[w] = Append(responses[w], r)
        BY <4>1 DEF r
      <4>5. InStep(w)' \/ ErrorBefore(w, Len(responses[w]) + 1)
        BY <3>0, <4>3 DEF CurrentUntilError
      <4>6. CurrentUntilError(w)'
        BY <1>1, <3>0, <4>2, <4>4, <4>5, PutReply
      <4> QED
        BY <3>w, <4>6
    <3>5. CASE WorkerSends(w)
      <4>1. UNCHANGED responses
        BY <3>5 DEF WorkerSends
      <4>2. InStep(w) => InStep(w)'
        <5> SUFFICES ASSUME InStep(w) PROVE InStep(w)'
          OBVIOUS
        <5>1. wire[w] = <<>>
          BY <3>5 DEF WorkerSends, Becomes, InStep
        <5>2. wire'[w] = <<serving[w].obs>> /\ UNCHANGED serving
          BY <3>5, <5>1, OneMessage DEF WorkerSends, TypeOK
        <5>3. status'[w] = "receiving"
          BY <3>5 DEF WorkerSends, Becomes, TypeOK
        <5> QED
          BY <5>2, <5>3 DEF InStep
      <4> QED
        BY <3>1, <4>1, <4>2
    <3>6. CASE ReplyIsDropped(w)
      <4>1. UNCHANGED responses /\ status[w] = "receiving"
            /\ status'[w] = "polling"
        BY <3>6 DEF ReplyIsDropped, Becomes, TypeOK
      <4>2. InStep(w) => wire'[w] = <<>>
        BY <3>6, <4>1, OneMessage DEF ReplyIsDropped, InStep, TypeOK
      <4> QED
        BY <3>1, <4>1, <4>2 DEF InStep
    <3>7. CASE WorkerTakesClose(w) \/ WorkerTakesRequest(w)
                \/ ConnectionBreaks(w) \/ Gone(w)
      <4>1. UNCHANGED responses
        BY <3>7 DEF WorkerTakesClose, WorkerTakesRequest, ConnectionBreaks,
            Gone
      <4>2. InStep(w) => InStep(w)'
        BY <3>7 DEF WorkerTakesClose, WorkerTakesRequest, ConnectionBreaks,
            Gone, Becomes, InStep, TypeOK
      <4> QED
        BY <3>1, <4>1, <4>2
    <3> QED
      BY <3>2, <3>3, <3>4, <3>5, <3>6, <3>7
      DEF Worker, Environment, WorkerExits, WorkerIsKilled, WorkerCrashes
  <2> QED
    BY <2>2, <2>3
<1> QED
  BY <1>1, <1>2, <1>3, <1>4 DEF KeptInv

LEMMA StaleAnswerSteps == TransportSteps => []StaleAnswerNeedsKeptChild
<1> DEFINE IInv == TypeOK /\ CallBookkeeping /\ KeptInv
<1>1. Init => KeptInv /\ StaleAnswerNeedsKeptChild
  BY DEF Init, KeptInv, RequestsCurrent, Current, CloseMessage,
         StaleAnswerNeedsKeptChild, Abstract!Pending
<1>2. IInv /\ [Next]_vars => KeptInv'
  <2>1. IInv /\ UNCHANGED vars => KeptInv'
    BY DEF KeptInv, RequestsCurrent, CurrentUntilError, ErrorBefore, InStep,
           vars, caller, children
  <2> QED
    BY <2>1, CallerKept, WorkerKept DEF Next
<1>3. IInv /\ StaleAnswerNeedsKeptChild /\ [Next]_vars
        => StaleAnswerNeedsKeptChild'
  <2> SUFFICES ASSUME IInv, StaleAnswerNeedsKeptChild, [Next]_vars
               PROVE  StaleAnswerNeedsKeptChild'
    OBVIOUS
  <2>1. CASE ReplyIsAnswer
    <3>1. /\ process \in Workers /\ OldestReply = responses[process][1]
          /\ 1 \in 1..Len(responses[process])
          /\ OldestReply.kind = "response" /\ OldestReply.id = nextId
          /\ pc = "waiting"
          /\ outcome' = Abstract!Answer(OldestReply.obs)
          /\ UNCHANGED <<process, failures, calls>>
      BY <2>1, TakeReplyType
      DEF ReplyIsAnswer, TakeReply, OldestReply, Return, TypeOK
    <3>2. CASE <<process, "error">> \in failures
      BY <3>1, <3>2 DEF StaleAnswerNeedsKeptChild
    <3>3. CASE CurrentUntilError(process)
      <4>1. ~ErrorBefore(process, 1)
        BY DEF ErrorBefore
      <4>2. OldestReply.obs = calls
        BY <3>1, <3>3, <4>1 DEF CurrentUntilError, Current
      <4> QED
        BY <3>1, <4>2 DEF StaleAnswerNeedsKeptChild, Abstract!Answer
    <3> QED
      BY <3>1, <3>2, <3>3 DEF KeptInv, Workers
  <2>2. CASE outcome' = Abstract!Pending
    BY <2>2 DEF StaleAnswerNeedsKeptChild, Abstract!Pending
  <2>3. CASE \E e \in {"timeout", "error", "interrupt"} :
                outcome' = Abstract!Raised(e)
    BY <2>3 DEF StaleAnswerNeedsKeptChild, Abstract!Raised
  <2>4. CASE UNCHANGED <<outcome, calls, failures>>
             /\ process' \in {0, process}
    BY <2>4 DEF StaleAnswerNeedsKeptChild
  <2>5. CASE \E w \in Workers : Worker(w) \/ Environment(w)
    BY <2>4, <2>5
    DEF Worker, Environment, WorkerConnects, WorkerCannotConnect,
        WorkerTakesClose, WorkerTakesRequest, WorkerSends, WorkerReceives,
        ReplyIsDropped, WorkerReportsError, ConnectionBreaks, WorkerExits,
        WorkerIsKilled, WorkerCrashes, Gone, caller
  <2>6. CASE UNCHANGED vars
    BY <2>4, <2>6 DEF vars, caller
  <2> QED
    BY <2>1, <2>2, <2>3, <2>4, <2>5, <2>6
    DEF Next, Caller, WaitEnds, InferOnLiveWorker, StartupReady, Submit,
        StartupFails, StartupTimesOut, InferStartsWorker, ReplyIsMalformed,
        ReplyIsMismatched, ReplyIsError, RequestTimesOut, CallIsInterrupted,
        Reconnect, CloseBegins, CloseEnds, CloseForced, Fail, Return
<1> QED
  BY <1>1, <1>2, <1>3, TypeCorrectSteps, PTL DEF TransportSteps

(* A transport that leaves replies unread makes infer return a stale       *)
(* payload only through a child that was kept after an error reply, for    *)
(* any number of calls and of children (remote_client.py:154-158).         *)
THEOREM StaleAnswerNeedsAKeptChild == Spec => []StaleAnswerNeedsKeptChild
  BY StaleAnswerSteps, PTL DEF Spec, TransportSteps

LEMMA PolicyCallSteps ==
  ASSUME ~RecvMayAbort
  PROVE  TransportSteps => Abstract!Init /\ [][Abstract!Next]_(Abstract!vars)
<1> DEFINE IInv == TypeOK /\ CallBookkeeping /\ FreshInv
<1>1. Init => IInv /\ Abstract!Init
  BY InitType, InitFresh DEF Init, Abstract!Init
<1>2. IInv /\ Next => IInv'
  BY CallerType, WorkerType, CallerFresh, WorkerFresh DEF Next
<1>3. IInv /\ UNCHANGED vars => IInv'
  BY DEF TypeOK, CallBookkeeping, FreshInv, RequestsCurrent, RepliesCurrent, SocketInStep,
         PayloadIsForThisCall, vars, caller, children
<1>4. IInv /\ Caller => Abstract!Next \/ UNCHANGED Abstract!vars
  <2> SUFFICES ASSUME IInv, Caller
               PROVE  Abstract!Next \/ UNCHANGED Abstract!vars
    OBVIOUS
  <2> USE DEF Abstract!Next, Abstract!vars
  <2>1. CASE InferOnLiveWorker
    BY <2>1 DEF InferOnLiveWorker, Submit, Abstract!Begin
  <2>2. CASE InferStartsWorker
    BY <2>2 DEF InferStartsWorker, Abstract!Begin
  <2>3. CASE ReplyIsAnswer
    <3>1. PayloadIsForThisCall'
      BY CallerFresh DEF FreshInv
    <3>2. outcome' = Abstract!Answer(calls)
      BY <2>3, <3>1 DEF ReplyIsAnswer, TakeReply, Return,
          PayloadIsForThisCall, Abstract!Answer
    <3> QED
      BY <2>3, <3>2 DEF ReplyIsAnswer, TakeReply, Return, Abstract!Finish
  <2>4. CASE \/ StartupFails \/ StartupTimesOut \/ RequestTimesOut
             \/ ReplyIsMalformed \/ ReplyIsMismatched \/ ReplyIsError
             \/ CallIsInterrupted
    BY <2>4 DEF StartupFails, StartupTimesOut, RequestTimesOut,
        ReplyIsMalformed, ReplyIsMismatched, ReplyIsError, CallIsInterrupted,
        TakeReply, Fail, Return, Abstract!Finish, Abstract!Exceptions
  <2>5. CASE StartupReady \/ Reconnect \/ CloseBegins \/ CloseEnds
    BY <2>5 DEF StartupReady, Submit, Reconnect, CloseBegins, CloseEnds
  <2> QED
    BY <2>1, <2>2, <2>3, <2>4, <2>5 DEF Caller, WaitEnds
<1>5. IInv /\ (\E w \in Workers : Worker(w) \/ Environment(w))
        => UNCHANGED Abstract!vars
  BY DEF Worker, Environment, WorkerConnects, WorkerCannotConnect,
         WorkerTakesClose, WorkerTakesRequest, WorkerSends, WorkerReceives,
         ReplyIsDropped, WorkerReportsError, ConnectionBreaks, WorkerExits,
         WorkerIsKilled, WorkerCrashes, Gone, caller, Abstract!vars
<1>6. IInv /\ [Next]_vars => IInv' /\ [Abstract!Next]_(Abstract!vars)
  BY <1>2, <1>3, <1>4, <1>5 DEF Next, vars, caller, Abstract!vars
<1> QED
  BY <1>1, <1>6, PTL DEF TransportSteps

(* Step by step the transport does what PolicyCall allows: a call begins   *)
(* when infer is entered, ends with the answer to its own observation or   *)
(* with an exception, and everything else is invisible to the caller.      *)
THEOREM TransportImplementsPolicyCall ==
  ASSUME ~RecvMayAbort
  PROVE  Spec => Abstract!Init /\ [][Abstract!Next]_(Abstract!vars)
  BY PolicyCallSteps, PTL DEF Spec, TransportSteps
=============================================================================

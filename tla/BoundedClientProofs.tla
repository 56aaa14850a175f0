------------------------- MODULE BoundedClientProofs -------------------------
(***************************************************************************)
(* Proofs about BoundedClient for every number of calls and of transports. *)
(***************************************************************************)
EXTENDS BoundedClient, TLAPS

-----------------------------------------------------------------------------
(* Threads are started one per call, and one that is still at work belongs *)
(* to the call in progress or to an unconfirmed one.                       *)
ThreadsInStep ==
    /\ \A c \in Threads : c > calls => thread[c] = "none"
    /\ \A c \in unconfirmed : c <= calls
    /\ waiting => calls > 0 /\ calls \notin unconfirmed
    /\ \A c \in sent : thread[c] \in {"receiving", "done"}
    /\ \A c \in 1..calls :
            thread[c] \in {"submitted", "sending", "receiving"}
                => (waiting /\ c = calls)
                   \/ (c \in unconfirmed /\ thread[c] # "submitted")

(* A socket over which every request was confirmed holds at most the reply *)
(* to the request in progress.                                             *)
SocketsInStep ==
    \A k \in Connections :
        /\ k \in lost => wire[k] = <<>>
        /\ ~Distrusted(k) =>
            \/ wire[k] = <<>>
            \/ /\ wire[k] = <<calls>>
               /\ waiting
               /\ uses[calls] = k
               /\ \/ thread[calls] = "receiving"
                  \/ Finished(calls) /\ result[calls].kind = "TimeoutError"

ResultInStep ==
    /\ \A c \in Threads : result[c].kind = "payload" => result[c].obs # 0
    /\ (waiting /\ Finished(calls) /\ result[calls].kind = "payload")
            => result[calls].obs = calls \/ Distrusted(uses[calls])

(* A caller that reconnects makes no call over the transport of an         *)
(* unconfirmed one.                                                        *)
ReconnectsInStep ==
    CallerReconnects =>
        \A c \in unconfirmed, d \in 1..calls : uses[c] = uses[d] => d <= c

BoundedInv ==
    /\ BoundedTypeOK
    /\ ThreadsInStep
    /\ SocketsInStep
    /\ ResultInStep
    /\ ReconnectsInStep
    /\ StaleNeedsUnconfirmed

-----------------------------------------------------------------------------
LEMMA ResultTypes ==
  /\ \A c \in Threads : Payload(c) \in Results
  /\ {NotADict, Error, TimedOut} \subseteq Results
  /\ \A r \in Results : r.obs \in 0..MaxCalls
  BY BoundedAssumption DEF Payload, NotADict, Error, TimedOut, Results, Threads

LEMMA CallOutcomes ==
  /\ Call!Pending \in Call!Outcomes
  /\ Call!Pending.kind # "payload" /\ Call!Pending.obs = 0
  /\ \A n \in 0..MaxCalls : /\ Call!Answer(n) \in Call!Outcomes
                            /\ Call!Answer(n).kind = "payload"
                            /\ Call!Answer(n).obs = n
  /\ \A e \in {"timeout", "error", "interrupt"} :
        /\ Call!Raised(e) \in Call!Outcomes
        /\ Call!Raised(e).kind # "payload" /\ Call!Raised(e).obs = 0
  BY BoundedAssumption
  DEF Call!Pending, Call!Answer, Call!Raised, Call!Outcomes, Call!Exceptions

LEMMA BoundedInitInv == BoundedInit => BoundedInv
<1> SUFFICES ASSUME BoundedInit
             PROVE  BoundedInv
  OBVIOUS
<1>1. BoundedTypeOK
  <2>1. outcome \in Call!Outcomes /\ (outcome.kind = "payload" <=> outcome.obs # 0)
    BY CallOutcomes DEF BoundedInit
  <2>5. 1 \in Connections /\ 0 \in 0..MaxCalls
    BY BoundedAssumption DEF Connections
  <2>2. result \in [Threads -> Results]
    BY ResultTypes DEF BoundedInit
  <2>3. wire \in [Connections -> Seq(Threads)]
    BY DEF BoundedInit
  <2>4. /\ thread \in [Threads -> {"none", "submitted", "sending",
                                   "receiving", "done", "cancelled"}]
        /\ uses \in [Threads -> Connections]
    BY BoundedAssumption DEF BoundedInit, Connections
  <2> QED
    BY <2>1, <2>2, <2>3, <2>4, <2>5 DEF BoundedInit, BoundedTypeOK
<1>2. ThreadsInStep /\ ReconnectsInStep
  BY BoundedAssumption DEF BoundedInit, ThreadsInStep, ReconnectsInStep, Threads
<1>3. SocketsInStep /\ ResultInStep
  BY DEF BoundedInit, SocketsInStep, ResultInStep, Finished, Error
<1>4. StaleNeedsUnconfirmed
  BY CallOutcomes DEF BoundedInit, StaleNeedsUnconfirmed
<1> QED
  BY <1>1, <1>2, <1>3, <1>4 DEF BoundedInv

-----------------------------------------------------------------------------
(* The steps of the caller. *)
LEMMA InferInv == ASSUME BoundedInv, Infer PROVE BoundedInv'
<1> USE BoundedAssumption DEF BoundedInv
<1>1. /\ calls' = calls + 1 /\ calls' \in Threads
      /\ calls' \notin unconfirmed /\ calls' \notin sent
      /\ thread[calls'] = "none"
  <2>1. calls' = calls + 1 /\ calls' \in Threads /\ calls' > calls
    BY DEF Infer, BoundedTypeOK, Threads
  <2>2. thread[calls'] = "none"
    BY <2>1 DEF ThreadsInStep
  <2>3. calls' \notin unconfirmed
    BY <2>1 DEF ThreadsInStep, BoundedTypeOK, Threads
  <2> QED
    BY <2>1, <2>2, <2>3 DEF ThreadsInStep
<1>2. \A k \in Connections : Distrusted(k)' <=> Distrusted(k)
  BY <1>1 DEF Infer, Distrusted, BoundedTypeOK
<1>3. BoundedTypeOK'
  <2>1. outcome' \in Call!Outcomes /\ outcome'.kind # "payload" /\ outcome'.obs = 0
    BY CallOutcomes DEF Infer
  <2> QED
    BY <1>1, <2>1 DEF Infer, BoundedTypeOK, Threads
<1>4. ThreadsInStep'
  BY <1>1 DEF Infer, BoundedTypeOK, ThreadsInStep, Threads
<1>5. SocketsInStep'
  BY <1>1, <1>2 DEF Infer, BoundedTypeOK, SocketsInStep, Threads
<1>6. ResultInStep'
  BY <1>1 DEF Infer, BoundedTypeOK, ResultInStep, Finished
<1>7. ReconnectsInStep'
  <2> SUFFICES ASSUME CallerReconnects,
                      NEW c \in unconfirmed, NEW d \in 1..calls',
                      uses'[c] = uses'[d]
               PROVE  d <= c
    BY DEF Infer, ReconnectsInStep
  <2>1. c \in 1..calls
    BY DEF BoundedTypeOK, ThreadsInStep, Threads
  <2>2. uses'[c] = uses[c] /\ uses[c] # connection
    BY <1>1, <2>1 DEF Infer, BoundedTypeOK, Distrusted, Threads
  <2>3. d \in 1..calls
    BY <1>1, <2>2 DEF Infer, BoundedTypeOK, Threads
  <2> QED
    BY <1>1, <2>1, <2>2, <2>3
    DEF Infer, BoundedTypeOK, ReconnectsInStep, Threads
<1>8. StaleNeedsUnconfirmed'
  BY CallOutcomes DEF Infer, StaleNeedsUnconfirmed
<1> QED
  BY <1>3, <1>4, <1>5, <1>6, <1>7, <1>8

LEMMA NewConnectionInv == ASSUME BoundedInv, NewConnection PROVE BoundedInv'
  BY BoundedAssumption
  DEF NewConnection, BoundedInv, BoundedTypeOK, ThreadsInStep, SocketsInStep,
      ResultInStep, ReconnectsInStep, StaleNeedsUnconfirmed, Distrusted,
      Finished, Connections, threadVars

(* A call that comes back confirmed. *)
LEMMA ConfirmedInv ==
  ASSUME BoundedInv, ResultIsPayload \/ ResultIsError
  PROVE  BoundedInv'
<1> USE BoundedAssumption DEF BoundedInv
<1>1. /\ waiting /\ waiting' = FALSE /\ Finished(calls)
      /\ result[calls].kind # "TimeoutError"
      /\ UNCHANGED <<calls, connection, unconfirmed, threadVars>>
  BY DEF ResultIsPayload, ResultIsError, Return
<1>2. calls \in Threads /\ result[calls] \in Results
  BY <1>1 DEF BoundedTypeOK, ThreadsInStep, Threads
<1>3. BoundedTypeOK'
  <2>1. CASE ResultIsPayload
    <3>1. result[calls].obs \in 0..MaxCalls /\ result[calls].obs # 0
      BY <1>2, <2>1, ResultTypes DEF ResultIsPayload, ResultInStep
    <3>2. /\ outcome' \in Call!Outcomes /\ outcome'.kind = "payload"
          /\ outcome'.obs # 0
      BY <2>1, <3>1, CallOutcomes DEF ResultIsPayload, Return
    <3> QED
      BY <1>1, <3>2 DEF BoundedTypeOK, threadVars
  <2>2. CASE ResultIsError
    <3>1. /\ outcome' \in Call!Outcomes /\ outcome'.kind # "payload"
          /\ outcome'.obs = 0
      BY <2>2, CallOutcomes DEF ResultIsError, Return
    <3> QED
      BY <1>1, <3>1 DEF BoundedTypeOK, threadVars
  <2> QED
    BY <2>1, <2>2
<1>4. ThreadsInStep'
  BY <1>1 DEF ThreadsInStep, Finished, threadVars
<1>5. SocketsInStep'
  BY <1>1 DEF SocketsInStep, Distrusted, Finished, threadVars
<1>6. ResultInStep' /\ ReconnectsInStep'
  BY <1>1 DEF ResultInStep, ReconnectsInStep, threadVars
<1>7. StaleNeedsUnconfirmed'
  <2>1. CASE ResultIsPayload
    <3>1. outcome'.obs = result[calls].obs
      BY <1>2, <2>1, CallOutcomes, ResultTypes DEF ResultIsPayload, Return
    <3>2. result[calls].obs = calls \/ Distrusted(uses[calls])
      BY <1>1, <2>1 DEF ResultIsPayload, ResultInStep
    <3>3. \A c \in unconfirmed : c < calls
      BY <1>1 DEF BoundedTypeOK, ThreadsInStep, Threads
    <3> QED
      BY <1>1, <3>1, <3>2, <3>3
      DEF StaleNeedsUnconfirmed, Distrusted, threadVars
  <2>2. CASE ResultIsError
    BY <2>2, CallOutcomes DEF ResultIsError, Return, StaleNeedsUnconfirmed
  <2> QED
    BY <2>1, <2>2
<1> QED
  BY <1>3, <1>4, <1>5, <1>6, <1>7

(* A call that comes back unconfirmed: its transport is distrusted. *)
LEMMA UnconfirmedInv ==
  ASSUME BoundedInv,
         ResultIsTimeoutError \/ DeadlineExpires \/ CallIsInterrupted
  PROVE  BoundedInv'
<1> USE BoundedAssumption DEF BoundedInv
<1>1. /\ waiting /\ waiting' = FALSE
      /\ \E e \in {"timeout", "interrupt"} : outcome' = Call!Raised(e)
      /\ unconfirmed' = unconfirmed \cup {calls}
      /\ thread' = thread \/ Cancel
      /\ Finished(calls) => thread' = thread
      /\ UNCHANGED <<calls, connection, uses, result, sent, wire, lost>>
  BY DEF ResultIsTimeoutError, DeadlineExpires, CallIsInterrupted,
         Unconfirmed, Return, threadVars
<1>a. thread[calls] = "submitted" => thread' # thread
  BY DEF ResultIsTimeoutError, DeadlineExpires, CallIsInterrupted, Cancel,
         Finished, ThreadsInStep, BoundedTypeOK, Threads
<1>2. calls \in Threads
  BY <1>1 DEF BoundedTypeOK, ThreadsInStep, Threads
<1>3. BoundedTypeOK'
  <2>1. /\ outcome' \in Call!Outcomes /\ outcome'.kind # "payload"
        /\ outcome'.obs = 0
    BY <1>1, CallOutcomes
  <2>2. thread' \in [Threads -> {"none", "submitted", "sending",
                                 "receiving", "done", "cancelled"}]
    BY <1>1, <1>2 DEF BoundedTypeOK, Cancel
  <2> QED
    BY <1>1, <1>2, <2>1, <2>2 DEF BoundedTypeOK
<1>4. ThreadsInStep'
  <2>1. \A c \in Threads \ {calls} : thread'[c] = thread[c]
    BY <1>1, <1>2 DEF Cancel, BoundedTypeOK
  <2>2. CASE thread[calls] = "submitted"
    <3>1. thread'[calls] = "cancelled"
      BY <1>1, <1>2, <1>a, <2>2 DEF Cancel, BoundedTypeOK
    <3>2. calls \notin sent
      BY <1>2, <2>2 DEF ThreadsInStep
    <3>3. \A c \in Threads : c > calls => thread'[c] = "none"
      BY <1>2, <2>1 DEF ThreadsInStep, Threads
    <3>4. /\ \A c \in unconfirmed' : c <= calls
          /\ \A c \in sent : thread'[c] \in {"receiving", "done"}
      BY <1>1, <1>2, <2>1, <3>2 DEF BoundedTypeOK, ThreadsInStep, Threads
    <3>5. ASSUME NEW c \in 1..calls,
                 thread'[c] \in {"submitted", "sending", "receiving"}
          PROVE  c \in unconfirmed /\ thread'[c] # "submitted"
      <4>1. c # calls /\ c \in Threads
        BY <1>2, <3>1, <3>5 DEF BoundedTypeOK, Threads
      <4> QED
        BY <2>1, <3>5, <4>1 DEF ThreadsInStep
    <3> QED
      BY <1>1, <3>3, <3>4, <3>5 DEF ThreadsInStep
  <2>3. CASE thread[calls] # "submitted"
    <3>1. thread' = thread
      BY <1>1, <2>3 DEF Cancel
    <3> QED
      BY <1>1, <1>2, <2>3, <3>1 DEF BoundedTypeOK, ThreadsInStep, Threads
  <2> QED
    BY <2>2, <2>3
<1>5. SocketsInStep'
  BY <1>1, <1>2 DEF SocketsInStep, Distrusted, BoundedTypeOK
<1>6. ResultInStep'
  BY <1>1 DEF ResultInStep
<1>7. ReconnectsInStep'
  BY <1>1, <1>2 DEF ReconnectsInStep, BoundedTypeOK, Threads
<1>8. StaleNeedsUnconfirmed'
  BY <1>1, CallOutcomes DEF StaleNeedsUnconfirmed
<1> QED
  BY <1>3, <1>4, <1>5, <1>6, <1>7, <1>8

-----------------------------------------------------------------------------
(* The steps of the threads and of the connections. *)
LEMMA AtWork ==
  ASSUME BoundedInv, NEW c \in Threads,
         thread[c] \in {"submitted", "sending", "receiving"}
  PROVE  /\ c \in 1..calls
         /\ uses[c] \in Connections
         /\ ~Distrusted(uses[c]) => waiting /\ c = calls
  BY DEF BoundedInv, BoundedTypeOK, ThreadsInStep, Distrusted, Threads

LEMMA ThreadBeginsInv ==
  ASSUME BoundedInv, NEW c \in Threads, ThreadBegins(c)
  PROVE  BoundedInv'
<1> USE DEF BoundedInv
<1>1. BoundedTypeOK' /\ ThreadsInStep'
  BY DEF ThreadBegins, BoundedTypeOK, ThreadsInStep, callerVars, Threads
<1>2. SocketsInStep'
  BY DEF ThreadBegins, BoundedTypeOK, SocketsInStep, Distrusted, Finished,
         callerVars, ThreadsInStep, Threads
<1>3. ResultInStep' /\ ReconnectsInStep' /\ StaleNeedsUnconfirmed'
  BY DEF ThreadBegins, BoundedTypeOK, ResultInStep, ReconnectsInStep,
         StaleNeedsUnconfirmed, Distrusted, Finished, callerVars
<1> QED
  BY <1>1, <1>2, <1>3

LEMMA ThreadSendsInv ==
  ASSUME BoundedInv, NEW c \in Threads, ThreadSends(c)
  PROVE  BoundedInv'
<1> USE DEF BoundedInv
<1>1. /\ uses[c] \in Connections
      /\ ~Distrusted(uses[c]) => waiting /\ c = calls
  BY AtWork DEF ThreadSends
<1>2. wire[uses[c]] \in Seq(Threads)
  BY <1>1 DEF BoundedTypeOK
<1>3. /\ wire'[uses[c]] = Append(wire[uses[c]], c)
      /\ \A k \in Connections \ {uses[c]} : wire'[k] = wire[k]
  BY <1>1 DEF ThreadSends, BoundedTypeOK
<1>4. BoundedTypeOK' /\ ThreadsInStep'
  BY <1>1, <1>2
  DEF ThreadSends, BoundedTypeOK, ThreadsInStep, callerVars, Threads
<1>5. SocketsInStep'
  <2>1. ASSUME NEW k \in Connections, k # uses[c]
        PROVE  /\ (k \in lost => wire[k] = <<>>)'
               /\ (~Distrusted(k) => wire[k] = <<>>
                    \/ /\ wire[k] = <<calls>> /\ waiting /\ uses[calls] = k
                       /\ \/ thread[calls] = "receiving"
                          \/ /\ Finished(calls)
                             /\ result[calls].kind = "TimeoutError")'
    BY <1>3, <2>1
    DEF ThreadSends, SocketsInStep, Distrusted, Finished, callerVars,
        BoundedTypeOK
  <2>2. ~Distrusted(uses[c]) =>
            /\ wire'[uses[c]] = <<calls>> /\ waiting /\ c = calls
            /\ thread'[calls] = "receiving"
    <3> SUFFICES ASSUME ~Distrusted(uses[c])
                 PROVE  /\ wire'[uses[c]] = <<calls>> /\ waiting /\ c = calls
                        /\ thread'[calls] = "receiving"
      OBVIOUS
    <3>1. waiting /\ c = calls /\ thread[calls] = "sending"
      BY <1>1 DEF ThreadSends
    <3>2. wire[uses[c]] = <<>>
      BY <1>1, <3>1 DEF SocketsInStep, Finished
    <3>3. thread'[calls] = "receiving"
      BY <3>1 DEF ThreadSends, BoundedTypeOK
    <3> QED
      BY <1>3, <3>1, <3>2, <3>3
  <2> QED
    BY <1>1, <2>1, <2>2
    DEF ThreadSends, SocketsInStep, Distrusted, Finished, callerVars
<1>6. ResultInStep' /\ ReconnectsInStep' /\ StaleNeedsUnconfirmed'
  BY DEF ThreadSends, BoundedTypeOK, ResultInStep, ReconnectsInStep,
         StaleNeedsUnconfirmed, Distrusted, Finished, callerVars
<1> QED
  BY <1>4, <1>5, <1>6

(* A thread that ends leaves its socket alone or takes one reply from it. *)
LEMMA FutureIsDoneInv ==
  ASSUME BoundedInv, NEW c \in Threads, NEW r \in Results,
         thread[c] \in {"sending", "receiving"},
         r.kind = "payload" => r.obs # 0,
         r.kind = "payload" => r.obs = c \/ Distrusted(uses[c]),
         FutureIsDone(c, r),
         sent' \in {sent, sent \cup {c}},
         wire' \in [Connections -> Seq(Threads)],
         \A k \in Connections : k # uses[c] => wire'[k] = wire[k],
         uses[c] \in lost => wire'[uses[c]] = <<>>,
         ~Distrusted(uses[c]) =>
            \/ wire'[uses[c]] = <<>>
            \/ wire'[uses[c]] = <<calls>> /\ r.kind = "TimeoutError"
  PROVE  BoundedInv'
<1> USE DEF BoundedInv
<1>1. /\ c \in 1..calls /\ uses[c] \in Connections
      /\ ~Distrusted(uses[c]) => waiting /\ c = calls
  BY AtWork
<1>2. /\ thread'[c] = "done" /\ result'[c] = r
      /\ \A d \in Threads \ {c} : thread'[d] = thread[d] /\ result'[d] = result[d]
      /\ UNCHANGED <<waiting, calls, outcome, connection, unconfirmed, uses, lost>>
  BY DEF FutureIsDone, BoundedTypeOK, callerVars
<1>3. BoundedTypeOK'
  BY <1>2 DEF FutureIsDone, BoundedTypeOK
<1>4. ThreadsInStep'
  <2>1. \A d \in Threads : d > calls => thread'[d] = "none"
    BY <1>1, <1>2 DEF BoundedTypeOK, ThreadsInStep, Threads
  <2>2. \A d \in sent' : thread'[d] \in {"receiving", "done"}
    BY <1>2 DEF BoundedTypeOK, ThreadsInStep
  <2>3. ASSUME NEW d \in 1..calls,
               thread'[d] \in {"submitted", "sending", "receiving"}
        PROVE  (waiting /\ d = calls)
               \/ (d \in unconfirmed /\ thread'[d] # "submitted")
    <3>1. d \in Threads
      BY BoundedAssumption DEF BoundedTypeOK, Threads
    <3>2. d # c
      BY <1>2, <2>3
    <3> QED
      BY <1>2, <2>3, <3>1, <3>2 DEF ThreadsInStep
  <2> QED
    BY <1>2, <2>1, <2>2, <2>3 DEF ThreadsInStep
<1>5. \A k \in Connections : Distrusted(k)' <=> Distrusted(k)
  BY <1>2 DEF Distrusted
<1>6. SocketsInStep'
  <2>1. ASSUME NEW k \in Connections, k # uses[c]
        PROVE  /\ k \in lost => wire'[k] = <<>>
               /\ ~Distrusted(k) =>
                    \/ wire'[k] = <<>>
                    \/ /\ wire'[k] = <<calls>> /\ waiting /\ uses[calls] = k
                       /\ \/ thread'[calls] = "receiving"
                          \/ /\ thread'[calls] = "done"
                             /\ result'[calls].kind = "TimeoutError"
    <3>1. CASE waiting /\ uses[calls] = k
      <4>1. calls \in Threads /\ calls # c
        BY <2>1, <3>1 DEF BoundedTypeOK, ThreadsInStep, Threads
      <4> QED
        BY <1>2, <2>1, <4>1 DEF SocketsInStep, Finished
    <3>2. CASE ~(waiting /\ uses[calls] = k)
      BY <2>1, <3>2 DEF SocketsInStep
    <3> QED
      BY <3>1, <3>2
  <2>2. /\ uses[c] \in lost => wire'[uses[c]] = <<>>
        /\ ~Distrusted(uses[c]) =>
              \/ wire'[uses[c]] = <<>>
              \/ /\ wire'[uses[c]] = <<calls>> /\ waiting /\ c = calls
                 /\ thread'[calls] = "done"
                 /\ result'[calls].kind = "TimeoutError"
    BY <1>1, <1>2
  <2> QED
    BY <1>2, <1>5, <2>1, <2>2 DEF SocketsInStep, Finished
<1>7. ResultInStep'
  <2>1. \A d \in Threads : result'[d].kind = "payload" => result'[d].obs # 0
    BY <1>2 DEF ResultInStep
  <2>2. (waiting /\ thread'[calls] = "done" /\ result'[calls].kind = "payload")
            => result'[calls].obs = calls \/ Distrusted(uses[calls])
    <3>1. CASE c = calls
      BY <1>2, <3>1
    <3>2. CASE c # calls /\ waiting
      <4>1. calls \in Threads \ {c}
        BY <3>2 DEF BoundedTypeOK, ThreadsInStep, Threads
      <4> QED
        BY <1>2, <4>1 DEF ResultInStep, Finished
    <3> QED
      BY <3>1, <3>2
  <2>3. waiting => uses[calls] \in Connections
    <3>1. waiting => calls \in Threads
      BY BoundedAssumption DEF BoundedTypeOK, ThreadsInStep, Threads
    <3> QED
      BY <3>1 DEF BoundedTypeOK
  <2> QED
    BY <1>2, <1>5, <2>1, <2>2, <2>3 DEF ResultInStep, Finished
<1>8. ReconnectsInStep' /\ StaleNeedsUnconfirmed'
  BY <1>2 DEF ReconnectsInStep, StaleNeedsUnconfirmed
<1> QED
  BY <1>3, <1>4, <1>6, <1>7, <1>8

LEMMA ThreadInv ==
  ASSUME BoundedInv, NEW c \in Threads, Thread(c)
  PROVE  BoundedInv'
<1> USE DEF BoundedInv
<1>1. CASE ThreadBegins(c)
  BY <1>1, ThreadBeginsInv
<1>2. CASE ThreadSends(c)
  BY <1>2, ThreadSendsInv
<1>a. ASSUME thread[c] \in {"sending", "receiving"}
      PROVE  /\ uses[c] \in Connections
             /\ wire \in [Connections -> Seq(Threads)]
             /\ wire[uses[c]] \in Seq(Threads)
             /\ uses[c] \in lost => wire[uses[c]] = <<>>
             /\ ~Distrusted(uses[c]) => waiting /\ c = calls
  BY <1>a, AtWork DEF SocketsInStep, BoundedTypeOK
<1>b. ~Distrusted(uses[c]) /\ thread[c] = "sending" => wire[uses[c]] = <<>>
  BY <1>a DEF SocketsInStep, Finished
<1>c. ~Distrusted(uses[c]) /\ thread[c] = "receiving"
        => wire[uses[c]] \in {<<>>, <<calls>>}
  BY <1>a DEF SocketsInStep
<1>3. CASE ThreadReceives(c)
  <2>1. PICK r \in {Payload(Head(wire[uses[c]])), NotADict, Error} :
            FutureIsDone(c, r)
    BY <1>3 DEF ThreadReceives
  <2>2. /\ wire[uses[c]] # <<>>
        /\ wire' = [wire EXCEPT ![uses[c]] = Tail(@)]
        /\ thread[c] = "receiving" /\ sent' = sent
    BY <1>3 DEF ThreadReceives
  <2>3. /\ Head(wire[uses[c]]) \in Threads
        /\ Tail(wire[uses[c]]) \in Seq(Threads)
    BY <1>a, <2>2
  <2>4. /\ r \in Results
        /\ r.kind = "payload" =>
                r.obs = Head(wire[uses[c]]) /\ r.obs # 0
    BY <2>1, <2>3, ResultTypes
    DEF Payload, NotADict, Error, Threads
  <2>5. ~Distrusted(uses[c]) =>
            Head(wire[uses[c]]) = c /\ Tail(wire[uses[c]]) = <<>>
    <3> SUFFICES ASSUME ~Distrusted(uses[c])
                 PROVE  Head(wire[uses[c]]) = c /\ Tail(wire[uses[c]]) = <<>>
      OBVIOUS
    <3>1. wire[uses[c]] = <<c>>
      BY <1>a, <1>c, <2>2
    <3> QED
      BY <3>1
  <2>6. /\ wire' \in [Connections -> Seq(Threads)]
        /\ wire'[uses[c]] = Tail(wire[uses[c]])
        /\ \A k \in Connections : k # uses[c] => wire'[k] = wire[k]
    BY <1>a, <2>2, <2>3
  <2>7. uses[c] \notin lost
    BY <1>a, <2>2
  <2> QED
    BY <2>1, <2>2, <2>4, <2>5, <2>6, <2>7, FutureIsDoneInv
<1>4. CASE ThreadIsRefused(c)
  <2>1. /\ thread[c] = "sending" /\ uses[c] \notin lost
        /\ sent' = sent \cup {c}
        /\ wire' = [wire EXCEPT ![uses[c]] = Append(@, c)]
        /\ FutureIsDone(c, Error)
    BY <1>4 DEF ThreadIsRefused
  <2>2. Distrusted(uses[c])
    <3>1. PICK d \in Threads : thread[d] = "receiving" /\ uses[d] = uses[c]
      BY <1>4 DEF ThreadIsRefused
    <3>2. ~Distrusted(uses[c]) => d = calls /\ c = calls
      BY <1>a, <2>1, <3>1, AtWork
    <3> QED
      BY <2>1, <3>1, <3>2
  <2>3. /\ wire' \in [Connections -> Seq(Threads)]
        /\ \A k \in Connections : k # uses[c] => wire'[k] = wire[k]
    BY <1>a, <2>1
  <2>4. Error \in Results /\ Error.kind # "payload"
    BY ResultTypes DEF Error
  <2> QED
    BY <2>1, <2>2, <2>3, <2>4, FutureIsDoneInv
<1>5. CASE ThreadRaises(c)
  <2>1. PICK r \in {Error, TimedOut} : FutureIsDone(c, r)
    BY <1>5 DEF ThreadRaises
  <2>2. /\ thread[c] \in {"sending", "receiving"}
        /\ thread[c] = "receiving" => uses[c] \in lost
        /\ sent' = sent /\ wire' = wire
    BY <1>5 DEF ThreadRaises
  <2>3. r \in Results /\ r.kind # "payload"
    BY <2>1, ResultTypes DEF Error, TimedOut
  <2>4. ~Distrusted(uses[c]) => wire[uses[c]] = <<>>
    BY <1>a, <1>b, <2>2
  <2> QED
    BY <1>a, <2>1, <2>2, <2>3, <2>4, FutureIsDoneInv
<1>6. CASE ThreadTimesOut(c)
  <2>1. /\ thread[c] = "receiving" /\ sent' = sent /\ wire' = wire
        /\ FutureIsDone(c, TimedOut)
    BY <1>6 DEF ThreadTimesOut
  <2>2. TimedOut \in Results /\ TimedOut.kind = "TimeoutError"
    BY ResultTypes DEF TimedOut
  <2> QED
    BY <1>a, <1>c, <2>1, <2>2, FutureIsDoneInv
<1> QED
  BY <1>1, <1>2, <1>3, <1>4, <1>5, <1>6 DEF Thread

LEMMA ConnectionBreaksInv ==
  ASSUME BoundedInv, NEW k \in Connections, ConnectionBreaks(k)
  PROVE  BoundedInv'
<1> USE DEF BoundedInv
<1>1. BoundedTypeOK'
  BY DEF ConnectionBreaks, BoundedTypeOK, callerVars
<1>2. SocketsInStep'
  BY DEF ConnectionBreaks, BoundedTypeOK, SocketsInStep, Distrusted,
         Finished, callerVars
<1>3. /\ ThreadsInStep' /\ ResultInStep' /\ ReconnectsInStep'
      /\ StaleNeedsUnconfirmed'
  BY DEF ConnectionBreaks, ThreadsInStep, ResultInStep, ReconnectsInStep,
         StaleNeedsUnconfirmed, Distrusted, Finished, callerVars
<1> QED
  BY <1>1, <1>2, <1>3

-----------------------------------------------------------------------------
LEMMA BoundedStepInv ==
  ASSUME BoundedInv, [BoundedNext]_boundedVars
  PROVE  BoundedInv'
<1>1. CASE BoundedCaller
  BY <1>1, InferInv, NewConnectionInv, ConfirmedInv, UnconfirmedInv
  DEF BoundedCaller, WaitEnds
<1>2. CASE \E c \in Threads : Thread(c)
  BY <1>2, ThreadInv
<1>3. CASE \E k \in Connections : ConnectionBreaks(k)
  BY <1>3, ConnectionBreaksInv
<1>4. CASE UNCHANGED boundedVars
  BY <1>4 DEF boundedVars, callerVars, threadVars, BoundedInv, BoundedTypeOK,
      ThreadsInStep, SocketsInStep, ResultInStep, ReconnectsInStep,
      StaleNeedsUnconfirmed, Distrusted, Finished
<1> QED
  BY <1>1, <1>2, <1>3, <1>4 DEF BoundedNext

LEMMA BoundedInvAlways == BoundedSpec => []BoundedInv
  BY BoundedInitInv, BoundedStepInv, PTL DEF BoundedSpec

(* Every variable of the client keeps its type, for any number of calls    *)
(* and of transports (remote_client.py:40-69).                             *)
THEOREM BoundedTypeCorrect == BoundedSpec => []BoundedTypeOK
<1>1. BoundedInv => BoundedTypeOK
  BY DEF BoundedInv
<1> QED
  BY <1>1, BoundedInvAlways, PTL

(* A stale answer needs an earlier unconfirmed call over the same          *)
(* transport, whatever the threads of that call do later.                  *)
THEOREM StaleAnswersNeedUnconfirmed == BoundedSpec => []StaleNeedsUnconfirmed
<1>1. BoundedInv => StaleNeedsUnconfirmed
  BY DEF BoundedInv
<1> QED
  BY <1>1, BoundedInvAlways, PTL

(* Cancelled requests are not sent, and a request that goes on after its   *)
(* call ended was reported as unconfirmed.                                 *)
THEOREM LateRequestsAreUnconfirmed == BoundedSpec => []LateRequestIsUnconfirmed
<1>1. BoundedInv => LateRequestIsUnconfirmed
  BY DEF BoundedInv, ThreadsInStep, LateRequestIsUnconfirmed, Running
<1> QED
  BY <1>1, BoundedInvAlways, PTL

LEMMA OneThreadInv ==
  ASSUME BoundedInv
  PROVE  OneThreadPerSocket
<1> SUFFICES ASSUME CallerReconnects,
                    NEW c \in Threads, NEW d \in Threads,
                    Running(c), Running(d), uses[c] = uses[d]
             PROVE  c = d
  BY DEF OneThreadPerSocket
<1>1. c \in 1..calls /\ d \in 1..calls
  BY AtWork DEF Running
<1>2. (c = calls \/ c \in unconfirmed) /\ (d = calls \/ d \in unconfirmed)
  BY <1>1 DEF BoundedInv, ThreadsInStep, Running
<1>3. c \in unconfirmed => d <= c
  BY <1>1 DEF BoundedInv, ReconnectsInStep
<1>4. d \in unconfirmed => c <= d
  BY <1>1 DEF BoundedInv, ReconnectsInStep
<1> QED
  BY <1>1, <1>2, <1>3, <1>4 DEF BoundedInv, BoundedTypeOK

(* If the caller reconnects after unconfirmed calls, no two threads work   *)
(* on one socket.                                                          *)
THEOREM SocketsHaveOneThread == BoundedSpec => []OneThreadPerSocket
  BY OneThreadInv, BoundedInvAlways, PTL

-----------------------------------------------------------------------------
LEMMA CallStep ==
  ASSUME CallerReconnects, BoundedInv, BoundedInv', [BoundedNext]_boundedVars
  PROVE  [Call!Next]_(Call!vars)
<1>1. CASE Infer
  BY <1>1 DEF Infer, Call!Next, Call!Begin
<1>2. CASE ResultIsPayload
  <2>1. result[calls].obs \in 0..MaxCalls
    BY <1>2, ResultTypes
    DEF BoundedInv, BoundedTypeOK, ThreadsInStep, ResultIsPayload, Threads
  <2>2. outcome'.kind = "payload" /\ outcome'.obs = result[calls].obs
    BY <1>2, <2>1, CallOutcomes DEF ResultIsPayload, Return
  <2>3. outcome'.obs = calls
    <3> SUFFICES ASSUME outcome'.obs # calls
                 PROVE  FALSE
      OBVIOUS
    <3>1. UNCHANGED <<calls, unconfirmed, uses>>
      BY <1>2 DEF ResultIsPayload, threadVars
    <3>2. PICK c \in unconfirmed : c < calls /\ uses[c] = uses[calls]
      BY <2>2, <3>1 DEF BoundedInv, StaleNeedsUnconfirmed
    <3>3. calls \in 1..calls /\ c \in Nat
      BY <1>2
      DEF BoundedInv, BoundedTypeOK, ThreadsInStep, ResultIsPayload, Threads
    <3>4. calls <= c
      BY <3>2, <3>3 DEF BoundedInv, ReconnectsInStep
    <3> QED
      BY <3>2, <3>3, <3>4
  <2> QED
    BY <1>2, <2>2, <2>3
    DEF ResultIsPayload, Return, Call!Next, Call!Finish
<1>3. CASE ResultIsError
  BY <1>3 DEF ResultIsError, Return, Call!Next, Call!Finish, Call!Exceptions
<1>4. CASE ResultIsTimeoutError \/ DeadlineExpires \/ CallIsInterrupted
  BY <1>4 DEF ResultIsTimeoutError, DeadlineExpires, CallIsInterrupted,
      Unconfirmed, Return, Call!Next, Call!Finish, Call!Exceptions
<1>5. CASE NewConnection
  BY <1>5 DEF NewConnection, Call!vars
<1>6. CASE \E c \in Threads : Thread(c)
  BY <1>6 DEF Thread, ThreadBegins, ThreadSends, ThreadReceives,
      ThreadIsRefused, ThreadRaises, ThreadTimesOut, FutureIsDone,
      callerVars, Call!vars
<1>7. CASE \E k \in Connections : ConnectionBreaks(k)
  BY <1>7 DEF ConnectionBreaks, callerVars, Call!vars
<1>8. CASE UNCHANGED boundedVars
  BY <1>8 DEF boundedVars, callerVars, Call!vars
<1> QED
  BY <1>1, <1>2, <1>3, <1>4, <1>5, <1>6, <1>7, <1>8
  DEF BoundedNext, BoundedCaller, WaitEnds

LEMMA CallInit == BoundedInit => Call!Init
  BY DEF BoundedInit, Call!Init

(* With a caller that reconnects, every step of the client is a step or a  *)
(* stutter of the synchronous call of PolicyCall.                          *)
THEOREM BoundedImplementsPolicyCall ==
  ASSUME CallerReconnects
  PROVE  BoundedSpec => Call!Init /\ [][Call!Next]_(Call!vars)
  BY CallInit, CallStep, BoundedInvAlways, PTL DEF BoundedSpec
=============================================================================

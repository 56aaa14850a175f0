---------------------------- MODULE BoundedClient ----------------------------
(***************************************************************************)
(* BoundedRemotePolicyClient (remote_client.py): every infer call runs     *)
(* transport.infer on a thread of its own and waits for it until the       *)
(* deadline.  A thread that misses the deadline is not stopped: it goes on *)
(* using the socket of the transport, beside the threads of later calls.   *)
(*                                                                         *)
(* Calls are numbered, call c carries observation c and runs on thread c.  *)
(* Reconnecting means a new transport with a new client around it, as a    *)
(* client keeps the transport it was given.                                *)
(***************************************************************************)
EXTENDS Naturals, Sequences

CONSTANTS
    MaxCalls,          \* bound: infer calls the caller makes
    MaxConnections,    \* bound: transports built one after the other
    CallerReconnects   \* does the caller reconnect before it trusts a
                       \* request after an unconfirmed one?

ASSUME BoundedAssumption ==
    /\ MaxCalls \in Nat \ {0}
    /\ MaxConnections \in Nat \ {0}
    /\ CallerReconnects \in BOOLEAN

Threads     == 1..MaxCalls
Connections == 1..MaxConnections

(* How the future of a call can be finished.                               *)
Payload(o) == [kind |-> "payload", obs |-> o]
NotADict   == [kind |-> "nondict", obs |-> 0]
Error      == [kind |-> "error", obs |-> 0]
TimedOut   == [kind |-> "TimeoutError", obs |-> 0]

Results == [kind : {"payload", "nondict", "error", "TimeoutError"},
            obs : 0..MaxCalls]

VARIABLES
    (* the caller *)
    waiting,     \* is the caller in future.result?
    calls,       \* infer calls begun
    outcome,     \* how the last infer call ended
    connection,  \* the transport the caller uses
    unconfirmed, \* calls that ended by a timeout or an interrupt
    (* the threads *)
    thread,      \* what the thread of each call is doing
    uses,        \* the transport of each call
    result,      \* the finished future of each call
    sent,        \* observations sent
    (* the transports *)
    wire,        \* observations sent on the socket whose reply is unread
    lost         \* transports whose connection is gone

callerVars == <<waiting, calls, outcome, connection, unconfirmed>>
threadVars == <<thread, uses, result, sent, wire, lost>>
boundedVars == <<callerVars, threadVars>>

Call == INSTANCE PolicyCall WITH calling <- waiting

Running(c)  == thread[c] \in {"sending", "receiving"}
Finished(c) == thread[c] = "done"

BoundedTypeOK ==
    /\ waiting \in BOOLEAN
    /\ calls \in 0..MaxCalls
    /\ outcome \in Call!Outcomes
    /\ outcome.kind = "payload" <=> outcome.obs # 0
    /\ connection \in Connections
    /\ unconfirmed \subseteq Threads
    /\ thread \in [Threads -> {"none", "submitted", "sending", "receiving",
                               "done", "cancelled"}]
    /\ uses \in [Threads -> Connections]
    /\ result \in [Threads -> Results]
    /\ sent \subseteq Threads
    /\ wire \in [Connections -> Seq(Threads)]
    /\ lost \subseteq Connections

BoundedInit ==
    /\ waiting = FALSE
    /\ calls = 0
    /\ outcome = Call!Pending
    /\ connection = 1
    /\ unconfirmed = {}
    /\ thread = [c \in Threads |-> "none"]
    /\ uses = [c \in Threads |-> 1]
    /\ result = [c \in Threads |-> Error]
    /\ sent = {}
    /\ wire = [k \in Connections |-> <<>>]
    /\ lost = {}

-----------------------------------------------------------------------------
(* Mutation of Distrusted: only a timeout leaves a request unconfirmed. *)
MutOnlyTimeouts(k) ==
    outcome.kind = "timeout" /\ \E c \in unconfirmed : uses[c] = k

(* A request over this transport was left unconfirmed. *)
Distrusted(k) == \E c \in unconfirmed : uses[c] = k

(* infer: a pool of one thread gets the request. *)
Infer ==
    /\ ~waiting
    /\ calls < MaxCalls
    /\ CallerReconnects => ~Distrusted(connection)
    /\ calls' = calls + 1
    /\ waiting' = TRUE
    /\ outcome' = Call!Pending
    /\ thread' = [thread EXCEPT ![calls + 1] = "submitted"]
    /\ uses' = [uses EXCEPT ![calls + 1] = connection]
    /\ UNCHANGED <<connection, unconfirmed, result, sent, wire, lost>>

(* The caller builds a new transport and a new client. *)
NewConnection ==
    /\ ~waiting
    /\ connection < MaxConnections
    /\ connection' = connection + 1
    /\ UNCHANGED <<waiting, calls, outcome, unconfirmed, threadVars>>

Return(how) ==
    /\ waiting' = FALSE
    /\ outcome' = how

(* Mutation of ResultIsPayload: any payload is returned. *)
MutPayloadUnchecked ==
    /\ waiting
    /\ Finished(calls)
    /\ result[calls].kind \in {"payload", "nondict"}
    /\ Return(Call!Answer(result[calls].obs))
    /\ UNCHANGED <<calls, connection, unconfirmed, threadVars>>

(* future.result returns a dictionary. *)
ResultIsPayload ==
    /\ waiting
    /\ Finished(calls)
    /\ result[calls].kind = "payload"
    /\ Return(Call!Answer(result[calls].obs))
    /\ UNCHANGED <<calls, connection, unconfirmed, threadVars>>

(* It raises what transport.infer raised, or the payload is no dictionary. *)
ResultIsError ==
    /\ waiting
    /\ Finished(calls)
    /\ result[calls].kind \in {"error", "nondict"}
    /\ Return(Call!Raised("error"))
    /\ UNCHANGED <<calls, connection, unconfirmed, threadVars>>

Unconfirmed(exception) ==
    /\ Return(Call!Raised(exception))
    /\ unconfirmed' = unconfirmed \cup {calls}
    /\ UNCHANGED <<calls, connection>>

(* Mutation of ResultIsTimeoutError: an error like any other. *)
MutTimeoutErrorIsError ==
    /\ waiting
    /\ Finished(calls)
    /\ result[calls].kind = "TimeoutError"
    /\ Return(Call!Raised("error"))
    /\ UNCHANGED <<calls, connection, unconfirmed, threadVars>>

(* A TimeoutError raised by transport.infer is the class future.result     *)
(* raises at the deadline (Python 3.11), and is taken for it.              *)
ResultIsTimeoutError ==
    /\ waiting
    /\ Finished(calls)
    /\ result[calls].kind = "TimeoutError"
    /\ Unconfirmed("timeout")
    /\ UNCHANGED threadVars

(* Mutation of Cancel: cancel() is taken to stop a running thread. *)
MutCancelStopsRunning == thread' = [thread EXCEPT ![calls] = "cancelled"]

(* future.cancel() and shutdown(cancel_futures=True): a thread that has    *)
(* not begun never will, one that has begun is left alone.                 *)
Cancel ==
    thread' = IF thread[calls] = "submitted"
              THEN [thread EXCEPT ![calls] = "cancelled"]
              ELSE thread

(* Mutation of DeadlineExpires: the pool's shutdown waits for its thread. *)
MutShutdownWaits ==
    /\ waiting
    /\ thread[calls] = "submitted"
    /\ Unconfirmed("timeout")
    /\ Cancel
    /\ UNCHANGED <<uses, result, sent, wire, lost>>

(* Mutation of DeadlineExpires: a missed deadline is an error like others. *)
MutDeadlineIsError ==
    /\ waiting
    /\ ~Finished(calls)
    /\ Return(Call!Raised("error"))
    /\ Cancel
    /\ UNCHANGED <<calls, connection, unconfirmed, uses, result, sent, wire,
                   lost>>

(* future.result raises TimeoutError at the deadline. *)
DeadlineExpires ==
    /\ waiting
    /\ ~Finished(calls)
    /\ Unconfirmed("timeout")
    /\ Cancel
    /\ UNCHANGED <<uses, result, sent, wire, lost>>

(* KeyboardInterrupt in future.result passes infer; the pool is shut down. *)
CallIsInterrupted ==
    /\ waiting
    /\ ~Finished(calls)
    /\ Unconfirmed("interrupt")
    /\ Cancel
    /\ UNCHANGED <<uses, result, sent, wire, lost>>

-----------------------------------------------------------------------------
(* transport.infer on the thread of call c: a send and a receive on the    *)
(* socket of its transport.                                                *)
ThreadBegins(c) ==
    /\ thread[c] = "submitted"
    /\ thread' = [thread EXCEPT ![c] = "sending"]
    /\ UNCHANGED <<callerVars, uses, result, sent, wire, lost>>

ThreadSends(c) ==
    /\ thread[c] = "sending"
    /\ uses[c] \notin lost
    /\ thread' = [thread EXCEPT ![c] = "receiving"]
    /\ sent' = sent \cup {c}
    /\ wire' = [wire EXCEPT ![uses[c]] = Append(@, c)]
    /\ UNCHANGED <<callerVars, uses, result, lost>>

FutureIsDone(c, r) ==
    /\ thread' = [thread EXCEPT ![c] = "done"]
    /\ result' = [result EXCEPT ![c] = r]
    /\ UNCHANGED <<callerVars, uses, lost>>

(* The oldest reply on the socket goes to whichever thread receives it. *)
ThreadReceives(c) ==
    /\ thread[c] = "receiving"
    /\ wire[uses[c]] # <<>>
    /\ wire' = [wire EXCEPT ![uses[c]] = Tail(@)]
    /\ \E r \in {Payload(Head(wire[uses[c]])), NotADict, Error} :
            FutureIsDone(c, r)
    /\ UNCHANGED sent

(* A socket that one thread receives on may refuse a second one. *)
ThreadIsRefused(c) ==
    /\ thread[c] = "sending"
    /\ uses[c] \notin lost
    /\ \E d \in Threads : thread[d] = "receiving" /\ uses[d] = uses[c]
    /\ sent' = sent \cup {c}
    /\ wire' = [wire EXCEPT ![uses[c]] = Append(@, c)]
    /\ FutureIsDone(c, Error)

(* transport.infer raises: before the send, or as the connection is gone. *)
ThreadRaises(c) ==
    /\ \/ thread[c] = "sending"
       \/ thread[c] = "receiving" /\ uses[c] \in lost
    /\ \E r \in {Error, TimedOut} : FutureIsDone(c, r)
    /\ UNCHANGED <<sent, wire>>

(* A transport with a timeout of its own gives up with the reply unread. *)
ThreadTimesOut(c) ==
    /\ thread[c] = "receiving"
    /\ FutureIsDone(c, TimedOut)
    /\ UNCHANGED <<sent, wire>>

(* The connection of a transport breaks; its unread replies are gone. *)
ConnectionBreaks(k) ==
    /\ k \notin lost
    /\ lost' = lost \cup {k}
    /\ wire' = [wire EXCEPT ![k] = <<>>]
    /\ UNCHANGED <<callerVars, thread, uses, result, sent>>

-----------------------------------------------------------------------------
(* The steps that end the wait in future.result: the future is finished or *)
(* the deadline expires.                                                   *)
WaitEnds ==
    ResultIsPayload \/ ResultIsError \/ ResultIsTimeoutError \/ DeadlineExpires

BoundedCaller == Infer \/ NewConnection \/ WaitEnds \/ CallIsInterrupted

Thread(c) ==
    \/ ThreadBegins(c) \/ ThreadSends(c) \/ ThreadReceives(c)
    \/ ThreadIsRefused(c) \/ ThreadRaises(c) \/ ThreadTimesOut(c)

BoundedNext ==
    \/ BoundedCaller
    \/ \E c \in Threads : Thread(c)
    \/ \E k \in Connections : ConnectionBreaks(k)

(* future.result has a timeout.  Nothing is assumed of the threads. *)
BoundedSpec ==
    BoundedInit /\ [][BoundedNext]_boundedVars /\ WF_boundedVars(WaitEnds)

-----------------------------------------------------------------------------
(* The answer to another call's observation is returned only by a client   *)
(* over whose transport an earlier call timed out or was interrupted: the  *)
(* reconnect the class asks for after an unconfirmed request is enough,    *)
(* whatever else fails (remote_client.py:43-45, 57-64).                    *)
StaleNeedsUnconfirmed ==
    (outcome.kind = "payload" /\ outcome.obs # calls)
        => \E c \in unconfirmed : c < calls /\ uses[c] = uses[calls]

(* A caller that reconnects after every unconfirmed request never has two  *)
(* threads at work on one socket, late ones included                       *)
(* (official_openpi.py:47-50: send and recv are for one thread).           *)
OneThreadPerSocket ==
    CallerReconnects =>
        \A c, d \in Threads :
            (Running(c) /\ Running(d) /\ uses[c] = uses[d]) => c = d

(* A request that was cancelled in time never reaches the server, and a    *)
(* request that does reach it after its call ended was reported to the     *)
(* caller as unconfirmed (remote_client.py:57-66).                         *)
LateRequestIsUnconfirmed ==
    \A c \in 1..calls :
        /\ c \in sent => thread[c] # "cancelled"
        /\ Running(c) => c \in unconfirmed \/ (waiting /\ c = calls)

(* For a caller that reconnects, the client is the synchronous call of     *)
(* PolicyCall.                                                             *)
ImplementsBoundedCall == Call!Spec
=============================================================================

-------------------------- MODULE ProcessTransport --------------------------
(***************************************************************************)
(* ProcessOwnedTransport (remote_client.py): one caller thread, and one    *)
(* child process at a time that owns the WebSocket and every send and      *)
(* receive on it.                                                          *)
(*                                                                         *)
(* Every start of a child makes a new generation with its own pair of      *)
(* multiprocessing queues.  A generation that was closed may still be      *)
(* running: terminate() is a signal, and join(timeout=1.0) may expire.     *)
(* Observations are named by the infer call they were captured for, so a   *)
(* reply is stale exactly when it is about an earlier call.                *)
(***************************************************************************)
EXTENDS Naturals, Sequences

CONSTANTS
    MaxCalls,            \* bound: infer calls the caller makes
    MaxWorkers,          \* bound: child processes started
    CallerMayInterrupt,  \* may KeyboardInterrupt reach the caller in a get()?
    RecvMayAbort         \* may the child leave recv() with the reply unread?

ASSUME BoundsAssumption ==
    /\ MaxCalls \in Nat \ {0}
    /\ MaxWorkers \in Nat \ {0}
ASSUME SwitchAssumption ==
    /\ CallerMayInterrupt \in BOOLEAN
    /\ RecvMayAbort \in BOOLEAN

Workers == 1..MaxWorkers

(* Messages.  The request queue carries requests and the close message;    *)
(* "nondict" stands for a response whose payload is not a dictionary.      *)
Request(n, o)   == [id |-> n, obs |-> o]
CloseMessage    == [id |-> 0, obs |-> 0]
Reply(k, n, o)  == [kind |-> k, id |-> n, obs |-> o]
StartupKinds    == {"ready", "startup_error"}
ReplyKinds      == {"response", "nondict", "error"}

Requests == [id : 0..MaxCalls, obs : 0..MaxCalls]
Replies  == [kind : StartupKinds \cup ReplyKinds,
             id : 0..MaxCalls, obs : 0..MaxCalls]

(* How an infer call can fail on a generation. *)
HowFailed == {"startup", "timeout", "mismatch", "malformed", "error",
              "interrupt"}

VARIABLES
    (* the caller and the ProcessOwnedTransport instance *)
    pc,          \* where the caller is: in no call, or inside which get()
    process,     \* generation _process refers to, 0 for None
    nextId,      \* _next_request_id
    calls,       \* infer calls begun
    outcome,     \* how the last infer call ended
    failures,    \* history: <<generation, how a call on it failed>>
    (* the child processes *)
    started,     \* number of children started
    status,      \* what each child is doing
    signalled,   \* children that got SIGTERM from terminate()
    serving,     \* the request each child took from its queue
    requests,    \* _request_queue of each generation
    responses,   \* _response_queue of each generation
    wire,        \* observations sent on the socket whose reply is unread
    lost         \* children whose connection is gone

caller   == <<pc, process, nextId, calls, outcome, failures>>
children == <<started, status, signalled, serving, requests, responses,
              wire, lost>>
vars     == <<caller, children>>

Abstract == INSTANCE PolicyCall WITH
                calling <- pc \in {"starting", "waiting"}

Alive(g) == status[g] \notin {"unborn", "dead"}
HandleAlive == process # 0 /\ Alive(process)

TypeOK ==
    /\ pc \in {"idle", "starting", "waiting", "joining"}
    /\ process \in 0..MaxWorkers
    /\ nextId \in 0..MaxCalls
    /\ calls \in 0..MaxCalls
    /\ outcome \in Abstract!Outcomes
    /\ failures \subseteq Workers \X HowFailed
    /\ started \in 0..MaxWorkers
    /\ status \in [Workers -> {"unborn", "connecting", "polling", "serving",
                               "receiving", "exiting", "dead"}]
    /\ signalled \subseteq Workers
    /\ serving \in [Workers -> Requests]
    /\ requests \in [Workers -> Seq(Requests)]
    /\ responses \in [Workers -> Seq(Replies)]
    /\ wire \in [Workers -> Seq(0..MaxCalls)]
    /\ lost \subseteq Workers

Init ==
    /\ pc = "idle"
    /\ process = 0
    /\ nextId = 0
    /\ calls = 0
    /\ outcome = Abstract!Pending
    /\ failures = {}
    /\ started = 0
    /\ status = [g \in Workers |-> "unborn"]
    /\ signalled = {}
    /\ serving = [g \in Workers |-> CloseMessage]
    /\ requests = [g \in Workers |-> <<>>]
    /\ responses = [g \in Workers |-> <<>>]
    /\ wire = [g \in Workers |-> <<>>]
    /\ lost = {}

-----------------------------------------------------------------------------
(* Mutation of Terminate: no early return when there is no process. *)
MutTerminateWithoutGuard == signalled' = signalled \cup {process}

(* close(): the handle and both queues are dropped; a child that is still  *)
(* alive when its turn comes has been sent SIGTERM.                        *)
Terminate ==
    signalled' = IF HandleAlive THEN signalled \cup {process} ELSE signalled

(* Mutation of CloseForced: the handle is dropped, the child is not stopped. *)
MutCloseWithoutTerminate ==
    /\ process' = 0
    /\ UNCHANGED signalled

CloseForced ==
    /\ process' = 0
    /\ Terminate

(* The call in progress ends. *)
Return(result) ==
    /\ pc' = "idle"
    /\ outcome' = result

(* ... by an exception, after which the caller may call again. *)
Fail(how, exception) ==
    /\ Return(Abstract!Raised(exception))
    /\ failures' = failures \cup {<<process, how>>}

(* infer: the request gets the next id and is queued for the child. *)
Submit(observation) ==
    /\ nextId' = nextId + 1
    /\ requests' = [requests EXCEPT ![process] =
                        Append(@, Request(nextId + 1, observation))]
    /\ pc' = "waiting"

-----------------------------------------------------------------------------
(* infer, when _ensure_worker finds the child alive. *)
InferOnLiveWorker ==
    /\ pc = "idle"
    /\ calls < MaxCalls
    /\ HandleAlive
    /\ calls' = calls + 1
    /\ outcome' = Abstract!Pending
    /\ Submit(calls + 1)
    /\ UNCHANGED <<process, failures, started, status, signalled, serving,
                   responses, wire, lost>>

(* infer, when there is no live child: _ensure_worker drops the old handle *)
(* and starts a child with two new queues.                                 *)
InferStartsWorker ==
    /\ pc = "idle"
    /\ calls < MaxCalls
    /\ ~HandleAlive
    /\ started < MaxWorkers
    /\ calls' = calls + 1
    /\ outcome' = Abstract!Pending
    /\ started' = started + 1
    /\ process' = started + 1
    /\ status' = [status EXCEPT ![started + 1] = "connecting"]
    /\ requests' = [requests EXCEPT ![started + 1] = <<>>]
    /\ responses' = [responses EXCEPT ![started + 1] = <<>>]
    /\ pc' = "starting"
    /\ UNCHANGED <<nextId, failures, signalled, serving, wire, lost>>

(* The startup get() returns ("ready",): the call goes on to its request. *)
StartupReady ==
    /\ pc = "starting"
    /\ responses[process] # <<>>
    /\ Head(responses[process]).kind = "ready"
    /\ responses' = [responses EXCEPT ![process] = Tail(@)]
    /\ Submit(calls)
    /\ UNCHANGED <<process, calls, outcome, failures, started, status,
                   signalled, serving, wire, lost>>

(* The startup get() returns ("startup_error", detail). *)
StartupFails ==
    /\ pc = "starting"
    /\ responses[process] # <<>>
    /\ Head(responses[process]).kind # "ready"
    /\ responses' = [responses EXCEPT ![process] = Tail(@)]
    /\ Fail("startup", "error")
    /\ CloseForced
    /\ UNCHANGED <<nextId, calls, started, status, serving, requests, wire,
                   lost>>

(* The startup get() raises Empty after startup_timeout_seconds. *)
StartupTimesOut ==
    /\ pc = "starting"
    /\ responses[process] = <<>>
    /\ Fail("startup", "timeout")
    /\ CloseForced
    /\ UNCHANGED <<nextId, calls, started, status, serving, requests,
                   responses, wire, lost>>

-----------------------------------------------------------------------------
(* The get() of infer returned a reply: each check of infer in its order.  *)
OldestReply == Head(responses[process])

TakeReply ==
    /\ pc = "waiting"
    /\ responses[process] # <<>>
    /\ responses' = [responses EXCEPT ![process] = Tail(@)]
    /\ UNCHANGED <<nextId, calls, started, status, serving, requests, wire,
                   lost>>

(* A startup message has fewer than three fields: unpacking it raises      *)
(* ValueError, which no handler of infer catches.                          *)
ReplyIsMalformed ==
    /\ TakeReply
    /\ OldestReply.kind \in StartupKinds
    /\ Fail("malformed", "error")
    /\ UNCHANGED <<process, signalled>>

(* Mutation of ReplyIsMismatched: raise, but keep the child. *)
MutMismatchKeepsChild ==
    /\ TakeReply
    /\ OldestReply.kind \in ReplyKinds
    /\ OldestReply.id # nextId
    /\ Fail("mismatch", "error")
    /\ UNCHANGED <<process, signalled>>

ReplyIsMismatched ==
    /\ TakeReply
    /\ OldestReply.kind \in ReplyKinds
    /\ OldestReply.id # nextId
    /\ Fail("mismatch", "error")
    /\ CloseForced

(* An error reply or a payload that is not a dictionary raises             *)
(* RemotePolicyError and leaves the child as it is.                        *)
ReplyIsError ==
    /\ TakeReply
    /\ OldestReply.kind \in {"error", "nondict"}
    /\ OldestReply.id = nextId
    /\ Fail("error", "error")
    /\ UNCHANGED <<process, signalled>>

(* Mutation of ReplyIsAnswer: the id of the reply is not compared. *)
MutAnswerIgnoresId ==
    /\ TakeReply
    /\ OldestReply.kind = "response"
    /\ Return(Abstract!Answer(OldestReply.obs))
    /\ UNCHANGED <<process, failures, signalled>>

ReplyIsAnswer ==
    /\ TakeReply
    /\ OldestReply.kind = "response"
    /\ OldestReply.id = nextId
    /\ Return(Abstract!Answer(OldestReply.obs))
    /\ UNCHANGED <<process, failures, signalled>>

(* Mutations of RequestTimesOut: the child is kept for the next request;   *)
(* the get() has no timeout and only a dead child ends it.                 *)
MutTimeoutKeepsChild ==
    /\ pc = "waiting"
    /\ responses[process] = <<>>
    /\ Fail("timeout", "timeout")
    /\ UNCHANGED <<process, nextId, calls, children>>

MutGetWithoutTimeout ==
    /\ pc = "waiting"
    /\ responses[process] = <<>>
    /\ ~HandleAlive
    /\ Fail("timeout", "timeout")
    /\ CloseForced
    /\ UNCHANGED <<nextId, calls, started, status, serving, requests,
                   responses, wire, lost>>

(* The get() of infer raises Empty after request_timeout_seconds. *)
RequestTimesOut ==
    /\ pc = "waiting"
    /\ responses[process] = <<>>
    /\ Fail("timeout", "timeout")
    /\ CloseForced
    /\ UNCHANGED <<nextId, calls, started, status, serving, requests,
                   responses, wire, lost>>

(* KeyboardInterrupt leaves infer through neither handler. *)
CallIsInterrupted ==
    /\ CallerMayInterrupt
    /\ pc \in {"starting", "waiting"}
    /\ Fail("interrupt", "interrupt")
    /\ UNCHANGED <<process, nextId, calls, children>>

-----------------------------------------------------------------------------
(* reconnect() and close(force=True). *)
Reconnect ==
    /\ pc = "idle"
    /\ CloseForced
    /\ UNCHANGED <<pc, nextId, calls, outcome, failures, started, status,
                   serving, requests, responses, wire, lost>>

(* close(): a live child is asked to leave its loop and joined for 0.5 s.  *)
CloseBegins ==
    /\ pc = "idle"
    /\ HandleAlive
    /\ requests' = [requests EXCEPT ![process] = Append(@, CloseMessage)]
    /\ pc' = "joining"
    /\ UNCHANGED <<process, nextId, calls, outcome, failures, started, status,
                   signalled, serving, responses, wire, lost>>

(* The join ended: the child left, or it is terminated now. *)
CloseEnds ==
    /\ pc = "joining"
    /\ CloseForced
    /\ pc' = "idle"
    /\ UNCHANGED <<nextId, calls, outcome, failures, started, status, serving,
                   requests, responses, wire, lost>>

-----------------------------------------------------------------------------
(* _process_transport_worker, generation g. *)
Put(g, reply) == responses' = [responses EXCEPT ![g] = Append(@, reply)]

Becomes(g, from, to) ==
    /\ status[g] \in from
    /\ status' = [status EXCEPT ![g] = to]

WorkerConnects(g) ==
    /\ Becomes(g, {"connecting"}, "polling")
    /\ Put(g, Reply("ready", 0, 0))
    /\ UNCHANGED <<caller, started, signalled, serving, requests, wire, lost>>

WorkerCannotConnect(g) ==
    /\ Becomes(g, {"connecting"}, "exiting")
    /\ Put(g, Reply("startup_error", 0, 0))
    /\ UNCHANGED <<caller, started, signalled, serving, requests, wire, lost>>

(* request_queue.get(): the close message ends the loop. *)
WorkerTakesClose(g) ==
    /\ requests[g] # <<>>
    /\ Head(requests[g]) = CloseMessage
    /\ Becomes(g, {"polling"}, "exiting")
    /\ requests' = [requests EXCEPT ![g] = Tail(@)]
    /\ UNCHANGED <<caller, started, signalled, serving, responses, wire, lost>>

WorkerTakesRequest(g) ==
    /\ requests[g] # <<>>
    /\ Head(requests[g]) # CloseMessage
    /\ Becomes(g, {"polling"}, "serving")
    /\ serving' = [serving EXCEPT ![g] = Head(requests[g])]
    /\ requests' = [requests EXCEPT ![g] = Tail(@)]
    /\ UNCHANGED <<caller, started, signalled, responses, wire, lost>>

(* transport.infer of the official client: send the observation ... *)
WorkerSends(g) ==
    /\ g \notin lost
    /\ Becomes(g, {"serving"}, "receiving")
    /\ wire' = [wire EXCEPT ![g] = Append(@, serving[g].obs)]
    /\ UNCHANGED <<caller, started, signalled, serving, requests, responses,
                   lost>>

(* ... and receive the oldest reply on the socket.  What is put is put for *)
(* the request being served: the answer, a payload that is no dictionary,  *)
(* or the error the reply made transport.infer raise.                      *)
WorkerReceives(g) ==
    /\ wire[g] # <<>>
    /\ Becomes(g, {"receiving"}, "polling")
    /\ wire' = [wire EXCEPT ![g] = Tail(@)]
    /\ \E k \in ReplyKinds :
            Put(g, Reply(k, serving[g].id, Head(wire[g])))
    /\ UNCHANGED <<caller, started, signalled, serving, requests, lost>>

(* The reply cannot be pickled: the queue's feeder thread drops it. *)
ReplyIsDropped(g) ==
    /\ wire[g] # <<>>
    /\ Becomes(g, {"receiving"}, "polling")
    /\ wire' = [wire EXCEPT ![g] = Tail(@)]
    /\ UNCHANGED <<caller, started, signalled, serving, requests, responses,
                   lost>>

(* transport.infer raises: before the send (the observation cannot be      *)
(* encoded, the connection is gone), because the connection broke in       *)
(* recv(), or with the reply left unread.  The loop reports and goes on.   *)
WorkerReportsError(g) ==
    /\ \/ status[g] = "serving"
       \/ status[g] = "receiving" /\ (g \in lost \/ RecvMayAbort)
    /\ Becomes(g, {"serving", "receiving"}, "polling")
    /\ Put(g, Reply("error", serving[g].id, serving[g].obs))
    /\ UNCHANGED <<caller, started, signalled, serving, requests, wire, lost>>

(* The server or the network drops the connection; nothing reopens it. *)
ConnectionBreaks(g) ==
    /\ status[g] \in {"polling", "serving", "receiving"}
    /\ g \notin lost
    /\ lost' = lost \cup {g}
    /\ UNCHANGED <<caller, started, status, signalled, serving, requests,
                   responses, wire>>

(* The process is gone, and with it its socket and its end of the pipe.    *)
Gone(g) ==
    /\ status' = [status EXCEPT ![g] = "dead"]
    /\ requests' = [requests EXCEPT ![g] = <<>>]
    /\ wire' = [wire EXCEPT ![g] = <<>>]
    /\ UNCHANGED <<caller, started, signalled, serving, responses, lost>>

WorkerExits(g)   == status[g] = "exiting" /\ Gone(g)
WorkerIsKilled(g) == g \in signalled /\ Alive(g) /\ Gone(g)
WorkerCrashes(g) == Alive(g) /\ Gone(g)

-----------------------------------------------------------------------------
(* The steps that end a wait of the caller: a message arrived or the timer *)
(* of the get() or join() fired.                                           *)
WaitEnds ==
    \/ StartupReady \/ StartupFails \/ StartupTimesOut
    \/ ReplyIsMalformed \/ ReplyIsMismatched \/ ReplyIsError \/ ReplyIsAnswer
    \/ RequestTimesOut
    \/ CloseEnds

Caller ==
    \/ InferOnLiveWorker \/ InferStartsWorker
    \/ WaitEnds
    \/ CallIsInterrupted
    \/ Reconnect \/ CloseBegins

Worker(g) ==
    \/ WorkerConnects(g) \/ WorkerCannotConnect(g)
    \/ WorkerTakesClose(g) \/ WorkerTakesRequest(g)
    \/ WorkerSends(g) \/ WorkerReceives(g) \/ ReplyIsDropped(g)
    \/ WorkerReportsError(g)
    \/ WorkerExits(g)

Environment(g) ==
    \/ ConnectionBreaks(g) \/ WorkerIsKilled(g) \/ WorkerCrashes(g)

Next == Caller \/ \E g \in Workers : Worker(g) \/ Environment(g)

(* Queue.get and Process.join have timeouts, so every wait ends; SIGTERM   *)
(* and a returning main function end a process.  Nothing is assumed of the *)
(* server, the network or the progress of a child.                         *)
Fairness ==
    /\ WF_vars(WaitEnds)
    /\ \A g \in Workers : WF_vars(WorkerExits(g)) /\ WF_vars(WorkerIsKilled(g))

Spec == Init /\ [][Next]_vars /\ Fairness

-----------------------------------------------------------------------------
(* Bookkeeping of the call in progress: a request id is used up by a call  *)
(* only once, a wait is always a wait for the generation the handle refers *)
(* to, and generations are started in order (remote_client.py:137-202).    *)
CallBookkeeping ==
    /\ nextId <= calls
    /\ pc = "starting" => nextId < calls
    /\ pc = "waiting" => nextId > 0
    /\ pc # "idle" => process # 0
    /\ process <= started
    /\ \A g \in Workers : g > started =>
            status[g] = "unborn" /\ g \notin signalled
    /\ \A f \in failures : f[1] <= started

(* Every payload infer returns was computed from the observation passed to *)
(* that very call: never from the observation of an earlier call that timed *)
(* out, failed or was interrupted (remote_client.py:151-158).              *)
PayloadIsForThisCall ==
    outcome.kind = "payload" => outcome.obs = calls

(* Even if a transport can leave recv() with the reply unread, a stale      *)
(* answer gets past the id check only through a child that was kept after  *)
(* an error reply (remote_client.py:154-158), never through one that timed *)
(* out, was interrupted or was replaced.                                   *)
StaleAnswerNeedsKeptChild ==
    (outcome.kind = "payload" /\ outcome.obs # calls /\ process # 0)
        => <<process, "error">> \in failures

(* A child that is running is the one the instance holds, or is on its way *)
(* out: close() and _ensure_worker never lose a child that keeps its       *)
(* socket open (remote_client.py:165-183).                                 *)
NoChildIsLeaked ==
    \A g \in Workers :
        Alive(g) => g = process \/ g \in signalled \/ status[g] = "exiting"

(* The id check at remote_client.py:151 fires only on a generation on      *)
(* which the caller was interrupted before: timeouts, crashes, reconnects  *)
(* and errors alone never make an id disagree, nor let a startup message   *)
(* be read as a reply.                                                     *)
StaleReplyNeedsInterrupt ==
    \A g \in Workers :
        {<<g, "mismatch">>, <<g, "malformed">>} \cap failures # {}
            => <<g, "interrupt">> \in failures

(* A generation that missed a deadline, failed to start or answered for    *)
(* another request is never asked again (STAGE_07: "is never reused").     *)
RetiredIsNeverReused ==
    pc = "waiting" =>
        {<<process, how>> : how \in {"startup", "timeout", "mismatch"}}
            \cap failures = {}

(* What the class documents of an unconfirmed request, one that ended       *)
(* without a reply: "the process is terminated and the instance is closed"  *)
(* (remote_client.py:110-112).  So while infer waits for the reply to its   *)
(* request, no request of an earlier call is under way on the same child:   *)
(* none in its queue, none being served and no reply to one.                *)
UnconfirmedIsNeverReused ==
    pc = "waiting" =>
        /\ \A i \in 1..Len(requests[process]) : requests[process][i].id = nextId
        /\ status[process] \in {"serving", "receiving"}
                => serving[process].id = nextId
        /\ \A i \in 1..Len(responses[process]) :
                responses[process][i].kind \in ReplyKinds
                    => responses[process][i].id = nextId

(* A child the instance no longer holds does not stay behind. *)
DroppedChildrenDie ==
    \A g \in Workers :
        (g <= started /\ g # process) ~> status[g] = "dead"

(* The transport implements the synchronous call of PolicyCall, its        *)
(* termination included.                                                   *)
ImplementsPolicyCall == Abstract!Spec
=============================================================================

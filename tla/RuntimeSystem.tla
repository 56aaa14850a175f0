---------------------------- MODULE RuntimeSystem ----------------------------
(***************************************************************************)
(* The runtime as the remote scripts assemble it: ClosedLoopRuntime over   *)
(* StaticFrameOpenPIBridge and OfficialOpenPIDroidClient (thread-confined) *)
(* over ProcessOwnedTransport.                                             *)
(*                                                                         *)
(* Everything but the children is one thread: run() is inside infer while  *)
(* loop = "calling", and inside the transport while pc is not "idle" as    *)
(* well.  The return of infer and what run() does with it are one step,    *)
(* as no state both sides can see changes in between.                      *)
(***************************************************************************)
EXTENDS ProcessTransport, ClosedLoop

VARIABLE carried   \* the observation each call of transport.infer carried

systemVars == <<vars, loopVars, carried>>

SystemTypeOK ==
    /\ TypeOK
    /\ LoopTypeOK
    /\ carried \in Seq(Nat)
    /\ Len(carried) = calls
    /\ pc \in {"starting", "waiting"} => loop = "calling"

SystemInit == Init /\ LoopInit /\ carried = <<>>

-----------------------------------------------------------------------------
RunStarts ==
    /\ pc = "idle"
    /\ StartRun
    /\ UNCHANGED <<vars, carried>>

RunGoesOn ==
    /\ RequestPolicy \/ LoopAlone
    /\ UNCHANGED <<vars, carried>>

(* _to_wire_observation raises (frame, state or prompt not valid): the     *)
(* transport is not called.                                                *)
BuildRaises ==
    /\ pc = "idle"
    /\ PolicyRaises
    /\ UNCHANGED <<vars, carried>>

(* The wire observation is built from the last observation and passed to   *)
(* transport.infer.                                                        *)
CallTransport ==
    /\ loop = "calling"
    /\ InferOnLiveWorker \/ InferStartsWorker
    /\ carried' = Append(carried, observed)
    /\ UNCHANGED loopVars

TransportRaises ==
    \/ StartupFails \/ StartupTimesOut
    \/ ReplyIsMalformed \/ ReplyIsMismatched \/ ReplyIsError
    \/ RequestTimesOut

(* Mutations of CallFails: run() decides again; the client calls the        *)
(* transport again.                                                        *)
MutFailureIsSwallowed ==
    /\ TransportRaises
    /\ loop' = "deciding"
    /\ UNCHANGED <<config, run, budget, completed, pending, observed,
                   commands, holds, metrics, interrupted, carried>>

MutFailureIsRetried ==
    /\ TransportRaises
    /\ UNCHANGED <<loopVars, carried>>

(* transport.infer raises; the client raises RemotePolicyError from it.    *)
CallFails ==
    /\ TransportRaises
    /\ PolicyRaises
    /\ UNCHANGED carried

(* _to_policy_response raises OpenPIProtocolError. *)
AnswerIsRefused ==
    /\ ReplyIsAnswer
    /\ PolicyRaises
    /\ UNCHANGED carried

(* _to_policy_response: a finite (H, 8) chunk, about whatever observation  *)
(* the answer was computed from.                                           *)
AnswerIsDecoded ==
    /\ ReplyIsAnswer
    /\ \E chunk \in Chunks :
            /\ Valid(chunk, ActionDim)
            /\ PolicyAnswers(carried[outcome'.obs], chunk)
    /\ UNCHANGED carried

(* KeyboardInterrupt passes the client and run(). *)
CallIsBroken ==
    /\ CallIsInterrupted
    /\ RunIsInterrupted
    /\ UNCHANGED carried

ConnectionIsReady ==
    /\ StartupReady
    /\ UNCHANGED <<loopVars, carried>>

(* Between two runs the script may reset or close the transport. *)
TransportIsReset ==
    /\ loop = "idle"
    /\ Reconnect \/ CloseBegins \/ CloseEnds
    /\ UNCHANGED <<loopVars, carried>>

ChildSteps ==
    /\ \E g \in Workers : Worker(g) \/ Environment(g)
    /\ UNCHANGED <<loopVars, carried>>

-----------------------------------------------------------------------------
(* The steps of the robot-side thread inside run(). *)
RunSteps ==
    \/ RunGoesOn
    \/ BuildRaises \/ CallTransport \/ ConnectionIsReady
    \/ CallFails \/ AnswerIsRefused \/ AnswerIsDecoded

SystemNext ==
    \/ RunStarts \/ RunSteps \/ CallIsBroken
    \/ TransportIsReset
    \/ ChildSteps

(* SIGTERM and a returning main function end a process. *)
ChildEnds(g) ==
    /\ WorkerExits(g) \/ WorkerIsKilled(g)
    /\ UNCHANGED <<loopVars, carried>>

(* The robot-side thread runs, its waits have deadlines, and processes     *)
(* that should end do.  Nothing else is assumed of the children, and       *)
(* nothing of the network or the server.                                   *)
SystemFairness ==
    /\ WF_systemVars(RunSteps)
    /\ WF_systemVars(TransportIsReset /\ CloseEnds)
    /\ \A g \in Workers : WF_systemVars(ChildEnds(g))

SystemSpec == SystemInit /\ [][SystemNext]_systemVars /\ SystemFairness

-----------------------------------------------------------------------------
(* The robot executes an action only if it was computed from the newest    *)
(* observation taken, whatever was interrupted, timed out, crashed or was  *)
(* reconnected before (runtime.py:58-78 over remote_client.py:137-202).    *)
ExecutedActionIsFresh ==
    [][\A i \in 1..Len(commands') : i > Len(commands)
            => commands'[i].obs = observed]_systemVars

(* An observation is sent to the policy once: no layer repeats a request   *)
(* with an observation that got old meanwhile (runtime.py:90-93,           *)
(* official_openpi.py:45-61, remote_client.py:137-158).                    *)
ObservationIsAskedOnce ==
    \A i, j \in 1..Len(carried) : i < j => carried[i] < carried[j]

(* A run that ended before its budget was used up left the robot holding,  *)
(* whichever layer failed; only an interrupt ends it without a hold        *)
(* (runtime.py:59-63, 81-88).                                              *)
FailedRunHolds ==
    (loop = "idle" /\ completed < budget)
        => \/ \E h \in 1..Len(holds) : holds[h].run = run
           \/ outcome.kind = "interrupt"

(* Every run returns, though the server may never answer                   *)
(* (remote_client.py:144-148, 192-195).  At a bound on calls or children   *)
(* the only way on is BuildRaises, which is the run that failed earlier.   *)
EveryRunReturns == loop # "idle" ~> loop = "idle"

(* With the client and the transport as the policy, the runtime is the one *)
(* of ClosedLoop, whose policy always answers about the last observation.  *)
ImplementsClosedLoop == LoopSpec
=============================================================================

---------------------------- MODULE BoundedSystem ----------------------------
(***************************************************************************)
(* The runtime over OfficialOpenPIDroidClient in its default mode, where   *)
(* the transport is not confined to a thread: ClosedLoopRuntime over the   *)
(* typed client over BoundedRemotePolicyClient, and the exit of the        *)
(* interpreter, which waits for the threads of all calls.                  *)
(*                                                                         *)
(* run() is inside infer while loop = "calling", and inside                *)
(* future.result while waiting as well.                                    *)
(***************************************************************************)
EXTENDS BoundedClient, ClosedLoop

VARIABLES
    carried,   \* the observation each call of the bounded client carried
    program    \* is the interpreter running, exiting or gone?

boundedSystemVars == <<boundedVars, loopVars, carried, program>>

BoundedSystemTypeOK ==
    /\ BoundedTypeOK
    /\ LoopTypeOK
    /\ carried \in Seq(Nat)
    /\ Len(carried) = calls
    /\ program \in {"running", "exiting", "gone"}
    /\ waiting => loop = "calling"

BoundedSystemInit ==
    /\ BoundedInit
    /\ LoopInit
    /\ carried = <<>>
    /\ program = "running"

-----------------------------------------------------------------------------
(* A caller that reconnects does so before it runs again. *)
BoundedRunStarts ==
    /\ program = "running"
    /\ CallerReconnects => ~Distrusted(connection)
    /\ StartRun
    /\ UNCHANGED <<boundedVars, carried, program>>

BoundedRunGoesOn ==
    /\ RequestPolicy \/ LoopAlone
    /\ UNCHANGED <<boundedVars, carried, program>>

(* _to_wire_observation raises: nothing is submitted. *)
BuildRaises ==
    /\ ~waiting
    /\ PolicyRaises
    /\ UNCHANGED <<boundedVars, carried, program>>

CallClient ==
    /\ loop = "calling"
    /\ Infer
    /\ carried' = Append(carried, observed)
    /\ UNCHANGED <<loopVars, program>>

(* Mutation of ClientRaises: run() decides again. *)
MutFailureIsSwallowed ==
    /\ ResultIsError \/ ResultIsTimeoutError \/ DeadlineExpires
    /\ loop' = "deciding"
    /\ UNCHANGED <<config, run, budget, completed, pending, observed,
                   commands, holds, metrics, interrupted, carried, program>>

(* BoundedRemotePolicyClient.infer raises, and run() holds the robot. *)
ClientRaises ==
    /\ ResultIsError \/ ResultIsTimeoutError \/ DeadlineExpires
    /\ PolicyRaises
    /\ UNCHANGED <<carried, program>>

(* _to_policy_response raises OpenPIProtocolError. *)
AnswerIsRefused ==
    /\ ResultIsPayload
    /\ PolicyRaises
    /\ UNCHANGED <<carried, program>>

(* _to_policy_response: a finite (H, 8) chunk, about whatever observation  *)
(* the payload was computed from.                                          *)
AnswerIsDecoded ==
    /\ ResultIsPayload
    /\ \E chunk \in Chunks :
            /\ Valid(chunk, ActionDim)
            /\ PolicyAnswers(carried[outcome'.obs], chunk)
    /\ UNCHANGED <<carried, program>>

(* KeyboardInterrupt passes the client and run(). *)
CallIsBroken ==
    /\ CallIsInterrupted
    /\ RunIsInterrupted
    /\ UNCHANGED <<carried, program>>

(* Between two runs the program may build a new transport and client. *)
ClientIsReplaced ==
    /\ program = "running"
    /\ loop = "idle"
    /\ NewConnection
    /\ UNCHANGED <<loopVars, carried, program>>

ThreadSteps ==
    /\ \/ \E c \in Threads : Thread(c)
       \/ \E k \in Connections : ConnectionBreaks(k)
    /\ UNCHANGED <<loopVars, carried, program>>

(* The main thread has ended: concurrent.futures joins the threads of its  *)
(* pools, which shutdown(wait=False) left running.                         *)
ExitBegins ==
    /\ program = "running"
    /\ loop = "idle"
    /\ program' = "exiting"
    /\ UNCHANGED <<boundedVars, loopVars, carried>>

ThreadsAreJoined ==
    /\ program = "exiting"
    /\ \A c \in Threads : ~Running(c)
    /\ program' = "gone"
    /\ UNCHANGED <<boundedVars, loopVars, carried>>

-----------------------------------------------------------------------------
(* The steps of the robot-side thread inside run(). *)
BoundedRunSteps ==
    \/ BoundedRunGoesOn
    \/ BuildRaises \/ CallClient
    \/ ClientRaises \/ AnswerIsRefused \/ AnswerIsDecoded

BoundedSystemNext ==
    \/ BoundedRunStarts \/ BoundedRunSteps \/ CallIsBroken
    \/ ClientIsReplaced
    \/ ThreadSteps \/ ExitBegins \/ ThreadsAreJoined

(* The robot-side thread runs, future.result has a timeout, and a join of  *)
(* finished threads returns.  Nothing is assumed of the threads.           *)
BoundedSystemSpec ==
    /\ BoundedSystemInit
    /\ [][BoundedSystemNext]_boundedSystemVars
    /\ WF_boundedSystemVars(BoundedRunSteps)
    /\ WF_boundedSystemVars(ThreadsAreJoined)

-----------------------------------------------------------------------------
(* Whether or not the caller reconnects, an action the robot executes was  *)
(* computed from the newest observation, unless an earlier call over the   *)
(* same transport was left unconfirmed; and as such a call ends its run, a *)
(* stale action takes a second run over the transport                      *)
(* (remote_client.py:43-45, 57-61, runtime.py:58-63).                      *)
StaleActionNeedsUnconfirmed ==
    [][\A i \in 1..Len(commands') : i > Len(commands) =>
            \/ commands'[i].obs = observed
            \/ /\ \E c \in unconfirmed : c < calls /\ uses[c] = uses[calls]
               /\ \/ \E h \in 1..Len(holds) :
                        holds[h].run < run /\ holds[h].reason = "policy"
                  \/ \E k \in 1..Len(interrupted) : interrupted[k] < run
      ]_boundedSystemVars

(* Every run returns, though a thread may never get its answer             *)
(* (remote_client.py:56-66).  Checked with enough calls and transports     *)
(* that no bound stops a run.                                              *)
EveryBoundedRunReturns == loop # "idle" ~> loop = "idle"

(* shutdown(wait=False) does not free the program of a late thread: it     *)
(* cannot end before that thread does.  But nothing else holds it up: a    *)
(* program that hangs at its exit hangs on the thread of a call that was   *)
(* reported to it as unconfirmed (remote_client.py:57-66).                 *)
ExitHangsOnUnconfirmedOnly ==
    <>[](program = "exiting") => <>[](\E c \in unconfirmed : Running(c))

(* With a caller that reconnects, the runtime over the thread-bounded      *)
(* client is the one of ClosedLoop, whose policy always answers about the  *)
(* last observation.                                                       *)
ImplementsClosedLoop == LoopSpec
=============================================================================

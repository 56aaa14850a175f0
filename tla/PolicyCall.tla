----------------------------- MODULE PolicyCall -----------------------------
(***************************************************************************)
(* What a policy transport promises to the control loop, whatever it is    *)
(* built from: infer(observation) is a synchronous call, and it ends       *)
(* either with the answer to the observation of that very call or with an  *)
(* exception.  The answer to an earlier observation is never returned.     *)
(*                                                                         *)
(* The promise is read off the two implementations of                      *)
(* OpenPITransport.infer in remote_client.py; ProcessTransport is shown to *)
(* implement it.                                                           *)
(***************************************************************************)
EXTENDS Naturals

CONSTANT MaxCalls      \* bound: number of infer calls made

VARIABLES
    calling,           \* is an infer call in progress?
    calls,             \* number of calls begun; call n carries observation n
    outcome            \* how the last call ended

vars == <<calling, calls, outcome>>

Exceptions == {"timeout", "error", "interrupt"}

Pending     == [kind |-> "pending", obs |-> 0]
Answer(n)   == [kind |-> "payload", obs |-> n]
Raised(e)   == [kind |-> e, obs |-> 0]

Outcomes == [kind : {"pending", "payload"} \cup Exceptions, obs : 0..MaxCalls]

Init ==
    /\ calling = FALSE
    /\ calls = 0
    /\ outcome = Pending

Begin ==
    /\ ~calling
    /\ calls < MaxCalls
    /\ calling' = TRUE
    /\ calls' = calls + 1
    /\ outcome' = Pending

Finish ==
    /\ calling
    /\ calling' = FALSE
    /\ outcome' \in {Answer(calls)} \cup {Raised(e) : e \in Exceptions}
    /\ UNCHANGED calls

Next == Begin \/ Finish

Spec == Init /\ [][Next]_vars /\ WF_vars(Finish)
=============================================================================

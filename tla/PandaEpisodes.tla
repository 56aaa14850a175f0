---------------------------- MODULE PandaEpisodes ----------------------------
(***************************************************************************)
(* The scripts that drive the simulated Panda, episode by episode, with    *)
(* the policy, or a controller of their own, and the bridge:               *)
(*   "suite"     run_remote_pi05_panda_reach_suite.py                      *)
(*   "demo"      run_remote_pi05_panda_closed_loop.py (one episode)        *)
(*   "smoke"     run_remote_pi05_panda_smoke.py (one request)              *)
(*   "stress"    run_remote_pi05_panda_stress.py                           *)
(*   "held_out"  run_remote_stage18_held_out_evaluation.py                 *)
(*   "mismatch"  run_remote_pi05_panda_mismatch_diagnosis.py               *)
(*   "collect"   collect_remote_stage18_adapter_data.py                    *)
(*   "ladder"    run_remote_stage20_control_feasibility.py, the episodes   *)
(*               of its bridge controllers (and the same episodes of       *)
(*               run_remote_stage20b_control_contract.py)                  *)
(*   "baseline"  run_remote_panda_reach_baselines.py, the episodes of its  *)
(*               zero and random actions                                   *)
(*                                                                         *)
(* They share the simulator, the bridge and the shape of the loop, and     *)
(* differ in what their try statements cover, in when they count and in    *)
(* where an action comes from.  The policy is the typed client: it answers *)
(* with a validated chunk for the observation of the call or raises.       *)
(***************************************************************************)
EXTENDS PandaBridge

CONSTANTS
    Positions,         \* joint positions the simulation can be in
    Actions,           \* first rows of chunks, and actions of the controllers
    Home,              \* the position every episode starts from
    MaxEpisodes,       \* bound: targets, conditions or samples of a script
    MaxSteps           \* bound: replans of an episode

ASSUME EpisodeAssumption ==
    /\ Positions \subseteq [Joints -> Int \cup {NotFinite}]
    /\ Actions \subseteq ActionVectors
    /\ Actions # {}
    /\ Home \in JointVectors \cap Positions
    /\ MaxEpisodes \in Nat \ {0}
    /\ MaxSteps \in Nat \ {0}

VARIABLES
    script,            \* which of the scripts runs
    phase,             \* where in its loops it is
    arm,               \* the evaluation arm of the episode
    episode, step,     \* loop counters
    position,          \* data.qpos of the arm joints
    asked,             \* episode and position of the last observation
    action,            \* the action about to be executed
    ctrl,              \* data.ctrl, and the position it was computed for
    hold,              \* has the episode a safe_hold?
    tally,             \* completed and clipped replans of the episode
    total,             \* the same over all episodes, as counted on the way
    rows,              \* one row of the report per episode
    connected,         \* the transport was made and not closed
    cause,             \* what ended a script without a report
    moved, movedInAll  \* history: replans executed to their end

episodeVars == <<script, phase, arm, episode, step, position, asked, action,
                 ctrl, hold, tally, total, rows, connected, cause,
                 moved, movedInAll>>

-----------------------------------------------------------------------------
Scripts == {"suite", "demo", "smoke", "stress", "held_out", "mismatch",
            "collect", "ladder", "baseline"}

HasPolicy(s) == s \notin {"ladder", "baseline"}

Arms == {"raw", "adapter", "oracle"}

(* held_out evaluates all arms. *)
ArmsOf(s) ==
    CASE s = "held_out" -> Arms
      [] ~HasPolicy(s) -> {"oracle"}
      [] OTHER -> {"raw"}

(* Mutation of Episodes: one more than asked for. *)
MutEpisodesInclusive(s) ==
    IF s \in {"demo", "smoke"} THEN 1 ELSE MaxEpisodes + 1

Episodes(s) == IF s \in {"demo", "smoke"} THEN 1 ELSE MaxEpisodes
Steps(s) == IF s \in {"smoke", "collect"} THEN 1 ELSE MaxSteps

CountsAnswers(s) == s \in {"suite", "collect"}     \* when infer has returned
GuardsExecution(s) == s \in {"suite", "demo", "smoke", "stress", "ladder"}
GuardsObservation(s) == s \in {"demo", "ladder"}   \* try around the loop

Zero == [completed |-> 0, clipped |-> 0]

AddCompleted(t) == [t EXCEPT !.completed = @ + 1]
AddClipped(t, isClipped) ==
    IF isClipped THEN [t EXCEPT !.clipped = @ + 1] ELSE t

(* Mutation of FreshTally: the counters are set before the loop. *)
MutTallyKept == tally

FreshTally == Zero

AtHome ==
    [set |-> FALSE, at |-> Home,
     command |-> [targets |-> Home, gripper |-> 0, clipped |-> FALSE]]

(* combine_residual_action checks lengths; what the network adds need not  *)
(* be finite.                                                              *)
AdapterActions ==
    Actions \cup {[a EXCEPT ![1] = NotFinite] : a \in Actions}

(* ActionInterpretation.apply: the arm as it is, negated, or with a gain   *)
(* of a quarter (in whole units).                                          *)
Interpretations(a) ==
    {a,
     [i \in 1..(NumJoints + 1) |-> IF i \in Joints THEN -a[i] ELSE a[i]],
     [i \in 1..(NumJoints + 1) |->
        IF i \in Joints THEN a[i] \div 4 ELSE a[i]]}

-----------------------------------------------------------------------------
Init ==
    /\ script \in Scripts
    /\ phase = IF script = "mismatch" THEN "warming" ELSE "resetting"
    /\ arm \in ArmsOf(script)
    /\ episode = 1
    /\ step = 0
    /\ position = Home
    /\ asked = [episode |-> 0, position |-> Home]
    /\ action \in Actions
    /\ ctrl = AtHome
    /\ hold = FALSE
    /\ tally = Zero
    /\ total = Zero
    /\ rows = <<>>
    /\ connected = HasPolicy(script)
    /\ cause = "none"
    /\ moved = Zero
    /\ movedInAll = Zero

(* Where an exception may come from that no try statement catches. *)
Causes == {"warmup", "observation", "bridge", "simulation", "picture"}

(* An exception passes main(): its finally clause closes the transport. *)
Abort(why) ==
    /\ phase' = "raised"
    /\ cause' = why
    /\ connected' = FALSE
    /\ UNCHANGED <<script, arm, episode, step, position, asked, action, ctrl,
                   hold, tally, total, rows, moved, movedInAll>>

(* The answer to the warm-up request is dropped. *)
WarmUp ==
    /\ phase = "warming"
    /\ phase' = "resetting"
    /\ UNCHANGED <<script, arm, episode, step, position, asked, action, ctrl,
                   hold, tally, total, rows, connected, cause, moved,
                   movedInAll>>

WarmUpRaises == phase = "warming" /\ Abort("warmup")

(* The next target, condition or sample: the simulation is reset, its      *)
(* actuators included.  collect moves the joints within their limits.      *)
StartEpisode ==
    /\ phase = "resetting"
    /\ episode <= Episodes(script)
    /\ phase' = "observing"
    /\ arm' \in ArmsOf(script)
    /\ position' \in IF script = "collect"
                     THEN {p \in Positions : \A j \in Joints :
                                p[j] # NotFinite /\ WithinLimits(p, j)}
                     ELSE {Home}
    /\ ctrl' = AtHome
    /\ step' = 0
    /\ hold' = FALSE
    /\ tally' = FreshTally
    /\ moved' = Zero
    /\ UNCHANGED <<script, episode, asked, action, total, rows, connected,
                   cause, movedInAll>>

Finish ==
    /\ phase = "resetting"
    /\ episode > Episodes(script)
    /\ phase' = "reported"
    /\ connected' = FALSE
    /\ UNCHANGED <<script, arm, episode, step, position, asked, action, ctrl,
                   hold, tally, total, rows, cause, moved, movedInAll>>

(* Mutation of SafeHold: the episode is left without its row. *)
MutHoldSkipsRow ==
    /\ hold' = TRUE
    /\ episode' = episode + 1
    /\ phase' = "resetting"
    /\ UNCHANGED <<script, arm, step, position, asked, action, ctrl,
                   tally, total, rows, connected, cause, moved, movedInAll>>

SafeHold ==
    /\ hold' = TRUE
    /\ phase' = "recording"
    /\ UNCHANGED <<script, arm, episode, step, position, asked, action, ctrl,
                   tally, total, rows, connected, cause, moved, movedInAll>>

-----------------------------------------------------------------------------
(* One replan: joint positions are read and the cameras rendered; a        *)
(* controller of the script computes its action from the same state.       *)
Observe ==
    /\ phase = "observing"
    /\ asked' = [episode |-> episode, position |-> position]
    /\ IF arm = "oracle"
       THEN phase' = "acting" /\ action' \in Actions
       ELSE phase' = "asking" /\ UNCHANGED action
    /\ UNCHANGED <<script, arm, episode, step, position, ctrl, hold, tally,
                   total, rows, connected, cause, moved, movedInAll>>

(* Rendering, or the controller, raises. *)
ObservingRaises ==
    /\ phase = "observing"
    /\ IF GuardsObservation(script) THEN SafeHold ELSE Abort("observation")

PolicyAnswers ==
    /\ phase = "asking"
    /\ action' \in IF arm = "adapter" THEN AdapterActions ELSE Actions
    /\ tally' = IF CountsAnswers(script) THEN AddCompleted(tally) ELSE tally
    /\ IF script = "collect"
       THEN phase' = "recording" /\ step' = step + 1
       ELSE phase' = "acting" /\ UNCHANGED step
    /\ UNCHANGED <<script, arm, episode, position, asked, ctrl, hold, total,
                   rows, connected, cause, moved, movedInAll>>

(* infer, or the adapter, raises inside the try of every script. *)
PolicyRaises == phase = "asking" /\ SafeHold

(* Mutation of ActingPosition: no reset between two interpretations. *)
MutNoResetBetween == position

(* mismatch tries every interpretation of one answer, each after a reset. *)
ActingPosition == IF script = "mismatch" THEN Home ELSE position

ActionsToExecute ==
    IF script = "mismatch" THEN Interpretations(action) ELSE {action}

(* The bridge accepts the action: the actuators get its targets and the    *)
(* simulation runs for a control period, after which the joints may be     *)
(* anywhere.  ladder leaves its loop when the target is reached, which     *)
(* counts as its last step.                                                *)
Execute ==
    /\ phase = "acting"
    /\ \E a \in ActionsToExecute, reached \in BOOLEAN :
        LET command == PositionCommand(ActingPosition, a)
        IN
        /\ Accepts(ActingPosition, a)
        /\ reached => script = "ladder"
        /\ ctrl' = [set |-> TRUE, at |-> ActingPosition, command |-> command]
        /\ tally' = AddClipped(
                        IF CountsAnswers(script) THEN tally
                                                 ELSE AddCompleted(tally),
                        command.clipped)
        /\ total' = IF script = "stress"
                    THEN AddClipped(AddCompleted(total), command.clipped)
                    ELSE total
        /\ moved' = AddClipped(AddCompleted(moved), command.clipped)
        /\ movedInAll' = AddClipped(AddCompleted(movedInAll), command.clipped)
        /\ phase' = IF reached \/ step + 1 = Steps(script) THEN "recording"
                    ELSE IF script = "mismatch" THEN "acting"
                    ELSE "observing"
        /\ step' = IF reached THEN Steps(script) ELSE step + 1
    /\ position' \in Positions
    /\ UNCHANGED <<script, arm, episode, asked, action, hold, rows, connected,
                   cause>>

(* to_position_command raises ValueError: no actuator was written. *)
BridgeRefuses ==
    /\ phase = "acting"
    /\ \E a \in ActionsToExecute : ~Accepts(ActingPosition, a)
    /\ IF GuardsExecution(script) THEN SafeHold ELSE Abort("bridge")

(* The actuators got their targets, and then the simulation raises, or,    *)
(* once the control period is over, the measure of what it did: the        *)
(* distance in held_out, the progress in mismatch.  Counters stay behind.  *)
MeasuresMovement(s) == s \in {"held_out", "mismatch"}

ExecutionRaises ==
    /\ phase = "acting"
    /\ \E a \in ActionsToExecute, whole \in BOOLEAN :
        LET command == PositionCommand(ActingPosition, a)
            Counted(t) == IF whole THEN AddClipped(AddCompleted(t),
                                                   command.clipped)
                                   ELSE t
        IN
        /\ Accepts(ActingPosition, a)
        /\ whole => MeasuresMovement(script)
        /\ ctrl' = [set |-> TRUE, at |-> ActingPosition, command |-> command]
        /\ moved' = Counted(moved)
        /\ movedInAll' = Counted(movedInAll)
    /\ position' \in Positions
    /\ IF GuardsExecution(script)
       THEN /\ hold' = TRUE
            /\ phase' = "recording"
            /\ UNCHANGED <<connected, cause>>
       ELSE /\ phase' = "raised"
            /\ cause' = "simulation"
            /\ connected' = FALSE
            /\ UNCHANGED hold
    /\ UNCHANGED <<script, arm, episode, step, asked, action, tally, total,
                   rows>>

(* baseline renders and saves a last picture before it adds the row. *)
PictureRaises ==
    /\ phase = "recording"
    /\ script = "baseline"
    /\ Abort("picture")

Record ==
    /\ phase = "recording"
    /\ rows' = Append(rows, [tally |-> tally, moved |-> moved, held |-> hold,
                             whole |-> step = Steps(script)])
    /\ episode' = episode + 1
    /\ phase' = "resetting"
    /\ UNCHANGED <<script, arm, step, position, asked, action, ctrl, hold,
                   tally, total, connected, cause, moved, movedInAll>>

(* KeyboardInterrupt is not an Exception. *)
Interrupted ==
    /\ phase \notin {"reported", "raised"}
    /\ Abort("interrupt")

Next ==
    \/ WarmUp \/ WarmUpRaises
    \/ StartEpisode \/ Finish
    \/ Observe \/ ObservingRaises
    \/ PolicyAnswers \/ PolicyRaises
    \/ Execute \/ ExecutionRaises \/ BridgeRefuses
    \/ PictureRaises \/ Record
    \/ Interrupted

EpisodeSpec == Init /\ [][Next]_episodeVars
-----------------------------------------------------------------------------
Tallies == [completed : Nat, clipped : Nat]

Commands ==
    [targets : [Joints -> Int], gripper : Int, clipped : BOOLEAN]

EpisodeTypeOK ==
    /\ script \in Scripts
    /\ phase \in {"warming", "resetting", "observing", "asking", "acting",
                   "recording", "reported", "raised"}
    /\ arm \in ArmsOf(script)
    /\ episode \in 1..(MaxEpisodes + 1)
    /\ step \in 0..MaxSteps
    /\ position \in Positions
    /\ asked \in [episode : 0..MaxEpisodes, position : Positions]
    /\ action \in AdapterActions
    /\ ctrl \in [set : BOOLEAN, at : Positions, command : Commands]
    /\ hold \in BOOLEAN
    /\ {tally, total, moved, movedInAll} \subseteq Tallies
    /\ rows \in Seq([tally : Tallies, moved : Tallies,
                     held : BOOLEAN, whole : BOOLEAN])
    /\ connected \in BOOLEAN
    /\ cause \in {"none", "interrupt"} \cup Causes

(* What is written to the actuators is safe for the position it was        *)
(* computed for: within the limits of the joints, and no further away than *)
(* one period at the highest velocity (panda_bridge.py:59-72).             *)
ActuatorsAreSafe ==
    ctrl.set => IsSafeCommand(ctrl.command, ctrl.at)

(* The simulation moves the arm only outside a safe hold, for an action    *)
(* asked for in this episode, and from the position the arm had in the     *)
(* observation of that action, also when one answer is executed several    *)
(* times, or breaks off (reach_suite.py:130-155,                           *)
(* mismatch_diagnosis.py:160-188).                                         *)
MovesFromObservedPosition ==
    [][movedInAll' # movedInAll \/ (ctrl'.set /\ position' # position)
            => /\ ~hold
               /\ asked.episode = episode
               /\ ctrl'.set /\ ctrl'.at = asked.position]_episodeVars

(* The counters of the report are those of the simulation: every clipped   *)
(* replan was executed to its end, and every completed one, except that    *)
(* the suite counts an answer whose execution failed, in an episode it     *)
(* shows as held (reach_suite.py:143, 166); the totals of the stress run   *)
(* are those of its traces (stress.py:158-159).  collect executes nothing. *)
CountersTellTheRobot ==
    /\ \A i \in 1..Len(rows) :
        LET row == rows[i] IN
        /\ row.tally.clipped = row.moved.clipped
        /\ row.tally.completed # row.moved.completed
                => /\ CountsAnswers(script)
                   /\ row.tally.completed = row.moved.completed + 1
                   /\ row.held \/ script = "collect"
    /\ script = "stress" => total = movedInAll

(* A report has a row for every episode, each of them carried through or   *)
(* held; and nobody leaves without closing the transport                   *)
(* (reach_suite.py:157-183).                                               *)
ReportIsWhole ==
    /\ phase = "reported"
            => /\ Len(rows) = Episodes(script)
               /\ \A i \in 1..Len(rows) : rows[i].whole \/ rows[i].held
    /\ phase \in {"reported", "raised"} => ~connected

(* docs/INTERVIEW_GUIDE.md:35-36 has the runtime "enter a traceable safe    *)
(* hold on policy or adapter failure", and                                 *)
(* docs/STAGE_18_FROZEN_POLICY_ACTION_ADAPTER.md:27-29 an adapter that     *)
(* "cannot bypass ... safe holds": an action of the adapter that the       *)
(* bridge refuses must not end the evaluation (held_out:116).              *)
RefusedActionIsHeld ==
    (script = "held_out" /\ arm = "adapter") => cause # "bridge"
=============================================================================

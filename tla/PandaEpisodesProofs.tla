------------------------- MODULE PandaEpisodesProofs -------------------------
(***************************************************************************)
(* Proofs about PandaBridge and PandaEpisodes for every number of joints,  *)
(* all limits, and every number of episodes and steps.                     *)
(***************************************************************************)
EXTENDS PandaEpisodes, TLAPS

-----------------------------------------------------------------------------
LEMMA BridgeConstants ==
  /\ NumJoints \in Nat /\ NumJoints > 0
  /\ MaxJointVelocity \in Nat /\ ControlDt \in Nat /\ GripperOpen \in Nat
  /\ OneStep \in Nat
  /\ \A j \in Joints :
        /\ LowerLimit[j] \in Int
        /\ UpperLimit[j] \in Int
        /\ LowerLimit[j] <= UpperLimit[j]
  /\ \A j \in Joints : j \in 1..(NumJoints + 1)
  /\ NumJoints + 1 \in 1..(NumJoints + 1)
  BY BridgeAssumption DEF Joints, OneStep

(* What Limited returns. *)
LEMMA LimitedIsWithin ==
  ASSUME NEW v \in Int, NEW lo \in Int, NEW hi \in Int, lo <= hi
  PROVE  /\ Limited(v, lo, hi) \in lo..hi
         /\ Limited(v, lo, hi) # v => v < lo \/ v > hi
         /\ v >= lo => Limited(v, lo, hi) <= v
         /\ v <= hi => Limited(v, lo, hi) >= v
  BY DEF Limited

LEMMA VelocityIsLimited ==
  ASSUME NEW a \in ActionVectors, NEW j \in Joints
  PROVE  LimitedVelocity(a, j) \in (-MaxJointVelocity)..MaxJointVelocity
  <1>1. a[j] \in Int
    BY BridgeConstants DEF ActionVectors
  <1>2. /\ MaxJointVelocity \in Int /\ -MaxJointVelocity \in Int
        /\ -MaxJointVelocity <= MaxJointVelocity
    BY BridgeConstants
  <1> DEFINE lo == -MaxJointVelocity
  <1>3. Limited(a[j], lo, MaxJointVelocity) \in lo..MaxJointVelocity
    <2> HIDE DEF lo
    <2>1. lo \in Int /\ lo <= MaxJointVelocity
      BY <1>2 DEF lo
    <2> QED
      BY <1>1, <1>2, <2>1, LimitedIsWithin
  <1> QED
    BY <1>3 DEF LimitedVelocity

(* A velocity within its limit moves a joint at most one step. *)
LEMMA StepIsLimited ==
  ASSUME NEW m \in Nat, NEW d \in Nat, NEW v \in (-m)..m
  PROVE  v * d \in Int /\ v * d <= m * d /\ -(m * d) <= v * d
  <1>1. v * d \in Int /\ m * d \in Int /\ (-m) * d \in Int
    OBVIOUS
  <1>2. v * d <= m * d
    <2>1. (m - v) \in Nat
      OBVIOUS
    <2>2. (m - v) * d >= 0
      BY <2>1
    <2>3. (m - v) * d = m * d - v * d
      OBVIOUS
    <2> QED
      BY <2>2, <2>3, <1>1
  <1>3. -(m * d) <= v * d
    <2>1. (m + v) \in Nat
      OBVIOUS
    <2>2. (m + v) * d >= 0
      BY <2>1
    <2>3. (m + v) * d = m * d + v * d
      OBVIOUS
    <2> QED
      BY <2>2, <2>3, <1>1
  <1> QED
    BY <1>1, <1>2, <1>3

LEMMA RawTargetIsNear ==
  ASSUME NEW p \in JointVectors, NEW a \in ActionVectors, NEW j \in Joints
  PROVE  /\ p[j] \in Int
         /\ RawTarget(p, a, j) \in Int
         /\ RawTarget(p, a, j) <= p[j] + OneStep
         /\ p[j] <= RawTarget(p, a, j) + OneStep
  <1>1. p[j] \in Int
    BY DEF JointVectors
  <1>2. PICK v \in (-MaxJointVelocity)..MaxJointVelocity :
            v = LimitedVelocity(a, j)
    BY VelocityIsLimited
  <1>3. /\ v * ControlDt \in Int
        /\ v * ControlDt <= OneStep
        /\ -OneStep <= v * ControlDt
    BY <1>2, StepIsLimited, BridgeConstants DEF OneStep
  <1>4. RawTarget(p, a, j) = p[j] + v * ControlDt
    BY <1>2 DEF RawTarget
  <1> QED
    BY <1>1, <1>3, <1>4, BridgeConstants

(* to_position_command never leaves the limits, whatever the policy, an    *)
(* adapter or a controller asks for (panda_bridge.py:59-72).               *)
THEOREM CommandsAreSafe ==
  ASSUME NEW p \in JointVectors, NEW a \in ActionVectors
  PROVE  /\ IsSafeCommand(PositionCommand(p, a), p)
         /\ PositionCommand(p, a) \in Commands
  <1> DEFINE cmd == PositionCommand(p, a)
  <1>1. ASSUME NEW j \in Joints
        PROVE  /\ cmd.targets[j] \in Int
               /\ cmd.targets[j] \in LowerLimit[j]..UpperLimit[j]
               /\ WithinLimits(p, j)
                    => /\ cmd.targets[j] <= p[j] + OneStep
                       /\ p[j] <= cmd.targets[j] + OneStep
    <2>1. cmd.targets[j] = Limited(RawTarget(p, a, j), LowerLimit[j],
                                   UpperLimit[j])
      BY DEF PositionCommand, Target
    <2>2. cmd.targets[j] \in LowerLimit[j]..UpperLimit[j]
      <3>1. /\ RawTarget(p, a, j) \in Int
            /\ LowerLimit[j] \in Int /\ UpperLimit[j] \in Int
            /\ LowerLimit[j] <= UpperLimit[j]
        BY RawTargetIsNear, BridgeConstants
      <3>2. Limited(RawTarget(p, a, j), LowerLimit[j], UpperLimit[j])
                \in LowerLimit[j]..UpperLimit[j]
        BY <3>1, LimitedIsWithin
      <3> QED
        BY <2>1, <3>2
    <2>3. WithinLimits(p, j)
            => /\ cmd.targets[j] <= p[j] + OneStep
               /\ p[j] <= cmd.targets[j] + OneStep
      <3> HIDE DEF cmd
      <3> QED
        BY <2>1, <2>2, RawTargetIsNear, BridgeConstants
           DEF WithinLimits, Limited
    <2> QED
      BY <2>2, <2>3, BridgeConstants
  <1>2. cmd.gripper \in 0..GripperOpen
    <2>1. a[NumJoints + 1] \in Int
      BY BridgeConstants DEF ActionVectors
    <2>2. GripperOpen \in Int /\ 0 <= GripperOpen
      BY BridgeConstants
    <2>3. Limited(a[NumJoints + 1], 0, GripperOpen) \in 0..GripperOpen
      BY <2>1, <2>2 DEF Limited
    <2> QED
      BY <2>3 DEF PositionCommand, Gripper
  <1>3. IsSafeCommand(cmd, p)
    BY <1>1, <1>2 DEF IsSafeCommand
  <1>4. cmd \in Commands
    <2>1. cmd.targets \in [Joints -> Int]
      BY <1>1 DEF PositionCommand
    <2>2. cmd.gripper \in Int
      BY <1>2, BridgeConstants
    <2>3. cmd.clipped \in BOOLEAN
      BY DEF PositionCommand, Clipped
    <2> QED
      BY <2>1, <2>2, <2>3 DEF Commands, PositionCommand
  <1> QED
    BY <1>3, <1>4

(* A command that is not marked as clipped does what the action says       *)
(* (panda_bridge.py:67-71).                                                *)
THEOREM UnclippedIsExact ==
  ASSUME NEW p \in JointVectors, NEW a \in ActionVectors,
         ~PositionCommand(p, a).clipped
  PROVE  /\ \A j \in Joints : PositionCommand(p, a).targets[j]
                                = p[j] + a[j] * ControlDt
         /\ PositionCommand(p, a).gripper = a[NumJoints + 1]
  BY DEF PositionCommand, Clipped, RawTarget

-----------------------------------------------------------------------------
(* What the bridge executes is finite. *)
LEMMA ExecutedIsFinite ==
  ASSUME EpisodeTypeOK, script # "held_out" => action \in Actions,
         NEW a \in ActionsToExecute, Accepts(ActingPosition, a)
  PROVE  /\ a \in ActionVectors
         /\ ActingPosition \in JointVectors
         /\ ActingPosition \in Positions
  <1>1. ActingPosition \in Positions
    BY EpisodeAssumption DEF EpisodeTypeOK, ActingPosition
  <1>2. ActingPosition \in [Joints -> Int \cup {NotFinite}]
    BY <1>1, EpisodeAssumption
  <1>3. ActingPosition \in JointVectors
    BY <1>2 DEF JointVectors, Accepts
  <1>4. a \in ActionVectors
    <2>1. CASE script = "mismatch"
      <3>1. action \in ActionVectors
        BY <2>1, EpisodeAssumption
      <3>2. \A i \in 1..(NumJoints + 1) :
                /\ action[i] \in Int
                /\ -action[i] \in Int
                /\ action[i] \div 4 \in Int
        BY <3>1 DEF ActionVectors
      <3>3. \/ a = action
            \/ a = [i \in 1..(NumJoints + 1) |->
                        IF i \in Joints THEN -action[i] ELSE action[i]]
            \/ a = [i \in 1..(NumJoints + 1) |->
                        IF i \in Joints THEN action[i] \div 4 ELSE action[i]]
        BY <2>1 DEF ActionsToExecute, Interpretations
      <3> QED
        BY <3>1, <3>2, <3>3 DEF ActionVectors
    <2>2. CASE script # "mismatch"
      <3>1. a \in AdapterActions
        BY <2>2 DEF ActionsToExecute, EpisodeTypeOK
      <3>2. 1 \in 1..(NumJoints + 1) /\ a[1] # NotFinite
        BY BridgeConstants DEF Accepts
      <3>3. ASSUME NEW b \in Actions, a = [b EXCEPT ![1] = NotFinite]
            PROVE  FALSE
        <4>1. b \in [1..(NumJoints + 1) -> Int]
          BY EpisodeAssumption DEF ActionVectors
        <4> QED
          BY <3>2, <3>3, <4>1
      <3> QED
        BY <3>1, <3>3, EpisodeAssumption DEF AdapterActions
    <2> QED
      BY <2>1, <2>2
  <1> QED
    BY <1>1, <1>3, <1>4

LEMMA TalliesGrow ==
  /\ Zero \in Tallies
  /\ \A t \in Tallies : AddCompleted(t) \in Tallies
  /\ \A t \in Tallies, b \in BOOLEAN : AddClipped(t, b) \in Tallies
  BY DEF Zero, Tallies, AddCompleted, AddClipped

LEMMA ScriptBounds ==
  ASSUME NEW s \in Scripts
  PROVE  /\ Episodes(s) \in 1..MaxEpisodes
         /\ Steps(s) \in 1..MaxSteps
         /\ ArmsOf(s) \subseteq Arms
         /\ s # "held_out" => "adapter" \notin ArmsOf(s)
  <1>1. MaxEpisodes \in Nat /\ MaxEpisodes > 0 /\ MaxSteps \in Nat /\ MaxSteps > 0
    BY EpisodeAssumption
  <1>2. Episodes(s) \in 1..MaxEpisodes /\ Steps(s) \in 1..MaxSteps
    BY <1>1 DEF Episodes, Steps
  <1>3. s = "held_out" \/ s # "held_out"
    OBVIOUS
  <1> QED
    BY <1>2 DEF ArmsOf, Arms

-----------------------------------------------------------------------------
(* Where the loops stand in each phase. *)
LoopsInStep ==
    /\ phase \in {"observing", "asking", "acting"}
            => ~hold /\ step < Steps(script)
    /\ phase \in {"observing", "asking", "acting", "recording"}
            => episode <= Episodes(script)
    /\ phase = "resetting" => episode <= Episodes(script) + 1
    /\ phase = "warming" => episode = 1
    /\ phase = "recording" => hold \/ step = Steps(script)
    /\ script # "held_out" => action \in Actions

(* The action at hand was asked for at the position it is executed from. *)
AskedInStep ==
    /\ phase \in {"asking", "acting"}
            => asked.episode = episode /\ asked.position = ActingPosition
    /\ script = "mismatch" /\ phase = "observing" => position = Home

(* What the counters of the episode are ahead of the simulation. *)
TallyInStep ==
    /\ phase \in {"observing", "asking", "acting", "recording"}
            => /\ tally.clipped = moved.clipped
               /\ ~CountsAnswers(script) => tally.completed = moved.completed
    /\ CountsAnswers(script) =>
        /\ phase \in {"observing", "asking"}
                => tally.completed = moved.completed
        /\ phase = "acting"
                => /\ tally.completed = moved.completed + 1
                   /\ script # "collect"
        /\ phase = "recording"
                => \/ tally.completed = moved.completed
                   \/ /\ tally.completed = moved.completed + 1
                      /\ hold \/ script = "collect"

(* The report so far, and the transport. *)
ReportSoFar ==
    /\ Len(rows) = episode - 1
    /\ \A i \in 1..Len(rows) : rows[i].whole \/ rows[i].held
    /\ phase = "reported" => episode = Episodes(script) + 1
    /\ phase \in {"reported", "raised"} => ~connected

-----------------------------------------------------------------------------
LoopInv == EpisodeTypeOK /\ LoopsInStep

LEMMA LoopNumbers ==
  ASSUME EpisodeTypeOK
  PROVE  /\ script \in Scripts
         /\ Episodes(script) \in Nat /\ Episodes(script) >= 1
         /\ Episodes(script) <= MaxEpisodes
         /\ Steps(script) \in Nat /\ Steps(script) >= 1
         /\ Steps(script) <= MaxSteps
         /\ MaxEpisodes \in Nat /\ MaxSteps \in Nat
         /\ episode \in Nat /\ episode >= 1 /\ episode <= MaxEpisodes + 1
         /\ step \in Nat /\ step <= MaxSteps
         /\ tally \in Tallies /\ total \in Tallies
         /\ moved \in Tallies /\ movedInAll \in Tallies
  <1>1. script \in Scripts
    BY DEF EpisodeTypeOK
  <1>2. MaxEpisodes \in Nat /\ MaxSteps \in Nat
    BY EpisodeAssumption
  <1>3. Episodes(script) \in 1..MaxEpisodes /\ Steps(script) \in 1..MaxSteps
    BY <1>1, ScriptBounds
  <1>4. episode \in 1..(MaxEpisodes + 1) /\ step \in 0..MaxSteps
    BY DEF EpisodeTypeOK
  <1>5. {tally, total, moved, movedInAll} \subseteq Tallies
    BY DEF EpisodeTypeOK
  <1> QED
    BY <1>1, <1>2, <1>3, <1>4, <1>5

LEMMA HomeIsTyped ==
  /\ Home \in Positions
  /\ AtHome \in [set : BOOLEAN, at : Positions, command : Commands]
  /\ \A a \in Actions : a \in AdapterActions
  <1>1. Home \in Positions /\ Home \in [Joints -> Int]
    BY EpisodeAssumption DEF JointVectors
  <1> QED
    BY <1>1 DEF AtHome, Commands, AdapterActions

LEMMA InitLoopInv == Init => LoopInv
  <1> SUFFICES ASSUME Init PROVE LoopInv
    OBVIOUS
  <1>1. script \in Scripts /\ arm \in ArmsOf(script)
    BY DEF Init
  <1>2. Episodes(script) \in 1..MaxEpisodes /\ Steps(script) \in 1..MaxSteps
    BY <1>1, ScriptBounds
  <1>3. MaxEpisodes \in Nat /\ MaxEpisodes > 0 /\ MaxSteps \in Nat /\ MaxSteps > 0
    BY EpisodeAssumption
  <1>4. /\ phase \in {"warming", "resetting"}
        /\ episode = 1 /\ step = 0 /\ position = Home
        /\ asked = [episode |-> 0, position |-> Home]
        /\ action \in Actions
        /\ ctrl = AtHome /\ hold = FALSE
        /\ tally = Zero /\ total = Zero /\ moved = Zero /\ movedInAll = Zero
        /\ rows = <<>> /\ connected \in BOOLEAN /\ cause = "none"
    BY DEF Init, HasPolicy
  <1>5. EpisodeTypeOK
    <2>1. /\ episode \in 1..(MaxEpisodes + 1) /\ step \in 0..MaxSteps
          /\ 0 \in 0..MaxEpisodes
      BY <1>3, <1>4
    <2>2. asked \in [episode : 0..MaxEpisodes, position : Positions]
      BY <1>4, <2>1, HomeIsTyped
    <2>3. rows \in Seq([tally : Tallies, moved : Tallies,
                        held : BOOLEAN, whole : BOOLEAN])
      BY <1>4
    <2>4. /\ position \in Positions /\ action \in AdapterActions
          /\ ctrl \in [set : BOOLEAN, at : Positions, command : Commands]
          /\ {tally, total, moved, movedInAll} \subseteq Tallies
      BY <1>4, HomeIsTyped, TalliesGrow
    <2> QED
      BY <1>1, <1>4, <2>1, <2>2, <2>3, <2>4 DEF EpisodeTypeOK
  <1>6. LoopsInStep
    BY <1>2, <1>3, <1>4 DEF LoopsInStep
  <1> QED
    BY <1>5, <1>6 DEF LoopInv

(* The two ends of an episode or a script that most actions share. *)
LEMMA SafeHoldKeepsLoopInv ==
  ASSUME LoopInv, SafeHold,
         phase \in {"observing", "asking", "acting"}
  PROVE  LoopInv'
  <1>1. EpisodeTypeOK'
    BY DEF LoopInv, EpisodeTypeOK, SafeHold
  <1>2. LoopsInStep'
    BY DEF LoopInv, LoopsInStep, SafeHold
  <1> QED
    BY <1>1, <1>2 DEF LoopInv

LEMMA AbortKeepsLoopInv ==
  ASSUME LoopInv,
         NEW why \in Causes \cup {"interrupt"},
         Abort(why)
  PROVE  LoopInv'
  <1>1. EpisodeTypeOK'
    BY DEF LoopInv, EpisodeTypeOK, Abort, Causes
  <1>2. LoopsInStep'
    BY DEF LoopInv, LoopsInStep, Abort
  <1> QED
    BY <1>1, <1>2 DEF LoopInv

LEMMA StartKeepsLoopInv ==
  ASSUME LoopInv, StartEpisode
  PROVE  LoopInv'
  <1> USE DEF LoopInv
  <1>1. position' \in Positions
    BY HomeIsTyped DEF StartEpisode
  <1>2. /\ arm' \in ArmsOf(script') /\ step' = 0 /\ step' \in 0..MaxSteps
        /\ ctrl' = AtHome /\ tally' = Zero /\ moved' = Zero
        /\ phase' = "observing" /\ hold' = FALSE
        /\ UNCHANGED <<script, episode, asked, action, total, rows,
                       connected, cause, movedInAll>>
        /\ episode <= Episodes(script)
    BY LoopNumbers DEF StartEpisode, FreshTally
  <1>3. EpisodeTypeOK'
    BY <1>1, <1>2, HomeIsTyped, TalliesGrow DEF EpisodeTypeOK
  <1>4. LoopsInStep'
    <2>1. 0 < Steps(script)
      BY LoopNumbers
    <2> QED
      BY <1>2, <2>1 DEF LoopsInStep
  <1> QED
    BY <1>3, <1>4

LEMMA ObserveKeepsLoopInv ==
  ASSUME LoopInv, Observe
  PROVE  LoopInv'
  <1> USE DEF LoopInv
  <1>1. /\ asked' = [episode |-> episode, position |-> position]
        /\ phase' \in {"asking", "acting"} /\ phase = "observing"
        /\ action' = action \/ action' \in Actions
        /\ UNCHANGED <<script, arm, episode, step, position, ctrl, hold,
                       tally, total, rows, connected, cause, moved,
                       movedInAll>>
    BY DEF Observe
  <1>2. episode \in 0..MaxEpisodes
    BY <1>1, LoopNumbers DEF LoopsInStep
  <1>3. EpisodeTypeOK'
    BY <1>1, <1>2, HomeIsTyped DEF EpisodeTypeOK
  <1>4. LoopsInStep'
    BY <1>1 DEF LoopsInStep
  <1> QED
    BY <1>3, <1>4

LEMMA AnswerKeepsLoopInv ==
  ASSUME LoopInv, PolicyAnswers
  PROVE  LoopInv'
  <1> USE DEF LoopInv
  <1>1. /\ phase = "asking"
        /\ action' \in AdapterActions
        /\ arm # "adapter" => action' \in Actions
        /\ tally' \in Tallies
        /\ \/ /\ script = "collect" /\ phase' = "recording"
              /\ step' = step + 1
           \/ phase' = "acting" /\ step' = step
        /\ UNCHANGED <<script, arm, episode, position, asked, ctrl, hold,
                       total, rows, connected, cause, moved, movedInAll>>
    BY LoopNumbers, HomeIsTyped, TalliesGrow DEF PolicyAnswers
  <1>2. script # "held_out" => action' \in Actions
    BY <1>1, ScriptBounds DEF EpisodeTypeOK
  <1>3. step < Steps(script)
    BY <1>1 DEF LoopsInStep
  <1>4. step' \in 0..MaxSteps
    BY <1>1, <1>3, LoopNumbers
  <1>5. EpisodeTypeOK'
    BY <1>1, <1>4 DEF EpisodeTypeOK
  <1>6. LoopsInStep'
    <2>1. script = "collect" => Steps(script) = 1
      BY DEF Steps
    <2>2. script = "collect" => step + 1 = Steps(script)
      BY <1>3, <2>1, LoopNumbers
    <2> QED
      BY <1>1, <1>2, <1>3, <2>2 DEF LoopsInStep
  <1> QED
    BY <1>5, <1>6

(* What Execute does, with the action it executes. *)
LEMMA ExecuteDoes ==
  ASSUME LoopInv, Execute
  PROVE  \E a \in ActionVectors, reached \in BOOLEAN :
           LET command == PositionCommand(ActingPosition, a)
           IN
           /\ a \in ActionVectors /\ ActingPosition \in JointVectors
           /\ ActingPosition \in Positions
           /\ ctrl' = [set |-> TRUE, at |-> ActingPosition,
                       command |-> command]
           /\ command.clipped \in BOOLEAN
           /\ tally' = AddClipped(
                        IF CountsAnswers(script) THEN tally
                                                 ELSE AddCompleted(tally),
                        command.clipped)
           /\ total' = IF script = "stress"
                       THEN AddClipped(AddCompleted(total), command.clipped)
                       ELSE total
           /\ moved' = AddClipped(AddCompleted(moved), command.clipped)
           /\ movedInAll' =
                AddClipped(AddCompleted(movedInAll), command.clipped)
           /\ phase' = IF reached \/ step + 1 = Steps(script)
                       THEN "recording"
                       ELSE IF script = "mismatch" THEN "acting"
                       ELSE "observing"
           /\ step' = IF reached THEN Steps(script) ELSE step + 1
  <1>1. EpisodeTypeOK /\ (script # "held_out" => action \in Actions)
    BY DEF LoopInv, LoopsInStep
  <1>2. PICK a \in ActionsToExecute, reached \in BOOLEAN :
        LET command == PositionCommand(ActingPosition, a)
        IN
        /\ Accepts(ActingPosition, a)
        /\ reached => script = "ladder"
        /\ ctrl' = [set |-> TRUE, at |-> ActingPosition, command |-> command]
        /\ tally' = AddClipped(
                        IF CountsAnswers(script) THEN tally
                                                 ELSE AddCompleted(tally),
                        command.clipped)
        /\ total' = IF script = "stress"
                    THEN AddClipped(AddCompleted(total), command.clipped)
                    ELSE total
        /\ moved' = AddClipped(AddCompleted(moved), command.clipped)
        /\ movedInAll' = AddClipped(AddCompleted(movedInAll), command.clipped)
        /\ phase' = IF reached \/ step + 1 = Steps(script) THEN "recording"
                    ELSE IF script = "mismatch" THEN "acting"
                    ELSE "observing"
        /\ step' = IF reached THEN Steps(script) ELSE step + 1
    BY DEF Execute
  <1>3. /\ a \in ActionVectors /\ ActingPosition \in JointVectors
        /\ ActingPosition \in Positions
    BY <1>1, <1>2, ExecutedIsFinite
  <1>4. PositionCommand(ActingPosition, a).clipped \in BOOLEAN
    BY DEF PositionCommand, Clipped
  <1> QED
    BY <1>2, <1>3, <1>4

LEMMA ExecuteKeepsLoopInv ==
  ASSUME LoopInv, Execute
  PROVE  LoopInv'
  <1> USE DEF LoopInv
  <1>1. /\ phase = "acting" /\ position' \in Positions
        /\ UNCHANGED <<script, arm, episode, asked, action, hold, rows,
                       connected, cause>>
    BY DEF Execute
  <1>2. step < Steps(script) /\ ~hold
    BY <1>1 DEF LoopsInStep
  <1>3. PICK a \in ActionVectors, reached \in BOOLEAN :
           LET command == PositionCommand(ActingPosition, a)
           IN
           /\ ActingPosition \in JointVectors
           /\ ActingPosition \in Positions
           /\ ctrl' = [set |-> TRUE, at |-> ActingPosition,
                       command |-> command]
           /\ command.clipped \in BOOLEAN
           /\ tally' = AddClipped(
                        IF CountsAnswers(script) THEN tally
                                                 ELSE AddCompleted(tally),
                        command.clipped)
           /\ total' = IF script = "stress"
                       THEN AddClipped(AddCompleted(total), command.clipped)
                       ELSE total
           /\ moved' = AddClipped(AddCompleted(moved), command.clipped)
           /\ movedInAll' =
                AddClipped(AddCompleted(movedInAll), command.clipped)
           /\ phase' = IF reached \/ step + 1 = Steps(script)
                       THEN "recording"
                       ELSE IF script = "mismatch" THEN "acting"
                       ELSE "observing"
           /\ step' = IF reached THEN Steps(script) ELSE step + 1
    BY ExecuteDoes
  <1>4. ctrl' \in [set : BOOLEAN, at : Positions, command : Commands]
    BY <1>3, CommandsAreSafe
  <1>5. {tally', total', moved', movedInAll'} \subseteq Tallies
    BY <1>3, LoopNumbers, TalliesGrow
  <1>6. step' \in 0..MaxSteps
    BY <1>2, <1>3, LoopNumbers
  <1>7. EpisodeTypeOK'
    BY <1>1, <1>3, <1>4, <1>5, <1>6 DEF EpisodeTypeOK
  <1>8. LoopsInStep'
    <2>1. \/ phase' = "recording" /\ step' = Steps(script)
          \/ phase' \in {"acting", "observing"} /\ step' < Steps(script)
      BY <1>2, <1>3, LoopNumbers
    <2> QED
      BY <1>1, <1>2, <2>1 DEF LoopsInStep
  <1> QED
    BY <1>7, <1>8

(* What an execution does that breaks off. *)
LEMMA ExecutionRaisesDoes ==
  ASSUME LoopInv, ExecutionRaises
  PROVE  \E a \in ActionVectors, whole \in BOOLEAN :
           LET command == PositionCommand(ActingPosition, a)
           IN
           /\ ActingPosition \in JointVectors
           /\ ActingPosition \in Positions
           /\ ctrl' = [set |-> TRUE, at |-> ActingPosition,
                       command |-> command]
           /\ command.clipped \in BOOLEAN
           /\ whole => MeasuresMovement(script)
           /\ moved' = IF whole
                       THEN AddClipped(AddCompleted(moved), command.clipped)
                       ELSE moved
           /\ movedInAll' =
                IF whole
                THEN AddClipped(AddCompleted(movedInAll), command.clipped)
                ELSE movedInAll
  <1>1. EpisodeTypeOK /\ (script # "held_out" => action \in Actions)
    BY DEF LoopInv, LoopsInStep
  <1>2. PICK a \in ActionsToExecute, whole \in BOOLEAN :
        LET command == PositionCommand(ActingPosition, a)
        IN
        /\ Accepts(ActingPosition, a)
        /\ whole => MeasuresMovement(script)
        /\ ctrl' = [set |-> TRUE, at |-> ActingPosition, command |-> command]
        /\ moved' = IF whole
                    THEN AddClipped(AddCompleted(moved), command.clipped)
                    ELSE moved
        /\ movedInAll' =
                IF whole
                THEN AddClipped(AddCompleted(movedInAll), command.clipped)
                ELSE movedInAll
    BY DEF ExecutionRaises
  <1>3. /\ a \in ActionVectors /\ ActingPosition \in JointVectors
        /\ ActingPosition \in Positions
    BY <1>1, <1>2, ExecutedIsFinite
  <1>4. PositionCommand(ActingPosition, a).clipped \in BOOLEAN
    BY DEF PositionCommand, Clipped
  <1> QED
    BY <1>2, <1>3, <1>4

LEMMA ExecutionRaisesKeepsLoopInv ==
  ASSUME LoopInv, ExecutionRaises
  PROVE  LoopInv'
  <1> USE DEF LoopInv
  <1>1. /\ phase = "acting" /\ position' \in Positions
        /\ hold' \in BOOLEAN /\ connected' \in BOOLEAN
        /\ cause' \in {"none", "interrupt"} \cup Causes
        /\ (phase' = "recording" /\ hold') \/ phase' = "raised"
        /\ UNCHANGED <<script, arm, episode, step, asked, action, tally,
                       total, rows>>
    BY DEF ExecutionRaises, EpisodeTypeOK, Causes
  <1>2. PICK a \in ActionVectors, whole \in BOOLEAN :
           LET command == PositionCommand(ActingPosition, a)
           IN
           /\ ActingPosition \in JointVectors
           /\ ActingPosition \in Positions
           /\ ctrl' = [set |-> TRUE, at |-> ActingPosition,
                       command |-> command]
           /\ command.clipped \in BOOLEAN
           /\ moved' = IF whole
                       THEN AddClipped(AddCompleted(moved), command.clipped)
                       ELSE moved
           /\ movedInAll' =
                IF whole
                THEN AddClipped(AddCompleted(movedInAll), command.clipped)
                ELSE movedInAll
    BY ExecutionRaisesDoes
  <1>3. ctrl' \in [set : BOOLEAN, at : Positions, command : Commands]
    BY <1>2, CommandsAreSafe
  <1>4. {tally', total', moved', movedInAll'} \subseteq Tallies
    BY <1>1, <1>2, LoopNumbers, TalliesGrow
  <1>5. EpisodeTypeOK'
    BY <1>1, <1>3, <1>4 DEF EpisodeTypeOK
  <1>6. LoopsInStep'
    BY <1>1 DEF LoopsInStep
  <1> QED
    BY <1>5, <1>6

LEMMA RecordKeepsLoopInv ==
  ASSUME LoopInv, Record
  PROVE  LoopInv'
  <1> USE DEF LoopInv
  <1>1. /\ phase = "recording" /\ phase' = "resetting"
        /\ episode' = episode + 1 /\ episode <= Episodes(script)
        /\ rows' = Append(rows, [tally |-> tally, moved |-> moved,
                                 held |-> hold,
                                 whole |-> step = Steps(script)])
        /\ UNCHANGED <<script, arm, step, position, asked, action, ctrl,
                       hold, tally, total, connected, cause, moved,
                       movedInAll>>
    BY DEF Record, LoopsInStep
  <1>2. episode' \in 1..(MaxEpisodes + 1)
    BY <1>1, LoopNumbers
  <1>3. rows' \in Seq([tally : Tallies, moved : Tallies,
                       held : BOOLEAN, whole : BOOLEAN])
    <2>1. [tally |-> tally, moved |-> moved, held |-> hold,
           whole |-> step = Steps(script)]
            \in [tally : Tallies, moved : Tallies,
                 held : BOOLEAN, whole : BOOLEAN]
      BY LoopNumbers DEF EpisodeTypeOK
    <2>2. rows \in Seq([tally : Tallies, moved : Tallies,
                        held : BOOLEAN, whole : BOOLEAN])
      BY DEF EpisodeTypeOK
    <2> QED
      BY <1>1, <2>1, <2>2
  <1>4. EpisodeTypeOK'
    BY <1>1, <1>2, <1>3 DEF EpisodeTypeOK
  <1>5. LoopsInStep'
    BY <1>1, LoopNumbers DEF LoopsInStep
  <1> QED
    BY <1>4, <1>5

LEMMA StepLoopInv == LoopInv /\ [Next]_episodeVars => LoopInv'
  <1> SUFFICES ASSUME LoopInv, [Next]_episodeVars PROVE LoopInv'
    OBVIOUS
  <1>1. CASE WarmUp
    <2>1. EpisodeTypeOK'
      BY <1>1 DEF LoopInv, EpisodeTypeOK, WarmUp
    <2>2. LoopsInStep'
      BY <1>1, LoopNumbers DEF LoopInv, LoopsInStep, WarmUp
    <2> QED
      BY <2>1, <2>2 DEF LoopInv
  <1>2. CASE WarmUpRaises
    BY <1>2, AbortKeepsLoopInv DEF WarmUpRaises, Causes
  <1>3. CASE StartEpisode
    BY <1>3, StartKeepsLoopInv
  <1>4. CASE Finish
    <2>1. EpisodeTypeOK'
      BY <1>4 DEF LoopInv, EpisodeTypeOK, Finish
    <2>2. LoopsInStep'
      BY <1>4 DEF LoopInv, LoopsInStep, Finish
    <2> QED
      BY <2>1, <2>2 DEF LoopInv
  <1>5. CASE Observe
    BY <1>5, ObserveKeepsLoopInv
  <1>6. CASE ObservingRaises
    BY <1>6, SafeHoldKeepsLoopInv, AbortKeepsLoopInv
       DEF ObservingRaises, Causes
  <1>7. CASE PolicyAnswers
    BY <1>7, AnswerKeepsLoopInv
  <1>8. CASE PolicyRaises
    BY <1>8, SafeHoldKeepsLoopInv DEF PolicyRaises
  <1>9. CASE Execute
    BY <1>9, ExecuteKeepsLoopInv
  <1>10. CASE BridgeRefuses
    BY <1>10, SafeHoldKeepsLoopInv, AbortKeepsLoopInv
       DEF BridgeRefuses, Causes
  <1>11. CASE Record
    BY <1>11, RecordKeepsLoopInv
  <1>12. CASE Interrupted
    BY <1>12, AbortKeepsLoopInv DEF Interrupted
  <1>13. CASE ExecutionRaises
    BY <1>13, ExecutionRaisesKeepsLoopInv
  <1>14. CASE PictureRaises
    BY <1>14, AbortKeepsLoopInv DEF PictureRaises, Causes
  <1>15. CASE UNCHANGED episodeVars
    <2>1. EpisodeTypeOK'
      BY <1>15 DEF LoopInv, EpisodeTypeOK, episodeVars
    <2>2. LoopsInStep'
      BY <1>15 DEF LoopInv, LoopsInStep, episodeVars
    <2> QED
      BY <2>1, <2>2 DEF LoopInv
  <1> QED
    BY <1>1, <1>2, <1>3, <1>4, <1>5, <1>6, <1>7, <1>8, <1>9, <1>10, <1>11,
       <1>12, <1>13, <1>14, <1>15 DEF Next

(* The types and the loop counters of every script. *)
THEOREM EpisodeTypeCorrect == EpisodeSpec => []EpisodeTypeOK
  <1>1. LoopInv => EpisodeTypeOK
    BY DEF LoopInv
  <1> QED
    BY <1>1, InitLoopInv, StepLoopInv, PTL DEF EpisodeSpec

LEMMA LoopInvHolds == EpisodeSpec => []LoopInv
  BY InitLoopInv, StepLoopInv, PTL DEF EpisodeSpec

-----------------------------------------------------------------------------
LEMMA StepActuators ==
  LoopInv /\ ActuatorsAreSafe /\ [Next]_episodeVars => ActuatorsAreSafe'
  <1> SUFFICES ASSUME LoopInv, ActuatorsAreSafe, [Next]_episodeVars
               PROVE  ActuatorsAreSafe'
    OBVIOUS
  <1>1. CASE Execute \/ ExecutionRaises
    <2>1. PICK a \in ActionVectors :
            /\ ActingPosition \in JointVectors
            /\ ctrl' = [set |-> TRUE, at |-> ActingPosition,
                        command |-> PositionCommand(ActingPosition, a)]
      BY <1>1, ExecuteDoes, ExecutionRaisesDoes
    <2>2. IsSafeCommand(PositionCommand(ActingPosition, a), ActingPosition)
      BY <2>1, CommandsAreSafe
    <2> QED
      BY <2>1, <2>2 DEF ActuatorsAreSafe
  <1>2. CASE StartEpisode
    BY <1>2 DEF StartEpisode, ActuatorsAreSafe, AtHome
  <1>3. ASSUME UNCHANGED ctrl PROVE ActuatorsAreSafe'
    BY <1>3 DEF ActuatorsAreSafe
  <1> QED
    BY <1>1, <1>2, <1>3
       DEF Next, episodeVars, WarmUp, WarmUpRaises, Finish, Observe,
           ObservingRaises, PolicyAnswers, PolicyRaises, BridgeRefuses,
           PictureRaises, Record, Interrupted, SafeHold, Abort

(* Whatever script runs and whatever it is answered, the actuators only    *)
(* get targets within the limits and within one step (panda_bridge.py).    *)
THEOREM ActuatorsAreAlwaysSafe == EpisodeSpec => []ActuatorsAreSafe
  <1>1. Init => ActuatorsAreSafe
    BY DEF Init, ActuatorsAreSafe, AtHome
  <1> QED
    BY <1>1, LoopInvHolds, StepActuators, PTL DEF EpisodeSpec

-----------------------------------------------------------------------------
LEMMA StepAsked ==
  LoopInv /\ AskedInStep /\ [Next]_episodeVars => AskedInStep'
  <1> SUFFICES ASSUME LoopInv, AskedInStep, [Next]_episodeVars
               PROVE  AskedInStep'
    OBVIOUS
  <1> USE DEF AskedInStep, ActingPosition
  <1>1. CASE WarmUp \/ Finish \/ Record
    BY <1>1 DEF WarmUp, Finish, Record
  <1>2. CASE StartEpisode
    BY <1>2 DEF StartEpisode
  <1>3. CASE Observe
    BY <1>3 DEF Observe
  <1>4. CASE PolicyAnswers
    BY <1>4 DEF PolicyAnswers
  <1>5. CASE Execute
    <2>1. /\ phase = "acting"
          /\ phase' \in {"recording", "acting", "observing"}
          /\ phase' = "acting" => script = "mismatch"
          /\ phase' = "observing" => script # "mismatch"
          /\ UNCHANGED <<script, episode, asked>>
      BY <1>5 DEF Execute
    <2> QED
      BY <2>1
  <1>6. CASE SafeHold
    BY <1>6 DEF SafeHold
  <1>7. ASSUME NEW why \in Causes \cup {"interrupt"},
               Abort(why)
        PROVE  AskedInStep'
    BY <1>7 DEF Abort
  <1>8. CASE ExecutionRaises
    <2>1. phase' \in {"recording", "raised"}
      BY <1>8 DEF ExecutionRaises
    <2> QED
      BY <2>1
  <1>9. CASE UNCHANGED episodeVars
    BY <1>9 DEF episodeVars
  <1> QED
    BY <1>1, <1>2, <1>3, <1>4, <1>5, <1>6, <1>7, <1>8, <1>9
       DEF Next, WarmUpRaises, ObservingRaises, PolicyRaises, BridgeRefuses,
           PictureRaises, Interrupted, Causes

(* A move is for an action of this episode, from the position it was asked *)
(* for, and never after a safe hold.                                       *)
THEOREM MovesAreFromObservedPosition == EpisodeSpec => MovesFromObservedPosition
  <1>1. Init => AskedInStep
    BY DEF Init, AskedInStep
  <1>2. LoopInv /\ AskedInStep /\ [Next]_episodeVars
          => [movedInAll' # movedInAll \/ (ctrl'.set /\ position' # position)
                => /\ ~hold
                   /\ asked.episode = episode
                   /\ ctrl'.set /\ ctrl'.at = asked.position]_episodeVars
    <2> SUFFICES ASSUME LoopInv, AskedInStep, Next,
                        \/ movedInAll' # movedInAll
                        \/ ctrl'.set /\ position' # position
                 PROVE  /\ ~hold
                        /\ asked.episode = episode
                        /\ ctrl'.set /\ ctrl'.at = asked.position
      OBVIOUS
    <2>1. Execute \/ ExecutionRaises
      BY DEF AtHome, Next, WarmUp, WarmUpRaises, StartEpisode, Finish, Observe,
             ObservingRaises, PolicyAnswers, PolicyRaises, BridgeRefuses,
             PictureRaises, Record, Interrupted, SafeHold, Abort
    <2>2. phase = "acting"
      BY <2>1 DEF Execute, ExecutionRaises
    <2>3. PICK a \in ActionVectors :
            ctrl' = [set |-> TRUE, at |-> ActingPosition,
                     command |-> PositionCommand(ActingPosition, a)]
      BY <2>1, ExecuteDoes, ExecutionRaisesDoes
    <2> QED
      BY <2>2, <2>3 DEF LoopInv, LoopsInStep, AskedInStep
  <1> QED
    BY <1>1, <1>2, StepAsked, LoopInvHolds, PTL
       DEF EpisodeSpec, MovesFromObservedPosition

-----------------------------------------------------------------------------
CountInv == TallyInStep /\ CountersTellTheRobot

LEMMA TallyFields ==
  ASSUME NEW t \in Tallies
  PROVE  /\ t.completed \in Nat /\ t.clipped \in Nat
         /\ AddCompleted(t).completed = t.completed + 1
         /\ AddCompleted(t).clipped = t.clipped
         /\ \A b \in BOOLEAN :
                /\ AddClipped(t, b).completed = t.completed
                /\ AddClipped(t, b).clipped
                        = IF b THEN t.clipped + 1 ELSE t.clipped
  BY DEF Tallies, AddCompleted, AddClipped

LEMMA StepCount ==
  LoopInv /\ CountInv /\ [Next]_episodeVars => CountInv'
  <1> SUFFICES ASSUME LoopInv, CountInv, [Next]_episodeVars
               PROVE  CountInv'
    OBVIOUS
  <1> USE DEF CountInv
  <1>1. ASSUME UNCHANGED <<script, rows, tally, total, moved, movedInAll>>,
               TallyInStep'
        PROVE  CountInv'
    BY <1>1 DEF CountersTellTheRobot
  <1>2. CASE WarmUp \/ Finish
    BY <1>1, <1>2 DEF WarmUp, Finish, TallyInStep
  <1>3. CASE StartEpisode
    <2>1. TallyInStep'
      BY <1>3 DEF StartEpisode, FreshTally, Zero, TallyInStep
    <2>2. CountersTellTheRobot'
      BY <1>3 DEF StartEpisode, CountersTellTheRobot
    <2> QED
      BY <2>1, <2>2
  <1>4. CASE Observe
    <2>1. script = "collect" => arm # "oracle"
      BY DEF LoopInv, EpisodeTypeOK, ArmsOf, HasPolicy
    <2>2. script = "suite" => arm # "oracle"
      BY DEF LoopInv, EpisodeTypeOK, ArmsOf, HasPolicy
    <2>3. TallyInStep'
      BY <1>4, <2>1, <2>2 DEF Observe, TallyInStep, CountsAnswers
    <2> QED
      BY <1>1, <1>4, <2>3 DEF Observe
  <1>5. CASE PolicyAnswers
    <2>1. /\ tally' = IF CountsAnswers(script) THEN AddCompleted(tally)
                                               ELSE tally
          /\ phase = "asking"
          /\ phase' = IF script = "collect" THEN "recording" ELSE "acting"
          /\ UNCHANGED <<script, moved, rows, total, movedInAll, hold>>
      BY <1>5 DEF PolicyAnswers
    <2>2. TallyInStep'
      BY <2>1, LoopNumbers, TallyFields
         DEF LoopInv, TallyInStep, CountsAnswers
    <2>3. CountersTellTheRobot'
      BY <2>1 DEF CountersTellTheRobot
    <2> QED
      BY <2>2, <2>3
  <1>6. CASE Execute
    <2>1. /\ phase = "acting" /\ UNCHANGED <<script, hold, rows>>
      BY <1>6 DEF Execute
    <2>2. PICK a \in ActionVectors, reached \in BOOLEAN :
           LET command == PositionCommand(ActingPosition, a)
           IN
           /\ command.clipped \in BOOLEAN
           /\ tally' = AddClipped(
                        IF CountsAnswers(script) THEN tally
                                                 ELSE AddCompleted(tally),
                        command.clipped)
           /\ total' = IF script = "stress"
                       THEN AddClipped(AddCompleted(total), command.clipped)
                       ELSE total
           /\ moved' = AddClipped(AddCompleted(moved), command.clipped)
           /\ movedInAll' =
                AddClipped(AddCompleted(movedInAll), command.clipped)
           /\ phase' = IF reached \/ step + 1 = Steps(script)
                       THEN "recording"
                       ELSE IF script = "mismatch" THEN "acting"
                       ELSE "observing"
      BY <1>6, ExecuteDoes
    <2> DEFINE clipped == PositionCommand(ActingPosition, a).clipped
    <2>3. /\ clipped \in BOOLEAN
          /\ tally' = AddClipped(
                        IF CountsAnswers(script) THEN tally
                                                 ELSE AddCompleted(tally),
                        clipped)
          /\ total' = IF script = "stress"
                      THEN AddClipped(AddCompleted(total), clipped)
                      ELSE total
          /\ moved' = AddClipped(AddCompleted(moved), clipped)
          /\ movedInAll' = AddClipped(AddCompleted(movedInAll), clipped)
      BY <2>2
    <2>4. \/ phase' \in {"recording", "observing"}
          \/ script = "mismatch" /\ phase' = "acting"
      BY <2>2
    <2> HIDE DEF clipped
    <2>5. /\ tally \in Tallies /\ moved \in Tallies
          /\ AddCompleted(tally) \in Tallies /\ AddCompleted(moved) \in Tallies
      BY LoopNumbers, TalliesGrow DEF LoopInv
    <2>6. /\ moved'.completed = moved.completed + 1
          /\ moved'.clipped = IF clipped THEN moved.clipped + 1
                                         ELSE moved.clipped
      BY <2>3, <2>5, TallyFields
    <2>7. /\ tally'.completed = IF CountsAnswers(script) THEN tally.completed
                                ELSE tally.completed + 1
          /\ tally'.clipped = IF clipped THEN tally.clipped + 1
                                         ELSE tally.clipped
      BY <2>3, <2>5, TallyFields
    <2>8. TallyInStep'
      BY <2>1, <2>4, <2>6, <2>7 DEF TallyInStep, CountsAnswers
    <2>9. CountersTellTheRobot'
      BY <2>1, <2>3 DEF CountersTellTheRobot
    <2> QED
      BY <2>8, <2>9
  <1>7. CASE SafeHold /\ phase \in {"observing", "asking", "acting"}
    <2>1. TallyInStep'
      BY <1>7 DEF SafeHold, TallyInStep
    <2> QED
      BY <1>1, <1>7, <2>1 DEF SafeHold
  <1>8. ASSUME NEW why \in Causes \cup {"interrupt"},
               Abort(why)
        PROVE  CountInv'
    <2>1. TallyInStep'
      BY <1>8 DEF Abort, TallyInStep
    <2> QED
      BY <1>1, <1>8, <2>1 DEF Abort
  <1>9. CASE Record
    <2> DEFINE row == [tally |-> tally, moved |-> moved, held |-> hold,
                       whole |-> step = Steps(script)]
    <2>1. /\ phase = "recording" /\ phase' = "resetting"
          /\ rows' = Append(rows, row)
          /\ UNCHANGED <<script, tally, total, moved, movedInAll>>
      BY <1>9 DEF Record
    <2>2. rows \in Seq([tally : Tallies, moved : Tallies,
                        held : BOOLEAN, whole : BOOLEAN])
      BY DEF LoopInv, EpisodeTypeOK
    <2>3. /\ Len(rows') = Len(rows) + 1
          /\ \A i \in 1..Len(rows) : rows'[i] = rows[i]
          /\ rows'[Len(rows) + 1] = row
      BY <2>1, <2>2
    <2>4. /\ row.tally.clipped = row.moved.clipped
          /\ row.tally.completed # row.moved.completed
                => /\ CountsAnswers(script)
                   /\ row.tally.completed = row.moved.completed + 1
                   /\ row.held \/ script = "collect"
      BY <2>1 DEF TallyInStep
    <2> HIDE DEF row
    <2>5. CountersTellTheRobot'
      BY <2>1, <2>2, <2>3, <2>4 DEF CountersTellTheRobot
    <2>6. TallyInStep'
      BY <2>1 DEF TallyInStep
    <2> QED
      BY <2>5, <2>6
  <1>10. CASE ExecutionRaises
    <2>1. PICK whole \in BOOLEAN :
            /\ whole => MeasuresMovement(script)
            /\ ~whole => UNCHANGED <<moved, movedInAll>>
      BY <1>10, ExecutionRaisesDoes
    <2>2. /\ phase = "acting" /\ UNCHANGED <<script, rows, tally, total>>
          /\ GuardsExecution(script) => phase' = "recording" /\ hold'
          /\ ~GuardsExecution(script) => phase' = "raised"
      BY <1>10 DEF ExecutionRaises
    <2>3. whole => script # "stress" /\ ~GuardsExecution(script)
      BY <2>1 DEF MeasuresMovement, GuardsExecution
    <2>4. TallyInStep'
      BY <2>1, <2>2, <2>3 DEF TallyInStep
    <2>5. CountersTellTheRobot'
      BY <2>1, <2>2, <2>3 DEF CountersTellTheRobot
    <2> QED
      BY <2>4, <2>5
  <1>11. CASE UNCHANGED episodeVars
    <2>1. TallyInStep'
      BY <1>11 DEF episodeVars, TallyInStep
    <2> QED
      BY <1>1, <1>11, <2>1 DEF episodeVars
  <1> QED
    BY <1>2, <1>3, <1>4, <1>5, <1>6, <1>7, <1>8, <1>9, <1>10, <1>11
       DEF Next, WarmUpRaises, ObservingRaises, PolicyRaises, BridgeRefuses,
           PictureRaises, Interrupted, Causes

(* The counters of every report are those of the simulation, but for the   *)
(* answers the suite counts before it executes them.                       *)
THEOREM CountersAreTrue == EpisodeSpec => []CountersTellTheRobot
  <1>1. Init => CountInv
    BY DEF Init, CountInv, TallyInStep, CountersTellTheRobot, Zero
  <1>2. CountInv => CountersTellTheRobot
    BY DEF CountInv
  <1> QED
    BY <1>1, <1>2, LoopInvHolds, StepCount, PTL DEF EpisodeSpec

-----------------------------------------------------------------------------
LEMMA StepReport ==
  LoopInv /\ ReportSoFar /\ [Next]_episodeVars => ReportSoFar'
  <1> SUFFICES ASSUME LoopInv, ReportSoFar, [Next]_episodeVars
               PROVE  ReportSoFar'
    OBVIOUS
  <1> USE DEF ReportSoFar
  <1>1. CASE Finish
    <2>1. /\ phase = "resetting" /\ episode > Episodes(script)
          /\ UNCHANGED <<script, rows, episode>> /\ ~connected'
      BY <1>1 DEF Finish
    <2>2. episode = Episodes(script) + 1
      BY <2>1, LoopNumbers DEF LoopInv, LoopsInStep
    <2> QED
      BY <2>1, <2>2
  <1>2. ASSUME NEW why \in Causes \cup {"interrupt"},
               Abort(why)
        PROVE  ReportSoFar'
    BY <1>2 DEF Abort
  <1>3. CASE Record
    <2> DEFINE row == [tally |-> tally, moved |-> moved, held |-> hold,
                       whole |-> step = Steps(script)]
    <2>1. /\ phase = "recording" /\ phase' = "resetting"
          /\ rows' = Append(rows, row) /\ episode' = episode + 1
      BY <1>3 DEF Record
    <2>2. rows \in Seq([tally : Tallies, moved : Tallies,
                        held : BOOLEAN, whole : BOOLEAN])
      BY DEF LoopInv, EpisodeTypeOK
    <2>3. /\ Len(rows') = Len(rows) + 1 /\ Len(rows) \in Nat
          /\ \A i \in 1..Len(rows) : rows'[i] = rows[i]
          /\ rows'[Len(rows) + 1] = row
      BY <2>1, <2>2
    <2>4. row.whole \/ row.held
      BY <2>1 DEF LoopInv, LoopsInStep
    <2> HIDE DEF row
    <2>5. episode \in Nat
      BY LoopNumbers DEF LoopInv
    <2> QED
      BY <2>1, <2>3, <2>4, <2>5
  <1>4. ASSUME UNCHANGED <<rows, episode>>,
               phase' \notin {"reported", "raised"}
        PROVE  ReportSoFar'
    BY <1>4
  <1>5. CASE Execute
    <2>1. phase' \in {"recording", "acting", "observing"}
      BY <1>5 DEF Execute
    <2> QED
      BY <1>4, <1>5, <2>1 DEF Execute
  <1>6. CASE ExecutionRaises
    <2>1. phase' \in {"recording", "raised"} /\ (phase' = "raised" => ~connected')
      BY <1>6 DEF ExecutionRaises
    <2> QED
      BY <1>6, <2>1 DEF ExecutionRaises
  <1>7. CASE UNCHANGED episodeVars
    BY <1>7 DEF episodeVars
  <1> QED
    BY <1>1, <1>2, <1>3, <1>4, <1>5, <1>6, <1>7
       DEF Next, WarmUp, WarmUpRaises, StartEpisode, Observe,
           ObservingRaises, PolicyAnswers, PolicyRaises, BridgeRefuses,
           PictureRaises, Interrupted, SafeHold, Causes

(* A script that reports has a row for every episode, carried through or   *)
(* held, and none leaves its transport open.                               *)
THEOREM ReportsAreWhole == EpisodeSpec => []ReportIsWhole
  <1>1. Init => ReportSoFar
    BY DEF Init, ReportSoFar
  <1>2. LoopInv /\ ReportSoFar => ReportIsWhole
    <2> SUFFICES ASSUME LoopInv, ReportSoFar PROVE ReportIsWhole
      OBVIOUS
    <2>1. Episodes(script) \in Nat
      BY LoopNumbers DEF LoopInv
    <2> QED
      BY <2>1 DEF ReportSoFar, ReportIsWhole
  <1> QED
    BY <1>1, <1>2, LoopInvHolds, StepReport, PTL DEF EpisodeSpec
-----------------------------------------------------------------------------
(* An action that the bridge refuses ends a script, instead of an episode, *)
(* only if its try statements leave the execution out, and then either the *)
(* residual adapter has made the action something that is not finite, or   *)
(* the simulation has diverged (held_out:101-116, panda_bridge.py:54-57).  *)
BridgeEndsWithCause ==
    cause = "bridge" =>
        /\ ~GuardsExecution(script)
        /\ \/ script = "held_out" /\ arm = "adapter"
                /\ action \notin ActionVectors
           \/ \E j \in Joints : ActingPosition[j] = NotFinite

ActionAtHand ==
    /\ phase = "acting" => arm = "adapter" \/ action \in Actions
    /\ cause = "bridge" => phase = "raised"

LEMMA RefusalHasCause ==
  ASSUME EpisodeTypeOK, ActionAtHand, BridgeRefuses
  PROVE  \/ script = "held_out" /\ arm = "adapter"
              /\ action \notin ActionVectors
         \/ \E j \in Joints : ActingPosition[j] = NotFinite
  <1> SUFFICES ASSUME \A j \in Joints : ActingPosition[j] # NotFinite
               PROVE  /\ script = "held_out" /\ arm = "adapter"
                      /\ action \notin ActionVectors
    OBVIOUS
  <1>1. PICK a \in ActionsToExecute : ~Accepts(ActingPosition, a)
    BY DEF BridgeRefuses
  <1>2. a \notin ActionVectors
    BY <1>1, BridgeAssumption DEF Accepts, ActionVectors
  <1>3. action \notin ActionVectors
    <2> SUFFICES ASSUME action \in ActionVectors PROVE a \in ActionVectors
      BY <1>2
    <2>1. \A i \in 1..(NumJoints + 1) :
              /\ action[i] \in Int
              /\ -action[i] \in Int
              /\ action[i] \div 4 \in Int
      BY DEF ActionVectors
    <2>2. \/ a = action
          \/ a = [i \in 1..(NumJoints + 1) |->
                      IF i \in Joints THEN -action[i] ELSE action[i]]
          \/ a = [i \in 1..(NumJoints + 1) |->
                      IF i \in Joints THEN action[i] \div 4 ELSE action[i]]
      BY <1>1 DEF ActionsToExecute, Interpretations
    <2> QED
      BY <2>1, <2>2 DEF ActionVectors
  <1>4. arm = "adapter"
    BY <1>3, EpisodeAssumption DEF ActionAtHand, BridgeRefuses
  <1>5. script = "held_out"
    BY <1>4, ScriptBounds DEF EpisodeTypeOK
  <1> QED
    BY <1>3, <1>4, <1>5

LEMMA StepCause ==
  ASSUME LoopInv, ActionAtHand, BridgeEndsWithCause, [Next]_episodeVars
  PROVE  ActionAtHand' /\ BridgeEndsWithCause'
  <1>1. CASE cause = "bridge"
    <2>1. UNCHANGED episodeVars
      BY <1>1
         DEF ActionAtHand, Next, WarmUp, WarmUpRaises, StartEpisode, Finish,
             Observe, ObservingRaises, PolicyAnswers, PolicyRaises, Execute,
             ExecutionRaises, BridgeRefuses, PictureRaises, Record,
             Interrupted
    <2> QED
      BY <2>1 DEF episodeVars, ActionAtHand, BridgeEndsWithCause,
                  ActingPosition
  <1>2. CASE cause # "bridge" /\ cause' # "bridge"
    <2>1. ActionAtHand'
      <3>1. CASE phase' # "acting"
        BY <1>2, <3>1 DEF ActionAtHand
      <3>2. CASE Observe
        BY <1>2, <3>2 DEF Observe, ActionAtHand
      <3>3. CASE PolicyAnswers
        BY <1>2, <3>3 DEF PolicyAnswers, ActionAtHand
      <3>4. CASE Execute
        <4>1. phase = "acting" /\ UNCHANGED <<arm, action>>
          BY <3>4 DEF Execute
        <4> QED
          BY <1>2, <4>1 DEF ActionAtHand
      <3>5. CASE UNCHANGED episodeVars
        BY <1>2, <3>5 DEF episodeVars, ActionAtHand
      <3> QED
        BY <3>1, <3>2, <3>3, <3>4, <3>5
           DEF Next, WarmUp, WarmUpRaises, StartEpisode, Finish,
               ObservingRaises, PolicyRaises, ExecutionRaises,
               BridgeRefuses, PictureRaises, Record, Interrupted,
               SafeHold, Abort
    <2> QED
      BY <1>2, <2>1 DEF BridgeEndsWithCause
  <1>3. CASE cause # "bridge" /\ cause' = "bridge"
    <2>1. BridgeRefuses /\ ~GuardsExecution(script) /\ Abort("bridge")
      BY <1>3
         DEF Next, WarmUp, WarmUpRaises, StartEpisode, Finish, Observe,
             ObservingRaises, PolicyAnswers, PolicyRaises, Execute,
             ExecutionRaises, BridgeRefuses, PictureRaises, Record,
             Interrupted, SafeHold, Abort,
             episodeVars
    <2>2. /\ UNCHANGED <<script, arm, action, position>>
          /\ phase' = "raised"
      BY <2>1 DEF Abort
    <2>3. ActingPosition' = ActingPosition
      BY <2>2 DEF ActingPosition
    <2> QED
      BY <2>1, <2>2, <2>3, RefusalHasCause
         DEF LoopInv, ActionAtHand, BridgeEndsWithCause, GuardsExecution
  <1> QED
    BY <1>1, <1>2, <1>3

(* BridgeEndsWithCause, for any number of joints, limits, actions and      *)
(* episodes: what the policy itself answers never ends an evaluation of a  *)
(* simulation that is well (held_out:101-116, panda_bridge.py:54-57).      *)
THEOREM BridgeEndsOnlyWithCause == EpisodeSpec => []BridgeEndsWithCause
  <1>1. Init => ActionAtHand /\ BridgeEndsWithCause
    BY DEF Init, ActionAtHand, BridgeEndsWithCause
  <1> QED
    BY <1>1, LoopInvHolds, StepCause, PTL DEF EpisodeSpec
=============================================================================

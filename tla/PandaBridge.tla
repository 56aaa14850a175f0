----------------------------- MODULE PandaBridge -----------------------------
(***************************************************************************)
(* DroidLikePandaActionBridge: joint velocities of one action, limited and *)
(* integrated over one control period, become joint position targets       *)
(* within the joint limits.                                                *)
(*                                                                         *)
(* Numbers are integers in a unit in which positions, velocities times the *)
(* control period, and gripper openings are whole; a value that is NaN or  *)
(* infinite is NotFinite.                                                  *)
(***************************************************************************)
EXTENDS Integers, Sequences

CONSTANTS
    NumJoints,          \* arm joints (seven)
    LowerLimit,         \* joint -> lower joint limit
    UpperLimit,         \* joint -> upper joint limit
    MaxJointVelocity,
    ControlDt,          \* length of the control period
    GripperOpen,        \* the gripper value 1.0
    NotFinite           \* NaN or an infinity

Joints == 1..NumJoints

(* What __post_init__ checks: a limit for each joint, ordered limits,      *)
(* positive period and velocity.                                           *)
ASSUME BridgeAssumption ==
    /\ NumJoints \in Nat \ {0}
    /\ LowerLimit \in [Joints -> Int]
    /\ UpperLimit \in [Joints -> Int]
    /\ \A j \in Joints : LowerLimit[j] <= UpperLimit[j]
    /\ MaxJointVelocity \in Nat \ {0}
    /\ ControlDt \in Nat \ {0}
    /\ GripperOpen \in Nat \ {0}
    /\ NotFinite \notin Int

(* Joint positions; an action has a gripper value after the velocities. *)
JointVectors == [Joints -> Int]
ActionVectors == [1..(NumJoints + 1) -> Int]

Limited(value, lower, upper) ==
    LET atLeast == IF value < lower THEN lower ELSE value
    IN  IF atLeast > upper THEN upper ELSE atLeast

(* The state and the action are finite; otherwise ValueError. *)
Accepts(position, action) ==
    /\ \A j \in Joints : position[j] # NotFinite
    /\ \A i \in 1..(NumJoints + 1) : action[i] # NotFinite

(* Mutation of LimitedVelocity: only the upper bound is applied. *)
MutVelocityUnlimited(action, j) ==
    IF action[j] > MaxJointVelocity THEN MaxJointVelocity ELSE action[j]

LimitedVelocity(action, j) ==
    Limited(action[j], -MaxJointVelocity, MaxJointVelocity)

RawTarget(position, action, j) ==
    position[j] + LimitedVelocity(action, j) * ControlDt

Target(position, action, j) ==
    Limited(RawTarget(position, action, j), LowerLimit[j], UpperLimit[j])

Gripper(action) == Limited(action[NumJoints + 1], 0, GripperOpen)

Clipped(position, action) ==
    \/ \E j \in Joints :
            \/ LimitedVelocity(action, j) # action[j]
            \/ Target(position, action, j) # RawTarget(position, action, j)
    \/ Gripper(action) # action[NumJoints + 1]

(* to_position_command *)
PositionCommand(position, action) ==
    [targets |-> [j \in Joints |-> Target(position, action, j)],
     gripper |-> Gripper(action),
     clipped |-> Clipped(position, action)]

-----------------------------------------------------------------------------
(* What may be commanded to a robot at a position: targets within the      *)
(* joint limits, no further than one period at the highest velocity from   *)
(* where the joint is unless it was outside its limits, and a gripper      *)
(* between closed and open.                                                *)
OneStep == MaxJointVelocity * ControlDt

WithinLimits(position, j) ==
    position[j] >= LowerLimit[j] /\ position[j] <= UpperLimit[j]

IsSafeCommand(command, position) ==
    /\ \A j \in Joints :
            /\ command.targets[j] \in LowerLimit[j]..UpperLimit[j]
            /\ WithinLimits(position, j)
                    => /\ command.targets[j] <= position[j] + OneStep
                       /\ position[j] <= command.targets[j] + OneStep
    /\ command.gripper \in 0..GripperOpen
=============================================================================

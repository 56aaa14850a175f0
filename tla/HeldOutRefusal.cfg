SPECIFICATION EpisodeSpec
CONSTANTS
    NumJoints = 2
    LowerLimit <- MCLowerLimit
    UpperLimit <- MCUpperLimit
    MaxJointVelocity = 1
    ControlDt = 2
    GripperOpen = 2
    NotFinite = NotFinite
    Positions <- MCPositions
    Actions <- MCActions
    Home <- MCHome
    MaxEpisodes = 1
    MaxSteps = 2
INVARIANTS
    RefusedActionIsHeld
\* A script ends after its report.
CHECK_DEADLOCK FALSE

SPECIFICATION EpisodeSpec
CONSTANTS
    NumJoints = 2
    LowerLimit <- MCLowerLimit
    UpperLimit <- MCUpperLimit
    MaxJointVelocity = 1
    ControlDt = 2
    GripperOpen = 2
    NotFinite = NotFinite
    Positions <- MCPositions
    Actions <- MCActions
    Home <- MCHome
    MaxEpisodes = 2
    MaxSteps = 2
INVARIANTS
    EpisodeTypeOK
    ActuatorsAreSafe
    CountersTellTheRobot
    ReportIsWhole
PROPERTIES
    MovesFromObservedPosition
\* A script ends after its report.
CHECK_DEADLOCK FALSE

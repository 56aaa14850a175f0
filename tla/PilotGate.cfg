\* A full collection may be the first script that is started.
SPECIFICATION ProbeSpec
CONSTANTS
    NumGroups = 3
    PerGroup = 2
    LastTrain = 1
    LastValidation = 2
    PilotSize = 3
    MaxCollections = 2
INVARIANT
    FullRunFollowsPilot
CHECK_DEADLOCK FALSE

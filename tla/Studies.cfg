\* Two collections of six requests, and two runs of a control study.
SPECIFICATION StudiesSpec
CONSTANTS
    NumGroups = 3
    PerGroup = 2
    LastTrain = 1
    LastValidation = 2
    PilotSize = 3
    MaxCollections = 2
    NumConditions = 2
    NumTargets = 2
    Steps <- MCSteps
    Dt <- MCDt
    Threshold = 0
    MaxDistance = 1
    MaxClips = 1
    MaxStudies = 2
INVARIANTS
    StudiesTypeOK
    RecordedFilesAreSound
    ReportIsOfDeclaredRule
\* Bounded runs end.
CHECK_DEADLOCK FALSE

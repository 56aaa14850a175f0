\* The caller goes on with the same transport after a timeout.
SPECIFICATION BoundedSystemSpec
CONSTANTS
    MaxRuns = 2
    MaxSteps = 2
    MaxHorizon = 1
    MaxChunk = 1
    ActionDim = 8
    OtherDim = 7
    MaxCalls = 4
    MaxConnections = 2
    CallerReconnects = FALSE
INVARIANTS
    BoundedSystemTypeOK
    StaleNeedsUnconfirmed
    LateRequestIsUnconfirmed
PROPERTIES
    StaleActionNeedsUnconfirmed
    EveryBoundedRunReturns
    ExitHangsOnUnconfirmedOnly
\* The program ends.
CHECK_DEADLOCK FALSE

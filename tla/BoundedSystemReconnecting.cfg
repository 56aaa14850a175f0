\* The caller reconnects after every unconfirmed request.
SPECIFICATION BoundedSystemSpec
CONSTANTS
    MaxRuns = 2
    MaxSteps = 2
    MaxHorizon = 2
    MaxChunk = 2
    ActionDim = 8
    OtherDim = 7
    MaxCalls = 3
    MaxConnections = 2
    CallerReconnects = TRUE
INVARIANT
    OneThreadPerSocket
PROPERTIES
    ImplementsBoundedCall
    ImplementsClosedLoop
\* The program ends.
CHECK_DEADLOCK FALSE

SPECIFICATION SystemSpec
CONSTANTS
    MaxRuns = 2
    MaxSteps = 2
    MaxHorizon = 1
    MaxChunk = 1
    ActionDim = 8
    OtherDim = 7
    MaxCalls = 3
    MaxWorkers = 2
    CallerMayInterrupt = TRUE
    RecvMayAbort = FALSE
INVARIANTS
    PayloadIsForThisCall
    ObservationIsAskedOnce
PROPERTIES
    ExecutedActionIsFresh
    ImplementsPolicyCall
    ImplementsClosedLoop
    DroppedChildrenDie
    EveryRunReturns
\* The program ends after its last run, or at a bound.
CHECK_DEADLOCK FALSE

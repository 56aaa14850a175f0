SPECIFICATION LoopSpec
CONSTANTS
    MaxRuns = 2
    MaxSteps = 3
    MaxHorizon = 2
    MaxChunk = 3
    ActionDim = 8
    OtherDim = 7
INVARIANTS
    LoopTypeOK
    RowsOfLatestChunkInOrder
    HoldIsFinal
    UnfinishedRunHolds
    MetricsTellTheRobot
    ValidatedChunkIsExecutable
PROPERTIES
    ImplementsRecedingHorizon
\* The program ends after its last run.
CHECK_DEADLOCK FALSE

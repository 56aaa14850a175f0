\* Every fault at once: deadlines, crashes, broken connections, interrupts.
SPECIFICATION Spec
CONSTANTS
    MaxCalls = 3
    MaxWorkers = 2
    CallerMayInterrupt = TRUE
    RecvMayAbort = TRUE
INVARIANTS
    TypeOK
    StaleAnswerNeedsKeptChild
    NoChildIsLeaked
    StaleReplyNeedsInterrupt
    RetiredIsNeverReused

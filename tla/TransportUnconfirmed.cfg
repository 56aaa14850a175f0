\* The caller may be interrupted in a get(); recv() leaves no reply unread.
SPECIFICATION Spec
CONSTANTS
    MaxCalls = 2
    MaxWorkers = 2
    CallerMayInterrupt = TRUE
    RecvMayAbort = FALSE
INVARIANT
    UnconfirmedIsNeverReused

SPECIFICATION DownloadSpec
CONSTANTS
    NumFiles = 2
    Size <- MCSize
    NumMirrors = 2
    MaxRetries = 1
    LongestBody = 3
    MaxRuns = 3
INVARIANTS
    DownloadTypeOK
    SpoiltTargetNeedsOrphan
    StatusNeverOverstates
PROPERTIES
    FetchedBytesAreKept
\* After the last run nobody starts the script again.
CHECK_DEADLOCK FALSE

SPECIFICATION DownloadSpec
CONSTANTS
    NumFiles = 2
    Size <- MCSize
    NumMirrors = 2
    MaxRetries = 3
    LongestBody = 3
    MaxRuns = 1
INVARIANTS
    RetainedPartialIsResumable
\* After the last run nobody starts the script again.
CHECK_DEADLOCK FALSE

SPECIFICATION FairSpec
CONSTANTS
    Files <- MCFiles
    Mem = {}
    Keys <- MCKeys
    Values <- MCValues
    Default <- MCDefault
    Padding = 2
    Timers = {"timer"}
    NULL = NULL
INVARIANTS LostOnlyByOverlap
PROPERTIES RestartRestoresSaved ChangedIsSaved

CONSTANTS
    ncpu = 2
    NPROC = 4
    None = None
    Calls <- MCCalls
    KallocFails = TRUE
SPECIFICATION FairSpec
INVARIANTS
    NoProcessLost
    Resumable
    ShownComplete
PROPERTIES
    FreshChild
    EveryoneRuns
CHECK_DEADLOCK FALSE

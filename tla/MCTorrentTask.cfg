SPECIFICATION FairSpec
CONSTANTS
    Proxy = TRUE
    SeedLimits = {"ratio", "time"}
    MaxStarts = 2
INVARIANTS
    CancelledIsClosed
    StoppedDownloadsNothing
    WatchedUnlessTripped
PROPERTIES
    ContractKept
    SeedingEnds
    CancelReturns
CHECK_DEADLOCK FALSE

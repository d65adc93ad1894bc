SPECIFICATION FairSpec
CONSTANTS
    Proxy = FALSE
    SeedLimits = {}
    MaxStarts = 1
PROPERTIES
    WholeIsReported
CHECK_DEADLOCK FALSE

SPECIFICATION FairSpec
CONSTANTS
    MinSegmentSize = 1
    Size = 4
    SizeKnown = TRUE
    MaxConn = 2
    MaxRetries = 1
    Mirrors = 2
INVARIANTS
    TransferInv
    CompleteMeansContent
    SidecarNotAhead
    ProgressAddsUp
    NoErrorWithoutFault
PROPERTIES
    PauseEnds
CHECK_DEADLOCK FALSE

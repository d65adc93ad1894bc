SPECIFICATION Spec
CONSTANTS
    MinSegmentSize = 1
    Size = 4
    SizeKnown = TRUE
    MaxConn = 2
    MaxRetries = 1
    Mirrors = 1
INVARIANTS
    SidecarReadable
CHECK_DEADLOCK FALSE

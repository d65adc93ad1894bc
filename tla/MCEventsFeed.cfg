SPECIFICATION FairFeed
CONSTANTS
    MaxChanges = 1
    MaxRequests = 2
    Window = 2
INVARIANTS
    FramesWhole
    RefreshIsFresh
PROPERTIES
    PageCatchesUp
    HandlerReturns
CHECK_DEADLOCK FALSE

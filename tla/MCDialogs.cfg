SPECIFICATION MCSpec
CONSTANTS
    Items <- MCItems
    Kind <- MCKind
    MaxEntered = 2
    MaxPresses = 2
    MaxRequests = 4
INVARIANTS
    AddedOnce
    AloneIsRight
PROPERTIES
    SubmitEnds
CHECK_DEADLOCK FALSE

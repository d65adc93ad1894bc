SPECIFICATION FairSpec
CONSTANTS
    Tasks = {t1, t2, t3}
INVARIANTS
    AnsweredIsSaved
PROPERTIES
    TornIsReplaced
    DiskCatchesUp
CHECK_DEADLOCK FALSE

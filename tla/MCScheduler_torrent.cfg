SPECIFICATION Spec
CONSTANTS
    Tasks = {1, 2}
    Handlers = {h1, h2}
    Priority <- MCPriority
    MaxConcurrent = 1
    Torrents = {2}
SYMMETRY HandlerSymmetry
VIEW View
INVARIANTS
    SchedulerInv
    LimitUpToStrays
    NoPriorityInversion
    SlotsIdleOnlyAfterLapse
    RemovedStaysStopped
CHECK_DEADLOCK FALSE

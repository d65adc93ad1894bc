SPECIFICATION FairSpec
CONSTANTS
    MaxRuns = 3
    MaxProcesses = 2
    Mirrors = 2
INVARIANTS
    StoppedIsStill
    ActiveIsWorkedOn
    NoErrorWithoutFault
    RemovedLeavesNoFile
    CompleteMeansWhole
    NoProcessLeft
PROPERTIES
    ContractKept
    StopReturns
    ExitIsNoticed
CHECK_DEADLOCK FALSE

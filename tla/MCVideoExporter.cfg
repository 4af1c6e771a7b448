CONSTANTS
    MaxJobs = 2
    Totals <- MCTotals
    Positions <- MCPositions
    ONE = 2
SPECIFICATION FairSpec
CHECK_DEADLOCK FALSE
INVARIANTS
    OutcomeMatchesFile
    CancelStopsWithinAFrame
    FramesShowTheirTime
PROPERTIES
    KeepsPromise
    FoundExportFinishes

CONSTANTS
    MaxJobs = 1
    Totals <- MCTotalsAlone
    Positions <- NoPositions
    ONE = 6
SPECIFICATION FairSpec
CHECK_DEADLOCK FALSE
PROPERTY StartedExportFinishes

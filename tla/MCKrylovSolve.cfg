SPECIFICATION Spec
CONSTANTS
    MaxIter = 4
    Rows = 3
    Restarts <- MCRestarts
    None = None
INVARIANTS
    TypeOK
    SuccessIsMeasured
    HistoryStopsAtConvergence
    FailureNamesCause
    StaleOnlyAfterBreakdown
    CyclesAreFull
PROPERTIES
    SolveEnds

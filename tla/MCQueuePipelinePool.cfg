SPECIFICATION Spec
CONSTANTS
    Matrices <- MCOne
    Candidates = {c1}
    BatchSize = 2
    Profiled = {}
    Dirs = {1, 2}
    MaxBuilds = 1
    MaxRuns = 3
    MaxPools = 2
INVARIANTS
    PooledBatchIsWhole
    PoolKeysAreUnique
PROPERTIES
    RowsLeaveOnlyByExecution
    KeepsEvidence
CHECK_DEADLOCK FALSE

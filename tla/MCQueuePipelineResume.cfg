SPECIFICATION CarefulSpec
CONSTANTS
    Matrices <- MCPair
    Candidates = {c1}
    BatchSize = 1
    Profiled = {}
    Dirs = {1}
    MaxBuilds = 2
    MaxRuns = 1
    MaxPools = 1
INVARIANT
    CompletedBatchesAreProfiled
CHECK_DEADLOCK FALSE

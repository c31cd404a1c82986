SPECIFICATION CarefulSpec
CONSTANTS
    Matrices <- MCPair
    Candidates = {c1}
    BatchSize = 1
    Profiled = {}
    Dirs = {1}
    MaxBuilds = 1
    MaxRuns = 2
    MaxPools = 2
PROPERTY
    PoolIsAppendOnly
CHECK_DEADLOCK FALSE

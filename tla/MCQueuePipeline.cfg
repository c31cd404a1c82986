SPECIFICATION Spec
CONSTANTS
    Matrices <- MCMatrices
    Candidates = {c1, c2}
    BatchSize = 2
    Profiled = {}
    Dirs = {1}
    MaxBuilds = 2
    MaxRuns = 1
    MaxPools = 0
INVARIANTS
    TypeOK
    PassedRunIsWhole
    BatchesPartitionQueue
CHECK_DEADLOCK FALSE

SPECIFICATION Spec
CONSTANTS
    Matrices <- MCMatrices
    Candidates <- MCCandidates
    SelectorFiles <- MCFiles
    Models = {r1}
    MaxRebuilds = 1
    MaxRuns = 1
    None = None
INVARIANTS
    TypeOK
    ExecutedAreProfiledSuccesses
    UnpromotedRunsArtifact
    EnforcedTriesEachOnce
    BlockedOnlyWithoutProfile

SPECIFICATION Spec
CONSTANTS
    Matrices = {"m1", "m2"}
    Candidates = {1, 2}
    SelectorFiles <- OneFile
    Models = {r1, r2}
    MaxRebuilds = 0
    MaxRuns = 2
    None = None
INVARIANT
    PromotedIsSafe
PROPERTY
    CallEnds

SPECIFICATION LockSpec
CONSTANTS
    Procs = {p1, p2, p3}
    NoFile = NoFile
    MaxCrashes = 1
    MaxCalls = 1
    MaxDepth = 1
    SlowHolders = FALSE
SYMMETRY Symmetry
INVARIANTS
    MutualExclusion
CHECK_DEADLOCK FALSE

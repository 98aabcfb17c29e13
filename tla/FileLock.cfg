SPECIFICATION FairLockSpec
CONSTANTS
    Procs = {p1, p2, p3}
    NoFile = NoFile
    MaxCrashes = 1
    MaxCalls = 1
    MaxDepth = 2
    SlowHolders = TRUE
INVARIANTS
    ExclusiveUnlessStolen
PROPERTIES
    CallsReturn
CHECK_DEADLOCK FALSE

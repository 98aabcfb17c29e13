SPECIFICATION MCSpec
CONSTANTS
    Procs = {p1, p2}
    Signers = {s1, s2}
    NoFile = NoFile
    MaxCrashes = 1
    MaxCalls = 2
    MaxDepth = 1
    SlowHolders = TRUE
    MaxClock = 2
    Accounts = {a1, a2, a3}
    NoLock = NoLock
    LastBit = 1
    MaxAnchor = 1
    MaxAsked = 1
    MaxKills = 1
    Callers = {r1, r2}
    NoObs = NoObs
    Quota = 4
    Costs = {1, 2}
    Prices = {1, 3}
    MaxPrice = 3
    Reserve = 1
    Patience = 1
    WindowTicks = 2
    Slack = 1
    MaxDelay = 1
SYMMETRY Symmetry
INVARIANTS
    NoncesIncreaseUnlessStolen
    HandedOutOnceUnlessDisplaced
    EstimateIsSafe
CHECK_DEADLOCK FALSE

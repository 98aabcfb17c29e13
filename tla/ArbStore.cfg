SPECIFICATION ArbSpec
CONSTANTS
    Procs = {d, c}
    Daemons = {d}
    NoFile = NoFile
    MaxCrashes = 1
    MaxCalls = 2
    MaxDepth = 1
    SlowHolders = FALSE
    Symbols = {s1, s2}
    Legs = {v1, v2}
SYMMETRY Symmetry
INVARIANTS
    NoLostUpdateUnlessOverlapped
    OnePairPerSymbol
CHECK_DEADLOCK FALSE

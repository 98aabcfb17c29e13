SPECIFICATION ArbSpec
CONSTANTS
    Procs = {d, c}
    Daemons = {d}
    NoFile = NoFile
    MaxCrashes = 0
    MaxCalls = 2
    MaxDepth = 1
    SlowHolders = FALSE
    Symbols = {s1, s2}
    Legs = {v1}
SYMMETRY Symmetry
INVARIANTS
    NoLostUpdate
CHECK_DEADLOCK FALSE

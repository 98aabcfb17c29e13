SPECIFICATION Spec
CONSTANTS
    Symbols = {s1, s2}
    None = None
    Sizes <- MCSizes
    StartPos <- MCStartPos
    MaxSteps = 3
SYMMETRY Symmetry
INVARIANTS
    UnknownIsQuarantined
CHECK_DEADLOCK FALSE

SPECIFICATION FairSpec
CONSTANTS
    Daemons = {d1}
    Symbols = {s1, s2}
    NoPid = NoPid
    NoSymbol = NoSymbol
    MaxPositions = 1
    MaxFailures = 2
    OthersTrade = {s1}
    WritesFail = {"pending", "state", "quarantine"}
    MaxUpsets = 1
    MaxEntries = 2
INVARIANTS
    ExposureIsKnown
    EntryIsCovered
    WithinMaxPositions
PROPERTIES
    NeverReenteredUnlessForgotten
    NoExitBetweenLegs
    StopEnds
CHECK_DEADLOCK FALSE

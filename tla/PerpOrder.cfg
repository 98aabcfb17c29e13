SPECIFICATION MCSpec
CONSTANTS
    Sizes = {1, 5}
    StartPos <- MCStartPos
    MaxPolls = 2
    MaxOrders = 2
    Ids = {1, 2}
    Resting = {2}
    Lots = 2
    MaxCommands = 3
    MaxStrays = 1
    MaxWire = 3
    Total = 6
    Count = 3
    DcaErrors = 2
    Calls = {c1, c2, c3}
    MaxTears = 2
INVARIANTS
    RejectedIsFinal
    FilledIsExact
    ReadsSettled
    ConclusionsHold
    TotalIsKept
    OneOrderPerId
PROPERTIES
    ImplementsLeg
CHECK_DEADLOCK FALSE

SPECIFICATION MCSpec
CONSTANTS
    Cli = {c1}
    Job = Job
    MaxOps = 3
    MaxUpdates = 2
    BatchSize = 2
    StopTicks = 2
    MaxStarts = 3
INVARIANTS
    StopEndsTheJob
    StopIsRecorded
    OrdersAreRemembered
PROPERTIES
    StopReturns
    RunEnds
CHECK_DEADLOCK FALSE

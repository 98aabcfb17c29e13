SPECIFICATION MCSpec
CONSTANTS
    Slots = {w1, w2, w3}
    None = None
    MaxAttempts = 2
    Unlimited = Unlimited
    PerMin = 2
    OutPerMin = 2
    MaxQueue = 2
    Reentrant = FALSE
    LateTimers = FALSE
    Rows = {k1, k2}
    BufferSize = 2
    MaxEmits = 4
    MaxWaiters = 2
    Replay = 2
    Window = 4
    MaxFills = 5
    MaxFrames = 2
    MaxLosses = 2
    Orders <- MCOrders
    Scopes <- MCScopes
    ScopeOf <- MCScopeOf
INVARIANTS
    SocketsFollowChannels
    TimersFollowSocket
    NothingLostUnnoticed
    FeedIsExact
PROPERTIES
    ServedOrEnded
    FlappingEnds
    IterationEnds
CHECK_DEADLOCK FALSE

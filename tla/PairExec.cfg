SPECIFICATION MCSpec
CONSTANTS
    Step = 2
    OpenSizes = {2, 6, 10}
    ShortLot = 4
    Lot = 2
    SpotSizes = {4, 6}
    MaxFee = 1
    MaxFloors = 3
    Markets = {"m1", "m2", "m3"}
    SymbolOf <- MCSymbolOf
    Grid = 2
    Plans <- MCPlans
    Holdings <- MCHoldings
    MaxCommands = 2
    Procs = {"mcp", "cli"}
    Servers = {"mcp"}
    NetOf <- MCNetOf
    Calls = {"c1", "c2", "c3"}
    ProcOf <- MCProcOf
    Symbols = {"BTC", "UBTC"}
    KeyOf <- MCKeyOf
INVARIANTS
    PerpClaimsHold
    SpotClaimsHold
    NeverNakedShort
    MultiClaimsHold
    RefusedUntilCleared
CHECK_DEADLOCK FALSE

SPECIFICATION MarketSpec
CONSTANTS
    JobBound = 2
    LifeBound = 2
    FiniteTurns = 3
    RunLimit = 2
    Sources = {h}
    Days = 2
    HoldBound = 1
    CustodyRuns = {r1, r2}
    Requests = 2
    FinancialRequests = {f1, f2}
    MaxCalls = 3
    Retries = 1
    Interval = 1
    CacheTicks = 2
    ScopeEnd = 4
    PaperOrders = {1, 2}
    Actions = {1, 2}
    ActionTimes = {3, 4}
    TradingDays = 2
    Capital = 3
    Prices = {1}
    Guard = 2
    Commands = {c1, c2}
    Nobody = Nobody
CONSTRAINT Followed
SYMMETRY MarketSymmetry
INVARIANTS
    MarketTypeOK
    ChannelTrue
    SpendingCounted
PROPERTIES
    CollectedOnce
    PaperHolds
    LedgerTrue
CHECK_DEADLOCK FALSE

SPECIFICATION OrdersSpec
CONSTANTS
    Symbols = {"s1"}
    Strategies = {"v6", "v7", "v8", "v10"}
    ChanceLevels = {"limit_open", "limit_close", "market_close"}
    Records = {"good", "ema"}
    ChanceSizes = {2}
    OrderSize = 1
    CloseSize = 1
    MaxPosition = 2
    TimeGaps = {2}
    ManyGap = 1
    RateWindow = 3
    RecentCap = 1
    ChannelCap = 2
    Lag = 1
    Feeds <- TwoFeeds
    Loops = {1, 2}
    Interval = 2
    MaxAge = 2
    MaxSamples = 2
    MaxTime = 2
    MaxWall = 3
    Deciders = {"v6", "v6_0", "v7", "close_v1", "v8", "v10"}
    Flipster = FALSE
    Webs <- WebBooks
    Bases <- Middles
    MeanGaps <- Averaged
    BookSizes = {1, 5}
    Hindrances <- FlagSets
    MaxMirrored = 1
    StaleAfter = 0
    Milli = 1000
    Start = 10
    LastSecond = 11
    MaxOrders = 2
    AmendSizes = {1, 3}
    Large = 2
    MaxChances = 1
    MaxLosses = 1
    MaxFills = 1
    WireCap = 2
    Modes = {"grpc", "flipster"}
    Logins = {"l1"}
    CallSizes = {1, 5}
    PerSec = 2
    Per5Sec = 5
    HalfHour = 1
    MaxCount = 1
    TierSize = 3
    MaxCount2 = 2
    TierSize2 = 7
    TrimEvery = 2
    Kept = 3
    Targets = 2
    MaxTicks = 3
    MaxCalls = 4
    MaxResting = 2
INVARIANTS TypesOK ExposureBounded RateBounded DecisionsSound
PROPERTIES OrdersSettle
CHECK_DEADLOCK FALSE

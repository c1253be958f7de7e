SPECIFICATION AccountsSpec
CONSTANTS
    Foci = {"gate", "quotes"}
    Contracts = {"c1"}
    Managers = {"t", "w"}
    Monitors = {"w"}
    Sockets = {}
    CloseUsdt = 2
    Values = {2, 3}
    MaxTrades = 1
    PushCap = 1
    MaxInFlight = 1
    Symbols = {"a", "b"}
    Readers = {"executor", "rust"}
    TopSize = 1
    MaxChanges = 2
    MaxLosses = 1
    RowIds = {"r1", "r2"}
    FeedCap = 2
    Kinds = {"ipc", "zmq", "flipster"}
    Feeds = {"api", "binance"}
    MaxTasks = 2
    MaxRefreshes = 1
    Programs = {"strategy", "close"}
    LoopIds = {1, 2}
    Workers = {"w1"}
    QueueCap = 1
    Users = {"l1", "l2"}
    Offers <- Configurations
    MaxOpens = 1
    Accounts <- TwoLogins
    Books <- TwoBooks
    Lags = {TRUE, FALSE}
    Slippage = 2
    Threshold = 3
    Divider = 2
    MinSize = 1
    Starts <- LongAndShort
    Breaks = 0
INVARIANTS QuotesBounded
PROPERTIES ClosesShrink StaleAreClosed
CHECK_DEADLOCK FALSE

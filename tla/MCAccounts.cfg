SPECIFICATION AccountsSpec
CONSTANTS
    Foci = {"gate", "mirror", "account", "data", "threads", "refresh", "quotes"}
    Contracts = {"c1", "c2"}
    Managers = {"t"}
    Monitors = {}
    Sockets = {"t"}
    CloseUsdt = 2
    Values = {2, 3}
    MaxTrades = 1
    PushCap = 1
    MaxInFlight = 1
    Symbols = {"a", "b"}
    Readers = {"executor", "rust"}
    TopSize = 1
    MaxChanges = 2
    MaxLosses = 1
    RowIds = {"r1", "r2"}
    FeedCap = 2
    Kinds = {"ipc", "zmq", "flipster"}
    Feeds = {"api", "binance"}
    MaxTasks = 2
    MaxRefreshes = 1
    Programs = {"strategy", "close"}
    LoopIds = {1, 2}
    Workers = {"w1"}
    QueueCap = 1
    Users = {"l1", "l2"}
    Offers <- Configurations
    MaxOpens = 1
    Accounts <- OneLogin
    Books <- ThreeBooks
    Lags = {FALSE}
    Slippage = 2
    Threshold = 3
    Divider = 2
    MinSize = 1
    Starts <- OneAccount
    Breaks = 1
INVARIANTS TypesOK PositionsKnown
PROPERTIES Recovers
CHECK_DEADLOCK FALSE

SPECIFICATION StatsSpec
CONSTANTS
    OrderIds = {o1, o2}
    MaxRetries = 2
    MaxTasks = 2
    Positions <- TwoAndOne
    Capacity = 2
    MaxPending = 2
    MaxRestarts = 1
    MaxTrades = 2
    MaxCrashes = 2
    MaxWriteFaults = 1
INVARIANTS TypesOK TradesPaired NoForgottenEntry SavedSurvives RetriesBounded
PROPERTIES ClosedIsLearned EventuallySaved OrdersHandled
CHECK_DEADLOCK FALSE

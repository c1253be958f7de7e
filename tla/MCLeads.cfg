SPECIFICATION LeadsSpec
CONSTANTS
    Coins = {b1}
    Conns = {c1}
    Bases = {b1, b2}
    Clock0 = 1
    MaxClock = 5
    MaxRuns = 2
    Prices = {1, 3}
    Delays = {0}
    StaleAfter = 1
    Backtest = FALSE
    MinMove = 1
    Anchor = 1
    HalfWindow = 0
    HoldMax = 1
    ExitBp = 1
    StopBp = 1
    Cooldown = 0
    FreshFor = 0
    MinLag = 0
    MaxVel = 1
    VelWindow = 0
    FlipKeep = 0
    Retrace = 0
    PreRevert = 0
    PreWindow = 0
    StopCooldown = 0
    Grace = 0
    HardBp = 3
    MaxPosId = 2
    MaxHistory = 2
    MaxFlips = 1
    Modes = {"market", "maker", "dry"}
    MaxOpen = 1
    LossLimit <- OneDown
    Gains <- Outcomes
    MaxId = 2
    MaxRestarts = 1
INVARIANTS TypesOK IdsUnique NoFreshSignalDropped ExitOnce
PROPERTIES ImplementsLedger OpensAndEnds QuotesArrive
CHECK_DEADLOCK FALSE

SPECIFICATION CollectorSpec
CONSTANTS
  b1 = b1
  b2 = b2
  Callers = {c1, c2}
  Trades <- ThreeTrades
  Window = 3
  MinSamples = 2
  MinSamplesScale = 2
  PnlThreshold <- Loss
  PaperThreshold = 3
  SlipHigh = 5
  SlipLow = 3
  PnlDownsize = 1
  PnlUpsize = 5
  ScaleMin <- OneDown
  ScaleMax = 1
  ProbeCount = 2
  Cooldown = 1
  MaxOpen = 1
  ChopWindow = 2
INVARIANTS TypesOK ProbesBounded NoChop LimitsHold ExitsExact
PROPERTIES StatsRecover ImplementsLedger
CHECK_DEADLOCK FALSE

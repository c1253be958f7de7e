SPECIFICATION CoSpec
CONSTANTS
  Callers = {c1, c2}
  Trades <- TwoTrades
  Window = 2
  MinSamples = 2
  MinSamplesScale = 2
  PnlThreshold <- Loss
  PaperThreshold = 3
  SlipHigh = 5
  SlipLow = 3
  PnlDownsize = 1
  PnlUpsize = 5
  ScaleMin <- OneDown
  ScaleMax = 1
  ProbeCount = 2
  Cooldown = 1
  MaxOpen = 1
  ChopWindow = 2
INVARIANTS NoChop

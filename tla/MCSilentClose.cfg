SPECIFICATION Spec
CONSTANTS
  Bases = {b1}
  Prices = {1, 3}
  Baselines <- OneBaseline
  MaxOpenPositions = 1
  MaxPositionsPerBase = 1
  StopBp = 1
  MaxHold = 2
  MinHold = 0
  Cooldown = 0
  MaxPosId = 1
INVARIANT ExitsLeft
CHECK_DEADLOCK FALSE

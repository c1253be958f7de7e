SPECIFICATION Spec
CONSTANTS
  p1 = p1
  p2 = p2
  b1 = b1
  Pos = {p1}
  Bases = {b1}
  BaseOf <- OneBase
  Long = {p1}
  Modes = {FALSE}
  Size = 2
  MaxAttempts = 1
  MaxFaults = 0
INVARIANTS HedgeRatioOne

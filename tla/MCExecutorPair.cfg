SPECIFICATION Spec
CONSTANTS
  p1 = p1
  p2 = p2
  b1 = b1
  Pos = {p1, p2}
  Bases = {b1}
  BaseOf <- OneBase
  Long = {p1, p2}
  Modes = {FALSE}
  Size = 1
  MaxAttempts = 1
  MaxFaults = 0
SYMMETRY PosSymmetry
INVARIANTS NeverFlips

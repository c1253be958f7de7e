SPECIFICATION FairSpec
CONSTANTS
  p1 = p1
  p2 = p2
  b1 = b1
  Pos = {p1}
  Bases = {b1}
  BaseOf <- OneBase
  Long = {p1}
  Modes = {TRUE, FALSE}
  Size = 2
  MaxAttempts = 2
  MaxFaults = 1
INVARIANTS TypeOK OneCloser BookedOnce GateLegHasOwner
PROPERTIES EventuallyFlat OrdersEventuallyGone

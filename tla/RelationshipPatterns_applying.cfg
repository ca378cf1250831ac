SPECIFICATION Spec
CONSTANTS
  Pattern = {p1, p2}
  Write = {w1}
  Drain = Drain
  None = None
  MaxFaults = 1
INVARIANTS
  OneLoop
  OnlyApprovedReachTheGraph
  AppliedMeansConnected
PROPERTIES
  DrainPicksUp
CHECK_DEADLOCK FALSE

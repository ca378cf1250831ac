\* One write and one refresh, either of which may find a run of the other's
\* under way; one rejection and one restart.
SPECIFICATION AnalysisSpec
CONSTANTS
  Join = {j1}
  Writer = {w1}
  Refresh = {r1}
  NoSignature = NoSignature
  MaxRejections = 1
  MaxRestarts = 1
INVARIANTS
  NoDuplicateJoin
PROPERTIES
  DecisionsKept
  AnalysisFollows
CHECK_DEADLOCK FALSE

SPECIFICATION FairSpec
CONSTANTS
  Proc = {p1, p2}
  Searcher = {p1}
  Scheduler = {p2}
  Policy = {q1, q2}
  MaxFaults = 1
INVARIANTS
  SharedIndexKept
  CachesAreTrue
PROPERTY
  CreationRetried
CHECK_DEADLOCK FALSE

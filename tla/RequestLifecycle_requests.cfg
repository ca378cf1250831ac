SPECIFICATION FairSpec
CONSTANTS
  Request = {r1, r2}
  MaxFaults = 1
INVARIANTS
  NothingLeftOpen
  FailedWritesNothing
  EffectsFollowCommit
  RecountsSeeAll
PROPERTY
  EveryRequestSettles
CHECK_DEADLOCK FALSE

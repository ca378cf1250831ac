SPECIFICATION FairSpec
CONSTANTS
  Request = {r1}
  MaxFaults = 0
INVARIANT
  AnsweredMeansCommitted
CHECK_DEADLOCK FALSE

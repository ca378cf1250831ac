SPECIFICATION Spec
CONSTANTS
  Proc = {p1}
  Caller = {c1, c2, c3}
  Label = {l1, l2}
  Run = {i1, i2}
  None = None
  MaxWrites = 1
  MaxFailures = 1
  MaxPersistFailures = 0
SYMMETRY Symmetry
INVARIANTS
  ForceReadsOwnWrites
  OneRunAtATime
  CacheCoversForce
PROPERTIES
  CacheNeverRegresses
CHECK_DEADLOCK FALSE

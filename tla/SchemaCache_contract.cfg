SPECIFICATION Spec
CONSTANTS
  Proc = {p1, p2}
  Caller = {c1, c2}
  Label = {l1}
  Run = {i1, i2}
  None = None
  MaxWrites = 1
  MaxFailures = 1
  MaxPersistFailures = 1
PROPERTIES
  ImplementsReads
  EveryCallEnds
CHECK_DEADLOCK FALSE

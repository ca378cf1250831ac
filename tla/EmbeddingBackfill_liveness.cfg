SPECIFICATION Spec
CONSTANTS
  Proc = {p1, p2}
  Model = {m1}
  Record = {r1, r2}
  Existing = {r1, r2}
  Writer = {w1}
  Kinds = {"edit"}
  Nobody = Nobody
  Absent = Absent
  BatchSize = 1
  Deployed = {m1}
  Deletable = TRUE
  MaxFaults = 1
  MaxRestarts = 1
PROPERTIES
  ExistingValuesEmbedded
  PendingIsWorkedOff
CHECK_DEADLOCK FALSE

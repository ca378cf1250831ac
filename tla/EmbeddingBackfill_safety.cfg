SPECIFICATION Spec
CONSTANTS
  Proc = {p1}
  Model = {m1, m2}
  Record = {r1, r2}
  Existing = {r1}
  Writer = {w1, w2}
  Kinds = {"create", "edit", "import"}
  Nobody = Nobody
  Absent = Absent
  BatchSize = 1
  Deployed = {m1, m2}
  Deletable = TRUE
  MaxFaults = 3
  MaxRestarts = 2
SYMMETRY Symmetry
INVARIANTS
  TypeOK
  VectorsMatchValues
  VectorsMatchModel
CHECK_DEADLOCK FALSE

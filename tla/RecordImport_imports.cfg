CONSTANTS
  a = a
  b = b
  v = v
  w = w
  Key = {a, b}
  Value = {v, w}
  Unset = Unset
  NoLabel = NoLabel
  Label = {a}
  Documents <- All
  MergeBy <- Merges
  ChunkSize = 2
  MaxRequests = 2
  MaxImports = 3
SPECIFICATION Spec
INVARIANTS
  TypeOK
  NoValueLost
  LinksFollowNesting
  RetryCreatesNothing
CHECK_DEADLOCK FALSE

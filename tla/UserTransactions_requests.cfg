SPECIFICATION Spec
CONSTANTS
  Tx = {t1}
  NoTx = NoTx
  Req = {r1, r2, r3}
  MaxDisconnects = 1
  MaxFaults = 1
  MaxCrashes = 1
INVARIANTS
  SingleFinalizer
  RollbackHonoured
  AnsweredMeansFreed
  CommittedEffectsOwed
PROPERTIES
  FailureBlocksCommit
  EveryRequestEnds
  EffectsRun
CHECK_DEADLOCK FALSE

SPECIFICATION FairSpec
CONSTANTS
  r1 = r1
  r2 = r2
  r3 = r3
  None = None
  Requests <- MCThree
  Owner <- MCOwner
  Sizes = {2}
  ChunkSizes = {1, 2}
  CarefulFlush = TRUE
INVARIANTS FinishedMeansMoved EngineServes
PROPERTIES IsServer StartsInTurn FinishedReturns
CHECK_DEADLOCK FALSE

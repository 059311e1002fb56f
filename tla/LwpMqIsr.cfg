SPECIFICATION Spec
CONSTANTS
  t1 = t1
  t2 = t2
  t3 = t3
  NoThread = NoThread
  IsrMsg = IsrMsg
  Threads <- MCTwo
  Calls <- MCIsrCalls
  MaxPending = 2
SYMMETRY Symm
INVARIANTS BuffersAccounted BlockedAreQueued
CHECK_DEADLOCK FALSE

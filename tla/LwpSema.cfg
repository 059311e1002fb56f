SPECIFICATION FairSpec
CONSTANTS
  t1 = t1
  t2 = t2
  NoThread = NoThread
  Threads <- MCTwo
  Calls <- AllCalls
  StartCount = 1
  MaxCount = 2
PROPERTIES TimedWaitReturns EveryWaitServed IsCountingSema
INVARIANTS NoIdlePermit InterruptsRestored
CHECK_DEADLOCK FALSE

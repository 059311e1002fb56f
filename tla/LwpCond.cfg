SPECIFICATION CSpec
CONSTANTS
  t1 = t1
  t2 = t2
  t3 = t3
  m1 = m1
  m2 = m2
  NoThread = NoThread
  NoMutex = NoMutex
  Threads <- MCThree
  Mutexes = {m1}
  Recursive = {m1}
  MaxNest = 2
  Prios = {0}
  NewPrios = {}
  StartPrio <- MCPrio
  PrioPerHeader = 2
  MutexCalls = {"lock", "timed", "expired", "try", "unlock", "destroy", "init"}
  CondCalls <- AllCondCalls
SYMMETRY Symm
PROPERTIES IsCondMonitor HoldsOnReturn
INVARIANT TimersOfWaiters
CHECK_DEADLOCK FALSE

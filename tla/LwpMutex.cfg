SPECIFICATION Spec
CONSTANTS
  t1 = t1
  t2 = t2
  t3 = t3
  m1 = m1
  m2 = m2
  NoThread = NoThread
  NoMutex = NoMutex
  Threads <- MCThree
  Mutexes <- MCTwoMutexes
  Recursive = {}
  MaxNest = 1
  Prios = {0, 1, 2, 3, 4}
  StartPrio <- MCPrio
  PrioPerHeader = 4
  NewPrios <- MCNewPrios
  MutexCalls = {"timed", "unlock", "priority"}
SYMMETRY Symm
PROPERTIES IsMonitor QueuedByPriority
INVARIANTS PriorityRestored NoInversion BlockedAreInQueues
CHECK_DEADLOCK FALSE

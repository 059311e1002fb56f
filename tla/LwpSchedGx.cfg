SPECIFICATION FairSpec
CONSTANTS
  idle = idle
  main = main
  t1 = t1
  t2 = t2
  Threads <- MCThreads4
  Idle <- idle
  Main <- main
  IdlePrio = 2
  MainPrio = 1
  FirstSliced = 1
  TicksPerSlice = 1
  MaxSuspend = 1
  GxThreads = {main}
  ClientOps <- UnderGx
INVARIANTS
  ReadyQueuesAgree
PROPERTY RoundRobin
CHECK_DEADLOCK FALSE

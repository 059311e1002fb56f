SPECIFICATION FairSpec
CONSTANTS
  a1 = a1
  a2 = a2
  a3 = a3
  None = None
  Timers <- MCThree
  MaxInterval = 2
  Far = 1
  MaxLate = 0
  Intervals = {0,2}
  Periods = {1}
  EarlyCancel = FALSE
INVARIANTS TimersInOrder NextIsArmed
PROPERTIES RingsWhenWanted AlarmsRing
CHECK_DEADLOCK FALSE

SPECIFICATION Spec
CONSTANTS
  t1 = t1
  t2 = t2
  t3 = t3
  NoThread = NoThread
  IsrMsg = IsrMsg
  Threads <- MCThree
  Calls <- MCCloseCalls
  MaxPending = 2
SYMMETRY Symm
PROPERTY IsMailbox
INVARIANT BuffersAccounted
CHECK_DEADLOCK FALSE

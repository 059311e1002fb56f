SPECIFICATION FairSpec
CONSTANTS
  r1 = r1
  r2 = r2
  r3 = r3
  None = None
  Requests <- MCThree
  QueueSize = 2
  MaxKicks = 2
INVARIANTS RelaunchAlone OwnAnswer
PROPERTIES OneInMailbox EveryRequestEnds
CHECK_DEADLOCK FALSE

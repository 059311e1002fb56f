SPECIFICATION FairSpec
CONSTANTS
  f1 = f1
  f2 = f2
  None = None
  Names <- MCNames
  MaxFiles = 2
  NBlocks = 3
  Sizes = {1, 2}
  Modulus = 65536
  MaxCalls = 4
  MaxFaults = 2
INVARIANTS ChainsFit WritesOwnBlocks
PROPERTIES IsFileStore CallsReturn
CHECK_DEADLOCK FALSE

SPECIFICATION RaceSpec
CONSTANTS
  MaxPosts = 1
  MaxStops = 1
  MaxOps = 1
  MaxQueue = 1
  MaxDelay = 1
  ConfirmationSize = 1
INVARIANTS
  TypeOK
PROPERTIES
  StopReturns
CHECK_DEADLOCK FALSE

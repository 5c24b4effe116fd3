SPECIFICATION SerialSpec
CONSTANTS
  MaxPosts = 3
  MaxStops = 2
  MaxOps = 2
  MaxQueue = 4
  MaxDelay = 1
  ConfirmationSize = 1
INVARIANTS
  LossPerStop
CHECK_DEADLOCK FALSE

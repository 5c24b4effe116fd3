SPECIFICATION Spec
CONSTANTS
  MaxPosts = 2
  MaxStops = 0
  MaxOps = 1
  MaxQueue = 3
  MaxDelay = 1
  ConfirmationSize = 1
INVARIANT NoLoss

SPECIFICATION LiveSpec
CONSTANTS
  MaxPosts = 3
  MaxStops = 0
  MaxOps = 2
  MaxQueue = 4
  MaxDelay = 2
  ConfirmationSize = 1
INVARIANTS
  Accounted
  Ordered
  OneActivity
  ResourcesHeld
PROPERTIES
  ImplementsOutbox
  Delivered

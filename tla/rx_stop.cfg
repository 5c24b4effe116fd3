SPECIFICATION LiveSpec
CONSTANTS
  Connections = {c1}
  NoConnection = none
  Streams <- MCStreams
  MaxMessageSize = 2
  MaxStops = 1
PROPERTIES
  SentinelTells
CHECK_DEADLOCK FALSE

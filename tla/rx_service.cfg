SPECIFICATION LiveSpec
CONSTANTS
  Connections = {c1, c2, c3}
  NoConnection = none
  Streams <- MCStreams
  MaxMessageSize = 2
  MaxStops = 2
INVARIANTS
  OneAccept
  ChainPerStop
  SocketAwaited
PROPERTIES
  Served
CHECK_DEADLOCK FALSE

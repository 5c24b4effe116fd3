SPECIFICATION SessionLiveSpec
CONSTANTS
  Connections = {c1}
  Streams <- MCStreams
  MaxMessageSize = 4
  MaxEmpty = 2
  MaxLength = 4
  MaxSurplus = 4
INVARIANTS
  Prompt
PROPERTIES
  ImplementsInbox
  Answered
CHECK_DEADLOCK FALSE

SPECIFICATION Spec
CONSTANTS
  MaxMoPayload = 4
  MaxMtPayload = 2
  Messages <- MCMessages
  Calls <- MCCalls
  Streams <- MCStreams
  Beyond <- MCBeyond
  DamagedBytes = {0, 2, 3, 4, 68}
INVARIANTS
  RoundTrip
  AnnouncedLength
  Understood
  OwnElements
  Overread
CHECK_DEADLOCK FALSE

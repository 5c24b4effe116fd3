SPECIFICATION LiveSpec
CONSTANTS
  Callers = {c1}
  NoCaller = none
  Commands = {"Open", "GetSignalQuality", "WriteMessage", "ReadMessage", "SbdGetStatus"}
  MaxCommands = 3
INVARIANTS
  AtRest
  OwnAnswer
PROPERTIES
  Returns
CHECK_DEADLOCK FALSE

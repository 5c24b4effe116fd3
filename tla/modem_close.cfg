SPECIFICATION Spec
CONSTANTS
  Callers = {c1, c2}
  NoCaller = none
  Commands = {"Open", "SbdGetStatus"}
  MaxCommands = 2
PROPERTIES
  CloseWaits
CHECK_DEADLOCK FALSE

SPECIFICATION Spec
CONSTANTS
  Programs <- MCPrograms
  Kind <- MCKind
INVARIANTS
  LockOwned
PROPERTIES
  StopEnds
  NotStuck

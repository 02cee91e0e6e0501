SPECIFICATION Spec
CONSTANTS
  Exec = {w1, w2}
  MaxSteps = 2
  MaxRows = 2
  CallIds = FALSE
  DatabaseMayFail = FALSE
  MaxFaults = 1
  Nobody = Nobody
  Dead = Dead
INVARIANT ObservedIsCaptured
CHECK_DEADLOCK FALSE

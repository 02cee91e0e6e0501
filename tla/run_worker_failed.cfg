SPECIFICATION Spec
CONSTANTS
  Exec = {w1, w2}
  MaxSteps = 2
  MaxRows = 2
  CallIds = FALSE
  DatabaseMayFail = FALSE
  MaxFaults = 2
  Nobody = Nobody
  Dead = Dead
INVARIANT EndedRunHasNoWorkingMemory
CHECK_DEADLOCK FALSE

SPECIFICATION Spec
SYMMETRY Symmetry
CONSTANTS
  Exec = {w1, w2}
  MaxSteps = 1
  MaxRows = 2
  CallIds = TRUE
  DatabaseMayFail = TRUE
  MaxFaults = 2
  Nobody = Nobody
  Dead = Dead
INVARIANTS TypeOK
PROPERTIES DecisionsDurable
CHECK_DEADLOCK FALSE

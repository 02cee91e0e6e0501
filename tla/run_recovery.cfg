SPECIFICATION FairSpec
CONSTANTS
  Exec = {w1, w2}
  MaxSteps = 2
  MaxRows = 2
  CallIds = FALSE
  DatabaseMayFail = FALSE
  MaxFaults = 3
  Nobody = Nobody
  Dead = Dead
INVARIANTS OneExecution OneCallPerStep PromotedOnlyIfCompleted
PROPERTIES RunIsSequential RunEnds
CHECK_DEADLOCK FALSE

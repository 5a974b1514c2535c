CONSTANTS
  Jobs = {"j"}
  Cap = 1
  MaxTroubles = 0
  MaxReconciles = 2
SPECIFICATION Spec
CHECK_DEADLOCK FALSE
INVARIANT SucceededRanTasks

CONSTANTS
  s1 = s1
  Schedulers = {s1}
  NumTasks = 2
  StageOf <- StagePerTask
  NumStages = 2
  MaxDispatchAttempts = 2
  MaxEpoch = 1
  MaxCrashes = 1
  MaxFaults = 1
  MaxResumes = 1
  MaxReplays = 0
SPECIFICATION Spec
CHECK_DEADLOCK FALSE
INVARIANT TypeOK
INVARIANT SuccessWasExecuted
INVARIANT MemoryBehindLog
INVARIANT JobSuccessJustified

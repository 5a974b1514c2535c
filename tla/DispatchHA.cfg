CONSTANTS
  s1 = s1
  s2 = s2
  Schedulers = {s1, s2}
  NumTasks = 1
  StageOf <- OneStage
  NumStages = 1
  MaxDispatchAttempts = 1
  MaxEpoch = 3
  MaxCrashes = 0
  MaxFaults = 0
  MaxResumes = 0
  MaxReplays = 1
SPECIFICATION Spec
CHECK_DEADLOCK FALSE
SYMMETRY SchedulerSymmetry
INVARIANT NoClaimNoDispatch
PROPERTY OnlyLeaderExecutes
INVARIANT FirstAttemptOnce

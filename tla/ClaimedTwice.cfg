CONSTANTS
  s1 = s1
  s2 = s2
  s3 = s3
  Schedulers = {s1, s2, s3}
  NumTasks = 1
  StageOf <- OneStage
  NumStages = 1
  MaxDispatchAttempts = 2
  MaxEpoch = 4
  MaxCrashes = 0
  MaxFaults = 0
  MaxResumes = 0
  MaxReplays = 2
SPECIFICATION Spec
CHECK_DEADLOCK FALSE
SYMMETRY SchedulerSymmetry
CONSTRAINT Relay
INVARIANT ClaimUnique

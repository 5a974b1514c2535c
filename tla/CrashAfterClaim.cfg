CONSTANTS
  s1 = s1
  Schedulers = {s1}
  NumTasks = 1
  StageOf <- OneStage
  NumStages = 1
  MaxDispatchAttempts = 1
  MaxEpoch = 1
  MaxCrashes = 1
  MaxFaults = 0
  MaxResumes = 0
  MaxReplays = 0
SPECIFICATION FairSpec
CHECK_DEADLOCK FALSE
PROPERTY EventuallySettled

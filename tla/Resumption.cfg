CONSTANTS
  c1 = c1
  c2 = c2
  w1 = w1
  w2 = w2
  Callbacks = {c1, c2}
  Workers = {w1, w2}
  MaxResumptionAttempts = 1
  MaxRequests = 3
  MaxFaults = 1
  MaxSlow = 1
  MaxCrashes = 1
  MaxExpiries = 1
SPECIFICATION Spec
CHECK_DEADLOCK FALSE
SYMMETRY ActorSymmetry
INVARIANT SingleFrontier
INVARIANT NeverLost
INVARIANT DoneHasMessage
INVARIANT ResumedOnce

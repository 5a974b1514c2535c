CONSTANTS
  Peers = {p1, p2, p3}
  c1 = c1
  c2 = c2
  c3 = c3
  n1 = n1
  n2 = n2
SPECIFICATION Spec
SYMMETRY Symmetry
CHECK_DEADLOCK FALSE
INVARIANT LogSound
INVARIANT NodeChoice
PROPERTY LimitsHold
PROPERTY BarrierImplements
INVARIANT LocksExclude

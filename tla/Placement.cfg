SPECIFICATION Spec
CONSTANTS
    NoNode = NoNode
    NoKey = NoKey
    k1 = k1
    Keys = {k1}
    Nodes = {n1, n2}
    NumTasks = 2
    Key <- FirstKeyed
    DefaultMax = 1
    MaxCap = 2
    WorkerMax = 2
    MaxDispatchAttempts = 2
    Deferral = TRUE
    MaxReports = 1
    MaxTroubles = 1
INVARIANTS
    SlotAccounting
    NoReturnToRefuser
SYMMETRY NodeSymmetry
CHECK_DEADLOCK FALSE

SPECIFICATION Spec
CHECK_DEADLOCK FALSE
 
INVARIANT TablesKeepEverything
PROPERTY WorkersAccounted
PROPERTY MemoryIsExact
INVARIANT ServicesBounded
INVARIANT ActorsSupervised
 
INVARIANT GuardsHold
INVARIANT HumanWaitsBounded

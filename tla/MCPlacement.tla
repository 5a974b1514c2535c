----------------------------- MODULE MCPlacement -----------------------------
(* TLC instances of Placement: the partition keys of the tasks.             *)
EXTENDS Placement, TLC

CONSTANTS k1

FirstKeyed == [t \in Tasks |-> IF t = 1 THEN k1 ELSE NoKey]

NodeSymmetry == Permutations(Nodes)
=============================================================================

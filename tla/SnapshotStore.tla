---------------------------- MODULE SnapshotStore ----------------------------
(***************************************************************************)
(* StateStore of src/pkg/graph/state_store.go as MemoryStateStore          *)
(* implements it under one lock: a map from execution identifiers to       *)
(* snapshots, each operation one step. FileStateStore implements it.       *)
(***************************************************************************)
CONSTANTS Ids, Snaps, None

VARIABLE snapshots

Init == snapshots = [i \in Ids |-> None]

Save(i, s) == snapshots' = [snapshots EXCEPT ![i] = s]

SaveBatch(batch) == snapshots' = [i \in Ids |-> IF i \in DOMAIN batch THEN batch[i] ELSE snapshots[i]]

Delete(i) == snapshots' = [snapshots EXCEPT ![i] = None]

Clear == snapshots' = [i \in Ids |-> None]

Next ==
    \/ \E i \in Ids, s \in Snaps : Save(i, s)
    \/ \E ids \in SUBSET Ids : \E batch \in [ids -> Snaps] : SaveBatch(batch)
    \/ \E i \in Ids : Delete(i)
    \/ Clear

Spec == Init /\ [][Next]_snapshots
==============================================================================

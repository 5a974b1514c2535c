---------------------------- MODULE SelectionRows ----------------------------
(***************************************************************************)
(* Rows of selections by selectNodeByCapacity while the capacity data      *)
(* stays as it is: every list of up to MaxNodes candidates with every      *)
(* combination of free slots, freshness and cooldown. The result of the    *)
(* loop is compared with a definition without a loop.                      *)
(***************************************************************************)
EXTENDS NodeSelection

CONSTANTS
    MaxNodes,              \* bound: number of candidate nodes
    MaxOver, MaxAvail,     \* bounds: slots a node is over-committed by, and free slots
    MaxPicks               \* bound: number of selections in a row

-----------------------------------------------------------------------------
VARIABLES nodes, avail, fresh, cooling, nodeIndex, picks

vars == <<nodes, avail, fresh, cooling, nodeIndex, picks>>

Candidates == {nodes[i] : i \in DOMAIN nodes}
Selected == selectNodeByCapacity(nodes, avail, fresh, cooling, nodeIndex)

Init ==
    /\ nodes \in {[i \in 1..k |-> i] : k \in 1..MaxNodes}
    /\ avail \in [Candidates -> -MaxOver..MaxAvail]
    /\ fresh \in [Candidates -> BOOLEAN]
    /\ cooling \in SUBSET Candidates
    /\ nodeIndex = 0
    /\ picks = [n \in Candidates |-> 0]

(* nodeIndex only moves when there were several candidates.                 *)
Select ==
    /\ nodeIndex < MaxPicks
    /\ Selected # NoNode
    /\ Len(nodes) > 1
    /\ picks' = [picks EXCEPT ![Selected] = @ + 1]
    /\ nodeIndex' = nodeIndex + 1
    /\ UNCHANGED <<nodes, avail, fresh, cooling>>

Next == Select

Spec == Init /\ [][Next]_vars

-----------------------------------------------------------------------------
(* What the selection should be, without a loop.                            *)
Eligible(isFresh) == {n \in Candidates \ cooling : fresh[n] = isFresh}

Best(ns) == {n \in ns : avail[n] > 0 /\ \A m \in ns : avail[m] <= avail[n]}

(* The scheduler picks a node with the most free slots among the fresh      *)
(* ones; if there are fresh nodes and all are full it picks none; and it    *)
(* falls back to the best stale node only when there is no fresh node: the  *)
(* precedence stated in selectNodeByCapacity. It holds while no node is     *)
(* over-committed by more than one slot: the loop starts from -1 free slots *)
(* and does not remember nodes below that. With such nodes too, the loop    *)
(* picks one of CapacityChoice, the set Placement takes its nodes from.     *)
SelectionPrecedence ==
    LET preferred == IF Eligible(TRUE) # {} THEN Best(Eligible(TRUE))
                                            ELSE Best(Eligible(FALSE))
    IN  /\ (\A n \in Candidates : avail[n] >= -1) =>
              IF preferred = {} THEN Selected = NoNode ELSE Selected \in preferred
        /\ Selected \in CapacityChoice(Candidates, avail, fresh, cooling)

(* A node is only picked if it is out of cooldown and has a free slot, and  *)
(* a stale node never while a fresh one has a free slot, over-committed     *)
(* nodes (negative free slots) included.                                    *)
NeverPicksFull ==
    Selected # NoNode =>
        /\ Selected \notin cooling
        /\ avail[Selected] > 0
        /\ ~fresh[Selected] => \A n \in Eligible(TRUE) : avail[n] <= 0

(* Round robin: after any number of selections from the same data, the      *)
(* nodes that tie for best have been picked equally often, up to one.       *)
TiesShareWork ==
    \A m, n \in Candidates :
        picks[m] > 0 /\ n \notin cooling /\ fresh[n] = fresh[m] /\ avail[n] = avail[m]
            => picks[m] - picks[n] \in {-1, 0, 1}
=============================================================================

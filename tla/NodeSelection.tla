---------------------------- MODULE NodeSelection ----------------------------
(***************************************************************************)
(* How the scheduler picks a worker by capacity                            *)
(* (src/pkg/scheduler/scheduler.go, selectNodeByCapacity): one pass over   *)
(* the candidate nodes that keeps the best fresh and the best stale ones,  *)
(* then the precedence between the two and a round robin among ties.       *)
(*                                                                         *)
(* avail maps a node to its free slots (negative when over-committed),     *)
(* fresh says whether its capacity data is within the TTL, cooling is the  *)
(* set of nodes in dispatch cooldown.                                      *)
(***************************************************************************)
EXTENDS Integers, Sequences

CONSTANT NoNode    \* no node was selected

-----------------------------------------------------------------------------
(* The best nodes seen so far: how many free slots, and which nodes.        *)
Unseen == [slots |-> -1, nodes |-> << >>]

\* Mutant: a tie replaces the nodes it ties with.
Better_LastTie(best, n, slots) ==
    IF slots >= best.slots THEN [slots |-> slots, nodes |-> <<n>>] ELSE best

Better(best, n, slots) ==
    CASE slots > best.slots -> [slots |-> slots, nodes |-> <<n>>]
      [] slots = best.slots -> [best EXCEPT !.nodes = Append(@, n)]
      [] OTHER -> best

\* Mutant: nodes in cooldown are looked at like any other.
Scanned_NoCooldown(seen, n, avail, fresh, cooling) ==
    IF fresh[n] THEN [seen EXCEPT !.fresh = Better(@, n, avail[n])]
    ELSE [seen EXCEPT !.stale = Better(@, n, avail[n])]

(* One iteration of the loop of selectNodeByCapacity.                       *)
Scanned(seen, n, avail, fresh, cooling) ==
    IF n \in cooling THEN seen
    ELSE IF fresh[n] THEN [seen EXCEPT !.fresh = Better(@, n, avail[n])]
    ELSE [seen EXCEPT !.stale = Better(@, n, avail[n])]

(* The loop: what was seen after all nodes.                                 *)
ScanNodes(nodes, avail, fresh, cooling) ==
    LET seen[i \in 0..Len(nodes)] ==
            IF i = 0 THEN [fresh |-> Unseen, stale |-> Unseen]
            ELSE Scanned(seen[i - 1], nodes[i], avail, fresh, cooling)
    IN  seen[Len(nodes)]

RoundRobin(nodes, index) == nodes[(index % Len(nodes)) + 1]

\* Mutant: full fresh nodes do not end the selection.
selectNodeByCapacity_Fallback(nodes, avail, fresh, cooling, index) ==
    LET seen == ScanNodes(nodes, avail, fresh, cooling)
    IN  CASE seen.fresh.slots > 0 -> RoundRobin(seen.fresh.nodes, index)
          [] seen.fresh.slots <= 0 /\ seen.stale.slots > 0 ->
                RoundRobin(seen.stale.nodes, index)
          [] OTHER -> NoNode

(* The whole of selectNodeByCapacity. A single candidate is only asked for  *)
(* a free slot, whatever the age of its data.                               *)
selectNodeByCapacity(nodes, avail, fresh, cooling, index) ==
    LET seen == ScanNodes(nodes, avail, fresh, cooling)
    IN  CASE Len(nodes) = 1 ->
                IF nodes[1] \notin cooling /\ avail[nodes[1]] > 0
                THEN nodes[1] ELSE NoNode
          [] Len(nodes) # 1 /\ seen.fresh.slots > 0 ->
                RoundRobin(seen.fresh.nodes, index)
          [] Len(nodes) # 1 /\ seen.fresh.slots <= 0 /\ seen.fresh.nodes # << >> ->
                NoNode
          [] Len(nodes) # 1 /\ seen.fresh.nodes = << >> /\ seen.stale.slots > 0 ->
                RoundRobin(seen.stale.nodes, index)
          [] OTHER -> NoNode

-----------------------------------------------------------------------------
\* Mutant: nodes in cooldown are ranked like any other.
CapacityChoice_NoCooldown(ns, avail, fresh, cooling) ==
    LET seen(isFresh) == {n \in ns : fresh[n] = isFresh /\ avail[n] >= -1}
        ranked == IF seen(TRUE) # {} THEN seen(TRUE) ELSE seen(FALSE)
        top == {n \in ranked : avail[n] > 0 /\ \A m \in ranked : avail[m] <= avail[n]}
    IN  IF top = {} THEN {NoNode} ELSE top

(* The results selectNodeByCapacity can have when the order of the nodes ns *)
(* and the round-robin index are any: the loop has seen the fresh and the   *)
(* stale nodes that are out of cooldown and not over-committed by more than *)
(* one slot, and picks among the freest of the fresh ones, if any.          *)
CapacityChoice(ns, avail, fresh, cooling) ==
    LET seen(isFresh) == {n \in ns \ cooling : fresh[n] = isFresh /\ avail[n] >= -1}
        ranked == IF seen(TRUE) # {} THEN seen(TRUE) ELSE seen(FALSE)
        top == {n \in ranked : avail[n] > 0 /\ \A m \in ranked : avail[m] <= avail[n]}
    IN  IF top = {} THEN {NoNode} ELSE top
=============================================================================

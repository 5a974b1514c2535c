--------------------------- MODULE BarrierContract ---------------------------
(***************************************************************************)
(* What DistributedBarrier promises: no call of Wait returns without error *)
(* before enough calls have joined its generation.                         *)
(***************************************************************************)
CONSTANTS
    Waiters, Generations,
    Crowds      \* the sets of waiters that are enough to open the barrier

VARIABLES
    joined,     \* [Generations -> SUBSET Waiters]: calls that registered
    through     \* calls that returned without error

contractVars == <<joined, through>>

Init == joined = [g \in Generations |-> {}] /\ through = {}

Join(w, g) ==
    /\ w \notin joined[g]
    /\ joined' = [joined EXCEPT ![g] = @ \cup {w}]
    /\ UNCHANGED through

Pass(w, g) ==
    /\ w \in joined[g] /\ joined[g] \in Crowds
    /\ through' = through \cup {w}
    /\ UNCHANGED joined

Next == \E w \in Waiters, g \in Generations : Join(w, g) \/ Pass(w, g)

Spec == Init /\ [][Next]_contractVars
=============================================================================

-------------------------- MODULE PlacementProofs --------------------------
(***************************************************************************)
(* Slot accounting, and that retries avoid the nodes that refused a task,  *)
(* hold for every set of nodes, every number of tasks and every bound:     *)
(* Spec => []SlotAccounting and Spec => []NoReturnToRefuser.               *)
(***************************************************************************)
EXTENDS Placement, FiniteSetTheorems, TLAPS

Fields == {"pc", "attempt", "node", "list", "entry"}

Entry == [max : Int, reserved : Int, reported : Int, fresh : BOOLEAN]

(* The shapes that matter to the count. Which node a task was given is not  *)
(* among them: a reservation and its release name the same node, whatever   *)
(* it is.                                                                   *)
Shapes ==
    /\ cap \in [Nodes -> Entry]
    /\ \A n \in Nodes \ known : cap[n] = NewCapacity
    /\ inFlight \in [Nodes -> Int]
    /\ sent \in Int
    /\ \A r \in reports : r.node \in Nodes /\ r.inFlight \in Int
    /\ DOMAIN task = Tasks
    /\ \A t \in Tasks : DOMAIN task[t] = Fields
    /\ stage \in [pc : StagePcs, nodes : SUBSET Nodes, next : Nat]
    /\ healthy \subseteq Nodes

(* Tasks the run loop has not reached are new: starting one takes no task   *)
(* off a node.                                                              *)
Ahead ==
    /\ \A t \in Tasks : t > stage.next => task[t].pc = "new"
    /\ \A t \in Tasks : stage.pc \in {"start", "defer"} /\ t = stage.next
                            => task[t].pc = "new"
    /\ stage.pc = "start" => stage.next = 1

CountInv == Shapes /\ Ahead /\ SlotAccounting

-----------------------------------------------------------------------------
(* The tasks are a finite set, and so are those on a node.                  *)
LEMMA TasksFinite == IsFiniteSet(Tasks) /\ \A n : IsFiniteSet(OnNode(n))
<1>1. IsFiniteSet(Tasks)
  BY PlacementAssumption, FS_Interval DEF Tasks
<1>2. \A n : OnNode(n) \subseteq Tasks
  BY DEF OnNode
<1> QED
  BY <1>1, <1>2, FS_Subset

(* A new entry has the shape of an entry.                                   *)
LEMMA NewEntry == NewCapacity \in Entry
  BY PlacementAssumption DEF NewCapacity, Entry

(* getOrCreateNodeCapacityLocked finds what is there.                       *)
LEMMA CapacityIsEntry ==
  ASSUME Shapes, NEW n \in Nodes
  PROVE  Capacity(n) = cap[n]
  BY DEF Shapes, Capacity

(* The count holds in the initial state.                                    *)
LEMMA CountInit == Init => CountInv
<1> SUFFICES ASSUME Init PROVE CountInv
  OBVIOUS
<1>1. Shapes
  <2>1. cap \in [Nodes -> Entry] /\ \A n \in Nodes \ known : cap[n] = NewCapacity
    BY NewEntry DEF Init
  <2>2. stage \in [pc : StagePcs, nodes : SUBSET Nodes, next : Nat] /\ healthy \subseteq Nodes
    BY DEF Init, StagePcs
  <2>3. inFlight \in [Nodes -> Int] /\ sent \in Int
    BY DEF Init
  <2>4. DOMAIN task = Tasks /\ \A t \in Tasks : task[t] = NewTask
    BY DEF Init
  <2>5. DOMAIN NewTask = Fields
    BY DEF NewTask, Fields
  <2>6. reports = {}
    BY DEF Init
  <2> QED
    BY <2>1, <2>2, <2>3, <2>4, <2>5, <2>6 DEF Shapes
<1>4. Ahead
  BY DEF Init, Ahead, NewTask, Tasks
<1>2. \A n : OnNode(n) = {}
  BY DEF Init, OnNode, NewTask
<1>3. \A n \in Nodes : cap[n].reserved = 0
  BY DEF Init, NewCapacity
<1> QED
  BY <1>1, <1>2, <1>3, <1>4, FS_EmptySet DEF CountInv, SlotAccounting

(* The count survives a step that moves no task onto or off a node.         *)
LEMMA SameCount ==
  ASSUME SlotAccounting,
         \A n \in Nodes : cap'[n].reserved = cap[n].reserved,
         \A n \in Nodes : OnNode(n)' = OnNode(n)
  PROVE  SlotAccounting'
  BY DEF SlotAccounting

(* A task that is on no node before and after the step does not count.      *)
LEMMA SameTasks ==
  ASSUME \A t \in Tasks : \/ task'[t] = task[t]
                          \/ task[t].pc \notin {"call", "exec"} /\ task'[t].pc \notin {"call", "exec"}
  PROVE  \A n \in Nodes : OnNode(n)' = OnNode(n)
  BY DEF OnNode

(* Looking at a node creates the entry it already has in the model.         *)
LEMMA TouchedSame ==
  ASSUME Shapes, NEW ns, Touched(ns)
  PROVE  /\ cap' = cap
         /\ \A n \in Nodes \ known' : cap'[n] = NewCapacity
<1>1. \A n \in Nodes : Capacity(n) = cap[n]
  BY CapacityIsEntry
<1>2. cap' = [n \in Nodes |-> cap[n]]
  BY <1>1 DEF Touched
<1>3. cap' = cap
  BY <1>2 DEF Shapes
<1> QED
  BY <1>3 DEF Shapes, Touched

(* Placing a task moves it, and the next one, between steps off the nodes.  *)
LEMMA PlacedSame ==
  ASSUME Shapes, Ahead, NEW t \in Tasks, NEW n, Placed(t, n),
         task[t].pc \notin {"call", "exec", "new"}
  PROVE  /\ \A u \in Tasks : \/ task'[u] = task[u]
                             \/ task[u].pc \notin {"call", "exec"} /\ task'[u].pc \notin {"call", "exec"}
         /\ DOMAIN task' = Tasks
         /\ \A u \in Tasks : DOMAIN task'[u] = Fields
         /\ stage' \in [pc : StagePcs, nodes : SUBSET Nodes, next : Nat]
         /\ Ahead'
<1> DEFINE placed == [task EXCEPT ![t].pc = "claim", ![t].node = n,
                                  ![t].attempt = @ + 1, ![t].entry = NoNode]
<1> DEFINE u0 == stage.next + 1
<1>1. /\ DOMAIN placed = Tasks
      /\ \A u \in Tasks : DOMAIN placed[u] = Fields
      /\ placed[t].pc = "claim"
      /\ \A u \in Tasks : u # t => placed[u] = task[u]
  BY DEF Shapes
<1>2. CASE ~Selecting(t)
  <2>1. task' = placed /\ stage' = stage
    BY <1>2 DEF Placed
  <2> HIDE DEF placed
  <2> QED
    BY <1>1, <2>1 DEF Shapes, Ahead, Tasks
<1>3. CASE Selecting(t) /\ u0 \in Tasks
  <2>1. /\ task' = [placed EXCEPT ![u0].pc = "lookup", ![u0].list = stage.nodes]
        /\ stage' = [stage EXCEPT !.next = u0]
    BY <1>3, Zenon DEF Placed
  <2>2. stage.next = t /\ stage.pc = "select" /\ u0 # t /\ u0 \in Nat
    BY <1>3 DEF Selecting, Shapes, Tasks
  <2> HIDE DEF placed
  <2>3. task[u0].pc = "new"
    BY <1>3, <2>2 DEF Ahead, Tasks, Shapes
  <2>4. task'[u0].pc = "lookup" /\ \A u \in Tasks : u # u0 => task'[u] = placed[u]
    BY <1>1, <1>3, <2>1
  <2>5. DOMAIN task' = Tasks /\ \A u \in Tasks : DOMAIN task'[u] = Fields
    <3>1. DOMAIN task' = Tasks
      BY <1>1, <2>1
    <3>2. DOMAIN task'[u0] = DOMAIN placed[u0]
      BY <1>1, <1>3, <2>1
    <3> QED
      BY <1>1, <1>3, <2>4, <3>1, <3>2
  <2>6. stage' \in [pc : StagePcs, nodes : SUBSET Nodes, next : Nat] /\ stage'.next = u0 /\ stage'.pc = "select"
    BY <2>1, <2>2 DEF Shapes
  <2>7. Ahead'
    BY <1>1, <2>2, <2>4, <2>6 DEF Ahead, Tasks
  <2> QED
    BY <1>1, <2>3, <2>4, <2>5, <2>6, <2>7
<1>4. CASE Selecting(t) /\ u0 \notin Tasks
  <2>1. task' = placed /\ stage' = [stage EXCEPT !.pc = "wait", !.next = u0]
    BY <1>4 DEF Placed
  <2> HIDE DEF placed
  <2>2. stage' \in [pc : StagePcs, nodes : SUBSET Nodes, next : Nat] /\ stage'.next = u0 /\ stage'.pc = "wait"
    <3>1. u0 \in Nat
      BY DEF Shapes
    <3> HIDE DEF u0
    <3> QED
      BY <2>1, <3>1, Zenon DEF Shapes, StagePcs
  <2>3. stage.next = t
    BY <1>4 DEF Selecting
  <2>4. Ahead'
    BY <1>1, <2>1, <2>2, <2>3 DEF Ahead, Tasks
  <2> QED
    BY <1>1, <2>1, <2>2, <2>4
<1> QED
  BY <1>2, <1>3, <1>4

-----------------------------------------------------------------------------
(* A step that reserves and releases nothing keeps the count.               *)
LEMMA QuietStep ==
  ASSUME CountInv, Shapes', Ahead',
         \A n \in Nodes : cap'[n].reserved = cap[n].reserved,
         \A t \in Tasks : \/ task'[t] = task[t]
                          \/ task[t].pc \notin {"call", "exec"} /\ task'[t].pc \notin {"call", "exec"}
  PROVE  CountInv'
  BY SameTasks, SameCount DEF CountInv

(* Moving one task, other than onto or off a node, keeps shapes and count.  *)
LEMMA MoveTask ==
  ASSUME Shapes, Ahead, NEW t \in Tasks, NEW v,
         task[t].pc # "new",
         task' = [task EXCEPT ![t] = v],
         DOMAIN v = Fields,
         UNCHANGED stage
  PROVE  /\ DOMAIN task' = Tasks
         /\ \A u \in Tasks : DOMAIN task'[u] = Fields
         /\ Ahead'
         /\ task'[t] = v
         /\ \A u \in Tasks : u # t => task'[u] = task[u]
  BY DEF Shapes, Ahead

(* The part of the shapes that selection leaves alone.                      *)
LEMMA SameShapes ==
  ASSUME Shapes, UNCHANGED <<inFlight, sent, reports, healthy>>,
         cap' = cap,
         \A n \in Nodes \ known' : cap'[n] = NewCapacity,
         DOMAIN task' = Tasks,
         \A u \in Tasks : DOMAIN task'[u] = Fields,
         stage' \in [pc : StagePcs, nodes : SUBSET Nodes, next : Nat]
  PROVE  Shapes'
  BY DEF Shapes

(* One task moves between steps off the nodes, and nothing else changes     *)
(* but entries that appear.                                                 *)
LEMMA OneMoves ==
  ASSUME CountInv, NEW t \in Tasks, NEW v,
         task[t].pc \notin {"new", "call", "exec"},
         task' = [task EXCEPT ![t] = v],
         DOMAIN v = Fields, v.pc \notin {"call", "exec"},
         cap' = cap, \A n \in Nodes \ known' : cap'[n] = NewCapacity,
         UNCHANGED <<stage, inFlight, sent, reports, healthy>>
  PROVE  CountInv'
<1>1. Shapes /\ Ahead
  BY DEF CountInv
<1>2. /\ DOMAIN task' = Tasks
      /\ \A u \in Tasks : DOMAIN task'[u] = Fields
      /\ Ahead'
      /\ task'[t] = v
      /\ \A u \in Tasks : u # t => task'[u] = task[u]
  BY <1>1, MoveTask, Zenon
<1>3. Shapes'
  BY <1>1, <1>2, SameShapes DEF Shapes
<1> QED
  BY <1>2, <1>3, QuietStep

(* Looking a task's affinity up keeps the count.                            *)
LEMMA LookupCount ==
  ASSUME CountInv, NEW t \in Tasks, Lookup(t)
  PROVE  CountInv'
<1> DEFINE entry == IF Key[t] = NoKey THEN NoNode ELSE affinity[Key[t]]
<1> DEFINE v == [task[t] EXCEPT !.pc = "choose", !.entry = entry]
<1>1. /\ task[t].pc = "lookup"
      /\ UNCHANGED <<inFlight, sent, reports, healthy>>
      /\ Touched({entry}) \/ UNCHANGED <<known, cap>>
      /\ \/ Placed(t, entry)
         \/ task' = [task EXCEPT ![t].pc = "choose", ![t].entry = entry] /\ UNCHANGED stage
  BY DEF Lookup, worldVars
<1>2. Shapes /\ Ahead
  BY DEF CountInv
<1> HIDE DEF entry
<1>3. cap' = cap /\ \A n \in Nodes \ known' : cap'[n] = NewCapacity
  BY <1>1, <1>2, TouchedSame DEF Shapes
<1>4. CASE Placed(t, entry)
  BY <1>1, <1>2, <1>3, <1>4, PlacedSame, SameShapes, QuietStep
<1>5. CASE task' = [task EXCEPT ![t].pc = "choose", ![t].entry = entry] /\ UNCHANGED stage
  <2>1. task' = [task EXCEPT ![t] = v]
    BY <1>2, <1>5, Zenon DEF Shapes
  <2>2. v.pc = "choose" /\ DOMAIN v = Fields
    BY <1>2 DEF Shapes, Fields
  <2> HIDE DEF v
  <2> QED
    BY <1>1, <1>3, <1>5, <2>1, <2>2, OneMoves, Zenon
<1> QED
  BY <1>1, <1>4, <1>5

(* Finding no capacity keeps the count: the run loop takes its task back,   *)
(* a goroutine fails.                                                       *)
LEMMA NoCapacityCount ==
  ASSUME CountInv, NEW t \in Tasks, NoCapacity(t), task[t].pc = "choose",
         cap' = cap, \A n \in Nodes \ known' : cap'[n] = NewCapacity,
         UNCHANGED <<inFlight, sent, reports, healthy>>
  PROVE  CountInv'
<1> DEFINE moved(pc) == [task[t] EXCEPT !.pc = pc]
<1>1. Shapes /\ Ahead
  BY DEF CountInv
<1>2. \A pc : moved(pc).pc = pc /\ DOMAIN moved(pc) = Fields
  BY <1>1 DEF Shapes, Fields
<1>3. CASE Selecting(t)
  <2>1. stage.next = t /\ stage.pc = "select"
    BY <1>3 DEF Selecting
  <2>2. \E p \in {"defer", "wait"} : stage' = [stage EXCEPT !.pc = p]
    BY <1>3 DEF NoCapacity
  <2>3. task' = [task EXCEPT ![t] = moved("new")]
    BY <1>1, <1>3 DEF NoCapacity, Shapes
  <2>4. stage' \in [pc : StagePcs, nodes : SUBSET Nodes, next : Nat] /\ stage'.next = t /\ stage'.pc # "start"
    BY <1>1, <2>1, <2>2 DEF Shapes, StagePcs
  <2> HIDE DEF moved
  <2>5. /\ DOMAIN task' = Tasks
        /\ \A u \in Tasks : DOMAIN task'[u] = Fields
        /\ task'[t].pc = "new"
        /\ \A u \in Tasks : u # t => task'[u] = task[u]
    BY <1>1, <1>2, <2>3 DEF Shapes
  <2>6. Ahead'
    BY <1>1, <2>1, <2>4, <2>5 DEF Ahead, Tasks
  <2>7. Shapes'
    BY <1>1, <2>4, <2>5, SameShapes
  <2> QED
    BY <2>5, <2>6, <2>7, QuietStep
<1>4. CASE ~Selecting(t)
  <2>1. task' = [task EXCEPT ![t] = moved("failed")] /\ UNCHANGED stage
    BY <1>1, <1>4 DEF NoCapacity, Shapes
  <2> HIDE DEF moved
  <2> QED
    BY <1>2, <2>1, OneMoves, Zenon
<1> QED
  BY <1>3, <1>4

(* Choosing a node keeps the count.                                         *)
LEMMA ChooseCount ==
  ASSUME CountInv, NEW t \in Tasks, Choose(t)
  PROVE  CountInv'
<1>1. /\ task[t].pc = "choose"
      /\ UNCHANGED <<inFlight, sent, reports, healthy>>
      /\ Touched(task[t].list)
  BY DEF Choose, worldVars
<1>2. Shapes /\ Ahead
  BY DEF CountInv
<1>3. cap' = cap /\ \A n \in Nodes \ known' : cap'[n] = NewCapacity
  BY <1>1, <1>2, TouchedSame
<1>4. PICK n : \/ NoCapacity(t)
               \/ Placed(t, n)
               \/ task' = [task EXCEPT ![t].pc = "pin", ![t].node = n] /\ UNCHANGED stage
  BY DEF Choose
<1>5. CASE NoCapacity(t)
  BY <1>1, <1>3, <1>5, NoCapacityCount
<1>6. CASE Placed(t, n)
  BY <1>1, <1>2, <1>3, <1>6, PlacedSame, SameShapes, QuietStep
<1>7. CASE task' = [task EXCEPT ![t].pc = "pin", ![t].node = n] /\ UNCHANGED stage
  <2> DEFINE v == [task[t] EXCEPT !.pc = "pin", !.node = n]
  <2>1. task' = [task EXCEPT ![t] = v]
    BY <1>2, <1>7, Zenon DEF Shapes
  <2>2. v.pc = "pin" /\ DOMAIN v = Fields
    BY <1>2 DEF Shapes, Fields
  <2> HIDE DEF v
  <2> QED
    BY <1>1, <1>3, <1>7, <2>1, <2>2, OneMoves, Zenon
<1> QED
  BY <1>4, <1>5, <1>6, <1>7

(* Pinning a partition key keeps the count.                                 *)
LEMMA PinCount ==
  ASSUME CountInv, NEW t \in Tasks, Pin(t)
  PROVE  CountInv'
<1>1. /\ task[t].pc = "pin" /\ Placed(t, task[t].node)
      /\ UNCHANGED <<cap, known, inFlight, sent, reports, healthy>>
  BY DEF Pin, worldVars, capacityVars
<1>2. Shapes /\ Ahead
  BY DEF CountInv
<1>3. cap' = cap /\ \A n \in Nodes \ known' : cap'[n] = NewCapacity
  BY <1>1, <1>2 DEF Shapes
<1> QED
  BY <1>1, <1>2, <1>3, PlacedSame, SameShapes, QuietStep

-----------------------------------------------------------------------------
(* An entry stays one when its counter is set.                              *)
LEMMA EntryUpdate ==
  ASSUME NEW e \in Entry, NEW x \in Int
  PROVE  /\ [e EXCEPT !.reserved = x, !.fresh = TRUE] \in Entry
         /\ [e EXCEPT !.reserved = x, !.fresh = TRUE].reserved = x
  BY Zenon DEF Entry

(* What reserving does to the entries.                                      *)
LEMMA ReserveEffect ==
  ASSUME Shapes, NEW m, reserveNodeSlot(m)
  PROVE  /\ cap' \in [Nodes -> Entry]
         /\ \A n \in Nodes : cap'[n].reserved = IF n = m THEN cap[n].reserved + 1
                                                         ELSE cap[n].reserved
         /\ \A n \in Nodes \ known' : cap'[n] = NewCapacity
<1>1. CASE m \in Nodes
  <2>1. Capacity(m) = cap[m] /\ cap[m] \in Entry
    BY <1>1, CapacityIsEntry DEF Shapes
  <2> DEFINE e == [cap[m] EXCEPT !.reserved = @ + 1, !.fresh = TRUE]
  <2>2. e \in Entry /\ e.reserved = cap[m].reserved + 1
    <3>1. cap[m].reserved + 1 \in Int
      BY <2>1 DEF Entry
    <3> QED
      BY <2>1, <3>1, EntryUpdate, Zenon
  <2>3. cap' = [cap EXCEPT ![m] = e] /\ known' = known \cup {m}
    BY <2>1 DEF reserveNodeSlot
  <2> HIDE DEF e
  <2> QED
    BY <1>1, <2>2, <2>3 DEF Shapes
<1>2. CASE m \notin Nodes
  <2> DEFINE e == [Capacity(m) EXCEPT !.reserved = @ + 1, !.fresh = TRUE]
  <2>3. cap' = [cap EXCEPT ![m] = e] /\ known' = known \cup {m}
    BY DEF reserveNodeSlot
  <2> HIDE DEF e
  <2>1. cap' = cap
    <3>1. cap \in [Nodes -> Entry]
      BY DEF Shapes
    <3>2. DOMAIN cap' = Nodes /\ \A n \in Nodes : cap'[n] = cap[n]
      BY <1>2, <2>3, <3>1
    <3>3. cap' = [n \in Nodes |-> cap[n]] /\ cap = [n \in Nodes |-> cap[n]]
      BY <2>3, <3>1, <3>2, Zenon
    <3> QED
      BY <3>3
  <2> QED
    BY <1>2, <2>1, <2>3 DEF Shapes
<1> QED
  BY <1>1, <1>2

(* What releasing does to the entries.                                      *)
LEMMA ReleaseEffect ==
  ASSUME Shapes, NEW m, releaseNodeSlot(m)
  PROVE  /\ cap' \in [Nodes -> Entry]
         /\ \A n \in Nodes : cap'[n].reserved = IF n = m THEN Larger(cap[n].reserved - 1, 0)
                                                         ELSE cap[n].reserved
         /\ \A n \in Nodes \ known' : cap'[n] = NewCapacity
<1>1. CASE m \in Nodes
  <2>1. Capacity(m) = cap[m] /\ cap[m] \in Entry
    BY <1>1, CapacityIsEntry DEF Shapes
  <2> DEFINE e == [cap[m] EXCEPT !.reserved = Larger(@ - 1, 0), !.fresh = TRUE]
  <2>2. e \in Entry /\ e.reserved = Larger(cap[m].reserved - 1, 0)
    <3>1. Larger(cap[m].reserved - 1, 0) \in Int
      BY <2>1 DEF Entry, Larger
    <3> QED
      BY <2>1, <3>1, EntryUpdate, Zenon
  <2>3. cap' = [cap EXCEPT ![m] = e] /\ known' = known \cup {m}
    BY <2>1 DEF releaseNodeSlot
  <2> HIDE DEF e
  <2> QED
    BY <1>1, <2>2, <2>3 DEF Shapes
<1>2. CASE m \notin Nodes
  <2> DEFINE e == [Capacity(m) EXCEPT !.reserved = Larger(@ - 1, 0), !.fresh = TRUE]
  <2>3. cap' = [cap EXCEPT ![m] = e] /\ known' = known \cup {m}
    BY DEF releaseNodeSlot
  <2> HIDE DEF e
  <2>1. cap' = cap
    <3>1. cap \in [Nodes -> Entry]
      BY DEF Shapes
    <3>2. DOMAIN cap' = Nodes /\ \A n \in Nodes : cap'[n] = cap[n]
      BY <1>2, <2>3, <3>1
    <3>3. cap' = [n \in Nodes |-> cap[n]] /\ cap = [n \in Nodes |-> cap[n]]
      BY <2>3, <3>1, <3>2, Zenon
    <3> QED
      BY <3>3
  <2> QED
    BY <1>2, <2>1, <2>3 DEF Shapes
<1> QED
  BY <1>1, <1>2

(* A task that takes a slot is one more task on its node.                   *)
LEMMA TakeSlot ==
  ASSUME CountInv, NEW t \in Tasks, NEW v, NEW m, m = task[t].node,
         task[t].pc = "claim", task' = [task EXCEPT ![t] = v],
         DOMAIN v = Fields, v.pc = "call", v.node = m,
         reserveNodeSlot(m),
         UNCHANGED <<stage, inFlight, sent, reports, healthy>>
  PROVE  CountInv'
<1>1. Shapes /\ Ahead /\ SlotAccounting
  BY DEF CountInv
<1>2. /\ DOMAIN task' = Tasks
      /\ \A u \in Tasks : DOMAIN task'[u] = Fields
      /\ Ahead'
      /\ task'[t] = v
      /\ \A u \in Tasks : u # t => task'[u] = task[u]
  BY <1>1, MoveTask, Zenon
<1>3. /\ cap' \in [Nodes -> Entry]
      /\ \A n \in Nodes : cap'[n].reserved = IF n = m THEN cap[n].reserved + 1
                                                      ELSE cap[n].reserved
      /\ \A n \in Nodes \ known' : cap'[n] = NewCapacity
  BY <1>1, ReserveEffect
<1>4. Shapes'
  BY <1>1, <1>2, <1>3 DEF Shapes
<1>5. ASSUME NEW n \in Nodes PROVE cap'[n].reserved = Cardinality(OnNode(n)')
  <2>1. CASE n = m
    <3>1. OnNode(n)' = OnNode(n) \cup {t} /\ t \notin OnNode(n)
      BY <1>2, <2>1 DEF OnNode
    <3>2. Cardinality(OnNode(n) \cup {t}) = Cardinality(OnNode(n)) + 1
      BY <3>1, TasksFinite, FS_AddElement, Zenon
    <3> QED
      BY <1>1, <1>3, <2>1, <3>1, <3>2 DEF SlotAccounting
  <2>2. CASE n # m
    <3>1. OnNode(n)' = OnNode(n)
      BY <1>2, <2>2 DEF OnNode
    <3> QED
      BY <1>1, <1>3, <2>2, <3>1 DEF SlotAccounting
  <2> QED
    BY <2>1, <2>2
<1>6. SlotAccounting'
  BY <1>5 DEF SlotAccounting
<1> QED
  BY <1>2, <1>4, <1>6 DEF CountInv

(* A task that gives its slot back is one task less on its node, and the    *)
(* counter was not zero.                                                    *)
LEMMA GiveSlotBack ==
  ASSUME CountInv, NEW t \in Tasks, NEW v, NEW m, m = task[t].node,
         task[t].pc = "call" \/ task[t].pc = "exec", task' = [task EXCEPT ![t] = v],
         DOMAIN v = Fields, v.pc # "call", v.pc # "exec",
         releaseNodeSlot(m),
         inFlight' \in [Nodes -> Int],
         UNCHANGED <<stage, sent, reports, healthy>>
  PROVE  CountInv'
<1>1. Shapes /\ Ahead /\ SlotAccounting
  BY DEF CountInv
<1>2. /\ DOMAIN task' = Tasks
      /\ \A u \in Tasks : DOMAIN task'[u] = Fields
      /\ Ahead'
      /\ task'[t] = v
      /\ \A u \in Tasks : u # t => task'[u] = task[u]
  BY <1>1, MoveTask, Zenon
<1>3. /\ cap' \in [Nodes -> Entry]
      /\ \A n \in Nodes : cap'[n].reserved = IF n = m THEN Larger(cap[n].reserved - 1, 0)
                                                      ELSE cap[n].reserved
      /\ \A n \in Nodes \ known' : cap'[n] = NewCapacity
  BY <1>1, ReleaseEffect
<1>4. Shapes'
  BY <1>1, <1>2, <1>3 DEF Shapes
<1>5. ASSUME NEW n \in Nodes PROVE cap'[n].reserved = Cardinality(OnNode(n)')
  <2>1. CASE n = m
    <3>1. OnNode(n)' = OnNode(n) \ {t} /\ t \in OnNode(n)
      BY <1>2, <2>1 DEF OnNode
    <3>2. Cardinality(OnNode(n) \ {t}) = Cardinality(OnNode(n)) - 1
      BY <3>1, TasksFinite, FS_RemoveElement, Zenon
    <3>3. Cardinality(OnNode(n) \ {t}) \in Nat /\ Cardinality(OnNode(n)) \in Nat
      <4>1. IsFiniteSet(OnNode(n)) /\ IsFiniteSet(OnNode(n) \ {t})
        BY <3>1, TasksFinite, FS_RemoveElement
      <4> QED
        BY <4>1, FS_CardinalityType
    <3>4. cap[n].reserved = Cardinality(OnNode(n))
      BY <1>1 DEF SlotAccounting
    <3>5. cap'[n].reserved = Larger(cap[n].reserved - 1, 0)
      BY <1>3, <2>1
    <3> QED
      BY <3>1, <3>2, <3>3, <3>4, <3>5 DEF Larger
  <2>2. CASE n # m
    <3>1. OnNode(n)' = OnNode(n)
      BY <1>2, <2>2 DEF OnNode
    <3> QED
      BY <1>1, <1>3, <2>2, <3>1 DEF SlotAccounting
  <2> QED
    BY <2>1, <2>2
<1>6. SlotAccounting'
  BY <1>5 DEF SlotAccounting
<1> QED
  BY <1>2, <1>4, <1>6 DEF CountInv

-----------------------------------------------------------------------------
(* Another attempt, or none: the task leaves its node either way.           *)
LEMMA RetryMoves ==
  ASSUME Shapes, NEW t \in Tasks, RetryOrFail(t)
  PROVE  \E v : /\ task' = [task EXCEPT ![t] = v]
                /\ DOMAIN v = Fields /\ v.pc \in {"lookup", "failed"}
<1> DEFINE again == [task[t] EXCEPT !.pc = "lookup", !.list = stage.nodes]
<1> DEFINE gone == [task[t] EXCEPT !.pc = "failed"]
<1>1. /\ DOMAIN again = Fields /\ again.pc = "lookup"
      /\ DOMAIN gone = Fields /\ gone.pc = "failed"
  BY DEF Shapes, Fields
<1>2. task' = [task EXCEPT ![t] = again] \/ task' = [task EXCEPT ![t] = gone]
  BY Zenon DEF Shapes, RetryOrFail, Start
<1> QED
  BY <1>1, <1>2, Zenon

(* A claim takes a slot, or moves the task elsewhere.                       *)
LEMMA ClaimCount ==
  ASSUME CountInv, NEW t \in Tasks, Claim(t)
  PROVE  CountInv'
<1> DEFINE m == task[t].node
<1> DEFINE called == [task[t] EXCEPT !.pc = "call"]
<1> DEFINE gone == [task[t] EXCEPT !.pc = "failed"]
<1>1. Shapes
  BY DEF CountInv
<1>2. /\ called.pc = "call" /\ called.node = m /\ DOMAIN called = Fields
      /\ gone.pc = "failed" /\ DOMAIN gone = Fields
  BY <1>1 DEF Shapes, Fields
<1>3. /\ task[t].pc = "claim"
      /\ UNCHANGED <<stage, inFlight, sent, reports, healthy>>
  BY DEF Claim, worldVars
<1>4. \/ reserveNodeSlot(m) /\ task' = [task EXCEPT ![t] = called]
      \/ RetryOrFail(t) /\ UNCHANGED <<known, cap>>
      \/ task' = [task EXCEPT ![t] = gone] /\ UNCHANGED <<known, cap>>
  BY <1>1 DEF Claim, Shapes
<1> HIDE DEF m, called, gone
<1>5. CASE reserveNodeSlot(m) /\ task' = [task EXCEPT ![t] = called]
  <2>1. m = task[t].node
    BY DEF m
  <2> QED
    BY <1>2, <1>3, <1>5, <2>1, TakeSlot, Zenon
<1>6. CASE RetryOrFail(t) /\ UNCHANGED <<known, cap>>
  <2>1. cap' = cap /\ \A n \in Nodes \ known' : cap'[n] = NewCapacity
    BY <1>1, <1>6 DEF Shapes
  <2>2. PICK v : /\ task' = [task EXCEPT ![t] = v]
                 /\ DOMAIN v = Fields /\ v.pc \in {"lookup", "failed"}
    BY <1>1, <1>6, RetryMoves
  <2>3. v.pc \notin {"call", "exec"} /\ task[t].pc \notin {"new", "call", "exec"}
    BY <1>3, <2>2
  <2> QED
    BY <1>3, <2>1, <2>2, <2>3, OneMoves, Zenon
<1>7. CASE task' = [task EXCEPT ![t] = gone] /\ UNCHANGED <<known, cap>>
  <2>1. cap' = cap /\ \A n \in Nodes \ known' : cap'[n] = NewCapacity
    BY <1>1, <1>7 DEF Shapes
  <2>2. gone.pc \notin {"call", "exec"} /\ task[t].pc \notin {"new", "call", "exec"}
    BY <1>2, <1>3
  <2> QED
    BY <1>2, <1>3, <1>7, <2>1, <2>2, OneMoves, Zenon
<1> QED
  BY <1>4, <1>5, <1>6, <1>7

(* Counting a worker's tasks up or down, for any name, keeps the counters.  *)
LEMMA CountersTyped ==
  ASSUME NEW f \in [Nodes -> Int], NEW m
  PROVE  /\ [f EXCEPT ![m] = f[m] + 1] \in [Nodes -> Int]
         /\ [f EXCEPT ![m] = f[m] - 1] \in [Nodes -> Int]
<1>1. CASE m \in Nodes
  <2>1. f[m] + 1 \in Int /\ f[m] - 1 \in Int
    BY <1>1
  <2> QED
    BY <2>1, Zenon
<1>2. CASE m \notin Nodes
  <2>1. \A x : [f EXCEPT ![m] = x] = [n \in Nodes |-> f[n]]
    BY <1>2, Zenon
  <2> QED
    BY <2>1, Zenon
<1> QED
  BY <1>1, <1>2

(* The worker's start leaves its task on its node.                          *)
LEMMA ExecuteCount ==
  ASSUME CountInv, NEW t \in Tasks, Execute(t)
  PROVE  CountInv'
<1> DEFINE v == [task[t] EXCEPT !.pc = "exec"]
<1>1. Shapes /\ Ahead /\ SlotAccounting
  BY DEF CountInv
<1>2. v.pc = "exec" /\ v.node = task[t].node /\ DOMAIN v = Fields
  BY <1>1 DEF Shapes, Fields
<1>3. /\ task[t].pc = "call"
      /\ task' = [task EXCEPT ![t] = v]
      /\ inFlight' = [inFlight EXCEPT ![task[t].node] = @ + 1]
      /\ UNCHANGED <<known, cap, stage, sent, reports, healthy>>
  BY <1>1 DEF Execute, worldVars, capacityVars, Shapes
<1> HIDE DEF v
<1>4. /\ DOMAIN task' = Tasks
      /\ \A u \in Tasks : DOMAIN task'[u] = Fields
      /\ Ahead'
      /\ task'[t] = v
      /\ \A u \in Tasks : u # t => task'[u] = task[u]
  BY <1>1, <1>2, <1>3, MoveTask, Zenon
<1>5. inFlight' \in [Nodes -> Int]
  <2>1. inFlight \in [Nodes -> Int]
    BY <1>1 DEF Shapes
  <2> QED
    BY <1>3, <2>1, CountersTyped
<1>6. Shapes'
  BY <1>1, <1>3, <1>4, <1>5 DEF Shapes
<1>7. \A n \in Nodes : OnNode(n)' = OnNode(n)
  BY <1>2, <1>3, <1>4 DEF OnNode
<1> QED
  BY <1>1, <1>3, <1>4, <1>6, <1>7, SameCount DEF CountInv

(* Every way a call returns gives the slot back.                            *)
LEMMA ReturnCount ==
  ASSUME CountInv, NEW t \in Tasks,
         ReturnOK(t) \/ ReturnError(t) \/ ReturnConflict(t)
  PROVE  CountInv'
<1>1. Shapes
  BY DEF CountInv
<1>2. /\ task[t].pc \in {"call", "exec"}
      /\ releaseNodeSlot(task[t].node)
      /\ UNCHANGED <<stage, sent, reports, healthy>>
  BY DEF ReturnOK, ReturnError, ReturnConflict, worldVars
<1>3. inFlight' \in [Nodes -> Int]
  <2>1. UNCHANGED inFlight \/ inFlight' = [inFlight EXCEPT ![task[t].node] = @ - 1]
    BY DEF ReturnOK, ReturnError, ReturnConflict, WorkerEnds
  <2>2. inFlight \in [Nodes -> Int]
    BY <1>1 DEF Shapes
  <2> QED
    BY <2>1, <2>2, CountersTyped
<1>4. \/ \E p \in {"done", "failed"} : task' = [task EXCEPT ![t].pc = p]
      \/ RetryOrFail(t)
  BY DEF ReturnOK, ReturnError, ReturnConflict
<1>5. CASE RetryOrFail(t)
  <2>1. PICK v : /\ task' = [task EXCEPT ![t] = v]
                 /\ DOMAIN v = Fields /\ v.pc \in {"lookup", "failed"}
    BY <1>1, <1>5, RetryMoves
  <2>2. v.pc \notin {"call", "exec"}
    BY <2>1
  <2> QED
    BY <1>2, <1>3, <2>1, <2>2, GiveSlotBack, Zenon
<1>6. CASE \E p \in {"done", "failed"} : task' = [task EXCEPT ![t].pc = p]
  <2>1. PICK p \in {"done", "failed"} : task' = [task EXCEPT ![t].pc = p]
    BY <1>6, Zenon
  <2> DEFINE v == [task[t] EXCEPT !.pc = p]
  <2>2. v.pc \notin {"call", "exec"} /\ DOMAIN v = Fields
    BY <1>1 DEF Shapes, Fields
  <2>3. task' = [task EXCEPT ![t] = v]
    BY <1>1, <2>1 DEF Shapes
  <2> HIDE DEF v
  <2> QED
    BY <1>2, <1>3, <2>2, <2>3, GiveSlotBack, Zenon
<1> QED
  BY <1>4, <1>5, <1>6

-----------------------------------------------------------------------------
(* Starting or resuming selection starts a task that was new.               *)
LEMMA StartCount ==
  ASSUME CountInv, NEW t \in Tasks, t = stage.next, task[t].pc = "new",
         task' = Start(t, healthy),
         stage' \in [pc : StagePcs, nodes : SUBSET Nodes, next : Nat],
         stage'.next = t, stage'.pc = "select",
         UNCHANGED <<known, cap, inFlight, sent, reports, healthy>>
  PROVE  CountInv'
<1>1. Shapes /\ Ahead
  BY DEF CountInv
<1>2. /\ DOMAIN task' = Tasks
      /\ \A u \in Tasks : DOMAIN task'[u] = Fields
      /\ task'[t].pc = "lookup"
      /\ \A u \in Tasks : u # t => task'[u] = task[u]
  BY <1>1 DEF Shapes, Start, Fields
<1>3. Shapes'
  BY <1>1, <1>2 DEF Shapes
<1>4. Ahead'
  <2>1. \A u \in Tasks : u > t => task[u].pc = "new" /\ u # t
    BY <1>1 DEF Ahead, Tasks
  <2> QED
    BY <1>2, <2>1 DEF Ahead
<1> QED
  BY <1>2, <1>3, <1>4, QuietStep

(* The run loop's other steps only move its own control.                    *)
LEMMA StageCount ==
  ASSUME CountInv, NEW p \in {"wait", "done", "failed"},
         stage' = [stage EXCEPT !.pc = p],
         UNCHANGED <<known, cap, task, inFlight, sent, reports, healthy>>
  PROVE  CountInv'
<1>1. Shapes /\ Ahead
  BY DEF CountInv
<1>2. /\ stage' \in [pc : StagePcs, nodes : SUBSET Nodes, next : Nat]
      /\ stage'.next = stage.next /\ stage'.pc = p
  BY <1>1 DEF Shapes, StagePcs
<1>3. Shapes'
  BY <1>1, <1>2 DEF Shapes
<1>4. Ahead'
  BY <1>1, <1>2 DEF Ahead
<1> QED
  BY <1>3, <1>4, QuietStep

(* The run loop keeps the count.                                            *)
LEMMA RunLoopCount ==
  ASSUME CountInv, RunLoop
  PROVE  CountInv'
<1>1. Shapes /\ Ahead
  BY DEF CountInv
<1>2. UNCHANGED <<known, cap, inFlight, sent, reports, healthy>>
  BY DEF RunLoop, StartStage, Poll, DeferralTimeout, FinishStage, capacityVars, worldVars
<1>3. CASE StartStage
  <2>1. CASE healthy = {}
    BY <1>2, <1>3, <2>1, StageCount DEF StartStage
  <2>2. CASE healthy # {}
    <3>1. stage' = [stage EXCEPT !.pc = "select", !.nodes = healthy] /\ task' = Start(1, healthy)
      BY <1>3, <2>2 DEF StartStage
    <3>2. 1 \in Tasks /\ stage.next = 1 /\ task[1].pc = "new"
      BY <1>1, <1>3, PlacementAssumption DEF StartStage, Ahead, Tasks
    <3>3. /\ stage' \in [pc : StagePcs, nodes : SUBSET Nodes, next : Nat]
          /\ stage'.next = stage.next /\ stage'.pc = "select"
      BY <1>1, <3>1, Zenon DEF Shapes, StagePcs
    <3> QED
      BY <1>2, <3>1, <3>2, <3>3, StartCount
  <2> QED
    BY <2>1, <2>2
<1>4. CASE Poll
  <2> DEFINE t == stage.next
  <2>1. /\ stage' = [stage EXCEPT !.pc = "select"] /\ task' = Start(t, healthy)
        /\ stage.pc = "defer"
    BY <1>4 DEF Poll
  <2>2. /\ stage' \in [pc : StagePcs, nodes : SUBSET Nodes, next : Nat]
        /\ stage'.next = stage.next /\ stage'.pc = "select"
    BY <1>1, <2>1 DEF Shapes, StagePcs
  <2>3. CASE t \in Tasks
    <3>1. task[t].pc = "new"
      BY <1>1, <2>1, <2>3 DEF Ahead
    <3> QED
      BY <1>2, <2>1, <2>2, <2>3, <3>1, StartCount
  <2>4. CASE t \notin Tasks
    <3>1. DOMAIN task' = Tasks /\ \A u \in Tasks : task'[u] = task[u]
      <4>1. DOMAIN task = Tasks
        BY <1>1 DEF Shapes
      <4>2. DOMAIN task' = Tasks
        BY <2>1, <4>1 DEF Start
      <4>3. \A u \in Tasks : u # t
        BY <2>4
      <4> HIDE DEF t
      <4> QED
        BY <2>1, <4>1, <4>2, <4>3 DEF Start
    <3>2. Shapes'
      BY <1>1, <1>2, <2>2, <3>1 DEF Shapes
    <3>3. Ahead'
      BY <1>1, <2>2, <3>1 DEF Ahead
    <3> QED
      BY <1>2, <3>1, <3>2, <3>3, QuietStep
  <2> QED
    BY <2>3, <2>4
<1>5. CASE DeferralTimeout
  BY <1>2, <1>5, StageCount DEF DeferralTimeout
<1>6. CASE FinishStage
  BY <1>2, <1>6, StageCount DEF FinishStage
<1> QED
  BY <1>3, <1>4, <1>5, <1>6 DEF RunLoop

(* Heartbeats, timers and the registry change no reservation.               *)
LEMMA WorldCount ==
  ASSUME CountInv,
         \/ \E n \in Nodes : Heartbeat(n) \/ CapacityTTL(n) \/ CooldownExpires(n)
                             \/ NodeDown(n) \/ NodeUp(n)
         \/ \E r \in reports : Deliver(r) \/ Lose(r)
         \/ \E k \in Keys : cleanupExpired(k)
  PROVE  CountInv'
<1>1. Shapes /\ Ahead
  BY DEF CountInv
<1>2. UNCHANGED <<stage, task>>
  BY DEF Heartbeat, CapacityTTL, CooldownExpires, NodeDown, NodeUp, Deliver, Lose,
         cleanupExpired, worldVars, capacityVars
<1>3. Ahead'
  BY <1>1, <1>2 DEF Ahead
<1>4. ASSUME Shapes', \A n \in Nodes : cap'[n].reserved = cap[n].reserved PROVE CountInv'
  BY <1>2, <1>3, <1>4, QuietStep
<1>5. ASSUME NEW n \in Nodes, Heartbeat(n) PROVE CountInv'
  <2>1. /\ sent' = sent + 1
        /\ reports' = reports \cup {[node |-> n, inFlight |-> inFlight[n]]}
        /\ UNCHANGED <<known, cap, healthy, inFlight>>
    BY <1>5 DEF Heartbeat, capacityVars
  <2>2. inFlight[n] \in Int
    BY <1>1, Zenon DEF Shapes
  <2>3. \A r \in reports' : r.node \in Nodes /\ r.inFlight \in Int
    BY <1>1, <2>1, <2>2 DEF Shapes
  <2>4. sent' \in Int
    BY <1>1, <2>1 DEF Shapes
  <2> QED
    BY <1>1, <1>2, <1>4, <2>1, <2>3, <2>4 DEF Shapes
<1>6. ASSUME NEW n \in Nodes, CapacityTTL(n) PROVE CountInv'
  <2> DEFINE e == [cap[n] EXCEPT !.fresh = FALSE]
  <2>1. /\ cap' = [cap EXCEPT ![n] = e] /\ n \in known
        /\ UNCHANGED <<known, healthy, inFlight, sent, reports>>
    BY <1>1, <1>6 DEF CapacityTTL, Shapes
  <2>2. e \in Entry /\ e.reserved = cap[n].reserved
    BY ZenonT(60), <1>1 DEF Shapes, Entry
  <2> HIDE DEF e
  <2> QED
    BY <1>1, <1>2, <1>4, <2>1, <2>2 DEF Shapes
<1>7. ASSUME NEW n \in Nodes, CooldownExpires(n) \/ NodeDown(n) \/ NodeUp(n) PROVE CountInv'
  <2>1. /\ healthy' \subseteq Nodes
        /\ UNCHANGED <<known, cap, inFlight, sent, reports>>
    BY <1>1, <1>7 DEF CooldownExpires, NodeDown, NodeUp, worldVars, capacityVars, Shapes
  <2> QED
    BY <1>1, <1>2, <1>4, <2>1 DEF Shapes
<1>8. ASSUME NEW r \in reports, Deliver(r) PROVE CountInv'
  <2> DEFINE m == r.node
  <2> DEFINE e == [cap[m] EXCEPT !.reported = r.inFlight, !.max = reportedMax,
                                 !.fresh = TRUE]
  <2>1. m \in Nodes /\ r.inFlight \in Int
    BY <1>1 DEF Shapes
  <2>2. Capacity(m) = cap[m] /\ cap[m] \in Entry
    BY <1>1, <2>1, CapacityIsEntry DEF Shapes
  <2>3. reportedMax \in Int
    BY PlacementAssumption DEF reportedMax, Smaller
  <2>4. e \in Entry /\ e.reserved = cap[m].reserved
    BY <2>1, <2>2, <2>3, Zenon DEF Entry
  <2>5. /\ cap' = [cap EXCEPT ![m] = e] /\ known' = known \cup {m}
        /\ reports' \subseteq reports
        /\ UNCHANGED <<healthy, inFlight, sent>>
    BY <1>8, <2>2, Zenon DEF Deliver, UpdateNodeCapacityAt
  <2> HIDE DEF e, m
  <2> QED
    BY <1>1, <1>2, <1>4, <2>1, <2>4, <2>5 DEF Shapes
<1>9. ASSUME NEW r \in reports, Lose(r) PROVE CountInv'
  BY <1>1, <1>2, <1>4, <1>9 DEF Lose, capacityVars, Shapes
<1>10. ASSUME NEW k \in Keys, cleanupExpired(k) PROVE CountInv'
  BY <1>1, <1>2, <1>4, <1>10 DEF cleanupExpired, capacityVars, Shapes
<1> QED
  BY <1>5, <1>6, <1>7, <1>8, <1>9, <1>10

(* Every step keeps the count.                                              *)
LEMMA CountStep == CountInv /\ [Next]_vars => CountInv'
<1> SUFFICES ASSUME CountInv, [Next]_vars PROVE CountInv'
  OBVIOUS
<1>1. CASE RunLoop
  BY <1>1, RunLoopCount
<1>2. CASE \E t \in Tasks : Goroutine(t)
  <2>1. PICK t \in Tasks : Goroutine(t)
    BY <1>2
  <2> QED
    BY <2>1, LookupCount, ChooseCount, PinCount, ClaimCount, ExecuteCount, ReturnCount
       DEF Goroutine
<1>3. CASE \/ \E n \in Nodes : Heartbeat(n) \/ CapacityTTL(n) \/ CooldownExpires(n)
                               \/ NodeDown(n) \/ NodeUp(n)
           \/ \E r \in reports : Deliver(r) \/ Lose(r)
           \/ \E k \in Keys : cleanupExpired(k)
  BY <1>3, WorldCount
<1>4. CASE UNCHANGED vars
  <2>1. UNCHANGED <<healthy, known, cap, inFlight, sent, reports, stage, task>>
    BY <1>4 DEF vars
  <2>2. Shapes' /\ Ahead'
    BY <2>1 DEF CountInv, Shapes, Ahead
  <2> QED
    BY <2>1, <2>2, QuietStep
<1> QED
  BY <1>1, <1>2, <1>3, <1>4 DEF Next

(* Slot accounting: in every reachable state ReservedInFlight of a node is  *)
(* the number of goroutines between reserveNodeSlot and releaseNodeSlot on  *)
(* it. No order of conflicts, retries, errors and heartbeats leaks a slot   *)
(* or gives one back twice.                                                 *)
THEOREM SlotsNeverLeak == Spec => []SlotAccounting
<1>1. CountInv => SlotAccounting
  BY DEF CountInv
<1> QED
  BY CountInit, CountStep, <1>1, PTL DEF Spec
-----------------------------------------------------------------------------
(* Retries after a capacity conflict *)

Bound == {"pin", "claim", "call", "exec"}

(* The inductive invariant behind NoReturnToRefuser: every node whose       *)
(* refusal of a task is remembered is in cooldown.                          *)
RefusalInv ==
    /\ DOMAIN refused = Tasks
    /\ \A t \in Tasks : refused[t] \subseteq cooldown
    /\ NoReturnToRefuser

(* selectNodeByCapacity skips the nodes in cooldown.                        *)
LEMMA ChoiceNotCooling ==
  ASSUME NEW ns, NEW n \in CapacityChoices(ns), n # NoNode
  PROVE  n \notin cooldown
<1> DEFINE avail == [m \in ns |-> availableCapacity(Capacity(m))]
<1> DEFINE fresh == [m \in ns |-> Capacity(m).fresh]
<1>1. n \in CapacityChoice(ns, avail, fresh, cooldown)
  BY DEF CapacityChoices
<1> HIDE DEF avail, fresh
<1> QED
  BY <1>1, Zenon DEF CapacityChoice

(* A task that keeps its node, and one that gets a node that is not in      *)
(* cooldown, keep away from the nodes that refused it.                      *)
LEMMA AwayKept ==
  ASSUME RefusalInv, UNCHANGED <<cooldown, refused>>,
         \A u \in Tasks : task'[u].pc \in Bound =>
             \/ task[u].pc \in Bound /\ task'[u].node = task[u].node
             \/ task'[u].node \notin cooldown
  PROVE  RefusalInv'
<1>1. NoReturnToRefuser'
  BY Zenon DEF RefusalInv, NoReturnToRefuser, Bound
<1> QED
  BY Zenon, <1>1 DEF RefusalInv

(* Placing a task gives it the chosen node; the next task of the stage      *)
(* starts to look for one.                                                  *)
LEMMA PlacedNode ==
  ASSUME Shapes, NEW t \in Tasks, NEW n, Placed(t, n)
  PROVE  /\ task'[t].node = n
         /\ \A u \in Tasks : u # t => task'[u] = task[u] \/ task'[u].pc = "lookup"
<1> DEFINE placed == [task EXCEPT ![t].pc = "claim", ![t].node = n,
                                  ![t].attempt = @ + 1, ![t].entry = NoNode]
<1> DEFINE u0 == stage.next + 1
<1>1. /\ DOMAIN placed = Tasks /\ DOMAIN placed[t] = Fields /\ placed[t].node = n
      /\ \A u \in Tasks : u # t => placed[u] = task[u]
  BY DEF Shapes, Fields
<1>2. CASE task' = placed
  <2> HIDE DEF placed
  <2> QED
    BY Zenon, <1>1, <1>2
<1>3. CASE /\ Selecting(t) /\ u0 \in Tasks
           /\ task' = [placed EXCEPT ![u0].pc = "lookup", ![u0].list = stage.nodes]
  <2>1. u0 # t
    <3>1. stage.next = t
      BY Zenon, <1>3 DEF Selecting
    <3>2. t \in Int
      BY DEF Tasks
    <3> HIDE DEF placed
    <3> QED
      BY <3>1, <3>2
  <2>2. DOMAIN placed[u0] = Fields
    BY Zenon, <1>1, <1>3, <2>1 DEF Shapes
  <2> HIDE DEF placed, u0
  <2>3. task'[u0].pc = "lookup" /\ \A u \in Tasks : u # u0 => task'[u] = placed[u]
    BY <1>1, <1>3, <2>2 DEF Fields
  <2> QED
    BY Zenon, <1>1, <2>1, <2>3
<1> QED
  BY Zenon, <1>2, <1>3 DEF Placed

(* Goroutines that select a node keep away.                                 *)
LEMMA SelectAway ==
  ASSUME Shapes, RefusalInv, NEW t \in Tasks, Lookup(t) \/ Choose(t) \/ Pin(t)
  PROVE  RefusalInv'
<1>1. UNCHANGED <<cooldown, refused>>
  BY Zenon DEF Lookup, Choose, Pin, capacityVars
<1>2. ASSUME NEW n, Placed(t, n), n \notin cooldown \/ (task[t].pc = "pin" /\ n = task[t].node)
      PROVE  RefusalInv'
  <2>1. /\ task'[t].node = n
        /\ \A u \in Tasks : u # t => task'[u] = task[u] \/ task'[u].pc = "lookup"
    BY Zenon, <1>2, PlacedNode
  <2>2. \A u \in Tasks : task'[u].pc \in Bound =>
            \/ task[u].pc \in Bound /\ task'[u].node = task[u].node
            \/ task'[u].node \notin cooldown
    BY <1>2, <2>1 DEF Bound
  <2> QED
    BY Zenon, <1>1, <2>2, AwayKept
<1>3. ASSUME NEW v, task' = [task EXCEPT ![t] = v],
             v.pc \notin Bound \/ v.node \notin cooldown
      PROVE  RefusalInv'
  <2>1. \A u \in Tasks : task'[u] = IF u = t THEN v ELSE task[u]
    BY Zenon, <1>3 DEF Shapes
  <2>2. \A u \in Tasks : task'[u].pc \in Bound =>
            \/ task[u].pc \in Bound /\ task'[u].node = task[u].node
            \/ task'[u].node \notin cooldown
    BY Zenon, <1>3, <2>1
  <2> QED
    BY Zenon, <1>1, <2>2, AwayKept
<1>4. CASE Lookup(t)
  <2> DEFINE entry == IF Key[t] = NoKey THEN NoNode ELSE affinity[Key[t]]
  <2>1. CASE entry \in task[t].list /\ nodeHasAvailableCapacity(entry)
    <3>1. Placed(t, entry) /\ entry \notin cooldown
      BY Zenon, <1>4, <2>1 DEF Lookup, nodeHasAvailableCapacity
    <3> QED
      BY Zenon, <1>2, <3>1
  <2>2. CASE ~(entry \in task[t].list /\ nodeHasAvailableCapacity(entry))
    <3> DEFINE v == [task[t] EXCEPT !.pc = "choose", !.entry = entry]
    <3>1. task' = [task EXCEPT ![t].pc = "choose", ![t].entry = entry]
      BY Zenon, <1>4, <2>2 DEF Lookup
    <3> HIDE DEF entry
    <3>2. task' = [task EXCEPT ![t] = v]
      BY <3>1 DEF Shapes
    <3>3. v.pc \notin Bound
      BY DEF Shapes, Fields, Bound
    <3> QED
      BY Zenon, <1>3, <3>2, <3>3
  <2> QED
    BY Zenon, <2>1, <2>2
<1>5. CASE Choose(t)
  <2>1. PICK n \in CapacityChoices(task[t].list) :
          CASE n = NoNode -> NoCapacity(t)
            [] n # NoNode /\ Key[t] = NoKey -> Placed(t, n)
            [] OTHER -> /\ task' = [task EXCEPT ![t].pc = "pin", ![t].node = n]
                        /\ UNCHANGED stage
    BY Zenon, <1>5 DEF Choose
  <2>2. CASE n = NoNode
    <3>1. NoCapacity(t)
      BY <2>1, <2>2
    <3>2. PICK p \in {"new", "failed"} : task' = [task EXCEPT ![t].pc = p]
      BY Zenon, <3>1 DEF NoCapacity
    <3> DEFINE v == [task[t] EXCEPT !.pc = p]
    <3>3. task' = [task EXCEPT ![t] = v]
      BY <3>2 DEF Shapes
    <3>4. v.pc \notin Bound
      BY DEF Shapes, Fields, Bound
    <3> QED
      BY Zenon, <1>3, <3>3, <3>4
  <2>3. CASE n # NoNode
    <3>1. n \notin cooldown
      BY Zenon, <2>3, ChoiceNotCooling
    <3>2. \/ Placed(t, n)
          \/ task' = [task EXCEPT ![t].pc = "pin", ![t].node = n]
      BY <2>1, <2>3
    <3>3. CASE task' = [task EXCEPT ![t].pc = "pin", ![t].node = n]
      <4> DEFINE v == [task[t] EXCEPT !.pc = "pin", !.node = n]
      <4>1. task' = [task EXCEPT ![t] = v]
        BY <3>3 DEF Shapes
      <4>2. v.node = n
        BY DEF Shapes, Fields
      <4> QED
        BY Zenon, <1>3, <3>1, <4>1, <4>2
    <3> QED
      BY Zenon, <1>2, <3>1, <3>2, <3>3
  <2> QED
    BY Zenon, <2>2, <2>3
<1>6. CASE Pin(t)
  <2>1. task[t].pc = "pin" /\ Placed(t, task[t].node)
    BY Zenon, <1>6 DEF Pin
  <2> QED
    BY Zenon, <1>2, <2>1
<1> QED
  BY Zenon, <1>4, <1>5, <1>6

(* The other steps of a goroutine: a conflict puts the node in cooldown     *)
(* before the retry looks for another one.                                  *)
LEMMA CallAway ==
  ASSUME Shapes, RefusalInv, NEW t \in Tasks,
         Claim(t) \/ Execute(t) \/ ReturnOK(t) \/ ReturnError(t) \/ ReturnConflict(t)
  PROVE  RefusalInv'
<1>1. /\ \A u \in Tasks : u # t => task'[u] = task[u]
      /\ task'[t].pc \in Bound => task[t].pc \in Bound /\ task'[t].node = task[t].node
  <2>1. task[t].pc \in {"claim", "call", "exec"}
    BY Zenon DEF Claim, Execute, ReturnOK, ReturnError, ReturnConflict
  <2>2. CASE RetryOrFail(t)
    <3>1. PICK v : /\ task' = [task EXCEPT ![t] = v] /\ v.pc \in {"lookup", "failed"}
      BY Zenon, <2>2, RetryMoves
    <3>2. v.pc \notin Bound
      BY <3>1 DEF Bound
    <3> QED
      BY Zenon, <3>1, <3>2 DEF Shapes
  <2>3. CASE \E p \in {"call", "exec", "done", "failed"} : task' = [task EXCEPT ![t].pc = p]
    <3>1. PICK p \in {"call", "exec", "done", "failed"} : task' = [task EXCEPT ![t].pc = p]
      BY Zenon, <2>3
    <3>2. /\ \A u \in Tasks : u # t => task'[u] = task[u]
          /\ task'[t].node = task[t].node
      BY <3>1 DEF Shapes
    <3> QED
      BY <2>1, <3>2 DEF Bound
  <2> QED
    BY Zenon, <2>2, <2>3 DEF Claim, Execute, ReturnOK, ReturnError, ReturnConflict
<1>2. CASE UNCHANGED <<cooldown, refused>>
  BY Zenon, <1>1, <1>2, AwayKept
<1>3. CASE ReturnConflict(t)
  <2>1. /\ cooldown' = cooldown \cup {task[t].node}
        /\ refused' = [refused EXCEPT ![t] = @ \cup {task[t].node}]
        /\ RetryOrFail(t)
    BY Zenon, <1>3 DEF ReturnConflict, markDispatchCooldown
  <2>2. /\ DOMAIN refused' = Tasks
        /\ refused'[t] = refused[t] \cup {task[t].node}
        /\ \A u \in Tasks : u # t => refused'[u] = refused[u]
    BY Zenon, <2>1 DEF RefusalInv
  <2>3. \A u \in Tasks : refused'[u] \subseteq cooldown'
    BY <2>1, <2>2 DEF RefusalInv
  <2>4. task'[t].pc \notin Bound
    <3>1. PICK v : /\ task' = [task EXCEPT ![t] = v] /\ v.pc \in {"lookup", "failed"}
      BY Zenon, <2>1, RetryMoves
    <3>2. task'[t] = v
      BY Zenon, <3>1 DEF Shapes
    <3> QED
      BY <3>1, <3>2 DEF Bound
  <2>5. NoReturnToRefuser'
    BY Zenon, <1>1, <2>2, <2>4 DEF RefusalInv, NoReturnToRefuser, Bound
  <2> QED
    BY Zenon, <2>2, <2>3, <2>5 DEF RefusalInv
<1> QED
  BY Zenon, <1>2, <1>3 DEF Claim, Execute, ReturnOK, ReturnError, capacityVars

(* The run loop starts tasks or changes none; the world changes no task.    *)
LEMMA QuietAway ==
  ASSUME Shapes, RefusalInv, UNCHANGED <<cooldown, refused>>,
         task' = task \/ \E t : task' = Start(t, healthy)
  PROVE  RefusalInv'
<1>1. CASE task' = task
  BY Zenon, <1>1, AwayKept
<1>2. CASE \E t : task' = Start(t, healthy)
  <2>1. PICK t : task' = [task EXCEPT ![t].pc = "lookup", ![t].list = healthy]
    BY Zenon, <1>2 DEF Start
  <2>2. \A u \in Tasks : task'[u] = task[u] \/ task'[u].pc = "lookup"
    BY <2>1 DEF Shapes, Fields
  <2>3. \A u \in Tasks : task'[u].pc \in Bound => task[u].pc \in Bound /\ task'[u].node = task[u].node
    BY <2>2 DEF Bound
  <2> QED
    BY Zenon, <2>3, AwayKept
<1> QED
  BY Zenon, <1>1, <1>2

(* A cooldown that runs out forgets the refusals of its node.               *)
LEMMA ExpiryAway ==
  ASSUME RefusalInv, NEW n \in Nodes, CooldownExpires(n)
  PROVE  RefusalInv'
<1>1. /\ cooldown' = cooldown \ {n} /\ task' = task
      /\ refused' = [t \in Tasks |-> refused[t] \ {n}]
  BY Zenon DEF CooldownExpires
<1>2. DOMAIN refused' = Tasks /\ \A t \in Tasks : refused'[t] = refused[t] \ {n}
  BY Zenon, <1>1
<1>3. \A t \in Tasks : refused'[t] \subseteq cooldown'
  BY Zenon, <1>1, <1>2 DEF RefusalInv
<1>4. NoReturnToRefuser'
  BY Zenon, <1>1, <1>2 DEF RefusalInv, NoReturnToRefuser
<1> QED
  BY Zenon, <1>2, <1>3, <1>4 DEF RefusalInv

(* Every step keeps the tasks away from the nodes that refused them.        *)
LEMMA RefusalStep == Shapes /\ RefusalInv /\ [Next]_vars => RefusalInv'
<1> SUFFICES ASSUME Shapes, RefusalInv, [Next]_vars PROVE RefusalInv'
  OBVIOUS
<1>1. CASE RunLoop
  <2>1. UNCHANGED <<cooldown, refused>>
    BY Zenon, <1>1 DEF RunLoop, StartStage, Poll, DeferralTimeout, FinishStage, capacityVars
  <2>2. task' = task \/ \E t : task' = Start(t, healthy)
    BY Zenon, <1>1 DEF RunLoop, StartStage, Poll, DeferralTimeout, FinishStage
  <2> QED
    BY Zenon, <2>1, <2>2, QuietAway
<1>2. CASE \E t \in Tasks : Goroutine(t)
  BY Zenon, <1>2, SelectAway, CallAway DEF Goroutine
<1>3. CASE \/ \E n \in Nodes : Heartbeat(n) \/ CapacityTTL(n) \/ NodeDown(n) \/ NodeUp(n)
           \/ \E r \in reports : Deliver(r) \/ Lose(r)
           \/ \E k \in Keys : cleanupExpired(k)
  <2>1. UNCHANGED <<cooldown, refused, task>>
    BY Zenon, <1>3 DEF Heartbeat, CapacityTTL, NodeDown, NodeUp, Deliver, Lose, cleanupExpired,
                       capacityVars
  <2> QED
    BY Zenon, <2>1, QuietAway
<1>4. CASE \E n \in Nodes : CooldownExpires(n)
  BY Zenon, <1>4, ExpiryAway
<1>5. CASE UNCHANGED vars
  <2>1. UNCHANGED <<cooldown, refused, task>>
    BY Zenon, <1>5 DEF vars
  <2> QED
    BY Zenon, <2>1, QuietAway
<1> QED
  BY Zenon, <1>1, <1>2, <1>3, <1>4, <1>5 DEF Next

(* A task is never sent back to a node that refused it for capacity before  *)
(* that node's dispatch cooldown has run out, whether executeTaskWithRetry  *)
(* follows the affinity map, the only candidate or the capacity ranking.    *)
THEOREM RefusersAvoided == Spec => []NoReturnToRefuser
<1>1. Init => RefusalInv
  <2> SUFFICES ASSUME Init PROVE RefusalInv
    OBVIOUS
  <2>1. refused = [t \in Tasks |-> {}]
    BY Zenon DEF Init
  <2> QED
    BY <2>1 DEF RefusalInv, NoReturnToRefuser
<1>2. CountInv => Shapes
  BY DEF CountInv
<1>3. RefusalInv => NoReturnToRefuser
  BY DEF RefusalInv
<1> QED
  BY CountInit, CountStep, RefusalStep, <1>1, <1>2, <1>3, PTL DEF Spec
=============================================================================

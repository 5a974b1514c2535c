------------------------------ MODULE Placement ------------------------------
(***************************************************************************)
(* Placing the tasks of a stage on workers                                 *)
(* (src/pkg/scheduler/scheduler.go, affinity.go): the run loop selects a   *)
(* node for each task in turn and starts its goroutine; the goroutine      *)
(* claims the task, reserves a slot, calls the worker, releases the slot   *)
(* and retries elsewhere after a capacity conflict; heartbeats overwrite   *)
(* the capacity data at any time.                                          *)
(*                                                                         *)
(* The claim itself is modelled in Dispatch: here it succeeds, is rejected *)
(* or fails. The order of GetHealthyNodes is that of a Go map, so ties are *)
(* broken by a choice.                                                     *)
(***************************************************************************)
EXTENDS NodeSelection, FiniteSets

CONSTANTS
    Nodes,
    NumTasks,              \* the tasks of the stage are 1..NumTasks
    Keys, NoKey,
    Key,                   \* Key[t] is the PartitionKey of task t, or NoKey
    DefaultMax,            \* DefaultWorkerMaxConcurrency
    MaxCap,                \* MaxWorkerConcurrencyCap
    WorkerMax,             \* max_concurrency the workers report
    MaxDispatchAttempts,
    Deferral,              \* EnableStageCapacityDeferral
    MaxReports,            \* bound: heartbeats sent
    MaxTroubles            \* bound: nodes that become unhealthy and TTLs that run out

Tasks == 1..NumTasks

ASSUME PlacementAssumption ==
    /\ NumTasks \in Nat \ {0}
    /\ MaxDispatchAttempts \in Nat \ {0}
    /\ DefaultMax \in Nat \ {0} /\ MaxCap \in Nat \ {0} /\ WorkerMax \in Nat
    /\ Key \in [Tasks -> Keys \cup {NoKey}] /\ NoKey \notin Keys
    /\ Deferral \in BOOLEAN
    /\ MaxReports \in Nat /\ MaxTroubles \in Nat
    /\ NoNode \notin Nodes

VARIABLES
    healthy,     \* the nodes the registry reports as healthy
    known,       \* nodes with an entry in nodeCapacity
    cap,         \* the entries: max, reserved, reported, and fresh (within the TTL)
    cooldown,    \* dispatchCooldowns that have not run out
    affinity,    \* the affinity map: a node per partition key, or NoNode
    stage,       \* the run loop: pc, the nodes at stage start, the next task
    task,        \* a task: pc, attempt, chosen node, candidate nodes, affinity read
    inFlight,    \* the workers: number of executing tasks
    sent,        \* number of heartbeats sent
    reports,     \* heartbeats in flight
    troubles,    \* number of nodes gone down and TTLs run out
    refused      \* history: nodes that refused a task and whose cooldown still runs

vars == <<healthy, known, cap, cooldown, affinity, stage, task, inFlight, sent,
          reports, troubles, refused>>

capacityVars == <<known, cap, cooldown>>
worldVars == <<healthy, sent, reports, troubles>>

CapType == [max : Nat, reserved : Nat, reported : Nat, fresh : BOOLEAN]
StagePcs == {"start", "select", "defer", "wait", "done", "failed"}
TaskPcs == {"new", "lookup", "choose", "pin", "claim", "call", "exec", "done", "failed"}
TaskType == [pc : TaskPcs, attempt : Nat, node : Nodes \cup {NoNode},
             list : SUBSET Nodes, entry : Nodes \cup {NoNode}]

(* Capacities, tasks and reports have the types of the structs they model. *)
TypeOK ==
    /\ healthy \subseteq Nodes /\ known \subseteq Nodes /\ cooldown \subseteq Nodes
    /\ cap \in [Nodes -> CapType]
    /\ affinity \in [Keys -> Nodes \cup {NoNode}]
    /\ stage \in [pc : StagePcs, nodes : SUBSET Nodes, next : 1..NumTasks + 1]
    /\ task \in [Tasks -> TaskType]
    /\ inFlight \in [Nodes -> Nat] /\ sent \in Nat
    /\ reports \subseteq [node : Nodes, inFlight : Nat]
    /\ troubles \in Nat
    /\ refused \in [Tasks -> SUBSET Nodes]

NewCapacity == [max |-> DefaultMax, reserved |-> 0, reported |-> 0,
                fresh |-> TRUE]
NewTask == [pc |-> "new", attempt |-> 0, node |-> NoNode, list |-> {}, entry |-> NoNode]

Init ==
    /\ healthy \in SUBSET Nodes
    /\ known = {}
    /\ cap = [n \in Nodes |-> NewCapacity]
    /\ cooldown = {}
    /\ affinity = [k \in Keys |-> NoNode]
    /\ stage = [pc |-> "start", nodes |-> {}, next |-> 1]
    /\ task = [t \in Tasks |-> NewTask]
    /\ inFlight = [n \in Nodes |-> 0]
    /\ sent = 0
    /\ reports = {}
    /\ troubles = 0
    /\ refused = [t \in Tasks |-> {}]

-----------------------------------------------------------------------------
(* Capacity *)

Larger(a, b) == IF a > b THEN a ELSE b
Smaller(a, b) == IF a < b THEN a ELSE b

availableCapacity(c) == c.max - Larger(c.reserved, c.reported)

(* getOrCreateNodeCapacityLocked: an entry appears with the defaults, fresh. *)
Capacity(n) == IF n \in known THEN cap[n] ELSE NewCapacity

nodeHasAvailableCapacity(n) ==
    n \notin cooldown /\ availableCapacity(Capacity(n)) > 0

(* Entries are created for the nodes a check looks at; those in cooldown    *)
(* are skipped before.                                                      *)
Touched(ns) ==
    /\ known' = known \cup (ns \ cooldown)
    /\ cap' = [n \in Nodes |-> IF n \in ns \ cooldown THEN Capacity(n) ELSE cap[n]]

(* What selectNodeByCapacity can pick on some order of the candidates.      *)
CapacityChoices(ns) ==
    CapacityChoice(ns, [n \in ns |-> availableCapacity(Capacity(n))],
                   [n \in ns |-> Capacity(n).fresh], cooldown)

-----------------------------------------------------------------------------
(* Selecting a node for a task: selectNodeForTask *)

Start(t, ns) == [task EXCEPT ![t].pc = "lookup", ![t].list = ns]

(* The goroutine of the chosen task starts, or goes on after a retry; the   *)
(* run loop turns to the next task.                                         *)
Selecting(t) == stage.pc = "select" /\ stage.next = t

Placed(t, n) ==
    LET placed == [task EXCEPT ![t].pc = "claim", ![t].node = n,
                               ![t].attempt = @ + 1, ![t].entry = NoNode]
        u == stage.next + 1
    IN  IF ~Selecting(t) THEN task' = placed /\ UNCHANGED stage
        ELSE IF u \in Tasks
        THEN /\ task' = [placed EXCEPT ![u].pc = "lookup", ![u].list = stage.nodes]
             /\ stage' = [stage EXCEPT !.next = u]
        ELSE task' = placed /\ stage' = [stage EXCEPT !.pc = "wait", !.next = u]

(* Get on the affinity map, and the check of the node found there. A hit    *)
(* ends the selection.                                                      *)
Lookup(t) ==
    LET entry == IF Key[t] = NoKey THEN NoNode ELSE affinity[Key[t]]
        sticky == entry \in task[t].list
    IN  /\ task[t].pc = "lookup"
        /\ IF sticky THEN Touched({entry}) ELSE UNCHANGED <<known, cap>>
        /\ IF sticky /\ nodeHasAvailableCapacity(entry)
           THEN Placed(t, entry)
           ELSE /\ task' = [task EXCEPT ![t].pc = "choose", ![t].entry = entry]
                /\ UNCHANGED stage
        /\ UNCHANGED <<cooldown, affinity, inFlight, refused>>
        /\ UNCHANGED worldVars

(* No node: the run loop waits for capacity or gives up the stage; a retry  *)
(* gives up the task.                                                       *)
NoCapacity(t) ==
    IF Selecting(t)
    THEN /\ stage' = [stage EXCEPT !.pc = IF Deferral THEN "defer" ELSE "wait"]
         /\ task' = [task EXCEPT ![t].pc = "new"]
    ELSE /\ task' = [task EXCEPT ![t].pc = "failed"]
         /\ UNCHANGED stage

(* Delete of an entry whose node is not among the candidates, then          *)
(* selectNodeByCapacity.                                                    *)
Choose(t) ==
    LET ns == task[t].list
        stale == task[t].entry \notin ns \cup {NoNode}
    IN  /\ task[t].pc = "choose"
        /\ affinity' = IF stale THEN [affinity EXCEPT ![Key[t]] = NoNode] ELSE affinity
        /\ Touched(ns)
        /\ \E n \in CapacityChoices(ns) :
              CASE n = NoNode -> NoCapacity(t)
                [] n # NoNode /\ Key[t] = NoKey -> Placed(t, n)
                [] OTHER -> /\ task' = [task EXCEPT ![t].pc = "pin", ![t].node = n]
                            /\ UNCHANGED stage
        /\ UNCHANGED <<cooldown, inFlight, refused>>
        /\ UNCHANGED worldVars

(* Set on the affinity map.                                                 *)
Pin(t) ==
    /\ task[t].pc = "pin"
    /\ affinity' = [affinity EXCEPT ![Key[t]] = task[t].node]
    /\ Placed(t, task[t].node)
    /\ UNCHANGED capacityVars
    /\ UNCHANGED <<inFlight, refused>>
    /\ UNCHANGED worldVars

-----------------------------------------------------------------------------
(* The run loop: executeStage and selectNodeForTaskWithDeferral *)

StartStage ==
    /\ stage.pc = "start"
    /\ IF healthy = {}
       THEN stage' = [stage EXCEPT !.pc = "failed"] /\ UNCHANGED task
       ELSE /\ stage' = [stage EXCEPT !.pc = "select", !.nodes = healthy]
            /\ task' = Start(1, healthy)
    /\ UNCHANGED capacityVars
    /\ UNCHANGED <<affinity, inFlight, refused>>
    /\ UNCHANGED worldVars

(* A tick of the deferral poll asks the registry again.                     *)
Poll ==
    /\ stage.pc = "defer"
    /\ healthy # {}
    /\ stage' = [stage EXCEPT !.pc = "select"]
    /\ task' = Start(stage.next, healthy)
    /\ UNCHANGED capacityVars
    /\ UNCHANGED <<affinity, inFlight, refused>>
    /\ UNCHANGED worldVars

DeferralTimeout ==
    /\ stage.pc = "defer"
    /\ stage' = [stage EXCEPT !.pc = "wait"]
    /\ UNCHANGED capacityVars
    /\ UNCHANGED <<affinity, task, inFlight, refused>>
    /\ UNCHANGED worldVars

Over(t) == task[t].pc \in {"done", "failed"}

(* wg.Wait, then the verdict: a task that was not placed or failed fails    *)
(* the stage.                                                               *)
FinishStage ==
    /\ stage.pc = "wait"
    /\ \A t \in 1..stage.next - 1 : Over(t)
    /\ stage' = [stage EXCEPT !.pc =
                    IF \A t \in Tasks : task[t].pc = "done" THEN "done" ELSE "failed"]
    /\ UNCHANGED capacityVars
    /\ UNCHANGED <<affinity, task, inFlight, refused>>
    /\ UNCHANGED worldVars

-----------------------------------------------------------------------------
(* A task goroutine: executeTaskWithRetry and executeTask *)

reserveNodeSlot(n) ==
    /\ known' = known \cup {n}
    /\ cap' = [cap EXCEPT ![n] = [Capacity(n) EXCEPT !.reserved = @ + 1, !.fresh = TRUE]]

\* Mutant: the slot is not given back.
releaseNodeSlot_Leak(n) ==
    /\ known' = known \cup {n}
    /\ cap' = [cap EXCEPT ![n] = [Capacity(n) EXCEPT !.fresh = TRUE]]

releaseNodeSlot(n) ==
    /\ known' = known \cup {n}
    /\ cap' = [cap EXCEPT ![n] = [Capacity(n) EXCEPT !.reserved = Larger(@ - 1, 0),
                                                     !.fresh = TRUE]]

\* Mutant: the number of attempts is not checked.
RetryOrFail_Forever(t) == task' = [Start(t, stage.nodes) EXCEPT ![t].attempt = 0]

(* Another attempt selects among the nodes of the stage's start.            *)
RetryOrFail(t) ==
    task' = IF task[t].attempt < MaxDispatchAttempts
            THEN Start(t, stage.nodes)
            ELSE [task EXCEPT ![t].pc = "failed"]

Claim(t) ==
    /\ task[t].pc = "claim"
    /\ \/ reserveNodeSlot(task[t].node) /\ task' = [task EXCEPT ![t].pc = "call"]
       \/ RetryOrFail(t) /\ UNCHANGED <<known, cap>>
       \/ task' = [task EXCEPT ![t].pc = "failed"] /\ UNCHANGED <<known, cap>>
    /\ UNCHANGED <<cooldown, affinity, stage, inFlight, refused>>
    /\ UNCHANGED worldVars

(* The worker starts to execute. It does not refuse work by itself.         *)
Execute(t) ==
    LET n == task[t].node
    IN  /\ task[t].pc = "call"
        /\ task' = [task EXCEPT ![t].pc = "exec"]
        /\ inFlight' = [inFlight EXCEPT ![n] = @ + 1]
        /\ UNCHANGED capacityVars
        /\ UNCHANGED <<affinity, stage, refused>>
        /\ UNCHANGED worldVars

\* Mutant: the counter goes down for calls that were never executed too.
WorkerEnds_Always(t) ==
    \/ inFlight' = [inFlight EXCEPT ![task[t].node] = @ - 1]
    \/ UNCHANGED inFlight

(* The worker is done, unless the caller gave up first.                     *)
WorkerEnds(t) ==
    \/ task[t].pc = "exec" /\ inFlight' = [inFlight EXCEPT ![task[t].node] = @ - 1]
    \/ UNCHANGED inFlight

ReturnOK(t) ==
    LET n == task[t].node
    IN  /\ task[t].pc = "exec"
        /\ inFlight' = [inFlight EXCEPT ![n] = @ - 1]
        /\ releaseNodeSlot(n)
        /\ task' = [task EXCEPT ![t].pc = "done"]
        /\ UNCHANGED <<cooldown, affinity, stage, refused>>
        /\ UNCHANGED worldVars

(* An error that is not a capacity conflict fails the task at once: no      *)
(* authority, a lost connection, a timeout, a failing agent.                *)
ReturnError(t) ==
    LET n == task[t].node
    IN  /\ task[t].pc \in {"call", "exec"}
        /\ WorkerEnds(t)
        /\ releaseNodeSlot(n)
        /\ task' = [task EXCEPT ![t].pc = "failed"]
        /\ UNCHANGED <<cooldown, affinity, stage, refused>>
        /\ UNCHANGED worldVars

\* Mutant: the refusing node is not put in cooldown.
markDispatchCooldown_Never(n) == cooldown' = cooldown

(* An error that mentions capacity: cooldown, release, retry elsewhere.     *)
markDispatchCooldown(n) == cooldown' = cooldown \cup {n}

ReturnConflict(t) ==
    LET n == task[t].node
    IN  /\ task[t].pc \in {"call", "exec"}
        /\ WorkerEnds(t)
        /\ markDispatchCooldown(n)
        /\ releaseNodeSlot(n)
        /\ RetryOrFail(t)
        /\ refused' = [refused EXCEPT ![t] = @ \cup {n}]
        /\ UNCHANGED <<affinity, stage>>
        /\ UNCHANGED worldVars

-----------------------------------------------------------------------------
(* Heartbeats: startWorkerCapacityHeartbeat, UpdateWorkerCapacityHandler *)

Heartbeat(n) ==
    /\ sent < MaxReports
    /\ sent' = sent + 1
    /\ reports' = reports \cup {[node |-> n, inFlight |-> inFlight[n]]}
    /\ UNCHANGED capacityVars
    /\ UNCHANGED <<healthy, affinity, stage, task, inFlight, troubles, refused>>

(* max_concurrency of zero or less means the default; the cap bounds it.    *)
reportedMax == Smaller(IF WorkerMax <= 0 THEN DefaultMax ELSE WorkerMax, MaxCap)

(* A report overwrites the entry, also one of a later report.               *)
UpdateNodeCapacityAt(r) ==
    /\ known' = known \cup {r.node}
    /\ cap' = [cap EXCEPT ![r.node] =
                  [Capacity(r.node) EXCEPT !.reported = r.inFlight, !.max = reportedMax,
                                           !.fresh = TRUE]]

Deliver(r) ==
    /\ reports' = reports \ {r}
    /\ UpdateNodeCapacityAt(r)
    /\ UNCHANGED <<healthy, cooldown, affinity, stage, task, inFlight, sent, troubles, refused>>

Lose(r) ==
    /\ reports' = reports \ {r}
    /\ UNCHANGED capacityVars
    /\ UNCHANGED <<healthy, affinity, stage, task, inFlight, sent, troubles, refused>>

-----------------------------------------------------------------------------
(* Time and the registry *)

CapacityTTL(n) ==
    /\ troubles < MaxTroubles
    /\ n \in known /\ cap[n].fresh
    /\ cap' = [cap EXCEPT ![n].fresh = FALSE]
    /\ troubles' = troubles + 1
    /\ UNCHANGED <<healthy, known, cooldown, affinity, stage, task, inFlight, sent,
                   reports, refused>>

CooldownExpires(n) ==
    /\ n \in cooldown
    /\ cooldown' = cooldown \ {n}
    /\ refused' = [t \in Tasks |-> refused[t] \ {n}]
    /\ UNCHANGED <<known, cap, affinity, stage, task, inFlight>>
    /\ UNCHANGED worldVars

cleanupExpired(k) ==
    /\ troubles < MaxTroubles
    /\ affinity[k] # NoNode
    /\ affinity' = [affinity EXCEPT ![k] = NoNode]
    /\ troubles' = troubles + 1
    /\ UNCHANGED capacityVars
    /\ UNCHANGED <<healthy, stage, task, inFlight, sent, reports, refused>>

NodeDown(n) ==
    /\ troubles < MaxTroubles
    /\ n \in healthy
    /\ healthy' = healthy \ {n}
    /\ troubles' = troubles + 1
    /\ UNCHANGED capacityVars
    /\ UNCHANGED <<affinity, stage, task, inFlight, sent, reports, refused>>

NodeUp(n) ==
    /\ n \notin healthy
    /\ healthy' = healthy \cup {n}
    /\ UNCHANGED capacityVars
    /\ UNCHANGED <<affinity, stage, task, inFlight, sent, reports, troubles, refused>>

-----------------------------------------------------------------------------
RunLoop == StartStage \/ Poll \/ DeferralTimeout \/ FinishStage

Goroutine(t) ==
    \/ Lookup(t) \/ Choose(t) \/ Pin(t)
    \/ Claim(t) \/ Execute(t) \/ ReturnOK(t) \/ ReturnError(t) \/ ReturnConflict(t)

(* The steps of a task's goroutine that end in bounded time.  A call to a  *)
(* worker is not one until its connection is there: GetConnection dials    *)
(* with grpc.WithBlock and no deadline, before the call's own timeout.     *)
Dialling(t) == task[t].pc = "call"
Prompt(t) == ~Dialling(t) /\ Goroutine(t)

Next ==
    \/ RunLoop
    \/ \E t \in Tasks : Goroutine(t)
    \/ \E n \in Nodes : Heartbeat(n) \/ CapacityTTL(n) \/ CooldownExpires(n)
                        \/ NodeDown(n) \/ NodeUp(n)
    \/ \E r \in reports : Deliver(r) \/ Lose(r)
    \/ \E k \in Keys : cleanupExpired(k)

Spec == Init /\ [][Next]_vars

-----------------------------------------------------------------------------
(* Properties *)

OnNode(n) == {t \in Tasks : task[t].pc \in {"call", "exec"} /\ task[t].node = n}

(* Slots are neither leaked nor given back twice: ReservedInFlight of a     *)
(* node is the number of goroutines between reserveNodeSlot and             *)
(* releaseNodeSlot on it, through conflicts, errors and retries.            *)
SlotAccounting == \A n \in Nodes : cap[n].reserved = Cardinality(OnNode(n))

(* A task is not sent back to a node that refused it for capacity before    *)
(* that node's cooldown has run out, whether the retry follows the affinity *)
(* map, the only healthy node or the capacity ranking.                      *)
NoReturnToRefuser ==
    \A t \in Tasks : task[t].pc \in {"pin", "claim", "call", "exec"}
                        => task[t].node \notin refused[t]

Ended == stage.pc \in {"done", "failed"}
=============================================================================

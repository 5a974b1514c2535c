---------------------------- MODULE WorkerNodes -----------------------------
(***************************************************************************)
(* How workers are found and reached: the registry over etcd, the          *)
(* connection pool and the manager of agent processes.                     *)
(***************************************************************************)
EXTENDS Integers, Sequences, FiniteSets

-----------------------------------------------------------------------------
(* Registry                                                                *)
(***************************************************************************)
(* The etcd-backed node registry (src/pkg/registry): one node's instance,  *)
(* its lease, its copy of the cluster's nodes, and the keys it shares with *)
(* the other nodes. Start registers, reads the existing nodes and starts   *)
(* the session manager and the watcher; UpdateNodeLoad may be called at    *)
(* any time. A node's record is its load.                                  *)
(***************************************************************************)

CONSTANTS
    Self,       \* this node
    Others,     \* the other nodes of the cluster
    MaxLoad,    \* bound: loads are 0..MaxLoad
    MaxLeases,  \* bound: sessions this node may create
    MaxChanges  \* bound: changes of the other nodes and calls of UpdateNodeLoad

RegNodes == Others \cup {Self}
None == -1

VARIABLES
    keys,      \* etcd: node -> its record, or None
    keyLease,  \* the lease the key of Self is attached to
    live,      \* leases of Self that have neither expired nor been revoked
    made,      \* leases created so far
    lease,     \* r.leaseID; r.session is the session of that lease
    load,      \* r.nodeInfo
    nodes,     \* r.nodes, the local cache
    start,     \* progress of Start and Stop
    watching,  \* the watch: "no" (not created), "open" or "dead" (its channel is closed)
    events,    \* events of the watch not yet handled
    missed,    \* nodes whose last change the watch did not deliver
    manager,   \* sessionManagerLoop: pc and what registerNode has read
    updater,   \* a caller of UpdateNodeLoad
    changes

regVars == <<keys, keyLease, live, made, lease, load, nodes, start, watching, events, missed,
          manager, updater, changes>>

Record == {None} \cup 0..MaxLoad
Call == [pc : {"idle", "created", "read", "put", "done"}, lease : 0..MaxLeases, load : 0..MaxLoad]
RegIdle == [pc |-> "idle", lease |-> 0, load |-> 0]

RegTypeOK ==
    /\ keys \in [RegNodes -> Record] /\ nodes \in [RegNodes -> Record]
    /\ keyLease \in 0..MaxLeases /\ live \subseteq 1..made
    /\ made \in 1..MaxLeases /\ lease \in 1..made /\ load \in 0..MaxLoad
    /\ start \in {"register", "sync", "run", "failed", "stopping", "unregister", "close", "stopped"}
    /\ watching \in {"no", "open", "dead"} /\ events \in Seq(RegNodes \X Record)
    /\ missed \subseteq RegNodes /\ manager \in Call /\ updater \in Call
    /\ changes \in 0..MaxChanges

(* NewDistributedAgentRegistry has created the session. *)
RegInit ==
    /\ keys \in [RegNodes -> {None, 0}] /\ keys[Self] = None
    /\ keyLease = 0 /\ live = {1} /\ made = 1 /\ lease = 1 /\ load = 0
    /\ nodes = [n \in RegNodes |-> None]
    /\ start = "register" /\ watching = "no" /\ events = <<>> /\ missed = {}
    /\ manager = [pc |-> "read", lease |-> 1, load |-> 0]
    /\ updater = RegIdle /\ changes = 0

-----------------------------------------------------------------------------
(* External: a key gets a new record, and the watch, if there is one, an   *)
(* event.                                                                  *)
Write(n, v) ==
    /\ keys' = [keys EXCEPT ![n] = v]
    /\ events' = IF watching = "open" THEN Append(events, <<n, v>>) ELSE events
    /\ missed' = IF watching = "open" THEN missed \ {n}
                 ELSE IF start \in {"register", "sync"} THEN missed ELSE missed \cup {n}

NoWrite == UNCHANGED <<keys, keyLease, events, missed>>

(* putWithLease: a put with a lease that is gone fails; any put may fail   *)
(* or time out.                                                            *)
putWithLease(call, ok) ==
    IF ok THEN /\ call.lease \in live
               /\ Write(Self, call.load) /\ keyLease' = call.lease
          ELSE NoWrite

(* A lease that ends takes the key attached to it along. *)
EndLease(l) ==
    /\ live' = live \ {l}
    /\ IF keyLease = l /\ keys[Self] # None
       THEN Write(Self, None) /\ keyLease' = 0
       ELSE NoWrite

LeaseExpires(l) ==
    /\ l \in live
    /\ EndLease(l)
    /\ UNCHANGED <<made, lease, load, nodes, start, watching, manager, updater, changes>>

(* Another node joins, changes its record or leaves. *)
OtherChanges(n, v) ==
    /\ changes < MaxChanges /\ changes' = changes + 1
    /\ v # keys[n]
    /\ Write(n, v)
    /\ UNCHANGED <<keyLease, live, made, lease, load, nodes, start, watching, manager, updater>>

-----------------------------------------------------------------------------
(* registerNode, run by Start and by reconnectSession: it has read the     *)
(* lease and the node's record, puts them, then changes the cache.         *)
registerNode(ok) ==
    /\ manager.pc = "read"
    /\ putWithLease(manager, ok)
    /\ manager' = [manager EXCEPT !.pc = IF ok THEN "put" ELSE "idle"]
    /\ start' = IF start = "register" /\ ~ok THEN "failed" ELSE start
    /\ UNCHANGED <<live, made, lease, load, nodes, watching, updater, changes>>

registerNodeCache ==
    /\ manager.pc = "put"
    /\ nodes' = [nodes EXCEPT ![Self] = manager.load]
    /\ manager' = RegIdle
    /\ start' = IF start = "register" THEN "sync" ELSE start
    /\ UNCHANGED <<keys, keyLease, live, made, lease, load, watching, events, missed, updater, changes>>

syncExistingNodes(ok) ==
    /\ start = "sync"
    /\ nodes' = IF ok THEN [n \in RegNodes |-> IF keys[n] # None THEN keys[n] ELSE nodes[n]] ELSE nodes
    /\ start' = IF ok THEN "run" ELSE "failed"
    /\ UNCHANGED <<keys, keyLease, live, made, lease, load, watching, events, missed, manager, updater, changes>>

(* watchClusterChanges: a watch begins at the revision of its creation. *)
Watch ==
    /\ start = "run" /\ watching = "no"
    /\ watching' = "open"
    /\ UNCHANGED <<keys, keyLease, live, made, lease, load, nodes, start, events, missed, manager, updater, changes>>

(* Mutant: a delete leaves the node in the cache. *)
handleNodeEvent_KeepsDeleted ==
    /\ start = "run" /\ watching # "no" /\ events # <<>>
    /\ nodes' = IF Head(events)[2] = None THEN nodes ELSE [nodes EXCEPT ![Head(events)[1]] = Head(events)[2]]
    /\ events' = Tail(events)
    /\ UNCHANGED <<keys, keyLease, live, made, lease, load, start, watching, missed, manager, updater, changes>>

handleNodeEvent ==
    /\ start = "run" /\ watching # "no" /\ events # <<>>
    /\ nodes' = [nodes EXCEPT ![Head(events)[1]] = Head(events)[2]]
    /\ events' = Tail(events)
    /\ UNCHANGED <<keys, keyLease, live, made, lease, load, start, watching, missed, manager, updater, changes>>

(* The watch ends with an error, after having delivered some of its events *)
(* or all: the loop logs "reconnecting..." and goes on to read the channel *)
(* that etcd has closed; it creates no other watch.                        *)
WatchFails(delivered) ==
    /\ start = "run" /\ watching = "open"
    /\ watching' = "dead"
    /\ events' = SubSeq(events, 1, delivered)
    /\ missed' = missed \cup {events[i][1] : i \in delivered + 1..Len(events)}
    /\ UNCHANGED <<keys, keyLease, live, made, lease, load, nodes, start, manager, updater, changes>>

(* sessionManagerLoop finds the session gone; reconnectSession creates a   *)
(* new one, closes the old one and installs it, then runs registerNode. It *)
(* reads the context before it creates a session, not afterwards.          *)
reconnectSession ==
    /\ start = "run" /\ manager.pc = "idle"
    /\ lease \notin live
    /\ made < MaxLeases
    /\ made' = made + 1 /\ live' = live \cup {made + 1}
    /\ manager' = [RegIdle EXCEPT !.pc = "created", !.lease = made + 1]
    /\ UNCHANGED <<keys, keyLease, lease, load, nodes, start, watching, events, missed, updater, changes>>

installSession ==
    /\ manager.pc = "created"
    /\ lease' = manager.lease
    /\ manager' = [manager EXCEPT !.pc = "read", !.load = load]
    /\ UNCHANGED <<keys, keyLease, live, made, load, nodes, start, watching, events, missed, updater, changes>>

-----------------------------------------------------------------------------
(* UpdateNodeLoad: the record and the cache change first, etcd afterwards. *)
UpdateNodeLoad(l) ==
    /\ updater.pc = "idle" /\ l # load
    /\ changes < MaxChanges /\ changes' = changes + 1
    /\ load' = l
    /\ nodes' = [nodes EXCEPT ![Self] = l]
    /\ updater' = [pc |-> "read", lease |-> lease, load |-> l]
    /\ UNCHANGED <<keys, keyLease, live, made, lease, start, watching, events, missed, manager>>

UpdateNodeLoadPut(ok) ==
    /\ updater.pc = "read"
    /\ start # "stopped" \/ ~ok   \* the client is closed
    /\ putWithLease(updater, ok)
    /\ updater' = RegIdle
    /\ UNCHANGED <<live, made, lease, load, nodes, start, watching, manager, changes>>

-----------------------------------------------------------------------------
(* Stop: cancel, wait for the goroutines, delete the key (the error is     *)
(* ignored), close the session; its revocation may fail as well.           *)
Stop ==
    /\ start = "run"
    /\ start' = "stopping"
    /\ UNCHANGED <<keys, keyLease, live, made, lease, load, nodes, watching, events, missed, manager, updater, changes>>

(* Mutant: the goroutines are not waited for. *)
StopWaits_Not ==
    /\ start = "stopping"
    /\ start' = "unregister"
    /\ UNCHANGED <<keys, keyLease, live, made, lease, load, nodes, watching, events, missed, manager, updater, changes>>

StopWaits ==
    /\ start = "stopping" /\ manager.pc = "idle"
    /\ start' = "unregister"
    /\ UNCHANGED <<keys, keyLease, live, made, lease, load, nodes, watching, events, missed, manager, updater, changes>>

unregisterNode(ok) ==
    /\ start = "unregister"
    /\ start' = "close"
    /\ IF ok /\ keys[Self] # None THEN Write(Self, None) /\ keyLease' = 0 ELSE NoWrite
    /\ UNCHANGED <<live, made, lease, load, nodes, watching, manager, updater, changes>>

(* Closing the session ends its keep-alive whether or not the revocation   *)
(* succeeds.                                                               *)
RegClose(revoked) ==
    /\ start = "close"
    /\ start' = "stopped"
    /\ IF revoked THEN EndLease(lease) ELSE NoWrite /\ UNCHANGED live
    /\ UNCHANGED <<made, lease, load, nodes, watching, manager, updater, changes>>

RegNext ==
    \/ \E l \in live : LeaseExpires(l)
    \/ \E n \in Others, v \in {None, 0} : OtherChanges(n, v)
    \/ \E ok \in BOOLEAN : registerNode(ok) \/ syncExistingNodes(ok) \/ UpdateNodeLoadPut(ok)
                           \/ unregisterNode(ok) \/ RegClose(ok)
    \/ registerNodeCache \/ Watch \/ handleNodeEvent \/ reconnectSession \/ installSession
    \/ \E l \in 0..MaxLoad : UpdateNodeLoad(l)
    \/ \E n \in 0..Len(events) : WatchFails(n)
    \/ Stop \/ StopWaits

RegSpec == RegInit /\ [][RegNext]_regVars

-----------------------------------------------------------------------------
(* The cache agrees with etcd about every other node once the events of    *)
(* the watch are handled, unless the node's last change fell between the    *)
(* filling of the cache and the watch, or after the watch had failed.  A   *)
(* watch that is open repairs it with the node's next change, a failed one *)
(* never.                                                                  *)
CacheCurrent ==
    \A n \in Others :
        start = "run" /\ n \notin missed /\ (\A i \in DOMAIN events : events[i][1] # n)
            => nodes[n] = keys[n]

(* A stopped node does not come back: no key of it is left that a session  *)
(* keeps alive, whichever call or reconnection was under way when Stop     *)
(* began. (A session is kept alive until it is closed.)                    *)
StoppedLeaves ==
    start = "stopped" => lease >= made /\ (keys[Self] # None => keyLease = lease)

-----------------------------------------------------------------------------
(* ConnectionPool                                                          *)
(* ConnectionPool of the remote executor: callers that ask for a connection to a     *)
(* node, the dial made under the pool's lock, connections that shut down, and Close. *)

CONSTANTS PoolCallers, PoolNodes,
          MaxConns      \* connections ever dialled

VARIABLES pool,         \* node -> connection in the map, 0 for none
          conns,        \* set of [id, node, open]
          lock,         \* holder of mu for writing, "free" when nobody
          poolCaller    \* caller -> [pc, node, conn]

poolVars == <<pool, conns, lock, poolCaller>>

Open(c) == \E k \in conns : k.id = c /\ k.open
Usable(n) == pool[n] # 0 /\ Open(pool[n])

PoolInit ==
  /\ pool = [n \in PoolNodes |-> 0] /\ conns = {} /\ lock = "free"
  /\ poolCaller \in [PoolCallers -> [pc : {"look"}, node : PoolNodes, conn : {0}]]

(* GetConnection under the read lock: a usable connection is shared. *)
Look(c) ==
  /\ poolCaller[c].pc = "look" /\ lock = "free"
  /\ poolCaller' = [poolCaller EXCEPT ![c] = IF Usable(@.node) THEN [pc |-> "got", node |-> @.node, conn |-> pool[@.node]]
                                     ELSE [@ EXCEPT !.pc = "lock"]]
  /\ UNCHANGED <<pool, conns, lock>>

(* Mutant: what another caller dialled meanwhile is not looked for again. *)
Lock_NoRecheck(c) ==
  /\ poolCaller[c].pc = "lock" /\ lock = "free"
  /\ lock' = c /\ poolCaller' = [poolCaller EXCEPT ![c].pc = "dial"]
  /\ UNCHANGED <<pool, conns>>
(* The write lock and the second look. *)
Lock(c) ==
  /\ poolCaller[c].pc = "lock" /\ lock = "free"
  /\ IF Usable(poolCaller[c].node)
     THEN /\ poolCaller' = [poolCaller EXCEPT ![c].pc = "got", ![c].conn = pool[poolCaller[c].node]]
          /\ UNCHANGED lock
     ELSE lock' = c /\ poolCaller' = [poolCaller EXCEPT ![c].pc = "dial"]
  /\ UNCHANGED <<pool, conns>>

(* grpc.Dial, blocking and with the lock held, until it connects or fails. *)
Dial(c, ok) ==
  /\ poolCaller[c].pc = "dial"
  /\ IF ok
     THEN LET id == Cardinality(conns) + 1
              n == poolCaller[c].node
          IN /\ id <= MaxConns
             /\ conns' = conns \cup {[id |-> id, node |-> n, open |-> TRUE]}
             /\ pool' = [pool EXCEPT ![n] = id]
             /\ poolCaller' = [poolCaller EXCEPT ![c].pc = "got", ![c].conn = id]
     ELSE poolCaller' = [poolCaller EXCEPT ![c].pc = "failed"] /\ UNCHANGED <<pool, conns>>
  /\ lock' = "free"

Again(c) ==
  /\ poolCaller[c].pc \in {"got", "failed"}
  /\ \E n \in PoolNodes : poolCaller' = [poolCaller EXCEPT ![c] = [pc |-> "look", node |-> n, conn |-> 0]]
  /\ UNCHANGED <<pool, conns, lock>>

(* Close shuts every connection of the map and empties it. *)
PoolClose ==
  /\ lock = "free"
  /\ conns' = {[k EXCEPT !.open = k.open /\ \A n \in PoolNodes : pool[n] # k.id] : k \in conns}
  /\ pool' = [n \in PoolNodes |-> 0]
  /\ UNCHANGED <<lock, poolCaller>>

PoolNext ==
  \/ \E c \in PoolCallers : Look(c) \/ Lock(c) \/ (\E ok \in BOOLEAN : Dial(c, ok)) \/ Again(c)
  \/ PoolClose

PoolSpec == PoolInit /\ [][PoolNext]_poolVars

PoolTypeOK ==
  /\ pool \in [PoolNodes -> 0..MaxConns] /\ lock \in PoolCallers \cup {"free"}
  /\ \A c \in PoolCallers : poolCaller[c].pc \in {"look", "lock", "dial", "got", "failed"}

(* No connection leaks: every open one is in the map, so there is one at most to a   *)
(* node however many callers miss it together, and Close reaches them all.           *)
NoConnectionLeaks == \A k \in conns : k.open => pool[k.node] = k.id

-----------------------------------------------------------------------------
(* ProcessManager                                                          *)
(***************************************************************************)
(* The manager of external agent processes (process_manager.go): starting, *)
(* monitoring, health checking, stopping and restarting the processes of   *)
(* one agent name, with the agent's card in the A2A registry. StartAgent   *)
(* runs under the manager's lock; the monitor and the health check of each *)
(* process are goroutines of their own, and callers stop and restart       *)
(* concurrently.                                                           *)
(***************************************************************************)

CONSTANTS
    ProcCallers,
    MaxStarts,  \* bound: processes started
    MaxStops    \* bound: calls of StopAgent and RestartAgent

VARIABLES
    mps,        \* the ManagedProcesses ever created
    current,    \* pm.processes[name]: index in mps, or 0
    card,       \* the agent's card is in the registry
    procCaller,  \* callers of StartAgent, StopAgent and RestartAgent
    stops       \* calls of StopAgent and RestartAgent so far

procVars == <<mps, current, card, procCaller, stops>>

ProcessStatus == {"starting", "running", "healthy", "unhealthy", "stopping", "stopped", "failed"}

(* proc: the operating system's process. A result is where the exit of the *)
(* process has not been collected yet.                                     *)
ManagedProcess ==
    [status : ProcessStatus, proc : {"alive", "exited"}, killed : BOOLEAN,
     monitor : {"waiting", "done"}, health : {"off", "polling", "answered"}, cancelled : BOOLEAN]

ProcTypeOK ==
    /\ mps \in Seq(ManagedProcess) /\ Len(mps) <= MaxStarts
    /\ current \in 0..Len(mps) /\ card \in BOOLEAN /\ stops \in 0..MaxStops
    /\ procCaller \in [ProcCallers -> [pc : {"idle", "stopping", "signalled", "exited", "start"},
                               mp : 0..Len(mps), restart : BOOLEAN]]

ProcInit ==
    /\ mps = <<>> /\ current = 0 /\ card = FALSE /\ stops = 0
    /\ procCaller = [c \in ProcCallers |-> [pc |-> "idle", mp |-> 0, restart |-> FALSE]]

ProcIdle(c) == procCaller' = [procCaller EXCEPT ![c] = [pc |-> "idle", mp |-> 0, restart |-> FALSE]]

AlreadyRunning == current # 0 /\ mps[current].status \in {"running", "healthy"}

(* StartAgent, under the lock from the check to the registration; an error *)
(* of the command leaves everything as it was.                             *)
StartAgent(c, healthCheck) ==
    /\ procCaller[c].pc \in {"idle", "start"}
    /\ ~AlreadyRunning /\ Len(mps) < MaxStarts
    /\ mps' = Append(mps, [status |-> IF healthCheck THEN "starting" ELSE "running", proc |-> "alive",
                           killed |-> FALSE, monitor |-> "waiting",
                           health |-> IF healthCheck THEN "polling" ELSE "off", cancelled |-> FALSE])
    /\ current' = Len(mps')
    /\ card' = TRUE
    /\ ProcIdle(c) /\ UNCHANGED stops

StartFails(c) ==
    /\ procCaller[c].pc = "start"
    /\ ProcIdle(c)
    /\ UNCHANGED <<mps, current, card, stops>>

-----------------------------------------------------------------------------
(* External: a process ends by itself, by the signal, the kill, or the end *)
(* of the context it was started with.                                     *)
Exit(i) ==
    /\ mps[i].proc = "alive"
    /\ mps' = [mps EXCEPT ![i].proc = "exited"]
    /\ UNCHANGED <<current, card, procCaller, stops>>

(* Mutant: the monitor leaves the card to StopAgent. *)
monitorProcess_KeepsCard(i, err) ==
    /\ mps[i].proc = "exited" /\ mps[i].monitor = "waiting"
    /\ mps' = [mps EXCEPT ![i].status = IF err THEN "failed" ELSE "stopped", ![i].monitor = "done"]
    /\ card' = (card /\ ~mps[i].cancelled)
    /\ UNCHANGED <<current, procCaller, stops>>

(* monitorProcess: Wait has returned; status and card, under the lock.     *)
monitorProcess(i, err) ==
    /\ mps[i].proc = "exited" /\ mps[i].monitor = "waiting"
    /\ mps' = [mps EXCEPT ![i].status = IF err THEN "failed" ELSE "stopped", ![i].monitor = "done"]
    /\ card' = FALSE
    /\ UNCHANGED <<current, procCaller, stops>>

(* waitForHealthy: the endpoint answers (any process that listens on the   *)
(* port may have), and later the lock is taken; or the time is over; or    *)
(* the process was stopped.                                                *)
Check(i) ==
    /\ mps[i].health = "polling" /\ \E j \in DOMAIN mps : mps[j].proc = "alive"
    /\ mps' = [mps EXCEPT ![i].health = "answered"]
    /\ UNCHANGED <<current, card, procCaller, stops>>

waitForHealthy(i) ==
    /\ \/ mps[i].health = "answered" /\ mps' = [mps EXCEPT ![i].status = "healthy", ![i].health = "off"]
       \/ mps[i].health = "polling" /\ mps' = [mps EXCEPT ![i].status = "unhealthy", ![i].health = "off"]
       \/ mps[i].health = "polling" /\ mps[i].cancelled /\ mps' = [mps EXCEPT ![i].health = "off"]
    /\ UNCHANGED <<current, card, procCaller, stops>>

-----------------------------------------------------------------------------
(* StopAgent: look the process up, mark it, cancel and signal; wait for    *)
(* its exit or kill it after ten seconds; mark it stopped.                 *)
StopAgent(c, restart) ==
    /\ procCaller[c].pc = "idle" /\ current # 0 /\ stops < MaxStops /\ stops' = stops + 1
    /\ procCaller' = [procCaller EXCEPT ![c] = [pc |-> "stopping", mp |-> current, restart |-> restart]]
    /\ UNCHANGED <<mps, current, card>>

Signal(c) ==
    /\ procCaller[c].pc = "stopping"
    /\ mps' = [mps EXCEPT ![procCaller[c].mp].status = "stopping", ![procCaller[c].mp].cancelled = TRUE]
    /\ procCaller' = [procCaller EXCEPT ![c].pc = "signalled"]
    /\ UNCHANGED <<current, card, stops>>

(* Mutant: the timeout does not kill. *)
StopWait_NoKill(c) ==
    /\ procCaller[c].pc = "signalled"
    /\ procCaller' = [procCaller EXCEPT ![c].pc = "exited"]
    /\ UNCHANGED <<mps, current, card, stops>>

StopWait(c) ==
    LET i == procCaller[c].mp IN
    /\ procCaller[c].pc = "signalled"
    /\ mps' = IF mps[i].proc = "exited" THEN mps ELSE [mps EXCEPT ![i].killed = TRUE]
    /\ procCaller' = [procCaller EXCEPT ![c].pc = "exited"]
    /\ UNCHANGED <<current, card, stops>>

(* RestartAgent counts the restart and calls StartAgent.                   *)
StopReturns(c) ==
    /\ procCaller[c].pc = "exited"
    /\ mps' = [mps EXCEPT ![procCaller[c].mp].status = "stopped"]
    /\ procCaller' = [procCaller EXCEPT ![c].pc = IF procCaller[c].restart THEN "start" ELSE "idle",
                                ![c].mp = IF procCaller[c].restart THEN @ ELSE 0,
                                ![c].restart = FALSE]
    /\ UNCHANGED <<current, card, stops>>

ProcNext ==
    \/ \E c \in ProcCallers, b \in BOOLEAN : StartAgent(c, b) \/ StopAgent(c, b)
    \/ \E c \in ProcCallers : StartFails(c) \/ Signal(c) \/ StopWait(c) \/ StopReturns(c)
    \/ \E i \in DOMAIN mps : Exit(i) \/ Check(i) \/ waitForHealthy(i) \/ \E err \in BOOLEAN : monitorProcess(i, err)

ProcSpec == ProcInit /\ [][ProcNext]_procVars

-----------------------------------------------------------------------------
(* The registry holds no card of an agent all of whose processes are gone: *)
(* a card is there only while some process still has its monitor to run,   *)
(* and the monitor removes it.                                             *)
NoGhostCard == card => \E i \in DOMAIN mps : mps[i].monitor = "waiting"

(* A process that StopAgent gave up waiting for was killed: a status of    *)
(* "stopped" is never that of a process left to run.                       *)
StoppedIsDying ==
    \A i \in DOMAIN mps : mps[i].status = "stopped" => mps[i].proc = "exited" \/ mps[i].killed
=============================================================================

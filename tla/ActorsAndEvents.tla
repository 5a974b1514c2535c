-------------------------- MODULE ActorsAndEvents ---------------------------
(***************************************************************************)
(* The actor system, the event bus and the health registry.                *)
(***************************************************************************)
EXTENDS Integers, Sequences, FiniteSets

-----------------------------------------------------------------------------
(* ActorSystem                                                             *)
(* The actor system with one supervised child: callers that send requests to the     *)
(* child's address, the processes that come and go under that address, the           *)
(* supervisor that spawns, stops and restarts it, and the stop of the whole system.  *)

CONSTANTS Callers,
          MaxProcs,      \* processes ever spawned for the child
          Cap,           \* capacity of a mailbox
          RestartLimit

VARIABLES sys,           \* "up", "stopping", "stopped"
          actor,         \* the process under the child's address, 0 for none
          proc,          \* process -> [stopped, alive, mail, busy]
          caller,        \* caller -> [pc, to]
          sup,           \* the supervisor's goroutine: [pc, old, asked]; asked: by a restart message
          toStop,        \* the process System.Stop has taken out of the map and not yet stopped
          config,        \* the supervisor has the child's configuration
          childProc,     \* the process it tracks, 0 for none
          restarts,      \* restartCount
          sinceReset,    \* restarts made for failures since the count was last reset
          loose          \* ghost: processes that no restart would stop

actorVars == <<sys, actor, proc, caller, sup, toStop, config, childProc, restarts, sinceReset, loose>>

Procs == 1..MaxProcs
Fresh == [stopped |-> FALSE, alive |-> FALSE, mail |-> <<>>, busy |-> "none"]
Idle == [pc |-> "idle", old |-> 0, asked |-> FALSE]
Spawned == {p \in Procs : proc[p].alive \/ proc[p].stopped}
Free == {p \in Procs \ Spawned : \A q \in Procs \ Spawned : p <= q}

ActorInit ==
  /\ sys = "up" /\ actor = 0 /\ proc = [p \in Procs |-> Fresh]
  /\ caller \in [Callers -> [pc : {"adapter", "request"}, to : {0}]]
  /\ sup = Idle /\ toStop = 0
  /\ config = FALSE /\ childProc = 0 /\ restarts = 0 /\ sinceReset = 0 /\ loose = {}

supVars == <<sup, toStop, config, childProc, restarts, sinceReset, loose>>

(* InvokeActor asks the system for the agent first and goes outside when it has      *)
(* none; the server's HandleInvocation requests at once.                             *)
InvokeActor(c) ==
  /\ caller[c].pc = "adapter"
  /\ caller' = [caller EXCEPT ![c].pc = IF actor = 0 THEN "external" ELSE "request"]
  /\ UNCHANGED <<sys, actor, proc, supVars>>

(* Request and Send: the address is looked up, and a stopped process turns the       *)
(* message away.                                                                     *)
Lookup(c) ==
  /\ caller[c].pc = "request"
  /\ caller' = [caller EXCEPT ![c] = IF actor = 0 \/ proc[actor].stopped THEN [pc |-> "refused", to |-> 0]
                                     ELSE [pc |-> "send", to |-> actor]]
  /\ UNCHANGED <<sys, actor, proc, supVars>>

(* The select of Process.Send: room in the mailbox, or the end of the process, which *)
(* may have come since; with both it is either.                                      *)
Send(c) ==
  /\ caller[c].pc = "send"
  /\ LET p == caller[c].to
     IN \/ /\ Len(proc[p].mail) < Cap
           /\ proc' = [proc EXCEPT ![p].mail = Append(@, c)]
           /\ caller' = [caller EXCEPT ![c] = [pc |-> "wait", to |-> 0]]
        \/ /\ proc[p].stopped
           /\ caller' = [caller EXCEPT ![c] = [pc |-> "refused", to |-> 0]]
           /\ UNCHANGED proc
  /\ UNCHANGED <<sys, actor, supVars>>

RequestTimeout(c) ==
  /\ caller[c].pc = "wait"
  /\ caller' = [caller EXCEPT ![c].pc = "timeout"]
  /\ UNCHANGED <<sys, actor, proc, supVars>>

(* Process.run: the next message, or the end once the process is cancelled; with     *)
(* both ready either may be taken.                                                   *)
Take(p) ==
  /\ proc[p].alive /\ proc[p].busy = "none" /\ proc[p].mail # <<>>
  /\ proc' = [proc EXCEPT ![p].busy = Head(proc[p].mail), ![p].mail = Tail(@)]
  /\ UNCHANGED <<sys, actor, caller, supVars>>

Exit(p) ==
  /\ proc[p].alive /\ proc[p].busy = "none" /\ proc[p].stopped
  /\ proc' = [proc EXCEPT ![p].alive = FALSE] /\ loose' = loose \ {p}
  /\ UNCHANGED <<sys, actor, caller, sup, toStop, config, childProc, restarts, sinceReset>>

(* Receive answers into the caller's buffered channel, or panics; a panic is         *)
(* recovered and the loop goes on.                                                   *)
Receive(p, panics) ==
  /\ proc[p].alive /\ proc[p].busy # "none"
  /\ LET c == proc[p].busy
     IN caller' = IF ~panics /\ caller[c].pc = "wait" THEN [caller EXCEPT ![c].pc = "answered"] ELSE caller
  /\ proc' = [proc EXCEPT ![p].busy = "none"]
  /\ UNCHANGED <<sys, actor, supVars>>

(* System.Spawn: refused while the address is taken, even by a stopped process. *)
SpawnAt(p) == actor' = p /\ proc' = [proc EXCEPT ![p].alive = TRUE]

(* The supervisor's methods, which any goroutine may call at any time.  SpawnChild. *)
SpawnChild ==
  /\ sys # "stopped" /\ actor = 0
  /\ \E p \in Free :
       /\ SpawnAt(p) /\ childProc' = p
       /\ loose' = IF sup.pc \in {"idle", "restart"} THEN loose ELSE loose \cup {p}
  /\ config' = TRUE
  /\ UNCHANGED <<sys, caller, sup, toStop, restarts, sinceReset>>

(* StopChild forgets the child and stops its process; the system keeps the address. *)
StopChild ==
  /\ sys # "stopped" /\ (config \/ childProc # 0)
  /\ config' = FALSE /\ childProc' = 0 /\ loose' = loose \cup {p \in {childProc} \ {0} : proc[p].alive}
  /\ proc' = IF childProc = 0 THEN proc ELSE [proc EXCEPT ![childProc].stopped = TRUE]
  /\ UNCHANGED <<sys, actor, caller, sup, toStop, restarts, sinceReset>>

(* AddChild keeps the configuration and spawns nothing; RemoveChild forgets the      *)
(* child and stops nothing.                                                          *)
AddChild ==
  /\ sys # "stopped" /\ ~config /\ config' = TRUE
  /\ UNCHANGED <<sys, actor, proc, caller, sup, toStop, childProc, restarts, sinceReset, loose>>
RemoveChild ==
  /\ sys # "stopped" /\ (config \/ childProc # 0) /\ config' = FALSE /\ childProc' = 0 /\ loose' = loose \cup {p \in {childProc} \ {0} : proc[p].alive}
  /\ UNCHANGED <<sys, actor, proc, caller, sup, toStop, restarts, sinceReset>>

(* Mutant: the limit is compared before the failure is counted. *)
OverLimit_Before(n) == n > RestartLimit + 1
OverLimit(n) == n > RestartLimit

(* handleFailureMessage: within the window failures are counted and past the limit   *)
(* nothing is restarted; outside it the count starts at one and the restart is made. *)
FailureMessage(inWindow) ==
  /\ sup.pc = "idle" /\ sys # "stopped"
  /\ IF inWindow
     THEN /\ restarts <= RestartLimit
          /\ restarts' = restarts + 1
          /\ UNCHANGED sinceReset
          /\ sup' = IF OverLimit(restarts') THEN sup ELSE [Idle EXCEPT !.pc = "restart"]
     ELSE /\ restarts' = 1 /\ sinceReset' = 0
          /\ sup' = [Idle EXCEPT !.pc = "restart"]
  /\ UNCHANGED <<sys, actor, proc, caller, toStop, config, childProc, loose>>
(* handleRestartMessage restarts the child without a look at the count. *)
RestartMessage ==
  /\ sup.pc = "idle" /\ sys # "stopped" /\ sup' = [Idle EXCEPT !.pc = "restart", !.asked = TRUE]
  /\ UNCHANGED <<sys, actor, proc, caller, toStop, config, childProc, restarts, sinceReset, loose>>

(* restartChild reads the configuration and the process it tracks; without a         *)
(* configuration nothing happens, ...                                                *)
RestartRead ==
  /\ sup.pc = "restart"
  /\ sup' = IF config THEN [sup EXCEPT !.pc = "stop", !.old = childProc] ELSE Idle
  /\ loose' = IF config THEN loose \cup {p \in Procs : proc[p].alive /\ p # childProc} ELSE loose
  /\ UNCHANGED <<sys, actor, proc, caller, toStop, config, childProc, restarts, sinceReset, loose>>
(* Mutant: the old process is cancelled but not waited for. *)
RestartStop_NoWait ==
  /\ sup.pc = "stop" /\ sup' = [sup EXCEPT !.pc = "delete"]
  /\ proc' = IF sup.old = 0 THEN proc ELSE [proc EXCEPT ![sup.old].stopped = TRUE]
  /\ UNCHANGED <<sys, actor, caller, toStop, config, childProc, restarts, sinceReset, loose>>
(* ... else that process is stopped, which waits for its goroutine unless somebody   *)
(* stopped it before, ...                                                            *)
RestartStop ==
  /\ sup.pc = "stop"
  /\ IF sup.old = 0 \/ (sup.old # 0 /\ proc[sup.old].stopped)
     THEN sup' = [sup EXCEPT !.pc = "delete"] /\ UNCHANGED proc
     ELSE /\ sup' = [sup EXCEPT !.pc = "wait"]
          /\ proc' = [proc EXCEPT ![sup.old].stopped = TRUE]
  /\ UNCHANGED <<sys, actor, caller, toStop, config, childProc, restarts, sinceReset, loose>>

(* Process.Stop's wg.Wait. *)
StopWaited ==
  /\ sup.pc = "wait" /\ ~proc[sup.old].alive
  /\ sup' = [sup EXCEPT !.pc = "delete"]
  /\ UNCHANGED <<sys, actor, proc, caller, toStop, config, childProc, restarts, sinceReset, loose>>

(* ... the address is taken out of the system ... *)
RestartDelete ==
  /\ sup.pc = "delete" /\ actor' = 0 /\ sup' = [sup EXCEPT !.pc = "respawn"]
  /\ UNCHANGED <<sys, proc, caller, toStop, config, childProc, restarts, sinceReset, loose>>

(* ... and a new process put under it, unless somebody else was faster. *)
Respawn ==
  /\ sup.pc = "respawn"
  /\ IF actor # 0 THEN UNCHANGED <<actor, proc, childProc, sinceReset>>
     ELSE /\ \E p \in Free : SpawnAt(p) /\ childProc' = p
          /\ sinceReset' = IF sup.asked THEN sinceReset ELSE sinceReset + 1
  /\ sup' = Idle
  /\ UNCHANGED <<sys, caller, toStop, config, restarts, loose>>

(* System.Stop: the map is emptied first, then each process is stopped and waited    *)
(* for, the supervisor's own included.                                               *)
SystemStop ==
  /\ sys = "up"
  /\ sys' = "stopping" /\ actor' = 0 /\ toStop' = actor
  /\ UNCHANGED <<proc, caller, sup, config, childProc, restarts, sinceReset, loose>>

StopProcess ==
  /\ toStop # 0
  /\ proc' = [proc EXCEPT ![toStop].stopped = TRUE] /\ toStop' = 0
  /\ UNCHANGED <<sys, actor, caller, sup, config, childProc, restarts, sinceReset, loose>>

SystemStopped ==
  /\ sys = "stopping" /\ toStop = 0 /\ sup.pc = "idle"
  /\ \A p \in Procs : proc[p].stopped => ~proc[p].alive
  /\ sys' = "stopped"
  /\ UNCHANGED <<actor, proc, caller, supVars>>

ActorNext ==
  \/ \E c \in Callers : InvokeActor(c) \/ Lookup(c) \/ Send(c) \/ RequestTimeout(c)
  \/ \E p \in Procs : Take(p) \/ Exit(p) \/ \E b \in BOOLEAN : Receive(p, b)
  \/ SpawnChild \/ StopChild \/ AddChild \/ RemoveChild
  \/ (\E w \in BOOLEAN : FailureMessage(w)) \/ RestartMessage
  \/ RestartRead \/ RestartStop \/ StopWaited \/ RestartDelete \/ Respawn
  \/ SystemStop \/ StopProcess \/ SystemStopped

ActorSpec == ActorInit /\ [][ActorNext]_actorVars

ActorTypeOK ==
  /\ sys \in {"up", "stopping", "stopped"} /\ actor \in 0..MaxProcs /\ childProc \in 0..MaxProcs
  /\ \A p \in Procs : Len(proc[p].mail) <= Cap
  /\ sup.pc \in {"idle", "restart", "stop", "wait", "delete", "respawn"}

(* While the system is up the actor runs in one process, for a restart waits for the *)
(* process it replaces.  Only one that StopChild or RemoveChild let go of, or that   *)
(* the supervisor did not track when the restart began, may still run beside it.     *)
OneIncarnation == sys = "up" => Cardinality({p \in Procs : proc[p].alive} \ loose) <= 1

(* Between two resets of the count no more restarts are made for failures than the   *)
(* limit, save the one that a failure outside the window is always granted.          *)
(* Restarts asked for by a message are not counted.                                  *)
RestartBudget == sinceReset <= IF RestartLimit = 0 THEN 1 ELSE RestartLimit

-----------------------------------------------------------------------------
(* EventBus                                                                *)
(* MemoryEventBus with its recorder and its counting handler: Publish takes the      *)
(* handlers of the event's type, runs each in a goroutine of its own and waits.      *)

CONSTANTS Types, Handlers, Publications

VARIABLES subscribers,   \* type -> set of handlers ("*" is a type like any other)
          publication,   \* publication -> [pc, type, due, todo, failed]
          counts,        \* EventMetrics: type -> events tracked
          store,         \* events the recorder has stored
          closed

busVars == <<subscribers, publication, counts, store, closed>>

AllTypes == Types \cup {"*"}
AllHandlers == Handlers \cup {"recorder", "metrics"}
NotYet == [pc |-> "new", type |-> "*", due |-> {}, todo |-> {}, failed |-> FALSE]

(* NewEventRecorder subscribes to "*". *)
BusInit ==
  /\ subscribers = [t \in AllTypes |-> IF t = "*" THEN {"recorder"} ELSE {}]
  /\ publication = [p \in Publications |-> NotYet]
  /\ counts = [t \in Types |-> 0] /\ store = {} /\ closed = FALSE

Subscribe(t, h) ==
  /\ h \notin subscribers[t]
  /\ subscribers' = [subscribers EXCEPT ![t] = @ \cup {h}]
  /\ UNCHANGED <<publication, counts, store, closed>>

(* Unsubscribe drops every handler of the type. *)
Unsubscribe(t) ==
  /\ subscribers[t] # {}
  /\ subscribers' = [subscribers EXCEPT ![t] = {}]
  /\ UNCHANGED <<publication, counts, store, closed>>

(* Publish: the handlers of exactly this type, as they are now. *)
Publish(p, t) ==
  /\ publication[p].pc = "new"
  /\ publication' = [publication EXCEPT ![p] =
       [pc |-> "running", type |-> t, due |-> subscribers[t], todo |-> subscribers[t], failed |-> FALSE]]
  /\ UNCHANGED <<subscribers, counts, store, closed>>

(* One handler runs, with the bus's context (cancelled or not). *)
Handle(p, h, ok) ==
  /\ publication[p].pc = "running" /\ h \in publication[p].todo
  /\ h \in {"recorder", "metrics"} => ok
  /\ publication' = [publication EXCEPT ![p].todo = @ \ {h}, ![p].failed = @ \/ ~ok]
  /\ counts' = IF h = "metrics" THEN [counts EXCEPT ![publication[p].type] = @ + 1] ELSE counts
  /\ store' = IF h = "recorder" THEN store \cup {p} ELSE store
  /\ UNCHANGED <<subscribers, closed>>

(* Mutant: the handlers are not waited for. *)
Return_AtOnce(p) ==
  /\ publication[p].pc = "running"
  /\ publication' = [publication EXCEPT ![p].pc = IF publication[p].failed THEN "error" ELSE "ok"]
  /\ UNCHANGED <<subscribers, counts, store, closed>>
(* wg.Wait, then the errors. *)
Return(p) ==
  /\ publication[p].pc = "running" /\ publication[p].todo = {}
  /\ publication' = [publication EXCEPT ![p].pc = IF publication[p].failed THEN "error" ELSE "ok"]
  /\ UNCHANGED <<subscribers, counts, store, closed>>

(* Close cancels the context and nothing else: publications go on. *)
Close ==
  /\ ~closed /\ closed' = TRUE
  /\ UNCHANGED <<subscribers, publication, counts, store>>

BusNext ==
  \/ \E t \in Types : Unsubscribe(t) \/ \E h \in Handlers \cup {"metrics"} : Subscribe(t, h)
  \/ \E p \in Publications :
       \/ \E t \in Types : Publish(p, t)
       \/ \E h \in AllHandlers, ok \in BOOLEAN : Handle(p, h, ok)
       \/ Return(p)
  \/ Close

BusSpec == BusInit /\ [][BusNext]_busVars

BusTypeOK ==
  /\ subscribers \in [AllTypes -> SUBSET AllHandlers] /\ closed \in BOOLEAN
  /\ store \subseteq Publications
  /\ \A p \in Publications : publication[p].todo \subseteq publication[p].due

(* When Publish returns, the handlers it took have all run, and the counts agree     *)
(* with the publications the counting handler was due to see, whoever subscribed or  *)
(* unsubscribed meanwhile.                                                           *)
PublishedIsHandled ==
  /\ \A p \in Publications : publication[p].pc \in {"ok", "error"} => publication[p].todo = {}
  /\ \A t \in Types : counts[t] = Cardinality({p \in Publications :
        publication[p].type = t /\ "metrics" \in publication[p].due \ publication[p].todo})

-----------------------------------------------------------------------------
(* HealthRegistry                                                          *)
(* The registry of component health checks: a probe copies the registered checkers,  *)
(* runs each in a goroutine under one deadline and folds their results in the order  *)
(* they arrive, while checkers are registered and removed.                            *)

CONSTANTS Checkers, Database, Probes, MaxTroubles

VARIABLES registered, \* names with a checker
          up,         \* dependencies that answer their ping
          snapshot,   \* probe -> checkers it copied
          running,    \* probe -> checks in flight
          results,    \* probe -> results in the channel: checker -> status
          overall,    \* probe -> the status folded so far
          reported,   \* probe -> components in its response: checker -> status
          pc,         \* probe -> idle, collecting or answered
          troubles

healthVars == <<registered, up, snapshot, running, results, overall, reported, pc, troubles>>

Empty == [c \in {} |-> "healthy"]
HealthInit ==
  /\ registered \in SUBSET Checkers /\ up = Checkers
  /\ snapshot = [p \in Probes |-> {}] /\ running = [p \in Probes |-> {}]
  /\ results = [p \in Probes |-> Empty] /\ overall = [p \in Probes |-> "healthy"]
  /\ reported = [p \in Probes |-> Empty] /\ pc = [p \in Probes |-> "idle"] /\ troubles = 0

Register(c) ==
  /\ registered' = registered \cup {c}
  /\ UNCHANGED <<up, snapshot, running, results, overall, reported, pc, troubles>>
Unregister(c) ==
  /\ registered' = registered \ {c}
  /\ UNCHANGED <<up, snapshot, running, results, overall, reported, pc, troubles>>

(* A dependency goes down or comes back. *)
Trouble(c) ==
  /\ troubles < MaxTroubles /\ troubles' = troubles + 1
  /\ up' = IF c \in up THEN up \ {c} ELSE up \cup {c}
  /\ UNCHANGED <<registered, snapshot, running, results, overall, reported, pc>>

(* Check, up to its goroutines: the checkers are copied under the read lock. *)
Check(p) ==
  /\ pc[p] = "idle" /\ pc' = [pc EXCEPT ![p] = "collecting"]
  /\ snapshot' = [snapshot EXCEPT ![p] = registered] /\ running' = [running EXCEPT ![p] = registered]
  /\ UNCHANGED <<registered, up, results, overall, reported, troubles>>

(* What a checker finds: a database that fails is unhealthy, a model provider that    *)
(* fails is degraded, and a slow ping degrades a database that answers. The deadline *)
(* may fail the ping of a dependency that is up.                                      *)
CheckerStatuses(c) ==
  IF c \in Database THEN IF c \in up THEN {"healthy", "degraded", "unhealthy"} ELSE {"unhealthy"}
  ELSE IF c \in up THEN {"healthy", "degraded"} ELSE {"degraded"}
RunChecker(p, c) ==
  /\ c \in running[p] /\ running' = [running EXCEPT ![p] = @ \ {c}]
  /\ \E s \in CheckerStatuses(c) :
       results' = [results EXCEPT ![p] = [x \in DOMAIN @ \cup {c} |-> IF x = c THEN s ELSE @[x]]]
  /\ UNCHANGED <<registered, up, snapshot, overall, reported, pc, troubles>>

(* Mutant: the last bad result counts. *)
Fold_Last(status, s) == IF s = "healthy" THEN status ELSE s
Fold(status, s) ==
  CASE s = "unhealthy" -> "unhealthy"
    [] s = "degraded" -> IF status = "unhealthy" THEN status ELSE "degraded"
    [] OTHER -> status
(* The collector takes the results in whatever order they were sent. *)
Collect(p, c) ==
  /\ c \in DOMAIN results[p]
  /\ overall' = [overall EXCEPT ![p] = Fold(@, results[p][c])]
  /\ reported' = [reported EXCEPT ![p] = [x \in DOMAIN @ \cup {c} |-> IF x = c THEN results[p][c] ELSE @[x]]]
  /\ results' = [results EXCEPT ![p] = [x \in DOMAIN @ \ {c} |-> @[x]]]
  /\ UNCHANGED <<registered, up, snapshot, running, pc, troubles>>

(* Mutant: the answer is given when the goroutines are done, not when the channel is *)
(* drained.                                                                           *)
Answer_Undrained(p) ==
  /\ pc[p] = "collecting" /\ running[p] = {}
  /\ pc' = [pc EXCEPT ![p] = "answered"]
  /\ UNCHANGED <<registered, up, snapshot, running, results, overall, reported, troubles>>
Answer(p) ==
  /\ pc[p] = "collecting" /\ running[p] = {} /\ results[p] = Empty
  /\ pc' = [pc EXCEPT ![p] = "answered"]
  /\ UNCHANGED <<registered, up, snapshot, running, results, overall, reported, troubles>>

(* The codes of /health and /health/ready, and of /health/live. *)
Handler(status) == IF status = "unhealthy" THEN 503 ELSE 200

HealthNext ==
  \/ \E c \in Checkers : Register(c) \/ Unregister(c) \/ Trouble(c)
  \/ \E p \in Probes : Check(p) \/ Answer(p) \/ \E c \in Checkers : RunChecker(p, c) \/ Collect(p, c)

HealthSpec == HealthInit /\ [][HealthNext]_healthVars

HealthTypeOK == /\ registered \subseteq Checkers /\ overall \in [Probes -> {"healthy", "degraded", "unhealthy"}]
                /\ \A p \in Probes : DOMAIN reported[p] \cup DOMAIN results[p] \cup running[p] \subseteq snapshot[p]

(* A probe's answer is the worst of its components' results, whatever order the      *)
(* checks finish in: 503 exactly if a database failed, and a failing model provider  *)
(* takes no node out of rotation.                                                     *)
VerdictIsWorst ==
  \A p \in Probes : pc[p] = "answered" =>
    LET found == {reported[p][c] : c \in DOMAIN reported[p]}
    IN /\ overall[p] = IF "unhealthy" \in found THEN "unhealthy"
                       ELSE IF "degraded" \in found THEN "degraded" ELSE "healthy"
       /\ Handler(overall[p]) = 503 => \E c \in snapshot[p] \cap Database : reported[p][c] = "unhealthy"

(* An answered probe reports every component registered when it began, also those    *)
(* that were removed or whose check ended in the meantime.                            *)
EveryComponentReported == \A p \in Probes : pc[p] = "answered" => DOMAIN reported[p] = snapshot[p]
=============================================================================

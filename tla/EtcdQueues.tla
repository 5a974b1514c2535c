----------------------------- MODULE EtcdQueues -----------------------------
(***************************************************************************)
(* The primitives of src/pkg/coordination that queue session keys in etcd, *)
(* the mutex and the leader elector, and the fencing of dispatches by the  *)
(* revision of the leader's key (src/pkg/remote).                          *)
(***************************************************************************)
EXTENDS Naturals, Sequences

-----------------------------------------------------------------------------
(* DistributedMutex                                                        *)
(***************************************************************************)
(* DistributedMutex of src/pkg/coordination: goroutines of several nodes,  *)
(* each node with one instance, that is one etcd session: the local slot   *)
(* with its wake-up channel in front of the etcd lock.                     *)
(***************************************************************************)

CONSTANTS
    MutexNodes, Callers,
    NodeOf,         \* [Callers -> Nodes]
    MaxLocks        \* bound: times each caller locks

VARIABLES
    locked,     \* [Nodes -> BOOLEAN]: the local slot
    closed,     \* [Nodes -> Nat]: wake-up channels closed so far
    mutexQueue,  \* etcd: the sessions' lock keys, oldest first
    lease,      \* [Nodes -> BOOLEAN]: the session is alive
    pc,         \* [Callers -> step]
    waitCh,     \* [Callers -> Nat]: the channel a caller waits on
    locks       \* [Callers -> Nat]: calls of Lock and TryLock so far

mutexVars == <<locked, closed, mutexQueue, lease, pc, waitCh, locks>>

Steps == {"idle", "waiting", "acquiring", "trying", "held", "unlocking", "failed", "unlocked"}

MutexTypeOK ==
    /\ locked \in [MutexNodes -> BOOLEAN] /\ closed \in [MutexNodes -> Nat]
    /\ mutexQueue \in Seq(MutexNodes) /\ \A i, j \in DOMAIN mutexQueue : mutexQueue[i] = mutexQueue[j] => i = j
    /\ lease \in [MutexNodes -> BOOLEAN]
    /\ pc \in [Callers -> Steps] /\ waitCh \in [Callers -> Nat] /\ locks \in [Callers -> Nat]

MutexInit ==
    /\ locked = [n \in MutexNodes |-> FALSE] /\ closed = [n \in MutexNodes |-> 0]
    /\ mutexQueue = <<>> /\ lease = [n \in MutexNodes |-> TRUE]
    /\ pc = [c \in Callers |-> "idle"] /\ waitCh = [c \in Callers |-> 0]
    /\ locks = [c \in Callers |-> 0]

MutexGoto(c, step) == pc' = [pc EXCEPT ![c] = step]

(* The queue without the key of n's session. *)
MutexQueued(n) == \E i \in DOMAIN mutexQueue : mutexQueue[i] = n
MutexPlace(n) == CHOOSE i \in DOMAIN mutexQueue : mutexQueue[i] = n
MutexWithout(n) ==
    IF MutexQueued(n)
    THEN [i \in 1..(Len(mutexQueue) - 1) |-> IF i < MutexPlace(n) THEN mutexQueue[i] ELSE mutexQueue[i + 1]]
    ELSE mutexQueue

(* locked = false and the channel closed. *)
freeSlot(n) == locked' = [locked EXCEPT ![n] = FALSE] /\ closed' = [closed EXCEPT ![n] = @ + 1]

(* The critical section of Lock: take the slot, or pick up the channel.    *)
(* The etcd lock request of the session is queued with it.                 *)
Lock(c) ==
    LET n == NodeOf[c] IN
    /\ pc[c] \in {"idle", "waiting"}
    /\ IF pc[c] = "idle"
       THEN locks[c] < MaxLocks /\ locks' = [locks EXCEPT ![c] = @ + 1]
       ELSE closed[n] >= waitCh[c] /\ UNCHANGED locks
    /\ IF locked[n]
       THEN /\ MutexGoto(c, "waiting") /\ waitCh' = [waitCh EXCEPT ![c] = closed[n] + 1]
            /\ UNCHANGED locked
       ELSE /\ MutexGoto(c, "acquiring") /\ locked' = [locked EXCEPT ![n] = TRUE]
            /\ waitCh' = [waitCh EXCEPT ![c] = 0]
    /\ UNCHANGED <<closed, mutexQueue, lease>>

TryLock(c) ==
    LET n == NodeOf[c] IN
    /\ pc[c] = "idle" /\ locks[c] < MaxLocks
    /\ locks' = [locks EXCEPT ![c] = @ + 1]
    /\ IF locked[n] THEN UNCHANGED <<locked, pc>>
       ELSE locked' = [locked EXCEPT ![n] = TRUE] /\ MutexGoto(c, "trying")
    /\ UNCHANGED <<closed, mutexQueue, lease, waitCh>>

(* ctx.Done while waiting for the slot. *)
GiveUpWaiting(c) ==
    /\ pc[c] = "waiting"
    /\ MutexGoto(c, "idle") /\ waitCh' = [waitCh EXCEPT ![c] = 0]
    /\ UNCHANGED <<locked, closed, mutexQueue, lease, locks>>

(* concurrency.Mutex.Lock creates the session's key. *)
Enqueue(c) ==
    LET n == NodeOf[c] IN
    /\ pc[c] \in {"acquiring", "trying"} /\ lease[n] /\ ~MutexQueued(n)
    /\ mutexQueue' = Append(mutexQueue, n)
    /\ UNCHANGED <<locked, closed, lease, pc, waitCh, locks>>

(* ... and returns once it is the oldest. *)
Acquire(c) ==
    /\ pc[c] \in {"acquiring", "trying"}
    /\ mutexQueue # <<>> /\ Head(mutexQueue) = NodeOf[c]
    /\ MutexGoto(c, "held")
    /\ UNCHANGED <<locked, closed, mutexQueue, lease, waitCh, locks>>

(* Mutant: the slot stays taken. *)
AcquireFails_KeepsSlot(c) ==
    LET n == NodeOf[c] IN
    /\ pc[c] \in {"acquiring", "trying"}
    /\ mutexQueue' = MutexWithout(n)
    /\ MutexGoto(c, "idle")
    /\ UNCHANGED <<locked, closed, lease, waitCh, locks>>

(* The etcd lock fails or its context ends (TryLock: after 50 ms): the     *)
(* library deletes the key, the caller frees the slot.                     *)
AcquireFails(c) ==
    LET n == NodeOf[c] IN
    /\ pc[c] \in {"acquiring", "trying"}
    /\ mutexQueue' = MutexWithout(n)
    /\ freeSlot(n) /\ MutexGoto(c, "idle")
    /\ UNCHANGED <<lease, waitCh, locks>>

(* Unlock finds the slot taken and goes to etcd. *)
Unlock(c) ==
    /\ pc[c] \in {"held", "failed"} /\ locked[NodeOf[c]]
    /\ MutexGoto(c, "unlocking")
    /\ UNCHANGED <<locked, closed, mutexQueue, lease, waitCh, locks>>

(* Mutant: the slot is freed before the etcd key is deleted. *)
UnlockEtcd_SlotFirst(c) ==
    LET n == NodeOf[c] IN
    /\ pc[c] \in {"unlocking", "unlocked"}
    /\ IF pc[c] = "unlocking" THEN freeSlot(n) /\ MutexGoto(c, "unlocked") /\ UNCHANGED mutexQueue
       ELSE mutexQueue' = MutexWithout(n) /\ MutexGoto(c, "idle") /\ UNCHANGED <<locked, closed>>
    /\ UNCHANGED <<lease, waitCh, locks>>

(* The etcd delete, which may fail with or without effect: the caller has  *)
(* an error and still owns the slot.                                       *)
UnlockEtcd(c) ==
    /\ pc[c] = "unlocking"
    /\ \/ mutexQueue' = MutexWithout(NodeOf[c]) /\ MutexGoto(c, "unlocked")
       \/ mutexQueue' \in {mutexQueue, MutexWithout(NodeOf[c])} /\ MutexGoto(c, "failed")
    /\ UNCHANGED <<locked, closed, lease, waitCh, locks>>

UnlockSlot(c) ==
    /\ pc[c] = "unlocked"
    /\ freeSlot(NodeOf[c]) /\ MutexGoto(c, "idle")
    /\ UNCHANGED <<mutexQueue, lease, waitCh, locks>>

(* etcd drops the key of a session whose lease expired. *)
LeaseExpires(n) ==
    /\ lease[n]
    /\ lease' = [lease EXCEPT ![n] = FALSE] /\ mutexQueue' = MutexWithout(n)
    /\ UNCHANGED <<locked, closed, pc, waitCh, locks>>

Step(c) ==
    \/ Lock(c) \/ TryLock(c) \/ Enqueue(c) \/ Acquire(c) \/ Unlock(c) \/ UnlockEtcd(c) \/ UnlockSlot(c)

MutexNext ==
    \/ \E c \in Callers : Step(c) \/ GiveUpWaiting(c) \/ AcquireFails(c)
    \/ \E n \in MutexNodes : LeaseExpires(n)

MutexSpec == MutexInit /\ [][MutexNext]_mutexVars

(* What fairness is about: goroutines run, and the etcd lock is granted to *)
(* a session in line or times out.  Whether a holder calls Unlock, and     *)
(* again after an error, is its own affair: HasSlot(c) may last for ever.  *)
Waiting(c) == pc[c] = "waiting"
Goroutine(c) ==
    \/ (Waiting(c) /\ Lock(c)) \/ Enqueue(c) \/ Acquire(c) \/ AcquireFails(c)
    \/ UnlockSlot(c)
HasSlot(c) == pc[c] \in {"held", "unlocking", "failed"}

-----------------------------------------------------------------------------
(* At most one caller of all nodes is past Lock with its session alive and *)
(* has not begun to unlock.                                                *)
MutualExclusion ==
    \A c, d \in Callers :
        pc[c] = "held" /\ pc[d] = "held" /\ lease[NodeOf[c]] /\ lease[NodeOf[d]] => c = d

(* No lost wake-up: a caller waits on a channel that is closed already or  *)
(* that the present owner of the slot will close.                          *)
NoLostWakeup ==
    \A c \in Callers : pc[c] = "waiting" =>
       \/ closed[NodeOf[c]] >= waitCh[c]
       \/ \E d \in Callers : NodeOf[d] = NodeOf[c] /\ pc[d] \notin {"idle", "waiting"}

-----------------------------------------------------------------------------
(* LeaderElection                                                          *)
(***************************************************************************)
(* LeaderElector and LeaderTaskRunner of src/pkg/coordination. The etcd    *)
(* election is a queue of session keys; Campaign returns when no older key *)
(* than the session's own is left.                                         *)
(***************************************************************************)

CONSTANTS ElectNodes

VARIABLES
    electQueue,  \* etcd: election keys, by node, oldest first
    session,    \* [Nodes -> BOOLEAN]: the session's lease is alive
    loop,       \* [Nodes -> step of electionLoop]
    electIsLeader,  \* [Nodes -> BOOLEAN]
    stop,       \* [Nodes -> step of Stop]
    task        \* [Nodes -> step of runTask]

electVars == <<electQueue, session, loop, electIsLeader, stop, task>>

LoopSteps == {"attempt", "campaign", "won", "monitor", "lost", "pause", "ended"}
StopSteps == {"no", "resigning", "canceled", "closed"}

ElectTypeOK ==
    /\ electQueue \in Seq(ElectNodes) /\ \A i, j \in DOMAIN electQueue : electQueue[i] = electQueue[j] => i = j
    /\ session \in [ElectNodes -> BOOLEAN] /\ loop \in [ElectNodes -> LoopSteps]
    /\ electIsLeader \in [ElectNodes -> BOOLEAN] /\ stop \in [ElectNodes -> StopSteps]
    /\ task \in [ElectNodes -> {"idle", "running"}]

ElectInit ==
    /\ electQueue = <<>> /\ session = [n \in ElectNodes |-> TRUE]
    /\ loop = [n \in ElectNodes |-> "attempt"] /\ electIsLeader = [n \in ElectNodes |-> FALSE]
    /\ stop = [n \in ElectNodes |-> "no"] /\ task = [n \in ElectNodes |-> "idle"]

ElectGoto(n, step) == loop' = [loop EXCEPT ![n] = step]
ElectQueued(n) == \E i \in DOMAIN electQueue : electQueue[i] = n
ElectPlace(n) == CHOOSE i \in DOMAIN electQueue : electQueue[i] = n
ElectWithout(n) ==
    IF ElectQueued(n)
    THEN [i \in 1..(Len(electQueue) - 1) |-> IF i < ElectPlace(n) THEN electQueue[i] ELSE electQueue[i + 1]]
    ELSE electQueue
Done(n) == stop[n] \in {"canceled", "closed"}       \* ctx.Done
Leads(n) == electQueue # <<>> /\ Head(electQueue) = n

(* The top of the loop: Campaign puts the key of the session's lease. With *)
(* the session gone it fails, and the loop goes round at once.             *)
Attempt(n) ==
    /\ loop[n] = "attempt"
    /\ \/ Done(n) /\ ElectGoto(n, "ended") /\ UNCHANGED electQueue
       \/ /\ ~Done(n) /\ session[n] /\ ElectGoto(n, "campaign")
          /\ electQueue' = IF ElectQueued(n) THEN electQueue ELSE Append(electQueue, n)
    /\ UNCHANGED <<session, electIsLeader, stop, task>>

(* Mutant: leadership is announced when the campaign begins. *)
Campaign_Early(n) ==
    /\ loop[n] = "campaign"
    /\ ElectGoto(n, "won") /\ UNCHANGED electQueue
    /\ UNCHANGED <<session, electIsLeader, stop, task>>

(* Campaign returns: won when no older key is left (or the own key is gone *)
(* with its session, which the election does not look at), or failed, its  *)
(* key deleted.                                                            *)
ElectCampaign(n) ==
    /\ loop[n] = "campaign"
    /\ \/ /\ ElectQueued(n) => Leads(n)
          /\ ElectGoto(n, "won") /\ UNCHANGED electQueue
       \/ ElectGoto(n, IF Done(n) THEN "ended" ELSE "attempt") /\ electQueue' = ElectWithout(n)
    /\ UNCHANGED <<session, electIsLeader, stop, task>>

(* setLeaderStatus(true), OnElected. *)
Elected(n) ==
    /\ loop[n] = "won"
    /\ electIsLeader' = [electIsLeader EXCEPT ![n] = TRUE] /\ ElectGoto(n, "monitor")
    /\ UNCHANGED <<electQueue, session, stop, task>>

(* Mutant: the end of the session is not watched. *)
monitorLeadership_NoSession(n) ==
    /\ loop[n] = "monitor"
    /\ Done(n) \/ (session[n] /\ ~Leads(n))
    /\ ElectGoto(n, "lost")
    /\ UNCHANGED <<electQueue, session, electIsLeader, stop, task>>

(* monitorLeadership returns: canceled, session over, another leader seen. *)
monitorLeadership(n) ==
    /\ loop[n] = "monitor"
    /\ Done(n) \/ ~session[n] \/ ~Leads(n)
    /\ ElectGoto(n, "lost")
    /\ UNCHANGED <<electQueue, session, electIsLeader, stop, task>>

(* monitorLeadership returns because etcd closed the channel of Observe,   *)
(* with the key still there.                                               *)
WatchCloses(n) ==
    /\ loop[n] = "monitor"
    /\ ElectGoto(n, "lost")
    /\ UNCHANGED <<electQueue, session, electIsLeader, stop, task>>

(* setLeaderStatus(false), setElection(nil), OnRevoked. *)
Revoked(n) ==
    /\ loop[n] = "lost"
    /\ electIsLeader' = [electIsLeader EXCEPT ![n] = FALSE] /\ ElectGoto(n, "pause")
    /\ UNCHANGED <<electQueue, session, stop, task>>

(* The second before the next attempt, unless canceled. *)
Pause(n) ==
    /\ loop[n] = "pause"
    /\ ElectGoto(n, IF Done(n) THEN "ended" ELSE "attempt")
    /\ UNCHANGED <<electQueue, session, electIsLeader, stop, task>>

(* Stop: resign, which deletes the key when the node is leader, best       *)
(* effort.                                                                 *)
Resign(n) ==
    /\ stop[n] = "no"
    /\ stop' = [stop EXCEPT ![n] = "resigning"]
    /\ \/ electIsLeader[n] /\ electQueue' = ElectWithout(n)
       \/ UNCHANGED electQueue
    /\ UNCHANGED <<session, loop, electIsLeader, task>>

Cancel(n) ==
    /\ stop[n] = "resigning"
    /\ stop' = [stop EXCEPT ![n] = "canceled"]
    /\ UNCHANGED <<electQueue, session, loop, electIsLeader, task>>

(* Mutant: the session is left to itself. *)
Close_KeepsSession(n) ==
    /\ stop[n] = "canceled" /\ loop[n] = "ended"
    /\ stop' = [stop EXCEPT ![n] = "closed"]
    /\ UNCHANGED <<electQueue, session, loop, electIsLeader, task>>

(* wg.Wait, then the session is closed: its key goes. *)
Close(n) ==
    /\ stop[n] = "canceled" /\ loop[n] = "ended"
    /\ stop' = [stop EXCEPT ![n] = "closed"]
    /\ session' = [session EXCEPT ![n] = FALSE] /\ electQueue' = ElectWithout(n)
    /\ UNCHANGED <<loop, electIsLeader, task>>

(* The lease expires: etcd deletes the key. The elector keeps the session  *)
(* it was made with.                                                       *)
SessionExpires(n) ==
    /\ session[n]
    /\ session' = [session EXCEPT ![n] = FALSE] /\ electQueue' = ElectWithout(n)
    /\ UNCHANGED <<loop, electIsLeader, stop, task>>

(* LeaderTaskRunner: a tick on the leader runs the task to its end. *)
runTask(n) ==
    /\ \/ task[n] = "idle" /\ electIsLeader[n] /\ task' = [task EXCEPT ![n] = "running"]
       \/ task[n] = "running" /\ task' = [task EXCEPT ![n] = "idle"]
    /\ UNCHANGED <<electQueue, session, loop, electIsLeader, stop>>

LoopStep(n) ==
    Attempt(n) \/ ElectCampaign(n) \/ Elected(n) \/ monitorLeadership(n) \/ Revoked(n) \/ Pause(n)

ElectNext ==
    \E n \in ElectNodes :
       \/ LoopStep(n) \/ WatchCloses(n) \/ runTask(n)
       \/ Resign(n) \/ Cancel(n) \/ Close(n) \/ SessionExpires(n)

ElectSpec == ElectInit /\ [][ElectNext]_electVars

(* What fairness and liveness are about: Campaign fails only finitely      *)
(* often, so a win is owed when it is possible again and again.            *)
Wins(n) == ElectCampaign(n) /\ loop'[n] = "won"
Stops(n) == Cancel(n) \/ Close(n)
Deposed(n) == electIsLeader[n] /\ ~session[n]
Believes(n) == electIsLeader[n]
Running(n) == session[n] /\ stop[n] = "no"

-----------------------------------------------------------------------------
(* A node that believes to lead, with its session alive and no Stop begun, *)
(* owns the oldest key: two such nodes never exist.                        *)
LeaderHoldsKey ==
    \A n \in ElectNodes : electIsLeader[n] /\ session[n] /\ stop[n] = "no" => Leads(n)

-----------------------------------------------------------------------------
(* DispatchFencing                                                         *)
(* The fencing of remote dispatches: schedulers campaign in etcd, stamp their        *)
(* authority on requests that may arrive late, and workers check the stamp against   *)
(* etcd before they execute.                                                         *)

CONSTANTS Schedulers, Requests,
          MaxRevision      \* campaigns

VARIABLES revision,      \* etcd's revision
          key,           \* scheduler -> revision its campaign key was written at, 0 for none
          fenceIsLeader,  \* scheduler -> what its elector last saw
          request,       \* request -> [pc, by, leader, epoch]
          lastEpoch,     \* the newest epoch a worker has let through
          inFlight       \* requests a worker is executing

fenceVars == <<revision, key, fenceIsLeader, request, lastEpoch, inFlight>>

NoOne == "none"
Idle == [pc |-> "idle", by |-> NoOne, leader |-> NoOne, epoch |-> 0]

FenceInit ==
  /\ revision = 0 /\ key = [s \in Schedulers |-> 0]
  /\ fenceIsLeader = [s \in Schedulers |-> FALSE]
  /\ request = [r \in Requests |-> Idle]
  /\ lastEpoch = 0 /\ inFlight = {}

etcdVars == <<revision, key, fenceIsLeader>>
Candidates == {s \in Schedulers : key[s] # 0}
(* The first key by create revision, as both sides read it. *)
Leader == IF Candidates = {} THEN NoOne ELSE CHOOSE s \in Candidates : \A t \in Candidates : key[s] <= key[t]
Epoch == IF Leader = NoOne THEN 0 ELSE key[Leader]

(* The elector: a campaign writes a key, leadership is noticed, a lost session takes *)
(* the key away, and the elector notices that later.                                 *)
FenceCampaign(s) ==
  /\ key[s] = 0 /\ ~fenceIsLeader[s] /\ revision < MaxRevision
  /\ revision' = revision + 1 /\ key' = [key EXCEPT ![s] = revision + 1]
  /\ UNCHANGED <<fenceIsLeader, request, lastEpoch, inFlight>>
SessionLost(s) ==
  /\ key[s] # 0 /\ key' = [key EXCEPT ![s] = 0]
  /\ UNCHANGED <<revision, fenceIsLeader, request, lastEpoch, inFlight>>
Notice(s) ==
  /\ fenceIsLeader[s] # (Leader = s)
  /\ fenceIsLeader' = [fenceIsLeader EXCEPT ![s] = (Leader = s)]
  /\ UNCHANGED <<revision, key, request, lastEpoch, inFlight>>

(* DispatchAuthority: the key is read from etcd, or cannot be ... *)
QueryAuthority(s, r, ok) ==
  /\ request[r].pc = "idle"
  /\ request' = [request EXCEPT ![r] = IF ok THEN [pc |-> "queried", by |-> s, leader |-> Leader, epoch |-> Epoch]
                                       ELSE [Idle EXCEPT !.pc = "failed"]]
  /\ UNCHANGED <<etcdVars, lastEpoch, inFlight>>

(* ... and then the elector is asked; only a leader on both counts dispatches. *)
CheckLeader(r) ==
  /\ request[r].pc = "queried"
  /\ LET s == request[r].by
     IN request' = [request EXCEPT ![r] = IF fenceIsLeader[s] /\ request[r].leader = s
                                             THEN [@ EXCEPT !.pc = "stamped"] ELSE [Idle EXCEPT !.pc = "failed"]]
  /\ UNCHANGED <<etcdVars, lastEpoch, inFlight>>

(* ExecuteOnNode: the stamp goes into the request's metadata; the node may have left *)
(* the registry, or its connection fail.                                             *)
ExecuteOnNode(r, reachable) ==
  /\ request[r].pc = "stamped"
  /\ request' = [request EXCEPT ![r].pc = IF reachable THEN "sent" ELSE "failed"]
  /\ UNCHANGED <<etcdVars, lastEpoch, inFlight>>

(* Mutant: only the leader's name is compared. *)
Validate_NameOnly(stamp) ==
  CASE stamp.leader = NoOne \/ stamp.epoch = 0 -> "missing"
    [] Leader = NoOne -> "missing"
    [] stamp.leader # Leader -> "stale"
    [] OTHER -> "ok"
(* EtcdDispatchAuthorityValidator.Validate. *)
Validate(stamp) ==
  CASE stamp.leader = NoOne \/ stamp.epoch = 0 -> "missing"
    [] Leader = NoOne -> "missing"
    [] stamp.leader # Leader \/ stamp.epoch # Epoch -> "stale"
    [] OTHER -> "ok"

(* RemoteExecutionService.Execute, when the request arrives: a stamp that does not   *)
(* check, or an etcd that does not answer, refuses it.                               *)
Arrive(r, etcdOk) ==
  /\ request[r].pc = "sent"
  /\ LET verdict == IF etcdOk THEN Validate(request[r]) ELSE "unavailable"
     IN IF verdict = "ok"
        THEN /\ request' = [request EXCEPT ![r].pc = "executing"]
             /\ inFlight' = inFlight \cup {r}
             /\ lastEpoch' = IF request[r].epoch > lastEpoch THEN request[r].epoch ELSE lastEpoch
        ELSE request' = [request EXCEPT ![r] = [Idle EXCEPT !.pc = verdict]] /\ UNCHANGED <<inFlight, lastEpoch>>
  /\ UNCHANGED etcdVars

(* ExecuteRemote on the worker's answer: an error of the agent, or an output that    *)
(* cannot be decoded, is a failure.                                                  *)
ExecuteRemote(ok) == IF ok THEN "done" ELSE "failed"
(* The agent's run ends on the worker; the caller sees it unless it has given up. *)
Executed(r, ok) ==
  /\ r \in inFlight
  /\ inFlight' = inFlight \ {r}
  /\ request' = [request EXCEPT ![r].pc = IF @ = "executing" THEN ExecuteRemote(ok) ELSE @]
  /\ UNCHANGED <<etcdVars, lastEpoch>>

(* The caller's deadline: a request on its way is given up there, not on its way. *)
GiveUp(r) ==
  /\ request[r].pc = "executing"
  /\ request' = [request EXCEPT ![r].pc = "timed out"]
  /\ UNCHANGED <<etcdVars, lastEpoch, inFlight>>

FenceNext ==
  \/ \E s \in Schedulers : FenceCampaign(s) \/ SessionLost(s) \/ Notice(s)
  \/ \E r \in Requests :
       \/ \E s \in Schedulers, ok \in BOOLEAN : QueryAuthority(s, r, ok)
       \/ CheckLeader(r)
       \/ \E ok \in BOOLEAN : ExecuteOnNode(r, ok) \/ Arrive(r, ok) \/ Executed(r, ok)
       \/ GiveUp(r)

FenceSpec == FenceInit /\ [][FenceNext]_fenceVars

FenceTypeOK ==
  /\ revision \in 0..MaxRevision /\ key \in [Schedulers -> 0..MaxRevision]
  /\ inFlight \subseteq Requests
  /\ \A r \in Requests : request[r].epoch \in 0..MaxRevision

(* Workers never go back to an older leadership: a request they let through carries  *)
(* an epoch at least as new as every one let through before it, on whatever worker,  *)
(* even when the same scheduler led before and leads again.                          *)
EpochsNeverRegressStep ==
  \A r \in Requests :
    (request[r].pc = "sent" /\ request'[r].pc = "executing") => request[r].epoch >= lastEpoch
=============================================================================

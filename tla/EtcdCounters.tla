---------------------------- MODULE EtcdCounters ----------------------------
(***************************************************************************)
(* The primitives of src/pkg/coordination that count keys in etcd: the     *)
(* semaphore and the barrier.                                              *)
(***************************************************************************)
EXTENDS Naturals, FiniteSets

-----------------------------------------------------------------------------
(* Semaphore                                                               *)
(***************************************************************************)
(* DistributedSemaphore of src/pkg/coordination: permit keys in etcd, in   *)
(* the order of their create revisions. Goroutines of one session share    *)
(* its lease and its key prefix.                                           *)
(***************************************************************************)

CONSTANTS
    Callers, Sessions,
    SessionOf,      \* [Callers -> Sessions]
    Size,
    MaxPuts         \* bound: permit keys put by all callers

VARIABLES
    permits,    \* permit keys [by : Callers, rev : create revision]
    revision,   \* of the latest permit key
    semLease,   \* [Sessions -> BOOLEAN]
    pc,         \* [Callers -> step]
    seen,       \* [Callers -> BOOLEAN]: keys changed since the last query
    permitKey,  \* [Callers -> Nat]: revision of the caller's own key
    target      \* [Callers -> permit key]: what Release is about to delete

semVars == <<permits, revision, semLease, pc, seen, permitKey, target>>

SemSteps == {"idle", "query", "watch", "cleanup", "held", "delete"}
Keys == [by : Callers, rev : Nat]
NoKey == <<>>

SemTypeOK ==
    /\ permits \subseteq Keys /\ revision \in Nat
    /\ semLease \in [Sessions -> BOOLEAN]
    /\ pc \in [Callers -> SemSteps] /\ seen \in [Callers -> BOOLEAN]
    /\ permitKey \in [Callers -> Nat] /\ target \in [Callers -> Keys \cup {NoKey}]

SemInit ==
    /\ permits = {} /\ revision = 0 /\ semLease = [s \in Sessions |-> TRUE]
    /\ pc = [c \in Callers |-> "idle"] /\ seen = [c \in Callers |-> FALSE]
    /\ permitKey = [c \in Callers |-> 0] /\ target = [c \in Callers |-> NoKey]

SemGoto(c, step) == pc' = [pc EXCEPT ![c] = step]
Own(c) == [by |-> c, rev |-> permitKey[c]]
Rank(k) == Cardinality({p \in permits : p.rev < k.rev})
Of(s) == {p \in permits : SessionOf[p.by] = s}

(* Mutant: the watch is on the session's own prefix. *)
notify_OwnPrefix ==
    seen' = [c \in Callers |->
               seen[c] \/ (pc[c] = "watch" /\ \E k \in permits \ permits' : SessionOf[k.by] = SessionOf[c])]

(* A change of the permits prefix wakes the callers that watch it. *)
notify == seen' = [c \in Callers |-> seen[c] \/ (pc[c] = "watch" /\ permits' # permits)]

(* Acquire puts the permit key under the lease; an error, with or without  *)
(* the put, is returned before the deferred clean-up is set up.            *)
Acquire(c) ==
    /\ pc[c] = "idle" /\ semLease[SessionOf[c]] /\ revision < MaxPuts
    /\ revision' = revision + 1
    /\ permits' = permits \cup {[by |-> c, rev |-> revision + 1]}
    /\ permitKey' = [permitKey EXCEPT ![c] = revision + 1]
    /\ (SemGoto(c, "query") \/ UNCHANGED pc) /\ notify
    /\ UNCHANGED <<semLease, target>>

(* Mutant: off by one. *)
Query_OneMore(c) ==
    /\ pc[c] = "query"
    /\ SemGoto(c, IF Own(c) \notin permits THEN "cleanup" ELSE IF Rank(Own(c)) <= Size THEN "held" ELSE "watch")
    /\ UNCHANGED <<permits, revision, semLease, seen, permitKey, target>>

(* The rank of the permit key decides. *)
Query(c) ==
    /\ pc[c] = "query"
    /\ SemGoto(c, IF Own(c) \notin permits THEN "cleanup" ELSE IF Rank(Own(c)) < Size THEN "held" ELSE "watch")
    /\ UNCHANGED <<permits, revision, semLease, seen, permitKey, target>>

(* The watch starts at the revision after the query: no change is missed.  *)
SemWake(c) ==
    /\ pc[c] = "watch" /\ seen[c]
    /\ SemGoto(c, "query") /\ seen' = [seen EXCEPT ![c] = FALSE]
    /\ UNCHANGED <<permits, revision, semLease, permitKey, target>>

(* The context ends or a request fails before the permit is owned. *)
SemFail(c) ==
    /\ pc[c] \in {"query", "watch"}
    /\ SemGoto(c, "cleanup") /\ seen' = [seen EXCEPT ![c] = FALSE]
    /\ UNCHANGED <<permits, revision, semLease, permitKey, target>>

(* The deferred delete of the own key, whose error nobody reads. *)
SemCleanup(c) ==
    /\ pc[c] = "cleanup"
    /\ permits' \in {permits, permits \ {Own(c)}} /\ notify /\ SemGoto(c, "idle")
    /\ UNCHANGED <<revision, semLease, permitKey, target>>

(* Release looks up the oldest key of the session; without one, or with an *)
(* error, the caller has done with the permit all the same ...             *)
Release(c) ==
    /\ pc[c] = "held"
    /\ \/ SemGoto(c, "idle") /\ UNCHANGED target
       \/ \E k \in Of(SessionOf[c]) :
            /\ \A p \in Of(SessionOf[c]) : k.rev <= p.rev
            /\ SemGoto(c, "delete") /\ target' = [target EXCEPT ![c] = k]
    /\ UNCHANGED <<permits, revision, semLease, seen, permitKey>>

(* ... and deletes it, or fails with or without effect. *)
DeleteOldest(c) ==
    /\ pc[c] = "delete"
    /\ permits' \in {permits, permits \ {target[c]}} /\ notify /\ SemGoto(c, "idle")
    /\ target' = [target EXCEPT ![c] = NoKey]
    /\ UNCHANGED <<revision, semLease, permitKey>>

(* etcd drops the keys of an expired lease. *)
SemLeaseExpires(s) ==
    /\ semLease[s]
    /\ semLease' = [semLease EXCEPT ![s] = FALSE]
    /\ permits' = permits \ Of(s) /\ notify
    /\ UNCHANGED <<revision, pc, permitKey, target>>

SemStep(c) ==
    Acquire(c) \/ Query(c) \/ SemWake(c) \/ SemCleanup(c) \/ Release(c) \/ DeleteOldest(c)

SemNext ==
    \/ \E c \in Callers : SemStep(c) \/ SemFail(c)
    \/ \E s \in Sessions : SemLeaseExpires(s)

SemSpec == SemInit /\ [][SemNext]_semVars

-----------------------------------------------------------------------------
(* The callers past Acquire whose sessions live are never more than Size,  *)
(* whichever key of the session each Release deletes.                      *)
AtMostSize == Cardinality({c \in Callers : pc[c] = "held" /\ semLease[SessionOf[c]]}) <= Size

(* "It blocks until a permit is available or the context is cancelled":    *)
(* a caller that watches with a key in the first Size places has been      *)
(* told of a change.                                                       *)
NoMissedChange ==
    \A c \in Callers : pc[c] = "watch" /\ ~seen[c] => ~(Own(c) \in permits /\ Rank(Own(c)) < Size)

-----------------------------------------------------------------------------
(* Barrier                                                                 *)
(***************************************************************************)
(* DistributedBarrier of src/pkg/coordination over the keys it keeps in    *)
(* etcd. A waiter is one call of Wait; every etcd request is a step of its *)
(* own and may fail.                                                       *)
(***************************************************************************)

CONSTANTS
    Waiters,        \* calls of Wait
    Count,
    Generations     \* bound: generations ever created, 1 .. n

VARIABLES
    generation,     \* the generation key, 0 when absent
    made,           \* generations made so far; the next one is new
    participants,   \* participant keys <<generation, waiter>>
    released,       \* release keys, by generation
    barrierLease,   \* [Waiters -> BOOLEAN]: the lease is alive
    waiter,         \* [Waiters -> call record]
    joined          \* history: [Generations -> SUBSET Waiters]

barrierVars == <<generation, made, participants, released, barrierLease, waiter, joined>>

BarrierSteps == {"start", "register", "check", "count", "trip", "wait", "cleanup", "returned"}

BarrierTypeOK ==
    /\ generation \in Generations \cup {0} /\ made \in Nat
    /\ participants \subseteq Generations \X Waiters
    /\ released \subseteq Generations
    /\ barrierLease \in [Waiters -> BOOLEAN]
    /\ waiter \in [Waiters -> [pc : BarrierSteps, gen : Generations \cup {0}, ok : BOOLEAN]]
    /\ joined \in [Generations -> SUBSET Waiters]

BarrierInit ==
    /\ generation = 0 /\ made = 0 /\ participants = {} /\ released = {}
    /\ barrierLease = [w \in Waiters |-> TRUE]
    /\ waiter = [w \in Waiters |-> [pc |-> "start", gen |-> 0, ok |-> FALSE]]
    /\ joined = [g \in Generations |-> {}]

At(w, step) == waiter[w].pc = step
BarrierGoto(w, step) == waiter' = [waiter EXCEPT ![w].pc = step]
etcd == <<generation, made, participants, released>>

(* getOrCreateGeneration: one transaction; a new generation is named by    *)
(* the clock, so it was never used.                                        *)
getOrCreateGeneration(w) ==
    /\ At(w, "start")
    /\ IF generation = 0
       THEN made + 1 \in Generations /\ made' = made + 1 /\ generation' = made + 1
       ELSE UNCHANGED <<made, generation>>
    /\ waiter' = [waiter EXCEPT ![w].pc = "register", ![w].gen = generation']
    /\ UNCHANGED <<participants, released, barrierLease, joined>>

(* Put of the participant key under the session's lease. *)
Register(w) ==
    /\ At(w, "register") /\ barrierLease[w]
    /\ participants' = participants \cup {<<waiter[w].gen, w>>}
    /\ joined' = [joined EXCEPT ![waiter[w].gen] = @ \cup {w}]
    /\ BarrierGoto(w, "check")
    /\ UNCHANGED <<generation, made, released, barrierLease>>

(* Get of the release key. *)
CheckReleased(w) ==
    /\ At(w, "check")
    /\ waiter' = [waiter EXCEPT ![w] = IF @.gen \in released
                                       THEN [@ EXCEPT !.pc = "cleanup", !.ok = TRUE]
                                       ELSE [@ EXCEPT !.pc = "count"]]
    /\ UNCHANGED <<etcd, barrierLease, joined>>

(* Mutant: the participants of every generation are counted. *)
CountParticipants_All(w) ==
    /\ At(w, "count")
    /\ BarrierGoto(w, IF Cardinality(participants) >= Count THEN "trip" ELSE "wait")
    /\ UNCHANGED <<etcd, barrierLease, joined>>

(* Count of the participant keys of the generation. *)
CountParticipants(w) ==
    /\ At(w, "count")
    /\ BarrierGoto(w, IF Cardinality({p \in participants : p[1] = waiter[w].gen}) >= Count
               THEN "trip" ELSE "wait")
    /\ UNCHANGED <<etcd, barrierLease, joined>>

(* The transaction that creates the release key, under no lease. *)
Trip(w) ==
    /\ At(w, "trip")
    /\ released' = released \cup {waiter[w].gen}
    /\ BarrierGoto(w, "wait")
    /\ UNCHANGED <<generation, made, participants, barrierLease, joined>>

(* Watch event or ticker: the loop goes round. *)
BarrierWake(w) ==
    /\ At(w, "wait")
    /\ BarrierGoto(w, "check")
    /\ UNCHANGED <<etcd, barrierLease, joined>>

(* The context ends, or a request fails. *)
BarrierFail(w) ==
    /\ \/ waiter[w].pc \in {"start", "register"} /\ BarrierGoto(w, "returned")
       \/ waiter[w].pc \in {"check", "count", "trip", "wait"} /\ BarrierGoto(w, "cleanup")
    /\ UNCHANGED <<etcd, barrierLease, joined>>

(* The deferred delete; its error is ignored. *)
BarrierCleanup(w) ==
    /\ At(w, "cleanup")
    /\ \/ participants' = participants \ {<<waiter[w].gen, w>>}
       \/ UNCHANGED participants
    /\ BarrierGoto(w, "returned")
    /\ UNCHANGED <<generation, made, released, barrierLease, joined>>

(* etcd drops the keys of a lease that expired. *)
BarrierLeaseExpires(w) ==
    /\ barrierLease[w]
    /\ barrierLease' = [barrierLease EXCEPT ![w] = FALSE]
    /\ participants' = {p \in participants : p[2] # w}
    /\ UNCHANGED <<generation, made, released, waiter, joined>>

(* Reset deletes every key of the barrier. *)
Reset ==
    /\ generation # 0
    /\ generation' = 0 /\ participants' = {} /\ released' = {}
    /\ UNCHANGED <<made, barrierLease, waiter, joined>>

BarrierStep(w) ==
    \/ getOrCreateGeneration(w) \/ Register(w) \/ CheckReleased(w)
    \/ CountParticipants(w) \/ Trip(w) \/ BarrierWake(w) \/ BarrierCleanup(w)

BarrierNext == Reset \/ \E w \in Waiters : BarrierStep(w) \/ BarrierFail(w) \/ BarrierLeaseExpires(w)

BarrierSpec == BarrierInit /\ [][BarrierNext]_barrierVars

-----------------------------------------------------------------------------
through == {w \in Waiters : waiter[w].ok}

Contract == INSTANCE BarrierContract
    WITH Crowds <- {S \in SUBSET Waiters : Cardinality(S) >= Count}

(* Wait returns nil only for a call whose generation Count calls joined,   *)
(* whatever leases expire, requests fail or Reset deletes meanwhile.       *)
ImplementsContract == Contract!Spec
=============================================================================

---------------------------- MODULE GatesProofs -----------------------------
(***************************************************************************)
(* The circuit breaker, the human node, and the admission of jobs to the   *)
(* scheduler, for every number of callers, executions, deliverers and jobs *)
(* and every limit.                                                        *)
(***************************************************************************)
EXTENDS Gates, Admission, FiniteSetTheorems, TLAPS

-----------------------------------------------------------------------------
(* Admission                                                               *)
(* Admission to the scheduler's queue, for every number of jobs and every capacity.  *)

(* Submissions that hold a reservation, and jobs somebody submitted. *)
Pending == {j \in Jobs : subs[j] \in {"reserved", "created", "queued", "enqueue"}}
Entered == {j \in Jobs : subs[j] # "new"}
Objects == {"absent", "orig", "hyd"}
Submissions == {"new", "refused", "reserved", "created", "queued", "enqueue", "accepted", "lost"}
QueueEntry == [job : Jobs, obj : Objects]

(* A function on the jobs, whatever its values. *)
OnJobs(f) == f = [j \in Jobs |-> f[j]]

(* The run loop and the reconcile loop work on jobs somebody submitted. *)
Loops ==
    /\ DOMAIN run = {"pc", "job", "obj", "ok", "image", "last"} /\ run.obj \in Objects
    /\ run.pc # "idle" => run.job \in Entered
    /\ rec.pc # "idle" => rec.job \in Entered

(* Nothing is known of a job before it is submitted, in memory or in the store. *)
Untouched ==
    /\ OnJobs(log) /\ OnJobs(row) /\ OnJobs(task) /\ cur \in [Jobs -> Objects]
    /\ \A j \in Jobs : subs[j] = "new" =>
          log[j] = << >> /\ row[j] = "none" /\ task[j] = "" /\ cur[j] = "absent"

(* The reservations fit beside the queue, unless another path used the queue while    *)
(* all of them were under way.                                                        *)
Places ==
    /\ subs \in [Jobs -> Submissions] /\ queue \in Seq(QueueEntry)
    /\ IsFiniteSet(Entered) /\ pend = Cardinality(Pending)
    /\ \A i \in 1..Len(queue) : queue[i].job \in Entered
    /\ inq \subseteq Entered
    /\ Len(queue) + pend <= Cap \/ Pending \subseteq crowded
    /\ inq \cap Pending \subseteq crowded
    /\ deferred \subseteq crowded

AdmitIInv == Loops /\ Untouched /\ Places

(* The scheduler starts with nothing submitted. *)
LEMMA InitAdmitIInv == ASSUME Cap \in Nat, Init PROVE AdmitIInv
<1>1. Pending = {} /\ Entered = {}
    BY DEF Init, Pending, Entered
<1>2. IsFiniteSet({}) /\ Cardinality({}) = 0
    BY FS_EmptySet
<1>3. Places
    <2>1. subs \in [Jobs -> Submissions] /\ queue \in Seq(QueueEntry) /\ Len(queue) = 0
        <3>1. subs = [j \in Jobs |-> "new"] /\ queue = << >>
            BY DEF Init
        <3>2. QED
            BY <3>1 DEF Submissions
    <2>2. pend = 0 /\ inq = {} /\ deferred = {}
        BY DEF Init
    <2>3. QED
        BY <1>1, <1>2, <2>1, <2>2 DEF Places
<1>4. Untouched
    BY DEF Init, Untouched, OnJobs, Objects
<1>5. Loops
    BY DEF Init, Loops, IdleRun, IdleRec, Objects
<1>6. QED
    BY <1>3, <1>4, <1>5 DEF AdmitIInv

(* A sequence with one more element at its end. *)
LEMMA Appended ==
    ASSUME NEW S, NEW q \in Seq(S), NEW e \in S
    PROVE  /\ Append(q, e) \in Seq(S) /\ Len(q) \in Nat /\ Len(Append(q, e)) = Len(q) + 1
           /\ Append(q, e)[Len(q) + 1] = e /\ \A i \in 1..Len(q) : Append(q, e)[i] = q[i]
    OBVIOUS

(* The job of a new entry is a submitted one, and those of the old ones stay so. *)
LEMMA EntryAppended ==
    ASSUME queue \in Seq(QueueEntry), \A i \in 1..Len(queue) : queue[i].job \in Entered,
           NEW j \in Entered, NEW x \in Objects, queue' = Append(queue, [job |-> j, obj |-> x])
    PROVE  /\ queue' \in Seq(QueueEntry) /\ Len(queue') = Len(queue) + 1
           /\ \A i \in 1..Len(queue') : queue'[i].job \in Entered
<1> DEFINE e == [job |-> j, obj |-> x]
<1>1. e \in QueueEntry /\ e.job = j
    BY DEF QueueEntry, Entered
<1> HIDE DEF e
<1>2. queue' = Append(queue, e)
    BY DEF e
<1>3. /\ queue' \in Seq(QueueEntry) /\ Len(queue) \in Nat /\ Len(queue') = Len(queue) + 1
      /\ queue'[Len(queue) + 1] = e /\ \A i \in 1..Len(queue) : queue'[i] = queue[i]
    BY <1>1, <1>2, Appended
<1>4. \A i \in 1..Len(queue') : i = Len(queue) + 1 \/ i \in 1..Len(queue)
    BY <1>3
<1>5. QED
    BY <1>1, <1>3, <1>4

(* Reservations are counted by natural numbers. *)
LEMMA PendingCounted ==
    ASSUME Places
    PROVE  IsFiniteSet(Pending) /\ pend \in Nat /\ (pend = 0 <=> Pending = {}) /\ Len(queue) \in Nat
<1>1. IsFiniteSet(Entered) /\ Pending \subseteq Entered
    BY DEF Places, Pending, Entered
<1>2. IsFiniteSet(Pending)
    BY <1>1, FS_Subset
<1>3. Cardinality(Pending) \in Nat /\ (Cardinality(Pending) = 0 <=> Pending = {})
    BY <1>2, FS_CardinalityType, FS_EmptySet
<1>4. QED
    BY <1>2, <1>3 DEF Places

-----------------------------------------------------------------------------
(* Steps that leave submissions alone. *)

(* Nothing enters the queue. *)
LEMMA NothingEnters ==
    ASSUME Places, UNCHANGED <<subs, pend, queue, crowded, deferred>>, inq' \subseteq inq
    PROVE  Places' /\ Entered' = Entered
<1>1. Pending' = Pending /\ Entered' = Entered
    BY DEF Pending, Entered
<1>2. QED
    BY <1>1 DEF Places

(* A path that is not a submission enqueues a job: who holds a reservation is marked. *)
LEMMA OtherPathEnters ==
    ASSUME Cap \in Nat, Places, NEW j \in Entered, NEW x \in Objects, Enqueued(j, x, inq),
           UNCHANGED <<subs, pend, deferred>>
    PROVE  Places' /\ Entered' = Entered
<1>1. Pending' = Pending /\ Entered' = Entered /\ j \in Jobs
    BY DEF Pending, Entered
<1>2. CASE MayEnqueue(j, inq)
    <2>1. /\ queue' = Append(queue, [job |-> j, obj |-> x]) /\ inq' = inq \cup {j}
          /\ crowded' = crowded \cup Pending
        BY <1>2 DEF Enqueued, Pending
    <2>2. queue' \in Seq(QueueEntry) /\ \A i \in 1..Len(queue') : queue'[i].job \in Entered
        BY <2>1, EntryAppended DEF Places
    <2>3. QED
        BY <1>1, <2>1, <2>2 DEF Places
<1>3. CASE ~MayEnqueue(j, inq)
    BY <1>1, <1>3, NothingEnters DEF Enqueued
<1>4. QED
    BY <1>2, <1>3

(* Records, rows, tasks and objects change of one submitted job only. *)
LEMMA OneJobTouched ==
    ASSUME Untouched, NEW j \in Entered, subs' = subs,
           OnJobs(log'), OnJobs(row'), OnJobs(task'), cur' \in [Jobs -> Objects],
           \A k \in Jobs \ {j} : /\ log'[k] = log[k] /\ row'[k] = row[k]
                                 /\ task'[k] = task[k] /\ cur'[k] = cur[k]
    PROVE  Untouched'
<1>1. \A k \in Jobs : subs[k] = "new" => k # j
    BY DEF Entered
<1>2. QED
    BY <1>1 DEF Untouched

(* A step that only moves a submission on leaves the rest of the state as it is. *)
LEMMA OneJobEntered ==
    ASSUME Loops, Untouched, Entered' = Entered, UNCHANGED <<log, row, task, cur, run, rec>>
    PROVE  Loops' /\ Untouched'
<1>1. Loops'
    BY DEF Loops
<1>2. \A k \in Jobs : subs'[k] = "new" => subs[k] = "new"
    BY DEF Entered
<1>3. QED
    BY <1>1, <1>2 DEF Untouched

(* A written record and its row are those of the job. *)
LEMMA WriteTouches ==
    ASSUME OnJobs(log), OnJobs(row), NEW j \in Jobs, NEW x, NEW to, NEW ok, Write(j, x, to, ok)
    PROVE  /\ OnJobs(log') /\ OnJobs(row')
           /\ \A k \in Jobs \ {j} : log'[k] = log[k] /\ row'[k] = row[k]
<1>1. DOMAIN log = Jobs /\ DOMAIN row = Jobs
    BY DEF OnJobs
<1>2. log' = log \/ log' = [log EXCEPT ![j] = Append(@, to)]
    BY DEF Write
<1>3. row' = row \/ row' = [row EXCEPT ![j] = to]
    BY DEF Write, UpsertJob
<1>4. OnJobs(log') /\ \A k \in Jobs \ {j} : log'[k] = log[k]
    BY <1>1, <1>2 DEF OnJobs
<1>5. OnJobs(row') /\ \A k \in Jobs \ {j} : row'[k] = row[k]
    BY <1>1, <1>3 DEF OnJobs
<1>6. QED
    BY <1>4, <1>5

-----------------------------------------------------------------------------
(* The steps of a submission. *)

(* A place is reserved while there is one beside the other reservations. *)
LEMMA SubmitStep ==
    ASSUME Cap \in Nat, AdmitIInv, NEW j \in Jobs, SubmitJob(j) PROVE AdmitIInv'
<1>0. Loops /\ Untouched /\ Places
    BY DEF AdmitIInv
<1>1. Entered' = Entered \cup {j} /\ j \notin Entered /\ IsFiniteSet(Entered')
    <2>1. Entered' = Entered \cup {j} /\ j \notin Entered
        BY <1>0 DEF SubmitJob, Entered, Places
    <2>2. QED
        BY <1>0, <2>1, FS_AddElement DEF Places
<1>2. Loops'
    BY <1>0, <1>1 DEF SubmitJob, Loops
<1>3. Untouched'
    <2>1. \A k \in Jobs \ {j} : subs'[k] = subs[k] /\ cur'[k] = cur[k]
        BY <1>0 DEF SubmitJob, Places, Untouched
    <2>2. subs'[j] # "new" /\ cur' \in [Jobs -> Objects] /\ UNCHANGED <<log, row, task>>
        BY <1>0 DEF SubmitJob, Places, Untouched, Objects
    <2>3. QED
        BY <1>0, <2>1, <2>2 DEF Untouched
<1>4. Places'
    <2>1. subs' \in [Jobs -> Submissions] /\ UNCHANGED <<queue, inq, crowded, deferred>>
        BY <1>0 DEF SubmitJob, Places, Submissions
    <2>2. j \notin Pending /\ IsFiniteSet(Pending) /\ pend \in Nat /\ Len(queue) \in Nat
        BY <1>0, PendingCounted DEF SubmitJob, Pending
    <2>3. CASE HasRoom
        <3>1. Pending' = Pending \cup {j} /\ pend' = pend + 1
            BY <1>0, <2>3 DEF SubmitJob, Pending, Places
        <3>2. pend' = Cardinality(Pending')
            BY <1>0, <2>2, <3>1, FS_AddElement DEF Places
        <3>3. Len(queue) + pend + 1 <= Cap
            BY <2>2, <2>3 DEF HasRoom
        <3>4. j \notin inq
            BY <1>0, <1>1 DEF Places
        <3>5. QED
            <4>1. Len(queue') + pend' <= Cap /\ inq' \cap Pending' \subseteq crowded'
                BY <1>0, <2>1, <2>2, <3>1, <3>3, <3>4 DEF Places
            <4>2. QED
                BY <1>0, <1>1, <2>1, <3>2, <4>1 DEF Places
    <2>4. CASE ~HasRoom
        <3>1. Pending' = Pending /\ pend' = pend
            BY <1>0, <2>4 DEF SubmitJob, Pending, Places
        <3>2. QED
            BY <1>0, <1>1, <2>1, <3>1 DEF Places
    <2>5. QED
        BY <2>3, <2>4
<1>5. QED
    BY <1>2, <1>3, <1>4 DEF AdmitIInv

(* The records of a submission are written while its reservation stands. *)
LEMMA RecordStep ==
    ASSUME AdmitIInv, NEW j \in Jobs, NEW ok \in BOOLEAN, recordInitialTransitions(j, ok) PROVE AdmitIInv'
<1>0. Loops /\ Untouched /\ Places
    BY DEF AdmitIInv
<1>1. /\ subs[j] \in {"reserved", "created", "queued"}
      /\ \E to \in {"created", "queued", "enqueue"} : subs' = [subs EXCEPT ![j] = to]
    BY DEF recordInitialTransitions
<1>2. UNCHANGED <<cur, queue, inq, pend, run, rec, crowded, deferred>>
    BY DEF recordInitialTransitions
<1>3. Pending' = Pending /\ Entered' = Entered /\ subs' \in [Jobs -> Submissions]
    BY <1>0, <1>1 DEF Pending, Entered, Places, Submissions
<1>4. Places'
    BY <1>0, <1>2, <1>3 DEF Places
<1>5. Loops'
    BY <1>0, <1>2, <1>3 DEF Loops
<1>6. /\ OnJobs(log') /\ OnJobs(row') /\ OnJobs(task')
      /\ \A k \in Jobs \ {j} : log'[k] = log[k] /\ row'[k] = row[k] /\ task'[k] = task[k]
    <2>1. OnJobs(log) /\ OnJobs(row) /\ OnJobs(task)
        BY <1>0 DEF Untouched
    <2>2. CASE (\E to \in {"SUBMITTED", "QUEUED"} : Write(j, "orig", to, ok)) /\ task' = task
        BY <2>1, <2>2, WriteTouches
    <2>3. CASE /\ log' = log /\ UpsertTask(j, "PENDING", ok)
               /\ \E state, done : UpsertJob(j, state, done)
        BY <2>1, <2>3 DEF UpsertTask, UpsertJob, OnJobs
    <2>4. QED
        BY <2>2, <2>3 DEF recordInitialTransitions
<1>7. Untouched'
    <2>1. \A k \in Jobs : subs'[k] = "new" => k # j /\ subs[k] = "new"
        BY <1>0, <1>1 DEF Places
    <2>2. QED
        BY <1>0, <1>2, <1>6, <2>1 DEF Untouched
<1>8. QED
    BY <1>4, <1>5, <1>7 DEF AdmitIInv

(* The reservation becomes an entry, and fails to only when another path used the     *)
(* queue meanwhile.                                                                   *)
LEMMA EnqueueStep ==
    ASSUME Cap \in Nat, AdmitIInv, NEW j \in Jobs, EnqueueSubmitted(j) PROVE AdmitIInv'
<1>0. Loops /\ Untouched /\ Places
    BY DEF AdmitIInv
<1>1. subs[j] = "enqueue" /\ subs' = [subs EXCEPT ![j] = "accepted"] /\ pend' = pend - 1
    BY DEF EnqueueSubmitted
<1>2. UNCHANGED <<log, row, task, cur, run, rec, crowded>>
    BY DEF EnqueueSubmitted
<1>3. /\ Pending' = Pending \ {j} /\ j \in Pending /\ Entered' = Entered /\ j \in Entered
      /\ subs' \in [Jobs -> Submissions]
    BY <1>0, <1>1 DEF Pending, Entered, Places, Submissions
<1>4. IsFiniteSet(Pending) /\ pend \in Nat /\ pend # 0 /\ Len(queue) \in Nat
    BY <1>0, <1>3, PendingCounted
<1>5. pend' = Cardinality(Pending')
    BY <1>0, <1>1, <1>3, <1>4, FS_RemoveElement DEF Places
<1>6. CASE MayEnqueue(j, inq)
    <2>1. queue' = Append(queue, [job |-> j, obj |-> "orig"]) /\ inq' = inq \cup {j} /\ deferred' = deferred
        BY <1>6 DEF EnqueueSubmitted
    <2>2. "orig" \in Objects
        BY DEF Objects
    <2>3. /\ queue' \in Seq(QueueEntry) /\ Len(queue') = Len(queue) + 1
          /\ \A i \in 1..Len(queue') : queue'[i].job \in Entered
        BY <1>0, <1>3, <2>1, <2>2, EntryAppended DEF Places
    <2>4. Len(queue') + pend' = Len(queue) + pend
        BY <1>1, <1>4, <2>3
    <2>5. QED
        <3>1. Places'
            BY <1>0, <1>2, <1>3, <1>5, <2>1, <2>3, <2>4 DEF Places
        <3>2. QED
            BY <1>0, <1>2, <1>3, <3>1, OneJobEntered DEF AdmitIInv
<1>7. CASE ~MayEnqueue(j, inq)
    <2>1. queue' = queue /\ inq' = inq /\ deferred' = deferred \cup {j}
        BY <1>7 DEF EnqueueSubmitted
    <2>2. j \in crowded
        <3>1. CASE j \in inq
            BY <1>0, <1>3, <3>1 DEF Places
        <3>2. CASE ~(Len(queue) < Cap)
            BY <1>0, <1>3, <1>4, <3>2 DEF Places
        <3>3. QED
            BY <1>7, <3>1, <3>2 DEF MayEnqueue
    <2>3. Len(queue') + pend' <= Cap \/ Pending' \subseteq crowded
        <3>1. Len(queue) + pend <= Cap \/ Pending \subseteq crowded
            BY <1>0 DEF Places
        <3>2. CASE Len(queue) + pend <= Cap
            BY <1>1, <1>4, <2>1, <3>2
        <3>3. CASE Pending \subseteq crowded
            BY <1>3, <3>3
        <3>4. QED
            BY <3>1, <3>2, <3>3
    <2>4. Places'
        BY <1>0, <1>2, <1>3, <1>5, <2>1, <2>2, <2>3 DEF Places
    <2>5. QED
        BY <1>0, <1>2, <1>3, <2>4, OneJobEntered DEF AdmitIInv
<1>8. QED
    BY <1>6, <1>7

-----------------------------------------------------------------------------
(* The steps of the run loop. *)

(* The run loop goes on with its job, or lets it go. *)
RunKept ==
    /\ DOMAIN run' = {"pc", "job", "obj", "ok", "image", "last"} /\ run'.obj \in Objects
    /\ run'.pc # "idle" => run'.job = run.job

(* It works on a submitted job still. *)
LEMMA RunGoesOn ==
    ASSUME Loops, run.pc # "idle", RunKept, rec' = rec, Entered' = Entered PROVE Loops'
    BY DEF Loops, RunKept

(* The run loop has no job. *)
LEMMA IdleKept ==
    DOMAIN IdleRun = {"pc", "job", "obj", "ok", "image", "last"} /\ IdleRun.obj \in Objects /\ IdleRun.pc = "idle"
    BY DEF IdleRun, Objects

(* The run loop takes up a job. *)
LEMMA RunOf ==
    ASSUME NEW step, NEW j, NEW x
    PROVE  LET r == [IdleRun EXCEPT !.pc = step, !.job = j, !.obj = x]
           IN  DOMAIN r = {"pc", "job", "obj", "ok", "image", "last"} /\ r.job = j /\ r.obj = x
    BY IdleKept

(* A job leaves the queue for the run loop. *)
LEMMA DequeueStep ==
    ASSUME Cap \in Nat, AdmitIInv, Dequeue PROVE AdmitIInv'
<1>0. Loops /\ Untouched /\ Places
    BY DEF AdmitIInv
<1>1. /\ queue # << >> /\ queue' = Tail(queue) /\ inq' \subseteq inq
      /\ UNCHANGED <<subs, log, row, task, cur, pend, rec, crowded, deferred>>
    BY DEF Dequeue
<1>2. Pending' = Pending /\ Entered' = Entered
    BY <1>1 DEF Pending, Entered
<1>3. queue' \in Seq(QueueEntry) /\ Len(queue') = Len(queue) - 1 /\ Len(queue) \in Nat
    BY <1>0, <1>1 DEF Places
<1>4. \A i \in 1..Len(queue') : queue'[i] = queue[i + 1] /\ i + 1 \in 1..Len(queue)
    BY <1>0, <1>1, <1>3 DEF Places
<1>5. Head(queue) \in QueueEntry /\ Head(queue).job \in Entered
    BY <1>0, <1>1 DEF Places
<1>6. Places'
    <2>1. Len(queue') + pend' <= Cap \/ Pending \subseteq crowded
        BY <1>0, <1>1, <1>3, PendingCounted DEF Places
    <2>2. \A i \in 1..Len(queue') : queue'[i].job \in Entered
        BY <1>0, <1>4 DEF Places
    <2>3. QED
        BY <1>0, <1>1, <1>2, <1>3, <2>1, <2>2 DEF Places
<1>7. Loops'
    <2> DEFINE e == Head(queue)
    <2>1. run' = IdleRun \/ run' = [IdleRun EXCEPT !.pc = "authority", !.job = e.job, !.obj = e.obj]
        BY DEF Dequeue
    <2>2. e.obj \in Objects /\ e.job \in Entered
        BY <1>5 DEF QueueEntry
    <2> HIDE DEF e
    <2>3. /\ DOMAIN run' = {"pc", "job", "obj", "ok", "image", "last"} /\ run'.obj \in Objects
          /\ run'.pc # "idle" => run'.job = e.job
        BY <2>1, <2>2, IdleKept, RunOf
    <2>4. QED
        BY <1>0, <1>1, <1>2, <2>2, <2>3 DEF Loops
<1>8. Untouched'
    BY <1>0, <1>1 DEF Untouched
<1>9. QED
    BY <1>6, <1>7, <1>8 DEF AdmitIInv

(* A scheduler that lost its authority puts the job back, if there is room. *)
LEMMA AuthorityStep ==
    ASSUME Cap \in Nat, AdmitIInv, CheckAuthority PROVE AdmitIInv'
<1>0. Loops /\ Untouched /\ Places
    BY DEF AdmitIInv
<1>1. run.pc # "idle" /\ UNCHANGED <<subs, log, row, task, cur, pend, rec, deferred>>
    BY DEF CheckAuthority
<1>2. run.job \in Entered /\ run.obj \in Objects
    BY <1>0, <1>1 DEF Loops
<1>3. Places' /\ Entered' = Entered
    <2>1. CASE leader
        BY <1>0, <1>1, <2>1, NothingEnters DEF CheckAuthority
    <2>2. CASE ~leader
        BY <1>0, <1>1, <1>2, <2>2, OtherPathEnters DEF CheckAuthority
    <2>3. QED
        BY <2>1, <2>2
<1>4. RunKept
    <2>1. run' = IdleRun \/ run' = [run EXCEPT !.pc = "refresh"]
        BY DEF CheckAuthority
    <2>2. QED
        BY <1>0, <2>1, IdleKept DEF RunKept, Loops
<1>5. Untouched'
    BY <1>0, <1>1 DEF Untouched
<1>6. QED
    BY <1>0, <1>1, <1>3, <1>4, <1>5, RunGoesOn DEF AdmitIInv

(* Refreshing, executing and finishing a job touch that job only. *)
LEMMA RunStep ==
    ASSUME Cap \in Nat, AdmitIInv, NEW ok \in BOOLEAN,
           \/ RefreshReplay(ok) \/ refreshJobFromDurableState \/ executeJob(ok)
           \/ RunWithoutTasks(ok) \/ ClaimTask(ok) \/ TaskOutcome(ok) \/ FinishJob(ok)
    PROVE  AdmitIInv'
<1> DEFINE j == run.job
           Only == /\ OnJobs(log') /\ OnJobs(row') /\ OnJobs(task') /\ cur' \in [Jobs -> Objects]
                   /\ \A k \in Jobs \ {j} : /\ log'[k] = log[k] /\ row'[k] = row[k]
                                             /\ task'[k] = task[k] /\ cur'[k] = cur[k]
<1>0. Loops /\ Untouched /\ Places
    BY DEF AdmitIInv
<1>1. run.pc # "idle" /\ UNCHANGED <<subs, queue, inq, pend, rec, crowded, deferred>>
    BY DEF RefreshReplay, refreshJobFromDurableState, executeJob, RunWithoutTasks, ClaimTask,
           TaskOutcome, FinishJob
<1>2. j \in Entered /\ j \in Jobs /\ run.obj \in Objects /\ Current(j, run.obj) \in Objects
    BY <1>0, <1>1 DEF Loops, Entered, Current, Untouched
<1>3. OnJobs(log) /\ OnJobs(row) /\ OnJobs(task) /\ cur \in [Jobs -> Objects]
    BY <1>0 DEF Untouched
<1>4. \A t : [task EXCEPT ![j] = t] = task' => OnJobs(task') /\ \A k \in Jobs \ {j} : task'[k] = task[k]
    BY <1>2, <1>3 DEF OnJobs
<1>5. DOMAIN run = {"pc", "job", "obj", "ok", "image", "last"}
    BY <1>0 DEF Loops
<1> HIDE DEF j
<1>6. Only /\ RunKept => AdmitIInv'
    <2>1. Places' /\ Entered' = Entered
        BY <1>0, <1>1, NothingEnters
    <2>2. Only => Untouched'
        BY <1>0, <1>1, <1>2, OneJobTouched
    <2>3. RunKept => Loops'
        BY <1>0, <1>1, <2>1, RunGoesOn
    <2>4. QED
        BY <2>1, <2>2, <2>3 DEF AdmitIInv
<1>7. CASE RefreshReplay(ok)
    <2>1. Only
        BY <1>3, <1>7 DEF RefreshReplay
    <2>2. RunKept
        BY <1>2, <1>5, <1>7 DEF RefreshReplay, RunKept
    <2>3. QED
        BY <1>6, <2>1, <2>2
<1>8. CASE refreshJobFromDurableState
    <2>1. UNCHANGED <<log, row, task>> /\ (cur' = cur \/ cur' = [cur EXCEPT ![j] = "hyd"])
        BY <1>8 DEF refreshJobFromDurableState, j
    <2>2. Only
        BY <1>2, <1>3, <2>1 DEF Objects
    <2>3. PICK x \in Objects : run' = IdleRun \/ run' = [IdleRun EXCEPT !.pc = "queued", !.job = j, !.obj = x]
        BY <1>2, <1>8 DEF refreshJobFromDurableState, j, Objects
    <2>4. RunKept
        BY <2>3, IdleKept, RunOf DEF RunKept, j
    <2>5. QED
        BY <1>6, <2>2, <2>4
<1>9. CASE executeJob(ok)
    <2> DEFINE x == Current(j, run.obj)
    <2>1. task' = task /\ cur' = [cur EXCEPT ![j] = x]
        BY <1>9 DEF executeJob, j
    <2>2. OnJobs(log') /\ OnJobs(row') /\ \A k \in Jobs \ {j} : log'[k] = log[k] /\ row'[k] = row[k]
        <3>1. Write(j, x, "QUEUED", ok) \/ UNCHANGED <<log, row>>
            BY <1>9 DEF executeJob, j
        <3>2. QED
            BY <1>2, <1>3, <3>1, WriteTouches
    <2>3. PICK step : run' = [run EXCEPT !.obj = x, !.pc = step]
        BY <1>9 DEF executeJob, j
    <2> HIDE DEF x
    <2>4. x \in Objects
        BY <1>2 DEF x
    <2>5. Only
        BY <1>2, <1>3, <2>1, <2>2, <2>4
    <2>6. RunKept
        BY <1>5, <2>3, <2>4 DEF RunKept
    <2>7. QED
        BY <1>6, <2>5, <2>6
<1>10. CASE RunWithoutTasks(ok)
    <2>1. UNCHANGED <<task, cur>> /\ Write(j, run.obj, "RUNNING", ok) /\ run' = [run EXCEPT !.pc = "finish"]
        BY <1>10 DEF RunWithoutTasks, j
    <2>2. Only
        BY <1>2, <1>3, <2>1, WriteTouches
    <2>3. RunKept
        BY <1>2, <1>5, <2>1 DEF RunKept
    <2>4. QED
        BY <1>6, <2>2, <2>3
<1>11. CASE ClaimTask(ok)
    <2>1. cur' = cur /\ (task' = task \/ task' = [task EXCEPT ![j] = "DISPATCHED"])
        BY <1>11 DEF ClaimTask, UpsertTask, j
    <2>2. Write(j, run.obj, "RUNNING", TRUE) \/ UNCHANGED <<log, row>>
        BY <1>11 DEF ClaimTask, j
    <2>3. OnJobs(log') /\ OnJobs(row') /\ \A k \in Jobs \ {j} : log'[k] = log[k] /\ row'[k] = row[k]
        BY <1>2, <1>3, <2>2, WriteTouches
    <2>4. OnJobs(task') /\ \A k \in Jobs \ {j} : task'[k] = task[k]
        BY <1>3, <1>4, <2>1
    <2>5. Only
        BY <1>3, <2>1, <2>3, <2>4
    <2>6. PICK step, good : run' = [run EXCEPT !.pc = step, !.ok = good]
        BY <1>11 DEF ClaimTask
    <2>7. RunKept
        BY <1>2, <1>5, <2>6 DEF RunKept
    <2>8. QED
        BY <1>6, <2>5, <2>7
<1>12. CASE TaskOutcome(ok)
    <2>1. UNCHANGED <<log, row, cur>> /\ run' = [run EXCEPT !.pc = "finish", !.ok = ok]
        BY <1>12 DEF TaskOutcome
    <2>2. \E t : task' = [task EXCEPT ![j] = t]
        BY <1>12 DEF TaskOutcome, UpsertTask, j
    <2>3. OnJobs(task') /\ \A k \in Jobs \ {j} : task'[k] = task[k]
        BY <1>4, <2>2
    <2>4. Only
        BY <1>3, <2>1, <2>3
    <2>5. RunKept
        BY <1>2, <1>5, <2>1 DEF RunKept
    <2>6. QED
        BY <1>6, <2>4, <2>5
<1>13. CASE FinishJob(ok)
    <2>1. UNCHANGED <<task, cur>> /\ run' = IdleRun /\ \E to : Write(j, run.obj, to, ok)
        BY <1>13 DEF FinishJob, j
    <2>2. Only
        BY <1>2, <1>3, <2>1, WriteTouches
    <2>3. RunKept
        BY <2>1, IdleKept DEF RunKept
    <2>4. QED
        BY <1>6, <2>2, <2>3
<1>14. QED
    BY <1>7, <1>8, <1>9, <1>10, <1>11, <1>12, <1>13

-----------------------------------------------------------------------------
(* The leader's reconcile loop. *)

(* An unfinished job is one somebody submitted. *)
LEMMA UnfinishedEntered == ASSUME Untouched PROVE ListUnfinishedJobs \subseteq Entered
    BY DEF Untouched, ListUnfinishedJobs, Entered

(* A queued job in memory is enqueued, or its log is replayed. *)
LEMMA ReconcileReplayStep ==
    ASSUME Cap \in Nat, AdmitIInv, NEW j \in Jobs, NEW ok \in BOOLEAN, ReconcileReplay(j, ok) PROVE AdmitIInv'
<1>0. Loops /\ Untouched /\ Places
    BY DEF AdmitIInv
<1>1. UNCHANGED <<subs, log, row, task, cur, pend, run, deferred>>
    BY DEF ReconcileReplay
<1>2. j \in Entered /\ cur[j] \in Objects
    BY <1>0, UnfinishedEntered DEF ReconcileReplay, Untouched
<1>3. Places' /\ Entered' = Entered
    <2>1. CASE tryEnqueueExistingQueuedJob(j)
        BY <1>0, <1>1, <1>2, <2>1, OtherPathEnters DEF ReconcileReplay
    <2>2. CASE ~tryEnqueueExistingQueuedJob(j)
        BY <1>0, <1>1, <2>2, NothingEnters DEF ReconcileReplay
    <2>3. QED
        BY <2>1, <2>2
<1>4. rec' = rec \/ rec'.job = j
    <2>1. CASE tryEnqueueExistingQueuedJob(j)
        BY <2>1 DEF ReconcileReplay
    <2>2. CASE ~tryEnqueueExistingQueuedJob(j)
        <3>1. \E step, r, state, t, last : rec' = [pc |-> step, job |-> j, row |-> r, state |-> state, task |-> t, last |-> last]
            BY <2>2 DEF ReconcileReplay
        <3>2. QED
            BY <3>1
    <2>3. QED
        BY <2>1, <2>2
<1>5. Loops'
    BY <1>0, <1>1, <1>2, <1>3, <1>4 DEF Loops
<1>6. Untouched'
    BY <1>0, <1>1 DEF Untouched
<1>7. QED
    BY <1>3, <1>5, <1>6 DEF AdmitIInv

(* A malformed or orphaned job is failed. *)
LEMMA ReconcileFailStep ==
    ASSUME AdmitIInv, NEW ok \in BOOLEAN, ReconcileFail(ok) PROVE AdmitIInv'
<1> DEFINE j == rec.job
<1>0. Loops /\ Untouched /\ Places
    BY DEF AdmitIInv
<1>1. rec.pc # "idle" /\ rec' = IdleRec /\ UNCHANGED <<subs, task, queue, inq, pend, run, crowded, deferred>>
    BY DEF ReconcileFail
<1>2. j \in Entered /\ j \in Jobs
    BY <1>0, <1>1 DEF Loops, Entered
<1>3. Places' /\ Entered' = Entered
    BY <1>0, <1>1, NothingEnters
<1>4. Loops'
    BY <1>0, <1>1, <1>3 DEF Loops, IdleRec
<1>5. PICK x \in Objects : cur' = cur \/ cur' = [cur EXCEPT ![j] = x]
    <2>1. CASE cur' = cur
        BY <2>1 DEF Objects
    <2>2. CASE cur' = [cur EXCEPT ![j] = IF cur[j] = "absent" THEN "hyd" ELSE cur[j]]
        BY <1>0, <1>2, <2>2 DEF Objects, Untouched
    <2>3. QED
        BY <2>1, <2>2 DEF ReconcileFail
<1>6. log' = log \/ log' = [log EXCEPT ![j] = Append(@, "FAILED")]
    BY DEF ReconcileFail
<1>7. row' = row \/ row' = [row EXCEPT ![j] = "FAILED"]
    BY DEF ReconcileFail, UpsertJob
<1> HIDE DEF j
<1>8. cur' \in [Jobs -> Objects] /\ \A k \in Jobs \ {j} : cur'[k] = cur[k]
    BY <1>0, <1>2, <1>5 DEF Untouched
<1>9. OnJobs(log') /\ \A k \in Jobs \ {j} : log'[k] = log[k]
    BY <1>0, <1>2, <1>6 DEF Untouched, OnJobs
<1>10. OnJobs(row') /\ \A k \in Jobs \ {j} : row'[k] = row[k]
    BY <1>0, <1>2, <1>7 DEF Untouched, OnJobs
<1>11. OnJobs(task')
    BY <1>0, <1>1 DEF Untouched
<1>12. Untouched'
    BY <1>0, <1>1, <1>2, <1>8, <1>9, <1>10, <1>11, OneJobTouched
<1>13. QED
    BY <1>3, <1>4, <1>12 DEF AdmitIInv

(* A replay is applied, and a queued job enqueued. *)
LEMMA ReconcileApplyStep ==
    ASSUME Cap \in Nat, AdmitIInv, NEW ok \in BOOLEAN, ReconcileApply(ok) PROVE AdmitIInv'
<1> DEFINE j == rec.job
           x == IF cur[j] = "absent" THEN "hyd" ELSE cur[j]
<1>0. Loops /\ Untouched /\ Places
    BY DEF AdmitIInv
<1>1. rec.pc # "idle" /\ rec' = IdleRec /\ UNCHANGED <<subs, task, pend, run, deferred>>
    BY DEF ReconcileApply
<1>2. j \in Entered /\ j \in Jobs /\ x \in Objects
    BY <1>0, <1>1 DEF Loops, Entered, Untouched, Objects
<1>3. cur' = [cur EXCEPT ![j] = x]
    BY DEF ReconcileApply
<1>4. log' = log \/ \E to : log' = [log EXCEPT ![j] = Append(@, to)]
    BY DEF ReconcileApply
<1>5. row' = row \/ \E to : row' = [row EXCEPT ![j] = to]
    BY DEF ReconcileApply, UpsertJob
<1>6. Enqueued(j, x, inq) \/ UNCHANGED <<queue, inq, crowded>>
    BY DEF ReconcileApply
<1> HIDE DEF j, x
<1>7. Places' /\ Entered' = Entered
    BY <1>0, <1>1, <1>2, <1>6, NothingEnters, OtherPathEnters
<1>8. cur' \in [Jobs -> Objects] /\ \A k \in Jobs \ {j} : cur'[k] = cur[k]
    BY <1>0, <1>2, <1>3 DEF Untouched
<1>9. OnJobs(log') /\ \A k \in Jobs \ {j} : log'[k] = log[k]
    BY <1>0, <1>2, <1>4 DEF Untouched, OnJobs
<1>10. OnJobs(row') /\ \A k \in Jobs \ {j} : row'[k] = row[k]
    BY <1>0, <1>2, <1>5 DEF Untouched, OnJobs
<1>11. OnJobs(task')
    BY <1>0, <1>1 DEF Untouched
<1>12. Untouched'
    BY <1>0, <1>1, <1>2, <1>8, <1>9, <1>10, <1>11, OneJobTouched
<1>13. Loops'
    BY <1>0, <1>1, <1>7 DEF Loops, IdleRec
<1>14. QED
    BY <1>7, <1>12, <1>13 DEF AdmitIInv

-----------------------------------------------------------------------------
(* Look-ups, clean-up, leadership and restarts. *)

(* Only jobs somebody submitted are cleaned up or looked up. *)
LEMMA AdmitLookupStep ==
    ASSUME AdmitIInv, NEW j \in Jobs, cleanupTerminalJobsOnce(j) \/ GetJob(j) PROVE AdmitIInv'
<1>0. Loops /\ Untouched /\ Places
    BY DEF AdmitIInv
<1>1. UNCHANGED <<subs, log, row, task, queue, pend, run, rec, crowded, deferred>> /\ inq' \subseteq inq
    BY DEF cleanupTerminalJobsOnce, GetJob
<1>2. j \in Entered
    BY <1>0 DEF cleanupTerminalJobsOnce, GetJob, Known, Entered, Untouched
<1>3. \E x \in Objects : cur' = [cur EXCEPT ![j] = x]
    BY DEF cleanupTerminalJobsOnce, GetJob, Objects
<1>4. cur' \in [Jobs -> Objects] /\ \A k \in Jobs \ {j} : cur'[k] = cur[k]
    BY <1>0, <1>3 DEF Untouched
<1>5. Places' /\ Entered' = Entered
    BY <1>0, <1>1, NothingEnters
<1>6. Untouched'
    BY <1>0, <1>1, <1>2, <1>4, OneJobTouched DEF Untouched
<1>7. Loops'
    BY <1>0, <1>1, <1>5 DEF Loops
<1>8. QED
    BY <1>5, <1>6, <1>7 DEF AdmitIInv

(* A restart forgets the reservations with the submissions that held them. *)
LEMMA RestartStep == ASSUME Cap \in Nat, AdmitIInv, Restart PROVE AdmitIInv'
<1> DEFINE back == ReplayStateFromStore
<1>0. Loops /\ Untouched /\ Places
    BY DEF AdmitIInv
<1>1. /\ subs' = [j \in Jobs |-> IF subs[j] \in {"new", "refused", "accepted"} THEN subs[j] ELSE "lost"]
      /\ pend' = 0 /\ run' = IdleRun /\ rec' = IdleRec /\ UNCHANGED <<log, row, task, crowded, deferred>>
    BY DEF Restart
<1>2. Entered' = Entered /\ Pending' = {} /\ subs' \in [Jobs -> Submissions]
    BY <1>0, <1>1 DEF Entered, Pending, Places, Submissions
<1>3. back \subseteq Entered
    BY <1>0, UnfinishedEntered DEF ReplayStateFromStore
<1>4. cur' = [j \in Jobs |-> IF j \in back THEN "hyd" ELSE "absent"] /\ resumeRecoveredQueuedJobsLocked(back)
    BY DEF Restart, RecoverFromTransitions
<1> HIDE DEF back
<1>5. PICK s \in SUBSET back : /\ Cardinality(s) <= Cap /\ inq' = s
                              /\ queue' \in [1..Cardinality(s) -> [job : s, obj : {"hyd"}]]
    BY <1>4 DEF resumeRecoveredQueuedJobsLocked
<1>6. IsFiniteSet(s) /\ Cardinality(s) \in Nat /\ s \subseteq Entered /\ s \subseteq Jobs
    BY <1>0, <1>3, <1>5, FS_Subset, FS_CardinalityType DEF Places, Entered
<1>7. [job : s, obj : {"hyd"}] \subseteq QueueEntry
    BY <1>6 DEF QueueEntry, Objects
<1>8. /\ queue' \in Seq(QueueEntry) /\ Len(queue') = Cardinality(s)
      /\ \A i \in 1..Len(queue') : queue'[i].job \in Entered
    BY <1>5, <1>6, <1>7
<1>9. IsFiniteSet({}) /\ Cardinality({}) = 0
    BY FS_EmptySet
<1>10. Places'
    BY <1>0, <1>1, <1>2, <1>5, <1>6, <1>8, <1>9 DEF Places
<1>11. Untouched'
    <2>1. \A j \in Jobs : subs'[j] = "new" => subs[j] = "new" /\ j \notin back
        BY <1>1, <1>3 DEF Entered
    <2>2. cur' \in [Jobs -> Objects] /\ \A j \in Jobs \ back : cur'[j] = "absent"
        BY <1>4 DEF Objects
    <2>3. QED
        BY <1>0, <1>1, <2>1, <2>2 DEF Untouched
<1>12. Loops'
    BY <1>1, IdleKept DEF Loops, IdleRec
<1>13. QED
    BY <1>10, <1>11, <1>12 DEF AdmitIInv

(* Every step keeps the invariant. *)
LEMMA StepAdmitIInv == ASSUME Cap \in Nat, AdmitIInv, [Next]_vars PROVE AdmitIInv'
<1>1. CASE LoseLeadership \/ RegainLeadership \/ UNCHANGED vars
    <2>1. UNCHANGED <<subs, log, row, task, cur, queue, inq, pend, run, rec, crowded, deferred>>
        BY <1>1 DEF LoseLeadership, RegainLeadership, vars
    <2>2. Places' /\ Entered' = Entered
        BY <2>1, NothingEnters DEF AdmitIInv
    <2>3. QED
        BY <2>1, <2>2, OneJobEntered DEF AdmitIInv
<1>2. CASE refreshJobFromDurableState
    <2>1. TRUE \in BOOLEAN
        OBVIOUS
    <2>2. QED
        BY <1>2, <2>1, RunStep
<1>3. QED
    BY <1>1, <1>2, SubmitStep, RecordStep, EnqueueStep, DequeueStep, AuthorityStep, RunStep, ReconcileReplayStep,
       ReconcileFailStep, ReconcileApplyStep, AdmitLookupStep, RestartStep DEF Next

(* The capacity reserved before the lock is released is kept: an accepted submission  *)
(* fails to enter the queue only if another path used the queue meanwhile.            *)
THEOREM PlacesReserved == ASSUME Cap \in Nat PROVE Spec => []ReservationKept
<1>1. Init => AdmitIInv
    BY InitAdmitIInv
<1>2. AdmitIInv /\ [Next]_vars => AdmitIInv'
    BY StepAdmitIInv
<1>3. AdmitIInv => ReservationKept
    BY DEF AdmitIInv, Places, ReservationKept
<1>4. QED
    BY <1>1, <1>2, <1>3, PTL DEF Spec

-----------------------------------------------------------------------------
(* CircuitBreaker                                                          *)
(* The circuit breaker and its registry, for every number of callers and every       *)
(* configuration.                                                                     *)

(* What the proofs assume of the configuration: its limits are natural numbers. *)
Configured ==
    /\ FailureThreshold \in Nat /\ SuccessThreshold \in Nat /\ HalfOpenMaxRequests \in Nat
    /\ MaxEras \in Nat

(* A caller's state. *)
CallerRecord == [pc : {"idle", "create", "ready", "running"}, cb : {0, 1}, era : Nat]

(* The registry creates one breaker, and callers that hold a breaker hold that one. *)
OneRegistered ==
    /\ registered \in {0, 1} /\ breakers \in Seq(Breaker) /\ Len(breakers) = registered
    /\ caller \in [Callers -> CallerRecord]
    /\ \A c \in Callers : /\ caller[c].cb = 1 => registered = 1
                          /\ caller[c].pc \in {"ready", "running"} => caller[c].cb = 1

(* Nobody was admitted in an era that is still to come. *)
NoFutureEra == \A c \in Callers : caller[c].pc = "running" => caller[c].era <= breakers[1].era

(* Every admission of the half-open era is a probe that still runs or a success that  *)
(* was counted: the first one was not counted in halfOpen, and failures end the era.  *)
Balanced(b, P) ==
    b.state = "half-open" =>
        /\ IsFiniteSet(P) /\ Cardinality(P) <= b.halfOpen + 1
        /\ b.halfOpen + 1 <= Cardinality(P) + b.successes
        /\ b.halfOpen <= HalfOpenMaxRequests
        /\ b.successes = 0 \/ b.successes < SuccessThreshold

BreakerIInv == OneRegistered /\ (registered = 1 => NoFutureEra /\ Balanced(breakers[1], Probes(1)))

(* Nothing is registered at first. *)
LEMMA InitBreakerIInv == BreakerInit => BreakerIInv
    BY DEF BreakerInit, BreakerIInv, OneRegistered, CallerRecord

(* A sequence of one element, and the element in its place. *)
LEMMA Single ==
    ASSUME NEW S, NEW q \in Seq(S), Len(q) = 1, NEW n \in S
    PROVE  /\ q[1] \in S /\ DOMAIN q = {1}
           /\ [q EXCEPT ![1] = n] \in Seq(S) /\ Len([q EXCEPT ![1] = n]) = 1
           /\ [q EXCEPT ![1] = n][1] = n
    OBVIOUS

(* The only breaker and its counters. *)
LEMMA TheBreaker ==
    ASSUME OneRegistered, registered = 1
    PROVE  /\ breakers \in Seq(Breaker) /\ Len(breakers) = 1 /\ DOMAIN breakers = {1}
           /\ breakers[1] \in Breaker /\ breakers[1].era \in Nat /\ breakers[1].halfOpen \in Nat
           /\ breakers[1].successes \in Nat
<1>1. breakers \in Seq(Breaker) /\ Len(breakers) = 1
    BY DEF OneRegistered
<1>2. breakers[1] \in Breaker /\ DOMAIN breakers = {1}
    BY <1>1
<1>3. QED
    BY <1>1, <1>2 DEF Breaker

(* The state changes of a breaker begin a new era, which only opening the half-open   *)
(* state makes half-open.                                                             *)
LEMMA Transitions ==
    ASSUME NEW b \in Breaker
    PROVE  /\ toOpen(b) \in Breaker /\ toOpen(b).era = b.era + 1 /\ toOpen(b).state = "open"
           /\ toClosed(b) \in Breaker /\ toClosed(b).era = b.era + 1 /\ toClosed(b).state = "closed"
           /\ toHalfOpen(b) \in Breaker /\ toHalfOpen(b).era = b.era + 1
           /\ toHalfOpen(b).state = "half-open" /\ toHalfOpen(b).halfOpen = 0 /\ toHalfOpen(b).successes = 0
<1>1. /\ NewCircuitBreaker \in Breaker /\ NewCircuitBreaker.state = "closed"
      /\ NewCircuitBreaker.halfOpen = 0 /\ NewCircuitBreaker.successes = 0
    BY DEF NewCircuitBreaker, Breaker, CircuitState
<1>2. b.era + 1 \in Nat /\ {"open", "closed", "half-open"} \subseteq CircuitState
    BY DEF Breaker, CircuitState
<1>3. toOpen(b) \in Breaker /\ toOpen(b).era = b.era + 1 /\ toOpen(b).state = "open"
    BY <1>2 DEF toOpen, Breaker
<1>4. toClosed(b) \in Breaker /\ toClosed(b).era = b.era + 1 /\ toClosed(b).state = "closed"
    BY <1>1, <1>2 DEF toClosed, Breaker
<1>5. /\ toHalfOpen(b) \in Breaker /\ toHalfOpen(b).era = b.era + 1
      /\ toHalfOpen(b).state = "half-open" /\ toHalfOpen(b).halfOpen = 0 /\ toHalfOpen(b).successes = 0
    BY <1>1, <1>2 DEF toHalfOpen, Breaker
<1>6. QED
    BY <1>3, <1>4, <1>5

(* A recorded result keeps the era, unless it ends it; a half-open breaker stays so   *)
(* only on a success, which is counted.                                               *)
LEMMA Results ==
    ASSUME Configured, NEW b \in Breaker, NEW isFailure \in BOOLEAN
    PROVE  /\ Recorded(b, isFailure) \in Breaker /\ b.era <= Recorded(b, isFailure).era
           /\ Recorded(b, isFailure).state = "half-open" =>
                 /\ b.state = "half-open" /\ Recorded(b, isFailure).era = b.era
                 /\ Recorded(b, isFailure).halfOpen = b.halfOpen
                 /\ Recorded(b, isFailure).successes = b.successes + 1
                 /\ b.successes + 1 < SuccessThreshold
<1> DEFINE failed == [b EXCEPT !.failures = @ + 1]
           succeeded == [b EXCEPT !.successes = @ + 1]
<1>1. /\ failed \in Breaker /\ failed.era = b.era /\ failed.state = b.state
      /\ succeeded \in Breaker /\ succeeded.era = b.era /\ succeeded.state = b.state
      /\ succeeded.halfOpen = b.halfOpen /\ succeeded.successes = b.successes + 1
      /\ b.era \in Nat /\ b.state \in CircuitState /\ b.successes \in Nat
    BY DEF Breaker
<1>2. CASE b.state = "closed" /\ isFailure
    <2>1. Recorded(b, isFailure) = IF failed.failures >= FailureThreshold THEN toOpen(failed) ELSE failed
        BY <1>2 DEF Recorded
    <2> HIDE DEF failed, succeeded
    <2>2. toOpen(failed) \in Breaker /\ toOpen(failed).era = b.era + 1 /\ toOpen(failed).state = "open"
        BY <1>1, Transitions
    <2>3. Recorded(b, isFailure) \in {failed, toOpen(failed)}
        BY <2>1
    <2>4. Recorded(b, isFailure).state # "half-open"
        BY <1>1, <1>2, <2>2, <2>3
    <2>5. QED
        BY <1>1, <2>2, <2>3, <2>4, SMTT(20)
<1>3. CASE b.state = "closed" /\ ~isFailure
    <2>1. Recorded(b, isFailure) = [b EXCEPT !.failures = 0]
        BY <1>3 DEF Recorded
    <2>2. QED
        BY <1>3, <2>1 DEF Breaker
<1>4. CASE b.state = "half-open" /\ isFailure
    <2>1. Recorded(b, isFailure) = toOpen(b)
        BY <1>4 DEF Recorded
    <2>2. toOpen(b) \in Breaker /\ toOpen(b).era = b.era + 1 /\ toOpen(b).state = "open"
        BY Transitions
    <2>3. QED
        BY <1>1, <2>1, <2>2
<1>5. CASE b.state = "half-open" /\ ~isFailure
    <2>1. Recorded(b, isFailure) =
              IF succeeded.successes >= SuccessThreshold THEN toClosed(succeeded) ELSE succeeded
        BY <1>5 DEF Recorded
    <2> HIDE DEF failed, succeeded
    <2>2. CASE succeeded.successes >= SuccessThreshold
        BY <1>1, <2>1, <2>2, Transitions, SMTT(20)
    <2>3. CASE ~(succeeded.successes >= SuccessThreshold)
        BY <1>1, <1>5, <2>1, <2>3 DEF Configured
    <2>4. QED
        BY <2>2, <2>3
<1>6. CASE b.state = "open"
    <2>1. Recorded(b, isFailure) = b
        BY <1>6 DEF Recorded
    <2>2. QED
        BY <1>1, <1>6, <2>1
<1>7. QED
    BY <1>1, <1>2, <1>3, <1>4, <1>5, <1>6 DEF CircuitState

(* What a step that moves one caller does to the probes of a breaker in its era. *)
LEMMA ProbesAfter ==
    ASSUME BreakerIInv, NEW c \in Callers, registered = 1,
           caller' \in [Callers -> CallerRecord],
           \A d \in Callers \ {c} : caller'[d] = caller[d]
    PROVE  /\ (breakers'[1].era = breakers[1].era /\ caller'[c].pc # "running")
                 => Probes(1)' = Probes(1) \ {c}
           /\ (/\ breakers'[1].era = breakers[1].era /\ caller[c].pc # "running"
               /\ caller'[c].pc = "running" /\ caller'[c].cb = 1 /\ caller'[c].era = breakers'[1].era)
                 => Probes(1)' = Probes(1) \cup {c} /\ c \notin Probes(1)
           /\ (/\ breakers'[1].era = breakers[1].era + 1 /\ caller'[c].pc = "running"
               /\ caller'[c].cb = 1 /\ caller'[c].era = breakers'[1].era)
                 => Probes(1)' = {c}
<1>1. \A d \in Callers \ {c} : caller[d].pc = "running" => caller[d].era \in Nat /\ caller[d].era <= breakers[1].era
    BY DEF BreakerIInv, OneRegistered, CallerRecord, NoFutureEra
<1>2. breakers[1] \in Breaker /\ breakers[1].era \in Nat
    BY TheBreaker DEF BreakerIInv
<1>3. ASSUME breakers'[1].era = breakers[1].era, caller'[c].pc # "running"
      PROVE  Probes(1)' = Probes(1) \ {c}
    BY <1>3 DEF Probes
<1>4. ASSUME breakers'[1].era = breakers[1].era, caller[c].pc # "running",
             caller'[c].pc = "running", caller'[c].cb = 1, caller'[c].era = breakers'[1].era
      PROVE  Probes(1)' = Probes(1) \cup {c} /\ c \notin Probes(1)
    BY <1>4, SMTT(20) DEF Probes
<1>5. ASSUME breakers'[1].era = breakers[1].era + 1, caller'[c].pc = "running",
             caller'[c].cb = 1, caller'[c].era = breakers'[1].era
      PROVE  Probes(1)' = {c}
    <2>1. \A d \in Callers \ {c} : caller'[d].pc = "running" => caller'[d].era # breakers'[1].era
        BY <1>1, <1>2, <1>5, SMTT(20)
    <2>2. QED
        BY <1>5, <2>1 DEF Probes
<1>6. QED
    BY <1>3, <1>4, <1>5

(* Look-ups leave the breaker and its requests alone. *)
LEMMA BreakerLookupStep ==
    ASSUME Configured, BreakerIInv, NEW c \in Callers, Get(c) \/ Create(c) PROVE BreakerIInv'
<1>0. OneRegistered
    BY DEF BreakerIInv
<1>1. CASE registered = 0 /\ Create(c)
    <2>1. breakers' = Append(breakers, NewCircuitBreaker) /\ registered' = Len(breakers') /\ Holds(c, registered')
        BY <1>1 DEF Create
    <2>2. NewCircuitBreaker \in Breaker
        BY DEF NewCircuitBreaker, Breaker, CircuitState
    <2>3. breakers' \in Seq(Breaker) /\ Len(breakers') = 1 /\ breakers'[1] = NewCircuitBreaker
        BY <1>0, <1>1, <2>1, <2>2 DEF OneRegistered
    <2>4. caller' = [caller EXCEPT ![c] = [pc |-> "ready", cb |-> 1, era |-> 0]] /\ registered' = 1
        BY <2>1, <2>3 DEF Holds
    <2>5. OneRegistered'
        BY <1>0, <1>1, <2>3, <2>4 DEF OneRegistered, CallerRecord
    <2>6. \A d \in Callers : caller'[d].pc # "running"
        BY <1>0, <1>1, <2>4 DEF OneRegistered
    <2>7. breakers'[1].state = "closed"
        BY <2>3, SMTT(20) DEF NewCircuitBreaker
    <2>8. QED
        BY <2>5, <2>6, <2>7 DEF BreakerIInv, NoFutureEra, Balanced
<1>2. CASE UNCHANGED <<registered, breakers>>
    <2>1. \/ caller' = [caller EXCEPT ![c] = [pc |-> "ready", cb |-> registered, era |-> 0]] /\ registered = 1
          \/ caller' = [caller EXCEPT ![c].pc = "create"]
        BY <1>0, <1>2 DEF Get, Create, Holds, OneRegistered
    <2>2. caller[c].pc \in {"idle", "create"} /\ caller'[c].pc # "running"
        BY <1>0, <2>1 DEF Get, Create, OneRegistered, CallerRecord
    <2>3. OneRegistered' /\ \A d \in Callers \ {c} : caller'[d] = caller[d]
        <3>1. caller[c] \in CallerRecord
            BY <1>0 DEF OneRegistered
        <3>2. /\ [caller[c] EXCEPT !.pc = "create"] \in CallerRecord
              /\ registered = 1 => [pc |-> "ready", cb |-> registered, era |-> 0] \in CallerRecord
            BY <3>1 DEF CallerRecord
        <3>3. caller' \in [Callers -> CallerRecord]
            BY <1>0, <2>1, <3>1, <3>2 DEF OneRegistered
        <3>4. \A d \in Callers \ {c} : caller'[d] = caller[d]
            BY <1>0, <2>1 DEF OneRegistered
        <3>5. /\ caller'[c].cb = 1 => registered = 1
              /\ caller'[c].pc \in {"ready", "running"} => caller'[c].cb = 1
            BY <1>0, <2>1, <3>1 DEF OneRegistered, CallerRecord
        <3>6. QED
            BY <1>0, <1>2, <3>3, <3>4, <3>5 DEF OneRegistered
    <2>4. CASE registered = 0
        BY <1>2, <2>3, <2>4 DEF BreakerIInv
    <2>5. CASE registered = 1
        <3>1. Probes(1)' = Probes(1)
            BY <1>2, <2>2, <2>3 DEF Probes
        <3>2. NoFutureEra'
            BY <1>2, <2>2, <2>3, <2>5 DEF BreakerIInv, NoFutureEra
        <3>3. QED
            BY <1>2, <2>3, <2>5, <3>1, <3>2 DEF BreakerIInv, Balanced
    <2>6. QED
        BY <1>0, <2>4, <2>5 DEF OneRegistered
<1>3. QED
    BY <1>0, <1>1, <1>2 DEF Get, Create, OneRegistered

(* The breaker may change, its caller may be admitted or leave. *)
LEMMA RequestMoved ==
    ASSUME BreakerIInv, registered = 1, registered' = 1, NEW c \in Callers, NEW b \in Breaker,
           breakers' = [breakers EXCEPT ![1] = b], breakers[1].era <= b.era,
           caller[c].cb = 1,
           \/ caller' = [caller EXCEPT ![c].pc = "running", ![c].era = b.era]
           \/ caller' = [caller EXCEPT ![c].pc = "idle"]
    PROVE  /\ OneRegistered' /\ NoFutureEra' /\ breakers'[1] = b
           /\ \A d \in Callers \ {c} : caller'[d] = caller[d]
<1>0. OneRegistered /\ NoFutureEra
    BY DEF BreakerIInv
<1>1. breakers' \in Seq(Breaker) /\ Len(breakers') = 1 /\ breakers'[1] = b
    BY <1>0, TheBreaker, Single
<1>2. OneRegistered'
    <2>1. b.era \in Nat
        BY DEF Breaker
    <2>2. caller' \in [Callers -> CallerRecord]
        <3>1. caller[c] \in CallerRecord
            BY <1>0 DEF OneRegistered
        <3>2. /\ [caller[c] EXCEPT !.pc = "running", !.era = b.era] \in CallerRecord
              /\ [caller[c] EXCEPT !.pc = "idle"] \in CallerRecord
            BY <2>1, <3>1 DEF CallerRecord
        <3>3. QED
            BY <1>0, <3>1, <3>2 DEF OneRegistered
    <2>3. \A d \in Callers : /\ caller'[d].cb = caller[d].cb
                              /\ caller'[d].pc \in {"ready", "running"} => caller[d].cb = 1
        BY <1>0 DEF OneRegistered
    <2>4. QED
        BY <1>1, <2>2, <2>3 DEF OneRegistered, CallerRecord
<1>3. \A d \in Callers \ {c} : caller'[d] = caller[d]
    BY <1>0 DEF OneRegistered
<1>4. b.era \in Nat /\ breakers[1].era \in Nat /\ \A d \in Callers : caller[d].era \in Nat
    <2>1. b.era \in Nat
        BY DEF Breaker
    <2>2. QED
        BY <1>0, <2>1, TheBreaker DEF OneRegistered, CallerRecord
<1>5. caller'[c].pc = "running" => caller'[c].era = b.era
    BY <1>0 DEF OneRegistered, CallerRecord
<1>6. NoFutureEra'
    BY <1>0, <1>1, <1>3, <1>4, <1>5 DEF NoFutureEra
<1>7. QED
    BY <1>1, <1>2, <1>3, <1>6

(* beforeRequest keeps the balance: an admission is a probe more. *)
LEMMA AdmissionStep ==
    ASSUME Configured, BreakerIInv, NEW c \in Callers, beforeRequest(c) PROVE BreakerIInv'
<1> DEFINE b == breakers[1]
<1>0. OneRegistered
    BY DEF BreakerIInv
<1>1. caller[c].pc = "ready" /\ caller[c].cb = 1 /\ registered = 1 /\ registered' = 1
    BY <1>0 DEF beforeRequest, OneRegistered
<1>2. b \in Breaker /\ b.era \in Nat /\ b.halfOpen \in Nat
    BY <1>0, <1>1, TheBreaker
<1>3. Balanced(b, Probes(1))
    BY <1>1 DEF BreakerIInv
<1>4. CASE Rejected(c)
    <2>1. breakers' = breakers /\ caller' = [caller EXCEPT ![c].pc = "idle"]
        BY <1>4 DEF Rejected
    <2>2. OneRegistered' /\ \A d \in Callers \ {c} : caller'[d] = caller[d]
        BY <1>0, <1>1, <2>1 DEF OneRegistered, CallerRecord
    <2>3. caller'[c].pc = "idle"
        BY <1>0, <2>1 DEF OneRegistered
    <2>4. Probes(1)' = Probes(1)
        BY <1>1, <2>1, <2>2, <2>3 DEF Probes
    <2>5. NoFutureEra'
        BY <1>1, <2>1, <2>2, <2>3 DEF BreakerIInv, NoFutureEra
    <2>6. QED
        BY <1>1, <1>3, <2>1, <2>2, <2>4, <2>5 DEF BreakerIInv
<1>5. ASSUME NEW n \in Breaker, Admitted(c, n), b.era <= n.era,
             \/ n.state # "half-open"
             \/ n = toHalfOpen(b)
             \/ /\ b.state = "half-open" /\ b.halfOpen < HalfOpenMaxRequests
                /\ n = [b EXCEPT !.halfOpen = @ + 1]
      PROVE  BreakerIInv'
    <2>1. /\ breakers' = [breakers EXCEPT ![1] = n]
          /\ caller' = [caller EXCEPT ![c].pc = "running", ![c].era = n.era]
        BY <1>1, <1>5 DEF Admitted
    <2>2. /\ OneRegistered' /\ NoFutureEra' /\ breakers'[1] = n
          /\ \A d \in Callers \ {c} : caller'[d] = caller[d]
        BY <1>1, <1>5, <2>1, RequestMoved
    <2>3. caller'[c].pc = "running" /\ caller'[c].cb = 1 /\ caller'[c].era = n.era
        BY <1>0, <1>1, <2>1 DEF OneRegistered
    <2>4. caller' \in [Callers -> CallerRecord]
        BY <2>2 DEF OneRegistered
    <2>5. CASE n.state # "half-open"
        BY <1>1, <2>2, <2>5 DEF BreakerIInv, Balanced
    <2>6. CASE n = toHalfOpen(b)
        <3>1. n.era = b.era + 1 /\ n.halfOpen = 0 /\ n.successes = 0
            BY <1>2, <2>6, Transitions
        <3>2. Probes(1)' = {c}
            BY <1>1, <2>2, <2>3, <2>4, <3>1, ProbesAfter
        <3>3. IsFiniteSet({c}) /\ Cardinality({c}) = 1
            BY FS_Singleton
        <3>4. Balanced(n, {c})
            BY <3>1, <3>3 DEF Balanced, Configured
        <3>5. QED
            BY <1>1, <2>2, <3>2, <3>4 DEF BreakerIInv
    <2>7. CASE /\ b.state = "half-open" /\ b.halfOpen < HalfOpenMaxRequests
               /\ n = [b EXCEPT !.halfOpen = @ + 1]
        <3>1. n.era = b.era /\ n.halfOpen = b.halfOpen + 1 /\ n.successes = b.successes /\ b.successes \in Nat
            BY <1>2, <2>7 DEF Breaker
        <3>2. Probes(1)' = Probes(1) \cup {c} /\ c \notin Probes(1)
            BY <1>1, <2>2, <2>3, <2>4, <3>1, ProbesAfter
        <3>3. IsFiniteSet(Probes(1)) /\ Cardinality(Probes(1)) \in Nat
            BY <1>3, <2>7, FS_CardinalityType DEF Balanced
        <3>4. IsFiniteSet(Probes(1)') /\ Cardinality(Probes(1)') = Cardinality(Probes(1)) + 1
            BY <3>2, <3>3, FS_AddElement
        <3>5. Balanced(n, Probes(1)')
            BY <1>2, <1>3, <2>7, <3>1, <3>3, <3>4 DEF Balanced, Configured
        <3>6. QED
            BY <1>1, <2>2, <3>5 DEF BreakerIInv
    <2>8. QED
        BY <1>5, <2>5, <2>6, <2>7
<1>6. \/ b.state = "closed" /\ Admitted(c, b)
      \/ Admitted(c, toHalfOpen(b))
      \/ Rejected(c)
      \/ /\ b.state = "half-open" /\ b.halfOpen < HalfOpenMaxRequests
         /\ Admitted(c, [b EXCEPT !.halfOpen = @ + 1])
    BY <1>1 DEF beforeRequest
<1>7. toHalfOpen(b) \in Breaker /\ b.era <= toHalfOpen(b).era
    BY <1>2, Transitions, SMTT(20)
<1>8. [b EXCEPT !.halfOpen = @ + 1] \in Breaker /\ [b EXCEPT !.halfOpen = @ + 1].era = b.era
    BY <1>2 DEF Breaker
<1>9. QED
    <2> HIDE DEF b
    <2>1. CASE b.state = "closed" /\ Admitted(c, b)
        BY <1>2, <1>5, <2>1
    <2>2. CASE Admitted(c, toHalfOpen(b))
        BY <1>5, <1>7, <2>2
    <2>3. CASE /\ b.state = "half-open" /\ b.halfOpen < HalfOpenMaxRequests
               /\ Admitted(c, [b EXCEPT !.halfOpen = @ + 1])
        <3> DEFINE n == [b EXCEPT !.halfOpen = @ + 1]
        <3>1. n \in Breaker /\ n.era = b.era /\ Admitted(c, n)
            BY <1>8, <2>3
        <3>2. b.era <= n.era
            BY <1>2, <3>1
        <3>3. QED
            BY <1>5, <2>3, <3>1, <3>2
    <2>4. QED
        BY <1>4, <1>6, <2>1, <2>2, <2>3

(* The arithmetic of a success in a half-open breaker: k probes become m. *)
LEMMA OneProbeLess ==
    ASSUME NEW k \in Nat, NEW m \in Nat, NEW h \in Nat, NEW n \in Nat,
           k <= h + 1, h + 1 <= k + n, m \in {k, k - 1}
    PROVE  m <= h + 1 /\ h + 1 <= m + (n + 1)
    OBVIOUS

(* afterRequest keeps the balance: a probe less is a success more, or the era ends.  *)
LEMMA ResultStep ==
    ASSUME Configured, BreakerIInv, NEW c \in Callers, NEW isFailure \in BOOLEAN, afterRequest(c, isFailure)
    PROVE  BreakerIInv'
<1> DEFINE b == breakers[1]
           n == Recorded(b, isFailure)
<1>0. OneRegistered
    BY DEF BreakerIInv
<1>1. caller[c].pc = "running" /\ caller[c].cb = 1 /\ registered = 1 /\ registered' = 1
    BY <1>0 DEF afterRequest, OneRegistered
<1>2. b \in Breaker /\ b.era \in Nat /\ b.halfOpen \in Nat /\ b.successes \in Nat
    BY <1>0, <1>1, TheBreaker
<1>3. breakers' = [breakers EXCEPT ![1] = n] /\ caller' = [caller EXCEPT ![c].pc = "idle"]
    BY <1>1 DEF afterRequest
<1>4. /\ n \in Breaker /\ b.era <= n.era
      /\ n.state = "half-open" =>
            /\ b.state = "half-open" /\ n.era = b.era /\ n.halfOpen = b.halfOpen
            /\ n.successes = b.successes + 1 /\ b.successes + 1 < SuccessThreshold
    BY <1>2, Results
<1> HIDE DEF n
<1>5. /\ OneRegistered' /\ NoFutureEra' /\ breakers'[1] = n
      /\ \A d \in Callers \ {c} : caller'[d] = caller[d]
    BY <1>1, <1>3, <1>4, RequestMoved
<1>6. caller'[c].pc = "idle"
    BY <1>0, <1>3 DEF OneRegistered
<1>7. caller' \in [Callers -> CallerRecord]
    BY <1>5 DEF OneRegistered
<1>8. CASE n.state # "half-open"
    BY <1>1, <1>5, <1>8 DEF BreakerIInv, Balanced
<1>9. CASE n.state = "half-open"
    <2>1. Probes(1)' = Probes(1) \ {c}
        BY <1>1, <1>4, <1>5, <1>6, <1>7, <1>9, ProbesAfter
    <2>2. Balanced(b, Probes(1)) /\ IsFiniteSet(Probes(1)) /\ Cardinality(Probes(1)) \in Nat
        BY <1>1, <1>4, <1>9, FS_CardinalityType DEF BreakerIInv, Balanced
    <2>3. /\ IsFiniteSet(Probes(1)')
          /\ Cardinality(Probes(1)') \in {Cardinality(Probes(1)), Cardinality(Probes(1)) - 1}
        BY <2>1, <2>2, FS_RemoveElement
    <2>4. Cardinality(Probes(1)') \in Nat
        BY <2>3, FS_CardinalityType
    <2>5. Balanced(n, Probes(1)')
        <3>1. /\ Cardinality(Probes(1)) <= b.halfOpen + 1
              /\ b.halfOpen + 1 <= Cardinality(Probes(1)) + b.successes
              /\ b.halfOpen <= HalfOpenMaxRequests
            BY <1>4, <1>9, <2>2 DEF Balanced
        <3>2. /\ Cardinality(Probes(1)') <= b.halfOpen + 1
              /\ b.halfOpen + 1 <= Cardinality(Probes(1)') + (b.successes + 1)
            BY <1>2, <2>2, <2>3, <2>4, <3>1, OneProbeLess
        <3>3. QED
            BY <1>4, <1>9, <2>3, <3>1, <3>2 DEF Balanced
    <2>6. QED
        BY <1>1, <1>5, <2>5 DEF BreakerIInv
<1>10. QED
    BY <1>8, <1>9

(* Every step of callers and timers keeps the invariant. *)
LEMMA StepBreakerIInv == ASSUME Configured, BreakerIInv, [BreakerNext]_breakerVars PROVE BreakerIInv'
<1>0. OneRegistered
    BY DEF BreakerIInv
<1>1. ASSUME NEW i \in DOMAIN breakers, Reset(i) PROVE BreakerIInv'
    <2>1. i = 1 /\ registered = 1 /\ breakers[1] \in Breaker
        BY <1>0 DEF OneRegistered
    <2>2. breakers' = [breakers EXCEPT ![1] = toClosed(breakers[1])] /\ UNCHANGED <<registered, caller>>
        BY <1>1, <2>1 DEF Reset
    <2>3. toClosed(breakers[1]) \in Breaker /\ toClosed(breakers[1]).era = breakers[1].era + 1
          /\ toClosed(breakers[1]).state = "closed"
        BY <2>1, Transitions
    <2>4. breakers' \in Seq(Breaker) /\ Len(breakers') = 1 /\ breakers'[1] = toClosed(breakers[1])
        BY <1>0, <2>1, <2>2, <2>3, TheBreaker, Single
    <2>5. OneRegistered'
        BY <1>0, <2>1, <2>2, <2>4 DEF OneRegistered
    <2>6. NoFutureEra'
        <3>1. breakers[1].era \in Nat /\ \A c \in Callers : caller[c].era \in Nat
            BY <1>0, <2>1 DEF OneRegistered, CallerRecord, Breaker
        <3>2. NoFutureEra /\ caller' = caller /\ breakers'[1].era = breakers[1].era + 1
            BY <2>1, <2>2, <2>3, <2>4 DEF BreakerIInv
        <3>3. ASSUME NEW c \in Callers, caller[c].pc = "running" PROVE caller[c].era <= breakers[1].era + 1
            BY <3>1, <3>2, <3>3 DEF NoFutureEra
        <3>4. QED
            BY <3>2, <3>3 DEF NoFutureEra
    <2>7. QED
        BY <2>3, <2>4, <2>5, <2>6 DEF BreakerIInv, Balanced
<1>2. ASSUME NEW i \in DOMAIN breakers, TimeoutElapses(i) PROVE BreakerIInv'
    <2>1. i = 1 /\ registered = 1 /\ breakers[1] \in Breaker
        BY <1>0 DEF OneRegistered
    <2> DEFINE b == [breakers[1] EXCEPT !.aged = TRUE]
    <2>2. breakers' = [breakers EXCEPT ![1] = b] /\ UNCHANGED <<registered, caller>> /\ breakers[1].state = "open"
        BY <1>2, <2>1 DEF TimeoutElapses
    <2>3. b \in Breaker /\ b.era = breakers[1].era /\ b.state = "open"
        BY <2>1, <2>2 DEF Breaker
    <2> HIDE DEF b
    <2>4. breakers' \in Seq(Breaker) /\ Len(breakers') = 1 /\ breakers'[1] = b
        BY <1>0, <2>1, <2>2, <2>3, TheBreaker, Single
    <2>5. OneRegistered'
        BY <1>0, <2>1, <2>2, <2>4 DEF OneRegistered
    <2>6. NoFutureEra'
        BY <2>1, <2>2, <2>3, <2>4 DEF BreakerIInv, NoFutureEra
    <2>7. QED
        BY <2>3, <2>4, <2>5, <2>6 DEF BreakerIInv, Balanced
<1>3. CASE UNCHANGED breakerVars
    BY <1>3 DEF breakerVars, BreakerIInv, OneRegistered, NoFutureEra, Balanced, Probes
<1>4. QED
    BY <1>1, <1>2, <1>3, BreakerLookupStep, AdmissionStep, ResultStep DEF BreakerNext, BreakerExecute

(* Half-open, the breaker lets at most HalfOpenMaxRequests requests through, and the  *)
(* one that found the timeout over.                                                   *)
THEOREM ProbesBounded == ASSUME Configured PROVE BreakerSpec => []HalfOpenBounded
<1>1. BreakerInit => BreakerIInv
    BY InitBreakerIInv
<1>2. BreakerIInv /\ [BreakerNext]_breakerVars => BreakerIInv'
    BY StepBreakerIInv
<1>3. BreakerIInv => HalfOpenBounded
    <2>1. SUFFICES ASSUME BreakerIInv, NEW i \in DOMAIN breakers, breakers[i].state = "half-open"
                   PROVE  Cardinality(Probes(i)) <= HalfOpenMaxRequests + 1
        BY DEF HalfOpenBounded
    <2>2. i = 1 /\ registered = 1 /\ breakers[1] \in Breaker
        BY <2>1 DEF BreakerIInv, OneRegistered
    <2>3. Balanced(breakers[1], Probes(1)) /\ breakers[1].halfOpen \in Nat
        BY <2>1, <2>2 DEF BreakerIInv, Breaker
    <2>4. Cardinality(Probes(1)) \in Nat
        BY <2>1, <2>2, <2>3, FS_CardinalityType DEF Balanced
    <2>5. /\ Cardinality(Probes(1)) <= breakers[1].halfOpen + 1
          /\ breakers[1].halfOpen <= HalfOpenMaxRequests
        BY <2>1, <2>2, <2>3 DEF Balanced
    <2>6. Cardinality(Probes(1)) <= HalfOpenMaxRequests + 1
        BY <2>3, <2>4, <2>5 DEF Configured
    <2>7. QED
        BY <2>2, <2>6
<1>4. QED
    BY <1>1, <1>2, <1>3, PTL DEF BreakerSpec

(* A half-open breaker that turns requests away still waits for the result of one it  *)
(* let through, unless the configuration asks for more successes than it admits.      *)
THEOREM HalfOpenEnds == ASSUME Configured PROVE BreakerSpec => []NeverStuckHalfOpen
<1>1. BreakerInit => BreakerIInv
    BY InitBreakerIInv
<1>2. BreakerIInv /\ [BreakerNext]_breakerVars => BreakerIInv'
    BY StepBreakerIInv
<1>3. BreakerIInv => NeverStuckHalfOpen
    <2>1. SUFFICES ASSUME BreakerIInv, SuccessThreshold <= HalfOpenMaxRequests + 1,
                          NEW i \in DOMAIN breakers, breakers[i].state = "half-open",
                          breakers[i].halfOpen >= HalfOpenMaxRequests, Probes(i) = {}
                   PROVE  FALSE
        BY DEF NeverStuckHalfOpen
    <2>2. i = 1 /\ registered = 1 /\ breakers[1] \in Breaker
        BY <2>1, SMTT(20) DEF BreakerIInv, OneRegistered
    <2>3. Balanced(breakers[1], {}) /\ breakers[1].halfOpen \in Nat /\ breakers[1].successes \in Nat
        BY <2>1, <2>2 DEF BreakerIInv, Breaker
    <2>4. Cardinality({}) = 0
        BY FS_EmptySet
    <2>5. QED
        BY <2>1, <2>2, <2>3, <2>4, SMTT(20) DEF Balanced, Configured
<1>4. QED
    BY <1>1, <1>2, <1>3, PTL DEF BreakerSpec

(* Callers that look up a name at the same time get the same breaker. *)
THEOREM BreakerShared == ASSUME Configured PROVE BreakerSpec => []OneBreaker
<1>1. BreakerInit => BreakerIInv
    BY InitBreakerIInv
<1>2. BreakerIInv /\ [BreakerNext]_breakerVars => BreakerIInv'
    BY StepBreakerIInv
<1>3. BreakerIInv => OneBreaker
    BY DEF BreakerIInv, OneRegistered, CallerRecord, OneBreaker
<1>4. QED
    BY <1>1, <1>2, <1>3, PTL DEF BreakerSpec

-----------------------------------------------------------------------------
(* HumanNode                                                               *)
(* The human node for every number of executions, deliverers and answers: deliveries *)
(* never block holding the response manager's lock, no callback outlives its          *)
(* execution, and no more executions than the limit wait.                             *)

(* What the proofs assume of the constants: the deliverers do not contain the value   *)
(* that says the lock is free.                                                         *)
ConstantsOK == Free \notin Deliverers

(* The variables in their types, without the bounds of TypeOK. *)
Typed ==
  /\ pc \in [Executions -> {"start", "counted", "admitted", "waiting", "leaving", "ended"}]
  /\ callbacks \subseteq Executions
  /\ respChan \in [Executions -> Int]
  /\ lock \in Deliverers \cup {Free}
  /\ target \in [Deliverers -> Executions \cup {"none"}]
  /\ out \in [Executions -> {"none", "answered", "paused", "refused", "timeout", "canceled"}]

(* A channel is empty until its callback has been called: before the callback is      *)
(* registered, while it is, and for an execution that paused and never blocked.       *)
Quiet ==
  \A e \in Executions :
    (e \in callbacks \/ pc[e] \in {"start", "counted", "admitted"} \/ out[e] = "paused") => respChan[e] = 0

(* Who holds the lock is delivering to an execution whose callback is registered. *)
Locked == \A d \in Deliverers : lock = d => target[d] \in callbacks

(* A paused execution has ended. *)
PausedEnded == \A e \in Executions : out[e] = "paused" => pc[e] = "ended"

IInv == Typed /\ Quiet /\ Locked /\ PausedEnded
        /\ callbacks \subseteq {e \in Executions : pc[e] \in {"waiting", "leaving"}}

(* A new node has nobody waiting. *)
LEMMA InitIInv == ConstantsOK /\ HumanInit => IInv
  BY DEF ConstantsOK, HumanInit, IInv, Typed, Quiet, Locked, PausedEnded

(* Every step of an execution and of a delivery keeps the invariant. *)
LEMMA StepIInv == ConstantsOK /\ IInv /\ [HumanNext]_humanVars => IInv'
<1> SUFFICES ASSUME ConstantsOK, IInv, [HumanNext]_humanVars PROVE IInv'
  OBVIOUS
<1> USE DEF IInv, Typed, Quiet, Locked, PausedEnded, ConstantsOK, Goto, End
<1>1. ASSUME NEW e \in Executions, HumanExecute(e) PROVE IInv'
  <2>1. pc[e] = "start" /\ UNCHANGED <<callbacks, respChan, lock, target>>
    BY <1>1 DEF HumanExecute
  <2>2. CASE End(e, "answered")
    BY <2>1, <2>2
  <2>3. CASE Goto(e, "counted") /\ UNCHANGED out
    BY <2>1, <2>3
  <2>4. CASE End(e, "paused")
    BY <2>1, <2>4
  <2>5. QED
    BY <1>1, <2>2, <2>3, <2>4 DEF HumanExecute
<1>2. ASSUME NEW e \in Executions, checkLimit(e) PROVE IInv'
  BY <1>2, SMTT(20) DEF checkLimit
<1>3. ASSUME NEW e \in Executions, RegisterCallback(e) PROVE IInv'
  BY <1>3, SMTT(20) DEF RegisterCallback
<1>4. ASSUME NEW e \in Executions, blockWithTimeout(e) PROVE IInv'
  <2>1. pc[e] = "waiting" /\ Goto(e, "leaving") /\ UNCHANGED <<callbacks, lock, target>>
    BY <1>4 DEF blockWithTimeout
  <2>2. CASE /\ respChan[e] > 0 /\ respChan' = [respChan EXCEPT ![e] = @ - 1]
             /\ out' = [out EXCEPT ![e] = "answered"]
    BY <2>1, <2>2
  <2>3. ASSUME NEW o \in {"timeout", "canceled"}, out' = [out EXCEPT ![e] = o], UNCHANGED respChan
        PROVE  IInv'
    BY <2>1, <2>3
  <2>4. QED
    BY <1>4, <2>2, <2>3 DEF blockWithTimeout
<1>5. ASSUME NEW e \in Executions, Leave(e) PROVE IInv'
  BY <1>5, SMTT(20) DEF Leave
<1>6. ASSUME NEW e \in Executions, Resume(e) PROVE IInv'
  <2>1. /\ pc' = [pc EXCEPT ![e] = "start"] /\ out' = [out EXCEPT ![e] = "none"]
        /\ UNCHANGED <<callbacks, respChan, lock, target>>
    BY <1>6 DEF Resume
  <2>2. respChan[e] = 0 /\ e \notin callbacks
    BY <1>6 DEF Resume
  <2>3. Typed'
    BY <2>1
  <2>4. /\ pc'[e] = "start" /\ out'[e] = "none"
        /\ \A x \in Executions \ {e} : pc'[x] = pc[x] /\ out'[x] = out[x]
    BY <2>1
  <2>5. QED
    BY <2>1, <2>2, <2>3, <2>4
<1>7. ASSUME NEW d \in Deliverers, NEW e \in Executions, Deliver(d, e) PROVE IInv'
  BY <1>7, SMTT(20) DEF Deliver
<1>8. ASSUME NEW d \in Deliverers, DeliverResponse(d) PROVE IInv'
  <2>1. target[d] \in callbacks /\ target[d] \in Executions
    BY <1>8 DEF DeliverResponse
  <2>2. /\ respChan' \in [Executions -> Int]
        /\ \A x \in Executions : x # target[d] => respChan'[x] = respChan[x]
    BY <1>8, <2>1 DEF DeliverResponse
  <2>3. /\ callbacks' = callbacks \ {target[d]} /\ lock' = Free /\ UNCHANGED <<pc, out>>
        /\ target' \in [Deliverers -> Executions \cup {"none"}]
    BY <1>8 DEF DeliverResponse
  <2>4. Quiet'
    BY <2>1, <2>2, <2>3
  <2>5. QED
    BY <2>1, <2>2, <2>3, <2>4
<1>9. CASE UNCHANGED humanVars
  BY <1>9 DEF humanVars
<1>10. QED
  BY <1>1, <1>2, <1>3, <1>4, <1>5, <1>6, <1>7, <1>8, <1>9 DEF HumanNext

(* DeliverResponse calls the callback holding the manager's mutex, and the send on    *)
(* the channel of capacity one always finds room.                                     *)
THEOREM DeliveriesReturn == ASSUME ConstantsOK PROVE HumanSpec => []DeliveryNeverBlocks
<1>1. IInv => DeliveryNeverBlocks
  BY DEF IInv, Typed, Quiet, Locked, DeliveryNeverBlocks, Capacity
<1>2. QED
  BY InitIInv, StepIInv, <1>1, PTL DEF HumanSpec
(* The executions past the limit, as WaitsBounded counts them. *)
HumanAdmitted == {e \in Executions : pc[e] \in {"admitted", "waiting", "leaving"}}

(* The counter counts the executions between its two atomic updates. *)
Counted == IInv /\ waits = Cardinality(Blocking) /\ Cardinality(HumanAdmitted) <= MaxConcurrentWaits

FiniteNode == ConstantsOK /\ IsFiniteSet(Executions) /\ MaxConcurrentWaits \in Nat

(* Both sets are finite, and those past the limit are counted. *)
LEMMA Finite ==
  ASSUME FiniteNode
  PROVE /\ IsFiniteSet(Blocking) /\ IsFiniteSet(HumanAdmitted) /\ HumanAdmitted \subseteq Blocking
        /\ Cardinality(Blocking) \in Nat /\ Cardinality(HumanAdmitted) \in Nat
        /\ Cardinality(HumanAdmitted) <= Cardinality(Blocking)
<1>1. Blocking \subseteq Executions /\ HumanAdmitted \subseteq Blocking
  BY DEF Blocking, HumanAdmitted
<1>2. IsFiniteSet(Blocking)
  BY <1>1, FS_Subset DEF FiniteNode
<1>3. IsFiniteSet(HumanAdmitted) /\ Cardinality(HumanAdmitted) <= Cardinality(Blocking)
  BY <1>1, <1>2, FS_Subset
<1>4. QED
  BY <1>1, <1>2, <1>3, FS_CardinalityType

(* Nobody is counted at the start. *)
LEMMA InitCounted == ASSUME FiniteNode, HumanInit PROVE Counted
<1>1. Blocking = {} /\ HumanAdmitted = {}
  BY DEF HumanInit, Blocking, HumanAdmitted
<1>2. QED
  BY <1>1, InitIInv, FS_EmptySet DEF Counted, FiniteNode, HumanInit

(* The counter is added to before it is compared and subtracted from after the wait,  *)
(* each atomically, so whoever passes the comparison is among at most the limit.       *)
LEMMA StepCounted == ASSUME FiniteNode, Counted, [HumanNext]_humanVars PROVE Counted'
<1>0. IInv /\ IInv'
  BY StepIInv DEF Counted, FiniteNode
<1>t. pc \in [Executions -> {"start", "counted", "admitted", "waiting", "leaving", "ended"}]
  BY <1>0 DEF IInv, Typed
<1>f. /\ IsFiniteSet(Blocking) /\ IsFiniteSet(HumanAdmitted) /\ HumanAdmitted \subseteq Blocking
      /\ Cardinality(Blocking) \in Nat /\ Cardinality(HumanAdmitted) \in Nat
      /\ Cardinality(HumanAdmitted) <= Cardinality(Blocking)
  BY Finite
<1>1. ASSUME waits' = waits, Blocking' = Blocking, HumanAdmitted' = HumanAdmitted PROVE Counted'
  BY <1>0, <1>1 DEF Counted
<1>2. ASSUME NEW e \in Executions, HumanExecute(e) PROVE Counted'
  <2>1. CASE e \notin pending /\ waits' = waits + 1 /\ Goto(e, "counted")
    <3>1. Blocking' = Blocking \cup {e} /\ e \notin Blocking /\ HumanAdmitted' = HumanAdmitted
      BY <1>2, <2>1, <1>t DEF HumanExecute, Goto, Blocking, HumanAdmitted
    <3>2. QED
      BY Zenon, <1>0, <1>f, <2>1, <3>1, FS_AddElement DEF Counted
  <2>2. CASE waits' = waits /\ pc' = [pc EXCEPT ![e] = "ended"]
    <3>1. Blocking' = Blocking /\ HumanAdmitted' = HumanAdmitted
      BY <1>2, <2>2, <1>t DEF HumanExecute, Blocking, HumanAdmitted
    <3>2. QED
      BY <1>1, <2>2, <3>1
  <2>3. QED
    BY <1>2, <2>1, <2>2 DEF HumanExecute, End, Goto
<1>3. ASSUME NEW e \in Executions, checkLimit(e) PROVE Counted'
  <2>1. CASE waits > MaxConcurrentWaits
    <3>1. Blocking' = Blocking \ {e} /\ e \in Blocking /\ HumanAdmitted' = HumanAdmitted /\ waits' = waits - 1
      BY <1>3, <2>1, <1>t DEF checkLimit, End, Goto, Blocking, HumanAdmitted
    <3>2. QED
      BY Zenon, <1>0, <1>f, <3>1, FS_RemoveElement DEF Counted
  <2>2. CASE ~(waits > MaxConcurrentWaits)
    <3>1. Blocking' = Blocking /\ HumanAdmitted' = HumanAdmitted \cup {e} /\ waits' = waits
      BY <1>3, <2>2, <1>t DEF checkLimit, Goto, Blocking, HumanAdmitted
    <3>2. HumanAdmitted \cup {e} \subseteq Blocking
      BY <1>3, <1>f DEF checkLimit, Blocking
    <3>3. Cardinality(HumanAdmitted \cup {e}) <= Cardinality(Blocking)
      BY <1>f, <3>2, FS_Subset
    <3>4. Cardinality(HumanAdmitted \cup {e}) \in Nat
      BY <1>f, <3>2, FS_Subset, FS_CardinalityType
    <3>5. QED
      BY <1>0, <1>f, <2>2, <3>1, <3>3, <3>4 DEF Counted, FiniteNode
  <2>3. QED
    BY <2>1, <2>2
<1>4. ASSUME NEW e \in Executions, RegisterCallback(e) PROVE Counted'
  <2>1. Blocking' = Blocking /\ HumanAdmitted' = HumanAdmitted /\ waits' = waits
    BY <1>4, <1>t DEF RegisterCallback, Goto, Blocking, HumanAdmitted
  <2>2. QED
    BY <1>1, <2>1
<1>5. ASSUME NEW e \in Executions, blockWithTimeout(e) PROVE Counted'
  <2>1. Blocking' = Blocking /\ HumanAdmitted' = HumanAdmitted /\ waits' = waits
    BY <1>5, <1>t DEF blockWithTimeout, Goto, Blocking, HumanAdmitted
  <2>2. QED
    BY <1>1, <2>1
<1>6. ASSUME NEW e \in Executions, Leave(e) PROVE Counted'
  <2>1. /\ Blocking' = Blocking \ {e} /\ e \in Blocking /\ waits' = waits - 1
        /\ HumanAdmitted' = HumanAdmitted \ {e} /\ e \in HumanAdmitted
    BY <1>6, <1>t DEF Leave, Goto, Blocking, HumanAdmitted
  <2>2. Cardinality(Blocking \ {e}) = Cardinality(Blocking) - 1
    BY Zenon, <1>f, <2>1, FS_RemoveElement
  <2>3. Cardinality(HumanAdmitted \ {e}) = Cardinality(HumanAdmitted) - 1
    BY Zenon, <1>f, <2>1, FS_RemoveElement
  <2>4. QED
    BY <1>0, <1>f, <2>1, <2>2, <2>3 DEF Counted, FiniteNode
<1>7. ASSUME NEW e \in Executions, Resume(e) PROVE Counted'
  <2>1. Blocking' = Blocking /\ HumanAdmitted' = HumanAdmitted /\ waits' = waits
    BY <1>7, <1>t DEF Resume, Goto, Blocking, HumanAdmitted
  <2>2. QED
    BY <1>1, <2>1
<1>8. ASSUME UNCHANGED <<pc, waits>> PROVE Counted'
  <2>1. Blocking' = Blocking /\ HumanAdmitted' = HumanAdmitted /\ waits' = waits
    BY <1>8 DEF Blocking, HumanAdmitted
  <2>2. QED
    BY <1>1, <2>1
<1>9. ASSUME NEW d \in Deliverers, DeliverResponse(d) \/ \E e \in Executions : Deliver(d, e) PROVE Counted'
  BY <1>8, <1>9 DEF DeliverResponse, Deliver
<1>10. QED
  BY <1>2, <1>3, <1>4, <1>5, <1>6, <1>7, <1>8, <1>9 DEF HumanNext, humanVars

(* No more executions of a node than maxConcurrentWaits block, for any finite set of  *)
(* executions that enter, leave and are refused in any order.                          *)
THEOREM LimitKept == ASSUME FiniteNode PROVE HumanSpec => []WaitsBounded
<1>1. HumanInit => Counted
  BY InitCounted
<1>2. Counted /\ [HumanNext]_humanVars => Counted'
  BY StepCounted
<1>3. Counted => WaitsBounded
  BY DEF Counted, HumanAdmitted, WaitsBounded
<1>4. QED
  BY <1>1, <1>2, <1>3, PTL DEF HumanSpec

(* An execution of a human node that ended has no callback at the response manager    *)
(* and is not counted as waiting.                                                      *)
THEOREM NothingLeaks == ASSUME FiniteNode PROVE HumanSpec => []NothingLeftBehind
<1>1. HumanInit => Counted
  BY InitCounted
<1>2. Counted /\ [HumanNext]_humanVars => Counted'
  BY StepCounted
<1>3. Counted => NothingLeftBehind
  BY DEF Counted, IInv, NothingLeftBehind
<1>4. QED
  BY <1>1, <1>2, <1>3, PTL DEF HumanSpec
=============================================================================

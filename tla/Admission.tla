----------------------------- MODULE Admission -----------------------------
(* Admission of jobs by one scheduler: submissions, the bounded queue, the run loop, *)
(* the leader's reconcile loop, retention clean-up, look-ups and restarts.  A job    *)
(* has one task.  Its object in memory is the submitted one or one rebuilt from the  *)
(* transition log; what happens to the task once it is claimed is left to Dispatch.  *)
EXTENDS Lifecycle, Sequences, FiniteSets

CONSTANTS Jobs, Cap,                      \* Cap: capacity of jobQueue
          MaxTroubles, MaxReconciles  \* bounds on faults, restarts and lost leaderships, and on reconciles

VARIABLES
  subs,     \* job -> "new", "refused", "reserved", "created", "queued", "enqueue", "accepted" or "lost"
  log,      \* job -> its durable job records, in order
  row,      \* job -> durable_jobs.current_state
  task,     \* job -> durable state of its task
  obj,      \* job -> object -> [state, task]: lifecycle state, task state ("none": no task known)
  cur,      \* job -> the object in Scheduler.jobs: "absent", "orig" or "hyd"
  queue,    \* jobQueue: [job, obj]
  inq,      \* queuedJobs
  pend,     \* pendingEnqueue
  run,      \* run loop: [pc, job, obj, ok, image, last]
  seen,     \* jobSequences: job -> the last record number taken from a replay
  rec,      \* reconcile: [pc, job, row, state, task, last]
  leader, troubles, recs,
  crowded,  \* ghost: submissions under way when another path used the queue
  deferred  \* ghost: accepted submissions that were not enqueued

vars == <<subs, log, row, task, obj, cur, queue, inq, pend, run, seen, rec, leader, troubles, recs, crowded, deferred>>

Fresh == [state |-> "", task |-> ""]
IdleRun == [pc |-> "idle", job |-> "none", obj |-> "orig", ok |-> TRUE, image |-> Fresh, last |-> 0]
IdleRec == [pc |-> "idle", job |-> "none", row |-> "none", state |-> "", task |-> "", last |-> 0]
(* NewScheduler *)
Init ==
  /\ subs = [j \in Jobs |-> "new"] /\ log = [j \in Jobs |-> << >>] /\ row = [j \in Jobs |-> "none"]
  /\ task = [j \in Jobs |-> ""] /\ obj = [j \in Jobs |-> [o \in {"orig", "hyd"} |-> Fresh]]
  /\ cur = [j \in Jobs |-> "absent"] /\ queue = << >> /\ inq = {} /\ pend = 0
  /\ run = IdleRun /\ seen = [j \in Jobs |-> 0] /\ rec = IdleRec /\ leader = TRUE
  /\ troubles = 0 /\ recs = 0 /\ crowded = {} /\ deferred = {}
-----------------------------------------------------------------------------
(* Replay of a job's records. *)
Replayable(j) == \A i \in 1..(Len(log[j]) - 1) : CanTransitionJobState(log[j][i], log[j][i + 1])
Replayed(j) == IF log[j] = << >> THEN "" ELSE log[j][Len(log[j])]
Known(j) == log[j] # << >> \/ task[j] # ""
TaskRecords(t) == CASE t = "" -> 0 [] t = "PENDING" -> 1 [] t = "DISPATCHED" -> 2 [] OTHER -> 3
LastSequenceID(j) == Len(log[j]) + TaskRecords(task[j])
(* seedJobSequenceLocked *)
Seed(j, n) == seen' = [seen EXCEPT ![j] = IF n > @ THEN n ELSE @]
(* buildRecoveredRuntimeJob: the tasks are those the log has. *)
Recovered(j) == [state |-> Replayed(j), task |-> IF task[j] = "" THEN "none" ELSE task[j]]

(* The durable rows, written in the transaction of the record they go with. *)
UpsertJob(j, state, ok) == row' = IF ok THEN [row EXCEPT ![j] = state] ELSE row
UpsertTask(j, state, ok) == task' = IF ok THEN [task EXCEPT ![j] = state] ELSE task
(* ListUnfinishedJobs goes by the rows. *)
ListUnfinishedJobs == {j \in Jobs : row[j] # "none" /\ ~IsTerminalJobState(row[j])}

(* recordJobTransition on an object: what it may not do is skipped, what the store   *)
(* refuses is logged; otherwise record, row and object change together.              *)
Legal(o, to) == IF o.state = "" THEN to = "SUBMITTED" ELSE CanTransitionJobState(o.state, to)
(* Mutant: record and row are not written in one transaction. *)
Write_RowAlone(j, x, to, ok) ==
  LET legal == Legal(obj[j][x], to)
  IN /\ log' = IF legal /\ ok THEN [log EXCEPT ![j] = Append(@, to)] ELSE log
     /\ UpsertJob(j, to, legal)
     /\ obj' = IF legal /\ ok THEN [obj EXCEPT ![j][x].state = to] ELSE obj
Write(j, x, to, ok) ==
  LET done == Legal(obj[j][x], to) /\ ok
  IN /\ log' = IF done THEN [log EXCEPT ![j] = Append(@, to)] ELSE log
     /\ UpsertJob(j, to, done)
     /\ obj' = IF done THEN [obj EXCEPT ![j][x].state = to] ELSE obj
Fault(ok) == ok \/ troubles < MaxTroubles
Count(ok) == troubles' = IF ok THEN troubles ELSE troubles + 1

MayEnqueue(j, q) == j \notin q /\ Len(queue) < Cap
(* enqueueJobLocked by a path that is not a submission. *)
Enqueued(j, x, q) ==
  IF MayEnqueue(j, q)
  THEN /\ queue' = Append(queue, [job |-> j, obj |-> x]) /\ inq' = q \cup {j}
       /\ crowded' = crowded \cup {k \in Jobs : subs[k] \in {"reserved", "created", "queued", "enqueue"}}
  ELSE queue' = queue /\ inq' = q /\ UNCHANGED crowded
-----------------------------------------------------------------------------
(* Mutant: capacity held by submissions under way is not counted. *)
HasRoom_QueueOnly == Len(queue) < Cap
HasRoom == Len(queue) + pend < Cap
(* SubmitJobWithContext: a place in the queue is reserved, ... *)
SubmitJob(j) ==
  /\ subs[j] = "new" /\ cur[j] = "absent"
  /\ IF HasRoom
     THEN /\ pend' = pend + 1 /\ cur' = [cur EXCEPT ![j] = "orig"] /\ subs' = [subs EXCEPT ![j] = "reserved"]
     ELSE subs' = [subs EXCEPT ![j] = "refused"] /\ UNCHANGED <<pend, cur>>
  /\ UNCHANGED <<log, row, task, obj, queue, inq, run, rec, leader, troubles, recs, crowded, deferred, seen>>
(* ... without the lock JOB_SUBMITTED, TASK_CREATED (with a snapshot of the job for  *)
(* its row) and JOB_QUEUED are recorded, ...                                          *)
recordInitialTransitions(j, ok) ==
  /\ Fault(ok) /\ Count(ok)
  /\ \/ /\ subs[j] = "reserved" /\ subs' = [subs EXCEPT ![j] = "created"]
        /\ Write(j, "orig", "SUBMITTED", ok) /\ UNCHANGED task
     \/ /\ subs[j] = "created" /\ subs' = [subs EXCEPT ![j] = "queued"] /\ UNCHANGED log
        /\ UpsertTask(j, "PENDING", ok)
        /\ UpsertJob(j, obj[j][IF cur[j] = "absent" THEN "orig" ELSE cur[j]].state, ok /\ cur[j] # "absent")
        /\ obj' = IF ok THEN [obj EXCEPT ![j].orig.task = "PENDING"] ELSE obj
     \/ /\ subs[j] = "queued" /\ subs' = [subs EXCEPT ![j] = "enqueue"]
        /\ Write(j, "orig", "QUEUED", ok) /\ UNCHANGED task
  /\ UNCHANGED <<cur, queue, inq, pend, run, rec, leader, recs, crowded, deferred, seen>>
(* ... and the reservation is turned into an entry. *)
EnqueueSubmitted(j) ==
  /\ subs[j] = "enqueue" /\ subs' = [subs EXCEPT ![j] = "accepted"]
  /\ pend' = pend - 1
  /\ IF MayEnqueue(j, inq)
     THEN /\ queue' = Append(queue, [job |-> j, obj |-> "orig"]) /\ inq' = inq \cup {j} /\ UNCHANGED deferred
     ELSE deferred' = deferred \cup {j} /\ UNCHANGED <<queue, inq>>
  /\ UNCHANGED <<log, row, task, obj, cur, run, rec, leader, troubles, recs, crowded, seen>>
-----------------------------------------------------------------------------
(* The object a pointer stands for: the one in Scheduler.jobs if there is one. *)
Current(j, x) == IF cur[j] = "absent" THEN x ELSE cur[j]
isExecutableDequeuedJob(o) == o.state \in {"SUBMITTED", "QUEUED"}

(* run: a job that is not executable is dropped, ... *)
Dequeue ==
  /\ run.pc = "idle" /\ queue # << >>
  /\ LET e == Head(queue)
     IN /\ queue' = Tail(queue) /\ inq' = inq \ {e.job}
        /\ run' = IF isExecutableDequeuedJob(obj[e.job][Current(e.job, e.obj)])
                  THEN [IdleRun EXCEPT !.pc = "authority", !.job = e.job, !.obj = e.obj] ELSE IdleRun
  /\ UNCHANGED <<subs, log, row, task, obj, cur, pend, rec, leader, troubles, recs, crowded, deferred, seen>>
(* ... and without dispatch authority it is requeued, if there is still room. *)
CheckAuthority ==
  /\ run.pc = "authority"
  /\ IF leader THEN run' = [run EXCEPT !.pc = "refresh"] /\ UNCHANGED <<queue, inq, crowded>>
     ELSE run' = IdleRun /\ Enqueued(run.job, run.obj, inq)
  /\ UNCHANGED <<subs, log, row, task, obj, cur, pend, rec, leader, troubles, recs, deferred, seen>>

(* refreshJobFromDurableState replays the log without the lock, ... *)
RefreshReplay(ok) ==
  /\ run.pc = "refresh" /\ Fault(ok) /\ Count(ok)
  /\ LET fresh == ok /\ Replayable(run.job) /\ Known(run.job)
     IN run' = [run EXCEPT !.pc = "install", !.ok = fresh, !.last = IF fresh THEN LastSequenceID(run.job) ELSE 0,
                           !.image = IF fresh THEN Recovered(run.job) ELSE Fresh]
  /\ UNCHANGED <<subs, log, row, task, obj, cur, queue, inq, pend, rec, leader, recs, crowded, deferred, seen>>
(* ... and replaces the object by one rebuilt from what it read. *)
refreshJobFromDurableState ==
  /\ run.pc = "install"
  /\ LET j == run.job
         x == IF run.ok THEN "hyd" ELSE Current(j, run.obj)
     IN /\ obj' = IF run.ok THEN [obj EXCEPT ![j].hyd = run.image] ELSE obj
        /\ cur' = IF run.ok THEN [cur EXCEPT ![j] = "hyd"] ELSE cur
        /\ Seed(j, run.last)
        /\ run' = IF isExecutableDequeuedJob(obj'[j][x])
                  THEN [IdleRun EXCEPT !.pc = "queued", !.job = j, !.obj = x] ELSE IdleRun
  /\ UNCHANGED <<subs, log, row, task, queue, inq, pend, rec, leader, troubles, recs, crowded, deferred>>

(* executeJob: JOB_QUEUED if it is still missing, JOB_RUNNING at once for a job       *)
(* without tasks and with the first claim for one that has them, then the outcome.   *)
executeJob(ok) ==
  /\ run.pc = "queued" /\ Fault(ok) /\ Count(ok)
  /\ LET j == run.job
         x == Current(j, run.obj)
     IN /\ cur' = [cur EXCEPT ![j] = x]
        /\ run' = [run EXCEPT !.obj = x, !.pc = IF obj[j][x].task = "none" THEN "empty" ELSE "task"]
        /\ IF obj[j][x].state = "SUBMITTED" THEN Write(j, x, "QUEUED", ok)
           ELSE ok /\ UNCHANGED <<log, row, obj>>
  /\ UNCHANGED <<subs, task, queue, inq, pend, rec, leader, recs, crowded, deferred, seen>>
RunWithoutTasks(ok) ==
  /\ run.pc = "empty" /\ Fault(ok) /\ Count(ok)
  /\ Write(run.job, run.obj, "RUNNING", ok) /\ run' = [run EXCEPT !.pc = "finish"]
  /\ UNCHANGED <<subs, task, cur, queue, inq, pend, rec, leader, recs, crowded, deferred, seen>>
(* The claim moves a durable pending task once; a claim that is refused fails the job. *)
ClaimTask(ok) ==
  /\ run.pc = "task" /\ Fault(ok) /\ Count(ok)
  /\ LET claimed == ok /\ task[run.job] = "PENDING"
     IN /\ UpsertTask(run.job, "DISPATCHED", claimed)
        /\ run' = [run EXCEPT !.pc = IF claimed THEN "outcome" ELSE "finish", !.ok = claimed]
        /\ IF claimed THEN Write(run.job, run.obj, "RUNNING", TRUE) ELSE UNCHANGED <<log, row, obj>>
  /\ UNCHANGED <<subs, cur, queue, inq, pend, rec, leader, recs, crowded, deferred, seen>>
TaskOutcome(good) ==
  /\ run.pc = "outcome"
  /\ UpsertTask(run.job, IF good THEN "SUCCEEDED" ELSE "FAILED", TRUE)
  /\ obj' = [obj EXCEPT ![run.job][run.obj].task = task'[run.job]]
  /\ run' = [run EXCEPT !.pc = "finish", !.ok = good]
  /\ UNCHANGED <<subs, log, row, cur, queue, inq, pend, rec, leader, troubles, recs, crowded, deferred, seen>>
FinishJob(ok) ==
  /\ run.pc = "finish" /\ Fault(ok) /\ Count(ok)
  /\ Write(run.job, run.obj, IF run.ok THEN "SUCCEEDED" ELSE "FAILED", ok) /\ run' = IdleRun
  /\ UNCHANGED <<subs, task, cur, queue, inq, pend, rec, leader, recs, crowded, deferred, seen>>
-----------------------------------------------------------------------------
isSafeForQueuedResume(o) == o.task \in {"none", "", "PENDING"}

(* The leader's reconcile of one unfinished job.  A queued job in memory is enqueued; *)
tryEnqueueExistingQueuedJob(j) ==
  /\ cur[j] # "absent" /\ obj[j][cur[j]].state = "QUEUED" /\ isSafeForQueuedResume(obj[j][cur[j]])
  /\ (j \in inq \/ MayEnqueue(j, inq))
(* otherwise its log is replayed without the lock, and one that is malformed or could *)
(* not be read fails the job.                                                         *)
ReconcileReplay(j, ok) ==
  /\ leader /\ rec.pc = "idle" /\ j \in ListUnfinishedJobs /\ recs < MaxReconciles /\ recs' = recs + 1
  /\ Fault(ok) /\ Count(ok)
  /\ IF tryEnqueueExistingQueuedJob(j)
     THEN ok /\ Enqueued(j, cur[j], inq) /\ UNCHANGED rec
     ELSE /\ rec' = [pc |-> IF ok /\ Replayable(j) THEN "apply" ELSE "fail", job |-> j, row |-> row[j],
                     state |-> Replayed(j), task |-> Recovered(j).task, last |-> LastSequenceID(j)]
          /\ UNCHANGED <<queue, inq, crowded>>
  /\ UNCHANGED <<subs, log, row, task, obj, cur, pend, run, leader, deferred, seen>>
Orphan == rec.state = "RUNNING" /\ rec.task \in {"none", "PENDING"}
(* failDurableQueuedJobForReconcile: JOB_FAILED, or only the row when FAILED may not   *)
(* follow the state of the object ("SUBMITTED-only orphaned jobs").                   *)
ReconcileFail(ok) ==
  /\ (rec.pc = "fail" \/ (rec.pc = "apply" /\ Orphan)) /\ Fault(ok) /\ Count(ok)
  /\ rec' = IdleRec
  /\ LET j == rec.job
         x == IF cur[j] = "absent" THEN "hyd" ELSE cur[j]
         o == IF cur[j] = "absent" THEN [state |-> rec.row, task |-> "none"] ELSE obj[j][x]
         legal == o.state # "" /\ CanTransitionJobState(o.state, "FAILED")
     IN IF ~leader \/ IsTerminalJobState(o.state) THEN UNCHANGED <<log, row, obj, cur>>
        ELSE /\ cur' = [cur EXCEPT ![j] = x]
             /\ log' = IF legal /\ ok THEN [log EXCEPT ![j] = Append(@, "FAILED")] ELSE log
             /\ UpsertJob(j, "FAILED", ok)
             /\ obj' = [obj EXCEPT ![j][x] = IF ok \/ ~legal THEN [o EXCEPT !.state = "FAILED"] ELSE o]
  /\ UNCHANGED <<subs, task, queue, inq, pend, run, leader, recs, crowded, deferred, seen>>
(* The replay is applied under the lock: a missing object is rebuilt, a known one      *)
(* brought up to the replayed state, JOB_QUEUED added after JOB_SUBMITTED, a queued   *)
(* job enqueued.                                                                       *)
ReconcileApply(ok) ==
  /\ rec.pc = "apply" /\ ~Orphan /\ rec' = IdleRec /\ Fault(ok)
  /\ LET j == rec.job
         x == IF cur[j] = "absent" THEN "hyd" ELSE cur[j]
         o == IF cur[j] = "absent" THEN [state |-> rec.state, task |-> rec.task]
              ELSE IF rec.last > seen[j] THEN [obj[j][x] EXCEPT !.state = rec.state] ELSE obj[j][x]
         final == IF rec.task = "SUCCEEDED" THEN "SUCCEEDED" ELSE "FAILED"
         to == IF o.state = "RUNNING" /\ rec.task \in {"SUCCEEDED", "FAILED"} THEN final
               ELSE IF o.state = "SUBMITTED" THEN "QUEUED" ELSE ""
         after == IF to # "" /\ ok THEN [o EXCEPT !.state = to] ELSE o
     IN /\ cur' = [cur EXCEPT ![j] = x] /\ obj' = [obj EXCEPT ![j][x] = after] /\ Seed(j, rec.last)
        /\ (to = "" => ok) /\ Count(ok)
        /\ log' = IF to # "" /\ ok THEN [log EXCEPT ![j] = Append(@, to)] ELSE log
        /\ UpsertJob(j, to, to # "" /\ ok)
        /\ IF after.state = "QUEUED" /\ isSafeForQueuedResume(after) THEN Enqueued(j, x, inq)
           ELSE UNCHANGED <<queue, inq, crowded>>
  /\ UNCHANGED <<subs, task, pend, run, leader, recs, deferred>>
-----------------------------------------------------------------------------
cleanupTerminalJobsOnce(j) ==
  /\ cur[j] # "absent" /\ IsTerminalJobState(obj[j][cur[j]].state)
  /\ cur' = [cur EXCEPT ![j] = "absent"] /\ inq' = inq \ {j} /\ seen' = [seen EXCEPT ![j] = 0]
  /\ UNCHANGED <<subs, log, row, task, obj, queue, pend, run, rec, leader, troubles, recs, crowded, deferred>>

(* GetJob of a job that is not in memory rebuilds it from the log. *)
GetJob(j) ==
  /\ cur[j] = "absent" /\ Known(j) /\ Replayable(j)
  /\ obj' = [obj EXCEPT ![j].hyd = Recovered(j)] /\ cur' = [cur EXCEPT ![j] = "hyd"] /\ Seed(j, LastSequenceID(j))
  /\ UNCHANGED <<subs, log, row, task, queue, inq, pend, run, rec, leader, troubles, recs, crowded, deferred>>

LoseLeadership ==
  /\ troubles < MaxTroubles /\ troubles' = troubles + 1 /\ leader' = FALSE
  /\ UNCHANGED <<subs, log, row, task, obj, cur, queue, inq, pend, run, rec, recs, crowded, deferred, seen>>

RegainLeadership ==
  /\ ~leader /\ leader' = TRUE
  /\ UNCHANGED <<subs, log, row, task, obj, cur, queue, inq, pend, run, rec, troubles, recs, crowded, deferred, seen>>

(* ReplayStateFromStore: every unfinished job, or none if one log is malformed. *)
ReplayStateFromStore ==
  LET unfinished == ListUnfinishedJobs
  IN IF \A j \in unfinished : Replayable(j) THEN unfinished ELSE {}
(* resumeRecoveredQueuedJobsLocked: the queued ones are enqueued while there is room. *)
resumeRecoveredQueuedJobsLocked(back) ==
  LET safe == {j \in back : Replayed(j) = "QUEUED" /\ isSafeForQueuedResume(Recovered(j))}
  IN \E s \in SUBSET safe :
       /\ Cardinality(s) <= Cap /\ (s = safe \/ Cardinality(s) = Cap)
       /\ inq' = s
       /\ queue' \in [1..Cardinality(s) -> [job : s, obj : {"hyd"}]]
       /\ {queue'[i].job : i \in 1..Len(queue')} = s
(* RecoverFromTransitions rebuilds what was replayed. *)
RecoverFromTransitions ==
  LET back == ReplayStateFromStore
  IN /\ cur' = [j \in Jobs |-> IF j \in back THEN "hyd" ELSE "absent"]
     /\ obj' = [j \in Jobs |-> [orig |-> Fresh, hyd |-> IF j \in back THEN Recovered(j) ELSE Fresh]]
     /\ seen' = [j \in Jobs |-> IF j \in back THEN LastSequenceID(j) ELSE 0]
     /\ resumeRecoveredQueuedJobsLocked(back)
(* Stop, or a crash, and Start. *)
Restart ==
  /\ troubles < MaxTroubles /\ troubles' = troubles + 1
  /\ subs' = [j \in Jobs |-> IF subs[j] \in {"new", "refused", "accepted"} THEN subs[j] ELSE "lost"]
  /\ pend' = 0 /\ run' = IdleRun /\ rec' = IdleRec /\ RecoverFromTransitions
  /\ UNCHANGED <<log, row, task, leader, recs, crowded, deferred>>

Next ==
  \/ \E j \in Jobs : SubmitJob(j) \/ EnqueueSubmitted(j) \/ cleanupTerminalJobsOnce(j) \/ GetJob(j)
  \/ \E ok \in BOOLEAN :
       \/ \E j \in Jobs : recordInitialTransitions(j, ok) \/ ReconcileReplay(j, ok)
       \/ RefreshReplay(ok) \/ executeJob(ok) \/ RunWithoutTasks(ok) \/ ClaimTask(ok)
       \/ TaskOutcome(ok) \/ FinishJob(ok) \/ ReconcileFail(ok) \/ ReconcileApply(ok)
  \/ Dequeue \/ CheckAuthority \/ refreshJobFromDurableState \/ LoseLeadership \/ RegainLeadership \/ Restart
Spec == Init /\ [][Next]_vars

TypeOK ==
  /\ Len(queue) <= Cap /\ inq \subseteq Jobs /\ pend \in 0..Cardinality(Jobs)
  /\ \A j \in Jobs : cur[j] \in {"absent", "orig", "hyd"} /\ row[j] \in JobLifecycleState \cup {"none", ""}

(* The capacity reserved before the lock is released is kept: an accepted submission  *)
(* fails to enter the queue only if another path put a job there meanwhile, or put    *)
(* this very job there.                                                               *)
ReservationKept == \A j \in deferred : j \in crowded

(* A job the log says is unfinished is one ListUnfinishedJobs returns, so that         *)
(* reconcile and recovery find it again.  Only one whose log has nothing after          *)
(* JOB_SUBMITTED may be hidden: reconcile, unable to read its log, forced its row.      *)
FoundAgain ==
  \A j \in Jobs : log[j] # << >> /\ Replayable(j) /\ ~IsTerminalJobState(Replayed(j)) =>
     j \in ListUnfinishedJobs \/ (Replayed(j) = "SUBMITTED" /\ row[j] = "FAILED")

(* SUCCEEDED means that "all required tasks completed successfully"                   *)
(* (docs/STATE_MACHINE.md:101): a job whose last record is SUCCEEDED ran its task.    *)
SucceededRanTasks == \A j \in Jobs : Replayed(j) = "SUCCEEDED" => task[j] = "SUCCEEDED"
=============================================================================

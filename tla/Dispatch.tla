------------------------------ MODULE Dispatch ------------------------------
(***************************************************************************)
(* Dispatch of one admitted job by a set of scheduler processes that share *)
(* a durable transition store, a leader election and a pool of workers.    *)
(*                                                                         *)
(* Every scheduler runs three kinds of threads: the run loop (executes the *)
(* job stage by stage), one goroutine per started task, and the reconcile  *)
(* loop.  A task write takes two steps, as in the code: the sequence       *)
(* number and the job snapshot are taken first, the transaction follows,   *)
(* and other threads and other schedulers may act in between.  A job write *)
(* is one step: Job.mu is held from its legality check to its commit.      *)
(***************************************************************************)
EXTENDS Lifecycle, Integers, Sequences, FiniteSets

CONSTANTS
  Schedulers,          \* scheduler processes
  NumTasks,            \* tasks of the job are 1..NumTasks
  StageOf,             \* the stage of each task
  NumStages,
  MaxDispatchAttempts, \* SchedulerConfig.MaxDispatchAttempts
  MaxEpoch,            \* bound: leaderships granted
  MaxCrashes,          \* bound: process crashes
  MaxFaults,           \* bound: failed store transactions
  MaxResumes,          \* bound: human callbacks
  MaxReplays           \* bound: replays by reconcile loops; 0 for no bound

Tasks == 1..NumTasks

ASSUME DispatchAssumption ==
  /\ NumTasks \in Nat \ {0}
  /\ NumStages \in Nat \ {0}
  /\ StageOf \in [Tasks -> 1..NumStages]
  /\ MaxDispatchAttempts \in Nat \ {0}
  /\ MaxEpoch \in Nat /\ MaxCrashes \in Nat
  /\ MaxFaults \in Nat /\ MaxResumes \in Nat /\ MaxReplays \in Nat

VARIABLES
  log,      \* job_transitions: the set of committed TransitionRecords
  order,    \* job_sequences: ids allocated so far, counted per entity
  jobRow,   \* durable_jobs.current_state
  taskRow,  \* durable_tasks: current_state and last_attempt
  reign,    \* leader of every epoch so far; its length is the epoch
  held,     \* the leader key exists in etcd
  net,      \* ExecuteOnNode requests on their way to a worker
  execs,    \* executions accepted by workers
  up,       \* the process is running
  mem,      \* Scheduler.jobs[id]: lifecycle states in memory
  grown,    \* durable_jobs.last_sequence_id is past Scheduler.jobSequences[id]
  queued,   \* the job is in Scheduler.jobQueue (and in queuedJobs)
  run,      \* run loop
  gor,      \* task goroutines
  recon,    \* reconcile loop
  faults, crashes, resumes, replays

rows   == <<log, jobRow, taskRow>>
store  == <<order, rows>>
leader == <<reign, held>>
worker == <<net, execs>>
local  == <<up, mem, grown, queued>>
bounds == <<faults, crashes, resumes, replays>>
vars   == <<store, leader, worker, local, run, gor, recon, bounds>>

Absent == "ABSENT"   \* no entry in Scheduler.jobs

NoJob == [job |-> Absent, task |-> [t \in Tasks |-> ""]]

IdleRun == [pc |-> "idle", stage |-> 0, sel |-> TRUE]

NoWrite == [state |-> "", seq |-> 0, snap |-> ""]

OffGor == [pc |-> "off", att |-> 0, tok |-> 0, res |-> "", w |-> NoWrite]

NoReplay == [job |-> "", task |-> [t \in Tasks |-> ""], outcome |-> "", newer |-> FALSE]

IdleRecon == [pc |-> "idle", leader |-> FALSE, rp |-> NoReplay, want |-> ""]

(* The log SubmitJob leaves behind: JOB_SUBMITTED, TASK_CREATED, JOB_QUEUED. *)
SubmittedLog(s) ==
  {[seq |-> 1, ent |-> JobEnt, state |-> "SUBMITTED", att |-> 0, by |-> s],
   [seq |-> 2, ent |-> JobEnt, state |-> "QUEUED", att |-> 0, by |-> s]}
  \cup {[seq |-> 1, ent |-> t, state |-> "PENDING", att |-> 0, by |-> s] : t \in Tasks}

Init ==
  \E s0 \in Schedulers :
    /\ log = SubmittedLog(s0)
    /\ order = [e \in 0..NumTasks |-> IF e = JobEnt THEN 2 ELSE 1]
    /\ jobRow = "QUEUED"
    /\ taskRow = [t \in Tasks |-> [state |-> "PENDING", att |-> 0]]
    /\ reign = <<>> /\ held = FALSE
    /\ net = {} /\ execs = {}
    /\ up = [s \in Schedulers |-> TRUE]
    /\ mem = [s \in Schedulers |->
                IF s = s0 THEN [job |-> "QUEUED", task |-> [t \in Tasks |-> "PENDING"]]
                          ELSE NoJob]
    /\ grown = [s \in Schedulers |-> TRUE]
    /\ queued = [s \in Schedulers |-> s = s0]
    /\ run = [s \in Schedulers |-> IdleRun]
    /\ gor = [s \in Schedulers |-> [t \in Tasks |-> OffGor]]
    /\ recon = [s \in Schedulers |-> IdleRecon]
    /\ faults = 0 /\ crashes = 0 /\ resumes = 0 /\ replays = 0
-----------------------------------------------------------------------------
(* Leadership.  DispatchAuthority answers IsLeader only to the holder of    *)
(* the leader key; an error or a lagging elector may deny it to the holder. *)

epoch == Len(reign)

IsLeader(s) == held /\ epoch > 0 /\ reign[epoch] = s

Elect(s) ==
  /\ up[s] /\ ~held /\ epoch < MaxEpoch
  /\ reign' = Append(reign, s)
  /\ held' = TRUE
  /\ UNCHANGED <<store, worker, local, run, gor, recon, bounds>>

LoseLease ==
  /\ held
  /\ held' = FALSE
  /\ UNCHANGED <<reign, store, worker, local, run, gor, recon, bounds>>
-----------------------------------------------------------------------------
(* Durable writes.  Sequence ids are allocated outside the transaction.  A   *)
(* record keeps the rank of its id among those of its entity, which is all   *)
(* that replay uses of it.  A transaction that fails changes neither the     *)
(* store nor the state in memory, and its error is only logged.              *)

NextSequenceID(e) == order' = [order EXCEPT ![e] = @ + 1]

AppendTransition(s, e, att, w) ==
  /\ log' = log \cup {[seq |-> w.seq, ent |-> e, state |-> w.state, att |-> att, by |-> s]}
  /\ grown' = [x \in Schedulers |-> TRUE]

PersistFails ==
  /\ faults < MaxFaults
  /\ faults' = faults + 1
  /\ UNCHANGED <<rows, mem, grown>>

(* A write of state to for entity e, with durableJobSnapshot. *)
Write(s, e, to) ==
  [state |-> to, seq |-> order[e] + 1, snap |-> mem[s].job]

(* Mutant: the legality of the move is not checked. *)
recordJobTransition_Unchecked(s, to) ==
  /\ NextSequenceID(JobEnt)
  /\ AppendTransition(s, JobEnt, 0, Write(s, JobEnt, to))
  /\ jobRow' = to
  /\ mem' = [mem EXCEPT ![s].job = to]
  /\ UNCHANGED <<taskRow, faults>>

(* recordJobTransition: append and UpsertJob; an illegal move is skipped. *)
recordJobTransition(s, to) ==
  \/ /\ CanTransitionJobState(mem[s].job, to)
     /\ NextSequenceID(JobEnt)
     /\ \/ /\ AppendTransition(s, JobEnt, 0, Write(s, JobEnt, to))
           /\ jobRow' = to
           /\ mem' = [mem EXCEPT ![s].job = to]
           /\ UNCHANGED <<taskRow, faults>>
        \/ PersistFails
  \/ /\ ~CanTransitionJobState(mem[s].job, to)
     /\ UNCHANGED <<store, mem, grown, faults>>

(* The transaction of a task write: append, UpsertTask, UpsertJob(snapshot). *)
PersistTask(s, t, w) ==
  /\ AppendTransition(s, t, gor[s][t].att, w)
  /\ taskRow' = [taskRow EXCEPT ![t] = [state |-> w.state, att |-> gor[s][t].att]]
  /\ jobRow' = w.snap
  /\ mem' = [mem EXCEPT ![s].task[t] = w.state]
  /\ UNCHANGED faults

(* Mutant: an attempt may be claimed again. *)
ClaimTaskDispatch_SameAttempt(t, att) ==
  /\ taskRow[t].att <= att
  /\ taskRow[t].state \notin {"RUNNING", "SUCCEEDED"}

ClaimTaskDispatch(t, att) ==
  /\ taskRow[t].att < att
  /\ taskRow[t].state \notin {"RUNNING", "SUCCEEDED"}
-----------------------------------------------------------------------------
(* The run loop. *)

Executable(m) == m.job \in {"SUBMITTED", "QUEUED"}

ReplayedTasks == [t \in Tasks |-> ReplayedState(log, t)]

(* ReplayJobState and buildRecoveredRuntimeJob. *)
RecoveredJob == [job |-> ReplayedState(log, JobEnt), task |-> ReplayedTasks]

(* seedJobSequenceLocked: the scheduler has caught up with the log, and a  *)
(* replay the reconcile loop made earlier is no longer news.               *)
Seeded(s) ==
  /\ grown' = [grown EXCEPT ![s] = FALSE]
  /\ recon' = [recon EXCEPT ![s].rp.newer = FALSE]

KnownTasks(m) == {t \in Tasks : m.task[t] # ""}

StageTasks(m, k) == {t \in KnownTasks(m) : StageOf[t] = k}

(* executeStage up to wg.Wait: node selection may stop before every task    *)
(* has been started.                                                        *)
executeStage(s, m, k) ==
  \E started \in SUBSET StageTasks(m, k) :
    /\ run' = [run EXCEPT ![s] = [pc |-> "wait", stage |-> k, sel |-> started = StageTasks(m, k)]]
    /\ gor' = [gor EXCEPT ![s] = [t \in Tasks |->
                 IF t \in started THEN [OffGor EXCEPT !.pc = "claim", !.att = 1] ELSE OffGor]]

(* executeJob up to its first stage; a job without tasks has none. *)
executeJob(s, m) ==
  IF KnownTasks(m) = {}
  THEN run' = [run EXCEPT ![s] = [IdleRun EXCEPT !.pc = "noTasks"]] /\ UNCHANGED gor
  ELSE executeStage(s, m, 1)

(* A dequeued job is dropped when it is not executable; a scheduler that  *)
(* is not told it leads puts it back, which changes nothing.              *)
Dequeue(s) ==
  /\ up[s] /\ run[s].pc = "idle" /\ queued[s]
  /\ Executable(mem[s]) => IsLeader(s)
  /\ queued' = [queued EXCEPT ![s] = FALSE]
  /\ run' = [run EXCEPT ![s].pc = IF Executable(mem[s]) THEN "refresh" ELSE "idle"]
  /\ UNCHANGED <<store, leader, worker, up, mem, grown, gor, recon, bounds>>

(* refreshJobFromDurableState, the second check, and the start of executeJob. *)
Refresh(s) ==
  /\ run[s].pc = "refresh"
  /\ IF ReplayOK(log)
     THEN /\ mem' = [mem EXCEPT ![s] = RecoveredJob]
          /\ Seeded(s)
     ELSE UNCHANGED <<mem, grown, recon>>
  /\ IF Executable(mem'[s]) THEN executeJob(s, mem'[s])
     ELSE run' = [run EXCEPT ![s] = IdleRun] /\ UNCHANGED gor
  /\ UNCHANGED <<store, leader, worker, up, queued, bounds>>

RunWithoutTasks(s) ==
  /\ run[s].pc = "noTasks"
  /\ recordJobTransition(s, "RUNNING")
  /\ run' = [run EXCEPT ![s] = [IdleRun EXCEPT !.pc = "wait", !.stage = NumStages]]
  /\ UNCHANGED <<leader, worker, up, queued, gor, recon, crashes, resumes, replays>>

StageDone(s) == run[s].pc = "wait" /\ \A t \in Tasks : gor[s][t].pc \in {"off", "done"}

StageErrors(s) == {gor[s][t].res : t \in {u \in Tasks : gor[s][u].pc = "done"}} \ {"ok"}

(* Mutant: the errors the tasks reported are not looked at. *)
StageOutcomes_IgnoreErrors(s) ==
  IF ~run[s].sel THEN {"FAILED"} ELSE {}

(* The job states a failed stage may lead to: the first error reported decides. *)
StageOutcomes(s) ==
  IF ~run[s].sel THEN {"FAILED"}
  ELSE {IF e = "pause" THEN "AWAITING_HUMAN" ELSE "FAILED" : e \in StageErrors(s)}

NextStage(s) ==
  /\ StageDone(s)
  /\ StageOutcomes(s) = {} /\ run[s].stage < NumStages
  /\ executeStage(s, mem[s], run[s].stage + 1)
  /\ UNCHANGED <<store, leader, worker, local, recon, bounds>>

(* The transition executeJob ends with. *)
FinishJob(s) ==
  /\ StageDone(s)
  /\ \/ /\ StageOutcomes(s) = {} /\ run[s].stage = NumStages
        /\ recordJobTransition(s, "SUCCEEDED")
     \/ \E to \in StageOutcomes(s) : recordJobTransition(s, to)
  /\ run' = [run EXCEPT ![s] = IdleRun]
  /\ gor' = [gor EXCEPT ![s] = [t \in Tasks |-> OffGor]]
  /\ UNCHANGED <<leader, worker, up, queued, recon, crashes, resumes, replays>>

(* ResumeAwaitingHumanJob: a scheduler that does not know the job as paused   *)
(* looks at the log first; then the tasks are set back to PENDING in memory   *)
(* and the job is executed again from its first stage.                        *)
Rereads(s) == ~(mem[s].job = "AWAITING_HUMAN" \/ IsTerminalJobState(mem[s].job)) /\ ReplayOK(log)

ResumedJob(s) == IF Rereads(s) THEN RecoveredJob ELSE mem[s]

ResumeAwaitingHumanJob(s) ==
  /\ up[s] /\ run[s].pc = "idle" /\ resumes < MaxResumes
  /\ ResumedJob(s).job = "AWAITING_HUMAN"
  /\ IsLeader(s)
  /\ resumes' = resumes + 1
  /\ LET m == [ResumedJob(s) EXCEPT !.task =
                 [t \in Tasks |-> IF @[t] = "" THEN "" ELSE "PENDING"]]
     IN mem' = [mem EXCEPT ![s] = m] /\ executeJob(s, m)
  /\ IF Rereads(s) THEN Seeded(s) ELSE UNCHANGED <<grown, recon>>
  /\ UNCHANGED <<store, leader, worker, up, queued, faults, crashes, replays>>
-----------------------------------------------------------------------------
(* A task goroutine: executeTaskWithRetry around executeTask. *)

Goto(s, t, g) == gor' = [gor EXCEPT ![s][t] = g]

Done(res) == [OffGor EXCEPT !.pc = "done", !.res = res]

(* Mutant: one attempt too many. *)
RetryOrGiveUp_OffByOne(s, t) ==
  \/ /\ gor[s][t].att <= MaxDispatchAttempts
     /\ Goto(s, t, [OffGor EXCEPT !.pc = "claim", !.att = gor[s][t].att + 1])
  \/ Goto(s, t, Done("err"))

(* Another attempt on a newly selected node, when attempts and nodes are left. *)
RetryOrGiveUp(s, t) ==
  \/ /\ gor[s][t].att < MaxDispatchAttempts
     /\ Goto(s, t, [OffGor EXCEPT !.pc = "claim", !.att = gor[s][t].att + 1])
  \/ Goto(s, t, Done("err"))

(* claimTaskDispatchTransition up to the transaction. *)
BeginClaim(s, t) ==
  /\ gor[s][t].pc = "claim"
  /\ \/ /\ CanTransitionTaskState(mem[s].task[t], "DISPATCHED")
        /\ NextSequenceID(t)
        /\ Goto(s, t, [gor[s][t] EXCEPT !.pc = "claimW", !.w = Write(s, t, "DISPATCHED")])
     \/ /\ ~CanTransitionTaskState(mem[s].task[t], "DISPATCHED")
        /\ RetryOrGiveUp(s, t)
        /\ UNCHANGED order
  /\ UNCHANGED <<rows, leader, worker, local, run, recon, bounds>>

(* Mutant: a rejected claim is taken for a granted one. *)
EndClaim_IgnoreRejection(s, t) ==
  /\ gor[s][t].pc = "claimW"
  /\ \/ /\ ClaimTaskDispatch(t, gor[s][t].att)
        /\ PersistTask(s, t, gor[s][t].w)
        /\ Goto(s, t, [gor[s][t] EXCEPT !.pc = "first", !.w = NoWrite])
     \/ /\ ~ClaimTaskDispatch(t, gor[s][t].att)
        /\ mem' = [mem EXCEPT ![s].task[t] = "DISPATCHED"]
        /\ Goto(s, t, [gor[s][t] EXCEPT !.pc = "first", !.w = NoWrite])
        /\ UNCHANGED <<rows, grown, faults>>
  /\ UNCHANGED <<order, leader, worker, up, queued, run, recon, crashes, resumes, replays>>

EndClaim(s, t) ==
  /\ gor[s][t].pc = "claimW"
  /\ \/ /\ ClaimTaskDispatch(t, gor[s][t].att)
        /\ PersistTask(s, t, gor[s][t].w)
        /\ Goto(s, t, [gor[s][t] EXCEPT !.pc = "first", !.w = NoWrite])
     \/ /\ ~ClaimTaskDispatch(t, gor[s][t].att)
        /\ RetryOrGiveUp(s, t)
        /\ UNCHANGED <<rows, mem, grown, faults>>
     \/ /\ PersistFails
        /\ Goto(s, t, Done("err"))
  /\ UNCHANGED <<order, leader, worker, up, queued, run, recon, crashes, resumes, replays>>

(* recordJobRunningOnFirstDispatch: the state is read, then RUNNING recorded. *)
ReadJobState(s, t) ==
  /\ gor[s][t].pc = "first"
  /\ Goto(s, t, [gor[s][t] EXCEPT !.pc =
                   IF mem[s].job \in {"QUEUED", "AWAITING_HUMAN"} THEN "job" ELSE "run"])
  /\ UNCHANGED <<store, leader, worker, local, run, recon, bounds>>

RecordJobRunning(s, t) ==
  /\ gor[s][t].pc = "job"
  /\ recordJobTransition(s, "RUNNING")
  /\ Goto(s, t, [gor[s][t] EXCEPT !.pc = "run"])
  /\ UNCHANGED <<leader, worker, up, queued, run, recon, crashes, resumes, replays>>

(* executeTask records TASK_RUNNING, which a claim always makes legal. *)
BeginTaskRunning(s, t) ==
  /\ gor[s][t].pc = "run"
  /\ CanTransitionTaskState(mem[s].task[t], "RUNNING")
  /\ NextSequenceID(t)
  /\ Goto(s, t, [gor[s][t] EXCEPT !.pc = "runW", !.w = Write(s, t, "RUNNING")])
  /\ UNCHANGED <<rows, leader, worker, local, run, recon, bounds>>

(* Mutant: memory moves on although the transaction failed. *)
EndTaskRunning_MemoryFirst(s, t) ==
  /\ gor[s][t].pc = "runW"
  /\ \/ PersistTask(s, t, gor[s][t].w)
     \/ /\ faults < MaxFaults
        /\ faults' = faults + 1
        /\ mem' = [mem EXCEPT ![s].task[t] = "RUNNING"]
        /\ UNCHANGED <<rows, grown>>
  /\ Goto(s, t, [gor[s][t] EXCEPT !.pc = "auth", !.w = NoWrite])
  /\ UNCHANGED <<order, leader, worker, up, queued, run, recon, crashes, resumes, replays>>

EndTaskRunning(s, t) ==
  /\ gor[s][t].pc = "runW"
  /\ PersistTask(s, t, gor[s][t].w) \/ PersistFails
  /\ Goto(s, t, [gor[s][t] EXCEPT !.pc = "auth", !.w = NoWrite])
  /\ UNCHANGED <<order, leader, worker, up, queued, run, recon, crashes, resumes, replays>>

(* dispatchAuthority in executeTask: without it the task returns an error and *)
(* no transition is recorded.                                                 *)
Request(s, t, ep) == [task |-> t, att |-> gor[s][t].att, by |-> s, ep |-> ep]

CheckAuthority(s, t) ==
  /\ gor[s][t].pc = "auth"
  /\ \/ /\ IsLeader(s)
        /\ Goto(s, t, [gor[s][t] EXCEPT !.pc = "sent", !.tok = epoch])
        /\ net' = net \cup {Request(s, t, epoch)}
     \/ /\ Goto(s, t, Done("err"))
        /\ UNCHANGED net
  /\ UNCHANGED <<store, leader, execs, local, run, recon, bounds>>

(* Mutant: the worker does not compare epochs. *)
WorkerExecute_NoFence(m) ==
  /\ net' = net \ {m}
  /\ execs' = IF held THEN execs \cup {m} ELSE execs
  /\ UNCHANGED <<store, leader, local, run, gor, recon, bounds>>

(* The worker validates the request's authority against the leader key. *)
WorkerExecute(m) ==
  /\ net' = net \ {m}
  /\ execs' = IF held /\ m.ep = epoch THEN execs \cup {m} ELSE execs
  /\ UNCHANGED <<store, leader, local, run, gor, recon, bounds>>

(* After executeTask has recorded its outcome. *)
AfterTask(s, t, res) ==
  IF res = "capacity" THEN RetryOrGiveUp(s, t) ELSE Goto(s, t, Done(res))

(* recordTaskTransition of the outcome up to the transaction; an illegal move *)
(* is skipped.                                                                *)
BeginTaskOutcome(s, t, res) ==
  LET to == IF res = "ok" THEN "SUCCEEDED" ELSE "FAILED"
  IN \/ /\ CanTransitionTaskState(mem[s].task[t], to)
        /\ NextSequenceID(t)
        /\ Goto(s, t, [gor[s][t] EXCEPT !.pc = "finW", !.tok = 0, !.res = res, !.w = Write(s, t, to)])
     \/ /\ ~CanTransitionTaskState(mem[s].task[t], to)
        /\ AfterTask(s, t, res)
        /\ UNCHANGED order

(* Mutant: an error of the call is taken for an empty result. *)
ReturnFromNode_ErrorIsOk(s, t) ==
  /\ gor[s][t].pc = "sent"
  /\ \E res \in {"ok", "err"} : BeginTaskOutcome(s, t, res)
  /\ UNCHANGED <<rows, leader, worker, local, run, recon, bounds>>

(* ExecuteOnNode returns: a result of the execution, or an error at any time. *)
(* A policy violation is an error for which no transition is recorded.        *)
ReturnFromNode(s, t) ==
  /\ gor[s][t].pc = "sent"
  /\ \/ /\ Request(s, t, gor[s][t].tok) \in execs
        /\ \/ \E res \in {"ok", "pause"} : BeginTaskOutcome(s, t, res)
           \/ Goto(s, t, Done("err")) /\ UNCHANGED order
     \/ \E res \in {"err", "capacity"} : BeginTaskOutcome(s, t, res)
  /\ UNCHANGED <<rows, leader, worker, local, run, recon, bounds>>

EndTaskOutcome(s, t) ==
  /\ gor[s][t].pc = "finW"
  /\ PersistTask(s, t, gor[s][t].w) \/ PersistFails
  /\ AfterTask(s, t, gor[s][t].res)
  /\ UNCHANGED <<order, leader, worker, up, queued, run, recon, crashes, resumes, replays>>
-----------------------------------------------------------------------------
(* The reconcile loop. *)

isSafeForQueuedResume(m) == \A t \in Tasks : m.task[t] \in {"", "PENDING"}

Enqueueable(m) == m.job = "QUEUED" /\ isSafeForQueuedResume(m)

allReplayedTasksPending == \A t \in Tasks : ReplayedTasks[t] \in {"", "PENDING"}

InFlight == \E t \in Tasks : ReplayedTasks[t] \in {"DISPATCHED", "RUNNING"}

(* Mutant: a failed task decides nothing. *)
replayedTerminalJobState_SuccessOnly ==
  IF \A t \in Tasks : ReplayedTasks[t] = "SUCCEEDED" THEN "SUCCEEDED" ELSE ""

replayedTerminalJobState ==
  IF \E t \in Tasks : ReplayedTasks[t] \notin {"SUCCEEDED", "FAILED"} THEN ""
  ELSE IF \E t \in Tasks : ReplayedTasks[t] = "FAILED" THEN "FAILED"
  ELSE "SUCCEEDED"

(* What the loop keeps of a replay until it takes the scheduler's lock: the *)
(* job state, the outcome its tasks imply, and the tasks if the job is not  *)
(* in memory.                                                               *)
ReplaySummary(s) ==
  [job |-> ReplayedState(log, JobEnt), outcome |-> replayedTerminalJobState, newer |-> grown[s],
   task |-> IF mem[s].job = Absent THEN ReplayedTasks ELSE NoReplay.task]

(* A tick that finds the job unfinished: tryEnqueueExistingQueuedJob answers *)
(* from memory, otherwise the log is replayed.                               *)
TryEnqueueExistingQueuedJob(s) ==
  /\ up[s] /\ recon[s].pc = "idle" /\ ~IsTerminalJobState(jobRow)
  /\ IsLeader(s) /\ Enqueueable(mem[s]) /\ ~queued[s]
  /\ queued' = [queued EXCEPT ![s] = TRUE]
  /\ UNCHANGED <<store, leader, worker, up, mem, grown, run, gor, recon, bounds>>

ReconcileReplay(s) ==
  /\ up[s] /\ recon[s].pc = "idle" /\ ~IsTerminalJobState(jobRow)
  /\ IsLeader(s) => ~Enqueueable(mem[s])
  /\ ReplayOK(log)
  /\ MaxReplays > 0 => replays < MaxReplays
  /\ replays' = IF MaxReplays > 0 THEN replays + 1 ELSE replays
  /\ ~(IsLeader(s) /\ ReplayedState(log, JobEnt) = "RUNNING" /\ allReplayedTasksPending)
  /\ recon' = [recon EXCEPT ![s] =
                 [IdleRecon EXCEPT !.pc = "apply", !.leader = IsLeader(s), !.rp = ReplaySummary(s)]]
  /\ grown' = [grown EXCEPT ![s] = FALSE]
  /\ UNCHANGED <<store, leader, worker, up, mem, queued, run, gor, faults, crashes, resumes>>

(* The log does not replay, or shows a running job with no task started or    *)
(* with an in-flight task that is stale by the clock: the leader fails the    *)
(* job (failDurableQueuedJobForReconcile up to its transition).               *)
Unrecoverable ==
  \/ ~ReplayOK(log)
  \/ ReplayedState(log, JobEnt) = "RUNNING" /\ (allReplayedTasksPending \/ InFlight)

ReconcileFail(s) ==
  /\ up[s] /\ recon[s].pc = "idle" /\ ~IsTerminalJobState(jobRow)
  /\ IsLeader(s) /\ ~Enqueueable(mem[s])
  /\ Unrecoverable
  /\ mem' = [mem EXCEPT ![s] = IF @.job = Absent THEN [NoJob EXCEPT !.job = jobRow] ELSE @]
  /\ ~IsTerminalJobState(mem'[s].job)
  /\ recon' = [recon EXCEPT ![s] = [IdleRecon EXCEPT !.pc = "record", !.want = "FAILED"]]
  /\ UNCHANGED <<store, leader, worker, up, grown, queued, run, gor, bounds>>

(* The job as the replay leaves it: built when absent, its job state         *)
(* overwritten when the log has grown past the sequence last seeded.         *)
WarmJob(s) ==
  LET rp == recon[s].rp
  IN IF mem[s].job = Absent THEN [job |-> rp.job, task |-> rp.task]
     ELSE IF rp.newer THEN [mem[s] EXCEPT !.job = rp.job]
     ELSE mem[s]

ReconcileApply(s) ==
  /\ recon[s].pc = "apply"
  /\ LET rp == recon[s].rp
         m == WarmJob(s)
         synthesize == recon[s].leader /\ m.job = "RUNNING" /\ rp.outcome # ""
     IN /\ mem' = [mem EXCEPT ![s] = m]
        /\ queued' = [queued EXCEPT ![s] = @ \/ (recon[s].leader /\ Enqueueable(m))]
        /\ recon' = [recon EXCEPT ![s] =
                       IF synthesize
                       THEN [IdleRecon EXCEPT !.pc = "record", !.want = rp.outcome]
                       ELSE IdleRecon]
  /\ UNCHANGED <<store, leader, worker, up, grown, run, gor, bounds>>

ReconcileRecord(s) ==
  /\ recon[s].pc = "record"
  /\ recordJobTransition(s, recon[s].want)
  /\ recon' = [recon EXCEPT ![s] = IdleRecon]
  /\ UNCHANGED <<leader, worker, up, queued, run, gor, crashes, resumes, replays>>
-----------------------------------------------------------------------------
(* Crash and restart. *)

Crash(s) ==
  /\ up[s] /\ crashes < MaxCrashes
  /\ crashes' = crashes + 1
  /\ up' = [up EXCEPT ![s] = FALSE]
  /\ mem' = [mem EXCEPT ![s] = NoJob]
  /\ grown' = [grown EXCEPT ![s] = TRUE]
  /\ queued' = [queued EXCEPT ![s] = FALSE]
  /\ run' = [run EXCEPT ![s] = IdleRun]
  /\ gor' = [gor EXCEPT ![s] = [t \in Tasks |-> OffGor]]
  /\ recon' = [recon EXCEPT ![s] = IdleRecon]
  /\ UNCHANGED <<store, leader, worker, faults, resumes, replays>>

(* Start: RecoverFromTransitions restores visibility; its error is only logged. *)
Restart(s) ==
  /\ ~up[s]
  /\ up' = [up EXCEPT ![s] = TRUE]
  /\ IF ~IsTerminalJobState(jobRow) /\ ReplayOK(log)
     THEN /\ mem' = [mem EXCEPT ![s] = RecoveredJob]
          /\ grown' = [grown EXCEPT ![s] = FALSE]
     ELSE UNCHANGED <<mem, grown>>
  /\ UNCHANGED <<store, leader, worker, queued, run, gor, recon, bounds>>
-----------------------------------------------------------------------------
RunLoop(s) ==
  Dequeue(s) \/ Refresh(s) \/ RunWithoutTasks(s) \/ NextStage(s) \/ FinishJob(s)

Goroutine(s, t) ==
  \/ BeginClaim(s, t) \/ EndClaim(s, t) \/ ReadJobState(s, t) \/ RecordJobRunning(s, t)
  \/ BeginTaskRunning(s, t) \/ EndTaskRunning(s, t) \/ CheckAuthority(s, t)
  \/ ReturnFromNode(s, t) \/ EndTaskOutcome(s, t)

Reconcile(s) ==
  \/ TryEnqueueExistingQueuedJob(s) \/ ReconcileReplay(s) \/ ReconcileFail(s)
  \/ ReconcileApply(s) \/ ReconcileRecord(s)

Next ==
  \/ \E s \in Schedulers :
       \/ RunLoop(s) \/ Reconcile(s) \/ ResumeAwaitingHumanJob(s)
       \/ \E t \in Tasks : Goroutine(s, t)
       \/ Elect(s) \/ Crash(s) \/ Restart(s)
  \/ LoseLease
  \/ \E m \in net : WorkerExecute(m)

Spec == Init /\ [][Next]_vars

(* The steps of a task's goroutine that end in bounded time: the call to a   *)
(* node may never return, since GetConnection dials without a deadline.      *)
Prompt(s, t) == gor[s][t].pc # "sent" /\ Goroutine(s, t)

(* Threads that can move do; a scheduler that is down is restarted; a vacant *)
(* leader key is taken.  The reconcile loop ticks for ever, so an in-flight  *)
(* task that stays in flight is stale at some later tick.                    *)
Fairness ==
  \A s \in Schedulers :
    /\ WF_vars(RunLoop(s)) /\ WF_vars(Reconcile(s)) /\ SF_vars(ReconcileFail(s))
    /\ WF_vars(Elect(s)) /\ WF_vars(Restart(s))
    /\ \A t \in Tasks : WF_vars(Prompt(s, t))

FairSpec == Spec /\ Fairness
-----------------------------------------------------------------------------
(* Properties. *)

JobRecord == [seq : Nat, ent : {JobEnt}, state : JobLifecycleState, att : Nat, by : Schedulers]

TaskRecord == [seq : Nat, ent : Tasks, state : TaskLifecycleState, att : Nat, by : Schedulers]

MemType == [job : JobLifecycleState \cup {Absent},
            task : [Tasks -> TaskLifecycleState \cup {""}]]

RequestType == [task : Tasks, att : Nat, by : Schedulers, ep : Nat]

RunType == [pc : {"idle", "refresh", "noTasks", "wait"}, stage : 0..NumStages, sel : BOOLEAN]

WriteType == [state : TaskLifecycleState \cup {""}, seq : Nat,
              snap : JobLifecycleState \cup {Absent, ""}]

GorType ==
  [pc : {"off", "claim", "claimW", "first", "job", "run", "runW", "auth", "sent", "finW", "done"},
   att : 0..MaxDispatchAttempts, tok : Nat,
   res : {"", "ok", "err", "pause", "capacity"}, w : WriteType]

ReplayType == [job : JobLifecycleState \cup {""}, newer : BOOLEAN,
               outcome : {"", "SUCCEEDED", "FAILED"},
               task : [Tasks -> TaskLifecycleState \cup {""}]]

ReconType == [pc : {"idle", "apply", "record"}, leader : BOOLEAN, rp : ReplayType,
              want : {"", "SUCCEEDED", "FAILED"}]

(* Every variable of the scheduler processes, of the store, of the election *)
(* and of the workers stays within its type.                                *)
TypeOK ==
  /\ log \subseteq JobRecord \cup TaskRecord
  /\ order \in [0..NumTasks -> Nat]
  /\ jobRow \in JobLifecycleState
  /\ taskRow \in [Tasks -> [state : TaskLifecycleState, att : Nat]]
  /\ reign \in Seq(Schedulers) /\ held \in BOOLEAN
  /\ net \subseteq RequestType /\ execs \subseteq RequestType
  /\ up \in [Schedulers -> BOOLEAN]
  /\ mem \in [Schedulers -> MemType]
  /\ grown \in [Schedulers -> BOOLEAN]
  /\ queued \in [Schedulers -> BOOLEAN]
  /\ run \in [Schedulers -> RunType]
  /\ gor \in [Schedulers -> [Tasks -> GorType]]
  /\ recon \in [Schedulers -> ReconType]
  /\ faults \in Nat /\ crashes \in Nat /\ resumes \in Nat /\ replays \in Nat

(* No claim, no dispatch: every request on its way to a worker and every     *)
(* execution a worker accepted was preceded by a durable TASK_DISPATCHED     *)
(* record of the same scheduler for the same task and attempt.               *)
NoClaimNoDispatch ==
  \A m \in net \cup execs :
    \E r \in log : r.ent = m.task /\ r.state = "DISPATCHED" /\ r.att = m.att /\ r.by = m.by

(* A worker accepts a request only from the scheduler that holds the leader  *)
(* key at that moment, whatever happened to the request on its way.          *)
OnlyLeaderExecutes ==
  [][\A m \in execs' \ execs : IsLeader(m.by) /\ m.ep = epoch]_vars

(* JOB_SUCCEEDED is recorded only after a TASK_SUCCEEDED of every task.      *)
SuccessJustified ==
  \A r \in log : (r.ent = JobEnt /\ r.state = "SUCCEEDED") =>
    \A t \in Tasks : \E q \in log : q.ent = t /\ q.state = "SUCCEEDED"

(* For any number of schedulers, leaderships and crashes that holds as long  *)
(* as no transaction fails and no human callback resumes the job: what one   *)
(* leader left behind is never counted as done by the next.                  *)
JobSuccessJustified == (faults = 0 /\ resumes = 0) => SuccessJustified

(* The log replays: every record is a legal move from the record before it.  *)
LogReplays == ReplayOK(log)

(* A (task, attempt) pair is claimed at most once: the rule the claim's      *)
(* compare-and-swap on last_attempt is there for.                            *)
ClaimUnique ==
  \A p, r \in log : (p.state = "DISPATCHED" /\ r.state = "DISPATCHED"
                     /\ p.ent = r.ent /\ p.att = r.att) => p = r

(* A task's first attempt is claimed by one scheduler, and at most one       *)
(* request for it ever leaves, however leaderships change and processes      *)
(* crash: a task that may not be retried is not executed twice.              *)
FirstAttemptOnce ==
  /\ \A p, r \in log : (p.state = "DISPATCHED" /\ r.state = "DISPATCHED" /\ p.ent = r.ent
                        /\ p.att = 1 /\ r.att = 1) => p = r
  /\ \A m, n \in net \cup execs : (m.task = n.task /\ m.att = 1 /\ n.att = 1) => m = n

(* TASK_SUCCEEDED is recorded only by the scheduler whose request a worker   *)
(* accepted, for that attempt: ExecuteOnNode returned without an error.      *)
SuccessWasExecuted ==
  \A r \in log : (r.ent # JobEnt /\ r.state = "SUCCEEDED") =>
    \E m \in execs : m.task = r.ent /\ m.att = r.att /\ m.by = r.by

(* A scheduler's memory never runs ahead of the log: a task is in the state  *)
(* it has in memory because a record of that state was committed, although   *)
(* transactions fail and their errors are only logged.                       *)
MemoryBehindLog ==
  \A s \in Schedulers :
    /\ mem[s].job # Absent =>
         \E r \in log : r.ent = JobEnt /\ r.state = mem[s].job
    /\ \A t \in Tasks : mem[s].task[t] # "" =>
         \E r \in log : r.ent = t /\ r.state = mem[s].task[t]

(* Once leadership is stable, the log records an outcome for the job or its  *)
(* pause for a human: no thread is left waiting, and what a deposed leader   *)
(* or a lost race left behind is failed or finished by the reconcile loop.   *)
Settled ==
  LET st == ReplayedState(log, JobEnt)
  IN IsTerminalJobState(st) \/ st = "AWAITING_HUMAN"

EventuallySettled == (<>[]held) => <>Settled
=============================================================================

------------------------ MODULE DispatchMemoryProofs ------------------------
(***************************************************************************)
(* What the schedulers know, for every value of the constants of Dispatch. *)
(*                                                                         *)
(* Memory: a scheduler's memory, the durable job row, the job snapshots    *)
(* taken for task writes and the replays the reconcile loop holds all stem *)
(* from committed records (MemoryBehindLog).                               *)
(*                                                                         *)
(* Success: a job succeeds only when all its tasks have, in a run without  *)
(* failed transactions and resumes (JobSuccessJustified).  Success is      *)
(* recorded by the run loop at the end of the last stage, or by the        *)
(* reconcile loop when all replayed tasks have succeeded.  The first       *)
(* relies on what the scheduler knows of the job: a job that was built     *)
(* without its tasks would pass every stage with nothing to wait for.  So  *)
(* the inductive invariant (JobInv) says of every scheduler what it knows, *)
(* what its threads have earned so far, and what it may conclude (Fit).  A *)
(* job without tasks is built by the reconcile loop to fail it; that it    *)
(* stays failed needs the order of the job's records (JobLog), and that    *)
(* the failure is legal needs that nobody still sees the job as submitted  *)
(* (Late).                                                                 *)
(***************************************************************************)
EXTENDS DispatchProofs

JobIn(L, st) == \E r \in L : r.ent = JobEnt /\ r.state = st

TaskIn(L, t, st) == \E r \in L : r.ent = t /\ r.state = st

(* Where a job state in memory may come from in one step: it was there, it  *)
(* is that of the job row, of a replay, or of a record being appended.      *)
MemEffect(s) ==
  /\ \/ mem'[s].job \in {Absent, mem[s].job, jobRow, ReplayedState(log, JobEnt)}
     \/ mem'[s].job # "SUBMITTED" /\ JobIn(log', mem'[s].job)
     \/ recon[s].pc = "apply" /\ mem'[s].job = recon[s].rp.job
  /\ \A t \in Tasks :
       \/ mem'[s].task[t] \in {"", mem[s].task[t], "PENDING"}
       \/ TaskIn(log', t, mem'[s].task[t])
       \/ recon[s].pc = "apply" /\ mem'[s].task[t] = recon[s].rp.task[t]

RowEffect ==
  \/ jobRow' = jobRow \/ (jobRow' # "SUBMITTED" /\ JobIn(log', jobRow'))
  \/ \E s \in Schedulers, t \in Tasks : gor[s][t].pc \in Writing /\ jobRow' = gor[s][t].w.snap

SnapEffect(s, t) ==
  gor'[s][t].pc \in Writing =>
    \/ gor'[s][t] = gor[s][t]
    \/ mem[s].job # Absent /\ gor'[s][t].w.snap = mem[s].job

ReplayEffect(s) ==
  recon'[s].pc = "apply" =>
    \/ recon[s].pc = "apply" /\ recon'[s].rp.job = recon[s].rp.job
                             /\ recon'[s].rp.task = recon[s].rp.task
    \/ /\ recon'[s].rp.job = ReplayedState(log, JobEnt)
       /\ \A t \in Tasks : recon'[s].rp.task[t] \in {"", ReplayedState(log, t)}

MemEffects == RowEffect /\ \A s \in Schedulers : MemEffect(s)

SnapEffects == \A s \in Schedulers, t \in Tasks : SnapEffect(s, t)

ReplayEffects == \A s \in Schedulers : ReplayEffect(s)

Copies == MemEffects /\ SnapEffects /\ ReplayEffects

-----------------------------------------------------------------------------
(* A step that leaves memory alone copies nothing into it. *)
LEMMA SameMemory ==
  ASSUME UNCHANGED <<mem, jobRow>>
  PROVE  MemEffects
  BY DEF MemEffects, RowEffect, MemEffect

(* A step that leaves the reconcile loop alone keeps the replay it holds. *)
LEMMA SameRecon ==
  ASSUME UNCHANGED recon
  PROVE  ReplayEffects
  BY DEF ReplayEffects, ReplayEffect

(* A step that leaves the goroutines alone keeps their snapshots. *)
LEMMA SameGoroutines ==
  ASSUME UNCHANGED gor
  PROVE  SnapEffects
  BY DEF SnapEffects, SnapEffect

(* A goroutine that moves and is not about to write. *)
LEMMA NoSnap ==
  ASSUME TypeInv, NEW s \in Schedulers, NEW t \in Tasks, NEW g, Goto(s, t, g), g.pc \notin Writing
  PROVE  SnapEffects
  BY OneMoves DEF SnapEffects, SnapEffect

(* A goroutine that is about to write takes the snapshot from memory. *)
LEMMA TakesSnap ==
  ASSUME TypeInv, NEW s \in Schedulers, NEW t \in Tasks, NEW g, Goto(s, t, g),
         gor[s][t].pc # "off", g.w.snap = mem[s].job
  PROVE  SnapEffects
  <1>1. mem[s].job # Absent
    BY DEF TypeInv, Present
  <1> QED
    BY <1>1, OneMoves DEF SnapEffects, SnapEffect

(* A goroutine that retries or gives up holds no snapshot. *)
LEMMA RetryNoSnap ==
  ASSUME TypeInv, NEW s \in Schedulers, NEW t \in Tasks,
         RetryOrGiveUp(s, t) \/ \E r : Goto(s, t, Done(r))
  PROVE  SnapEffects
  <1> DEFINE g == [OffGor EXCEPT !.pc = "claim", !.att = gor[s][t].att + 1]
  <1>1. CASE Goto(s, t, g)
    <2>1. g.pc \notin Writing
      BY DEF OffGor, Writing
    <2> HIDE DEF g
    <2> QED
      BY <1>1, <2>1, NoSnap
  <1>2. ASSUME NEW r, Goto(s, t, Done(r)) PROVE SnapEffects
    <2>1. Done(r).pc \notin Writing
      BY Zenon DEF OffGor, Done, Writing
    <2> QED
      BY <1>2, <2>1, NoSnap
  <1> QED
    BY <1>1, <1>2 DEF RetryOrGiveUp

(* A job write puts into memory what it appends. *)
LEMMA JobWriteCopies ==
  ASSUME TypeInv, NEW s \in Schedulers, NEW to, to # "SUBMITTED", recordJobTransition(s, to)
  PROVE  MemEffects
  <1>1. CASE /\ AppendTransition(s, JobEnt, 0, Write(s, JobEnt, to))
             /\ jobRow' = to /\ mem' = [mem EXCEPT ![s].job = to]
    <2> DEFINE r == [seq |-> order[JobEnt] + 1, ent |-> JobEnt, state |-> to, att |-> 0, by |-> s]
    <2>1. r \in log'
      BY <1>1 DEF AppendTransition, Write
    <2>2. JobIn(log', to)
      BY <2>1 DEF JobIn
    <2>3. \A x \in Schedulers : /\ mem'[x].job = mem[x].job \/ mem'[x].job = to
                               /\ mem'[x].task = mem[x].task
      BY <1>1 DEF TypeInv, WrittenTypes, MemType
    <2> QED
      BY <1>1, <2>2, <2>3 DEF MemEffects, RowEffect, MemEffect
  <1>2. CASE UNCHANGED <<mem, jobRow>>
    BY <1>2, SameMemory
  <1> QED
    BY <1>1, <1>2 DEF recordJobTransition, PersistFails, store, rows

(* So does a task write, and the job row takes the snapshot. *)
LEMMA TaskWriteCopies ==
  ASSUME TypeInv, NEW s \in Schedulers, NEW t \in Tasks, gor[s][t].pc \in Writing,
         PersistTask(s, t, gor[s][t].w) \/ PersistFails
  PROVE  MemEffects
  <1>1. CASE PersistTask(s, t, gor[s][t].w)
    <2> DEFINE w == gor[s][t].w
               r == [seq |-> w.seq, ent |-> t, state |-> w.state, att |-> gor[s][t].att, by |-> s]
    <2>1. r \in log'
      BY <1>1 DEF PersistTask, AppendTransition
    <2>2. TaskIn(log', t, w.state)
      BY <2>1 DEF TaskIn
    <2>3. \A x \in Schedulers :
             /\ mem'[x].job = mem[x].job
             /\ \A u \in Tasks : mem'[x].task[u] = mem[x].task[u] \/ (u = t /\ mem'[x].task[u] = w.state)
      BY ZenonT(60), <1>1 DEF TypeInv, WrittenTypes, MemType, PersistTask
    <2>4. RowEffect
      BY <1>1 DEF RowEffect, PersistTask
    <2>5. \A x \in Schedulers : MemEffect(x)
      BY <2>2, <2>3 DEF MemEffect
    <2> QED
      BY <2>4, <2>5 DEF MemEffects
  <1>2. CASE PersistFails
    BY <1>2, SameMemory DEF PersistFails, rows
  <1> QED
    BY <1>1, <1>2
-----------------------------------------------------------------------------
(* Steps of a goroutine. *)

(* A snapshot taken for a task write is a copy of memory. *)
LEMMA WriteSnap ==
  ASSUME NEW s, NEW t, NEW to
  PROVE  Write(s, t, to).snap = mem[s].job
  BY DEF Write

(* What EXCEPT leaves of a goroutine that takes a snapshot. *)
LEMMA SnapField ==
  ASSUME NEW g \in GorType, NEW p, NEW r, NEW w
  PROVE  /\ [g EXCEPT !.pc = p, !.w = w].w = w
         /\ [g EXCEPT !.pc = p, !.tok = 0, !.res = r, !.w = w].w = w
  BY DEF GorType

(* A goroutine past its outcome holds no snapshot. *)
LEMMA AfterTaskNoSnap ==
  ASSUME TypeInv, NEW s \in Schedulers, NEW t \in Tasks, NEW res, AfterTask(s, t, res)
  PROVE  SnapEffects
  BY RetryNoSnap DEF AfterTask

(* The snapshot written with an outcome is a copy of memory. *)
LEMMA OutcomeSnap ==
  ASSUME TypeInv, NEW s \in Schedulers, NEW t \in Tasks, NEW res,
         gor[s][t].pc = "sent", BeginTaskOutcome(s, t, res)
  PROVE  SnapEffects
  <1> DEFINE to == IF res = "ok" THEN "SUCCEEDED" ELSE "FAILED"
             g == [gor[s][t] EXCEPT !.pc = "finW", !.tok = 0, !.res = res, !.w = Write(s, t, to)]
  <1>1. CASE Goto(s, t, g)
    <2>1. g.w.snap = mem[s].job
      BY GorTyped, SnapField, WriteSnap
    <2> HIDE DEF g
    <2> QED
      BY <1>1, <2>1, TakesSnap
  <1>2. CASE AfterTask(s, t, res)
    BY <1>2, AfterTaskNoSnap
  <1> QED
    BY <1>1, <1>2 DEF BeginTaskOutcome

(* A goroutine step only takes snapshots of memory. *)
LEMMA GoroutineSnaps ==
  ASSUME TypeInv, NEW s \in Schedulers, NEW t \in Tasks, Goroutine(s, t)
  PROVE  SnapEffects
  <1>0. gor[s][t] \in GorType
    BY GorTyped
  <1>1. CASE BeginClaim(s, t)
    <2> DEFINE g == [gor[s][t] EXCEPT !.pc = "claimW", !.w = Write(s, t, "DISPATCHED")]
    <2>1. g.w.snap = mem[s].job /\ gor[s][t].pc # "off"
      BY <1>0, <1>1, SnapField, WriteSnap DEF BeginClaim
    <2>2. Goto(s, t, g) \/ RetryOrGiveUp(s, t)
      BY <1>1 DEF BeginClaim
    <2> HIDE DEF g
    <2> QED
      BY <2>1, <2>2, TakesSnap, RetryNoSnap
  <1>2. CASE EndClaim(s, t)
    <2> DEFINE g == [gor[s][t] EXCEPT !.pc = "first", !.w = NoWrite]
    <2>1. g.pc \notin Writing
      BY <1>0, MovedFields DEF Writing
    <2>2. Goto(s, t, g) \/ RetryOrGiveUp(s, t) \/ Goto(s, t, Done("err"))
      BY <1>2 DEF EndClaim
    <2> HIDE DEF g
    <2> QED
      BY <2>1, <2>2, NoSnap, RetryNoSnap
  <1>3. CASE ReadJobState(s, t) \/ RecordJobRunning(s, t)
    <2>1. \E p \in {"job", "run"} : Goto(s, t, [gor[s][t] EXCEPT !.pc = p])
      BY <1>3 DEF ReadJobState, RecordJobRunning
    <2>2. PICK p \in {"job", "run"} : Goto(s, t, [gor[s][t] EXCEPT !.pc = p])
      BY <2>1
    <2> DEFINE g == [gor[s][t] EXCEPT !.pc = p]
    <2>3. g.pc \notin Writing
      BY <1>0, MovedFields DEF Writing
    <2> HIDE DEF g
    <2> QED
      BY Zenon, <2>2, <2>3, NoSnap DEF g
  <1>4. CASE BeginTaskRunning(s, t)
    <2> DEFINE g == [gor[s][t] EXCEPT !.pc = "runW", !.w = Write(s, t, "RUNNING")]
    <2>1. g.w.snap = mem[s].job /\ gor[s][t].pc # "off"
      BY <1>0, <1>4, SnapField, WriteSnap DEF BeginTaskRunning
    <2>2. Goto(s, t, g)
      BY <1>4 DEF BeginTaskRunning
    <2> HIDE DEF g
    <2> QED
      BY <2>1, <2>2, TakesSnap
  <1>5. CASE EndTaskRunning(s, t)
    <2> DEFINE g == [gor[s][t] EXCEPT !.pc = "auth", !.w = NoWrite]
    <2>1. g.pc \notin Writing
      BY <1>0, MovedFields DEF Writing
    <2>2. Goto(s, t, g)
      BY <1>5 DEF EndTaskRunning
    <2> HIDE DEF g
    <2> QED
      BY <2>1, <2>2, NoSnap
  <1>6. CASE CheckAuthority(s, t)
    <2> DEFINE g == [gor[s][t] EXCEPT !.pc = "sent", !.tok = epoch]
    <2>1. g.pc \notin Writing
      BY <1>0 DEF GorType, Writing
    <2>2. Goto(s, t, g) \/ Goto(s, t, Done("err"))
      BY <1>6 DEF CheckAuthority
    <2> HIDE DEF g
    <2> QED
      BY <2>1, <2>2, NoSnap, RetryNoSnap
  <1>7. CASE ReturnFromNode(s, t)
    <2>1. (\E res : BeginTaskOutcome(s, t, res)) \/ Goto(s, t, Done("err"))
      BY <1>7 DEF ReturnFromNode
    <2> QED
      BY <1>7, <2>1, OutcomeSnap, RetryNoSnap DEF ReturnFromNode
  <1>8. CASE EndTaskOutcome(s, t)
    BY <1>8, AfterTaskNoSnap DEF EndTaskOutcome
  <1> QED
    BY <1>1, <1>2, <1>3, <1>4, <1>5, <1>6, <1>7, <1>8 DEF Goroutine

(* What a goroutine step commits was in memory or in a snapshot. *)
LEMMA GoroutineCopies ==
  ASSUME TypeInv, NEW s \in Schedulers, NEW t \in Tasks, Goroutine(s, t)
  PROVE  Copies
  <1>1. ReplayEffects
    BY SameRecon DEF Goroutine, BeginClaim, EndClaim, ReadJobState, RecordJobRunning,
       BeginTaskRunning, EndTaskRunning, CheckAuthority, ReturnFromNode, EndTaskOutcome
  <1>2. MemEffects
    <2>1. CASE BeginClaim(s, t) \/ ReadJobState(s, t) \/ BeginTaskRunning(s, t)
               \/ CheckAuthority(s, t) \/ ReturnFromNode(s, t)
      BY <2>1, SameMemory DEF BeginClaim, ReadJobState, BeginTaskRunning, CheckAuthority,
         ReturnFromNode, store, rows, local
    <2>2. CASE RecordJobRunning(s, t)
      BY <2>2, JobWriteCopies DEF RecordJobRunning
    <2>3. CASE EndTaskRunning(s, t) \/ EndTaskOutcome(s, t)
      BY <2>3, TaskWriteCopies DEF EndTaskRunning, EndTaskOutcome, Writing
    <2>4. CASE EndClaim(s, t)
      BY <2>4, TaskWriteCopies, SameMemory DEF EndClaim, Writing, rows
    <2> QED
      BY <2>1, <2>2, <2>3, <2>4 DEF Goroutine
  <1> QED
    BY <1>1, <1>2, GoroutineSnaps DEF Copies
-----------------------------------------------------------------------------
(* The other steps. *)

(* Replaying the log yields recorded states. *)
LEMMA ReplayBacked ==
  ASSUME TypeInv, log \subseteq log'
  PROVE  /\ JobIn(log', ReplayedState(log, JobEnt))
         /\ \A t \in Tasks : TaskIn(log', t, ReplayedState(log, t))
  <1>1. HasLatest
    BY DEF TypeInv, WrittenTypes
  <1> QED
    BY <1>1, Entities, ReplayedIsRecorded DEF JobIn, TaskIn

(* Recovery fills memory from the replay of the log. *)
LEMMA RecoveredCopies ==
  ASSUME TypeInv, NEW s \in Schedulers, UNCHANGED <<log, jobRow>>,
         mem' = [mem EXCEPT ![s] = RecoveredJob] \/ UNCHANGED mem
  PROVE  MemEffects
  <1>1. CASE mem' = [mem EXCEPT ![s] = RecoveredJob]
    <2>1. mem'[s] = RecoveredJob /\ \A x \in Schedulers : x # s => mem'[x] = mem[x]
      BY <1>1 DEF TypeInv, WrittenTypes
    <2>2. /\ mem'[s].job = ReplayedState(log, JobEnt)
          /\ \A t \in Tasks : mem'[s].task[t] = ReplayedState(log, t)
      BY <2>1 DEF RecoveredJob, ReplayedTasks
    <2>3. \A t \in Tasks : TaskIn(log', t, mem'[s].task[t])
      BY <2>2, ReplayBacked
    <2> QED
      BY <2>1, <2>2, <2>3 DEF MemEffects, RowEffect, MemEffect
  <1> QED
    BY <1>1, SameMemory

(* Seeding leaves the replay the reconcile loop holds. *)
LEMMA SeededCopies ==
  ASSUME TypeInv, NEW s \in Schedulers, Seeded(s) \/ UNCHANGED <<grown, recon>>
  PROVE  ReplayEffects
  BY SeededMoves DEF ReplayEffects, ReplayEffect

(* Goroutines that start hold no snapshot. *)
LEMMA StartSnaps ==
  ASSUME TypeInv, NEW s \in Schedulers, NEW m, NEW k, executeStage(s, m, k)
  PROVE  SnapEffects
  <1>1. PICK started \in SUBSET StageTasks(m, k) :
          gor' = [gor EXCEPT ![s] = [t \in Tasks |->
                   IF t \in started THEN [OffGor EXCEPT !.pc = "claim", !.att = 1] ELSE OffGor]]
    BY Zenon DEF executeStage
  <1>2. OffGor.pc \notin Writing /\ [OffGor EXCEPT !.pc = "claim", !.att = 1].pc \notin Writing
    BY DEF OffGor, Writing
  <1>3. \A x \in Schedulers, u \in Tasks : gor'[x][u] = gor[x][u] \/ gor'[x][u].pc \notin Writing
    BY <1>1, <1>2 DEF TypeInv, ControlTypes
  <1> QED
    BY <1>3 DEF SnapEffects, SnapEffect

(* Starting a job gives its goroutines no snapshot. *)
LEMMA StartJobSnaps ==
  ASSUME TypeInv, NEW s \in Schedulers, NEW m, executeJob(s, m)
  PROVE  SnapEffects
  BY StartSnaps, SameGoroutines DEF executeJob

(* A goroutine that is off holds no snapshot. *)
LEMMA OffSnaps ==
  ASSUME TypeInv, NEW s \in Schedulers, gor' = [gor EXCEPT ![s] = [t \in Tasks |-> OffGor]]
  PROVE  SnapEffects
  <1>1. \A x \in Schedulers, u \in Tasks : gor'[x][u] = gor[x][u] \/ gor'[x][u].pc = "off"
    BY Zenon, OffMoves
  <1> QED
    BY <1>1 DEF SnapEffects, SnapEffect, Writing

(* A resume copies only recorded states into memory. *)
LEMMA ResumeCopies ==
  ASSUME TypeInv, NEW s \in Schedulers, ResumeAwaitingHumanJob(s)
  PROVE  Copies
  <1> DEFINE m == [ResumedJob(s) EXCEPT !.task = [t \in Tasks |-> IF @[t] = "" THEN "" ELSE "PENDING"]]
  <1>0. /\ mem' = [mem EXCEPT ![s] = m] /\ executeJob(s, m) /\ UNCHANGED <<log, jobRow>>
        /\ Seeded(s) \/ UNCHANGED <<grown, recon>>
    BY DEF ResumeAwaitingHumanJob, store, rows
  <1>1. ResumedJob(s) \in MemType
    BY RecoveredMoves DEF ResumedJob, TypeInv, WrittenTypes
  <1>2. m.job = ResumedJob(s).job /\ \A t \in Tasks : m.task[t] \in {"", "PENDING"}
    BY <1>1 DEF MemType
  <1>3. ResumedJob(s).job \in {mem[s].job, ReplayedState(log, JobEnt)}
    BY DEF ResumedJob, RecoveredJob
  <1> HIDE DEF m
  <1>4. mem'[s] = m /\ \A x \in Schedulers : x # s => mem'[x] = mem[x]
    BY <1>0 DEF TypeInv, WrittenTypes
  <1>5. MemEffects
    BY ZenonT(60), <1>0, <1>2, <1>3, <1>4 DEF MemEffects, RowEffect, MemEffect
  <1> QED
    BY <1>0, <1>5, StartJobSnaps, SeededCopies DEF Copies

(* The run loop copies only recorded states. *)
LEMMA RunLoopCopies ==
  ASSUME TypeInv, NEW s \in Schedulers, RunLoop(s)
  PROVE  Copies
  <1>1. CASE Dequeue(s)
    BY <1>1, SameMemory, SameGoroutines, SameRecon DEF Dequeue, Copies, store, rows
  <1>2. CASE Refresh(s)
    <2>1. MemEffects
      BY <1>2, RecoveredCopies DEF Refresh, store, rows
    <2>2. ReplayEffects
      BY <1>2, SeededCopies DEF Refresh
    <2>3. executeJob(s, mem'[s]) \/ UNCHANGED gor
      BY <1>2 DEF Refresh
    <2> QED
      BY <2>1, <2>2, <2>3, StartJobSnaps, SameGoroutines DEF Copies
  <1>3. CASE RunWithoutTasks(s)
    BY <1>3, JobWriteCopies, SameGoroutines, SameRecon DEF RunWithoutTasks, Copies
  <1>4. CASE NextStage(s)
    BY <1>4, SameMemory, StartSnaps, SameRecon DEF NextStage, Copies, store, rows, local
  <1>5. CASE FinishJob(s)
    <2>1. \E to : to # "SUBMITTED" /\ recordJobTransition(s, to)
      BY <1>5 DEF FinishJob, StageOutcomes
    <2> QED
      BY Zenon, <1>5, <2>1, JobWriteCopies, OffSnaps, SameRecon DEF FinishJob, Copies
  <1> QED
    BY <1>1, <1>2, <1>3, <1>4, <1>5 DEF RunLoop

(* What the reconcile loop keeps of a replay is the replayed log. *)
LEMMA ReconcileReplayCopies ==
  ASSUME TypeInv, NEW s \in Schedulers, ReconcileReplay(s)
  PROVE  ReplayEffects
  <1> DEFINE rc == [IdleRecon EXCEPT !.pc = "apply", !.leader = IsLeader(s), !.rp = ReplaySummary(s)]
  <1>1. rc.rp = ReplaySummary(s)
    BY DEF IdleRecon
  <1>2. /\ ReplaySummary(s).job = ReplayedState(log, JobEnt)
        /\ \A t \in Tasks : ReplaySummary(s).task[t] \in {"", ReplayedState(log, t)}
    BY DEF ReplaySummary, ReplayedTasks, NoReplay
  <1> HIDE DEF rc
  <1>3. recon'[s] = rc /\ \A x \in Schedulers : x # s => recon'[x] = recon[x]
    BY DEF ReconcileReplay, TypeInv, ControlTypes, rc
  <1> QED
    BY <1>1, <1>2, <1>3 DEF ReplayEffects, ReplayEffect

(* A reconcile loop that is idle or about to record holds no replay. *)
LEMMA NoReplayEffect ==
  ASSUME TypeInv, NEW s \in Schedulers, NEW rc, rc.pc # "apply",
         recon' = [recon EXCEPT ![s] = rc]
  PROVE  ReplayEffects
  <1>1. recon'[s] = rc /\ \A x \in Schedulers : x # s => recon'[x] = recon[x]
    BY DEF TypeInv, ControlTypes
  <1> QED
    BY <1>1 DEF ReplayEffects, ReplayEffect

(* Failing a stale job in the reconcile loop copies only recorded states. *)
LEMMA ReconcileFailCopies ==
  ASSUME TypeInv, NEW s \in Schedulers, ReconcileFail(s)
  PROVE  Copies
  <1> DEFINE rc == [IdleRecon EXCEPT !.pc = "record", !.want = "FAILED"]
             m == IF mem[s].job = Absent THEN [NoJob EXCEPT !.job = jobRow] ELSE mem[s]
  <1>1. rc.pc # "apply"
    BY DEF IdleRecon
  <1>2. m = mem[s] \/ (m.job = jobRow /\ \A t \in Tasks : m.task[t] = "")
    BY DEF NoJob
  <1>3. mem' = [mem EXCEPT ![s] = m] /\ UNCHANGED <<log, jobRow, gor>> /\ recon' = [recon EXCEPT ![s] = rc]
    BY DEF ReconcileFail, store, rows
  <1> HIDE DEF rc, m
  <1>4. mem'[s] = m /\ \A x \in Schedulers : x # s => mem'[x] = mem[x]
    BY <1>3 DEF TypeInv, WrittenTypes
  <1>5. MemEffects
    BY ZenonT(60), <1>2, <1>3, <1>4 DEF MemEffects, RowEffect, MemEffect
  <1> QED
    BY Zenon, <1>1, <1>3, <1>5, NoReplayEffect, SameGoroutines DEF Copies

(* Applying a replay copies the replay the loop holds. *)
LEMMA ReconcileApplyCopies ==
  ASSUME TypeInv, NEW s \in Schedulers, ReconcileApply(s)
  PROVE  Copies
  <1>1. /\ recon[s].pc = "apply" /\ mem' = [mem EXCEPT ![s] = WarmJob(s)]
        /\ UNCHANGED <<log, jobRow, gor>>
        /\ \/ recon' = [recon EXCEPT ![s] = IdleRecon]
           \/ recon' = [recon EXCEPT ![s] =
                           [IdleRecon EXCEPT !.pc = "record", !.want = recon[s].rp.outcome]]
    BY DEF ReconcileApply, store, rows
  <1>2. /\ IdleRecon.pc # "apply"
        /\ [IdleRecon EXCEPT !.pc = "record", !.want = recon[s].rp.outcome].pc # "apply"
    BY DEF IdleRecon
  <1>3. /\ WarmJob(s).job \in {mem[s].job, recon[s].rp.job}
        /\ WarmJob(s).task \in {mem[s].task, recon[s].rp.task}
    BY DEF WarmJob, TypeInv, WrittenTypes, MemType
  <1>4. mem'[s] = WarmJob(s) /\ \A x \in Schedulers : x # s => mem'[x] = mem[x]
    BY <1>1 DEF TypeInv, WrittenTypes
  <1>5. MemEffects
    BY ZenonT(60), <1>1, <1>3, <1>4 DEF MemEffects, RowEffect, MemEffect
  <1>6. ReplayEffects
    BY Zenon, <1>1, <1>2, NoReplayEffect
  <1> QED
    BY <1>1, <1>5, <1>6, SameGoroutines DEF Copies

(* Every step of the reconcile loop copies only recorded states. *)
LEMMA ReconcileCopies ==
  ASSUME TypeInv, NEW s \in Schedulers, Reconcile(s)
  PROVE  Copies
  <1>1. CASE TryEnqueueExistingQueuedJob(s)
    BY <1>1, SameMemory, SameGoroutines, SameRecon
       DEF TryEnqueueExistingQueuedJob, Copies, store, rows
  <1>2. CASE ReconcileReplay(s)
    BY Zenon, <1>2, SameMemory, SameGoroutines, ReconcileReplayCopies DEF ReconcileReplay, Copies, store, rows
  <1>3. CASE ReconcileRecord(s)
    <2>1. IdleRecon.pc # "apply"
      BY DEF IdleRecon
    <2>2. recon[s].want # "SUBMITTED" /\ recordJobTransition(s, recon[s].want)
      BY <1>3 DEF ReconcileRecord, TypeInv, ReplayFound
    <2> QED
      BY Zenon, <1>3, <2>1, <2>2, JobWriteCopies, SameGoroutines, NoReplayEffect DEF ReconcileRecord, Copies
  <1> QED
    BY <1>1, <1>2, <1>3, ReconcileFailCopies, ReconcileApplyCopies DEF Reconcile

(* A crash forgets memory and a restart recovers it from the log. *)
LEMMA CrashCopies ==
  ASSUME TypeInv, NEW s \in Schedulers, Crash(s)
  PROVE  Copies
  <1>1. mem'[s] = NoJob /\ \A x \in Schedulers : x # s => mem'[x] = mem[x]
    BY DEF Crash, TypeInv, WrittenTypes
  <1>2. NoJob.job = Absent /\ \A t \in Tasks : NoJob.task[t] = ""
    BY DEF NoJob
  <1>3. MemEffects
    <2>1. jobRow' = jobRow
      BY DEF Crash, store, rows
    <2>2. ASSUME NEW x \in Schedulers PROVE MemEffect(x)
      BY <1>1, <1>2, Zenon DEF MemEffect
    <2> QED
      BY <2>1, <2>2 DEF MemEffects, RowEffect
  <1>4. IdleRecon.pc # "apply"
    BY DEF IdleRecon
  <1> QED
    BY Zenon, <1>3, <1>4, NoReplayEffect, OffSnaps DEF Crash, Copies

(* Every step only copies recorded states. *)
LEMMA StepCopies ==
  ASSUME TypeInv, [Next]_vars
  PROVE  Copies
  <1>1. ASSUME NEW s \in Schedulers, Elect(s) PROVE Copies
    BY <1>1, SameMemory, SameGoroutines, SameRecon DEF Elect, Copies, store, rows, local
  <1>2. ASSUME NEW s \in Schedulers, Restart(s) PROVE Copies
    BY <1>2, RecoveredCopies, SameGoroutines, SameRecon DEF Restart, Copies, store, rows
  <1>3. CASE LoseLease
    BY <1>3, SameMemory, SameGoroutines, SameRecon DEF LoseLease, Copies, store, rows, local
  <1>4. ASSUME NEW m \in net, WorkerExecute(m) PROVE Copies
    BY <1>4, SameMemory, SameGoroutines, SameRecon DEF WorkerExecute, Copies, store, rows, local
  <1>5. CASE UNCHANGED vars
    BY <1>5, SameMemory, SameGoroutines, SameRecon DEF Copies, vars, store, rows, local
  <1> QED
    BY <1>1, <1>2, <1>3, <1>4, <1>5, RunLoopCopies, ReconcileCopies, ResumeCopies,
       GoroutineCopies, CrashCopies DEF Next
-----------------------------------------------------------------------------
(* The log is append-only: no step takes a record back. *)
LEMMA LogGrows ==
  ASSUME [Next]_vars
  PROVE  log \subseteq log'
  <1>1. ASSUME NEW s, NEW e, NEW att, NEW w, AppendTransition(s, e, att, w) PROVE log \subseteq log'
    BY <1>1 DEF AppendTransition
  <1>2. PersistFails => log' = log
    BY Zenon DEF PersistFails, rows
  <1>3. ASSUME NEW s, NEW to, recordJobTransition(s, to) PROVE log \subseteq log'
    BY Zenon, <1>1, <1>2, <1>3 DEF recordJobTransition, store, rows
  <1>4. ASSUME NEW s \in Schedulers, NEW t \in Tasks, Goroutine(s, t) PROVE log \subseteq log'
    <2>1. PersistTask(s, t, gor[s][t].w) => log \subseteq log'
      BY Zenon, <1>1 DEF PersistTask
    <2>2. CASE EndClaim(s, t) \/ EndTaskRunning(s, t) \/ EndTaskOutcome(s, t)
      BY Zenon, <1>2, <2>1, <2>2 DEF EndClaim, EndTaskRunning, EndTaskOutcome, rows
    <2>3. CASE RecordJobRunning(s, t)
      BY Zenon, <1>3, <2>3 DEF RecordJobRunning
    <2>4. CASE BeginClaim(s, t) \/ ReadJobState(s, t) \/ BeginTaskRunning(s, t)
                 \/ CheckAuthority(s, t) \/ ReturnFromNode(s, t)
      BY <2>4 DEF BeginClaim, ReadJobState, BeginTaskRunning, CheckAuthority, ReturnFromNode, store, rows
    <2> QED
      BY Zenon, <1>4, <2>2, <2>3, <2>4 DEF Goroutine
  <1>5. ASSUME NEW s \in Schedulers, RunLoop(s) \/ Reconcile(s) PROVE log \subseteq log'
    <2>1. CASE RunWithoutTasks(s) \/ FinishJob(s) \/ ReconcileRecord(s)
      BY Zenon, <1>3, <2>1 DEF RunWithoutTasks, FinishJob, ReconcileRecord
    <2>2. CASE Dequeue(s) \/ Refresh(s) \/ NextStage(s)
      BY <2>2 DEF Dequeue, Refresh, NextStage, store, rows
    <2>3. CASE TryEnqueueExistingQueuedJob(s) \/ ReconcileReplay(s) \/ ReconcileFail(s) \/ ReconcileApply(s)
      BY <2>3 DEF TryEnqueueExistingQueuedJob, ReconcileReplay, ReconcileFail, ReconcileApply, store, rows
    <2> QED
      BY Zenon, <1>5, <2>1, <2>2, <2>3 DEF RunLoop, Reconcile
  <1>6. ASSUME NEW s \in Schedulers,
               ResumeAwaitingHumanJob(s) \/ Elect(s) \/ Crash(s) \/ Restart(s)
        PROVE  log' = log
    BY <1>6 DEF ResumeAwaitingHumanJob, Elect, Crash, Restart, store, rows
  <1>7. ASSUME LoseLease \/ (\E m \in net : WorkerExecute(m)) \/ UNCHANGED vars PROVE log' = log
    BY <1>7 DEF LoseLease, WorkerExecute, vars, store, rows
  <1> QED
    BY Zenon, <1>4, <1>5, <1>6, <1>7 DEF Next
-----------------------------------------------------------------------------
(* The inductive invariant: whatever memory may be copied from is recorded. *)
SourcesRecorded ==
  /\ JobIn(log, jobRow)
  /\ \A t \in Tasks : TaskIn(log, t, "PENDING")
  /\ \A s \in Schedulers, t \in Tasks :
       gor[s][t].pc \in Writing => JobIn(log, gor[s][t].w.snap)
  /\ \A s \in Schedulers : recon[s].pc = "apply" =>
       /\ JobIn(log, recon[s].rp.job)
       /\ \A t \in Tasks : recon[s].rp.task[t] # "" => TaskIn(log, t, recon[s].rp.task[t])

MemoryInv == SourcesRecorded /\ MemoryBehindLog

(* The initial state satisfies the memory invariant. *)
LEMMA MemoryInit == Init => MemoryInv
  <1> SUFFICES ASSUME Init PROVE MemoryInv
    OBVIOUS
  <1>1. PICK s0 \in Schedulers :
          /\ log = SubmittedLog(s0)
          /\ mem = [s \in Schedulers |->
                      IF s = s0 THEN [job |-> "QUEUED", task |-> [t \in Tasks |-> "PENDING"]]
                                ELSE NoJob]
    BY DEF Init
  <1>2. /\ gor = [s \in Schedulers |-> [t \in Tasks |-> OffGor]]
        /\ recon = [s \in Schedulers |-> IdleRecon] /\ jobRow = "QUEUED"
    BY Zenon DEF Init
  <1>3. JobIn(log, "QUEUED") /\ \A t \in Tasks : TaskIn(log, t, "PENDING")
    <2> DEFINE q == [seq |-> 2, ent |-> JobEnt, state |-> "QUEUED", att |-> 0, by |-> s0]
               p(t) == [seq |-> 1, ent |-> t, state |-> "PENDING", att |-> 0, by |-> s0]
    <2>1. q \in log /\ \A t \in Tasks : p(t) \in log
      BY <1>1 DEF SubmittedLog
    <2> QED
      BY Zenon, <2>1 DEF JobIn, TaskIn
  <1>4. \A s \in Schedulers : recon[s].pc # "apply"
    BY <1>2 DEF IdleRecon
  <1>5. \A s \in Schedulers, t \in Tasks : gor[s][t].pc \notin Writing
    BY <1>2, OffFits DEF Writing
  <1>6. SourcesRecorded
    BY <1>2, <1>3, <1>4, <1>5 DEF SourcesRecorded
  <1>7. \A s \in Schedulers :
          /\ mem[s].job \in {"QUEUED", Absent}
          /\ \A t \in Tasks : mem[s].task[t] \in {"", "PENDING"}
    BY <1>1 DEF NoJob
  <1>8. MemoryBehindLog
    <2>1. ASSUME NEW s \in Schedulers, mem[s].job # Absent PROVE JobIn(log, mem[s].job)
      BY <1>3, <1>7, <2>1
    <2>2. ASSUME NEW s \in Schedulers, NEW t \in Tasks, mem[s].task[t] # ""
          PROVE  TaskIn(log, t, mem[s].task[t])
      BY <1>3, <1>7, <2>2
    <2> QED
      BY <2>1, <2>2 DEF MemoryBehindLog, JobIn, TaskIn
  <1> QED
    BY <1>6, <1>8 DEF MemoryInv

(* Every step preserves the memory invariant. *)
LEMMA MemoryStep ==
  ASSUME TypeInv, MemoryInv, log \subseteq log', Copies
  PROVE  MemoryInv'
  <1>1. /\ \A st : JobIn(log, st) => JobIn(log', st)
        /\ \A t, st : TaskIn(log, t, st) => TaskIn(log', t, st)
    BY DEF JobIn, TaskIn
  <1>2. JobIn(log', jobRow')
    BY <1>1 DEF Copies, MemEffects, RowEffect, MemoryInv, SourcesRecorded
  <1>3. \A t \in Tasks : TaskIn(log', t, "PENDING")
    BY <1>1 DEF MemoryInv, SourcesRecorded
  <1>4. ASSUME NEW s \in Schedulers, NEW t \in Tasks, gor'[s][t].pc \in Writing
        PROVE  JobIn(log', gor'[s][t].w.snap)
    <2>1. SnapEffect(s, t)
      BY DEF Copies, SnapEffects
    <2>2. mem[s].job # Absent => JobIn(log, mem[s].job)
      BY DEF MemoryInv, MemoryBehindLog, JobIn
    <2> QED
      BY <1>1, <1>4, <2>1, <2>2 DEF SnapEffect, MemoryInv, SourcesRecorded
  <1>5. ASSUME NEW s \in Schedulers, recon'[s].pc = "apply"
        PROVE  /\ JobIn(log', recon'[s].rp.job)
               /\ \A t \in Tasks : recon'[s].rp.task[t] # "" => TaskIn(log', t, recon'[s].rp.task[t])
    <2>1. ReplayEffect(s)
      BY DEF Copies, ReplayEffects
    <2>2. CASE /\ recon[s].pc = "apply" /\ recon'[s].rp.job = recon[s].rp.job
               /\ recon'[s].rp.task = recon[s].rp.task
      BY <1>1, <2>2 DEF MemoryInv, SourcesRecorded
    <2>3. CASE /\ recon'[s].rp.job = ReplayedState(log, JobEnt)
               /\ \A t \in Tasks : recon'[s].rp.task[t] \in {"", ReplayedState(log, t)}
      BY <2>3, ReplayBacked
    <2> QED
      BY <1>5, <2>1, <2>2, <2>3 DEF ReplayEffect
  <1>6. SourcesRecorded'
    BY <1>2, <1>3, <1>4, <1>5 DEF SourcesRecorded
  <1>7. ASSUME NEW s \in Schedulers
        PROVE  /\ mem'[s].job # Absent => JobIn(log', mem'[s].job)
               /\ \A t \in Tasks : mem'[s].task[t] # "" => TaskIn(log', t, mem'[s].task[t])
    <2>1. MemEffect(s)
      BY DEF Copies, MemEffects
    <2>2. mem[s].job # Absent => JobIn(log, mem[s].job)
      BY DEF MemoryInv, MemoryBehindLog, JobIn
    <2>3. \A t \in Tasks : mem[s].task[t] # "" => TaskIn(log, t, mem[s].task[t])
      BY DEF MemoryInv, MemoryBehindLog, TaskIn
    <2>4. mem'[s].job # Absent => JobIn(log', mem'[s].job)
      BY <1>1, <2>1, <2>2, ReplayBacked DEF MemEffect, MemoryInv, SourcesRecorded
    <2>5. ASSUME NEW t \in Tasks, mem'[s].task[t] # "" PROVE TaskIn(log', t, mem'[s].task[t])
      BY <1>1, <1>3, <2>1, <2>3, <2>5 DEF MemEffect, MemoryInv, SourcesRecorded
    <2> QED
      BY <2>4, <2>5
  <1> QED
    BY <1>6, <1>7 DEF MemoryInv, MemoryBehindLog, JobIn, TaskIn

(* The memory invariant holds in every reachable state. *)
LEMMA MemoryInvariant == Spec => [](TypeInv /\ MemoryInv)
  <1>1. TypeInv /\ MemoryInv /\ [Next]_vars => MemoryInv'
    BY LogGrows, StepCopies, MemoryStep
  <1> QED
    BY <1>1, MemoryInit, TypeInvariant, PTL DEF Spec

(* A scheduler's memory is never ahead of the log: every job and task state  *)
(* it holds was committed by someone, whatever transactions failed, whoever  *)
(* crashed and whatever a stale replay overwrote (recordJobTransition and    *)
(* recordTaskTransition change memory only after the transaction committed). *)
THEOREM MemoryFollowsLog == Spec => []MemoryBehindLog
  BY MemoryInvariant, PTL DEF MemoryInv

-----------------------------------------------------------------------------
(* Success: the job in the log. *)

(* The job's records J, n of which were numbered: the submission is the     *)
(* first one, the last one has number n, and where they replay a recorded   *)
(* failure is final.                                                        *)
JobLog(J, n) ==
  /\ n \in Nat /\ n >= 2
  /\ \A r \in J : r.ent = JobEnt /\ r.seq \in 1..n
  /\ \A p, r \in J : p.seq = r.seq => p = r
  /\ \E l \in J : l.seq = n
  /\ \A r \in J : r.state = "SUBMITTED" => r.seq = 1
  /\ ReplayOK(J) => \A r, l \in J : (r.state = "FAILED" /\ l.seq = n) => l.state = "FAILED"

(* A job write appends the next record, and keeps that. *)
LEMMA JobLogAppend ==
  ASSUME NEW J, NEW n, JobLog(J, n), NEW q, q.ent = JobEnt, q.seq = n + 1, q.state # "SUBMITTED"
  PROVE  JobLog(J \cup {q}, n + 1)
  <1>0. n \in Nat /\ n >= 2 /\ \A r \in J : r.ent = JobEnt /\ r.seq \in 1..n
    BY DEF JobLog
  <1>1. PICK k \in J : k.seq = n
    BY DEF JobLog
  <1>2. \A p, r \in J \cup {q} : p.seq = r.seq => p = r
    BY <1>0 DEF JobLog
  <1>3. \A r \in J \cup {q} : r.state = "SUBMITTED" => r.seq = 1
    BY DEF JobLog
  <1>4. ASSUME ReplayOK(J \cup {q}), NEW r \in J, r.state = "FAILED"
        PROVE  q.state = "FAILED"
    <2>1. ReplayOK(J)
      <3> SUFFICES ASSUME NEW a \in J, NEW b \in J, Precedes(J, a, b)
                   PROVE  CanTransition(a.ent, a.state, b.state)
        BY DEF ReplayOK
      <3>1. Precedes(J \cup {q}, a, b)
        BY <1>0 DEF Precedes
      <3> QED
        BY <1>4, <3>1 DEF ReplayOK
    <2>2. k.state = "FAILED"
      BY <1>1, <1>4, <2>1 DEF JobLog
    <2>3. Precedes(J \cup {q}, k, q)
      BY <1>0, <1>1 DEF Precedes
    <2>4. CanTransition(k.ent, k.state, q.state)
      BY <1>1, <1>4, <2>3 DEF ReplayOK
    <2> QED
      BY <1>0, <1>1, <2>2, <2>4 DEF CanTransition, CanTransitionJobState, validJobTransitions
  <1>5. \A l \in J \cup {q} : l.seq = n + 1 => l = q
    BY <1>0
  <1>6. ReplayOK(J \cup {q}) =>
          \A r, l \in J \cup {q} : (r.state = "FAILED" /\ l.seq = n + 1) => l.state = "FAILED"
    BY <1>4, <1>5
  <1>7. \A r \in J \cup {q} : r.ent = JobEnt /\ r.seq \in 1..(n + 1)
    BY <1>0
  <1> QED
    BY <1>0, <1>2, <1>3, <1>6, <1>7 DEF JobLog

JobRecords == RecordsOf(log, JobEnt)

(* What a replay of the log yields for the job: never its submission, and   *)
(* its failure once one was recorded.                                       *)
LEMMA JobReplayed ==
  ASSUME TypeInv, JobLog(JobRecords, order[JobEnt])
  PROVE  /\ ReplayedState(log, JobEnt) # "SUBMITTED"
         /\ ReplayOK(log) /\ JobIn(log, "FAILED") => ReplayedState(log, JobEnt) = "FAILED"
  <1> DEFINE n == order[JobEnt]
             k == Latest(log, JobEnt)
  <1>1. PICK r \in JobRecords : IsLatest(log, r)
    BY Entities DEF TypeInv, WrittenTypes, HasLatest, HasLatestIn, RecordsOf, JobRecords
  <1>2. k \in JobRecords /\ IsLatest(log, k)
    BY <1>1 DEF Latest, JobRecords
  <1>3. ReplayedState(log, JobEnt) = k.state
    BY <1>1 DEF ReplayedState, JobRecords
  <1> HIDE DEF k
  <1>4. k.seq = n /\ n >= 2
    <2>1. PICK l \in JobRecords : l.seq = n
      BY DEF JobLog
    <2>2. l.seq <= k.seq
      BY <1>2, <2>1 DEF IsLatest, JobRecords, RecordsOf
    <2>3. n \in Nat /\ n >= 2 /\ k.seq \in 1..n
      BY <1>2 DEF JobLog
    <2> QED
      BY <2>1, <2>2, <2>3
  <1>5. k.state # "SUBMITTED"
    BY <1>2, <1>4 DEF JobLog
  <1>6. ASSUME ReplayOK(log), JobIn(log, "FAILED") PROVE k.state = "FAILED"
    <2>1. ReplayOK(JobRecords)
      <3> SUFFICES ASSUME NEW a \in JobRecords, NEW b \in JobRecords, Precedes(JobRecords, a, b)
                   PROVE  CanTransition(a.ent, a.state, b.state)
        BY DEF ReplayOK
      <3>1. a \in log /\ b \in log /\ Precedes(log, a, b)
        BY DEF Precedes, JobRecords, RecordsOf
      <3> QED
        BY <1>6, <3>1 DEF ReplayOK
    <2>2. PICK f \in JobRecords : f.state = "FAILED"
      BY <1>6 DEF JobIn, JobRecords, RecordsOf
    <2> QED
      BY <1>2, <1>4, <2>1, <2>2 DEF JobLog
  <1> QED
    BY <1>3, <1>5, <1>6

-----------------------------------------------------------------------------
(* Where a scheduler is when it records the success of the job: at the end  *)
(* of the last stage, or with the outcome the replayed tasks imply.         *)
MaySucceed(s) ==
  \/ StageDone(s) /\ StageOutcomes(s) = {} /\ run[s].stage = NumStages
  \/ recon[s].pc = "record" /\ recon[s].want = "SUCCEEDED"

(* What a step whose transaction does not fail does to the job's records. *)
JobLogEffect ==
  \/ JobRecords' = JobRecords /\ order'[JobEnt] = order[JobEnt]
  \/ \E q :
       /\ q.ent = JobEnt /\ q.seq = order[JobEnt] + 1 /\ q.state # "SUBMITTED"
       /\ q.state = "SUCCEEDED" => \E s \in Schedulers : MaySucceed(s)
       /\ JobRecords' = JobRecords \cup {q} /\ order'[JobEnt] = order[JobEnt] + 1

(* Steps that leave the log alone. *)
LEMMA SameJobLog ==
  ASSUME UNCHANGED <<log, order>>
  PROVE  JobLogEffect
  BY DEF JobLogEffect, JobRecords

(* A job write without a fault: refused as illegal, or appended. *)
LEMMA JobWritten ==
  ASSUME TypeInv, NEW s \in Schedulers, NEW to, recordJobTransition(s, to), faults' = 0
  PROVE  \/ ~CanTransitionJobState(mem[s].job, to) /\ UNCHANGED <<log, order, mem>>
         \/ /\ \E q : /\ q.ent = JobEnt /\ q.seq = order[JobEnt] + 1 /\ q.state = to
                      /\ log' = log \cup {q}
            /\ order'[JobEnt] = order[JobEnt] + 1
            /\ mem' = [mem EXCEPT ![s].job = to]
  <1>1. CASE /\ NextSequenceID(JobEnt) /\ AppendTransition(s, JobEnt, 0, Write(s, JobEnt, to))
             /\ mem' = [mem EXCEPT ![s].job = to]
    <2> DEFINE q == [seq |-> order[JobEnt] + 1, ent |-> JobEnt, state |-> to, att |-> 0, by |-> s]
    <2>1. log' = log \cup {q}
      BY <1>1 DEF AppendTransition, Write
    <2>2. q.ent = JobEnt /\ q.seq = order[JobEnt] + 1 /\ q.state = to
      OBVIOUS
    <2>3. order'[JobEnt] = order[JobEnt] + 1
      BY <1>1, Entities DEF NextSequenceID, TypeInv, WrittenTypes
    <2> HIDE DEF q
    <2> QED
      BY <1>1, <2>1, <2>2, <2>3
  <1>2. CASE PersistFails
    BY <1>2 DEF PersistFails, TypeInv, WrittenTypes
  <1> QED
    BY <1>1, <1>2 DEF recordJobTransition, store, rows

(* What that does to the job's records. *)
LEMMA JobWriteLog ==
  ASSUME TypeInv, NEW s \in Schedulers, NEW to, recordJobTransition(s, to), faults' = 0,
         to # "SUBMITTED", to = "SUCCEEDED" => MaySucceed(s)
  PROVE  JobLogEffect
  <1>1. CASE UNCHANGED <<log, order>>
    BY <1>1, SameJobLog
  <1>2. ASSUME NEW q, q.ent = JobEnt, q.seq = order[JobEnt] + 1, q.state = to,
               log' = log \cup {q}, order'[JobEnt] = order[JobEnt] + 1
        PROVE  JobLogEffect
    <2>1. JobRecords' = JobRecords \cup {q}
      BY <1>2 DEF JobRecords, RecordsOf
    <2> QED
      BY <1>2, <2>1 DEF JobLogEffect
  <1> QED
    BY <1>1, <1>2, JobWritten

(* A goroutine numbers and appends records of its task only. *)
LEMMA TaskWriteLog ==
  ASSUME TypeInv, NEW s \in Schedulers, NEW t \in Tasks, NextSequenceID(t) \/ UNCHANGED order,
         PersistTask(s, t, gor[s][t].w) \/ UNCHANGED log
  PROVE  JobLogEffect
  <1>1. order'[JobEnt] = order[JobEnt]
    BY Zenon, Entities DEF NextSequenceID, TypeInv, WrittenTypes
  <1>2. JobRecords' = JobRecords
    <2> DEFINE q == [seq |-> gor[s][t].w.seq, ent |-> t, state |-> gor[s][t].w.state,
                     att |-> gor[s][t].att, by |-> s]
    <2>1. q.ent # JobEnt
      BY Entities
    <2>2. log' = log \cup {q} \/ log' = log
      BY DEF PersistTask, AppendTransition
    <2> HIDE DEF q
    <2> QED
      BY <2>1, <2>2 DEF JobRecords, RecordsOf
  <1> QED
    BY <1>1, <1>2 DEF JobLogEffect

(* The job's records after a step of a goroutine. *)
LEMMA GoroutineLog ==
  ASSUME TypeInv, NEW s \in Schedulers, NEW t \in Tasks, Goroutine(s, t), faults' = 0
  PROVE  JobLogEffect
  <1>0. PersistFails => UNCHANGED log
    BY DEF PersistFails, rows
  <1>1. CASE RecordJobRunning(s, t)
    BY <1>1, JobWriteLog DEF RecordJobRunning
  <1>2. CASE ReadJobState(s, t) \/ CheckAuthority(s, t)
    BY <1>2, SameJobLog DEF ReadJobState, CheckAuthority, store, rows
  <1>3. CASE BeginClaim(s, t) \/ BeginTaskRunning(s, t) \/ ReturnFromNode(s, t)
    BY <1>3, TaskWriteLog DEF BeginClaim, BeginTaskRunning, ReturnFromNode, BeginTaskOutcome, rows
  <1>4. CASE EndClaim(s, t) \/ EndTaskRunning(s, t) \/ EndTaskOutcome(s, t)
    BY <1>0, <1>4, TaskWriteLog DEF EndClaim, EndTaskRunning, EndTaskOutcome, rows
  <1> QED
    BY <1>1, <1>2, <1>3, <1>4 DEF Goroutine

(* The job's records after a step of the run loop. *)
LEMMA RunLoopLog ==
  ASSUME TypeInv, NEW s \in Schedulers, RunLoop(s), faults' = 0
  PROVE  JobLogEffect
  <1>1. CASE Dequeue(s) \/ Refresh(s) \/ NextStage(s)
    BY <1>1, SameJobLog DEF Dequeue, Refresh, NextStage, store, rows
  <1>2. CASE RunWithoutTasks(s)
    BY <1>2, JobWriteLog DEF RunWithoutTasks
  <1>3. CASE FinishJob(s)
    <2>1. \E to : /\ recordJobTransition(s, to) /\ to # "SUBMITTED"
                  /\ to = "SUCCEEDED" => MaySucceed(s)
      BY <1>3 DEF FinishJob, StageOutcomes, MaySucceed
    <2> QED
      BY <2>1, JobWriteLog
  <1> QED
    BY <1>1, <1>2, <1>3 DEF RunLoop

(* The job's records after a step of the reconcile loop. *)
LEMMA ReconcileLog ==
  ASSUME TypeInv, NEW s \in Schedulers, Reconcile(s), faults' = 0
  PROVE  JobLogEffect
  <1>1. CASE TryEnqueueExistingQueuedJob(s) \/ ReconcileReplay(s) \/ ReconcileFail(s) \/ ReconcileApply(s)
    BY <1>1, SameJobLog
       DEF TryEnqueueExistingQueuedJob, ReconcileReplay, ReconcileFail, ReconcileApply, store, rows
  <1>2. CASE ReconcileRecord(s)
    BY <1>2, JobWriteLog DEF ReconcileRecord, MaySucceed, TypeInv, ReplayFound
  <1> QED
    BY <1>1, <1>2 DEF Reconcile

(* The job's records after any step. *)
LEMMA StepLog ==
  ASSUME TypeInv, [Next]_vars, faults' = 0
  PROVE  JobLogEffect
  <1>1. ASSUME NEW s \in Schedulers,
               ResumeAwaitingHumanJob(s) \/ Elect(s) \/ Crash(s) \/ Restart(s)
        PROVE  JobLogEffect
    BY <1>1, SameJobLog DEF ResumeAwaitingHumanJob, Elect, Crash, Restart, store, rows
  <1>2. CASE LoseLease \/ \E m \in net : WorkerExecute(m)
    BY <1>2, SameJobLog DEF LoseLease, WorkerExecute, store, rows
  <1>3. CASE UNCHANGED vars
    BY <1>3, SameJobLog DEF vars, store, rows
  <1> QED
    BY <1>1, <1>2, <1>3, RunLoopLog, ReconcileLog, GoroutineLog DEF Next

-----------------------------------------------------------------------------
(* A run without store faults and resumes. *)
Faultless == faults = 0 /\ resumes = 0

(* It has been one all along. *)
LEMMA WasFaultless ==
  ASSUME TypeInv, [Next]_vars, Faultless'
  PROVE  Faultless /\ \A s \in Schedulers : ~ResumeAwaitingHumanJob(s)
  <1>0. faults \in Nat /\ resumes \in Nat
    BY DEF TypeInv, WrittenTypes, ControlTypes
  <1>1. \A s \in Schedulers : ~ResumeAwaitingHumanJob(s)
    <2>1. \A s \in Schedulers : ResumeAwaitingHumanJob(s) => resumes' = resumes + 1
      BY Zenon DEF ResumeAwaitingHumanJob
    <2> QED
      BY <1>0, <2>1 DEF Faultless
  <1>2. PersistFails => faults' = faults + 1
    BY DEF PersistFails
  <1>3. ASSUME NEW s \in Schedulers, NEW to, recordJobTransition(s, to)
        PROVE  faults' \in {faults, faults + 1}
    BY <1>2, <1>3 DEF recordJobTransition
  <1>4. ASSUME NEW s \in Schedulers, NEW t \in Tasks, Goroutine(s, t)
        PROVE  faults' \in {faults, faults + 1} /\ resumes' = resumes
    BY Zenon, <1>2, <1>3, <1>4 DEF Goroutine, BeginClaim, EndClaim, ReadJobState, RecordJobRunning,
       BeginTaskRunning, EndTaskRunning, CheckAuthority, ReturnFromNode, EndTaskOutcome, PersistTask, bounds
  <1>5. ASSUME NEW s \in Schedulers, RunLoop(s)
        PROVE  faults' \in {faults, faults + 1} /\ resumes' = resumes
    BY <1>3, <1>5 DEF RunLoop, Dequeue, Refresh, RunWithoutTasks, NextStage, FinishJob, bounds
  <1>6. ASSUME NEW s \in Schedulers, Reconcile(s)
        PROVE  faults' \in {faults, faults + 1} /\ resumes' = resumes
    BY <1>3, <1>6 DEF Reconcile, TryEnqueueExistingQueuedJob, ReconcileReplay, ReconcileFail,
       ReconcileApply, ReconcileRecord, bounds
  <1>7. ASSUME \/ \E s \in Schedulers : Elect(s) \/ Crash(s) \/ Restart(s)
               \/ LoseLease \/ (\E m \in net : WorkerExecute(m)) \/ UNCHANGED vars
        PROVE  UNCHANGED <<faults, resumes>>
    BY <1>7 DEF Elect, Crash, Restart, LoseLease, WorkerExecute, vars, bounds
  <1>8. faults' \in {faults, faults + 1} /\ resumes' = resumes
    BY Zenon, <1>1, <1>4, <1>5, <1>6, <1>7 DEF Next
  <1> QED
    BY <1>0, <1>1, <1>8 DEF Faultless

(* No copy of the job state is the one of the submission, which was followed *)
(* by JOB_QUEUED before any scheduler looked.                                *)
Late ==
  /\ jobRow # "SUBMITTED"
  /\ \A s \in Schedulers :
       /\ mem[s].job # "SUBMITTED"
       /\ recon[s].pc = "apply" => recon[s].rp.job # "SUBMITTED"
       /\ \A t \in Tasks : gor[s][t].pc \in Writing => gor[s][t].w.snap # "SUBMITTED"

(* Copies of later states are later states. *)
LEMMA LateStep ==
  ASSUME Late, Copies, ReplayedState(log, JobEnt) # "SUBMITTED"
  PROVE  Late'
  <1>1. jobRow' # "SUBMITTED"
    BY DEF Late, Copies, MemEffects, RowEffect
  <1>2. ASSUME NEW s \in Schedulers PROVE mem'[s].job # "SUBMITTED"
    <2>1. MemEffect(s)
      BY DEF Copies, MemEffects
    <2> QED
      BY <2>1 DEF Late, MemEffect, Absent
  <1>3. ASSUME NEW s \in Schedulers, recon'[s].pc = "apply" PROVE recon'[s].rp.job # "SUBMITTED"
    BY <1>3 DEF Late, Copies, ReplayEffects, ReplayEffect
  <1>4. ASSUME NEW s \in Schedulers, NEW t \in Tasks, gor'[s][t].pc \in Writing
        PROVE  gor'[s][t].w.snap # "SUBMITTED"
    <2>1. SnapEffect(s, t)
      BY DEF Copies, SnapEffects
    <2> QED
      BY <1>4, <2>1 DEF Late, SnapEffect
  <1> QED
    BY <1>1, <1>2, <1>3, <1>4 DEF Late

-----------------------------------------------------------------------------
(* What a scheduler knows and has earned.  Its local state is named u (up), *)
(* m (memory), q (queued), r (run loop), g (goroutines), rc (reconcile      *)
(* loop); D are the tasks with a TASK_SUCCEEDED record.                     *)

Known(m) == \A t \in Tasks : m.task[t] # ""

(* Threads run while the process is up, goroutines while the run loop waits *)
(* for them, and no job without tasks is run.                               *)
Rests(u, q, r, g, rc) ==
  /\ ~u => r.pc = "idle" /\ rc.pc = "idle" /\ ~q
  /\ r.pc # "wait" => \A t \in Tasks : g[t].pc = "off"
  /\ r.pc # "noTasks"

(* A job that is queued or run is known with its tasks; one that was built  *)
(* without them is failed, or about to be; a replay builds all tasks.       *)
Knows(m, q, r, rc) ==
  /\ q \/ r.pc # "idle" => Known(m)
  /\ (m.job # Absent /\ ~Known(m)) =>
       \/ rc.pc = "record" /\ rc.want = "FAILED" /\ ~IsTerminalJobState(m.job)
       \/ m.job = "FAILED" /\ rc.pc # "record" /\ (rc.pc = "apply" => rc.rp.job = "FAILED")
  /\ (rc.pc = "apply" /\ m.job = Absent) => \A t \in Tasks : rc.rp.task[t] # ""

(* A goroutine that may send or has sent is recorded as running, one that   *)
(* reported no error has succeeded, and so have the tasks of the stages     *)
(* behind; a stage that found a node for every task has started them all.   *)
Earned(m, r, g, D) ==
  \A t \in Tasks :
    /\ g[t].pc \in {"auth", "sent"} => m.task[t] = "RUNNING"
    /\ g[t].pc = "done" /\ g[t].res = "ok" => t \in D
    /\ r.pc = "wait" /\ StageOf[t] < r.stage => t \in D
    /\ r.pc = "wait" /\ r.sel /\ StageOf[t] = r.stage => g[t].pc # "off"

(* The reconcile loop concludes success when all tasks have succeeded. *)
Concludes(rc, D) ==
  /\ rc.pc = "apply" /\ rc.rp.outcome = "SUCCEEDED" => D = Tasks
  /\ rc.pc = "record" /\ rc.want = "SUCCEEDED" => D = Tasks

Ended == {t \in Tasks : TaskIn(log, t, "SUCCEEDED")}

Fit(s) ==
  /\ Rests(up[s], queued[s], run[s], gor[s], recon[s])
  /\ Knows(mem[s], queued[s], run[s], recon[s])
  /\ Earned(mem[s], run[s], gor[s], Ended)
  /\ Concludes(recon[s], Ended)

(* The step leaves the local state of a scheduler alone. *)
Same(s) ==
  /\ up'[s] = up[s] /\ queued'[s] = queued[s] /\ run'[s] = run[s]
  /\ gor'[s] = gor[s] /\ recon'[s] = recon[s] /\ mem'[s] = mem[s]

(* Succeeded tasks stay so. *)
LEMMA EndedGrows ==
  ASSUME log \subseteq log'
  PROVE  Ended \subseteq Ended' /\ (Ended = Tasks => Ended' = Tasks)
  <1>1. Ended \subseteq Ended'
    BY DEF Ended, TaskIn
  <1> QED
    BY <1>1 DEF Ended

(* The other schedulers stay fit. *)
LEMMA SameFit ==
  ASSUME NEW s \in Schedulers, Fit(s), Same(s), log \subseteq log'
  PROVE  Fit(s)'
  <1>1. Earned(mem[s], run[s], gor[s], Ended')
    BY EndedGrows DEF Fit, Earned
  <1>2. Concludes(recon[s], Ended')
    BY EndedGrows DEF Fit, Concludes
  <1> QED
    BY <1>1, <1>2 DEF Fit, Same

(* At the end of a stage without errors its tasks have succeeded. *)
LEMMA StageSucceeded ==
  ASSUME TypeInv, NEW s \in Schedulers, Fit(s), StageDone(s), StageOutcomes(s) = {}
  PROVE  \A t \in Tasks : StageOf[t] <= run[s].stage => t \in Ended
  <1> SUFFICES ASSUME NEW t \in Tasks, StageOf[t] <= run[s].stage PROVE t \in Ended
    OBVIOUS
  <1>1. run[s].pc = "wait" /\ gor[s][t].pc \in {"off", "done"}
    BY DEF StageDone
  <1>2. run[s].sel /\ StageErrors(s) = {}
    BY DEF StageOutcomes
  <1>3. StageOf[t] \in Nat /\ run[s].stage \in Nat
    <2>1. run[s].stage \in 0..NumStages
      BY DEF TypeInv, ControlTypes, RunType
    <2> QED
      BY <2>1, DispatchAssumption
  <1>4. CASE StageOf[t] < run[s].stage
    BY <1>1, <1>4 DEF Fit, Earned
  <1>5. CASE StageOf[t] = run[s].stage
    <2>1. gor[s][t].pc = "done"
      BY <1>1, <1>2, <1>5 DEF Fit, Earned
    <2>2. gor[s][t].res = "ok"
      BY <1>2, <2>1 DEF StageErrors
    <2> QED
      BY <2>1, <2>2 DEF Fit, Earned
  <1> QED
    BY <1>3, <1>4, <1>5

(* So success is only recorded when all tasks have succeeded. *)
LEMMA SuccessEarned ==
  ASSUME TypeInv, NEW s \in Schedulers, Fit(s), MaySucceed(s)
  PROVE  Ended = Tasks
  <1>1. CASE StageDone(s) /\ StageOutcomes(s) = {} /\ run[s].stage = NumStages
    <2>1. \A t \in Tasks : StageOf[t] <= run[s].stage
      BY <1>1, DispatchAssumption
    <2>2. \A t \in Tasks : t \in Ended
      BY <1>1, <2>1, StageSucceeded
    <2> QED
      BY <2>2 DEF Ended
  <1>2. CASE recon[s].pc = "record" /\ recon[s].want = "SUCCEEDED"
    BY <1>2 DEF Fit, Concludes
  <1> QED
    BY <1>1, <1>2 DEF MaySucceed

-----------------------------------------------------------------------------
(* Steps of a goroutine. *)

(* What a goroutine's step may do to memory: only the state of its task     *)
(* changes, to another one, and the job stays.                              *)
TaskMoves(s, t) ==
  /\ mem'[s].job # Absent
  /\ mem'[s].task[t] # ""
  /\ \A u \in Tasks \ {t} : mem'[s].task[u] = mem[s].task[u]

(* What it may do to the goroutine: the next state is sound. *)
Sound(s, t, g) ==
  /\ g.pc # "off"
  /\ g.pc \in {"auth", "sent"} => mem'[s].task[t] = "RUNNING"
  /\ g.pc = "done" /\ g.res = "ok" => t \in Ended'

(* A scheduler whose goroutine makes a sound step stays fit. *)
LEMMA GorFit ==
  ASSUME TypeInv, NEW s \in Schedulers, NEW t \in Tasks, Fit(s), NEW g, Goto(s, t, g),
         gor[s][t].pc # "off", UNCHANGED <<up, queued, run, recon>>, log \subseteq log',
         TaskMoves(s, t), Sound(s, t, g)
  PROVE  Fit(s)'
  <1>1. /\ gor'[s][t] = g
        /\ \A u \in Tasks \ {t} : gor'[s][u] = gor[s][u]
    <2>1. /\ gor'[s][t] = g
          /\ \A x \in Schedulers, u \in Tasks : (x # s \/ u # t) => gor'[x][u] = gor[x][u]
      BY OneMoves
    <2> QED
      BY Zenon, <2>1
  <1>2. run[s].pc = "wait"
    BY DEF Fit, Rests
  <1>3. Known(mem[s])
    BY <1>2 DEF Fit, Knows
  <1>4. Known(mem'[s])
    BY <1>3 DEF Known, TaskMoves
  <1>5. Rests(up[s], queued[s], run[s], gor'[s], recon[s])
    BY <1>2 DEF Fit, Rests
  <1>6. Knows(mem'[s], queued[s], run[s], recon[s])
    BY <1>4 DEF Knows, TaskMoves
  <1>7. Earned(mem'[s], run[s], gor'[s], Ended')
    <2> SUFFICES ASSUME NEW u \in Tasks
                 PROVE  /\ gor'[s][u].pc \in {"auth", "sent"} => mem'[s].task[u] = "RUNNING"
                        /\ gor'[s][u].pc = "done" /\ gor'[s][u].res = "ok" => u \in Ended'
                        /\ run[s].pc = "wait" /\ StageOf[u] < run[s].stage => u \in Ended'
                        /\ run[s].pc = "wait" /\ run[s].sel /\ StageOf[u] = run[s].stage
                             => gor'[s][u].pc # "off"
      BY DEF Earned
    <2>1. run[s].pc = "wait" /\ StageOf[u] < run[s].stage => u \in Ended'
      BY EndedGrows DEF Fit, Earned
    <2>2. CASE u = t
      BY <1>1, <2>1, <2>2 DEF Sound
    <2>3. CASE u # t
      BY <1>1, <2>1, <2>3, EndedGrows DEF Fit, Earned, TaskMoves
    <2> QED
      BY <2>2, <2>3
  <1>8. Concludes(recon[s], Ended')
    BY EndedGrows DEF Fit, Concludes
  <1> QED
    BY <1>5, <1>6, <1>7, <1>8 DEF Fit

(* A goroutine works for a job that its scheduler knows with its tasks. *)
LEMMA WorksOnKnown ==
  ASSUME TypeInv, NEW s \in Schedulers, NEW t \in Tasks, Fit(s), gor[s][t].pc # "off"
  PROVE  mem[s].job # Absent /\ mem[s].task[t] # ""
  <1>1. run[s].pc # "idle"
    BY DEF Fit, Rests
  <1> QED
    BY <1>1 DEF Fit, Knows, Known, TypeInv, Present

(* Memory that stays the same. *)
LEMMA StaysKnown ==
  ASSUME TypeInv, NEW s \in Schedulers, NEW t \in Tasks, Fit(s), gor[s][t].pc # "off",
         UNCHANGED mem
  PROVE  TaskMoves(s, t)
  BY WorksOnKnown DEF TaskMoves

(* A job write leaves the tasks alone. *)
LEMMA JobWriteMoves ==
  ASSUME TypeInv, NEW s \in Schedulers, NEW t \in Tasks, Fit(s), gor[s][t].pc # "off",
         NEW to, to # Absent, recordJobTransition(s, to), faults' = 0
  PROVE  TaskMoves(s, t)
  <1>1. CASE UNCHANGED mem
    BY <1>1, StaysKnown
  <1>2. CASE mem' = [mem EXCEPT ![s].job = to]
    <2>1. mem'[s].job = to /\ mem'[s].task = mem[s].task
      BY <1>2 DEF TypeInv, WrittenTypes, MemType
    <2> QED
      BY <2>1, WorksOnKnown DEF TaskMoves
  <1> QED
    BY <1>1, <1>2, JobWritten

(* A task write moves the task to the state that is recorded. *)
LEMMA TaskWritten ==
  ASSUME TypeInv, NEW s \in Schedulers, NEW t \in Tasks, Fit(s), gor[s][t].pc \in Writing,
         PersistTask(s, t, gor[s][t].w) \/ PersistFails, faults' = 0
  PROVE  /\ TaskMoves(s, t)
         /\ mem'[s].task[t] = gor[s][t].w.state
         /\ gor[s][t].w.state = "SUCCEEDED" => t \in Ended'
  <1> DEFINE w == gor[s][t].w
             q == [seq |-> w.seq, ent |-> t, state |-> w.state, att |-> gor[s][t].att, by |-> s]
  <1>1. PersistTask(s, t, w)
    BY DEF PersistFails, TypeInv, WrittenTypes
  <1>2. /\ mem'[s].job = mem[s].job /\ mem'[s].task[t] = w.state
        /\ \A u \in Tasks \ {t} : mem'[s].task[u] = mem[s].task[u]
    BY <1>1 DEF TypeInv, WrittenTypes, MemType, PersistTask
  <1>3. w.state # ""
    BY DEF TypeInv, WriteReady, WriteFits, Writing
  <1>4. q \in log' /\ q.ent = t /\ q.state = w.state
    BY <1>1 DEF PersistTask, AppendTransition
  <1> HIDE DEF q
  <1>5. w.state = "SUCCEEDED" => t \in Ended'
    BY <1>4 DEF Ended, TaskIn
  <1>6. mem[s].job # Absent
    BY WorksOnKnown DEF Writing
  <1> QED
    BY <1>2, <1>3, <1>5, <1>6 DEF TaskMoves

(* A goroutine that retries or ends with an error, or with a success that   *)
(* was recorded.                                                            *)
LEMMA RetryFit ==
  ASSUME TypeInv, NEW s \in Schedulers, NEW t \in Tasks, Fit(s), gor[s][t].pc # "off",
         UNCHANGED <<up, queued, run, recon>>, log \subseteq log', TaskMoves(s, t),
         \/ RetryOrGiveUp(s, t)
         \/ \E res : Goto(s, t, Done(res)) /\ (res = "ok" => t \in Ended')
  PROVE  Fit(s)'
  <1> DEFINE c == [OffGor EXCEPT !.pc = "claim", !.att = gor[s][t].att + 1]
  <1>1. c.pc = "claim"
    BY DEF OffGor
  <1>2. \A res : Done(res).pc = "done" /\ Done(res).res = res
    BY Zenon DEF Done, OffGor
  <1>3. Goto(s, t, c) \/ \E res : Goto(s, t, Done(res)) /\ (res = "ok" => t \in Ended')
    BY DEF RetryOrGiveUp
  <1> HIDE DEF c
  <1>4. CASE Goto(s, t, c)
    <2>1. Sound(s, t, c)
      BY <1>1 DEF Sound
    <2> QED
      BY <1>4, <2>1, GorFit
  <1>5. ASSUME NEW res, Goto(s, t, Done(res)), res = "ok" => t \in Ended' PROVE Fit(s)'
    <2>1. Sound(s, t, Done(res))
      BY <1>2, <1>5 DEF Sound
    <2> QED
      BY <1>5, <2>1, GorFit
  <1> QED
    BY <1>3, <1>4, <1>5

(* A goroutine ends without an error only after its success was recorded. *)
LEMMA AfterTaskFit ==
  ASSUME TypeInv, NEW s \in Schedulers, NEW t \in Tasks, Fit(s), gor[s][t].pc # "off",
         UNCHANGED <<up, queued, run, recon>>, log \subseteq log', TaskMoves(s, t),
         NEW res, AfterTask(s, t, res), res = "ok" => t \in Ended'
  PROVE  Fit(s)'
  BY RetryFit DEF AfterTask

(* The outcome of a task that is running is always recorded. *)
LEMMA BeginTaskOutcomeFit ==
  ASSUME TypeInv, NEW s \in Schedulers, NEW t \in Tasks, Fit(s), gor[s][t].pc = "sent",
         UNCHANGED <<up, queued, run, recon, log, mem>>, NEW res, BeginTaskOutcome(s, t, res)
  PROVE  Fit(s)'
  <1> DEFINE to == IF res = "ok" THEN "SUCCEEDED" ELSE "FAILED"
             g == [gor[s][t] EXCEPT !.pc = "finW", !.tok = 0, !.res = res, !.w = Write(s, t, to)]
  <1>1. mem[s].task[t] = "RUNNING"
    BY DEF Fit, Earned
  <1>2. CanTransitionTaskState(mem[s].task[t], to)
    BY <1>1 DEF CanTransitionTaskState, validTaskTransitions
  <1>3. Goto(s, t, g)
    BY <1>2 DEF BeginTaskOutcome
  <1>4. g.pc = "finW"
    BY GorTyped DEF GorType
  <1> HIDE DEF g
  <1>5. Sound(s, t, g) /\ TaskMoves(s, t)
    BY <1>4, StaysKnown DEF Sound
  <1> QED
    BY <1>3, <1>5, GorFit

(* A scheduler stays fit when one of its goroutines steps. *)
LEMMA GoroutineFit ==
  ASSUME TypeInv, NEW s \in Schedulers, NEW t \in Tasks, Fit(s), Goroutine(s, t), faults' = 0,
         log \subseteq log'
  PROVE  Fit(s)'
  <1>0. gor[s][t] \in GorType
    BY GorTyped
  <1>1. CASE BeginClaim(s, t)
    <2> DEFINE g == [gor[s][t] EXCEPT !.pc = "claimW", !.w = Write(s, t, "DISPATCHED")]
    <2>1. g.pc = "claimW"
      BY <1>0, MovedFields
    <2>2. /\ UNCHANGED <<up, queued, run, recon, mem>> /\ gor[s][t].pc # "off"
          /\ Goto(s, t, g) \/ RetryOrGiveUp(s, t)
      BY <1>1 DEF BeginClaim, local
    <2> HIDE DEF g
    <2>3. TaskMoves(s, t) /\ Sound(s, t, g)
      BY <2>1, <2>2, StaysKnown DEF Sound
    <2> QED
      BY <2>2, <2>3, GorFit, RetryFit
  <1>2. CASE EndClaim(s, t)
    <2> DEFINE g == [gor[s][t] EXCEPT !.pc = "first", !.w = NoWrite]
    <2>0. UNCHANGED <<up, queued, run, recon>> /\ gor[s][t].pc = "claimW" /\ gor[s][t].pc \in Writing
      BY <1>2 DEF EndClaim, Writing
    <2>1. \/ PersistTask(s, t, gor[s][t].w) /\ Goto(s, t, g)
          \/ RetryOrGiveUp(s, t) /\ UNCHANGED mem
          \/ PersistFails
      BY <1>2 DEF EndClaim
    <2>2. g.pc = "first"
      BY <1>0, MovedFields
    <2> HIDE DEF g
    <2>3. CASE PersistTask(s, t, gor[s][t].w) /\ Goto(s, t, g)
      <3>1. TaskMoves(s, t) /\ Sound(s, t, g)
        BY <2>0, <2>2, <2>3, TaskWritten DEF Sound
      <3> QED
        BY <2>0, <2>3, <3>1, GorFit
    <2>4. CASE RetryOrGiveUp(s, t) /\ UNCHANGED mem
      BY <2>0, <2>4, StaysKnown, RetryFit
    <2>5. CASE PersistFails
      BY <2>5 DEF PersistFails, TypeInv, WrittenTypes
    <2> QED
      BY <2>1, <2>3, <2>4, <2>5
  <1>3. CASE ReadJobState(s, t) \/ RecordJobRunning(s, t)
    <2>1. /\ UNCHANGED <<up, queued, run, recon>> /\ gor[s][t].pc # "off"
          /\ \E p \in {"job", "run"} : Goto(s, t, [gor[s][t] EXCEPT !.pc = p])
      BY <1>3 DEF ReadJobState, RecordJobRunning, local
    <2>2. PICK p \in {"job", "run"} : Goto(s, t, [gor[s][t] EXCEPT !.pc = p])
      BY <2>1
    <2> DEFINE g == [gor[s][t] EXCEPT !.pc = p]
    <2>3. g.pc \in {"job", "run"}
      BY <1>0, MovedFields
    <2>4. TaskMoves(s, t)
      BY <1>3, <2>1, StaysKnown, JobWriteMoves DEF ReadJobState, RecordJobRunning, local, Absent
    <2>5. Goto(s, t, g)
      BY <2>2
    <2> HIDE DEF g
    <2>6. Sound(s, t, g)
      BY <2>3 DEF Sound
    <2> QED
      BY <2>1, <2>4, <2>5, <2>6, GorFit
  <1>4. CASE BeginTaskRunning(s, t)
    <2> DEFINE g == [gor[s][t] EXCEPT !.pc = "runW", !.w = Write(s, t, "RUNNING")]
    <2>1. g.pc = "runW"
      BY <1>0, MovedFields
    <2>2. UNCHANGED <<up, queued, run, recon, mem>> /\ gor[s][t].pc # "off" /\ Goto(s, t, g)
      BY <1>4 DEF BeginTaskRunning, local
    <2> HIDE DEF g
    <2>3. TaskMoves(s, t) /\ Sound(s, t, g)
      BY <2>1, <2>2, StaysKnown DEF Sound
    <2> QED
      BY <2>2, <2>3, GorFit
  <1>5. CASE EndTaskRunning(s, t)
    <2> DEFINE g == [gor[s][t] EXCEPT !.pc = "auth", !.w = NoWrite]
    <2>1. g.pc = "auth"
      BY <1>0, MovedFields
    <2>2. /\ UNCHANGED <<up, queued, run, recon>> /\ gor[s][t].pc = "runW" /\ Goto(s, t, g)
          /\ PersistTask(s, t, gor[s][t].w) \/ PersistFails
      BY <1>5 DEF EndTaskRunning
    <2> HIDE DEF g
    <2>3. TaskMoves(s, t) /\ mem'[s].task[t] = gor[s][t].w.state
      BY <2>2, TaskWritten DEF Writing
    <2>4. gor[s][t].w.state = "RUNNING"
      BY <2>2 DEF TypeInv, WriteReady, WriteFits
    <2>5. Sound(s, t, g)
      BY <2>1, <2>3, <2>4 DEF Sound
    <2> QED
      BY <2>2, <2>3, <2>5, GorFit
  <1>6. CASE CheckAuthority(s, t)
    <2> DEFINE g == [gor[s][t] EXCEPT !.pc = "sent", !.tok = epoch]
    <2>1. g.pc = "sent"
      BY Zenon, <1>0 DEF GorType
    <2>2. /\ UNCHANGED <<up, queued, run, recon, mem>> /\ gor[s][t].pc = "auth"
          /\ Goto(s, t, g) \/ Goto(s, t, Done("err"))
      BY <1>6 DEF CheckAuthority, local
    <2> HIDE DEF g
    <2>3. mem[s].task[t] = "RUNNING"
      BY <2>2 DEF Fit, Earned
    <2>4. TaskMoves(s, t) /\ Sound(s, t, g)
      BY <2>1, <2>2, <2>3, StaysKnown DEF Sound
    <2>5. CASE Goto(s, t, g)
      BY Zenon, <2>2, <2>4, <2>5, GorFit
    <2>6. CASE Goto(s, t, Done("err"))
      <3>1. "err" # "ok" /\ gor[s][t].pc # "off"
        BY <2>2
      <3> QED
        BY Zenon, <2>2, <2>4, <2>6, <3>1, RetryFit
    <2> QED
      BY Zenon, <2>2, <2>5, <2>6
  <1>7. CASE ReturnFromNode(s, t)
    <2>1. /\ UNCHANGED <<up, queued, run, recon, log, mem>> /\ gor[s][t].pc = "sent"
          /\ (\E res : BeginTaskOutcome(s, t, res)) \/ Goto(s, t, Done("err"))
      BY Zenon, <1>7 DEF ReturnFromNode, local, rows
    <2>2. "err" # "ok" /\ gor[s][t].pc # "off"
      BY <2>1
    <2>3. CASE \E res : BeginTaskOutcome(s, t, res)
      BY Zenon, <2>1, <2>3, BeginTaskOutcomeFit
    <2>4. CASE Goto(s, t, Done("err"))
      <3>1. TaskMoves(s, t)
        BY Zenon, <2>1, <2>2, StaysKnown
      <3> QED
        BY Zenon, <2>1, <2>2, <2>4, <3>1, RetryFit
    <2> QED
      BY Zenon, <2>1, <2>3, <2>4
  <1>8. CASE EndTaskOutcome(s, t)
    <2>1. /\ UNCHANGED <<up, queued, run, recon>> /\ gor[s][t].pc = "finW"
          /\ PersistTask(s, t, gor[s][t].w) \/ PersistFails
          /\ AfterTask(s, t, gor[s][t].res)
      BY Zenon, <1>8 DEF EndTaskOutcome
    <2>2. gor[s][t].res = "ok" => gor[s][t].w.state = "SUCCEEDED"
      BY <2>1 DEF TypeInv, WriteReady, WriteFits
    <2>3. TaskMoves(s, t) /\ (gor[s][t].res = "ok" => t \in Ended')
      BY <2>1, <2>2, TaskWritten DEF Writing
    <2> QED
      BY <2>1, <2>3, AfterTaskFit
  <1> QED
    BY <1>1, <1>2, <1>3, <1>4, <1>5, <1>6, <1>7, <1>8 DEF Goroutine

-----------------------------------------------------------------------------
(* Steps of the run loop. *)

(* A stage starts when the stages before it have succeeded. *)
LEMMA StageFit ==
  ASSUME TypeInv, NEW s \in Schedulers, NEW m, Known(m), NEW k \in 1..NumStages,
         executeStage(s, m, k), \A t \in Tasks : StageOf[t] < k => t \in Ended'
  PROVE  /\ run'[s].pc = "wait"
         /\ Earned(m, run'[s], gor'[s], Ended')
         /\ \A x \in Schedulers \ {s} : run'[x] = run[x] /\ gor'[x] = gor[x]
  <1>1. PICK started \in SUBSET StageTasks(m, k) :
          /\ run' = [run EXCEPT ![s] = [pc |-> "wait", stage |-> k, sel |-> started = StageTasks(m, k)]]
          /\ gor' = [gor EXCEPT ![s] = [t \in Tasks |->
                       IF t \in started THEN [OffGor EXCEPT !.pc = "claim", !.att = 1] ELSE OffGor]]
    BY Zenon DEF executeStage
  <1>2. /\ run'[s] = [pc |-> "wait", stage |-> k, sel |-> started = StageTasks(m, k)]
        /\ \A x \in Schedulers \ {s} : run'[x] = run[x] /\ gor'[x] = gor[x]
    BY <1>1 DEF TypeInv, ControlTypes
  <1>3. run'[s].pc = "wait" /\ run'[s].stage = k /\ (run'[s].sel => started = StageTasks(m, k))
    <2> DEFINE all == started = StageTasks(m, k)
               r == [pc |-> "wait", stage |-> k, sel |-> all]
    <2>1. run'[s] = r
      BY <1>2
    <2> HIDE DEF all
    <2>2. r.pc = "wait" /\ r.stage = k /\ r.sel = all
      OBVIOUS
    <2> HIDE DEF r
    <2>3. run'[s].pc = "wait" /\ run'[s].stage = k /\ run'[s].sel = all
      BY <2>1, <2>2
    <2> QED
      BY Zenon, <2>3 DEF all
  <1>4. [OffGor EXCEPT !.pc = "claim", !.att = 1].pc = "claim" /\ OffGor.pc = "off"
    BY DEF OffGor
  <1>5. \A t \in Tasks : gor'[s][t].pc = IF t \in started THEN "claim" ELSE "off"
    BY <1>1, <1>4 DEF TypeInv, ControlTypes
  <1>6. \A t \in Tasks : StageOf[t] = k => t \in StageTasks(m, k)
    BY DEF StageTasks, KnownTasks, Known
  <1>7. Earned(m, run'[s], gor'[s], Ended')
    BY <1>3, <1>5, <1>6 DEF Earned
  <1> QED
    BY <1>2, <1>3, <1>7

(* The job a replay builds has all its tasks. *)
LEMMA RecoveredKnown ==
  ASSUME TypeInv
  PROVE  Known(RecoveredJob) /\ RecoveredJob.job # Absent
  <1>1. ReplayedTasks \in [Tasks -> TaskLifecycleState]
    BY ReplayedTypes DEF TypeInv, WrittenTypes
  <1>2. RecoveredJob.task = ReplayedTasks
    BY DEF RecoveredJob
  <1>3. \A t \in Tasks : ReplayedTasks[t] # ""
    BY <1>1 DEF TaskLifecycleState
  <1>4. RecoveredJob.job # Absent
    BY ReplayedTypes DEF TypeInv, WrittenTypes, RecoveredJob, JobLifecycleState, Absent
  <1> QED
    BY <1>2, <1>3, <1>4 DEF Known

(* A run loop that is idle, with its goroutines off, owes nothing. *)
LEMMA IdleEarned ==
  ASSUME NEW m, NEW r, NEW g, NEW D, r.pc # "wait", \A t \in Tasks : g[t].pc = "off"
  PROVE  Earned(m, r, g, D)
  BY DEF Earned

(* Dequeue leaves the scheduler fit. *)
LEMMA DequeueFit ==
  ASSUME TypeInv, NEW s \in Schedulers, Fit(s), Dequeue(s)
  PROVE  Fit(s)' /\ \A x \in Schedulers \ {s} : Same(x)
  <1>1. /\ up[s] /\ run[s].pc = "idle" /\ queued[s]
        /\ UNCHANGED <<up, mem, gor, recon, log>>
    BY DEF Dequeue, store, rows
  <1>2. /\ run'[s].pc \in {"refresh", "idle"} /\ queued'[s] = FALSE
        /\ \A x \in Schedulers \ {s} : run'[x] = run[x] /\ queued'[x] = queued[x]
    BY DEF Dequeue, TypeInv, ControlTypes, RunType
  <1>3. Rests(up[s], queued'[s], run'[s], gor[s], recon[s])
    BY <1>1, <1>2 DEF Fit, Rests
  <1>4. Knows(mem[s], queued'[s], run'[s], recon[s])
    BY Zenon, <1>1, <1>2 DEF Fit, Knows
  <1>5. Earned(mem[s], run'[s], gor[s], Ended)
    BY <1>2, <1>3, IdleEarned DEF Rests
  <1>6. Ended' = Ended
    BY <1>1 DEF Ended
  <1> QED
    BY Zenon, <1>1, <1>2, <1>3, <1>4, <1>5, <1>6 DEF Fit, Same

(* The next stage starts when this one has succeeded. *)
LEMMA NextStageFit ==
  ASSUME TypeInv, NEW s \in Schedulers, Fit(s), NextStage(s)
  PROVE  Fit(s)' /\ \A x \in Schedulers \ {s} : Same(x)
  <1>1. /\ run[s].pc = "wait" /\ StageDone(s) /\ StageOutcomes(s) = {}
        /\ executeStage(s, mem[s], run[s].stage + 1) /\ run[s].stage < NumStages
        /\ UNCHANGED <<up, mem, queued, recon, log>>
    BY Zenon DEF NextStage, StageDone, store, rows, local
  <1>2. Known(mem[s]) /\ up[s]
    BY Zenon, <1>1 DEF Fit, Knows, Rests
  <1>3. run[s].stage \in Nat /\ run[s].stage + 1 \in 1..NumStages
    <2>1. run[s].stage \in 0..NumStages
      BY DEF TypeInv, ControlTypes, RunType
    <2> QED
      BY <1>1, <2>1, DispatchAssumption
  <1>4. Ended' = Ended
    BY Zenon, <1>1 DEF Ended
  <1>5. \A t \in Tasks : StageOf[t] < run[s].stage + 1 => t \in Ended'
    <2>1. \A t \in Tasks : StageOf[t] \in Nat
      BY DispatchAssumption
    <2>2. ASSUME NEW k \in Nat, NEW j \in Nat, j < k + 1 PROVE j <= k
      BY <2>2
    <2>3. \A t \in Tasks : StageOf[t] < run[s].stage + 1 => StageOf[t] <= run[s].stage
      BY <1>3, <2>1, <2>2
    <2> QED
      BY Zenon, <1>1, <1>4, <2>3, StageSucceeded
  <1>6. /\ run'[s].pc = "wait" /\ Earned(mem[s], run'[s], gor'[s], Ended')
        /\ \A x \in Schedulers \ {s} : run'[x] = run[x] /\ gor'[x] = gor[x]
    BY <1>1, <1>2, <1>3, <1>5, StageFit
  <1>7. Rests(up[s], queued[s], run'[s], gor'[s], recon[s])
    BY <1>2, <1>6 DEF Rests
  <1>8. Knows(mem[s], queued[s], run'[s], recon[s])
    BY Zenon, <1>2 DEF Fit, Knows
  <1> QED
    BY Zenon, <1>1, <1>4, <1>6, <1>7, <1>8 DEF Fit, Same

(* A job that is executed is known with its tasks, by replay or from before. *)
LEMMA RefreshFit ==
  ASSUME TypeInv, NEW s \in Schedulers, Fit(s), Refresh(s)
  PROVE  Fit(s)' /\ \A x \in Schedulers \ {s} : Same(x)
  <1>1. /\ run[s].pc = "refresh" /\ UNCHANGED <<up, queued, log>>
        /\ Seeded(s) \/ UNCHANGED <<grown, recon>>
        /\ mem' = [mem EXCEPT ![s] = RecoveredJob] \/ UNCHANGED mem
        /\ \/ executeJob(s, mem'[s])
           \/ run' = [run EXCEPT ![s] = IdleRun] /\ UNCHANGED gor
    BY DEF Refresh, store, rows
  <1>2. Known(mem[s]) /\ up[s] /\ mem[s].job # Absent
    BY Zenon, <1>1 DEF Fit, Knows, Rests, TypeInv, Present
  <1>3. Known(mem'[s]) /\ mem'[s].job # Absent
    BY <1>1, <1>2, RecoveredKnown DEF TypeInv, WrittenTypes
  <1>4. /\ recon'[s].pc = recon[s].pc /\ recon'[s].want = recon[s].want
        /\ recon'[s].rp.outcome = recon[s].rp.outcome
        /\ \A x \in Schedulers \ {s} : recon'[x] = recon[x] /\ mem'[x] = mem[x]
    <2>1. \A x \in Schedulers \ {s} : mem'[x] = mem[x]
      BY <1>1 DEF TypeInv, WrittenTypes
    <2>2. CASE Seeded(s)
      <3>1. /\ recon'[s] = [recon[s] EXCEPT !.rp.newer = FALSE]
            /\ \A x \in Schedulers \ {s} : recon'[x] = recon[x]
        BY <2>2 DEF Seeded, TypeInv, ControlTypes
      <3>2. recon[s] \in ReconType
        BY DEF TypeInv, ControlTypes
      <3>3. ASSUME NEW rc \in ReconType, NEW d, d = [rc EXCEPT !.rp.newer = FALSE]
            PROVE  d.pc = rc.pc /\ d.want = rc.want /\ d.rp.outcome = rc.rp.outcome
        BY Zenon, <3>3 DEF ReconType, ReplayType
      <3> QED
        BY Zenon, <2>1, <3>1, <3>2, <3>3
    <2>3. CASE UNCHANGED recon
      BY <2>1, <2>3
    <2> QED
      BY <1>1, <2>2, <2>3
  <1>5. Ended' = Ended
    BY <1>1 DEF Ended
  <1>6. /\ run'[s].pc \in {"wait", "idle"} /\ Earned(mem'[s], run'[s], gor'[s], Ended')
        /\ run'[s].pc = "idle" => gor'[s] = gor[s]
        /\ \A x \in Schedulers \ {s} : run'[x] = run[x] /\ gor'[x] = gor[x]
    <2>1. CASE executeJob(s, mem'[s])
      <3>1. 1 \in Tasks /\ 1 \in 1..NumStages
        BY DispatchAssumption DEF Tasks
      <3>2. executeStage(s, mem'[s], 1)
        BY <1>3, <2>1, <3>1 DEF executeJob, KnownTasks, Known
      <3>3. \A t \in Tasks : ~(StageOf[t] < 1)
        BY DispatchAssumption
      <3> QED
        BY <1>3, <3>1, <3>2, <3>3, StageFit
    <2>2. CASE run' = [run EXCEPT ![s] = IdleRun] /\ UNCHANGED gor
      <3>1. run'[s] = IdleRun /\ \A x \in Schedulers \ {s} : run'[x] = run[x]
        BY <2>2 DEF TypeInv, ControlTypes
      <3>2. IdleRun.pc = "idle"
        BY DEF IdleRun
      <3>3. \A t \in Tasks : gor'[s][t].pc = "off"
        BY <1>1, <2>2 DEF Fit, Rests
      <3> QED
        BY <2>2, <3>1, <3>2, <3>3, IdleEarned
    <2> QED
      BY <1>1, <2>1, <2>2
  <1>7. Rests(up[s], queued[s], run'[s], gor'[s], recon'[s])
    BY Zenon, <1>1, <1>2, <1>6 DEF Fit, Rests
  <1>8. Knows(mem'[s], queued[s], run'[s], recon'[s])
    BY <1>3 DEF Knows
  <1>9. Concludes(recon'[s], Ended')
    BY Zenon, <1>4, <1>5 DEF Fit, Concludes
  <1> QED
    BY Zenon, <1>1, <1>4, <1>6, <1>7, <1>8, <1>9 DEF Fit, Same

(* A finished job leaves the run loop idle. *)
LEMMA FinishJobFit ==
  ASSUME TypeInv, NEW s \in Schedulers, Fit(s), FinishJob(s), faults' = 0, log \subseteq log'
  PROVE  Fit(s)' /\ \A x \in Schedulers \ {s} : Same(x)
  <1>1. /\ run[s].pc = "wait" /\ run' = [run EXCEPT ![s] = IdleRun]
        /\ gor' = [gor EXCEPT ![s] = [t \in Tasks |-> OffGor]] /\ UNCHANGED <<up, queued, recon>>
    BY DEF FinishJob, StageDone
  <1>2. \E to : recordJobTransition(s, to) /\ to # Absent
    <2>1. "SUCCEEDED" # Absent /\ \A to \in StageOutcomes(s) : to # Absent
      BY DEF StageOutcomes, Absent
    <2> QED
      BY Zenon, <2>1 DEF FinishJob
  <1>3. PICK to : recordJobTransition(s, to) /\ to # Absent
    BY <1>2
  <1>4. /\ mem'[s].task = mem[s].task /\ (mem[s].job # Absent => mem'[s].job # Absent)
        /\ \A x \in Schedulers \ {s} : mem'[x] = mem[x]
    <2>1. UNCHANGED mem \/ mem' = [mem EXCEPT ![s].job = to]
      BY <1>3, JobWritten
    <2>2. CASE mem' = [mem EXCEPT ![s].job = to]
      BY <1>3, <2>2 DEF TypeInv, WrittenTypes, MemType
    <2> QED
      BY <2>1, <2>2
  <1>5. Known(mem[s]) /\ up[s] /\ mem[s].job # Absent
    BY Zenon, <1>1 DEF Fit, Knows, Rests, TypeInv, Present
  <1>6. /\ run'[s] = IdleRun /\ IdleRun.pc = "idle" /\ \A t \in Tasks : gor'[s][t].pc = "off"
        /\ \A x \in Schedulers \ {s} : run'[x] = run[x] /\ gor'[x] = gor[x]
    BY Zenon, <1>1, OffMoves DEF TypeInv, ControlTypes, IdleRun
  <1>7. Rests(up[s], queued[s], run'[s], gor'[s], recon[s])
    BY <1>5, <1>6 DEF Rests
  <1>8. Knows(mem'[s], queued[s], run'[s], recon[s])
    BY <1>4, <1>5 DEF Knows, Known
  <1>9. Earned(mem'[s], run'[s], gor'[s], Ended') /\ Concludes(recon[s], Ended')
    BY Zenon, <1>6, IdleEarned, EndedGrows DEF Fit, Concludes
  <1> QED
    BY Zenon, <1>1, <1>4, <1>6, <1>7, <1>8, <1>9 DEF Fit, Same

-----------------------------------------------------------------------------
(* Steps of the reconcile loop. *)

(* A job that is queued from memory is known with its tasks. *)
LEMMA TryEnqueueFit ==
  ASSUME TypeInv, NEW s \in Schedulers, Fit(s), TryEnqueueExistingQueuedJob(s)
  PROVE  Fit(s)' /\ \A x \in Schedulers \ {s} : Same(x)
  <1>1. /\ up[s] /\ recon[s].pc = "idle" /\ mem[s].job = "QUEUED"
        /\ UNCHANGED <<up, mem, run, gor, recon, log>>
    BY Zenon DEF TryEnqueueExistingQueuedJob, Enqueueable, store, rows
  <1>2. \A x \in Schedulers \ {s} : queued'[x] = queued[x]
    BY DEF TryEnqueueExistingQueuedJob, TypeInv, ControlTypes
  <1>3. Known(mem[s])
    BY Zenon, <1>1 DEF Fit, Knows, Absent
  <1>4. Rests(up[s], queued'[s], run[s], gor[s], recon[s])
    BY <1>1 DEF Fit, Rests
  <1>5. Knows(mem[s], queued'[s], run[s], recon[s])
    BY <1>1, <1>3 DEF Knows
  <1>6. Ended' = Ended
    BY <1>1 DEF Ended
  <1> QED
    BY Zenon, <1>1, <1>2, <1>4, <1>5, <1>6 DEF Fit, Same

(* The outcome replayed tasks imply is a success when all have succeeded. *)
LEMMA ReplayedSuccess ==
  ASSUME TypeInv, replayedTerminalJobState = "SUCCEEDED"
  PROVE  Ended = Tasks
  <1> SUFFICES ASSUME NEW t \in Tasks PROVE TaskIn(log, t, "SUCCEEDED")
    BY DEF Ended
  <1>1. ReplayedTasks[t] = "SUCCEEDED"
    BY DEF replayedTerminalJobState
  <1>2. ReplayedState(log, t) = "SUCCEEDED"
    BY <1>1 DEF ReplayedTasks
  <1>3. HasLatest
    BY DEF TypeInv, WrittenTypes
  <1> QED
    BY <1>2, <1>3, Entities, ReplayedIsRecorded DEF TaskIn

(* A replay finds all tasks, the failure of a job that is known as failed,  *)
(* and success only where all tasks have succeeded.                         *)
LEMMA ReconcileReplayFit ==
  ASSUME TypeInv, NEW s \in Schedulers, Fit(s), ReconcileReplay(s), MemoryBehindLog,
         JobLog(JobRecords, order[JobEnt])
  PROVE  Fit(s)' /\ \A x \in Schedulers \ {s} : Same(x)
  <1> DEFINE rc == [IdleRecon EXCEPT !.pc = "apply", !.leader = IsLeader(s), !.rp = ReplaySummary(s)]
  <1>1. rc.pc = "apply" /\ rc.rp = ReplaySummary(s)
    BY DEF IdleRecon
  <1>2. /\ ReplaySummary(s).job = ReplayedState(log, JobEnt)
        /\ ReplaySummary(s).outcome = replayedTerminalJobState
        /\ mem[s].job = Absent => ReplaySummary(s).task = ReplayedTasks
    BY DEF ReplaySummary
  <1> HIDE DEF rc
  <1>3. /\ up[s] /\ recon[s].pc = "idle" /\ ReplayOK(log)
        /\ UNCHANGED <<up, mem, queued, run, gor, log>>
    BY DEF ReconcileReplay, store, rows
  <1>4. recon'[s] = rc /\ \A x \in Schedulers \ {s} : recon'[x] = recon[x]
    BY DEF ReconcileReplay, TypeInv, ControlTypes, rc
  <1>5. \A t \in Tasks : ReplayedTasks[t] # ""
    BY RecoveredKnown DEF Known, RecoveredJob
  <1>6. mem[s].job = "FAILED" => rc.rp.job = "FAILED"
    <2> SUFFICES ASSUME mem[s].job = "FAILED" PROVE rc.rp.job = "FAILED"
      OBVIOUS
    <2>1. mem[s].job # Absent
      BY DEF Absent
    <2>2. \E r \in log : r.ent = JobEnt /\ r.state = mem[s].job
      BY Zenon, <2>1 DEF MemoryBehindLog
    <2>3. JobIn(log, "FAILED")
      BY <2>2 DEF JobIn
    <2> QED
      BY <1>1, <1>2, <1>3, <2>3, JobReplayed
  <1>7. Rests(up[s], queued[s], run[s], gor[s], rc)
    BY Zenon, <1>3 DEF Fit, Rests
  <1>8. Knows(mem[s], queued[s], run[s], rc)
    BY Zenon, <1>1, <1>2, <1>3, <1>5, <1>6 DEF Fit, Knows
  <1>9. Ended' = Ended /\ Concludes(rc, Ended)
    BY Zenon, <1>1, <1>2, <1>3, ReplayedSuccess DEF Concludes, Ended
  <1> QED
    BY Zenon, <1>3, <1>4, <1>7, <1>8, <1>9 DEF Fit, Same

(* A job the reconcile loop builds without tasks is about to be failed. *)
LEMMA ReconcileFailFit ==
  ASSUME TypeInv, NEW s \in Schedulers, Fit(s), ReconcileFail(s)
  PROVE  Fit(s)' /\ \A x \in Schedulers \ {s} : Same(x)
  <1> DEFINE rc == [IdleRecon EXCEPT !.pc = "record", !.want = "FAILED"]
  <1>1. rc.pc = "record" /\ rc.want = "FAILED"
    BY DEF IdleRecon
  <1> HIDE DEF rc
  <1>2. /\ up[s] /\ UNCHANGED <<up, queued, run, gor, log>> /\ ~IsTerminalJobState(mem'[s].job)
    BY DEF ReconcileFail, store, rows
  <1>3. recon'[s] = rc /\ \A x \in Schedulers \ {s} : recon'[x] = recon[x] /\ mem'[x] = mem[x]
    BY DEF ReconcileFail, TypeInv, ControlTypes, WrittenTypes, rc
  <1>4. mem[s].job # Absent => mem'[s] = mem[s]
    BY DEF ReconcileFail, TypeInv, WrittenTypes
  <1>5. mem[s].job = Absent => /\ ~queued[s] /\ run[s].pc = "idle"
                               /\ \A t \in Tasks : gor[s][t].pc = "off"
    BY Zenon DEF TypeInv, Present
  <1>6. Rests(up[s], queued[s], run[s], gor[s], rc)
    BY <1>2 DEF Fit, Rests
  <1>7. Knows(mem'[s], queued[s], run[s], rc)
    BY Zenon, <1>1, <1>2, <1>4, <1>5 DEF Fit, Knows
  <1>8. Ended' = Ended /\ Concludes(rc, Ended)
    BY Zenon, <1>1, <1>2 DEF Ended, Concludes
  <1>9. Earned(mem'[s], run[s], gor[s], Ended)
    BY Zenon, <1>4, <1>5, IdleEarned DEF Fit
  <1> QED
    BY Zenon, <1>2, <1>3, <1>6, <1>7, <1>8, <1>9 DEF Fit, Same

(* Applying a replay builds the job with its tasks, and revives no job that *)
(* was failed.                                                              *)
LEMMA ReconcileApplyFit ==
  ASSUME TypeInv, NEW s \in Schedulers, Fit(s), ReconcileApply(s)
  PROVE  Fit(s)' /\ \A x \in Schedulers \ {s} : Same(x)
  <1> DEFINE rp == recon[s].rp
             m == WarmJob(s)
             rw == [IdleRecon EXCEPT !.pc = "record", !.want = rp.outcome]
             synthesize == recon[s].leader /\ m.job = "RUNNING" /\ rp.outcome # ""
  <1>1. /\ recon[s].pc = "apply" /\ UNCHANGED <<up, run, gor, log>>
        /\ mem' = [mem EXCEPT ![s] = m]
        /\ queued' = [queued EXCEPT ![s] = @ \/ (recon[s].leader /\ Enqueueable(m))]
        /\ recon' = [recon EXCEPT ![s] = IF synthesize THEN rw ELSE IdleRecon]
    BY DEF ReconcileApply, store, rows
  <1>2. /\ mem'[s] = m /\ queued'[s] = (queued[s] \/ (recon[s].leader /\ Enqueueable(m)))
        /\ recon'[s] = (IF synthesize THEN rw ELSE IdleRecon)
        /\ \A x \in Schedulers \ {s} : mem'[x] = mem[x] /\ queued'[x] = queued[x] /\ recon'[x] = recon[x]
    BY <1>1 DEF TypeInv, WrittenTypes, ControlTypes
  <1>3. rw.pc = "record" /\ rw.want = rp.outcome /\ IdleRecon.pc = "idle"
    BY DEF IdleRecon
  <1>4. /\ mem[s].job = Absent => m.task = rp.task
        /\ mem[s].job # Absent => m.task = mem[s].task /\ m.job \in {mem[s].job, rp.job}
    BY DEF WarmJob, TypeInv, WrittenTypes, MemType
  <1>5. /\ recon'[s].pc \in {"idle", "record"}
        /\ recon'[s].pc = "record" => m.job = "RUNNING" /\ recon'[s].want = rp.outcome
        /\ queued'[s] => queued[s] \/ m.job = "QUEUED"
    BY <1>2, <1>3 DEF Enqueueable
  <1> HIDE DEF m, rw, synthesize
  <1>6. up[s]
    BY Zenon, <1>1 DEF Fit, Rests
  <1>7. mem[s].job = Absent => /\ ~queued[s] /\ run[s].pc = "idle" /\ Known(m)
                               /\ \A t \in Tasks : gor[s][t].pc = "off"
    BY Zenon, <1>1, <1>4 DEF Fit, Knows, Known, TypeInv, Present
  <1>8. mem[s].job # Absent => \/ Known(mem[s]) /\ Known(m)
                               \/ ~Known(mem[s]) /\ m.job = "FAILED"
    BY Zenon, <1>1, <1>4 DEF Fit, Knows, Known
  <1>9. Rests(up[s], queued'[s], run[s], gor[s], recon'[s])
    BY Zenon, <1>6 DEF Fit, Rests
  <1>10. Knows(m, queued'[s], run[s], recon'[s])
    BY Zenon, <1>5, <1>7, <1>8 DEF Fit, Knows
  <1>11. Earned(m, run[s], gor[s], Ended)
    BY Zenon, <1>4, <1>7, IdleEarned DEF Fit, Earned
  <1>12. Ended' = Ended /\ Concludes(recon'[s], Ended)
    BY Zenon, <1>1, <1>5 DEF Fit, Concludes, Ended
  <1> QED
    BY Zenon, <1>1, <1>2, <1>9, <1>10, <1>11, <1>12 DEF Fit, Same

(* A job known without its tasks is not terminal, so its failure is legal. *)
LEMMA ReconcileRecordFit ==
  ASSUME TypeInv, NEW s \in Schedulers, Fit(s), ReconcileRecord(s), faults' = 0, Late,
         log \subseteq log'
  PROVE  Fit(s)' /\ \A x \in Schedulers \ {s} : Same(x)
  <1>1. /\ recon[s].pc = "record" /\ recordJobTransition(s, recon[s].want)
        /\ recon' = [recon EXCEPT ![s] = IdleRecon] /\ UNCHANGED <<up, queued, run, gor>>
        /\ mem[s].job \in JobLifecycleState \ {"SUBMITTED"}
    BY Zenon DEF ReconcileRecord, Late, TypeInv, Present, WrittenTypes, MemType
  <1>2. recon'[s] = IdleRecon /\ IdleRecon.pc = "idle" /\ \A x \in Schedulers \ {s} : recon'[x] = recon[x]
    BY Zenon, <1>1 DEF TypeInv, ControlTypes, IdleRecon
  <1>3. \/ ~CanTransitionJobState(mem[s].job, recon[s].want) /\ UNCHANGED mem
        \/ mem' = [mem EXCEPT ![s].job = recon[s].want]
    BY <1>1, JobWritten
  <1>4. /\ mem'[s].task = mem[s].task /\ \A x \in Schedulers \ {s} : mem'[x] = mem[x]
        /\ CanTransitionJobState(mem[s].job, recon[s].want) => mem'[s].job = recon[s].want
    <2>1. CASE mem' = [mem EXCEPT ![s].job = recon[s].want]
      BY <2>1 DEF TypeInv, WrittenTypes, MemType
    <2> QED
      BY Zenon, <1>3, <2>1
  <1>5. Known(mem'[s]) <=> Known(mem[s])
    BY Zenon, <1>4 DEF Known
  <1>6. ASSUME ~Known(mem[s]) PROVE mem'[s].job = "FAILED"
    <2>0. mem[s].job # Absent
      BY <1>1 DEF JobLifecycleState, Absent
    <2>1. recon[s].want = "FAILED" /\ ~IsTerminalJobState(mem[s].job)
      BY Zenon, <1>1, <1>6, <2>0 DEF Fit, Knows
    <2>2. CanTransitionJobState(mem[s].job, "FAILED")
      <3>1. mem[s].job \in {"QUEUED", "RUNNING", "AWAITING_HUMAN"}
        BY <1>1, <2>1 DEF JobLifecycleState, IsTerminalJobState
      <3>2. /\ "FAILED" \in validJobTransitions["QUEUED"]
            /\ "FAILED" \in validJobTransitions["RUNNING"]
            /\ "FAILED" \in validJobTransitions["AWAITING_HUMAN"]
        BY DEF validJobTransitions
      <3> QED
        BY Zenon, <3>1, <3>2 DEF CanTransitionJobState
    <2> QED
      BY <1>4, <2>1, <2>2
  <1>7. up[s]
    BY Zenon, <1>1 DEF Fit, Rests
  <1>8. Rests(up[s], queued[s], run[s], gor[s], IdleRecon)
    BY <1>7 DEF Fit, Rests
  <1>9. Knows(mem'[s], queued[s], run[s], IdleRecon)
    BY Zenon, <1>2, <1>5, <1>6 DEF Fit, Knows
  <1>10. Earned(mem'[s], run[s], gor[s], Ended')
    BY Zenon, <1>4, EndedGrows DEF Fit, Earned
  <1>11. Concludes(IdleRecon, Ended')
    BY <1>2 DEF Concludes
  <1> QED
    BY Zenon, <1>1, <1>2, <1>4, <1>8, <1>9, <1>10, <1>11 DEF Fit, Same

(* The reconcile loop leaves the scheduler fit. *)
LEMMA ReconcileFit ==
  ASSUME TypeInv, NEW s \in Schedulers, Fit(s), Reconcile(s), faults' = 0, log \subseteq log',
         MemoryBehindLog, JobLog(JobRecords, order[JobEnt]), Late
  PROVE  Fit(s)' /\ \A x \in Schedulers \ {s} : Same(x)
  BY TryEnqueueFit, ReconcileReplayFit, ReconcileFailFit, ReconcileApplyFit, ReconcileRecordFit
     DEF Reconcile

(* And so does the run loop, which never runs a job without tasks. *)
LEMMA RunLoopFit ==
  ASSUME TypeInv, NEW s \in Schedulers, Fit(s), RunLoop(s), faults' = 0, log \subseteq log'
  PROVE  Fit(s)' /\ \A x \in Schedulers \ {s} : Same(x)
  <1>1. ~RunWithoutTasks(s)
    BY DEF RunWithoutTasks, Fit, Rests
  <1> QED
    BY <1>1, DequeueFit, RefreshFit, NextStageFit, FinishJobFit DEF RunLoop

-----------------------------------------------------------------------------
(* All steps. *)

(* A goroutine's step leaves the other schedulers alone. *)
LEMMA GoroutineSame ==
  ASSUME TypeInv, NEW s \in Schedulers, NEW t \in Tasks, Goroutine(s, t)
  PROVE  \A x \in Schedulers \ {s} : Same(x)
  <1>1. UNCHANGED <<up, queued, run, recon>>
    BY DEF Goroutine, BeginClaim, EndClaim, ReadJobState, RecordJobRunning, BeginTaskRunning,
           EndTaskRunning, CheckAuthority, ReturnFromNode, EndTaskOutcome, local
  <1>2. RetryOrGiveUp(s, t) => \E g : Goto(s, t, g)
    BY Zenon DEF RetryOrGiveUp
  <1>3. ASSUME NEW res, AfterTask(s, t, res) \/ BeginTaskOutcome(s, t, res) PROVE \E g : Goto(s, t, g)
    <2>1. AfterTask(s, t, res) => \E g : Goto(s, t, g)
      BY Zenon, <1>2 DEF AfterTask
    <2> QED
      BY Zenon, <1>3, <2>1 DEF BeginTaskOutcome
  <1>4. \E g : Goto(s, t, g)
    <2>1. CASE BeginClaim(s, t) \/ EndClaim(s, t)
      BY Zenon, <1>2, <2>1 DEF BeginClaim, EndClaim
    <2>2. CASE ReadJobState(s, t) \/ RecordJobRunning(s, t) \/ BeginTaskRunning(s, t)
                 \/ EndTaskRunning(s, t) \/ CheckAuthority(s, t)
      BY Zenon, <2>2
         DEF ReadJobState, RecordJobRunning, BeginTaskRunning, EndTaskRunning, CheckAuthority
    <2>3. CASE ReturnFromNode(s, t) \/ EndTaskOutcome(s, t)
      BY Zenon, <1>3, <2>3 DEF ReturnFromNode, EndTaskOutcome
    <2> QED
      BY Zenon, <2>1, <2>2, <2>3 DEF Goroutine
  <1>5. \A x \in Schedulers \ {s} : gor'[x] = gor[x]
    BY <1>4 DEF Goto, TypeInv, ControlTypes
  <1>6. \/ UNCHANGED mem \/ (\E to : mem' = [mem EXCEPT ![s].job = to])
        \/ \E to : mem' = [mem EXCEPT ![s].task[t] = to]
    <2>1. PersistFails => UNCHANGED mem
      BY Zenon DEF PersistFails
    <2>2. PersistTask(s, t, gor[s][t].w) => \E to : mem' = [mem EXCEPT ![s].task[t] = to]
      BY Zenon DEF PersistTask
    <2>3. recordJobTransition(s, "RUNNING") => \/ UNCHANGED mem
                                               \/ \E to : mem' = [mem EXCEPT ![s].job = to]
      BY Zenon, <2>1 DEF recordJobTransition
    <2>4. CASE BeginClaim(s, t) \/ ReadJobState(s, t) \/ BeginTaskRunning(s, t)
                 \/ CheckAuthority(s, t) \/ ReturnFromNode(s, t)
      BY <2>4 DEF BeginClaim, ReadJobState, BeginTaskRunning, CheckAuthority, ReturnFromNode, local
    <2>5. CASE EndClaim(s, t) \/ EndTaskRunning(s, t) \/ EndTaskOutcome(s, t) \/ RecordJobRunning(s, t)
      BY Zenon, <2>1, <2>2, <2>3, <2>5 DEF EndClaim, EndTaskRunning, EndTaskOutcome, RecordJobRunning
    <2> QED
      BY Zenon, <2>4, <2>5 DEF Goroutine
  <1>7. \A x \in Schedulers \ {s} : mem'[x] = mem[x]
    BY <1>6 DEF TypeInv, WrittenTypes
  <1> QED
    BY <1>1, <1>5, <1>7 DEF Same

(* A crashed scheduler owes nothing and knows nothing. *)
LEMMA CrashFit ==
  ASSUME TypeInv, NEW s \in Schedulers, Crash(s)
  PROVE  Fit(s)' /\ \A x \in Schedulers \ {s} : Same(x)
  <1>1. /\ up'[s] = FALSE /\ mem'[s] = NoJob /\ queued'[s] = FALSE /\ run'[s] = IdleRun
        /\ recon'[s] = IdleRecon
        /\ \A x \in Schedulers \ {s} :
             /\ up'[x] = up[x] /\ mem'[x] = mem[x] /\ queued'[x] = queued[x]
             /\ run'[x] = run[x] /\ recon'[x] = recon[x] /\ gor'[x] = gor[x]
    BY DEF Crash, TypeInv, WrittenTypes, ControlTypes
  <1>2. /\ NoJob.job = Absent /\ IdleRun.pc = "idle" /\ IdleRecon.pc = "idle"
        /\ \A t \in Tasks : gor'[s][t].pc = "off"
    <2>1. NoJob.job = Absent /\ IdleRun.pc = "idle" /\ IdleRecon.pc = "idle"
      BY DEF NoJob, IdleRun, IdleRecon
    <2>2. gor' = [gor EXCEPT ![s] = [t \in Tasks |-> OffGor]]
      BY Zenon DEF Crash
    <2>3. \A t \in Tasks : gor'[s][t].pc = "off"
      BY Zenon, <2>2, OffMoves
    <2> QED
      BY Zenon, <2>1, <2>3
  <1>3. Rests(up'[s], queued'[s], run'[s], gor'[s], recon'[s])
    BY <1>1, <1>2 DEF Rests
  <1>4. Knows(mem'[s], queued'[s], run'[s], recon'[s])
    BY <1>1, <1>2 DEF Knows
  <1>5. Earned(mem'[s], run'[s], gor'[s], Ended') /\ Concludes(recon'[s], Ended')
    BY <1>1, <1>2, IdleEarned DEF Concludes
  <1> QED
    BY Zenon, <1>1, <1>3, <1>4, <1>5 DEF Fit, Same

(* A scheduler starts with the job and all its tasks, or without the job. *)
LEMMA RestartFit ==
  ASSUME TypeInv, NEW s \in Schedulers, Fit(s), Restart(s)
  PROVE  Fit(s)' /\ \A x \in Schedulers \ {s} : Same(x)
  <1>1. /\ ~up[s] /\ UNCHANGED <<queued, run, gor, recon, log>>
        /\ mem'[s] \in {RecoveredJob, mem[s]}
        /\ \A x \in Schedulers \ {s} : up'[x] = up[x] /\ mem'[x] = mem[x]
        /\ up'[s] = TRUE
    BY DEF Restart, TypeInv, WrittenTypes, ControlTypes, store, rows
  <1>2. run[s].pc = "idle" /\ recon[s].pc = "idle" /\ ~queued[s] /\ \A t \in Tasks : gor[s][t].pc = "off"
    BY Zenon, <1>1 DEF Fit, Rests
  <1>3. Rests(up'[s], queued[s], run[s], gor[s], recon[s])
    BY <1>1, <1>2 DEF Rests
  <1>4. Knows(mem'[s], queued[s], run[s], recon[s])
    BY Zenon, <1>1, <1>2, RecoveredKnown DEF Fit, Knows
  <1>5. Ended' = Ended /\ Earned(mem'[s], run[s], gor[s], Ended)
    BY Zenon, <1>1, <1>2, IdleEarned DEF Ended
  <1> QED
    BY Zenon, <1>1, <1>3, <1>4, <1>5 DEF Fit, Same

(* Every step without a fault or a resume keeps all schedulers fit. *)
LEMMA StepFit ==
  ASSUME TypeInv, MemoryBehindLog, JobLog(JobRecords, order[JobEnt]), Late,
         \A s \in Schedulers : Fit(s), [Next]_vars, Faultless', log \subseteq log'
  PROVE  \A s \in Schedulers : Fit(s)'
  <1>0. faults' = 0 /\ \A s \in Schedulers : ~ResumeAwaitingHumanJob(s)
    BY WasFaultless DEF Faultless
  <1>1. ASSUME NEW s \in Schedulers, Fit(s)' /\ \A x \in Schedulers \ {s} : Same(x)
        PROVE  \A x \in Schedulers : Fit(x)'
    BY <1>1, SameFit
  <1>2. ASSUME \A s \in Schedulers : Same(s) PROVE \A s \in Schedulers : Fit(s)'
    BY <1>2, SameFit
  <1>3. ASSUME NEW s \in Schedulers, RunLoop(s) \/ Reconcile(s) \/ Crash(s) \/ Restart(s)
        PROVE  \A x \in Schedulers : Fit(x)'
    BY <1>0, <1>1, <1>3, RunLoopFit, ReconcileFit, CrashFit, RestartFit
  <1>4. ASSUME NEW s \in Schedulers, NEW t \in Tasks, Goroutine(s, t)
        PROVE  \A x \in Schedulers : Fit(x)'
    BY <1>0, <1>1, <1>4, GoroutineFit, GoroutineSame
  <1>5. ASSUME \/ \E s \in Schedulers : Elect(s)
               \/ LoseLease \/ (\E m \in net : WorkerExecute(m)) \/ UNCHANGED vars
        PROVE  \A s \in Schedulers : Same(s)
    BY Zenon, <1>5 DEF Elect, LoseLease, WorkerExecute, vars, local, Same
  <1> QED
    BY Zenon, <1>0, <1>2, <1>3, <1>4, <1>5 DEF Next

-----------------------------------------------------------------------------
(* The inductive invariant. *)
JobInv ==
  /\ JobLog(JobRecords, order[JobEnt])
  /\ Late
  /\ \A s \in Schedulers : Fit(s)
  /\ SuccessJustified

(* The initial state satisfies it. *)
LEMMA JobInit == Init => JobInv
  <1> SUFFICES ASSUME Init PROVE JobInv
    OBVIOUS
  <1>1. PICK s0 \in Schedulers :
          /\ log = SubmittedLog(s0)
          /\ mem = [s \in Schedulers |->
                      IF s = s0 THEN [job |-> "QUEUED", task |-> [t \in Tasks |-> "PENDING"]]
                                ELSE NoJob]
          /\ queued = [s \in Schedulers |-> s = s0]
    BY DEF Init
  <1>2. /\ order = [e \in 0..NumTasks |-> IF e = JobEnt THEN 2 ELSE 1]
        /\ jobRow = "QUEUED" /\ up = [s \in Schedulers |-> TRUE]
        /\ run = [s \in Schedulers |-> IdleRun]
        /\ gor = [s \in Schedulers |-> [t \in Tasks |-> OffGor]]
        /\ recon = [s \in Schedulers |-> IdleRecon]
    BY Zenon DEF Init
  <1> DEFINE a == [seq |-> 1, ent |-> JobEnt, state |-> "SUBMITTED", att |-> 0, by |-> s0]
             b == [seq |-> 2, ent |-> JobEnt, state |-> "QUEUED", att |-> 0, by |-> s0]
             p(t) == [seq |-> 1, ent |-> t, state |-> "PENDING", att |-> 0, by |-> s0]
  <1>3. log = {a, b} \cup {p(t) : t \in Tasks}
    BY <1>1 DEF SubmittedLog
  <1>4. /\ a.ent = JobEnt /\ a.seq = 1 /\ a.state = "SUBMITTED"
        /\ b.ent = JobEnt /\ b.seq = 2 /\ b.state = "QUEUED"
        /\ \A t \in Tasks : p(t).ent # JobEnt
    BY Entities
  <1> HIDE DEF a, b, p
  <1>5. JobRecords = {a, b} /\ order[JobEnt] = 2
    <2>1. order[JobEnt] = 2
      BY <1>2, Entities
    <2>2. JobRecords = {a, b}
      BY <1>3, <1>4 DEF JobRecords, RecordsOf
    <2> QED
      BY Zenon, <2>1, <2>2
  <1>6. JobLog(JobRecords, order[JobEnt])
    <2>1. /\ \A r \in {a, b} : r.ent = JobEnt /\ r.seq \in 1..2 /\ r.state # "FAILED"
          /\ \A p1, r \in {a, b} : p1.seq = r.seq => p1 = r
          /\ \E l \in {a, b} : l.seq = 2
          /\ \A r \in {a, b} : r.state = "SUBMITTED" => r.seq = 1
      BY <1>4
    <2>2. 2 \in Nat /\ 2 >= 2
      OBVIOUS
    <2> QED
      BY Zenon, <1>5, <2>1, <2>2 DEF JobLog
  <1>7. IdleRun.pc = "idle" /\ IdleRecon.pc = "idle" /\ OffGor.pc = "off" /\ NoJob.job = Absent
    BY DEF IdleRun, IdleRecon, OffGor, NoJob
  <1>8. \A s \in Schedulers :
          /\ run[s].pc = "idle" /\ recon[s].pc = "idle" /\ mem[s].job \in {"QUEUED", Absent}
          /\ \A t \in Tasks : gor[s][t].pc = "off"
    <2>1. \A s \in Schedulers : mem[s].job \in {"QUEUED", Absent}
      BY <1>1, <1>7
    <2> QED
      BY <1>2, <1>7, <2>1
  <1>9. Late
    <2>1. \A s \in Schedulers :
            /\ mem[s].job # "SUBMITTED" /\ recon[s].pc # "apply"
            /\ \A t \in Tasks : gor[s][t].pc \notin Writing
      BY <1>8 DEF Writing, Absent
    <2>2. jobRow # "SUBMITTED"
      BY <1>2
    <2> QED
      BY Zenon, <2>1, <2>2 DEF Late
  <1>10. ASSUME NEW s \in Schedulers PROVE Fit(s)
    <2>1. /\ run[s].pc = "idle" /\ run[s].pc # "noTasks" /\ run[s].pc # "wait"
          /\ recon[s].pc # "apply" /\ recon[s].pc # "record"
          /\ \A t \in Tasks : gor[s][t].pc = "off"
      BY <1>8
    <2>2. mem[s].job # Absent \/ queued[s] => Known(mem[s])
      <3>1. CASE s = s0
        <4>1. mem[s] = [job |-> "QUEUED", task |-> [t \in Tasks |-> "PENDING"]]
          BY <1>1, <3>1
        <4> QED
          BY <4>1 DEF Known
      <3>2. CASE s # s0
        <4>1. mem[s] = NoJob
          BY <1>1, <3>2
        <4>2. ~queued[s]
          BY Zenon, <1>1, <3>2
        <4> QED
          BY Zenon, <1>7, <4>1, <4>2
      <3> QED
        BY Zenon, <3>1, <3>2
    <2>3. up[s]
      BY <1>2
    <2>4. Rests(up[s], queued[s], run[s], gor[s], recon[s])
      BY Zenon, <2>1, <2>3 DEF Rests
    <2>5. Knows(mem[s], queued[s], run[s], recon[s])
      BY Zenon, <2>1, <2>2 DEF Knows
    <2>6. Earned(mem[s], run[s], gor[s], Ended) /\ Concludes(recon[s], Ended)
      BY Zenon, <2>1, IdleEarned DEF Concludes
    <2> QED
      BY Zenon, <2>4, <2>5, <2>6 DEF Fit
  <1>11. SuccessJustified
    <2>1. \A r \in JobRecords : r.state # "SUCCEEDED"
      BY <1>4, <1>5
    <2> QED
      BY <2>1 DEF SuccessJustified, JobRecords, RecordsOf
  <1> QED
    BY <1>6, <1>9, <1>10, <1>11 DEF JobInv

(* Every step without a fault or a resume preserves it. *)
LEMMA JobStep ==
  ASSUME TypeInv, MemoryInv, JobInv, [Next]_vars, Faultless'
  PROVE  JobInv'
  <1>1. log \subseteq log'
    BY LogGrows
  <1>2. JobLogEffect
    BY StepLog DEF Faultless
  <1>3. JobLog(JobRecords', order'[JobEnt])
    <2>1. CASE JobRecords' = JobRecords /\ order'[JobEnt] = order[JobEnt]
      BY <2>1 DEF JobInv
    <2>2. ASSUME NEW q, q.ent = JobEnt, q.seq = order[JobEnt] + 1, q.state # "SUBMITTED",
                 JobRecords' = JobRecords \cup {q}, order'[JobEnt] = order[JobEnt] + 1
          PROVE  JobLog(JobRecords', order'[JobEnt])
      BY Zenon, <2>2, JobLogAppend DEF JobInv
    <2> QED
      BY <1>2, <2>1, <2>2 DEF JobLogEffect
  <1>4. Late'
    BY StepCopies, JobReplayed, LateStep DEF JobInv
  <1>5. \A s \in Schedulers : Fit(s)'
    BY <1>1, StepFit DEF JobInv, MemoryInv
  <1>6. SuccessJustified'
    <2> SUFFICES ASSUME NEW r \in log', r.ent = JobEnt, r.state = "SUCCEEDED"
                 PROVE  Ended' = Tasks
      BY DEF SuccessJustified, Ended, TaskIn
    <2>1. CASE r \in log
      <3>1. Ended = Tasks
        BY <2>1 DEF JobInv, SuccessJustified, Ended, TaskIn
      <3> QED
        BY <1>1, <3>1, EndedGrows
    <2>2. CASE r \notin log
      <3>1. r \in JobRecords' /\ r \notin JobRecords
        BY <2>2 DEF JobRecords, RecordsOf
      <3>2. \E s \in Schedulers : MaySucceed(s)
        BY <1>2, <3>1 DEF JobLogEffect
      <3> QED
        BY <1>1, <3>2, SuccessEarned, EndedGrows DEF JobInv
    <2> QED
      BY <2>1, <2>2
  <1> QED
    BY <1>3, <1>4, <1>5, <1>6 DEF JobInv

(* A job succeeds only when all its tasks have: for every number of         *)
(* schedulers, tasks, stages, attempts, leaderships and crashes, as long as *)
(* no transaction fails and no human callback resumes the job.              *)
THEOREM SuccessNeedsTasks == Spec => []JobSuccessJustified
  <1>1. Init => (Faultless => JobInv)
    BY JobInit
  <1>2. TypeInv /\ MemoryInv /\ (Faultless => JobInv) /\ [Next]_vars => (Faultless => JobInv)'
    <2> SUFFICES ASSUME TypeInv, MemoryInv, Faultless => JobInv, [Next]_vars, Faultless'
                 PROVE  JobInv'
      OBVIOUS
    <2> QED
      BY WasFaultless, JobStep
  <1>3. (Faultless => JobInv) => JobSuccessJustified
    BY DEF JobInv, Faultless, JobSuccessJustified
  <1> QED
    BY <1>1, <1>2, <1>3, MemoryInvariant, PTL DEF Spec
=============================================================================

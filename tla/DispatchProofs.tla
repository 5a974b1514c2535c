--------------------------- MODULE DispatchProofs ---------------------------
(***************************************************************************)
(* Proofs about Dispatch, for every set of schedulers, every number of     *)
(* tasks and stages and every bound.                                       *)
(***************************************************************************)
EXTENDS Dispatch, TLAPS

(* Every entity has a latest record, so a replay of the log has a result. *)
HasLatestIn(L) ==
  \A e \in 0..NumTasks : \E r \in L : r.ent = e /\ IsLatest(L, r)

HasLatest == HasLatestIn(log)

(* A scheduler that runs the job, or is about to record an outcome for it, *)
(* has it in memory.                                                       *)
Present ==
  \A s \in Schedulers :
    (\/ run[s].pc # "idle" \/ recon[s].pc = "record" \/ queued[s]
     \/ \E t \in Tasks : gor[s][t].pc # "off") => mem[s].job # Absent

(* What a goroutine is about to write fits where it is in the code. *)
WriteFits(g) ==
  /\ g.pc \in {"claimW", "runW", "finW"} => g.w.snap \in JobLifecycleState
  /\ g.pc = "claimW" => g.w.state = "DISPATCHED"
  /\ g.pc = "runW" => g.w.state = "RUNNING"
  /\ g.pc = "finW" => g.w.state = (IF g.res = "ok" THEN "SUCCEEDED" ELSE "FAILED")

WriteReady == \A s \in Schedulers, t \in Tasks : WriteFits(gor[s][t])

(* A replay that waits to be applied has found the job. *)
ReplayFound ==
  \A s \in Schedulers :
    /\ recon[s].pc = "apply" => recon[s].rp.job \in JobLifecycleState
    /\ recon[s].pc = "record" => recon[s].want \in {"SUCCEEDED", "FAILED"}

-----------------------------------------------------------------------------
(* Replay of the log. *)

(* The state a replay yields for an entity is the state of one of its records. *)
LEMMA ReplayedIsRecorded ==
  ASSUME HasLatest, NEW e \in 0..NumTasks
  PROVE  \E r \in log : r.ent = e /\ r.state = ReplayedState(log, e)
  <1>1. PICK r \in RecordsOf(log, e) : IsLatest(log, r)
    BY DEF HasLatest, HasLatestIn, RecordsOf
  <1>2. Latest(log, e) \in RecordsOf(log, e)
    BY <1>1 DEF Latest
  <1> QED
    BY <1>2 DEF ReplayedState, RecordsOf

(* The replay of a well-typed log is well typed. *)
LEMMA ReplayedTypes ==
  ASSUME log \subseteq JobRecord \cup TaskRecord, HasLatest
  PROVE  /\ ReplayedState(log, JobEnt) \in JobLifecycleState
         /\ ReplayedTasks \in [Tasks -> TaskLifecycleState]
         /\ RecoveredJob \in MemType
  <1>1. JobEnt \in 0..NumTasks /\ \A t \in Tasks : t \in 0..NumTasks /\ t # JobEnt
    BY DispatchAssumption DEF Tasks, JobEnt
  <1>2. \A r \in log : r \in JobRecord \/ r \in TaskRecord
    OBVIOUS
  <1>3. ReplayedState(log, JobEnt) \in JobLifecycleState
    <2>1. PICK r \in log : r.ent = JobEnt /\ r.state = ReplayedState(log, JobEnt)
      BY <1>1, ReplayedIsRecorded
    <2> QED
      BY <1>1, <1>2, <2>1 DEF JobRecord, TaskRecord
  <1>4. ASSUME NEW t \in Tasks PROVE ReplayedState(log, t) \in TaskLifecycleState
    <2>1. PICK r \in log : r.ent = t /\ r.state = ReplayedState(log, t)
      BY <1>1, ReplayedIsRecorded
    <2> QED
      BY <1>1, <1>2, <2>1 DEF JobRecord, TaskRecord
  <1> QED
    BY <1>3, <1>4 DEF ReplayedTasks, RecoveredJob, MemType

(* Appending a record keeps a latest record of every entity. *)
LEMMA AppendKeepsLatest ==
  ASSUME NEW L, NEW r, L \subseteq JobRecord \cup TaskRecord, r \in JobRecord \cup TaskRecord,
         HasLatestIn(L)
  PROVE  HasLatestIn(L \cup {r})
  <1> SUFFICES ASSUME NEW e \in 0..NumTasks
               PROVE  \E q \in L \cup {r} : q.ent = e /\ IsLatest(L \cup {r}, q)
    BY DEF HasLatestIn
  <1>1. PICK q \in L : q.ent = e /\ IsLatest(L, q)
    BY DEF HasLatestIn
  <1>2. q.seq \in Nat /\ r.seq \in Nat /\ \A p \in L : p.seq \in Nat
    BY DEF JobRecord, TaskRecord
  <1>3. CASE r.ent = e /\ q.seq < r.seq
    BY <1>1, <1>2, <1>3 DEF IsLatest
  <1>4. CASE ~(r.ent = e /\ q.seq < r.seq)
    BY <1>1, <1>2, <1>4 DEF IsLatest
  <1> QED
    BY <1>3, <1>4
-----------------------------------------------------------------------------
(* Durable writes. *)

(* The part of the type invariant that a durable write may disturb. *)
WrittenTypes ==
  /\ log \subseteq JobRecord \cup TaskRecord /\ HasLatest
  /\ order \in [0..NumTasks -> Nat]
  /\ jobRow \in JobLifecycleState
  /\ taskRow \in [Tasks -> [state : TaskLifecycleState, att : Nat]]
  /\ mem \in [Schedulers -> MemType]
  /\ grown \in [Schedulers -> BOOLEAN]
  /\ faults \in Nat

(* nextSequenceID yields a natural number. *)
LEMMA NextSequenceIDType ==
  ASSUME order \in [0..NumTasks -> Nat], NEW e \in 0..NumTasks, NextSequenceID(e)
  PROVE  order' \in [0..NumTasks -> Nat]
  BY DEF NextSequenceID

(* The job and its tasks are distinct entities of the log. *)
LEMMA Entities == JobEnt \in 0..NumTasks /\ \A t \in Tasks : t \in 0..NumTasks /\ t # JobEnt
  BY DispatchAssumption DEF Tasks, JobEnt

(* SubmitJob numbers the job's records 1 and 2 and each task's record 1. *)
LEMMA SubmittedOrder ==
  ASSUME NEW s \in Schedulers, NEW q \in SubmittedLog(s)
  PROVE  (q.ent = JobEnt => q.seq \in {1, 2}) /\ (q.ent # JobEnt => q.seq = 1)
  BY Entities DEF SubmittedLog

(* SubmitJob writes records of the job and of its tasks. *)
LEMMA SubmittedRecords ==
  ASSUME NEW s \in Schedulers
  PROVE  SubmittedLog(s) \subseteq JobRecord \cup TaskRecord
  <1> SUFFICES ASSUME NEW q \in SubmittedLog(s) PROVE q \in JobRecord \cup TaskRecord
    OBVIOUS
  <1>1. \/ q = [seq |-> 1, ent |-> JobEnt, state |-> "SUBMITTED", att |-> 0, by |-> s]
        \/ q = [seq |-> 2, ent |-> JobEnt, state |-> "QUEUED", att |-> 0, by |-> s]
        \/ \E t \in Tasks : q = [seq |-> 1, ent |-> t, state |-> "PENDING", att |-> 0, by |-> s]
    BY Zenon DEF SubmittedLog
  <1> QED
    BY <1>1 DEF JobRecord, TaskRecord, JobLifecycleState, TaskLifecycleState

(* recordJobTransition keeps the types, and the job stays in memory. *)
LEMMA JobWriteTypes ==
  ASSUME WrittenTypes, NEW s \in Schedulers, mem[s].job # Absent,
         NEW to \in JobLifecycleState, recordJobTransition(s, to)
  PROVE  /\ WrittenTypes'
         /\ \A x \in Schedulers : mem[x].job # Absent => mem'[x].job # Absent
  <1>1. CASE /\ NextSequenceID(JobEnt)
             /\ AppendTransition(s, JobEnt, 0, Write(s, JobEnt, to))
             /\ jobRow' = to
             /\ mem' = [mem EXCEPT ![s].job = to]
             /\ UNCHANGED <<taskRow, faults>>
    <2> DEFINE r == [seq |-> order[JobEnt] + 1, ent |-> JobEnt, state |-> to, att |-> 0, by |-> s]
    <2>1. log' = log \cup {r}
      BY <1>1 DEF AppendTransition, Write
    <2>2. r \in JobRecord
      BY Entities DEF WrittenTypes, JobRecord
    <2>3. log' \subseteq JobRecord \cup TaskRecord /\ HasLatest'
      BY Zenon, <2>1, <2>2, AppendKeepsLatest DEF WrittenTypes, HasLatest
    <2>4. order' \in [0..NumTasks -> Nat]
      BY <1>1, Entities, NextSequenceIDType DEF WrittenTypes
    <2>5. mem' \in [Schedulers -> MemType]
      BY ZenonT(60), <1>1 DEF WrittenTypes, MemType
    <2>6. \A x \in Schedulers : mem[x].job # Absent => mem'[x].job # Absent
      BY <1>1 DEF WrittenTypes, MemType, JobLifecycleState, Absent
    <2> QED
      BY <1>1, <2>3, <2>4, <2>5, <2>6 DEF WrittenTypes, AppendTransition
  <1>2. CASE NextSequenceID(JobEnt) /\ PersistFails
    BY <1>2, Entities, NextSequenceIDType DEF WrittenTypes, PersistFails, rows, HasLatest
  <1>3. CASE UNCHANGED <<store, mem, grown, faults>>
    BY <1>3 DEF WrittenTypes, store, rows, HasLatest
  <1> QED
    BY <1>1, <1>2, <1>3 DEF recordJobTransition

(* So does the transaction of a task write. *)
LEMMA TaskWriteTypes ==
  ASSUME WrittenTypes, gor \in [Schedulers -> [Tasks -> GorType]],
         NEW s \in Schedulers, NEW t \in Tasks, NEW w \in WriteType,
         w.state \in TaskLifecycleState, w.snap \in JobLifecycleState,
         UNCHANGED order,
         PersistTask(s, t, w) \/ PersistFails
  PROVE  /\ WrittenTypes'
         /\ \A x \in Schedulers : mem'[x].job = mem[x].job
  <1>1. CASE PersistTask(s, t, w)
    <2> DEFINE r == [seq |-> w.seq, ent |-> t, state |-> w.state, att |-> gor[s][t].att, by |-> s]
    <2>0. gor[s][t].att \in Nat
      <3>1. gor[s][t].att \in 0..MaxDispatchAttempts
        BY DEF GorType
      <3> QED
        BY <3>1, DispatchAssumption
    <2>1. log' = log \cup {r}
      BY <1>1 DEF PersistTask, AppendTransition
    <2>2. r \in TaskRecord
      BY <2>0 DEF TaskRecord, WriteType
    <2>3. log' \subseteq JobRecord \cup TaskRecord /\ HasLatest'
      BY Zenon, <2>1, <2>2, AppendKeepsLatest DEF WrittenTypes, HasLatest
    <2>4. mem' \in [Schedulers -> MemType]
      BY ZenonT(60), <1>1 DEF WrittenTypes, MemType, PersistTask
    <2>5. \A x \in Schedulers : mem'[x].job = mem[x].job
      BY <1>1 DEF WrittenTypes, MemType, PersistTask
    <2>6. taskRow' \in [Tasks -> [state : TaskLifecycleState, att : Nat]]
      BY <1>1, <2>0 DEF WrittenTypes, PersistTask
    <2> QED
      BY <1>1, <2>3, <2>4, <2>5, <2>6 DEF WrittenTypes, PersistTask, AppendTransition
  <1>2. CASE PersistFails
    BY <1>2 DEF WrittenTypes, PersistFails, rows, HasLatest
  <1> QED
    BY <1>1, <1>2

(* The rest of it. *)
ControlTypes ==
  /\ reign \in Seq(Schedulers) /\ held \in BOOLEAN
  /\ net \subseteq RequestType /\ execs \subseteq RequestType
  /\ up \in [Schedulers -> BOOLEAN]
  /\ queued \in [Schedulers -> BOOLEAN]
  /\ run \in [Schedulers -> RunType]
  /\ gor \in [Schedulers -> [Tasks -> GorType]]
  /\ recon \in [Schedulers -> ReconType]
  /\ crashes \in Nat /\ resumes \in Nat /\ replays \in Nat

(* The inductive invariant behind TypeOK. *)
TypeInv == WrittenTypes /\ ControlTypes /\ Present /\ WriteReady /\ ReplayFound

-----------------------------------------------------------------------------
(* Steps of a goroutine. *)

(* Moving a goroutine to another step keeps its type. *)
LEMMA GotoMoves ==
  ASSUME gor \in [Schedulers -> [Tasks -> GorType]],
         NEW s \in Schedulers, NEW t \in Tasks, NEW g \in GorType, Goto(s, t, g)
  PROVE  /\ gor' \in [Schedulers -> [Tasks -> GorType]]
         /\ gor'[s][t] = g
         /\ \A x \in Schedulers, u \in Tasks : (x # s \/ u # t) => gor'[x][u] = gor[x][u]
  BY DEF Goto

(* A goroutine that is off is well typed. *)
LEMMA OffFits ==
  OffGor \in GorType /\ WriteFits(OffGor) /\ OffGor.pc = "off" /\ OffGor.att = 0
  <1>1. NoWrite \in WriteType /\ OffGor.pc = "off" /\ OffGor.att = 0
    BY DEF NoWrite, OffGor, WriteType
  <1>2. MaxDispatchAttempts \in Nat /\ 0 \in 0..MaxDispatchAttempts
    BY DispatchAssumption
  <1> QED
    BY <1>1, <1>2 DEF OffGor, GorType, WriteFits

(* The kinds of moves a goroutine makes keep its type. *)
LEMMA GoroutineStates ==
  ASSUME NEW g \in GorType
  PROVE  /\ OffGor \in GorType /\ WriteFits(OffGor)
         /\ \A r \in {"", "ok", "err", "pause", "capacity"} : Done(r) \in GorType /\ WriteFits(Done(r))
         /\ g.att < MaxDispatchAttempts =>
              /\ [OffGor EXCEPT !.pc = "claim", !.att = g.att + 1] \in GorType
              /\ WriteFits([OffGor EXCEPT !.pc = "claim", !.att = g.att + 1])
         /\ \A p \in {"first", "job", "run", "auth"} :
              /\ [g EXCEPT !.pc = p] \in GorType /\ WriteFits([g EXCEPT !.pc = p])
              /\ [g EXCEPT !.pc = p, !.w = NoWrite] \in GorType
              /\ WriteFits([g EXCEPT !.pc = p, !.w = NoWrite])
         /\ \A k \in Nat : /\ [g EXCEPT !.pc = "sent", !.tok = k] \in GorType
                           /\ WriteFits([g EXCEPT !.pc = "sent", !.tok = k])
  <1>1. NoWrite \in WriteType
    BY DEF NoWrite, WriteType
  <1>2. MaxDispatchAttempts \in Nat /\ 0 \in 0..MaxDispatchAttempts
    BY DispatchAssumption
  <1>3. OffGor \in GorType /\ WriteFits(OffGor)
    BY OffFits
  <1>4. ASSUME NEW r \in {"", "ok", "err", "pause", "capacity"}
        PROVE  Done(r) \in GorType /\ WriteFits(Done(r))
    BY <1>1, <1>2 DEF Done, OffGor, GorType, WriteFits
  <1>5. ASSUME g.att < MaxDispatchAttempts
        PROVE  /\ [OffGor EXCEPT !.pc = "claim", !.att = g.att + 1] \in GorType
               /\ WriteFits([OffGor EXCEPT !.pc = "claim", !.att = g.att + 1])
    <2>1. g.att \in 0..MaxDispatchAttempts
      BY DEF GorType
    <2>2. g.att + 1 \in 0..MaxDispatchAttempts
      BY <1>2, <1>5, <2>1
    <2> QED
      BY <1>1, <2>2 DEF OffGor, GorType, WriteFits
  <1>6. ASSUME NEW p \in {"first", "job", "run", "auth"}
        PROVE  /\ [g EXCEPT !.pc = p] \in GorType /\ WriteFits([g EXCEPT !.pc = p])
               /\ [g EXCEPT !.pc = p, !.w = NoWrite] \in GorType
               /\ WriteFits([g EXCEPT !.pc = p, !.w = NoWrite])
    BY <1>1 DEF GorType, WriteFits
  <1>7. ASSUME NEW k \in Nat
        PROVE  /\ [g EXCEPT !.pc = "sent", !.tok = k] \in GorType
               /\ WriteFits([g EXCEPT !.pc = "sent", !.tok = k])
    BY DEF GorType, WriteFits
  <1> QED
    BY Zenon, <1>3, <1>4, <1>5, <1>6, <1>7

(* A goroutine that moves to such a state, whatever it wrote, keeps TypeInv. *)
LEMMA GoroutineTypeStep ==
  ASSUME TypeInv, NEW s \in Schedulers, NEW t \in Tasks, gor[s][t].pc # "off",
         NEW g \in GorType, WriteFits(g), Goto(s, t, g),
         WrittenTypes',
         \A x \in Schedulers : mem[x].job # Absent => mem'[x].job # Absent,
         net' \subseteq RequestType, execs' \subseteq RequestType,
         UNCHANGED <<leader, up, queued, run, recon, crashes, resumes, replays>>
  PROVE  TypeInv'
  <1>1. /\ gor' \in [Schedulers -> [Tasks -> GorType]]
        /\ gor'[s][t] = g
        /\ \A x \in Schedulers, u \in Tasks : (x # s \/ u # t) => gor'[x][u] = gor[x][u]
    BY GotoMoves DEF TypeInv, ControlTypes
  <1>2. ControlTypes'
    BY <1>1 DEF TypeInv, ControlTypes, leader
  <1>3. Present'
    BY <1>1 DEF TypeInv, Present
  <1>4. WriteReady'
    BY <1>1 DEF TypeInv, WriteReady
  <1>5. ReplayFound'
    BY DEF TypeInv, ReplayFound
  <1> QED
    BY <1>2, <1>3, <1>4, <1>5 DEF TypeInv

(* A retry or a give-up is such a move. *)
LEMMA RetryMoves ==
  ASSUME TypeInv, NEW s \in Schedulers, NEW t \in Tasks, RetryOrGiveUp(s, t)
  PROVE  \E g \in GorType : WriteFits(g) /\ Goto(s, t, g)
  <1>1. gor[s][t] \in GorType
    BY DEF TypeInv, ControlTypes
  <1> QED
    BY Zenon, <1>1, GoroutineStates DEF RetryOrGiveUp

(* A write that is about to be made fits. *)
LEMMA WriteMoves ==
  ASSUME TypeInv, NEW s \in Schedulers, NEW t \in Tasks, gor[s][t].pc # "off",
         NEW to \in TaskLifecycleState
  PROVE  /\ Write(s, t, to) \in WriteType
         /\ Write(s, t, to).state = to
         /\ Write(s, t, to).snap \in JobLifecycleState
  <1>1. mem[s] \in MemType /\ mem[s].job # Absent
    BY DEF TypeInv, WrittenTypes, Present
  <1>2. order[t] + 1 \in Nat
    BY Entities DEF TypeInv, WrittenTypes
  <1> QED
    BY <1>1, <1>2 DEF Write, WriteType, MemType

(* A step that allocates an id at most keeps what durable writes disturb. *)
LEMMA AllocationTypes ==
  ASSUME WrittenTypes, NEW t \in Tasks, NextSequenceID(t) \/ UNCHANGED order,
         UNCHANGED <<rows, mem, grown, faults>>
  PROVE  WrittenTypes' /\ \A x \in Schedulers : mem'[x].job = mem[x].job
  BY Entities, NextSequenceIDType DEF WrittenTypes, HasLatest, rows

(* BeginClaim preserves the type invariant. *)
LEMMA BeginClaimTypes ==
  ASSUME TypeInv, NEW s \in Schedulers, NEW t \in Tasks, BeginClaim(s, t)
  PROVE  TypeInv'
  <1>1. gor[s][t] \in GorType
    BY DEF TypeInv, ControlTypes
  <1>2. WrittenTypes' /\ \A x \in Schedulers : mem'[x].job = mem[x].job
    BY AllocationTypes DEF BeginClaim, TypeInv, local, bounds
  <1>3. \E g \in GorType : WriteFits(g) /\ Goto(s, t, g)
    <2>1. CASE Goto(s, t, [gor[s][t] EXCEPT !.pc = "claimW", !.w = Write(s, t, "DISPATCHED")])
      <3>1. /\ Write(s, t, "DISPATCHED") \in WriteType
            /\ Write(s, t, "DISPATCHED").state = "DISPATCHED"
            /\ Write(s, t, "DISPATCHED").snap \in JobLifecycleState
        BY WriteMoves DEF BeginClaim, TaskLifecycleState
      <3> DEFINE g == [gor[s][t] EXCEPT !.pc = "claimW", !.w = Write(s, t, "DISPATCHED")]
      <3>2. g \in GorType /\ WriteFits(g)
        BY <1>1, <3>1 DEF GorType, WriteFits
      <3> QED
        BY <2>1, <3>2
    <2>2. CASE RetryOrGiveUp(s, t)
      BY <2>2, RetryMoves
    <2> QED
      BY <2>1, <2>2 DEF BeginClaim
  <1> QED
    BY Zenon, <1>2, <1>3, GoroutineTypeStep
       DEF BeginClaim, TypeInv, ControlTypes, leader, worker, local, bounds

(* EndClaim preserves the type invariant. *)
LEMMA EndClaimTypes ==
  ASSUME TypeInv, NEW s \in Schedulers, NEW t \in Tasks, EndClaim(s, t)
  PROVE  TypeInv'
  <1>1. gor[s][t] \in GorType /\ WriteFits(gor[s][t]) /\ gor[s][t].pc = "claimW"
    BY DEF TypeInv, ControlTypes, WriteReady, EndClaim
  <1>2. /\ gor[s][t].w \in WriteType
        /\ gor[s][t].w.state \in TaskLifecycleState
        /\ gor[s][t].w.snap \in JobLifecycleState
    BY <1>1 DEF GorType, WriteFits, TaskLifecycleState
  <1>3. WrittenTypes' /\ \A x \in Schedulers : mem'[x].job = mem[x].job
    <2>1. CASE PersistTask(s, t, gor[s][t].w) \/ PersistFails
      BY <1>2, <2>1, TaskWriteTypes DEF EndClaim, TypeInv, ControlTypes
    <2>2. CASE UNCHANGED <<rows, mem, grown, faults>>
      BY <2>2, AllocationTypes DEF EndClaim, TypeInv
    <2> QED
      BY <2>1, <2>2 DEF EndClaim
  <1>4. \E g \in GorType : WriteFits(g) /\ Goto(s, t, g)
    <2>1. CASE RetryOrGiveUp(s, t)
      BY <2>1, RetryMoves
    <2>2. CASE Goto(s, t, [gor[s][t] EXCEPT !.pc = "first", !.w = NoWrite]) \/ Goto(s, t, Done("err"))
      BY Zenon, <1>1, <2>2, GoroutineStates
    <2> QED
      BY <2>1, <2>2 DEF EndClaim
  <1> QED
    BY Zenon, <1>1, <1>3, <1>4, GoroutineTypeStep
       DEF EndClaim, TypeInv, ControlTypes, leader, worker

(* ReadJobState preserves the type invariant. *)
LEMMA ReadJobStateTypes ==
  ASSUME TypeInv, NEW s \in Schedulers, NEW t \in Tasks, ReadJobState(s, t)
  PROVE  TypeInv'
  <1>1. gor[s][t] \in GorType
    BY DEF TypeInv, ControlTypes
  <1>2. WrittenTypes' /\ \A x \in Schedulers : mem'[x].job = mem[x].job
    BY AllocationTypes DEF ReadJobState, TypeInv, store, local, bounds
  <1>3. \E g \in GorType : WriteFits(g) /\ Goto(s, t, g)
    BY Zenon, <1>1, GoroutineStates DEF ReadJobState
  <1> QED
    BY Zenon, <1>2, <1>3, GoroutineTypeStep
       DEF ReadJobState, TypeInv, ControlTypes, leader, worker, local, bounds

(* RecordJobRunning preserves the type invariant. *)
LEMMA RecordJobRunningTypes ==
  ASSUME TypeInv, NEW s \in Schedulers, NEW t \in Tasks, RecordJobRunning(s, t)
  PROVE  TypeInv'
  <1>1. gor[s][t] \in GorType /\ mem[s].job # Absent
    BY DEF TypeInv, ControlTypes, Present, RecordJobRunning
  <1>2. WrittenTypes' /\ \A x \in Schedulers : mem[x].job # Absent => mem'[x].job # Absent
    BY <1>1, JobWriteTypes DEF RecordJobRunning, TypeInv, JobLifecycleState
  <1>3. \E g \in GorType : WriteFits(g) /\ Goto(s, t, g)
    BY Zenon, <1>1, GoroutineStates DEF RecordJobRunning
  <1> QED
    BY Zenon, <1>2, <1>3, GoroutineTypeStep
       DEF RecordJobRunning, TypeInv, ControlTypes, leader, worker

(* BeginTaskRunning preserves the type invariant. *)
LEMMA BeginTaskRunningTypes ==
  ASSUME TypeInv, NEW s \in Schedulers, NEW t \in Tasks, BeginTaskRunning(s, t)
  PROVE  TypeInv'
  <1>1. gor[s][t] \in GorType
    BY DEF TypeInv, ControlTypes
  <1>2. WrittenTypes' /\ \A x \in Schedulers : mem'[x].job = mem[x].job
    BY AllocationTypes DEF BeginTaskRunning, TypeInv, local, bounds
  <1>3. \E g \in GorType : WriteFits(g) /\ Goto(s, t, g)
    <2>1. /\ Write(s, t, "RUNNING") \in WriteType
          /\ Write(s, t, "RUNNING").state = "RUNNING"
          /\ Write(s, t, "RUNNING").snap \in JobLifecycleState
      BY WriteMoves DEF BeginTaskRunning, TaskLifecycleState
    <2> DEFINE g == [gor[s][t] EXCEPT !.pc = "runW", !.w = Write(s, t, "RUNNING")]
    <2>2. g \in GorType /\ WriteFits(g)
      BY <1>1, <2>1 DEF GorType, WriteFits
    <2> QED
      BY <2>2 DEF BeginTaskRunning
  <1> QED
    BY Zenon, <1>2, <1>3, GoroutineTypeStep
       DEF BeginTaskRunning, TypeInv, ControlTypes, leader, worker, local, bounds

(* EndTaskRunning preserves the type invariant. *)
LEMMA EndTaskRunningTypes ==
  ASSUME TypeInv, NEW s \in Schedulers, NEW t \in Tasks, EndTaskRunning(s, t)
  PROVE  TypeInv'
  <1>1. gor[s][t] \in GorType /\ WriteFits(gor[s][t]) /\ gor[s][t].pc = "runW"
    BY DEF TypeInv, ControlTypes, WriteReady, EndTaskRunning
  <1>2. /\ gor[s][t].w \in WriteType
        /\ gor[s][t].w.state \in TaskLifecycleState
        /\ gor[s][t].w.snap \in JobLifecycleState
    BY <1>1 DEF GorType, WriteFits, TaskLifecycleState
  <1>3. WrittenTypes' /\ \A x \in Schedulers : mem'[x].job = mem[x].job
    BY <1>2, TaskWriteTypes DEF EndTaskRunning, TypeInv, ControlTypes
  <1>4. \E g \in GorType : WriteFits(g) /\ Goto(s, t, g)
    BY Zenon, <1>1, GoroutineStates DEF EndTaskRunning
  <1> QED
    BY Zenon, <1>1, <1>3, <1>4, GoroutineTypeStep
       DEF EndTaskRunning, TypeInv, ControlTypes, leader, worker

(* CheckAuthority preserves the type invariant. *)
LEMMA CheckAuthorityTypes ==
  ASSUME TypeInv, NEW s \in Schedulers, NEW t \in Tasks, CheckAuthority(s, t)
  PROVE  TypeInv'
  <1>1. gor[s][t] \in GorType /\ gor[s][t].pc = "auth"
    BY DEF TypeInv, ControlTypes, CheckAuthority
  <1>2. WrittenTypes' /\ \A x \in Schedulers : mem'[x].job = mem[x].job
    BY AllocationTypes DEF CheckAuthority, TypeInv, store, local, bounds
  <1>3. epoch \in Nat
    BY DEF epoch, TypeInv, ControlTypes
  <1>4. Request(s, t, epoch) \in RequestType
    <2>1. gor[s][t].att \in 0..MaxDispatchAttempts
      BY <1>1 DEF GorType
    <2>2. gor[s][t].att \in Nat
      BY <2>1, DispatchAssumption
    <2> QED
      BY <1>3, <2>2 DEF Request, RequestType
  <1>5. net' \subseteq RequestType
    BY <1>4 DEF CheckAuthority, TypeInv, ControlTypes
  <1>6. \E g \in GorType : WriteFits(g) /\ Goto(s, t, g)
    BY Zenon, <1>1, <1>3, GoroutineStates DEF CheckAuthority
  <1> QED
    BY Zenon, <1>1, <1>2, <1>5, <1>6, GoroutineTypeStep
       DEF CheckAuthority, TypeInv, ControlTypes, leader, local, bounds

(* What a goroutine does after its task keeps its type. *)
LEMMA AfterTaskMoves ==
  ASSUME TypeInv, NEW s \in Schedulers, NEW t \in Tasks,
         NEW res \in {"", "ok", "err", "pause", "capacity"}, AfterTask(s, t, res)
  PROVE  \E g \in GorType : WriteFits(g) /\ Goto(s, t, g)
  <1>1. gor[s][t] \in GorType
    BY DEF TypeInv, ControlTypes
  <1>2. CASE res = "capacity"
    BY <1>2, RetryMoves DEF AfterTask
  <1>3. CASE res # "capacity"
    BY Zenon, <1>1, <1>3, GoroutineStates DEF AfterTask
  <1> QED
    BY <1>2, <1>3

(* Starting to record an outcome keeps the goroutine well typed. *)
LEMMA BeginTaskOutcomeMoves ==
  ASSUME TypeInv, NEW s \in Schedulers, NEW t \in Tasks, gor[s][t].pc = "sent",
         NEW res \in {"ok", "err", "pause", "capacity"}, BeginTaskOutcome(s, t, res)
  PROVE  \E g \in GorType : WriteFits(g) /\ Goto(s, t, g)
  <1>1. gor[s][t] \in GorType
    BY DEF TypeInv, ControlTypes
  <1> DEFINE to == IF res = "ok" THEN "SUCCEEDED" ELSE "FAILED"
             g == [gor[s][t] EXCEPT !.pc = "finW", !.tok = 0, !.res = res, !.w = Write(s, t, to)]
  <1>2. CASE Goto(s, t, g)
    <2>1. /\ Write(s, t, to) \in WriteType
          /\ Write(s, t, to).state = to
          /\ Write(s, t, to).snap \in JobLifecycleState
      BY WriteMoves DEF TaskLifecycleState
    <2>2. g \in GorType /\ WriteFits(g)
      BY <1>1, <2>1 DEF GorType, WriteFits
    <2> QED
      BY <1>2, <2>2
  <1>3. CASE AfterTask(s, t, res)
    BY <1>3, AfterTaskMoves
  <1> QED
    BY <1>2, <1>3 DEF BeginTaskOutcome

(* ReturnFromNode preserves the type invariant. *)
LEMMA ReturnFromNodeTypes ==
  ASSUME TypeInv, NEW s \in Schedulers, NEW t \in Tasks, ReturnFromNode(s, t)
  PROVE  TypeInv'
  <1>1. gor[s][t] \in GorType /\ gor[s][t].pc = "sent"
    BY DEF TypeInv, ControlTypes, ReturnFromNode
  <1>2. NextSequenceID(t) \/ UNCHANGED order
    BY DEF ReturnFromNode, BeginTaskOutcome
  <1>3. WrittenTypes' /\ \A x \in Schedulers : mem'[x].job = mem[x].job
    BY Zenon, <1>2, AllocationTypes DEF ReturnFromNode, TypeInv, local, bounds
  <1>4. \E g \in GorType : WriteFits(g) /\ Goto(s, t, g)
    <2>1. CASE \E res \in {"ok", "err", "pause", "capacity"} : BeginTaskOutcome(s, t, res)
      BY <1>1, <2>1, BeginTaskOutcomeMoves
    <2>2. CASE Goto(s, t, Done("err"))
      BY Zenon, <1>1, <2>2, GoroutineStates
    <2> QED
      BY Zenon, <2>1, <2>2 DEF ReturnFromNode
  <1> QED
    BY Zenon, <1>1, <1>3, <1>4, GoroutineTypeStep
       DEF ReturnFromNode, TypeInv, ControlTypes, leader, worker, local, bounds

(* EndTaskOutcome preserves the type invariant. *)
LEMMA EndTaskOutcomeTypes ==
  ASSUME TypeInv, NEW s \in Schedulers, NEW t \in Tasks, EndTaskOutcome(s, t)
  PROVE  TypeInv'
  <1>1. gor[s][t] \in GorType /\ WriteFits(gor[s][t]) /\ gor[s][t].pc = "finW"
    BY DEF TypeInv, ControlTypes, WriteReady, EndTaskOutcome
  <1>2. /\ gor[s][t].w \in WriteType
        /\ gor[s][t].w.state \in TaskLifecycleState
        /\ gor[s][t].w.snap \in JobLifecycleState
    BY <1>1 DEF GorType, WriteFits, TaskLifecycleState
  <1>3. WrittenTypes' /\ \A x \in Schedulers : mem'[x].job = mem[x].job
    BY <1>2, TaskWriteTypes DEF EndTaskOutcome, TypeInv, ControlTypes
  <1>4. \E g \in GorType : WriteFits(g) /\ Goto(s, t, g)
    BY <1>1, AfterTaskMoves DEF EndTaskOutcome, GorType
  <1> QED
    BY Zenon, <1>1, <1>3, <1>4, GoroutineTypeStep
       DEF EndTaskOutcome, TypeInv, ControlTypes, leader, worker

(* A step of a goroutine keeps TypeInv. *)
LEMMA GoroutineTypes ==
  ASSUME TypeInv, NEW s \in Schedulers, NEW t \in Tasks, Goroutine(s, t)
  PROVE  TypeInv'
  BY BeginClaimTypes, EndClaimTypes, ReadJobStateTypes, RecordJobRunningTypes,
     BeginTaskRunningTypes, EndTaskRunningTypes, CheckAuthorityTypes,
     ReturnFromNodeTypes, EndTaskOutcomeTypes DEF Goroutine
-----------------------------------------------------------------------------
(* Steps of the other threads, of the election and of the workers. *)

(* Worker preserves the type invariant. *)
LEMMA WorkerTypes ==
  ASSUME TypeInv, NEW m \in net, WorkerExecute(m)
  PROVE  TypeInv'
  <1>1. WrittenTypes'
    BY DEF TypeInv, WrittenTypes, HasLatest, WorkerExecute, store, rows, local, bounds
  <1>2. ControlTypes'
    BY DEF TypeInv, ControlTypes, WorkerExecute, leader, local, bounds
  <1>3. Present' /\ WriteReady' /\ ReplayFound'
    BY DEF TypeInv, Present, WriteReady, ReplayFound, WorkerExecute, local
  <1> QED
    BY <1>1, <1>2, <1>3 DEF TypeInv

(* Election preserves the type invariant. *)
LEMMA ElectionTypes ==
  ASSUME TypeInv, (\E s \in Schedulers : Elect(s)) \/ LoseLease
  PROVE  TypeInv'
  <1>1. WrittenTypes'
    BY DEF TypeInv, WrittenTypes, HasLatest, Elect, LoseLease, store, rows, local, bounds
  <1>2. reign' \in Seq(Schedulers) /\ held' \in BOOLEAN
    <2>1. reign \in Seq(Schedulers) /\ held \in BOOLEAN
      BY DEF TypeInv, ControlTypes
    <2>2. ASSUME NEW s \in Schedulers, Elect(s)
          PROVE  reign' \in Seq(Schedulers) /\ held' \in BOOLEAN
      BY <2>1, <2>2 DEF Elect
    <2>3. CASE LoseLease
      BY Zenon, <2>1, <2>3 DEF LoseLease
    <2> QED
      BY <2>2, <2>3
  <1>3. ControlTypes'
    BY <1>2 DEF TypeInv, ControlTypes, Elect, LoseLease, worker, local, bounds
  <1>4. Present' /\ WriteReady' /\ ReplayFound'
    BY DEF TypeInv, Present, WriteReady, ReplayFound, Elect, LoseLease, local
  <1> QED
    BY <1>1, <1>3, <1>4 DEF TypeInv

(* Idle preserves the type invariant. *)
LEMMA IdleTypes ==
  /\ IdleRun \in RunType
  /\ [IdleRun EXCEPT !.pc = "noTasks"] \in RunType
  /\ [IdleRun EXCEPT !.pc = "wait", !.stage = NumStages] \in RunType
  /\ NoReplay \in ReplayType /\ IdleRecon \in ReconType
  /\ NoJob \in MemType
  <1>1. 0 \in 0..NumStages /\ NumStages \in 0..NumStages
    BY DispatchAssumption
  <1>2. IdleRun \in RunType
    BY <1>1 DEF IdleRun, RunType
  <1>3. [IdleRun EXCEPT !.pc = "noTasks"] \in RunType
    BY <1>2 DEF RunType
  <1>4. [IdleRun EXCEPT !.pc = "wait", !.stage = NumStages] \in RunType
    BY Zenon, <1>1, <1>2 DEF RunType
  <1>5. NoReplay \in ReplayType
    BY DEF NoReplay, ReplayType
  <1>6. IdleRecon \in ReconType
    BY <1>5 DEF IdleRecon, ReconType
  <1>7. NoJob \in MemType
    BY DEF NoJob, MemType
  <1> QED
    BY <1>2, <1>3, <1>4, <1>5, <1>6, <1>7

(* Starting a stage, or the job, leaves every goroutine in a fitting state. *)
LEMMA StartMoves ==
  ASSUME TypeInv, NEW s \in Schedulers, NEW m, NEW k \in 1..NumStages, executeStage(s, m, k)
  PROVE  /\ run' \in [Schedulers -> RunType]
         /\ gor' \in [Schedulers -> [Tasks -> GorType]]
         /\ \A x \in Schedulers, u \in Tasks : WriteFits(gor'[x][u])
         /\ \A x \in Schedulers : x # s => run'[x] = run[x] /\ gor'[x] = gor[x]
  <1>1. PICK started \in SUBSET StageTasks(m, k) :
          /\ run' = [run EXCEPT ![s] = [pc |-> "wait", stage |-> k, sel |-> started = StageTasks(m, k)]]
          /\ gor' = [gor EXCEPT ![s] = [t \in Tasks |->
                       IF t \in started THEN [OffGor EXCEPT !.pc = "claim", !.att = 1] ELSE OffGor]]
    BY Zenon DEF executeStage
  <1>2. [pc |-> "wait", stage |-> k, sel |-> started = StageTasks(m, k)] \in RunType
    BY DispatchAssumption DEF RunType
  <1>3. OffGor \in GorType /\ WriteFits(OffGor) /\ OffGor.att + 1 = 1 /\ OffGor.att < MaxDispatchAttempts
    BY OffFits, DispatchAssumption
  <1>4. /\ [OffGor EXCEPT !.pc = "claim", !.att = 1] \in GorType
        /\ WriteFits([OffGor EXCEPT !.pc = "claim", !.att = 1])
    BY Zenon, <1>3, GoroutineStates
  <1>5. /\ run' \in [Schedulers -> RunType]
        /\ \A x \in Schedulers : x # s => run'[x] = run[x]
    BY <1>1, <1>2 DEF TypeInv, ControlTypes
  <1>6. /\ gor' \in [Schedulers -> [Tasks -> GorType]]
        /\ \A x \in Schedulers : x # s => gor'[x] = gor[x]
        /\ \A u \in Tasks : WriteFits(gor'[s][u])
    BY <1>1, <1>3, <1>4 DEF TypeInv, ControlTypes
  <1> QED
    BY <1>5, <1>6 DEF TypeInv, WriteReady

(* Starting a job keeps run loop and goroutines well typed. *)
LEMMA StartJobMoves ==
  ASSUME TypeInv, NEW s \in Schedulers, NEW m, executeJob(s, m)
  PROVE  /\ run' \in [Schedulers -> RunType]
         /\ gor' \in [Schedulers -> [Tasks -> GorType]]
         /\ \A x \in Schedulers, u \in Tasks : WriteFits(gor'[x][u])
         /\ \A x \in Schedulers : x # s => run'[x] = run[x] /\ gor'[x] = gor[x]
  <1>1. CASE KnownTasks(m) = {}
    <2>1. [IdleRun EXCEPT !.pc = "noTasks"] \in RunType
      BY IdleTypes
    <2> QED
      BY Zenon, <1>1, <2>1 DEF executeJob, TypeInv, ControlTypes, WriteReady
  <1>2. CASE KnownTasks(m) # {}
    <2>1. 1 \in 1..NumStages /\ executeStage(s, m, 1)
      BY <1>2, DispatchAssumption DEF executeJob
    <2> QED
      BY <2>1, StartMoves
  <1> QED
    BY <1>1, <1>2

(* Dequeue preserves the type invariant. *)
LEMMA DequeueTypes ==
  ASSUME TypeInv, NEW s \in Schedulers, Dequeue(s)
  PROVE  TypeInv'
  <1>1. WrittenTypes'
    BY DEF TypeInv, WrittenTypes, HasLatest, Dequeue, store, rows, bounds
  <1>2. ControlTypes'
    <2>1. /\ UNCHANGED <<reign, held, net, execs, up, gor, recon, crashes, resumes, replays>>
          /\ queued' = [queued EXCEPT ![s] = FALSE]
          /\ run' = [run EXCEPT ![s].pc = IF Executable(mem[s]) THEN "refresh" ELSE "idle"]
      BY DEF Dequeue, leader, worker, bounds
    <2>2. run' \in [Schedulers -> RunType]
      <3>1. run \in [Schedulers -> RunType]
        BY DEF TypeInv, ControlTypes
      <3> DEFINE p == IF Executable(mem[s]) THEN "refresh" ELSE "idle"
      <3>2. p \in {"refresh", "idle"}
        OBVIOUS
      <3> HIDE DEF p
      <3>3. run' = [run EXCEPT ![s].pc = p]
        BY <2>1 DEF p
      <3> QED
        BY <3>1, <3>2, <3>3 DEF RunType
    <2>3. queued' \in [Schedulers -> BOOLEAN]
      BY <2>1 DEF TypeInv, ControlTypes
    <2> QED
      BY <2>1, <2>2, <2>3 DEF TypeInv, ControlTypes
  <1>3. Present'
    BY DEF TypeInv, ControlTypes, Present, Dequeue
  <1>4. WriteReady' /\ ReplayFound'
    BY DEF TypeInv, WriteReady, ReplayFound, Dequeue
  <1> QED
    BY <1>1, <1>2, <1>3, <1>4 DEF TypeInv

(* A refreshed job is well typed. *)
LEMMA SeededMoves ==
  ASSUME TypeInv, NEW s \in Schedulers, Seeded(s) \/ UNCHANGED <<grown, recon>>
  PROVE  /\ grown' \in [Schedulers -> BOOLEAN]
         /\ recon' \in [Schedulers -> ReconType]
         /\ \A x \in Schedulers : /\ recon'[x].pc = recon[x].pc
                                 /\ recon'[x].rp.job = recon[x].rp.job
                                 /\ recon'[x].rp.task = recon[x].rp.task
                                 /\ recon'[x].want = recon[x].want
  <1>1. recon \in [Schedulers -> ReconType] /\ grown \in [Schedulers -> BOOLEAN]
    BY DEF TypeInv, ControlTypes, WrittenTypes
  <1>2. CASE UNCHANGED <<grown, recon>>
    BY <1>1, <1>2
  <1>3. CASE Seeded(s)
    <2>1. grown' \in [Schedulers -> BOOLEAN]
      BY <1>1, <1>3 DEF Seeded
    <2> DEFINE rp == [recon[s].rp EXCEPT !.newer = FALSE]
               rc == [recon[s] EXCEPT !.rp = rp]
    <2>2. recon[s].rp \in ReplayType
      BY <1>1 DEF ReconType
    <2>3. rp \in ReplayType /\ rp.job = recon[s].rp.job /\ rp.task = recon[s].rp.task
      BY <2>2 DEF ReplayType
    <2>4. /\ rc \in ReconType
          /\ rc.pc = recon[s].pc /\ rc.want = recon[s].want /\ rc.rp = rp
      BY ZenonT(60), <1>1, <2>3 DEF ReconType
    <2>5. recon' = [recon EXCEPT ![s] = rc]
      BY <1>1, <1>3 DEF Seeded
    <2> QED
      BY <1>1, <2>1, <2>3, <2>4, <2>5
  <1> QED
    BY <1>2, <1>3

(* The scheduler's copy of the job is a replayed one, or the one it had. *)
LEMMA RecoveredMoves ==
  ASSUME TypeInv, NEW s \in Schedulers
  PROVE  /\ RecoveredJob \in MemType /\ RecoveredJob.job # Absent
         /\ [mem EXCEPT ![s] = RecoveredJob] \in [Schedulers -> MemType]
         /\ \A x \in Schedulers : mem[x].job # Absent =>
              [mem EXCEPT ![s] = RecoveredJob][x].job # Absent
  <1>1. RecoveredJob \in MemType /\ RecoveredJob.job # Absent
    BY ReplayedTypes DEF TypeInv, WrittenTypes, RecoveredJob, JobLifecycleState, Absent
  <1> QED
    BY <1>1 DEF TypeInv, WrittenTypes

(* Refresh preserves the type invariant. *)
LEMMA RefreshTypes ==
  ASSUME TypeInv, NEW s \in Schedulers, Refresh(s)
  PROVE  TypeInv'
  <1>1. /\ mem' \in [Schedulers -> MemType]
        /\ \A x \in Schedulers : mem[x].job # Absent => mem'[x].job # Absent
    BY RecoveredMoves DEF Refresh, TypeInv, WrittenTypes
  <1>2. Seeded(s) \/ UNCHANGED <<grown, recon>>
    BY DEF Refresh
  <1>3. WrittenTypes'
    BY <1>1, <1>2, SeededMoves DEF TypeInv, WrittenTypes, HasLatest, Refresh, store, rows, bounds
  <1>4. mem'[s].job # Absent
    BY <1>1 DEF TypeInv, Present, Refresh
  <1>5. /\ run' \in [Schedulers -> RunType]
        /\ gor' \in [Schedulers -> [Tasks -> GorType]]
        /\ \A x \in Schedulers, u \in Tasks : WriteFits(gor'[x][u])
        /\ \A x \in Schedulers : x # s => run'[x] = run[x] /\ gor'[x] = gor[x]
    <2>1. CASE executeJob(s, mem'[s])
      BY <2>1, StartJobMoves
    <2>2. CASE run' = [run EXCEPT ![s] = IdleRun] /\ UNCHANGED gor
      BY <2>2, IdleTypes DEF TypeInv, ControlTypes, WriteReady
    <2> QED
      BY <2>1, <2>2 DEF Refresh
  <1>6. ControlTypes'
    <2>1. UNCHANGED <<reign, held, net, execs, up, queued, crashes, resumes, replays>>
      BY DEF Refresh, leader, worker, bounds
    <2> QED
      BY <1>2, <1>5, <2>1, SeededMoves DEF TypeInv, ControlTypes
  <1>7. Present'
    <2>1. queued' = queued /\ \A x \in Schedulers : recon'[x].pc = recon[x].pc
      BY <1>2, SeededMoves DEF Refresh
    <2> QED
      BY ZenonT(60), <1>1, <1>4, <1>5, <2>1 DEF TypeInv, Present
  <1>8. WriteReady' /\ ReplayFound'
    BY <1>2, <1>5, SeededMoves DEF TypeInv, WriteReady, ReplayFound
  <1> QED
    BY <1>3, <1>6, <1>7, <1>8 DEF TypeInv

(* RunWithoutTasks preserves the type invariant. *)
LEMMA RunWithoutTasksTypes ==
  ASSUME TypeInv, NEW s \in Schedulers, RunWithoutTasks(s)
  PROVE  TypeInv'
  <1>1. mem[s].job # Absent
    BY DEF TypeInv, Present, RunWithoutTasks
  <1>2. WrittenTypes' /\ \A x \in Schedulers : mem[x].job # Absent => mem'[x].job # Absent
    BY <1>1, JobWriteTypes DEF RunWithoutTasks, TypeInv, JobLifecycleState
  <1>3. ControlTypes'
    BY IdleTypes DEF TypeInv, ControlTypes, RunWithoutTasks, leader, worker
  <1>4. Present'
    BY <1>1, <1>2 DEF TypeInv, ControlTypes, Present, RunWithoutTasks
  <1>5. WriteReady' /\ ReplayFound'
    BY DEF TypeInv, WriteReady, ReplayFound, RunWithoutTasks
  <1> QED
    BY <1>2, <1>3, <1>4, <1>5 DEF TypeInv

(* NextStage preserves the type invariant. *)
LEMMA NextStageTypes ==
  ASSUME TypeInv, NEW s \in Schedulers, NextStage(s)
  PROVE  TypeInv'
  <1>1. run[s].stage + 1 \in 1..NumStages
    <2>1. run[s].stage \in 0..NumStages
      BY DEF TypeInv, ControlTypes, RunType
    <2>2. run[s].stage < NumStages
      BY DEF NextStage
    <2> QED
      BY <2>1, <2>2, DispatchAssumption
  <1>2. /\ run' \in [Schedulers -> RunType]
        /\ gor' \in [Schedulers -> [Tasks -> GorType]]
        /\ \A x \in Schedulers, u \in Tasks : WriteFits(gor'[x][u])
        /\ \A x \in Schedulers : x # s => run'[x] = run[x] /\ gor'[x] = gor[x]
    BY <1>1, StartMoves DEF NextStage
  <1>3. WrittenTypes'
    BY DEF TypeInv, WrittenTypes, HasLatest, NextStage, store, rows, local, bounds
  <1>4. ControlTypes'
    BY <1>2 DEF TypeInv, ControlTypes, NextStage, leader, worker, local, bounds
  <1>5. Present'
    <2>1. run[s].pc = "wait" /\ UNCHANGED <<mem, recon, queued>>
      BY DEF NextStage, StageDone, local
    <2> QED
      BY <1>2, <2>1 DEF TypeInv, Present
  <1>6. WriteReady' /\ ReplayFound'
    BY <1>2 DEF TypeInv, WriteReady, ReplayFound, NextStage
  <1> QED
    BY <1>3, <1>4, <1>5, <1>6 DEF TypeInv

(* Goroutines that are all off are in a fitting state. *)
LEMMA OffMoves ==
  ASSUME TypeInv, NEW s \in Schedulers,
         gor' = [gor EXCEPT ![s] = [t \in Tasks |-> OffGor]]
  PROVE  /\ gor' \in [Schedulers -> [Tasks -> GorType]]
         /\ \A x \in Schedulers, u \in Tasks : WriteFits(gor'[x][u])
         /\ \A x \in Schedulers : x # s => gor'[x] = gor[x]
         /\ \A u \in Tasks : gor'[s][u].pc = "off"
  BY OffFits DEF TypeInv, ControlTypes, WriteReady

(* FinishJob preserves the type invariant. *)
LEMMA FinishJobTypes ==
  ASSUME TypeInv, NEW s \in Schedulers, FinishJob(s)
  PROVE  TypeInv'
  <1>1. mem[s].job # Absent
    BY DEF TypeInv, Present, FinishJob, StageDone
  <1>2. PICK to \in JobLifecycleState : recordJobTransition(s, to)
    BY DEF FinishJob, StageOutcomes, JobLifecycleState
  <1>3. WrittenTypes' /\ \A x \in Schedulers : mem[x].job # Absent => mem'[x].job # Absent
    BY <1>1, <1>2, JobWriteTypes DEF TypeInv
  <1>4. ControlTypes'
    BY Zenon, IdleTypes, OffMoves DEF TypeInv, ControlTypes, FinishJob, leader, worker
  <1>5. Present'
    BY ZenonT(60), <1>1, <1>3, OffMoves DEF TypeInv, ControlTypes, Present, FinishJob
  <1>6. WriteReady' /\ ReplayFound'
    BY Zenon, OffMoves DEF TypeInv, WriteReady, ReplayFound, FinishJob
  <1> QED
    BY <1>3, <1>4, <1>5, <1>6 DEF TypeInv

(* Resume preserves the type invariant. *)
LEMMA ResumeTypes ==
  ASSUME TypeInv, NEW s \in Schedulers, ResumeAwaitingHumanJob(s)
  PROVE  TypeInv'
  <1> DEFINE m == [ResumedJob(s) EXCEPT !.task = [t \in Tasks |-> IF @[t] = "" THEN "" ELSE "PENDING"]]
  <1>0. /\ UNCHANGED <<store, leader, worker, up, queued, faults, crashes, replays>>
        /\ resumes' = resumes + 1
    BY DEF ResumeAwaitingHumanJob
  <1>1. mem' = [mem EXCEPT ![s] = m] /\ executeJob(s, m)
    BY DEF ResumeAwaitingHumanJob
  <1>2. ResumedJob(s) \in MemType /\ ResumedJob(s).job = "AWAITING_HUMAN"
    BY RecoveredMoves DEF ResumedJob, TypeInv, WrittenTypes, ResumeAwaitingHumanJob
  <1>3. m \in MemType /\ m.job # Absent
    BY <1>2 DEF MemType, TaskLifecycleState, Absent
  <1>4. /\ mem' \in [Schedulers -> MemType] /\ mem'[s].job # Absent
        /\ \A x \in Schedulers : mem[x].job # Absent => mem'[x].job # Absent
    BY <1>1, <1>3 DEF TypeInv, WrittenTypes
  <1>5. Seeded(s) \/ UNCHANGED <<grown, recon>>
    BY DEF ResumeAwaitingHumanJob
  <1>6. /\ run' \in [Schedulers -> RunType]
        /\ gor' \in [Schedulers -> [Tasks -> GorType]]
        /\ \A x \in Schedulers, u \in Tasks : WriteFits(gor'[x][u])
        /\ \A x \in Schedulers : x # s => run'[x] = run[x] /\ gor'[x] = gor[x]
    BY <1>1, StartJobMoves
  <1>7. WrittenTypes'
    BY <1>0, <1>4, <1>5, SeededMoves DEF TypeInv, WrittenTypes, HasLatest, store, rows
  <1>8. ControlTypes'
    <2>1. resumes' \in Nat
      BY <1>0 DEF TypeInv, ControlTypes
    <2>2. recon' \in [Schedulers -> ReconType]
      BY Zenon, <1>5, SeededMoves
    <2>3. /\ reign' = reign /\ held' = held /\ net' = net /\ execs' = execs /\ up' = up
          /\ queued' = queued /\ crashes' = crashes /\ replays' = replays
      BY Zenon, <1>0 DEF leader, worker
    <2> QED
      BY ZenonT(60), <1>6, <2>1, <2>2, <2>3 DEF TypeInv, ControlTypes
  <1> HIDE DEF m
  <1>9. Present'
    <2>1. queued' = queued /\ \A x \in Schedulers : recon'[x].pc = recon[x].pc
      BY <1>0, <1>5, SeededMoves
    <2> QED
      BY ZenonT(60), <1>4, <1>6, <2>1 DEF TypeInv, Present
  <1>10. WriteReady' /\ ReplayFound'
    BY <1>5, <1>6, SeededMoves DEF TypeInv, WriteReady, ReplayFound
  <1> QED
    BY <1>7, <1>8, <1>9, <1>10 DEF TypeInv

(* TryEnqueue preserves the type invariant. *)
LEMMA TryEnqueueTypes ==
  ASSUME TypeInv, NEW s \in Schedulers, TryEnqueueExistingQueuedJob(s)
  PROVE  TypeInv'
  <1>1. mem[s].job # Absent
    BY DEF TryEnqueueExistingQueuedJob, Enqueueable, Absent
  <1>2. WrittenTypes'
    BY DEF TypeInv, WrittenTypes, HasLatest, TryEnqueueExistingQueuedJob, store, rows, bounds
  <1>3. ControlTypes'
    BY DEF TypeInv, ControlTypes, TryEnqueueExistingQueuedJob, leader, worker, bounds
  <1>4. Present' /\ WriteReady' /\ ReplayFound'
    BY <1>1 DEF TypeInv, ControlTypes, Present, WriteReady, ReplayFound, TryEnqueueExistingQueuedJob
  <1> QED
    BY <1>2, <1>3, <1>4 DEF TypeInv

(* ReconcileReplay preserves the type invariant. *)
LEMMA ReconcileReplayTypes ==
  ASSUME TypeInv, NEW s \in Schedulers, ReconcileReplay(s)
  PROVE  TypeInv'
  <1>1. WrittenTypes'
    BY DEF TypeInv, WrittenTypes, HasLatest, ReconcileReplay, store, rows
  <1>2. ReplaySummary(s) \in ReplayType /\ ReplaySummary(s).job \in JobLifecycleState
    <2>1. /\ ReplayedState(log, JobEnt) \in JobLifecycleState
          /\ ReplayedTasks \in [Tasks -> TaskLifecycleState]
          /\ grown[s] \in BOOLEAN
      BY ReplayedTypes DEF TypeInv, WrittenTypes
    <2>2. replayedTerminalJobState \in {"", "SUCCEEDED", "FAILED"}
      BY DEF replayedTerminalJobState
    <2>3. (IF mem[s].job = Absent THEN ReplayedTasks ELSE NoReplay.task)
            \in [Tasks -> TaskLifecycleState \cup {""}]
      BY <2>1 DEF NoReplay
    <2> QED
      BY <2>1, <2>2, <2>3 DEF ReplaySummary, ReplayType
  <1> DEFINE rc == [IdleRecon EXCEPT !.pc = "apply", !.leader = IsLeader(s), !.rp = ReplaySummary(s)]
  <1>3. rc \in ReconType /\ rc.pc = "apply" /\ rc.rp.job \in JobLifecycleState
    <2>1. IsLeader(s) \in BOOLEAN
      BY DEF IsLeader, TypeInv, ControlTypes
    <2> QED
      BY <1>2, <2>1, IdleTypes DEF ReconType
  <1>4. recon' = [recon EXCEPT ![s] = rc]
    BY DEF ReconcileReplay
  <1>5. replays' \in Nat
    BY DEF ReconcileReplay, TypeInv, ControlTypes
  <1>6. ControlTypes'
    BY <1>3, <1>4, <1>5 DEF TypeInv, ControlTypes, ReconcileReplay, leader, worker
  <1>7. Present' /\ WriteReady' /\ ReplayFound'
    BY <1>3, <1>4 DEF TypeInv, ControlTypes, Present, WriteReady, ReplayFound, ReconcileReplay
  <1> QED
    BY <1>1, <1>6, <1>7 DEF TypeInv

(* ReconcileFail preserves the type invariant. *)
LEMMA ReconcileFailTypes ==
  ASSUME TypeInv, NEW s \in Schedulers, ReconcileFail(s)
  PROVE  TypeInv'
  <1>1. /\ mem' \in [Schedulers -> MemType] /\ mem'[s].job # Absent
        /\ \A x \in Schedulers : x # s => mem'[x] = mem[x]
    <2>1. jobRow \in JobLifecycleState /\ mem \in [Schedulers -> MemType]
      BY DEF TypeInv, WrittenTypes
    <2>2. [NoJob EXCEPT !.job = jobRow] \in MemType /\ [NoJob EXCEPT !.job = jobRow].job # Absent
      BY <2>1, IdleTypes DEF MemType, JobLifecycleState, Absent
    <2> QED
      BY <2>1, <2>2 DEF ReconcileFail
  <1> DEFINE rc == [IdleRecon EXCEPT !.pc = "record", !.want = "FAILED"]
  <1>2. rc \in ReconType /\ rc.pc = "record" /\ rc.want = "FAILED"
    BY IdleTypes DEF ReconType
  <1>3. recon' = [recon EXCEPT ![s] = rc]
    BY DEF ReconcileFail
  <1>4. WrittenTypes'
    BY <1>1 DEF TypeInv, WrittenTypes, HasLatest, ReconcileFail, store, rows, bounds
  <1>5. ControlTypes'
    BY <1>2, <1>3 DEF TypeInv, ControlTypes, ReconcileFail, leader, worker, bounds
  <1>6. Present'
    BY <1>1, <1>3 DEF TypeInv, ControlTypes, Present, ReconcileFail
  <1>7. WriteReady' /\ ReplayFound'
    BY <1>2, <1>3 DEF TypeInv, ControlTypes, WriteReady, ReplayFound, ReconcileFail
  <1> QED
    BY <1>4, <1>5, <1>6, <1>7 DEF TypeInv

(* ReconcileApply preserves the type invariant. *)
LEMMA ReconcileApplyTypes ==
  ASSUME TypeInv, NEW s \in Schedulers, ReconcileApply(s)
  PROVE  TypeInv'
  <1>1. /\ recon[s] \in ReconType /\ recon[s].rp \in ReplayType
        /\ recon[s].rp.job \in JobLifecycleState
    BY DEF TypeInv, ControlTypes, ReplayFound, ReconcileApply, ReconType
  <1>2. WarmJob(s) \in MemType /\ WarmJob(s).job # Absent
    <2>1. mem[s] \in MemType
      BY DEF TypeInv, WrittenTypes
    <2>2. recon[s].rp.task \in [Tasks -> TaskLifecycleState \cup {""}]
      BY <1>1 DEF ReplayType
    <2>3. recon[s].rp.job # Absent
      BY <1>1 DEF JobLifecycleState, Absent
    <2>4. /\ [job |-> recon[s].rp.job, task |-> recon[s].rp.task] \in MemType
          /\ [mem[s] EXCEPT !.job = recon[s].rp.job] \in MemType
          /\ [mem[s] EXCEPT !.job = recon[s].rp.job].job = recon[s].rp.job
      BY <1>1, <2>1, <2>2 DEF MemType
    <2> QED
      BY <2>1, <2>3, <2>4 DEF WarmJob
  <1> DEFINE outcome == [IdleRecon EXCEPT !.pc = "record", !.want = recon[s].rp.outcome]
             rc == IF recon[s].leader /\ WarmJob(s).job = "RUNNING" /\ recon[s].rp.outcome # ""
                   THEN outcome ELSE IdleRecon
  <1>3. /\ mem' = [mem EXCEPT ![s] = WarmJob(s)]
        /\ queued' = [queued EXCEPT ![s] = @ \/ (recon[s].leader /\ Enqueueable(WarmJob(s)))]
        /\ recon' = [recon EXCEPT ![s] = rc]
        /\ UNCHANGED <<store, leader, worker, up, grown, run, gor, bounds>>
    BY DEF ReconcileApply
  <1>4. /\ rc \in ReconType
        /\ rc.pc = "record" => rc.want \in {"SUCCEEDED", "FAILED"}
        /\ rc.pc # "apply"
    <2>1. recon[s].rp.outcome \in {"", "SUCCEEDED", "FAILED"}
      BY <1>1 DEF ReplayType
    <2>2. outcome \in ReconType /\ outcome.pc = "record" /\ outcome.want = recon[s].rp.outcome
      BY <2>1, IdleTypes DEF ReconType
    <2>3. IdleRecon.pc = "idle" /\ IdleRecon \in ReconType
      BY IdleTypes DEF IdleRecon
    <2> QED
      BY <2>1, <2>2, <2>3
  <1>5. WrittenTypes'
    BY <1>2, <1>3 DEF TypeInv, WrittenTypes, HasLatest, store, rows, bounds
  <1>6. queued' \in [Schedulers -> BOOLEAN]
    BY <1>3 DEF TypeInv, ControlTypes
  <1>7. ControlTypes'
    BY <1>3, <1>4, <1>6 DEF TypeInv, ControlTypes, leader, worker, bounds
  <1>8. Present'
    <2> SUFFICES ASSUME NEW x \in Schedulers PROVE
           (\/ run'[x].pc # "idle" \/ recon'[x].pc = "record" \/ queued'[x]
            \/ \E t \in Tasks : gor'[x][t].pc # "off") => mem'[x].job # Absent
      BY DEF Present
    <2>1. CASE x = s
      BY <1>2, <1>3, <2>1 DEF TypeInv, WrittenTypes
    <2>2. CASE x # s
      BY <1>3, <2>2 DEF TypeInv, WrittenTypes, ControlTypes, Present
    <2> QED
      BY <2>1, <2>2
  <1>9. WriteReady' /\ ReplayFound'
    BY <1>3, <1>4 DEF TypeInv, ControlTypes, WriteReady, ReplayFound
  <1> QED
    BY <1>5, <1>7, <1>8, <1>9 DEF TypeInv

(* ReconcileRecord preserves the type invariant. *)
LEMMA ReconcileRecordTypes ==
  ASSUME TypeInv, NEW s \in Schedulers, ReconcileRecord(s)
  PROVE  TypeInv'
  <1>1. mem[s].job # Absent /\ recon[s].want \in JobLifecycleState
    BY DEF TypeInv, Present, ReplayFound, ReconcileRecord, JobLifecycleState
  <1>2. WrittenTypes' /\ \A x \in Schedulers : mem[x].job # Absent => mem'[x].job # Absent
    BY <1>1, JobWriteTypes DEF ReconcileRecord, TypeInv
  <1>3. IdleRecon \in ReconType /\ IdleRecon.pc = "idle"
    BY IdleTypes DEF IdleRecon
  <1>4. ControlTypes'
    BY <1>3 DEF TypeInv, ControlTypes, ReconcileRecord, leader, worker
  <1>5. Present'
    BY <1>1, <1>2, <1>3 DEF TypeInv, ControlTypes, Present, ReconcileRecord
  <1>6. WriteReady' /\ ReplayFound'
    BY <1>3 DEF TypeInv, ControlTypes, WriteReady, ReplayFound, ReconcileRecord
  <1> QED
    BY <1>2, <1>4, <1>5, <1>6 DEF TypeInv

(* Crash preserves the type invariant. *)
LEMMA CrashTypes ==
  ASSUME TypeInv, NEW s \in Schedulers, Crash(s)
  PROVE  TypeInv'
  <1>1. IdleRecon \in ReconType /\ IdleRecon.pc = "idle" /\ IdleRun \in RunType /\ IdleRun.pc = "idle"
    BY IdleTypes DEF IdleRecon, IdleRun
  <1>2. WrittenTypes'
    BY IdleTypes DEF TypeInv, WrittenTypes, HasLatest, Crash, store, rows
  <1>3. ControlTypes'
    <2>1. gor' \in [Schedulers -> [Tasks -> GorType]]
      BY Zenon, OffMoves DEF Crash
    <2>2. /\ run' \in [Schedulers -> RunType] /\ recon' \in [Schedulers -> ReconType]
          /\ up' \in [Schedulers -> BOOLEAN] /\ queued' \in [Schedulers -> BOOLEAN]
      BY <1>1 DEF TypeInv, ControlTypes, Crash
    <2>3. UNCHANGED <<reign, held, net, execs, resumes, replays>> /\ crashes' \in Nat
      BY DEF TypeInv, ControlTypes, Crash, leader, worker
    <2> QED
      BY <2>1, <2>2, <2>3 DEF TypeInv, ControlTypes
  <1>4. Present'
    <2> SUFFICES ASSUME NEW x \in Schedulers PROVE
           (\/ run'[x].pc # "idle" \/ recon'[x].pc = "record" \/ queued'[x]
            \/ \E t \in Tasks : gor'[x][t].pc # "off") => mem'[x].job # Absent
      BY DEF Present
    <2>1. CASE x = s
      BY Zenon, <1>1, <2>1, OffMoves DEF TypeInv, ControlTypes, Crash
    <2>2. CASE x # s
      <3>1. /\ run'[x] = run[x] /\ recon'[x] = recon[x] /\ queued'[x] = queued[x]
            /\ gor'[x] = gor[x] /\ mem'[x] = mem[x]
        BY <2>2, OffMoves DEF TypeInv, WrittenTypes, ControlTypes, Crash
      <3> QED
        BY Zenon, <3>1 DEF TypeInv, Present
    <2> QED
      BY <2>1, <2>2
  <1>5. WriteReady' /\ ReplayFound'
    <2>1. \A x \in Schedulers, u \in Tasks : WriteFits(gor'[x][u])
      BY Zenon, OffMoves DEF Crash
    <2>2. \A x \in Schedulers : recon'[x] = recon[x] \/ recon'[x] = IdleRecon
      BY DEF TypeInv, ControlTypes, Crash
    <2> QED
      BY Zenon, <1>1, <2>1, <2>2 DEF TypeInv, WriteReady, ReplayFound
  <1> QED
    BY <1>2, <1>3, <1>4, <1>5 DEF TypeInv

(* Restart preserves the type invariant. *)
LEMMA RestartTypes ==
  ASSUME TypeInv, NEW s \in Schedulers, Restart(s)
  PROVE  TypeInv'
  <1>1. /\ mem' \in [Schedulers -> MemType]
        /\ \A x \in Schedulers : mem[x].job # Absent => mem'[x].job # Absent
    BY RecoveredMoves DEF Restart, TypeInv, WrittenTypes
  <1>2. WrittenTypes'
    BY Zenon, <1>1 DEF TypeInv, WrittenTypes, HasLatest, Restart, store, rows, bounds
  <1>3. ControlTypes'
    BY DEF TypeInv, ControlTypes, Restart, leader, worker, bounds
  <1>4. Present' /\ WriteReady' /\ ReplayFound'
    BY <1>1 DEF TypeInv, Present, WriteReady, ReplayFound, Restart
  <1> QED
    BY <1>2, <1>3, <1>4 DEF TypeInv

(* The initial state satisfies the type invariant. *)
LEMMA TypeInit == Init => TypeInv
  <1> SUFFICES ASSUME Init PROVE TypeInv
    OBVIOUS
  <1>1. PICK s0 \in Schedulers :
          /\ log = SubmittedLog(s0)
          /\ mem = [s \in Schedulers |->
                      IF s = s0 THEN [job |-> "QUEUED", task |-> [t \in Tasks |-> "PENDING"]]
                                ELSE NoJob]
          /\ queued = [s \in Schedulers |-> s = s0]
    BY DEF Init
  <1>10. log = SubmittedLog(s0)
    BY <1>1
  <1>2. IdleRecon.pc = "idle" /\ IdleRun.pc = "idle"
    BY DEF IdleRecon, IdleRun
  <1>3. log \subseteq JobRecord \cup TaskRecord
    BY Zenon, <1>10, SubmittedRecords
  <1>4. HasLatest
    <2> SUFFICES ASSUME NEW e \in 0..NumTasks PROVE \E r \in log : r.ent = e /\ IsLatest(log, r)
      BY DEF HasLatest, HasLatestIn
    <2>1. CASE e = JobEnt
      <3> DEFINE r == [seq |-> 2, ent |-> JobEnt, state |-> "QUEUED", att |-> 0, by |-> s0]
      <3>1. r \in log /\ r.ent = e
        BY <1>10, <2>1 DEF SubmittedLog
      <3>2. \A q \in log : q.ent = JobEnt => q.seq \in {1, 2}
        BY Zenon, <1>10, SubmittedOrder
      <3>3. IsLatest(log, r)
        BY <3>2 DEF IsLatest
      <3> QED
        BY <3>1, <3>3
    <2>2. CASE e \in Tasks
      <3> DEFINE r == [seq |-> 1, ent |-> e, state |-> "PENDING", att |-> 0, by |-> s0]
      <3>1. r \in log /\ r.ent = e
        BY <1>10, <2>2 DEF SubmittedLog
      <3>2. \A q \in log : q.ent = e => q.seq = 1
        BY Zenon, <1>10, <2>2, Entities, SubmittedOrder
      <3>3. IsLatest(log, r)
        BY <3>2 DEF IsLatest
      <3> QED
        BY <3>1, <3>3
    <2> QED
      BY <2>1, <2>2, DispatchAssumption DEF Tasks, JobEnt
  <1>5. mem \in [Schedulers -> MemType] /\ mem[s0].job # Absent
    BY <1>1, IdleTypes DEF MemType, JobLifecycleState, TaskLifecycleState, Absent
  <1>6. WrittenTypes
    <2>1. order \in [0..NumTasks -> Nat]
      <3>1. order = [e \in 0..NumTasks |-> IF e = JobEnt THEN 2 ELSE 1]
        BY Zenon DEF Init
      <3> QED
        BY <3>1
    <2>2. jobRow \in JobLifecycleState
      BY DEF Init, JobLifecycleState
    <2>3. taskRow \in [Tasks -> [state : TaskLifecycleState, att : Nat]]
      <3>1. [state |-> "PENDING", att |-> 0] \in [state : TaskLifecycleState, att : Nat]
        BY DEF TaskLifecycleState
      <3>2. taskRow = [t \in Tasks |-> [state |-> "PENDING", att |-> 0]]
        BY Zenon DEF Init
      <3> QED
        BY <3>1, <3>2, Zenon
    <2>4. grown \in [Schedulers -> BOOLEAN] /\ faults \in Nat
      <3>1. grown = [x \in Schedulers |-> TRUE] /\ faults = 0
        BY Zenon DEF Init
      <3> QED
        BY <3>1
    <2> QED
      BY <1>3, <1>4, <1>5, <2>1, <2>2, <2>3, <2>4, Zenon DEF WrittenTypes
  <1>7. ControlTypes
    <2>0. reign = <<>> /\ held = FALSE /\ net = {} /\ execs = {}
      BY Zenon DEF Init
    <2>1. reign \in Seq(Schedulers) /\ held \in BOOLEAN
      <3>1. << >> \in Seq(Schedulers)
        OBVIOUS
      <3> QED
        BY <2>0, <3>1, Zenon
    <2>2. /\ run \in [Schedulers -> RunType] /\ recon \in [Schedulers -> ReconType]
          /\ gor \in [Schedulers -> [Tasks -> GorType]]
      BY IdleTypes, OffFits DEF Init
    <2>3. queued \in [Schedulers -> BOOLEAN] /\ up \in [Schedulers -> BOOLEAN]
      <3>1. queued = [s \in Schedulers |-> s = s0] /\ up = [s \in Schedulers |-> TRUE]
        BY <1>1, Zenon DEF Init
      <3> QED
        BY <3>1, Zenon
    <2>4. crashes \in Nat /\ resumes \in Nat /\ replays \in Nat
      <3>1. crashes = 0 /\ resumes = 0 /\ replays = 0
        BY Zenon DEF Init
      <3> QED
        BY <3>1
    <2> QED
      BY <2>0, <2>1, <2>2, <2>3, <2>4 DEF ControlTypes
  <1>8. Present
    <2> SUFFICES ASSUME NEW x \in Schedulers, x # s0
                 PROVE  /\ run[x].pc = "idle" /\ recon[x].pc = "idle" /\ ~queued[x]
                        /\ \A t \in Tasks : gor[x][t].pc = "off"
      BY <1>5 DEF Present
    <2>1. ~queued[x]
      BY <1>1, Zenon
    <2>2. run[x] = IdleRun /\ recon[x] = IdleRecon /\ \A t \in Tasks : gor[x][t] = OffGor
      <3>1. /\ run = [y \in Schedulers |-> IdleRun] /\ recon = [y \in Schedulers |-> IdleRecon]
            /\ gor = [y \in Schedulers |-> [t \in Tasks |-> OffGor]]
        BY Zenon DEF Init
      <3> QED
        BY <3>1
    <2> QED
      BY <1>2, <2>1, <2>2, OffFits
  <1>9. WriteReady /\ ReplayFound
    <2>1. /\ recon = [x \in Schedulers |-> IdleRecon]
          /\ gor = [x \in Schedulers |-> [t \in Tasks |-> OffGor]]
      BY Zenon DEF Init
    <2> QED
      BY <1>2, <2>1, OffFits DEF WriteReady, ReplayFound
  <1> QED
    BY <1>6, <1>7, <1>8, <1>9 DEF TypeInv

(* Every step preserves the type invariant. *)
LEMMA TypeStep == TypeInv /\ [Next]_vars => TypeInv'
  <1> SUFFICES ASSUME TypeInv, [Next]_vars PROVE TypeInv'
    OBVIOUS
  <1>1. CASE Next
    <2>1. ASSUME NEW s \in Schedulers, RunLoop(s) \/ ResumeAwaitingHumanJob(s) PROVE TypeInv'
      BY <2>1, DequeueTypes, RefreshTypes, RunWithoutTasksTypes, NextStageTypes,
         FinishJobTypes, ResumeTypes DEF RunLoop
    <2>2. ASSUME NEW s \in Schedulers, Reconcile(s) PROVE TypeInv'
      BY <2>2, TryEnqueueTypes, ReconcileReplayTypes, ReconcileFailTypes,
         ReconcileApplyTypes, ReconcileRecordTypes DEF Reconcile
    <2>3. ASSUME NEW s \in Schedulers, NEW t \in Tasks, Goroutine(s, t) PROVE TypeInv'
      BY <2>3, GoroutineTypes
    <2>4. ASSUME NEW s \in Schedulers, Elect(s) \/ Crash(s) \/ Restart(s) PROVE TypeInv'
      BY <2>4, ElectionTypes, CrashTypes, RestartTypes
    <2>5. CASE LoseLease
      BY <2>5, ElectionTypes
    <2>6. ASSUME NEW m \in net, WorkerExecute(m) PROVE TypeInv'
      BY <2>6, WorkerTypes
    <2> QED
      BY <1>1, <2>1, <2>2, <2>3, <2>4, <2>5, <2>6 DEF Next
  <1>2. CASE UNCHANGED vars
    BY <1>2 DEF TypeInv, WrittenTypes, HasLatest, ControlTypes, Present, WriteReady, ReplayFound,
       vars, store, rows, leader, worker, local, bounds
  <1> QED
    BY <1>1, <1>2

(* Every reachable state satisfies the type invariant, whatever the number  *)
(* of schedulers, tasks, stages, attempts, epochs, crashes and faults.      *)
THEOREM TypeInvariant == Spec => []TypeInv
  BY TypeInit, TypeStep, PTL DEF Spec

(* TypeOK holds in every reachable state: every state the scheduler, its
   goroutines, the log and the rows reach has the declared types. *)
THEOREM TypeCorrectness == Spec => []TypeOK
  <1>1. TypeInv => TypeOK
    BY DEF TypeInv, TypeOK, WrittenTypes, ControlTypes
  <1> QED
    BY <1>1, TypeInvariant, PTL

-----------------------------------------------------------------------------
(* Facts about goroutines that the other proofs share. *)

(* Where a goroutine has numbered a write that is not committed yet. *)
Writing == {"claimW", "runW", "finW"}

(* Only one goroutine moves when one moves. *)
LEMMA OneMoves ==
  ASSUME TypeInv, NEW s \in Schedulers, NEW t \in Tasks, NEW g, Goto(s, t, g)
  PROVE  /\ gor'[s][t] = g
         /\ \A x \in Schedulers, u \in Tasks : (x # s \/ u # t) => gor'[x][u] = gor[x][u]
  BY DEF Goto, TypeInv, ControlTypes

(* What EXCEPT leaves of a goroutine's state. *)
LEMMA MovedFields ==
  ASSUME NEW g \in GorType, NEW p, NEW w
  PROVE  /\ [g EXCEPT !.pc = p].pc = p /\ [g EXCEPT !.pc = p].att = g.att
         /\ [g EXCEPT !.pc = p, !.w = w].pc = p /\ [g EXCEPT !.pc = p, !.w = w].att = g.att
  BY DEF GorType

(* The state of every goroutine has its type. *)
LEMMA GorTyped ==
  ASSUME TypeInv, NEW s \in Schedulers, NEW t \in Tasks
  PROVE  gor[s][t] \in GorType
  BY DEF TypeInv, ControlTypes
=============================================================================

------------------------ MODULE DispatchSafetyProofs ------------------------
(***************************************************************************)
(* Safety of Dispatch, for every value of the constants: a claim precedes  *)
(* every dispatch, only the leader's requests are executed, a task         *)
(* succeeds only after a worker executed it, and its first attempt is      *)
(* claimed and sent once.                                                  *)
(*                                                                         *)
(* The actions are looked at once, in StepEffects, which says what any     *)
(* step may do to the log, the network, the workers, the election and the  *)
(* goroutines; the invariants follow from those effects alone.             *)
(***************************************************************************)
EXTENDS DispatchProofs

Claimed(L, s, t, att) ==
  \E r \in L : r.ent = t /\ r.state = "DISPATCHED" /\ r.att = att /\ r.by = s

(* Where a goroutine is once its claim has been committed. *)
Holding == {"first", "job", "run", "runW", "auth", "sent", "finW"}

(* Where it is until it sends its request. *)
Unsent == {"first", "job", "run", "runW", "auth"}

(* What a step may do to the log: it adds a record, and a task record is    *)
(* the one a goroutine was about to write; a claim is for a later attempt   *)
(* than the row has.                                                        *)
LogEffect ==
  /\ log \subseteq log'
  /\ \A p, r \in log' \ log : p = r
  /\ \A r \in log' : \/ r \in log \/ r.ent = JobEnt
                     \/ \E s \in Schedulers, t \in Tasks :
                          /\ gor[s][t].pc \in Writing
                          /\ r.ent = t /\ r.att = gor[s][t].att /\ r.by = s
                          /\ r.state = gor[s][t].w.state
                          /\ gor[s][t].pc = "claimW" => taskRow[t].att < r.att

(* A task's row has the attempt of the task's new record, and falls back    *)
(* only to the attempt of a goroutine that writes under its claim.          *)
AttemptEffect ==
  /\ \A r \in log' \ log : r.ent \in Tasks => taskRow'[r.ent].att = r.att
  /\ \A t \in Tasks :
       \/ taskRow'[t] = taskRow[t] \/ taskRow[t].att < taskRow'[t].att
       \/ \E s \in Schedulers : gor[s][t].pc \in Holding /\ taskRow'[t].att = gor[s][t].att

(* A request is sent by a goroutine that passed the authority check, and is *)
(* executed when its epoch is that of the leader key.                       *)
NetEffect ==
  /\ \A m \in net' : \/ m \in net
                     \/ \E s \in Schedulers, t \in Tasks :
                          /\ gor[s][t].pc = "auth" /\ gor'[s][t].pc = "sent"
                          /\ IsLeader(s) /\ m = Request(s, t, epoch)
  /\ execs \subseteq execs'
  /\ \A m \in execs' : m \in execs \/ (m \in net /\ held /\ m.ep = epoch)

ReignEffect == reign' = reign \/ \E s \in Schedulers : reign' = Append(reign, s)

(* A goroutine holds a claim because it committed one, or held it before;   *)
(* it is about to write a success because a worker executed its request.    *)
GorEffect(s, t) ==
  LET g == gor[s][t]
      h == gor'[s][t]
  IN \/ h = g
     \/ h.pc \notin Holding
     \/ /\ g.pc = "claimW" /\ h.pc = "first" /\ taskRow[t].att < h.att
        /\ Claimed(log', s, t, h.att)
     \/ g.pc \in Unsent /\ h.pc \in Unsent \cup {"sent"} /\ h.att = g.att
     \/ /\ g.pc = "sent" /\ h.pc = "finW" /\ h.att = g.att
        /\ h.res = "ok" => Request(s, t, g.tok) \in execs

GorEffects == \A s \in Schedulers, t \in Tasks : GorEffect(s, t)

StoreEffects == LogEffect /\ AttemptEffect /\ NetEffect /\ ReignEffect

Effects == StoreEffects /\ GorEffects

(* A step of one goroutine has the effects claimed when its own change does. *)
LEMMA OneEffect ==
  ASSUME TypeInv, NEW s \in Schedulers, NEW t \in Tasks, NEW g, Goto(s, t, g),
         GorEffect(s, t)
  PROVE  GorEffects
<1> SUFFICES ASSUME NEW x \in Schedulers, NEW u \in Tasks PROVE GorEffect(x, u)
  BY DEF GorEffects
<1>1. CASE x = s /\ u = t
  BY <1>1
<1>2. CASE x # s \/ u # t
  <2>1. gor'[x][u] = gor[x][u]
    BY <1>2, OneMoves
  <2> QED
    BY <2>1 DEF GorEffect
<1> QED
  BY <1>1, <1>2

(* A goroutine that starts over or is done holds no claim. *)
LEMMA FreshEffect ==
  ASSUME TypeInv, NEW s \in Schedulers, NEW t \in Tasks, NEW g, Goto(s, t, g), g.pc \notin Holding
  PROVE  GorEffects
  BY OneMoves, OneEffect DEF GorEffect

(* A goroutine that finishes claims nothing. *)
LEMMA DoneEffect ==
  ASSUME TypeInv, NEW s \in Schedulers, NEW t \in Tasks, NEW r, Goto(s, t, Done(r))
  PROVE  GorEffects
  <1>1. Done(r).pc \notin Holding
    BY DEF OffGor, Done, Holding
  <1> QED
    BY <1>1, FreshEffect

(* A goroutine that retries gives up its claim. *)
LEMMA RetryEffect ==
  ASSUME TypeInv, NEW s \in Schedulers, NEW t \in Tasks, RetryOrGiveUp(s, t)
  PROVE  GorEffects
  <1> DEFINE g == [OffGor EXCEPT !.pc = "claim", !.att = gor[s][t].att + 1]
  <1>1. CASE Goto(s, t, g)
    <2>1. g.pc \notin Holding
      BY DEF OffGor, Holding
    <2> HIDE DEF g
    <2> QED
      BY <1>1, <2>1, FreshEffect
  <1>2. CASE Goto(s, t, Done("err"))
    BY <1>2, DoneEffect
  <1> QED
    BY <1>1, <1>2 DEF RetryOrGiveUp

(* Steps that leave the store, the network and the election alone. *)
LEMMA QuietEffect ==
  ASSUME UNCHANGED <<log, taskRow, net, execs, reign>>
  PROVE  StoreEffects
  BY DEF StoreEffects, LogEffect, AttemptEffect, NetEffect, ReignEffect

(* A job write adds a job record. *)
LEMMA JobWriteEffect ==
  ASSUME NEW s \in Schedulers, NEW to, recordJobTransition(s, to), UNCHANGED <<net, execs, reign>>
  PROVE  StoreEffects
  <1>1. \/ log' = log
        \/ log' = log \cup {[seq |-> order[JobEnt] + 1, ent |-> JobEnt, state |-> to,
                             att |-> 0, by |-> s]}
    BY DEF recordJobTransition, AppendTransition, Write, PersistFails, store, rows
  <1>2. taskRow' = taskRow
    BY DEF recordJobTransition, PersistFails, store, rows
  <1>3. LogEffect
    BY <1>1 DEF LogEffect
  <1>4. AttemptEffect
    BY <1>1, <1>2 DEF AttemptEffect, JobEnt, Tasks
  <1> QED
    BY <1>3, <1>4 DEF StoreEffects, NetEffect, ReignEffect

(* The transaction of a task write adds the record it was about to write. *)
LEMMA TaskWriteEffect ==
  ASSUME TypeInv, NEW s \in Schedulers, NEW t \in Tasks, gor[s][t].pc \in Writing,
         gor[s][t].pc = "claimW" => taskRow[t].att < gor[s][t].att,
         PersistTask(s, t, gor[s][t].w) \/ PersistFails, UNCHANGED <<net, execs, reign>>
  PROVE  StoreEffects
  <1> DEFINE r == [seq |-> gor[s][t].w.seq, ent |-> t, state |-> gor[s][t].w.state,
                   att |-> gor[s][t].att, by |-> s]
  <1>1. CASE PersistFails
    BY <1>1, QuietEffect DEF PersistFails, rows
  <1>2. CASE PersistTask(s, t, gor[s][t].w)
    <2>1. log' = log \cup {r}
      BY <1>2 DEF PersistTask, AppendTransition
    <2>0. r.ent = t /\ r.att = gor[s][t].att /\ r.by = s /\ r.state = gor[s][t].w.state
      OBVIOUS
    <2> HIDE DEF r
    <2>2. LogEffect
      BY <2>0, <2>1 DEF LogEffect
    <2>3. taskRow \in [Tasks -> [state : TaskLifecycleState, att : Nat]]
      BY DEF TypeInv, WrittenTypes
    <2>4. /\ taskRow'[t].att = gor[s][t].att
          /\ \A u \in Tasks : u # t => taskRow'[u] = taskRow[u]
      BY <1>2, <2>3 DEF PersistTask
    <2>5. gor[s][t].pc = "claimW" \/ gor[s][t].pc \in Holding
      BY DEF Writing, Holding
    <2>6. AttemptEffect
      BY <2>0, <2>1, <2>4, <2>5 DEF AttemptEffect
    <2> QED
      BY <2>2, <2>6 DEF StoreEffects, NetEffect, ReignEffect
  <1> QED
    BY <1>1, <1>2
-----------------------------------------------------------------------------
(* The effects of the steps of a goroutine. *)

(* The effects of BeginClaim. *)
LEMMA BeginClaimEffects ==
  ASSUME TypeInv, NEW s \in Schedulers, NEW t \in Tasks, BeginClaim(s, t)
  PROVE  Effects
  <1>1. StoreEffects
    BY QuietEffect DEF BeginClaim, rows, leader, worker
  <1>2. CASE RetryOrGiveUp(s, t)
    BY <1>1, <1>2, RetryEffect DEF Effects
  <1>3. CASE Goto(s, t, [gor[s][t] EXCEPT !.pc = "claimW", !.w = Write(s, t, "DISPATCHED")])
    <2> DEFINE g == [gor[s][t] EXCEPT !.pc = "claimW", !.w = Write(s, t, "DISPATCHED")]
    <2>1. g.pc \notin Holding
      BY GorTyped, MovedFields DEF Holding
    <2> HIDE DEF g
    <2> QED
      BY Zenon, <1>1, <1>3, <2>1, FreshEffect DEF g, Effects
  <1> QED
    BY <1>2, <1>3 DEF BeginClaim

(* The effects of EndClaim. *)
LEMMA EndClaimEffects ==
  ASSUME TypeInv, NEW s \in Schedulers, NEW t \in Tasks, EndClaim(s, t)
  PROVE  Effects
  <1>0. gor[s][t].pc = "claimW" /\ gor[s][t].pc \in Writing /\ UNCHANGED <<net, execs, reign>>
    BY DEF EndClaim, leader, worker, Writing
  <1>1. CASE /\ ClaimTaskDispatch(t, gor[s][t].att)
             /\ PersistTask(s, t, gor[s][t].w)
             /\ Goto(s, t, [gor[s][t] EXCEPT !.pc = "first", !.w = NoWrite])
    <2>0. taskRow[t].att < gor[s][t].att
      BY <1>1 DEF ClaimTaskDispatch
    <2>1. StoreEffects
      BY <1>0, <1>1, <2>0, TaskWriteEffect
    <2>2. gor[s][t].w.state = "DISPATCHED"
      BY <1>0 DEF TypeInv, WriteReady, WriteFits
    <2> DEFINE r == [seq |-> gor[s][t].w.seq, ent |-> t, state |-> gor[s][t].w.state,
                     att |-> gor[s][t].att, by |-> s]
    <2>3. r \in log'
      BY <1>1 DEF PersistTask, AppendTransition
    <2>4. Claimed(log', s, t, gor[s][t].att)
      BY <2>2, <2>3 DEF Claimed
    <2>5. gor'[s][t].pc = "first" /\ gor'[s][t].att = gor[s][t].att
      <3>1. gor'[s][t] = [gor[s][t] EXCEPT !.pc = "first", !.w = NoWrite]
        BY <1>1, OneMoves
      <3> QED
        BY <3>1, GorTyped, MovedFields
    <2> QED
      BY <1>0, <1>1, <2>0, <2>1, <2>4, <2>5, OneEffect DEF GorEffect, Effects
  <1>2. CASE RetryOrGiveUp(s, t) /\ UNCHANGED rows
    BY <1>0, <1>2, QuietEffect, RetryEffect DEF Effects, rows
  <1>3. CASE PersistFails /\ Goto(s, t, Done("err"))
    BY <1>0, <1>3, QuietEffect, DoneEffect DEF Effects, PersistFails, rows
  <1> QED
    BY <1>1, <1>2, <1>3 DEF EndClaim, rows

(* A goroutine that moves on under its claim. *)
LEMMA HoldEffect ==
  ASSUME TypeInv, NEW s \in Schedulers, NEW t \in Tasks, NEW g, Goto(s, t, g),
         gor[s][t].pc \in Unsent, g.pc \in Unsent \cup {"sent"}, g.att = gor[s][t].att
  PROVE  GorEffects
  BY OneMoves, OneEffect DEF GorEffect

(* The effects of ReadJobState. *)
LEMMA ReadJobStateEffects ==
  ASSUME TypeInv, NEW s \in Schedulers, NEW t \in Tasks, ReadJobState(s, t)
  PROVE  Effects
  <1> DEFINE g == [gor[s][t] EXCEPT !.pc =
                     IF mem[s].job \in {"QUEUED", "AWAITING_HUMAN"} THEN "job" ELSE "run"]
  <1>1. StoreEffects
    BY QuietEffect DEF ReadJobState, store, rows, leader, worker
  <1>2. gor[s][t].pc \in Unsent /\ g.pc \in Unsent \cup {"sent"} /\ g.att = gor[s][t].att
    BY GorTyped, MovedFields DEF ReadJobState, Unsent
  <1>3. Goto(s, t, g)
    BY DEF ReadJobState
  <1> QED
    BY Zenon, <1>1, <1>2, <1>3, HoldEffect DEF Effects

(* The effects of RecordJobRunning. *)
LEMMA RecordJobRunningEffects ==
  ASSUME TypeInv, NEW s \in Schedulers, NEW t \in Tasks, RecordJobRunning(s, t)
  PROVE  Effects
  <1> DEFINE g == [gor[s][t] EXCEPT !.pc = "run"]
  <1>1. StoreEffects
    BY JobWriteEffect DEF RecordJobRunning, leader, worker
  <1>2. gor[s][t].pc \in Unsent /\ g.pc \in Unsent \cup {"sent"} /\ g.att = gor[s][t].att
    BY GorTyped, MovedFields DEF RecordJobRunning, Unsent
  <1>3. Goto(s, t, g)
    BY DEF RecordJobRunning
  <1> QED
    BY Zenon, <1>1, <1>2, <1>3, HoldEffect DEF Effects

(* The effects of BeginTaskRunning. *)
LEMMA BeginTaskRunningEffects ==
  ASSUME TypeInv, NEW s \in Schedulers, NEW t \in Tasks, BeginTaskRunning(s, t)
  PROVE  Effects
  <1> DEFINE g == [gor[s][t] EXCEPT !.pc = "runW", !.w = Write(s, t, "RUNNING")]
  <1>1. StoreEffects
    BY QuietEffect DEF BeginTaskRunning, rows, leader, worker
  <1>2. gor[s][t].pc \in Unsent /\ g.pc \in Unsent \cup {"sent"} /\ g.att = gor[s][t].att
    BY GorTyped, MovedFields DEF BeginTaskRunning, Unsent
  <1>3. Goto(s, t, g)
    BY DEF BeginTaskRunning
  <1> QED
    BY Zenon, <1>1, <1>2, <1>3, HoldEffect DEF Effects

(* The effects of EndTaskRunning. *)
LEMMA EndTaskRunningEffects ==
  ASSUME TypeInv, NEW s \in Schedulers, NEW t \in Tasks, EndTaskRunning(s, t)
  PROVE  Effects
  <1> DEFINE g == [gor[s][t] EXCEPT !.pc = "auth", !.w = NoWrite]
  <1>1. StoreEffects
    BY TaskWriteEffect DEF EndTaskRunning, leader, worker, Writing
  <1>2. gor[s][t].pc \in Unsent /\ g.pc \in Unsent \cup {"sent"} /\ g.att = gor[s][t].att
    BY GorTyped, MovedFields DEF EndTaskRunning, Unsent
  <1>3. Goto(s, t, g)
    BY DEF EndTaskRunning
  <1> QED
    BY Zenon, <1>1, <1>2, <1>3, HoldEffect DEF Effects

(* The effects of CheckAuthority. *)
LEMMA CheckAuthorityEffects ==
  ASSUME TypeInv, NEW s \in Schedulers, NEW t \in Tasks, CheckAuthority(s, t)
  PROVE  Effects
  <1>0. /\ gor[s][t].pc = "auth" /\ UNCHANGED <<log, execs, reign>>
        /\ UNCHANGED taskRow
        /\ \/ /\ IsLeader(s)
              /\ Goto(s, t, [gor[s][t] EXCEPT !.pc = "sent", !.tok = epoch])
              /\ net' = net \cup {Request(s, t, epoch)}
           \/ Goto(s, t, Done("err")) /\ UNCHANGED net
    BY DEF CheckAuthority, store, rows, leader
  <1>1. CASE /\ IsLeader(s)
             /\ Goto(s, t, [gor[s][t] EXCEPT !.pc = "sent", !.tok = epoch])
             /\ net' = net \cup {Request(s, t, epoch)}
    <2> DEFINE g == [gor[s][t] EXCEPT !.pc = "sent", !.tok = epoch]
    <2>0. gor'[s][t].pc = "sent"
      <3>1. gor'[s][t] = g
        BY <1>1, OneMoves
      <3>2. gor[s][t] \in GorType
        BY GorTyped
      <3> QED
        BY <3>1, <3>2 DEF GorType
    <2>1. StoreEffects
      BY <1>0, <1>1, <2>0 DEF StoreEffects, LogEffect, AttemptEffect, NetEffect, ReignEffect
    <2>2. gor[s][t].pc \in Unsent /\ g.pc \in Unsent \cup {"sent"} /\ g.att = gor[s][t].att
      <3>1. gor[s][t] \in GorType
        BY GorTyped
      <3> QED
        BY <1>0, <3>1 DEF GorType, Unsent
    <2> QED
      BY Zenon, <1>1, <2>1, <2>2, HoldEffect DEF Effects
  <1>2. CASE Goto(s, t, Done("err")) /\ UNCHANGED net
    BY <1>0, <1>2, QuietEffect, DoneEffect DEF Effects
  <1> QED
    BY <1>0, <1>1, <1>2

(* After an outcome, a goroutine starts over or is done. *)
LEMMA AfterTaskEffect ==
  ASSUME TypeInv, NEW s \in Schedulers, NEW t \in Tasks, NEW res, AfterTask(s, t, res)
  PROVE  GorEffects
  BY RetryEffect, DoneEffect DEF AfterTask

(* A success is prepared only after an execution. *)
LEMMA BeginTaskOutcomeEffect ==
  ASSUME TypeInv, NEW s \in Schedulers, NEW t \in Tasks, NEW res, BeginTaskOutcome(s, t, res),
         gor[s][t].pc = "sent", res = "ok" => Request(s, t, gor[s][t].tok) \in execs
  PROVE  GorEffects
  <1> DEFINE to == IF res = "ok" THEN "SUCCEEDED" ELSE "FAILED"
             g == [gor[s][t] EXCEPT !.pc = "finW", !.tok = 0, !.res = res, !.w = Write(s, t, to)]
  <1>1. CASE Goto(s, t, g)
    <2>1. g.pc = "finW" /\ g.att = gor[s][t].att /\ g.res = res
      <3>1. gor[s][t] \in GorType
        BY GorTyped
      <3> QED
        BY <3>1 DEF GorType
    <2> HIDE DEF g
    <2> QED
      BY <1>1, <2>1, OneMoves, OneEffect DEF GorEffect
  <1>2. CASE AfterTask(s, t, res)
    BY <1>2, AfterTaskEffect
  <1> QED
    BY <1>1, <1>2 DEF BeginTaskOutcome

(* The effects of ReturnFromNode. *)
LEMMA ReturnFromNodeEffects ==
  ASSUME TypeInv, NEW s \in Schedulers, NEW t \in Tasks, ReturnFromNode(s, t)
  PROVE  Effects
  <1>1. StoreEffects
    BY QuietEffect DEF ReturnFromNode, rows, leader, worker
  <1>2. gor[s][t].pc = "sent"
    BY DEF ReturnFromNode
  <1>3. CASE /\ Request(s, t, gor[s][t].tok) \in execs
             /\ \E res \in {"ok", "pause"} : BeginTaskOutcome(s, t, res)
    BY <1>1, <1>2, <1>3, BeginTaskOutcomeEffect DEF Effects
  <1>4. CASE Goto(s, t, Done("err"))
    BY <1>1, <1>4, DoneEffect DEF Effects
  <1>5. CASE \E res \in {"err", "capacity"} : BeginTaskOutcome(s, t, res)
    BY <1>1, <1>2, <1>5, BeginTaskOutcomeEffect DEF Effects
  <1> QED
    BY <1>3, <1>4, <1>5 DEF ReturnFromNode

(* The effects of EndTaskOutcome. *)
LEMMA EndTaskOutcomeEffects ==
  ASSUME TypeInv, NEW s \in Schedulers, NEW t \in Tasks, EndTaskOutcome(s, t)
  PROVE  Effects
  <1>1. StoreEffects
    BY TaskWriteEffect DEF EndTaskOutcome, leader, worker, Writing
  <1> QED
    BY <1>1, AfterTaskEffect DEF EndTaskOutcome, Effects

(* The effects of a task goroutine. *)
LEMMA GoroutineEffects ==
  ASSUME TypeInv, NEW s \in Schedulers, NEW t \in Tasks, Goroutine(s, t)
  PROVE  Effects
  BY BeginClaimEffects, EndClaimEffects, ReadJobStateEffects, RecordJobRunningEffects,
     BeginTaskRunningEffects, EndTaskRunningEffects, CheckAuthorityEffects,
     ReturnFromNodeEffects, EndTaskOutcomeEffects DEF Goroutine
-----------------------------------------------------------------------------
(* The effects of the other steps. *)

(* A step that leaves the goroutines alone has no effect on them. *)
LEMMA UntouchedGoroutines ==
  ASSUME UNCHANGED gor
  PROVE  GorEffects
  BY DEF GorEffects, GorEffect

(* Switching goroutines off has no effect on claims. *)
LEMMA OffEffect ==
  ASSUME TypeInv, NEW s \in Schedulers, gor' = [gor EXCEPT ![s] = [t \in Tasks |-> OffGor]]
  PROVE  GorEffects
  <1>1. \A x \in Schedulers, u \in Tasks : gor'[x][u] = gor[x][u] \/ gor'[x][u].pc = "off"
    BY Zenon, OffMoves
  <1> QED
    BY <1>1 DEF GorEffects, GorEffect, Holding

(* A starting goroutine holds no claim. *)
LEMMA StartEffect ==
  ASSUME TypeInv, NEW s \in Schedulers, NEW m, NEW k, executeStage(s, m, k)
  PROVE  GorEffects
  <1>1. PICK started \in SUBSET StageTasks(m, k) :
          gor' = [gor EXCEPT ![s] = [t \in Tasks |->
                   IF t \in started THEN [OffGor EXCEPT !.pc = "claim", !.att = 1] ELSE OffGor]]
    BY Zenon DEF executeStage
  <1>2. OffGor.pc \notin Holding /\ [OffGor EXCEPT !.pc = "claim", !.att = 1].pc \notin Holding
    BY DEF OffGor, Holding
  <1>3. \A x \in Schedulers, u \in Tasks : gor'[x][u] = gor[x][u] \/ gor'[x][u].pc \notin Holding
    BY <1>1, <1>2 DEF TypeInv, ControlTypes
  <1> QED
    BY <1>3 DEF GorEffects, GorEffect

(* Starting a job gives no goroutine a claim. *)
LEMMA StartJobEffect ==
  ASSUME TypeInv, NEW s \in Schedulers, NEW m, executeJob(s, m)
  PROVE  GorEffects
  BY StartEffect, UntouchedGoroutines DEF executeJob

(* The effects of the run loop. *)
LEMMA RunLoopEffects ==
  ASSUME TypeInv, NEW s \in Schedulers, RunLoop(s) \/ ResumeAwaitingHumanJob(s)
  PROVE  Effects
  <1>1. CASE Dequeue(s)
    BY <1>1, QuietEffect, UntouchedGoroutines DEF Dequeue, Effects, store, rows, leader, worker
  <1>2. CASE Refresh(s)
    <2>1. StoreEffects
      BY <1>2, QuietEffect DEF Refresh, store, rows, leader, worker
    <2>2. executeJob(s, mem'[s]) \/ UNCHANGED gor
      BY <1>2 DEF Refresh
    <2> QED
      BY <2>1, <2>2, StartJobEffect, UntouchedGoroutines DEF Effects
  <1>3. CASE RunWithoutTasks(s)
    BY <1>3, JobWriteEffect, UntouchedGoroutines DEF RunWithoutTasks, Effects, leader, worker
  <1>4. CASE NextStage(s)
    BY <1>4, QuietEffect, StartEffect DEF NextStage, Effects, store, rows, leader, worker
  <1>5. CASE FinishJob(s)
    <2>1. \E to : recordJobTransition(s, to)
      BY <1>5 DEF FinishJob
    <2>2. StoreEffects
      BY <1>5, <2>1, JobWriteEffect DEF FinishJob, leader, worker
    <2>3. GorEffects
      BY Zenon, <1>5, OffEffect DEF FinishJob
    <2> QED
      BY <2>2, <2>3 DEF Effects
  <1>6. CASE ResumeAwaitingHumanJob(s)
    <2>1. StoreEffects
      BY <1>6, QuietEffect DEF ResumeAwaitingHumanJob, store, rows, leader, worker
    <2>2. \E m : executeJob(s, m)
      BY <1>6 DEF ResumeAwaitingHumanJob
    <2> QED
      BY <2>1, <2>2, StartJobEffect DEF Effects
  <1> QED
    BY <1>1, <1>2, <1>3, <1>4, <1>5, <1>6 DEF RunLoop

(* The effects of the reconcile loop. *)
LEMMA ReconcileEffects ==
  ASSUME TypeInv, NEW s \in Schedulers, Reconcile(s)
  PROVE  Effects
  <1>1. UNCHANGED <<net, execs, reign, gor>>
    BY DEF Reconcile, TryEnqueueExistingQueuedJob, ReconcileReplay, ReconcileFail,
           ReconcileApply, ReconcileRecord, leader, worker
  <1>2. UNCHANGED <<log, taskRow>> \/ \E to : recordJobTransition(s, to)
    BY DEF Reconcile, TryEnqueueExistingQueuedJob, ReconcileReplay, ReconcileFail,
           ReconcileApply, ReconcileRecord, store, rows
  <1> QED
    BY <1>1, <1>2, QuietEffect, JobWriteEffect, UntouchedGoroutines DEF Effects

(* The effects of workers, elections, crashes, restarts and resumes. *)
LEMMA OtherEffects ==
  ASSUME TypeInv,
         \/ \E s \in Schedulers : Elect(s) \/ Crash(s) \/ Restart(s)
         \/ LoseLease \/ \E m \in net : WorkerExecute(m)
  PROVE  Effects
  <1>1. ASSUME NEW s \in Schedulers, Elect(s) PROVE Effects
    BY <1>1, UntouchedGoroutines
       DEF Elect, Effects, StoreEffects, LogEffect, AttemptEffect, NetEffect, ReignEffect, store, rows, worker
  <1>2. ASSUME NEW s \in Schedulers, Crash(s) PROVE Effects
    BY Zenon, <1>2, QuietEffect, OffEffect DEF Crash, Effects, store, rows, leader, worker
  <1>3. ASSUME NEW s \in Schedulers, Restart(s) PROVE Effects
    BY <1>3, QuietEffect, UntouchedGoroutines DEF Restart, Effects, store, rows, leader, worker
  <1>4. CASE LoseLease
    BY <1>4, QuietEffect, UntouchedGoroutines DEF LoseLease, Effects, store, rows, worker
  <1>5. ASSUME NEW m \in net, WorkerExecute(m) PROVE Effects
    BY <1>5, UntouchedGoroutines
       DEF WorkerExecute, Effects, StoreEffects, LogEffect, AttemptEffect, NetEffect, ReignEffect, store, rows, leader
  <1> QED
    BY <1>1, <1>2, <1>3, <1>4, <1>5

(* Every step has only the effects listed above. *)
LEMMA StepEffects ==
  ASSUME TypeInv, [Next]_vars
  PROVE  Effects
  <1>1. CASE Next
    BY <1>1, RunLoopEffects, ReconcileEffects, GoroutineEffects, OtherEffects DEF Next
  <1>2. CASE UNCHANGED vars
    BY <1>2, QuietEffect, UntouchedGoroutines DEF Effects, vars, store, rows, leader, worker
  <1> QED
    BY <1>1, <1>2
-----------------------------------------------------------------------------
(* The invariants. *)

(* A goroutine past its claim has the claim's record in the log. *)
ClaimHeld ==
  \A s \in Schedulers, t \in Tasks :
    gor[s][t].pc \in Holding => Claimed(log, s, t, gor[s][t].att)

(* A request carries an epoch that was granted, and to its sender. *)
EpochGranted ==
  \A m \in net : m.ep \in 1..Len(reign) /\ reign[m.ep] = m.by

(* A success about to be recorded was executed. *)
SuccessBacked ==
  \A s \in Schedulers, t \in Tasks :
    (gor[s][t].pc = "finW" /\ gor[s][t].res = "ok") =>
       \E m \in execs : m.task = t /\ m.att = gor[s][t].att /\ m.by = s

SafetyInv == ClaimHeld /\ NoClaimNoDispatch /\ EpochGranted /\ SuccessBacked /\ SuccessWasExecuted

(* The initial state satisfies the safety invariant. *)
LEMMA SafetyInit == Init => SafetyInv
  <1> SUFFICES ASSUME Init PROVE SafetyInv
    OBVIOUS
  <1>1. net = {} /\ execs = {} /\ gor = [x \in Schedulers |-> [t \in Tasks |-> OffGor]]
    BY Zenon DEF Init
  <1>2. \A s \in Schedulers, t \in Tasks : gor[s][t].pc \notin Holding /\ gor[s][t].pc # "finW"
    BY <1>1, OffFits DEF Holding
  <1>3. PICK s0 \in Schedulers : log = SubmittedLog(s0)
    BY DEF Init
  <1>4. SuccessWasExecuted
    BY <1>3 DEF SubmittedLog, SuccessWasExecuted
  <1> QED
    BY <1>1, <1>2, <1>4 DEF SafetyInv, ClaimHeld, NoClaimNoDispatch, EpochGranted, SuccessBacked

(* Every step keeps claims in the log. *)
LEMMA ClaimStep ==
  ASSUME ClaimHeld, NoClaimNoDispatch, Effects
  PROVE  ClaimHeld' /\ NoClaimNoDispatch'
  <1>1. ASSUME NEW s, NEW t, NEW att, Claimed(log, s, t, att) PROVE Claimed(log', s, t, att)
    BY <1>1 DEF Effects, StoreEffects, LogEffect, Claimed
  <1>2. ASSUME NEW s \in Schedulers, NEW t \in Tasks, gor'[s][t].pc \in Holding
        PROVE  Claimed(log', s, t, gor'[s][t].att)
    <2>1. GorEffect(s, t)
      BY DEF Effects, GorEffects
    <2>2. CASE gor[s][t].pc = "sent" /\ gor'[s][t].att = gor[s][t].att
      BY <1>1, <2>2 DEF ClaimHeld, Holding
    <2> QED
      BY <1>1, <1>2, <2>1, <2>2 DEF GorEffect, ClaimHeld, Unsent, Holding
  <1>3. ASSUME NEW m \in net' \cup execs' PROVE Claimed(log', m.by, m.task, m.att)
    <2>1. CASE m \in net \cup execs
      BY <1>1, <2>1 DEF NoClaimNoDispatch, Claimed
    <2>2. CASE \E s \in Schedulers, t \in Tasks : gor[s][t].pc = "auth" /\ m = Request(s, t, epoch)
      BY <1>1, <2>2 DEF ClaimHeld, Holding, Request
    <2> QED
      BY <2>1, <2>2 DEF Effects, StoreEffects, NetEffect
  <1> QED
    BY <1>2, <1>3 DEF ClaimHeld, NoClaimNoDispatch, Claimed

(* Every step keeps request epochs granted to their senders. *)
LEMMA EpochStep ==
  ASSUME TypeInv, EpochGranted, Effects
  PROVE  EpochGranted'
  <1> SUFFICES ASSUME NEW m \in net' PROVE m.ep \in 1..Len(reign') /\ reign'[m.ep] = m.by
    BY DEF EpochGranted
  <1>1. reign \in Seq(Schedulers)
    BY DEF TypeInv, ControlTypes
  <1>2. m.ep \in 1..Len(reign) /\ reign[m.ep] = m.by
    <2>1. CASE m \in net
      BY <2>1 DEF EpochGranted
    <2>2. CASE \E s \in Schedulers, t \in Tasks : IsLeader(s) /\ m = Request(s, t, epoch)
      BY <1>1, <2>2 DEF IsLeader, Request, epoch
    <2> QED
      BY <2>1, <2>2 DEF Effects, StoreEffects, NetEffect
  <1>3. CASE reign' = reign
    BY <1>2, <1>3
  <1>4. ASSUME NEW s \in Schedulers, reign' = Append(reign, s)
        PROVE  m.ep \in 1..Len(reign') /\ reign'[m.ep] = m.by
    BY <1>1, <1>2, <1>4
  <1> QED
    BY <1>3, <1>4 DEF Effects, StoreEffects, ReignEffect

(* Every step keeps prepared successes backed by executions. *)
LEMMA SuccessStep ==
  ASSUME TypeInv, SuccessBacked, SuccessWasExecuted, Effects
  PROVE  SuccessBacked' /\ SuccessWasExecuted'
  <1>1. execs \subseteq execs'
    BY DEF Effects, StoreEffects, NetEffect
  <1>2. ASSUME NEW s \in Schedulers, NEW t \in Tasks, gor'[s][t].pc = "finW", gor'[s][t].res = "ok"
        PROVE  \E m \in execs : m.task = t /\ m.att = gor'[s][t].att /\ m.by = s
    <2>1. GorEffect(s, t)
      BY DEF Effects, GorEffects
    <2>2. CASE gor'[s][t] = gor[s][t]
      BY <1>2, <2>2 DEF SuccessBacked
    <2>3. CASE Request(s, t, gor[s][t].tok) \in execs /\ gor'[s][t].att = gor[s][t].att
      BY <2>3 DEF Request
    <2> QED
      BY <1>2, <2>1, <2>2, <2>3 DEF GorEffect, Holding, Unsent
  <1>3. ASSUME NEW r \in log', r.ent # JobEnt, r.state = "SUCCEEDED"
        PROVE  \E m \in execs : m.task = r.ent /\ m.att = r.att /\ m.by = r.by
    <2>1. CASE r \in log
      BY <1>3, <2>1 DEF SuccessWasExecuted
    <2>2. ASSUME NEW s \in Schedulers, NEW t \in Tasks, gor[s][t].pc \in Writing,
                 r.ent = t, r.att = gor[s][t].att, r.by = s, r.state = gor[s][t].w.state
          PROVE  \E m \in execs : m.task = r.ent /\ m.att = r.att /\ m.by = r.by
      <3>1. WriteFits(gor[s][t])
        BY DEF TypeInv, WriteReady
      <3>2. gor[s][t].pc = "finW" /\ gor[s][t].res = "ok"
        BY <1>3, <2>2, <3>1 DEF WriteFits, Writing
      <3> QED
        BY <2>2, <3>2 DEF SuccessBacked
    <2> QED
      BY <1>3, <2>1, <2>2 DEF Effects, StoreEffects, LogEffect
  <1> QED
    BY <1>1, <1>2, <1>3 DEF SuccessBacked, SuccessWasExecuted

(* Every step preserves the safety invariant. *)
LEMMA SafetyStep == TypeInv /\ SafetyInv /\ [Next]_vars => SafetyInv'
  BY StepEffects, ClaimStep, EpochStep, SuccessStep DEF SafetyInv

(* The type and the safety invariant hold in every reachable state. *)
LEMMA SafetyInvariant == Spec => [](TypeInv /\ SafetyInv)
  BY TypeInit, TypeStep, SafetyInit, SafetyStep, PTL DEF Spec

-----------------------------------------------------------------------------
(* The first attempt. *)

(* A claimed task's row has a claimed attempt, never 0 again. *)
ClaimedRow ==
  \A r \in log : (r.ent \in Tasks /\ r.state = "DISPATCHED") =>
    r.att >= 1 /\ taskRow[r.ent].att >= 1

(* One goroutine, of all schedulers, holds the claim of a first attempt. *)
OneHolder ==
  \A s, x \in Schedulers, t \in Tasks :
    (/\ gor[s][t].pc \in Holding /\ gor[x][t].pc \in Holding
     /\ gor[s][t].att = 1 /\ gor[x][t].att = 1) => s = x

(* Once a request for a first attempt has been sent, none is to be sent. *)
SentOnce ==
  \A m \in net \cup execs, s \in Schedulers :
    m.att = 1 => ~(gor[s][m.task].pc \in Unsent /\ gor[s][m.task].att = 1)

FirstInv == ClaimedRow /\ OneHolder /\ SentOnce /\ FirstAttemptOnce

(* The initial state satisfies it. *)
LEMMA FirstInit == Init => FirstInv
  <1> SUFFICES ASSUME Init PROVE FirstInv
    OBVIOUS
  <1>1. net = {} /\ execs = {} /\ gor = [x \in Schedulers |-> [t \in Tasks |-> OffGor]]
    BY Zenon DEF Init
  <1>2. \A s \in Schedulers, t \in Tasks : gor[s][t].pc \notin Holding
    BY <1>1, OffFits DEF Holding
  <1>3. \A r \in log : r.state # "DISPATCHED"
    <2>1. PICK s0 \in Schedulers : log = SubmittedLog(s0)
      BY DEF Init
    <2> QED
      BY <2>1 DEF SubmittedLog
  <1> QED
    BY <1>1, <1>2, <1>3 DEF FirstInv, ClaimedRow, OneHolder, SentOnce, FirstAttemptOnce

(* The attempts in the rows are numbers. *)
LEMMA RowTyped ==
  ASSUME TypeInv, NEW t \in Tasks
  PROVE  taskRow[t].att \in Nat
  <1>1. taskRow \in [Tasks -> [state : TaskLifecycleState, att : Nat]]
    BY DEF TypeInv, WrittenTypes
  <1> QED
    BY <1>1

(* A new claim is for a later attempt than its task's row has. *)
LEMMA NewClaim ==
  ASSUME TypeInv, Effects, NEW r \in log' \ log, r.ent \in Tasks, r.state = "DISPATCHED"
  PROVE  taskRow[r.ent].att < r.att /\ taskRow'[r.ent].att = r.att /\ r.att \in Nat
  <1>1. taskRow'[r.ent].att = r.att
    BY DEF Effects, StoreEffects, AttemptEffect
  <1>2. r.ent # JobEnt
    BY DEF JobEnt, Tasks
  <1>3. PICK s \in Schedulers, t \in Tasks :
          /\ gor[s][t].pc \in Writing
          /\ r.ent = t /\ r.att = gor[s][t].att /\ r.state = gor[s][t].w.state
          /\ gor[s][t].pc = "claimW" => taskRow[t].att < r.att
    BY <1>2 DEF Effects, StoreEffects, LogEffect
  <1>4. WriteFits(gor[s][t])
    BY DEF TypeInv, WriteReady
  <1>5. gor[s][t].pc = "claimW"
    BY <1>3, <1>4 DEF WriteFits, Writing
  <1>6. gor[s][t].att \in Nat
    <2>1. gor[s][t] \in GorType
      BY GorTyped
    <2>2. gor[s][t].att \in 0..MaxDispatchAttempts
      BY <2>1 DEF GorType
    <2> QED
      BY <2>2, DispatchAssumption
  <1> QED
    BY <1>1, <1>3, <1>5, <1>6

(* Every step keeps the rows of claimed tasks at a claimed attempt. *)
LEMMA RowStep ==
  ASSUME TypeInv, TypeInv', ClaimHeld, ClaimedRow, Effects
  PROVE  ClaimedRow'
  <1> SUFFICES ASSUME NEW r \in log', r.ent \in Tasks, r.state = "DISPATCHED"
               PROVE  r.att >= 1 /\ taskRow'[r.ent].att >= 1
    BY DEF ClaimedRow
  <1>0. taskRow[r.ent].att \in Nat /\ taskRow'[r.ent].att \in Nat
    <2>1. taskRow' \in [Tasks -> [state : TaskLifecycleState, att : Nat]]
      BY DEF TypeInv, WrittenTypes
    <2> QED
      BY <2>1, RowTyped
  <1>1. CASE r \in log
    <2>1. r.att >= 1 /\ taskRow[r.ent].att >= 1
      BY <1>1 DEF ClaimedRow
    <2>2. CASE taskRow'[r.ent] = taskRow[r.ent]
      BY <2>1, <2>2
    <2>3. CASE taskRow[r.ent].att < taskRow'[r.ent].att
      BY <1>0, <2>1, <2>3
    <2>4. ASSUME NEW s \in Schedulers, gor[s][r.ent].pc \in Holding,
                 taskRow'[r.ent].att = gor[s][r.ent].att
          PROVE  taskRow'[r.ent].att >= 1
      <3>1. PICK q \in log : /\ q.ent = r.ent /\ q.state = "DISPATCHED"
                              /\ q.att = gor[s][r.ent].att
        BY <2>4 DEF ClaimHeld, Claimed
      <3> QED
        BY <2>4, <3>1 DEF ClaimedRow
    <2> QED
      BY <2>1, <2>2, <2>3, <2>4 DEF Effects, StoreEffects, AttemptEffect
  <1>2. CASE r \notin log
    <2>1. taskRow[r.ent].att < r.att /\ taskRow'[r.ent].att = r.att /\ r.att \in Nat
      BY <1>2, NewClaim
    <2> QED
      BY <1>0, <2>1
  <1> QED
    BY <1>1, <1>2

(* A task whose row has no attempt has no claim, no holder and no request. *)
LEMMA Unclaimed ==
  ASSUME TypeInv, ClaimHeld, NoClaimNoDispatch, ClaimedRow, NEW t \in Tasks, taskRow[t].att < 1
  PROVE  /\ \A r \in log : ~(r.ent = t /\ r.state = "DISPATCHED")
         /\ \A s \in Schedulers : gor[s][t].pc \notin Holding
         /\ \A m \in net \cup execs : m.task # t
  <1>1. \A r \in log : ~(r.ent = t /\ r.state = "DISPATCHED")
    BY RowTyped DEF ClaimedRow
  <1> QED
    BY <1>1 DEF ClaimHeld, Claimed, NoClaimNoDispatch

(* The holder of a first attempt held it before, and has not gone back to    *)
(* before its request; or it has just claimed it from an unclaimed row.      *)
LEMMA HolderComesFrom ==
  ASSUME TypeInv, ClaimHeld, NoClaimNoDispatch, ClaimedRow, Effects,
         NEW s \in Schedulers, NEW t \in Tasks, gor'[s][t].pc \in Holding, gor'[s][t].att = 1
  PROVE  \/ /\ gor[s][t].pc \in Holding /\ gor[s][t].att = 1
            /\ gor'[s][t].pc \in Unsent => gor[s][t].pc \in Unsent
         \/ /\ taskRow[t].att < 1
            /\ \E r \in log' \ log : r.by = s
  <1>1. GorEffect(s, t)
    BY DEF Effects, GorEffects
  <1>2. CASE taskRow[t].att < 1 /\ Claimed(log', s, t, 1)
    <2>1. PICK r \in log' : r.ent = t /\ r.state = "DISPATCHED" /\ r.by = s
      BY <1>2 DEF Claimed
    <2>2. r \notin log
      BY <1>2, <2>1, Unclaimed
    <2> QED
      BY <1>2, <2>1, <2>2
  <1> QED
    BY <1>1, <1>2 DEF GorEffect, Holding, Unsent

(* Every step leaves a first attempt with one holder. *)
LEMMA HolderStep ==
  ASSUME TypeInv, ClaimHeld, NoClaimNoDispatch, ClaimedRow, OneHolder, Effects
  PROVE  OneHolder'
  <1> SUFFICES ASSUME NEW s \in Schedulers, NEW x \in Schedulers, NEW t \in Tasks,
                      gor'[s][t].pc \in Holding, gor'[x][t].pc \in Holding,
                      gor'[s][t].att = 1, gor'[x][t].att = 1
               PROVE  s = x
    BY DEF OneHolder
  <1>1. CASE taskRow[t].att < 1
    <2>1. gor[s][t].pc \notin Holding /\ gor[x][t].pc \notin Holding
      BY <1>1, Unclaimed
    <2>2. (\E r \in log' \ log : r.by = s) /\ (\E r \in log' \ log : r.by = x)
      BY <2>1, HolderComesFrom
    <2> QED
      BY <2>2 DEF Effects, StoreEffects, LogEffect
  <1>2. CASE ~(taskRow[t].att < 1)
    BY <1>2, HolderComesFrom DEF OneHolder
  <1> QED
    BY <1>1, <1>2

(* Every request on its way or executed after a step was there before, or a  *)
(* goroutine has just sent it.                                               *)
LEMMA RequestComesFrom ==
  ASSUME Effects, NEW m \in net' \cup execs'
  PROVE  \/ m \in net \cup execs
         \/ \E s \in Schedulers, t \in Tasks :
              /\ gor[s][t].pc = "auth" /\ gor'[s][t].pc = "sent"
              /\ m = Request(s, t, epoch)
  BY DEF Effects, StoreEffects, NetEffect

(* Every step leaves nothing to send once a first attempt has been sent. *)
LEMMA SentStep ==
  ASSUME TypeInv, ClaimHeld, NoClaimNoDispatch, ClaimedRow, OneHolder, SentOnce, Effects
  PROVE  SentOnce'
  <1> SUFFICES ASSUME NEW m \in net' \cup execs', NEW s \in Schedulers, m.att = 1,
                      gor'[s][m.task].pc \in Unsent, gor'[s][m.task].att = 1
               PROVE  FALSE
    BY DEF SentOnce
  <1>1. CASE m \in net \cup execs
    <2>1. m.task \in Tasks
      BY <1>1 DEF TypeInv, ControlTypes, RequestType
    <2>2. gor'[s][m.task].pc \in Holding
      BY DEF Unsent, Holding
    <2>3. ~(taskRow[m.task].att < 1)
      BY <1>1, <2>1, Unclaimed
    <2>4. gor[s][m.task].pc \in Unsent /\ gor[s][m.task].att = 1
      BY <2>1, <2>2, <2>3, HolderComesFrom
    <2> QED
      BY <1>1, <2>4 DEF SentOnce
  <1>2. ASSUME NEW x \in Schedulers, NEW t \in Tasks, gor[x][t].pc = "auth",
               gor'[x][t].pc = "sent", m = Request(x, t, epoch)
        PROVE  FALSE
    <2>1. m.task = t /\ gor[x][t].att = 1
      BY <1>2 DEF Request
    <2>2. gor[x][t].pc \in Holding /\ gor'[s][t].pc \in Holding /\ gor'[s][t].pc # "sent"
      BY <1>2, <2>1 DEF Unsent, Holding
    <2>3. ~(taskRow[t].att < 1)
      BY <2>2, Unclaimed
    <2>4. gor[s][t].pc \in Holding /\ gor[s][t].att = 1
      BY <2>1, <2>2, <2>3, HolderComesFrom
    <2>5. s = x
      BY <2>1, <2>2, <2>4 DEF OneHolder
    <2> QED
      BY <1>2, <2>2, <2>5
  <1> QED
    BY <1>1, <1>2, RequestComesFrom

(* Every step leaves a first attempt with one claim and one request. *)
LEMMA FirstAttemptStep ==
  ASSUME TypeInv, TypeInv', ClaimHeld, NoClaimNoDispatch, ClaimedRow, OneHolder, SentOnce,
         FirstAttemptOnce, Effects
  PROVE  FirstAttemptOnce'
  <1>1. ASSUME NEW p \in log', NEW r \in log', p.state = "DISPATCHED", r.state = "DISPATCHED",
               p.ent = r.ent, p.att = 1, r.att = 1
        PROVE  p = r
    <2>1. r.ent \in Tasks
      BY Zenon, <1>1 DEF TypeInv, WrittenTypes, JobRecord, TaskRecord, JobLifecycleState
    <2>2. ASSUME NEW q \in log' \ log, q.ent = r.ent, q.state = "DISPATCHED", q.att = 1
          PROVE  \A o \in log : ~(o.ent = r.ent /\ o.state = "DISPATCHED")
      <3>1. taskRow[r.ent].att < 1
        BY <2>1, <2>2, NewClaim
      <3> QED
        BY <2>1, <3>1, Unclaimed
    <2>3. CASE p \in log /\ r \in log
      BY <1>1, <2>3 DEF FirstAttemptOnce
    <2>4. CASE p \notin log /\ r \notin log
      BY <2>4 DEF Effects, StoreEffects, LogEffect
    <2> QED
      BY <1>1, <2>2, <2>3, <2>4
  <1>2. ASSUME NEW m \in net' \cup execs', NEW n \in net' \cup execs', m.task = n.task,
               m.att = 1, n.att = 1
        PROVE  m = n
    <2> DEFINE Sent(s, t) == gor[s][t].pc = "auth" /\ gor'[s][t].pc = "sent"
    <2>1. ASSUME NEW k \in net \cup execs, k.att = 1, NEW s \in Schedulers, NEW t \in Tasks,
                 Sent(s, t), k.task = t, gor[s][t].att = 1
          PROVE  FALSE
      BY <2>1 DEF SentOnce, Unsent
    <2>2. CASE m \in net \cup execs /\ n \in net \cup execs
      BY <1>2, <2>2 DEF FirstAttemptOnce
    <2>3. CASE m \in net \cup execs /\ n \notin net \cup execs
      BY <1>2, <2>1, <2>3, RequestComesFrom DEF Request
    <2>4. CASE m \notin net \cup execs /\ n \in net \cup execs
      BY <1>2, <2>1, <2>4, RequestComesFrom DEF Request
    <2>5. CASE m \notin net \cup execs /\ n \notin net \cup execs
      <3>1. PICK s \in Schedulers, t \in Tasks : Sent(s, t) /\ m = Request(s, t, epoch)
        BY <2>5, RequestComesFrom
      <3>2. PICK x \in Schedulers, u \in Tasks : Sent(x, u) /\ n = Request(x, u, epoch)
        BY <2>5, RequestComesFrom
      <3>3. t = u /\ gor[s][t].att = 1 /\ gor[x][t].att = 1
        BY <1>2, <3>1, <3>2 DEF Request
      <3>4. s = x
        BY <3>1, <3>2, <3>3 DEF OneHolder, Holding
      <3> QED
        BY <3>1, <3>2, <3>3, <3>4
    <2> QED
      BY <2>2, <2>3, <2>4, <2>5
  <1> QED
    BY <1>1, <1>2 DEF FirstAttemptOnce

(* Every step preserves the invariant of first attempts. *)
LEMMA FirstStep == TypeInv /\ TypeInv' /\ SafetyInv /\ FirstInv /\ [Next]_vars => FirstInv'
  BY StepEffects, RowStep, HolderStep, SentStep, FirstAttemptStep DEF SafetyInv, FirstInv
-----------------------------------------------------------------------------
(* The theorems. *)

(* No claim, no dispatch: for every number of schedulers, tasks, attempts,   *)
(* epochs, crashes and store faults, a request leaves a scheduler and a      *)
(* worker executes it only after the scheduler's claim was committed         *)
(* (claimTaskDispatchTransition before executeTask).                         *)
THEOREM ClaimBeforeDispatch == Spec => []NoClaimNoDispatch
  BY SafetyInvariant, PTL DEF SafetyInv

(* A recorded success was executed by a worker for that claim, although the  *)
(* call to the worker may fail at any time and be retried.                   *)
THEOREM SuccessFollowsExecution == Spec => []SuccessWasExecuted
  BY SafetyInvariant, PTL DEF SafetyInv

(* At most once: whatever the number of schedulers, leaderships, crashes,    *)
(* store faults and resumes, the first attempt of a task is claimed by one   *)
(* scheduler and sent to a worker once (ClaimTaskDispatch, whose guard the   *)
(* unguarded UpsertTask of later writes never resets to before the first     *)
(* claim).                                                                   *)
THEOREM FirstAttemptOnceOnly == Spec => []FirstAttemptOnce
  <1>1. Spec => []FirstInv
    BY FirstInit, FirstStep, SafetyInvariant, PTL DEF Spec
  <1> QED
    BY <1>1, PTL DEF FirstInv

(* Fencing: whatever happened to a request on its way, a worker executes it  *)
(* only while its sender leads, in the epoch in which it was sent.           *)
THEOREM FencedExecution == Spec => OnlyLeaderExecutes
  <1>1. TypeInv /\ SafetyInv /\ [Next]_vars
          => [\A m \in execs' \ execs : IsLeader(m.by) /\ m.ep = epoch]_vars
    <2> SUFFICES ASSUME TypeInv, EpochGranted, Effects, NEW m \in execs' \ execs
                 PROVE  IsLeader(m.by) /\ m.ep = epoch
      BY StepEffects DEF SafetyInv
    <2>1. m \in net /\ held /\ m.ep = epoch
      BY DEF Effects, StoreEffects, NetEffect
    <2>2. epoch > 0
      BY <2>1 DEF EpochGranted, epoch, TypeInv, ControlTypes
    <2> QED
      BY <2>1, <2>2 DEF EpochGranted, IsLeader, epoch
  <1> QED
    BY <1>1, SafetyInvariant, PTL DEF Spec, OnlyLeaderExecutes
=============================================================================

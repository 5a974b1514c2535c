----------------------------- MODULE Lifecycle -----------------------------
(***************************************************************************)
(* The durable lifecycle model of the scheduler: job and task states, the  *)
(* legal transitions between them, and what replaying a job's transition   *)
(* log yields.  A log is a set of records; a record's seq orders it.       *)
(* Entity 0 is the job, entity t > 0 is task t of the job.                 *)
(***************************************************************************)
EXTENDS Naturals

JobEnt == 0

JobLifecycleState ==
  {"SUBMITTED", "QUEUED", "RUNNING", "AWAITING_HUMAN",
   "SUCCEEDED", "FAILED", "CANCELED"}

TaskLifecycleState ==
  {"PENDING", "DISPATCHED", "RUNNING", "SUCCEEDED", "FAILED"}

validJobTransitions ==
  [SUBMITTED      |-> {"QUEUED"},
   QUEUED         |-> {"RUNNING", "FAILED", "CANCELED"},
   RUNNING        |-> {"AWAITING_HUMAN", "SUCCEEDED", "FAILED", "CANCELED"},
   AWAITING_HUMAN |-> {"RUNNING", "FAILED", "CANCELED"},
   SUCCEEDED      |-> {},
   FAILED         |-> {},
   CANCELED       |-> {}]

validTaskTransitions ==
  [PENDING    |-> {"DISPATCHED", "FAILED"},
   DISPATCHED |-> {"RUNNING", "FAILED"},
   RUNNING    |-> {"SUCCEEDED", "FAILED"},
   SUCCEEDED  |-> {},
   FAILED     |-> {}]

CanTransitionJobState(from, to) ==
  from = to \/ to \in validJobTransitions[from]

CanTransitionTaskState(from, to) ==
  from = to \/ to \in validTaskTransitions[from]

IsTerminalJobState(st) == st \in {"SUCCEEDED", "FAILED", "CANCELED"}

CanTransition(e, from, to) ==
  IF e = JobEnt THEN CanTransitionJobState(from, to)
                ELSE CanTransitionTaskState(from, to)

(***************************************************************************)
(* Replay.  The code folds the records in sequence order, rejecting a      *)
(* record whose state may not follow the state reached so far.  The state  *)
(* reached is therefore that of the entity's latest record, and replay     *)
(* succeeds when every record may follow its immediate predecessor.        *)
(***************************************************************************)
RecordsOf(log, e) == {r \in log : r.ent = e}

IsLatest(log, r) == \A q \in log : q.ent = r.ent => q.seq <= r.seq

Latest(log, e) == CHOOSE r \in RecordsOf(log, e) : IsLatest(log, r)

ReplayedState(log, e) ==
  IF RecordsOf(log, e) = {} THEN "" ELSE Latest(log, e).state

Precedes(log, p, r) ==
  /\ p.ent = r.ent
  /\ p.seq < r.seq
  /\ \A q \in log : q.ent = r.ent => (q.seq <= p.seq \/ r.seq <= q.seq)

ReplayOK(log) ==
  \A p, r \in log : Precedes(log, p, r) => CanTransition(p.ent, p.state, r.state)
=============================================================================

--------------------------- MODULE DurableTables ----------------------------
(***************************************************************************)
(* What the control plane keeps in PostgreSQL, and the commands and        *)
(* transactions that work on it: the transition archive, the two           *)
(* transition stores, the checkpoint tables and the schema lock.           *)
(***************************************************************************)
EXTENDS Integers, Sequences, FiniteSets, SequencesExt, FiniteSetsExt

-----------------------------------------------------------------------------
(* TransitionArchive                                                       *)
(* The two maintenance commands on the transition store: transition_archive_export   *)
(* copies the rows of old terminal jobs to bundle files and publishes a verified     *)
(* manifest, transition_archive_prune deletes the rows of the jobs of a manifest.    *)
(* Schedulers may still write to the store meanwhile.                                 *)

CONSTANTS ArchiveJobs, MaxWrites, MaxTasks  \* bounds on late writes and on task rows of a job

VARIABLES
  archiveRow,  \* job -> [here, terminal, last, old]: its durable_jobs row
  trans,     \* job -> its transition records
  tasks,     \* job -> number of its task rows
  fileOf,    \* job -> the sanitised bundle file name
  files,     \* file name -> [job, terminal, last, recs, tasks]
  exp,       \* export: [pc, left, job, row, tasks, entries]
  manifest,  \* the published manifest: [done, entries]
  prune,     \* prune: [pc, left, entry, row, recs]
  writes,    \* records written so far
  late,      \* ghost: records written after a prune that deleted or may delete their job counted them
  lost       \* ghost: job -> deleted records

archiveVars == <<archiveRow, trans, tasks, fileOf, files, exp, manifest, prune, writes, late, lost>>

ArchiveNoRow == [here |-> FALSE, terminal |-> FALSE, last |-> 0, old |-> FALSE]
NoEntry == [job |-> "none", file |-> "none", sum |-> {}, last |-> 0, trans |-> 0, tasks |-> 0]
IdleExport == [pc |-> "idle", left |-> {}, job |-> "none", row |-> ArchiveNoRow, tasks |-> 0, entries |-> {}]
IdlePrune == [pc |-> "idle", left |-> {}, entry |-> NoEntry, row |-> ArchiveNoRow, recs |-> 0]
Empty == [job |-> "none", last |-> 0, recs |-> {}, tasks |-> 0]

(* Every job is finished and has one record; file names may coincide once sanitised. *)
ArchiveInit ==
  /\ archiveRow = [j \in ArchiveJobs |-> [here |-> TRUE, terminal |-> TRUE, last |-> 1, old |-> TRUE]]
  /\ trans = [j \in ArchiveJobs |-> {0}] /\ tasks = [j \in ArchiveJobs |-> 1]
  /\ fileOf \in {[j \in ArchiveJobs |-> j], [j \in ArchiveJobs |-> "job"]}
  /\ files = [f \in ArchiveJobs \cup {"job"} |-> Empty]
  /\ exp = IdleExport /\ manifest = [done |-> FALSE, entries |-> {}] /\ prune = IdlePrune
  /\ writes = 0 /\ late = {} /\ lost = [j \in ArchiveJobs |-> {}]
-----------------------------------------------------------------------------
(* A scheduler's late write: record, task row and job row in one transaction. *)
LateWrite(j, terminal, newTask) ==
  /\ writes < MaxWrites /\ writes' = writes + 1
  /\ newTask => tasks[j] < MaxTasks
  /\ archiveRow' = [archiveRow EXCEPT ![j] = [here |-> TRUE, terminal |-> terminal, last |-> @.last + 1, old |-> FALSE]]
  /\ trans' = [trans EXCEPT ![j] = @ \cup {writes + 1}]
  /\ tasks' = IF newTask THEN [tasks EXCEPT ![j] = @ + 1] ELSE tasks
  /\ late' = IF lost[j] # {} \/ (prune.entry.job = j /\ prune.pc \in {"tasks", "delete"}) THEN late \cup {writes + 1} ELSE late
  /\ UNCHANGED <<fileOf, files, exp, manifest, prune, lost>>
(* The hot retention time of a job passes. *)
Age(j) ==
  /\ archiveRow[j].here /\ ~archiveRow[j].old /\ archiveRow' = [archiveRow EXCEPT ![j].old = TRUE]
  /\ UNCHANGED <<trans, tasks, fileOf, files, exp, manifest, prune, writes, late, lost>>
-----------------------------------------------------------------------------
(* listEligibleJobs *)
ListEligible ==
  /\ exp.pc = "idle" /\ ~manifest.done
  /\ exp' = [IdleExport EXCEPT !.pc = "job", !.left = {j \in ArchiveJobs : archiveRow[j].here /\ archiveRow[j].terminal /\ archiveRow[j].old}]
  /\ UNCHANGED <<archiveRow, trans, tasks, fileOf, files, manifest, prune, writes, late, lost>>
(* loadBundle reads the job row, the task rows and the transitions one after another. *)
LoadJob(j) ==
  /\ exp.pc = "job" /\ j \in exp.left
  /\ exp' = IF archiveRow[j].here THEN [exp EXCEPT !.pc = "tasks", !.job = j, !.row = archiveRow[j]] ELSE IdleExport
  /\ UNCHANGED <<archiveRow, trans, tasks, fileOf, files, manifest, prune, writes, late, lost>>
LoadTasks ==
  /\ exp.pc = "tasks" /\ exp' = [exp EXCEPT !.pc = "transitions", !.tasks = tasks[exp.job]]
  /\ UNCHANGED <<archiveRow, trans, tasks, fileOf, files, manifest, prune, writes, late, lost>>
(* exportJobBundle writes the file and notes its checksum and its counts. *)
ExportBundle ==
  /\ exp.pc = "transitions"
  /\ LET j == exp.job
         bundle == [job |-> j, last |-> exp.row.last, recs |-> trans[j], tasks |-> exp.tasks]
     IN /\ files' = [files EXCEPT ![fileOf[j]] = bundle]
        /\ exp' = [exp EXCEPT !.pc = "job", !.left = @ \ {j},
                              !.entries = @ \cup {[job |-> j, file |-> fileOf[j], sum |-> bundle, last |-> bundle.last,
                                                   trans |-> Cardinality(bundle.recs), tasks |-> bundle.tasks]}]
  /\ UNCHANGED <<archiveRow, trans, tasks, fileOf, manifest, prune, writes, late, lost>>
(* verifyManifest: every bundle is read back; its checksum must be the one noted. *)
verifyManifest(entries) == \A e \in entries : files[e.file] = e.sum /\ files[e.file].job = e.job
Publish ==
  /\ exp.pc = "job" /\ exp.left = {} /\ exp' = IdleExport
  /\ manifest' = IF verifyManifest(exp.entries) THEN [done |-> TRUE, entries |-> exp.entries] ELSE manifest
  /\ UNCHANGED <<archiveRow, trans, tasks, fileOf, files, prune, writes, late, lost>>
(* The command is stopped: no manifest. *)
ExportDies ==
  /\ exp.pc # "idle" /\ exp' = IdleExport
  /\ UNCHANGED <<archiveRow, trans, tasks, fileOf, files, manifest, prune, writes, late, lost>>
-----------------------------------------------------------------------------
(* validateManifest, then one candidate after another. *)
StartPrune ==
  /\ prune.pc = "idle" /\ manifest.done /\ manifest.entries # {}
  /\ prune' = [IdlePrune EXCEPT !.pc = "next", !.left = manifest.entries]
  /\ UNCHANGED <<archiveRow, trans, tasks, fileOf, files, exp, manifest, writes, late, lost>>
(* loadLiveSnapshot reads the row and counts transitions and tasks one after another. *)
LiveRow(e) ==
  /\ prune.pc = "next" /\ e \in prune.left
  /\ prune' = IF archiveRow[e.job].here THEN [prune EXCEPT !.pc = "transitions", !.left = @ \ {e}, !.entry = e, !.row = archiveRow[e.job]]
              ELSE [prune EXCEPT !.left = @ \ {e}]
  /\ UNCHANGED <<archiveRow, trans, tasks, fileOf, files, exp, manifest, writes, late, lost>>
LiveTransitions ==
  /\ prune.pc = "transitions"
  /\ prune' = [prune EXCEPT !.pc = "tasks", !.recs = Cardinality(trans[prune.entry.job])]
  /\ UNCHANGED <<archiveRow, trans, tasks, fileOf, files, exp, manifest, writes, late, lost>>
(* Mutant: the numbers of rows are not compared. *)
Unchanged_RowOnly(e, r, n, m) == r.terminal /\ r.old
Unchanged(e, r, n, m) == r.terminal /\ r.last = e.last /\ n = e.trans /\ m = e.tasks /\ r.old
(* evaluateCandidate: what drifted since the export is skipped. *)
EvaluateCandidate ==
  /\ prune.pc = "tasks"
  /\ prune' = IF Unchanged(prune.entry, prune.row, prune.recs, tasks[prune.entry.job])
              THEN [prune EXCEPT !.pc = "delete"]
              ELSE [IdlePrune EXCEPT !.pc = "next", !.left = prune.left]
  /\ UNCHANGED <<archiveRow, trans, tasks, fileOf, files, exp, manifest, writes, late, lost>>
(* executePrune deletes by job id, in one transaction that may fail. *)
ExecutePrune(ok) ==
  /\ prune.pc = "delete"
  /\ LET j == prune.entry.job
     IN IF ok
        THEN /\ archiveRow' = [archiveRow EXCEPT ![j] = ArchiveNoRow] /\ trans' = [trans EXCEPT ![j] = {}] /\ tasks' = [tasks EXCEPT ![j] = 0]
             /\ lost' = [lost EXCEPT ![j] = @ \cup trans[j]]
             /\ prune' = [IdlePrune EXCEPT !.pc = "next", !.left = prune.left]
        ELSE prune' = IdlePrune /\ UNCHANGED <<archiveRow, trans, tasks, lost>>
  /\ UNCHANGED <<fileOf, files, exp, manifest, writes, late>>
EndPrune ==
  /\ prune.pc = "next" /\ prune.left = {} /\ prune' = IdlePrune
  /\ UNCHANGED <<archiveRow, trans, tasks, fileOf, files, exp, manifest, writes, late, lost>>

ArchiveNext ==
  \/ \E j \in ArchiveJobs : Age(j) \/ LoadJob(j) \/ \E t, n \in BOOLEAN : LateWrite(j, t, n)
  \/ ListEligible \/ LoadTasks \/ ExportBundle \/ Publish \/ ExportDies
  \/ StartPrune \/ LiveTransitions \/ EvaluateCandidate \/ EndPrune
  \/ \E e \in manifest.entries : LiveRow(e)
  \/ \E ok \in BOOLEAN : ExecutePrune(ok)
ArchiveSpec == ArchiveInit /\ [][ArchiveNext]_archiveVars

ArchiveTypeOK ==
  /\ \A j \in ArchiveJobs : archiveRow[j].last \in 0..(MaxWrites + 1) /\ trans[j] \subseteq 0..MaxWrites /\ tasks[j] \in 0..MaxTasks
  /\ exp.left \subseteq ArchiveJobs /\ prune.left \subseteq manifest.entries

(* What the prune deletes is in the bundle the manifest names for the job, except for *)
(* a record written after the prune counted the job's transitions.                    *)
DeletedIsArchived ==
  \A j \in ArchiveJobs : \A r \in lost[j] \ late :
    \E e \in manifest.entries : e.job = j /\ files[e.file].job = j /\ r \in files[e.file].recs

-----------------------------------------------------------------------------
(* TransitionStores                                                        *)
(* The two transition stores of the scheduler side by side: the in-memory one, whose *)
(* transactions work on copies of its maps, and the PostgreSQL one, whose statements *)
(* work on rows. Writers allocate a sequence id, and later run one of the scheduler's *)
(* transactions with it in both stores, so ids may be written out of order.           *)

CONSTANTS Writers, StoresJobs, MaxSeq, MaxAttempt

VARIABLES mem,       \* [log, jobs, tasks] of the in-memory store
          pg,        \* [rows, jobs, tasks, seqs] of the PostgreSQL store
          storesHeld,  \* writer -> the job and sequence id it allocated, or none
          answers    \* what the last transaction returned, by store

storesVars == <<mem, pg, storesHeld, answers>>

JobStates == {"RUNNING", "SUCCEEDED"}
TaskStates == {"PENDING", "DISPATCHED", "RUNNING", "SUCCEEDED", "FAILED"}
StoresNoRow == [state |-> "none", last |-> 0]
NoTask == [state |-> "none", attempt |-> 0, agent |-> FALSE]
StoresFree == [job |-> "none", seq |-> 0]
Record(j, n, kind, state) == [job |-> j, seq |-> n, kind |-> kind, state |-> state]

(* A fresh deployment, or one whose tables are older than last_sequence_id and the   *)
(* sequence table: the schema gives the column its default and makes the table empty. *)
ensureSchema(old) ==
  [rows |-> IF old THEN {Record(j, 1, "job", "RUNNING") : j \in StoresJobs} ELSE {},
   jobs |-> [j \in StoresJobs |-> IF old THEN [state |-> "RUNNING", last |-> 0] ELSE StoresNoRow],
   tasks |-> [j \in StoresJobs |-> NoTask], seqs |-> [j \in StoresJobs |-> 0]]
NewInMemoryTransitionStore(old) ==
  [log |-> [j \in StoresJobs |-> IF old THEN <<Record(j, 1, "job", "RUNNING")>> ELSE << >>],
   jobs |-> [j \in StoresJobs |-> IF old THEN [state |-> "RUNNING", last |-> 1] ELSE StoresNoRow],
   tasks |-> [j \in StoresJobs |-> NoTask]]
StoresInit ==
  /\ \E old \in BOOLEAN : mem = NewInMemoryTransitionStore(old) /\ pg = ensureSchema(old)
  /\ storesHeld = [w \in Writers |-> StoresFree] /\ answers = <<"ok", "ok">>

Top(S) == Max(S \cup {0})
(* Mutant: a job without a sequence row starts after its job row's last id. *)
NextSequenceID_RowOnly(w, j) ==
  LET n == IF pg.seqs[j] = 0 THEN pg.jobs[j].last + 1 ELSE pg.seqs[j] + 1
  IN /\ storesHeld[w] = StoresFree /\ n <= MaxSeq
     /\ pg' = [pg EXCEPT !.seqs[j] = n] /\ storesHeld' = [storesHeld EXCEPT ![w] = [job |-> j, seq |-> n]]
     /\ UNCHANGED <<mem, answers>>
NextSequenceID(w, j) ==
  LET n == IF pg.seqs[j] = 0 THEN Top({pg.jobs[j].last} \cup {r.seq : r \in {x \in pg.rows : x.job = j}}) + 1
           ELSE pg.seqs[j] + 1
  IN /\ storesHeld[w] = StoresFree /\ n <= MaxSeq
     /\ pg' = [pg EXCEPT !.seqs[j] = n] /\ storesHeld' = [storesHeld EXCEPT ![w] = [job |-> j, seq |-> n]]
     /\ UNCHANGED <<mem, answers>>

(* The operations of a transaction, in either store: the store after it and what it  *)
(* returned. A record without an id or with a state of the other entity is invalid.  *)
Validate(r) == r.seq > 0 /\ r.state \in (IF r.kind = "job" THEN JobStates ELSE TaskStates)
Bigger(a, b) == IF a > b THEN a ELSE b

MemAppend(s, r) ==
  IF ~Validate(r) THEN [st |-> s, ans |-> "invalid"]
  ELSE [st |-> [s EXCEPT !.log[r.job] = SortSeq(Append(@, r), LAMBDA a, b : a.seq < b.seq),
                         !.jobs[r.job].last = IF s.jobs[r.job].state # "none" /\ r.seq > @ THEN r.seq ELSE @],
        ans |-> "ok"]
PgAppend(s, r) ==
  IF ~Validate(r) THEN [st |-> s, ans |-> "invalid"]
  ELSE IF \E x \in s.rows : x.job = r.job /\ x.seq = r.seq THEN [st |-> s, ans |-> "duplicate key"]
  ELSE [st |-> [s EXCEPT !.rows = @ \cup {r},
                         !.jobs[r.job].last = IF s.jobs[r.job].state # "none" THEN Bigger(@, r.seq) ELSE @],
        ans |-> "ok"]

UpsertJob(s, j, state, n) ==
  [st |-> [s EXCEPT !.jobs[j] = [state |-> state, last |-> Bigger(@.last, n)]], ans |-> "ok"]
UpsertTask(s, j, state, attempt) ==
  [st |-> [s EXCEPT !.tasks[j] = [state |-> state, attempt |-> attempt, agent |-> TRUE]], ans |-> "ok"]

(* The in-memory claim reads the row, decides and writes it, keeping the agent that   *)
(* an existing row names; the SQL one inserts, or updates the row its WHERE admits.   *)
MemClaim(s, j, attempt) ==
  LET existing == s.tasks[j]
      next == [st |-> [s EXCEPT !.tasks[j] = [state |-> "DISPATCHED", attempt |-> attempt, agent |-> existing.agent]],
               ans |-> "ok"]
  IN IF existing = NoTask THEN next
     ELSE IF existing.attempt < attempt /\ existing.state # "RUNNING" /\ existing.state # "SUCCEEDED" THEN next
     ELSE [st |-> s, ans |-> "rejected"]
PgClaim(s, j, attempt) ==
  LET conflict == s.tasks[j] # NoTask
      admits == s.tasks[j].attempt < attempt /\ s.tasks[j].state \notin {"RUNNING", "SUCCEEDED"}
  IN IF conflict /\ ~admits THEN [st |-> s, ans |-> "rejected"]
     ELSE [st |-> [s EXCEPT !.tasks[j].state = "DISPATCHED", !.tasks[j].attempt = attempt], ans |-> "ok"]

(* The callback of WithTx: its operations one after the other, up to the first that  *)
(* fails. "cut" is an operation the caller's cancelled context fails.                 *)
Does(store, s, op) ==
  CASE op.op = "append" -> IF store = "mem" THEN MemAppend(s, op.rec) ELSE PgAppend(s, op.rec)
    [] op.op = "job" -> UpsertJob(s, op.job, op.state, op.seq)
    [] op.op = "task" -> UpsertTask(s, op.job, op.state, op.attempt)
    [] op.op = "claim" -> IF store = "mem" THEN MemClaim(s, op.job, op.attempt) ELSE PgClaim(s, op.job, op.attempt)
    [] op.op = "cut" -> [st |-> s, ans |-> "canceled"]
Callback(store, s, ops) ==
  FoldLeft(LAMBDA r, op : IF r.ans = "ok" THEN Does(store, r.st, op) ELSE r, [st |-> s, ans |-> "ok"], ops)
Committed(store, s, ops) ==
  LET r == Callback(store, s, ops) IN IF r.ans = "ok" THEN r ELSE [r EXCEPT !.st = s]

(* The scheduler's transactions with a sequence id. *)
AppendOp(j, n, kind, state) == [op |-> "append", rec |-> Record(j, n, kind, state)]
JobOp(j, n, state) == [op |-> "job", job |-> j, state |-> state, seq |-> n]
recordJobTransition(j, n, state) == <<AppendOp(j, n, "job", state), JobOp(j, n, state)>>
recordTaskTransition(j, n, state, attempt, row) ==
  <<AppendOp(j, n, "task", state), [op |-> "task", job |-> j, state |-> state, attempt |-> attempt], JobOp(j, n, row)>>
claimTaskDispatchTransition(j, n, attempt, row) ==
  <<[op |-> "claim", job |-> j, attempt |-> attempt], AppendOp(j, n, "task", "DISPATCHED"), JobOp(j, n, row)>>
Transactions(j, n) ==
  {recordJobTransition(j, n, state) : state \in JobStates}
  \cup {recordTaskTransition(j, n, state, a, row) : state \in TaskStates, a \in 1..MaxAttempt, row \in JobStates}
  \cup {claimTaskDispatchTransition(j, n, a, row) : a \in 1..MaxAttempt, row \in JobStates}

(* Mutant: a failed callback's changes stay in the maps. *)
WithTx_InPlace(w, ops) ==
  LET m == Callback("mem", mem, ops)
      p == Committed("pg", pg, ops)
  IN /\ mem' = m.st /\ pg' = p.st /\ answers' = <<m.ans, p.ans>>
     /\ storesHeld' = [storesHeld EXCEPT ![w] = StoresFree]
(* One transaction in each store: all of its operations, or none when one fails.      *)
WithTx(w, ops) ==
  LET m == Committed("mem", mem, ops)
      p == Committed("pg", pg, ops)
  IN /\ mem' = m.st /\ pg' = p.st /\ answers' = <<m.ans, p.ans>>
     /\ storesHeld' = [storesHeld EXCEPT ![w] = StoresFree]

(* The context is cancelled before operation k: what came before it is undone. *)
Cut(ops, k) == SubSeq(ops, 1, k) \o <<[op |-> "cut"]>>
Write(w) ==
  /\ storesHeld[w] # StoresFree
  /\ \E ops \in Transactions(storesHeld[w].job, storesHeld[w].seq) :
       WithTx(w, ops) \/ \E k \in 0..Len(ops) - 1 : WithTx(w, Cut(ops, k))

StoresNext == \E w \in Writers : Write(w) \/ \E j \in StoresJobs : NextSequenceID(w, j)

StoresSpec == StoresInit /\ [][StoresNext]_storesVars

StoresTypeOK == /\ \A j \in StoresJobs : mem.jobs[j].last \in 0..MaxSeq /\ pg.jobs[j].last \in 0..MaxSeq
                /\ \A j \in StoresJobs : mem.tasks[j].attempt \in 0..MaxAttempt /\ Len(mem.log[j]) <= MaxSeq
                /\ storesHeld \in [Writers -> {StoresFree} \cup [job : StoresJobs, seq : 1..MaxSeq]]

(* What recovery reads. *)
ListTransitionsByJob(j) ==
  SetToSortSeq({r \in pg.rows : r.job = j}, LAMBDA a, b : a.seq < b.seq)
ListUnfinishedJobs(jobs) == {j \in StoresJobs : jobs[j].state \notin {"none", "SUCCEEDED"}}
LastSequence(jobs, ids, j) == Top({jobs[j].last} \cup ids)

(* The in-memory store is a faithful stand-in: after any transactions, in whatever   *)
(* order their sequence ids were written and wherever their callbacks failed, both   *)
(* stores gave the same answer and recovery reads from both the same log in the same *)
(* order, the same unfinished jobs, the same task rows and the same last sequence.   *)
StoresAgree ==
  /\ answers[1] = answers[2]
  /\ ListUnfinishedJobs(mem.jobs) = ListUnfinishedJobs(pg.jobs)
  /\ \A j \in StoresJobs :
       /\ mem.log[j] = ListTransitionsByJob(j)
       /\ mem.tasks[j] = pg.tasks[j] /\ mem.jobs[j].state = pg.jobs[j].state
       /\ LastSequence(mem.jobs, {mem.log[j][i].seq : i \in DOMAIN mem.log[j]}, j)
            = LastSequence(pg.jobs, {r.seq : r \in {x \in pg.rows : x.job = j}}, j)

(* A sequence id a writer holds is nobody else's and in no record, also in a          *)
(* deployment whose tables were made before the sequence table, so no transition is   *)
(* refused as a duplicate.                                                            *)
SequencesFresh ==
  /\ \A w \in Writers : storesHeld[w] # StoresFree => ~\E r \in pg.rows : r.job = storesHeld[w].job /\ r.seq = storesHeld[w].seq
  /\ \A w, x \in Writers : w # x /\ storesHeld[w] # StoresFree => storesHeld[w] # storesHeld[x]

-----------------------------------------------------------------------------
(* CheckpointTables                                                        *)
(* The Postgres checkpoint store of pkg/hitl, statement by statement: checkpoints    *)
(* and their dead letters in two tables, row locks, READ COMMITTED transactions for  *)
(* Replace and MoveToCheckpointDLQ, and SERIALIZABLE ones with retries.              *)

CONSTANTS Clients, Requests, MaxOps, MaxRetries, MaxFails

VARIABLES
  rows,     \* active table: request -> [on, fails]
  dlq,      \* dead letters: request -> [on, fails]
  lock,     \* request -> client whose transaction holds the row or inserts it, "none"
  dlock,    \* request -> client whose transaction inserts the dead letter, "none"
  tx,       \* client -> [op, pc, req, next, copy, fresh, stale, tries]
  fate,     \* ghost: how the last checkpoint of a request left the active table
  ckptOps   \* operations started

ckptVars == <<rows, dlq, lock, dlock, tx, fate, ckptOps>>

CkptNoRow == [on |-> FALSE, fails |-> 0]
Idle == [op |-> "none", pc |-> "idle", req |-> "none", next |-> "none", copy |-> CkptNoRow, fresh |-> FALSE,
         stale |-> FALSE, tries |-> 0]
(* A first request has been paused; nobody is at work. *)
CkptInit ==
  /\ \E r \in Requests : /\ rows = [x \in Requests |-> [on |-> x = r, fails |-> 0]]
                          /\ fate = [x \in Requests |-> IF x = r THEN {} ELSE {"none yet"}]
  /\ dlq = [r \in Requests |-> CkptNoRow] /\ lock = [r \in Requests |-> "none"] /\ dlock = [r \in Requests |-> "none"]
  /\ tx = [c \in Clients |-> Idle] /\ ckptOps = 0
-----------------------------------------------------------------------------
(* A committed change of row r makes every snapshot that read it stale. *)
Touch(c, t, rs) == [d \in Clients |-> IF d = c THEN t
                                      ELSE IF tx[d].req \in rs THEN [tx[d] EXCEPT !.stale = TRUE] ELSE tx[d]]
CkptFree(r) == lock[r] = "none"
Release(c, l) == [r \in Requests |-> IF l[r] = c THEN "none" ELSE l[r]]
Begin(c, op, r, n) ==
  /\ tx[c].pc = "idle" /\ ckptOps < MaxOps /\ ckptOps' = ckptOps + 1
  /\ tx' = [tx EXCEPT ![c] = [Idle EXCEPT !.op = op, !.pc = "begin", !.req = r, !.next = n]]
  /\ UNCHANGED <<rows, dlq, lock, dlock, fate>>
At(c, op, pc) == tx[c].op = op /\ tx[c].pc = pc
Goto(c, pc) == tx' = [tx EXCEPT ![c].pc = pc]

(* Create: INSERT ... ON CONFLICT DO NOTHING *)
insertCheckpoint(r) == IF rows[r].on THEN rows ELSE [rows EXCEPT ![r] = [on |-> TRUE, fails |-> 0]]
Born(r) == IF rows[r].on THEN fate ELSE [fate EXCEPT ![r] = {}]
Create(c) ==
  LET r == tx[c].req
  IN /\ At(c, "create", "begin") /\ CkptFree(r)
     /\ rows' = insertCheckpoint(r) /\ fate' = Born(r)
     /\ tx' = Touch(c, Idle, IF rows[r].on THEN {} ELSE {r}) /\ UNCHANGED <<dlq, lock, dlock, ckptOps>>
Delete(c) ==
  LET r == tx[c].req
  IN /\ At(c, "delete", "begin") /\ CkptFree(r)
     /\ rows' = [rows EXCEPT ![r] = CkptNoRow] /\ tx' = Touch(c, Idle, {r})
     /\ fate' = IF rows[r].on THEN [fate EXCEPT ![r] = @ \cup {"deleted"}] ELSE fate
     /\ UNCHANGED <<dlq, lock, dlock, ckptOps>>
(* RecordFailure: UPDATE ... RETURNING *)
RecordFailure(c) ==
  LET r == tx[c].req
  IN /\ At(c, "fail", "begin") /\ CkptFree(r)
     /\ rows' = IF rows[r].on /\ rows[r].fails < MaxFails THEN [rows EXCEPT ![r].fails = @ + 1] ELSE rows
     /\ tx' = Touch(c, Idle, {r}) /\ UNCHANGED <<dlq, lock, dlock, fate, ckptOps>>
(* Replace: SELECT ... FOR UPDATE, INSERT, DELETE, commit. *)
ReplaceLock(c) ==
  LET r == tx[c].req
  IN /\ At(c, "replace", "begin") /\ CkptFree(r)
     /\ IF rows[r].on THEN Goto(c, "insert") /\ lock' = [lock EXCEPT ![r] = c]
        ELSE tx' = [tx EXCEPT ![c] = Idle] /\ UNCHANGED lock
     /\ UNCHANGED <<rows, dlq, dlock, fate, ckptOps>>
ReplaceInsert(c) ==
  LET n == tx[c].next
  IN /\ At(c, "replace", "insert") /\ CkptFree(n)
     /\ tx' = [tx EXCEPT ![c].pc = "commit", ![c].fresh = ~rows[n].on]
     /\ lock' = IF rows[n].on THEN lock ELSE [lock EXCEPT ![n] = c]
     /\ UNCHANGED <<rows, dlq, dlock, fate, ckptOps>>
ReplaceCommit(c) ==
  LET r == tx[c].req  n == tx[c].next
  IN /\ At(c, "replace", "commit")
     /\ rows' = [rows EXCEPT ![r] = CkptNoRow, ![n] = IF tx[c].fresh THEN [on |-> TRUE, fails |-> 0] ELSE @]
     /\ fate' = [fate EXCEPT ![r] = @ \cup {"replaced"}, ![n] = IF tx[c].fresh THEN {} ELSE @]
     /\ lock' = Release(c, lock) /\ tx' = Touch(c, Idle, {r, n}) /\ UNCHANGED <<dlq, dlock, ckptOps>>
-----------------------------------------------------------------------------
(* INSERT INTO dlq SELECT ... ON CONFLICT DO NOTHING: the rows it affects. *)
(* Mutant: the number of rows inserted is not looked at. *)
DlqInsert_Anyway(c, pc) ==
  LET r == tx[c].req
  IN /\ dlock[r] = "none" /\ tx' = [tx EXCEPT ![c].pc = pc, ![c].copy = rows[r]]
     /\ dlock' = [dlock EXCEPT ![r] = c]
     /\ UNCHANGED <<rows, dlq, lock, fate, ckptOps>>
DlqInsert(c, pc) ==
  LET r == tx[c].req
  IN /\ dlock[r] = "none"
     /\ IF rows[r].on /\ ~dlq[r].on
        THEN tx' = [tx EXCEPT ![c].pc = pc, ![c].copy = rows[r]] /\ dlock' = [dlock EXCEPT ![r] = c] /\ UNCHANGED lock
        ELSE tx' = [tx EXCEPT ![c] = Idle] /\ lock' = Release(c, lock) /\ UNCHANGED dlock
     /\ UNCHANGED <<rows, dlq, fate, ckptOps>>
(* DELETE of the active row, and commit. *)
Moved(c, how) ==
  LET r == tx[c].req
  IN /\ dlq' = IF dlq[r].on THEN dlq ELSE [dlq EXCEPT ![r] = tx[c].copy]
     /\ rows' = [rows EXCEPT ![r] = CkptNoRow]
     /\ fate' = IF dlq[r].on THEN fate
                ELSE [fate EXCEPT ![r] = @ \cup {IF how = "moved" /\ tx[c].copy # rows[r] THEN "moved wrong" ELSE how}]
     /\ lock' = Release(c, lock) /\ dlock' = Release(c, dlock) /\ tx' = Touch(c, Idle, {r})
     /\ UNCHANGED ckptOps
(* MoveToCheckpointDLQ, READ COMMITTED. *)
MoveInsert(c) == At(c, "move", "begin") /\ DlqInsert(c, "delete")
MoveToCheckpointDLQ(c) == At(c, "move", "delete") /\ CkptFree(tx[c].req) /\ Moved(c, "moved plain")

(* WithSerializableRetry: after a serialization failure a new transaction, a bounded  *)
(* number of times.                                                                    *)
WithSerializableRetry(c) ==
  /\ tx' = [tx EXCEPT ![c] = IF @.tries < MaxRetries
                             THEN [@ EXCEPT !.pc = "begin", !.copy = CkptNoRow, !.stale = FALSE, !.tries = @ + 1] ELSE Idle]
  /\ lock' = Release(c, lock) /\ dlock' = Release(c, dlock) /\ UNCHANGED <<rows, dlq, fate, ckptOps>>
Serializable == {"smove", "absent"}
(* The first statement fixes the snapshot; SELECT ... FOR UPDATE then waits for the row. *)
Snapshot(c) ==
  /\ tx[c].op \in Serializable /\ tx[c].pc = "begin"
  /\ IF tx[c].op = "smove" /\ ~rows[tx[c].req].on THEN tx' = [tx EXCEPT ![c] = Idle]
     ELSE tx' = [tx EXCEPT ![c].pc = IF rows[tx[c].req].on THEN "select" ELSE "insert", ![c].stale = FALSE]
  /\ UNCHANGED <<rows, dlq, lock, dlock, fate, ckptOps>>
(* Mutant: the row is read without FOR UPDATE. *)
SelectForUpdate_NoLock(c) ==
  /\ tx[c].op \in Serializable /\ tx[c].pc = "select"
  /\ tx' = [tx EXCEPT ![c] = IF @.op = "smove" THEN [@ EXCEPT !.pc = "dlq"] ELSE Idle]
  /\ UNCHANGED <<rows, dlq, lock, dlock, fate, ckptOps>>
SelectForUpdate(c) ==
  LET r == tx[c].req
  IN /\ tx[c].op \in Serializable /\ tx[c].pc = "select" /\ CkptFree(r)
     /\ IF tx[c].stale THEN WithSerializableRetry(c)
        ELSE /\ IF tx[c].op = "smove" THEN Goto(c, "dlq") /\ lock' = [lock EXCEPT ![r] = c]
                ELSE tx' = [tx EXCEPT ![c] = Idle] /\ UNCHANGED lock
             /\ UNCHANGED <<rows, dlq, dlock, fate, ckptOps>>
MoveSerializableInsert(c) == At(c, "smove", "dlq") /\ DlqInsert(c, "commit")
MoveToCheckpointDLQSerializable(c) == At(c, "smove", "commit") /\ Moved(c, "moved")
(* CreateOrUpdateSerializable: a row that appeared after the snapshot fails it. *)
CreateIfAbsentSerializable(c) ==
  LET r == tx[c].req
  IN /\ At(c, "absent", "insert") /\ CkptFree(r)
     /\ IF tx[c].stale THEN WithSerializableRetry(c)
        ELSE /\ rows' = insertCheckpoint(r) /\ fate' = Born(r) /\ tx' = Touch(c, Idle, {r})
             /\ UNCHANGED <<dlq, lock, dlock, ckptOps>>
(* A commit the database refuses; a timeout, a deadlock or a crash. *)
CommitRefused(c) == tx[c].op \in Serializable /\ tx[c].pc = "commit" /\ WithSerializableRetry(c)
Rollback(c) ==
  /\ tx[c].pc # "idle" /\ tx' = [tx EXCEPT ![c] = Idle]
  /\ lock' = Release(c, lock) /\ dlock' = Release(c, dlock) /\ UNCHANGED <<rows, dlq, fate, ckptOps>>

CkptNext ==
  \E c \in Clients :
    \/ \E r \in Requests : \E op \in {"create", "delete", "fail", "move", "smove", "absent"} : Begin(c, op, r, "none")
    \/ \E r, n \in Requests : r # n /\ Begin(c, "replace", r, n)
    \/ Create(c) \/ Delete(c) \/ RecordFailure(c) \/ ReplaceLock(c) \/ ReplaceInsert(c) \/ ReplaceCommit(c)
    \/ MoveInsert(c) \/ MoveToCheckpointDLQ(c)
    \/ Snapshot(c) \/ SelectForUpdate(c) \/ MoveSerializableInsert(c) \/ MoveToCheckpointDLQSerializable(c)
    \/ CreateIfAbsentSerializable(c) \/ CommitRefused(c) \/ Rollback(c)
CkptSpec == CkptInit /\ [][CkptNext]_ckptVars

CkptTypeOK ==
  /\ \A r \in Requests : rows[r].on \in BOOLEAN /\ lock[r] \in Clients \cup {"none"} /\ dlock[r] \in Clients \cup {"none"}
  /\ \A c \in Clients : tx[c].tries <= MaxRetries
-----------------------------------------------------------------------------
(* A checkpoint leaves the active table only by a deletion, by a replacement or with *)
(* a dead letter made of it: whatever transactions overlap, are refused or die, a    *)
(* paused execution is not lost.                                                      *)
LeavesATrace == \A r \in Requests : rows[r].on \/ fate[r] # {}
(* MoveToCheckpointDLQSerializable: a checkpoint it moves is not also replaced or     *)
(* deleted by an overlapping transaction, and its dead letter has the last failure    *)
(* count.  (MoveToCheckpointDLQ itself gives neither.)                                *)
SerializableMoveExact ==
  \A r \in Requests : {"moved", "moved wrong"} \cap fate[r] # {} => fate[r] = {"moved"}

-----------------------------------------------------------------------------
(* SchemaLock                                                              *)
(* ensureSchema of the Postgres stores, run by several processes at start-up.  The   *)
(* checkpoint store takes a session advisory lock, each statement on any free        *)
(* connection of its pool; the transition store takes a transaction lock on one.     *)

CONSTANTS Processes, Conns,    \* the processes; the connections of each pool
          Statements           \* number of DDL statements

VARIABLES
  style,    \* which store's ensureSchema the processes run: "session" or "transaction"
  ddlHeld,  \* <<process, connection>> holding the lock, or << >>
  busy,     \* [Processes -> connections other goroutines use]
  ddlPc,    \* [Processes -> "start", "ddl", "unlock", "done" or "failed"]
  conn,     \* [Processes -> the connection of the transaction, 0]
  left,     \* [Processes -> DDL statements to run]
  broken    \* ghost: connections that were lost while they held a lock

ddlVars == <<style, ddlHeld, busy, ddlPc, conn, left, broken>>

DdlInit ==
  /\ style \in {"session", "transaction"} /\ ddlHeld = << >> /\ busy = [p \in Processes |-> {}]
  /\ ddlPc = [p \in Processes |-> "start"] /\ conn = [p \in Processes |-> 0]
  /\ left = [p \in Processes |-> Statements] /\ broken = {}

FreeConns(p) == Conns \ (busy[p] \cup {conn[p]})
Mine(p) == ddlHeld # << >> /\ ddlHeld[1] = p
(* pg_advisory_lock on a connection of the pool, which goes back to the pool. *)
SessionLock(p, k) ==
  /\ ddlPc[p] = "start" /\ k \in FreeConns(p) /\ ddlHeld = << >>
  /\ ddlHeld' = <<p, k>> /\ ddlPc' = [ddlPc EXCEPT ![p] = "ddl"]
  /\ UNCHANGED <<style, conn, busy, left, broken>>
(* pg_advisory_xact_lock in a transaction, which keeps its connection. *)
(* Mutant: the transaction's DDL runs without waiting for the lock. *)
TransactionLock_Try(p, k) ==
  /\ ddlPc[p] = "start" /\ k \in FreeConns(p)
  /\ ddlHeld' = IF ddlHeld = << >> THEN <<p, k>> ELSE ddlHeld
  /\ ddlPc' = [ddlPc EXCEPT ![p] = "ddl"] /\ conn' = [conn EXCEPT ![p] = k] /\ UNCHANGED <<style, busy, left, broken>>
TransactionLock(p, k) ==
  /\ ddlPc[p] = "start" /\ k \in FreeConns(p) /\ ddlHeld = << >>
  /\ ddlHeld' = <<p, k>> /\ ddlPc' = [ddlPc EXCEPT ![p] = "ddl"]
  /\ conn' = [conn EXCEPT ![p] = k] /\ UNCHANGED <<style, busy, left, broken>>
(* One CREATE ... IF NOT EXISTS, or its failure, which ends the call. *)
Ddl(p, ok) ==
  /\ ddlPc[p] = "ddl" /\ left[p] > 0 /\ (style = "session" => FreeConns(p) # {})
  /\ left' = [left EXCEPT ![p] = IF ok THEN @ - 1 ELSE 0]
  /\ ddlPc' = (IF ok THEN ddlPc ELSE [ddlPc EXCEPT ![p] = "failing"])
  /\ UNCHANGED <<style, ddlHeld, busy, conn, broken>>
Outcome(p) == IF ddlPc[p] = "failing" THEN "failed" ELSE "done"
Ends(p) == ddlPc[p] = "failing" \/ (ddlPc[p] = "ddl" /\ left[p] = 0)
(* Commit or rollback: the transaction lock goes with the transaction. *)
(* Mutant: a failed statement returns without ending the transaction. *)
EndTransaction_CommitOnly(p) ==
  /\ style = "transaction" /\ Ends(p)
  /\ ddlHeld' = IF Mine(p) /\ Outcome(p) = "done" THEN << >> ELSE ddlHeld
  /\ conn' = [conn EXCEPT ![p] = 0] /\ ddlPc' = [ddlPc EXCEPT ![p] = Outcome(p)] /\ UNCHANGED <<style, busy, left, broken>>
EndTransaction(p) ==
  /\ style = "transaction" /\ Ends(p)
  /\ ddlHeld' = IF Mine(p) THEN << >> ELSE ddlHeld
  /\ conn' = [conn EXCEPT ![p] = 0] /\ ddlPc' = [ddlPc EXCEPT ![p] = Outcome(p)] /\ UNCHANGED <<style, busy, left, broken>>
(* The deferred pg_advisory_unlock frees the lock only on the connection that took it. *)
Unlock(p, k) ==
  /\ style = "session" /\ Ends(p) /\ k \in FreeConns(p)
  /\ ddlHeld' = IF ddlHeld = <<p, k>> THEN << >> ELSE ddlHeld
  /\ ddlPc' = [ddlPc EXCEPT ![p] = Outcome(p)] /\ UNCHANGED <<style, busy, conn, left, broken>>
(* Other goroutines of the process borrow and return connections (of the pool of a *)
(* checkpoint store: a transaction keeps the one it has). *)
Borrow(p, k) == style = "session" /\ k \in FreeConns(p) /\ busy' = [busy EXCEPT ![p] = @ \cup {k}] /\ UNCHANGED <<style, ddlHeld, ddlPc, conn, left, broken>>
Return(p, k) == k \in busy[p] /\ busy' = [busy EXCEPT ![p] = @ \ {k}] /\ UNCHANGED <<style, ddlHeld, ddlPc, conn, left, broken>>
(* A connection closes: idle too long, or lost.  Its locks are freed. *)
ConnCloses(p, k) ==
  /\ ddlHeld = <<p, k>> /\ ddlHeld' = << >>
  /\ broken' = IF ddlPc[p] = "ddl" THEN broken \cup {p} ELSE broken
  /\ ddlPc' = IF conn[p] = k THEN [ddlPc EXCEPT ![p] = "failing"] ELSE ddlPc
  /\ UNCHANGED <<style, busy, conn, left>>

DdlNext ==
  \E p \in Processes :
    \/ EndTransaction(p) \/ \E ok \in BOOLEAN : Ddl(p, ok)
    \/ \E k \in Conns : \/ style = "transaction" /\ TransactionLock(p, k)
                        \/ style = "session" /\ SessionLock(p, k)
                        \/ Unlock(p, k) \/ Borrow(p, k) \/ Return(p, k) \/ ConnCloses(p, k)
DdlSpec == DdlInit /\ [][DdlNext]_ddlVars

DdlTypeOK == /\ \A p \in Processes : left[p] \in 0..Statements /\ busy[p] \subseteq Conns
             /\ ddlHeld = << >> \/ ddlHeld \in Processes \X Conns
-----------------------------------------------------------------------------
(* DDL of two processes on the same tables overlaps only if the connection that holds *)
(* the session lock was closed in the middle; under the transaction lock it never does. *)
DdlOverlapsNever ==
  \A p, q \in Processes : (p # q /\ ddlPc[p] = "ddl" /\ ddlPc[q] = "ddl" /\ left[p] > 0 /\ left[q] > 0) =>
    (style = "session" /\ {p, q} \cap broken # {})
(* Once ensureSchema of the transition store has returned, with or without an error,  *)
(* the process holds no lock.  (The session lock may stay with a pooled connection.)   *)
NoLockKept == \A p \in Processes : (style = "transaction" /\ ddlPc[p] \in {"done", "failed"}) => ~Mine(p)
=============================================================================

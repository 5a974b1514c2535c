----------------------------- MODULE Resumption -----------------------------
(***************************************************************************)
(* Resuming a workflow that waits for a human (src/pkg/hitl): callback     *)
(* handlers that check two idempotency keys and enqueue the response, the  *)
(* Redis stream that delivers it at least once, resumption workers that    *)
(* load the checkpoint, execute the rest of the graph and clean up, and    *)
(* the checkpoint store with its dead-letter table.                        *)
(*                                                                         *)
(* One workflow. Its pauses are requests 1, 2, ...: a resumed graph that   *)
(* pauses again creates the next one. Every call on a store or on the      *)
(* queue is a step, so a crash, a second delivery or another handler can   *)
(* come between any two of them.                                           *)
(***************************************************************************)
EXTENDS Integers, Sequences

CONSTANTS
    Callbacks,              \* HTTP requests with a human response
    Workers,
    MaxResumptionAttempts,
    MaxRequests,            \* bound: pauses of the workflow
    MaxFaults,              \* bound: calls on a store or the queue that fail
    MaxSlow,                \* bound: messages taken over from a worker still at it
    MaxCrashes,
    MaxExpiries             \* bound: processing locks that run out

Requests == 1..MaxRequests

ASSUME ResumptionAssumption ==
    /\ MaxResumptionAttempts \in Nat /\ MaxRequests \in Nat \ {0}
    /\ MaxFaults \in Nat /\ MaxSlow \in Nat /\ MaxCrashes \in Nat /\ MaxExpiries \in Nat

VARIABLES
    ckpt,       \* the checkpoint of a request: where it is, its FailureCount
    issued,     \* requests created so far
    fresh,      \* requests whose callback URL is younger than five minutes
    done,       \* keys callback-done:<request>
    lock,       \* keys processing:<request>
    stream,     \* the Redis stream: request and delivery state of each message
    callback,   \* a handler: pc and request
    worker,     \* a worker: pc, message, FailureCount it loaded, nested request
    resumed,    \* history: executions of a request that ended or paused again
    ended,      \* history: an execution ran to the end of the graph
    faults, slow, crashes, expiries

vars == <<ckpt, issued, fresh, done, lock, stream, callback, worker, resumed,
          ended, faults, slow, crashes, expiries>>

storeVars == <<ckpt, issued, resumed, ended>>
keyVars == <<done, lock, fresh>>
boundVars == <<slow, crashes, expiries>>

CallbackPcs == {"new", "lock", "enqueue", "release", "done", "accepted", "refused"}
WorkerPcs == {"idle", "load", "mark", "resume", "record", "dlq", "replace",
              "delete", "unlock", "ack"}
Places == {"none", "live", "dead", "gone"}

IdleWorker == [pc |-> "idle", msg |-> 0, fails |-> 0, next |-> 0]

(* A checkpoint's FailureCount stays within the retry limit, but for the   *)
(* retries of a second worker that loaded the same checkpoint.             *)
TypeOK ==
    /\ ckpt \in [Requests -> [at : Places, fails : 0..MaxResumptionAttempts + MaxSlow]]
    /\ issued \in Requests
    /\ fresh \subseteq Requests /\ done \subseteq Requests /\ lock \subseteq Requests
    /\ stream \in Seq([req : Requests, state : {"new", "pending", "acked"}])
    /\ callback \in [Callbacks -> [pc : CallbackPcs, req : Requests]]
    /\ worker \in [Workers -> [pc : WorkerPcs, msg : 0..Len(stream),
                               fails : Nat, next : 0..MaxRequests]]
    /\ resumed \in [Requests -> Nat] /\ ended \in BOOLEAN
    /\ faults \in 0..MaxFaults /\ slow \in 0..MaxSlow
    /\ crashes \in 0..MaxCrashes /\ expiries \in 0..MaxExpiries

(* executeGraphWithMetrics: the graph has paused, its checkpoint is in the *)
(* store and the human has the URL.                                        *)
Init ==
    /\ ckpt = [r \in Requests |-> [at |-> IF r = 1 THEN "live" ELSE "none", fails |-> 0]]
    /\ issued = 1
    /\ fresh = Requests /\ done = {} /\ lock = {}
    /\ stream = <<>>
    /\ callback = [c \in Callbacks |-> [pc |-> "new", req |-> 1]]
    /\ worker = [w \in Workers |-> IdleWorker]
    /\ resumed = [r \in Requests |-> 0] /\ ended = FALSE
    /\ faults = 0 /\ slow = 0 /\ crashes = 0 /\ expiries = 0

Live(r) == ckpt[r].at = "live"

(* A call on a store or the queue fails. *)
Fails == faults < MaxFaults /\ faults' = faults + 1
Works == faults' = faults

-----------------------------------------------------------------------------
(* HandleHumanCallback.                                                    *)

Goto(c, pc) == callback' = [callback EXCEPT ![c].pc = pc]

(* Signature, age and callback-done; an error of Exists counts as absent.  *)
Receive(c, r) ==
    /\ callback[c].pc = "new"
    /\ ckpt[r].at # "none"
    /\ \/ /\ r \notin fresh
          /\ callback' = [callback EXCEPT ![c] = [pc |-> "refused", req |-> r]]
          /\ Works
       \/ /\ r \in fresh
          /\ \/ Works /\ callback' = [callback EXCEPT ![c] =
                          [pc |-> IF r \in done THEN "done" ELSE "lock", req |-> r]]
             \/ Fails /\ callback' = [callback EXCEPT ![c] = [pc |-> "lock", req |-> r]]
    /\ UNCHANGED <<storeVars, keyVars, stream, worker, boundVars>>

(* Mutant: the key is set whether it is held or not. *)
SetNX_Set(c) ==
    /\ callback[c].pc = "lock"
    /\ \/ Works /\ lock' = lock \cup {callback[c].req} /\ Goto(c, "enqueue")
       \/ Fails /\ Goto(c, "refused") /\ UNCHANGED lock
    /\ UNCHANGED <<storeVars, done, fresh, stream, worker, boundVars>>

SetNX(c) ==
    /\ callback[c].pc = "lock"
    /\ \/ /\ Works
          /\ lock' = lock \cup {callback[c].req}
          /\ Goto(c, IF callback[c].req \in lock THEN "accepted" ELSE "enqueue")
       \/ Fails /\ Goto(c, "refused") /\ UNCHANGED lock
    /\ UNCHANGED <<storeVars, done, fresh, stream, worker, boundVars>>

Enqueue(c) ==
    /\ callback[c].pc = "enqueue"
    /\ \/ /\ Works
          /\ stream' = Append(stream, [req |-> callback[c].req, state |-> "new"])
          /\ Goto(c, "accepted")
       \/ Fails /\ Goto(c, "release") /\ UNCHANGED stream
    /\ UNCHANGED <<storeVars, keyVars, worker, boundVars>>

(* After a failed Enqueue the lock is released and the callback refused.   *)
ReleaseLock(c) ==
    /\ callback[c].pc = "release"
    /\ \/ Works /\ lock' = lock \ {callback[c].req}
       \/ Fails /\ UNCHANGED lock
    /\ Goto(c, "refused")
    /\ UNCHANGED <<storeVars, done, fresh, stream, worker, boundVars>>

-----------------------------------------------------------------------------
(* The stream and the worker loop.                                         *)

Req(w) == stream[worker[w].msg].req
Step(w, pc) == worker' = [worker EXCEPT ![w].pc = pc]
Attended(i) == \E w \in Workers : worker[w].pc # "idle" /\ worker[w].msg = i
Take(w, i) ==
    /\ worker[w].pc = "idle"
    /\ worker' = [worker EXCEPT ![w] = [IdleWorker EXCEPT !.pc = "load", !.msg = i]]
    /\ stream' = [stream EXCEPT ![i].state = "pending"]
    /\ Works
    /\ UNCHANGED <<storeVars, keyVars, callback, crashes, expiries>>

(* XAutoClaim of a message nobody works on any more, or XReadGroup of the  *)
(* next new one.                                                           *)
Dequeue(w) ==
    \E i \in DOMAIN stream :
        /\ \/ stream[i].state = "pending" /\ ~Attended(i)
           \/ stream[i].state = "new" /\ \A j \in 1..i - 1 : stream[j].state # "new"
        /\ Take(w, i)
        /\ UNCHANGED slow

(* XAutoClaim of a message its worker has held for longer than ClaimIdle.  *)
ClaimSlow(w) ==
    \E i \in DOMAIN stream :
        /\ stream[i].state = "pending" /\ Attended(i)
        /\ slow < MaxSlow /\ slow' = slow + 1
        /\ Take(w, i)

-----------------------------------------------------------------------------
(* processJob.                                                             *)

(* 1.-3. A checkpoint that is gone ends the job; a graph that is missing   *)
(* or has another version, or a state that does not decode, dead-letters.  *)
LoadCheckpoint(w) ==
    /\ worker[w].pc = "load"
    /\ \/ /\ Works /\ Live(Req(w))
          /\ \E pc \in {"mark", "dlq"} :
               worker' = [worker EXCEPT ![w].pc = pc, ![w].fails = ckpt[Req(w)].fails]
       \/ Works /\ ~Live(Req(w)) /\ Step(w, "ack")
       \/ Fails /\ worker' = [worker EXCEPT ![w] = IdleWorker]
    /\ UNCHANGED <<storeVars, keyVars, stream, callback, boundVars>>

(* 4. callback-done is set before the execution. *)
MarkDone(w) ==
    /\ worker[w].pc = "mark"
    /\ \/ Works /\ done' = done \cup {Req(w)} /\ Step(w, "resume")
       \/ Fails /\ UNCHANGED done /\ worker' = [worker EXCEPT ![w] = IdleWorker]
    /\ UNCHANGED <<storeVars, lock, fresh, stream, callback, boundVars>>

(* Mutant: the retry limit is not looked at. *)
RetryAllowed_Always(w) == worker[w].fails \in Nat
RetryAllowed(w) == worker[w].fails < MaxResumptionAttempts

(* 5. The graph fails, pauses at a new request, or runs to its end.        *)
Resume(w) ==
    /\ worker[w].pc = "resume"
    /\ \/ /\ Step(w, IF RetryAllowed(w) THEN "record" ELSE "dlq")
          /\ UNCHANGED <<issued, resumed, ended>>
       \/ Step(w, "dlq") /\ UNCHANGED <<issued, resumed, ended>>
       \/ /\ issued < MaxRequests /\ issued' = issued + 1
          /\ worker' = [worker EXCEPT ![w].pc = "replace", ![w].next = issued + 1]
          /\ resumed' = [resumed EXCEPT ![Req(w)] = @ + 1]
          /\ UNCHANGED ended
       \/ /\ ended' = TRUE
          /\ resumed' = [resumed EXCEPT ![Req(w)] = @ + 1]
          /\ Step(w, "delete")
          /\ UNCHANGED issued
    /\ Works
    /\ UNCHANGED <<ckpt, keyVars, stream, callback, boundVars>>

(* Mutant: a retryable failure is not counted. *)
RecordFailure_NotCounted(w) ==
    /\ worker[w].pc = "record"
    /\ Works
    /\ worker' = [worker EXCEPT ![w] = IdleWorker]
    /\ UNCHANGED <<storeVars, keyVars, stream, callback, boundVars>>

(* Mutant: a retryable failure is counted and acknowledged. *)
RecordFailure_Acks(w) ==
    /\ worker[w].pc = "record"
    /\ \/ Works /\ ckpt' = [ckpt EXCEPT ![Req(w)].fails =
                       IF Live(Req(w)) THEN @ + 1 ELSE @]
       \/ Fails /\ UNCHANGED ckpt
    /\ Step(w, "ack")
    /\ UNCHANGED <<issued, resumed, ended, keyVars, stream, callback, boundVars>>

(* A retryable failure: counted, and the message stays pending.            *)
RecordFailure(w) ==
    /\ worker[w].pc = "record"
    /\ \/ Works /\ ckpt' = [ckpt EXCEPT ![Req(w)].fails =
                       IF Live(Req(w)) THEN @ + 1 ELSE @]
       \/ Fails /\ UNCHANGED ckpt
    /\ worker' = [worker EXCEPT ![w] = IdleWorker]
    /\ UNCHANGED <<issued, resumed, ended, keyVars, stream, callback, boundVars>>

(* Mutant: the replacement does not look for the old row. *)
Replace_Blind(w) ==
    /\ worker[w].pc = "replace"
    /\ Works
    /\ ckpt' = [ckpt EXCEPT ![Req(w)].at = "gone", ![worker[w].next].at = "live"]
    /\ Step(w, "ack")
    /\ UNCHANGED <<issued, resumed, ended, keyVars, stream, callback, boundVars>>

(* persistNestedPauseCheckpoint: one transaction that locks the old row,   *)
(* inserts the new one and deletes the old. A replacement that fails       *)
(* dead-letters. Both checkpoint stores of the repository have Replace, so *)
(* the Create-then-Delete for a store without it is not taken.             *)
Replace(w) ==
    /\ worker[w].pc = "replace"
    /\ \/ /\ Works /\ Live(Req(w))
          /\ ckpt' = [ckpt EXCEPT ![Req(w)].at = "gone", ![worker[w].next].at = "live"]
          /\ Step(w, "ack")
       \/ (Fails \/ (Works /\ ~Live(Req(w)))) /\ UNCHANGED ckpt /\ Step(w, "dlq")
    /\ UNCHANGED <<issued, resumed, ended, keyVars, stream, callback, boundVars>>

(* Mutant: the checkpoint is deleted without a dead-letter row. *)
MoveToDLQ_Drop(w) ==
    /\ worker[w].pc = "dlq"
    /\ \/ Works /\ ckpt' = [ckpt EXCEPT ![Req(w)].at = IF Live(Req(w)) THEN "gone" ELSE @]
       \/ Fails /\ UNCHANGED ckpt
    /\ Step(w, "ack")
    /\ UNCHANGED <<issued, resumed, ended, keyVars, stream, callback, boundVars>>

(* MoveToCheckpointDLQ in one transaction; an error is only logged.        *)
MoveToDLQ(w) ==
    /\ worker[w].pc = "dlq"
    /\ \/ Works /\ ckpt' = [ckpt EXCEPT ![Req(w)].at = IF Live(Req(w)) THEN "dead" ELSE @]
       \/ Fails /\ UNCHANGED ckpt
    /\ Step(w, "ack")
    /\ UNCHANGED <<issued, resumed, ended, keyVars, stream, callback, boundVars>>

(* 6. The checkpoint is deleted; an error is only logged.                  *)
DeleteCheckpoint(w) ==
    /\ worker[w].pc = "delete"
    /\ \/ Works /\ ckpt' = [ckpt EXCEPT ![Req(w)].at = IF Live(Req(w)) THEN "gone" ELSE @]
       \/ Fails /\ UNCHANGED ckpt
    /\ Step(w, "unlock")
    /\ UNCHANGED <<issued, resumed, ended, keyVars, stream, callback, boundVars>>

(* 7. The processing lock is released. *)
Unlock(w) ==
    /\ worker[w].pc = "unlock"
    /\ \/ Works /\ lock' = lock \ {Req(w)}
       \/ Fails /\ UNCHANGED lock
    /\ Step(w, "ack")
    /\ UNCHANGED <<storeVars, done, fresh, stream, callback, boundVars>>

Ack(w) ==
    /\ worker[w].pc = "ack"
    /\ \/ Works /\ stream' = [stream EXCEPT ![worker[w].msg].state = "acked"]
       \/ Fails /\ UNCHANGED stream
    /\ worker' = [worker EXCEPT ![w] = IdleWorker]
    /\ UNCHANGED <<storeVars, keyVars, callback, boundVars>>

-----------------------------------------------------------------------------
(* The world.                                                              *)

(* Five minutes pass since the callback URL of a request was signed.       *)
Age(r) ==
    /\ r \in fresh /\ ckpt[r].at # "none"
    /\ fresh' = fresh \ {r}
    /\ UNCHANGED <<storeVars, done, lock, stream, callback, worker, faults, boundVars>>

(* ProcessingLockTTL: a lock was taken after its URL was signed and lives  *)
(* as long as the URL is accepted.                                         *)
LockExpires(r) ==
    /\ r \in lock /\ r \notin fresh
    /\ expiries < MaxExpiries /\ expiries' = expiries + 1
    /\ lock' = lock \ {r}
    /\ UNCHANGED <<storeVars, done, fresh, stream, callback, worker, faults, slow, crashes>>

(* The process of a worker or of a handler dies.                           *)
Crash ==
    /\ crashes < MaxCrashes /\ crashes' = crashes + 1
    /\ \/ \E w \in Workers : /\ worker[w].pc # "idle"
                             /\ worker' = [worker EXCEPT ![w] = IdleWorker]
                             /\ UNCHANGED callback
       \/ \E c \in Callbacks : /\ callback[c].pc \in {"lock", "enqueue", "release"}
                               /\ Goto(c, "refused")
                               /\ UNCHANGED worker
    /\ UNCHANGED <<storeVars, keyVars, stream, faults, slow, expiries>>

ProcessJob(w) ==
    \/ LoadCheckpoint(w) \/ MarkDone(w) \/ Resume(w) \/ RecordFailure(w)
    \/ Replace(w) \/ MoveToDLQ(w) \/ DeleteCheckpoint(w) \/ Unlock(w) \/ Ack(w)
Handle(c) == (\E r \in Requests : Receive(c, r)) \/ SetNX(c) \/ Enqueue(c) \/ ReleaseLock(c)

Next ==
    \/ \E c \in Callbacks : Handle(c)
    \/ \E w \in Workers : Dequeue(w) \/ ClaimSlow(w) \/ ProcessJob(w)
    \/ \E r \in Requests : Age(r) \/ LockExpires(r)
    \/ Crash

Spec == Init /\ [][Next]_vars

-----------------------------------------------------------------------------
(* A workflow waits at no more than one request: a second delivery that    *)
(* pauses again does not leave a second branch of the workflow behind.     *)
SingleFrontier == \A r, s \in Requests : Live(r) /\ Live(s) => r = s

(* No workflow is lost: it waits, it is in the dead-letter table, or it    *)
(* was executed to its end, whatever crashes or fails between two steps.   *)
NeverLost == ended \/ \E r \in Requests : ckpt[r].at \in {"live", "dead"}

(* Once callback-done is set every further callback is turned away, so a   *)
(* checkpoint that still waits has a message that will be delivered. Only  *)
(* a failed delete or dead-letter write, which is logged and acknowledged, *)
(* can break this.                                                         *)
DoneHasMessage ==
    faults = 0 =>
        \A r \in done : Live(r) =>
            \E i \in DOMAIN stream : stream[i].req = r /\ stream[i].state # "acked"

(* Duplicate callbacks do not repeat a successful resume (FAILURE_SEMANTICS *)
(* .md), unless a message is taken over from a slow or dead worker, a call  *)
(* fails, or a processing lock runs out first.                              *)
ResumedOnce ==
    faults + slow + crashes + expiries = 0 => \A r \in Requests : resumed[r] <= 1

(* Goroutines run, and Redis hands a message nobody works on to a worker.  *)
Work(w) == Dequeue(w) \/ ProcessJob(w)
Accepted(r) == \E i \in 1..Len(stream) : stream[i].req = r /\ stream[i].state # "acked"
Settled(r) == ~Live(r) \/ faults > 0
=============================================================================

-------------------------- MODULE ResumptionProofs --------------------------
(***************************************************************************)
(* A workflow never waits at two requests, is never lost, and a request    *)
(* whose callbacks are turned away has a message: for every number of      *)
(* callbacks, workers, requests, crashes and failed calls.                 *)
(***************************************************************************)
EXTENDS Resumption, TLAPS

Message == [req : Requests, state : {"new", "pending", "acked"}]

CkptType == [Requests -> [at : Places, fails : Nat]]
CallbackType == [Callbacks -> [pc : CallbackPcs, req : Requests]]
WorkerType == [pc : WorkerPcs, msg : Nat, fails : Nat, next : Nat]

Shapes ==
    /\ ckpt \in CkptType
    /\ issued \in Requests
    /\ done \subseteq Requests
    /\ stream \in Seq(Message)
    /\ callback \in CallbackType
    /\ worker \in [Workers -> WorkerType]
    /\ ended \in BOOLEAN
    /\ faults \in Nat

(* Whoever names a request names one that has been created. *)
Known ==
    /\ \A c \in Callbacks : callback[c].pc # "new" => ckpt[callback[c].req].at # "none"
    /\ \A i \in DOMAIN stream : ckpt[stream[i].req].at # "none"
    /\ \A r \in Requests : ckpt[r].at # "none" => r <= issued

(* A busy worker holds a message. *)
Busy == \A w \in Workers : worker[w].pc # "idle" => worker[w].msg \in DOMAIN stream

(* The request of a nested pause is new, and no two workers have the same. *)
NestedNew ==
    /\ \A w \in Workers : worker[w].pc = "replace" =>
           /\ worker[w].next \in Requests /\ worker[w].next <= issued
           /\ ckpt[worker[w].next].at = "none"
    /\ \A v, w \in Workers :
           worker[v].pc = "replace" /\ worker[w].pc = "replace" /\ v # w
               => worker[v].next # worker[w].next

DeletesEnded == \A w \in Workers : worker[w].pc = "delete" => ended

(* What is acknowledged, or about to be, no longer waits. *)
AckedSettled ==
    faults = 0 =>
        /\ \A i \in DOMAIN stream : stream[i].state = "acked" => ~Live(stream[i].req)
        /\ \A w \in Workers : worker[w].pc \in {"unlock", "ack"} => ~Live(Req(w))

DoneEnqueued == \A r \in done : \E i \in DOMAIN stream : stream[i].req = r

ResumptionInv ==
    /\ Shapes /\ Known /\ Busy /\ NestedNew /\ DeletesEnded /\ AckedSettled
    /\ DoneEnqueued /\ SingleFrontier /\ NeverLost

(* The initial state satisfies the invariant. *)
LEMMA InitInv == Init => ResumptionInv
<1> SUFFICES ASSUME Init PROVE ResumptionInv
  OBVIOUS
<1> 1 \in Requests
  BY ResumptionAssumption DEF ResumptionAssumption, Requests
<1>1. Shapes
  <2>1. ckpt \in CkptType
    BY DEF Init, Places, CkptType
  <2>2. callback \in CallbackType
    BY DEF Init, CallbackPcs, CallbackType
  <2>3. worker \in [Workers -> WorkerType]
    BY DEF Init, WorkerPcs, IdleWorker, WorkerType
  <2>4. stream \in Seq(Message)
    BY DEF Init
  <2> QED
    BY Zenon, <2>1, <2>2, <2>3, <2>4 DEF Init, Shapes
<1>2. Known /\ Busy /\ NestedNew /\ DeletesEnded /\ AckedSettled /\ DoneEnqueued
  BY DEF Init, Known, Busy, NestedNew, DeletesEnded, AckedSettled, DoneEnqueued,
         IdleWorker, Live
<1>3. SingleFrontier /\ NeverLost
  BY DEF Init, SingleFrontier, NeverLost, Live
<1> QED
  BY <1>1, <1>2, <1>3 DEF ResumptionInv

(* The messages of the stream name requests. *)
LEMMA MessageShape ==
    ASSUME Shapes, NEW i \in DOMAIN stream
    PROVE  stream[i] \in Message /\ stream[i].req \in Requests
<1>1. stream[i] \in Message
  BY DEF Shapes
<1> QED
  BY <1>1 DEF Message

(* The request a busy worker handles is one that has been created. *)
LEMMA BusyRequest ==
    ASSUME Shapes, Known, Busy, NEW w \in Workers, worker[w].pc # "idle"
    PROVE  Req(w) \in Requests /\ ckpt[Req(w)].at # "none"
<1>1. worker[w].msg \in DOMAIN stream
  BY DEF Busy
<1>2. stream[worker[w].msg] \in Message
  BY <1>1 DEF Shapes
<1> QED
  BY <1>1, <1>2 DEF Known, Req, Message

(* What a move of a worker or of a callback leaves alone. *)
LEMMA StepFields ==
    ASSUME worker \in [Workers -> WorkerType], NEW w \in Workers, NEW pc, Step(w, pc)
    PROVE  /\ \A v \in Workers : v # w => worker'[v] = worker[v]
           /\ worker'[w].pc = pc /\ worker'[w].msg = worker[w].msg
BY DEF Step, WorkerType

LEMMA IdleFields ==
    ASSUME worker \in [Workers -> WorkerType], NEW w \in Workers,
           worker' = [worker EXCEPT ![w] = IdleWorker]
    PROVE  /\ \A v \in Workers : v # w => worker'[v] = worker[v]
           /\ worker'[w].pc = "idle"
BY DEF IdleWorker

LEMMA GotoFields ==
    ASSUME callback \in CallbackType, NEW c \in Callbacks, NEW pc, Goto(c, pc)
    PROVE  /\ \A d \in Callbacks : d # c => callback'[d] = callback[d]
           /\ callback'[c].pc = pc /\ callback'[c].req = callback[c].req
BY DEF Goto, CallbackType

(* A step of a busy worker that leaves the stream alone and, at most,      *)
(* takes its own checkpoint out of the store.                              *)
LEMMA WorkerMove ==
    ASSUME ResumptionInv, Shapes', NEW w \in Workers, worker[w].pc # "idle",
           stream' = stream, callback' = callback, issued' = issued, ended' = ended,
           faults' = faults \/ faults' = faults + 1,
           done' \subseteq done \cup {Req(w)},
           \A v \in Workers : v # w => worker'[v] = worker[v],
           worker'[w].pc # "idle" => worker'[w].msg = worker[w].msg,
           worker'[w].pc # "replace", worker'[w].pc # "delete",
           \A r \in Requests : ckpt'[r].at # ckpt[r].at =>
               /\ r = Req(w) /\ ckpt[r].at = "live"
               /\ ckpt'[r].at = "dead" \/ (ckpt'[r].at = "gone" /\ ended),
           faults' = 0 /\ worker'[w].pc \in {"unlock", "ack"} => ckpt'[Req(w)].at # "live"
    PROVE  ResumptionInv'
<1> USE DEF ResumptionInv
<1>1. Req(w) \in Requests /\ ckpt[Req(w)].at # "none"
  BY BusyRequest
<1>2. \A r \in Requests : (ckpt'[r].at # "none" <=> ckpt[r].at # "none")
                          /\ (ckpt'[r].at = "live" => ckpt[r].at = "live")
  BY <1>1
<1>3. \A i \in DOMAIN stream : stream[i].req \in Requests
  BY MessageShape
<1>4. Known'
  BY <1>2, <1>3 DEF Known, Shapes, CallbackType
<1>5. Busy'
  BY DEF Busy
<1>6. NestedNew'
  BY <1>2 DEF NestedNew
<1>7. DeletesEnded'
  BY DEF DeletesEnded
<1>8. AckedSettled'
  <2> SUFFICES ASSUME faults' = 0 PROVE AckedSettled'
    BY DEF AckedSettled
  <2>1. faults = 0
    BY DEF Shapes
  <2>2. \A i \in DOMAIN stream : stream[i].state = "acked" => ~Live(stream[i].req)'
    BY <1>2, <1>3, <2>1 DEF AckedSettled, Live
  <2>3. ASSUME NEW v \in Workers, worker'[v].pc \in {"unlock", "ack"} PROVE ~Live(Req(v))'
    <3>1. CASE v = w
      BY <2>3, <3>1 DEF Live, Req
    <3>2. CASE v # w
      <4>1. worker[v].pc \in {"unlock", "ack"} /\ Req(v)' = Req(v)
        BY Zenon, <2>3, <3>2 DEF Req
      <4>2. worker[v].pc # "idle"
        BY <4>1
      <4>3. Req(v) \in Requests /\ ~Live(Req(v))
        BY Zenon, <2>1, <4>1, <4>2, BusyRequest DEF AckedSettled
      <4> QED
        BY Zenon, <1>2, <4>1, <4>3 DEF Live
    <3> QED
      BY <3>1, <3>2
  <2> QED
    BY <2>2, <2>3 DEF AckedSettled
<1>9. DoneEnqueued'
  BY DEF DoneEnqueued, Busy, Req
<1>10. SingleFrontier'
  BY <1>2 DEF SingleFrontier, Live
<1>11. NeverLost'
  BY <1>1 DEF NeverLost
<1> QED
  BY <1>4, <1>5, <1>6, <1>7, <1>8, <1>9, <1>10, <1>11

(* A step that leaves checkpoints, requests and messages alone and in      *)
(* which no worker moves on except to a stop.                              *)
LEMMA QuietStep ==
    ASSUME ResumptionInv, Shapes',
           ckpt' = ckpt, issued' = issued, ended' = ended, done' = done, stream' = stream,
           faults' = faults \/ faults' = faults + 1,
           \A v \in Workers : worker'[v] = worker[v] \/ worker'[v].pc = "idle",
           \A c \in Callbacks : callback'[c].pc # "new" =>
               ckpt[callback'[c].req].at # "none"
    PROVE  ResumptionInv'
<1> USE DEF ResumptionInv
<1>1. Known' /\ Busy' /\ DeletesEnded' /\ DoneEnqueued'
  BY DEF Known, Busy, DeletesEnded, DoneEnqueued
<1>2. NestedNew'
  BY DEF NestedNew
<1>3. AckedSettled'
  <2> SUFFICES ASSUME faults' = 0 PROVE AckedSettled'
    BY DEF AckedSettled
  <2>1. faults = 0
    BY DEF Shapes
  <2>2. \A v \in Workers : worker'[v].pc \in {"unlock", "ack"} => worker'[v] = worker[v]
    OBVIOUS
  <2> QED
    BY <2>1, <2>2 DEF AckedSettled, Live, Req
<1>4. SingleFrontier' /\ NeverLost'
  BY DEF SingleFrontier, NeverLost, Live
<1> QED
  BY <1>1, <1>2, <1>3, <1>4

(* Writing a place or a FailureCount keeps the type of the store. *)
LEMMA CkptWrite ==
    ASSUME ckpt \in CkptType, NEW r \in Requests
    PROVE  /\ \A p \in Places : [ckpt EXCEPT ![r].at = p] \in CkptType
           /\ \A f \in Nat : [ckpt EXCEPT ![r].fails = f] \in CkptType
           /\ ckpt[r].at \in Places /\ ckpt[r].fails \in Nat
  BY DEF CkptType

(* Every step keeps the shapes. *)
LEMMA ShapesStep ==
    ASSUME ResumptionInv, Next
    PROVE  Shapes'
<1> USE DEF ResumptionInv, storeVars, keyVars, boundVars
<1>1. ckpt' \in CkptType
  <2>1. CASE ckpt' = ckpt
    BY <2>1 DEF Shapes
  <2>2. ASSUME NEW w \in Workers, RecordFailure(w) PROVE ckpt' \in CkptType
    <3>1. Req(w) \in Requests
      BY <2>2, BusyRequest DEF RecordFailure
    <3> QED
      <4> DEFINE f == IF Live(Req(w)) THEN ckpt[Req(w)].fails + 1 ELSE ckpt[Req(w)].fails
      <4>1. ckpt[Req(w)].fails \in Nat /\ \A g \in Nat : [ckpt EXCEPT ![Req(w)].fails = g] \in CkptType
        BY <3>1, CkptWrite DEF Shapes
      <4>2. f \in Nat
        BY <4>1
      <4>3. ckpt' = [ckpt EXCEPT ![Req(w)].fails = f] \/ ckpt' = ckpt
        BY <2>2 DEF RecordFailure
      <4> HIDE DEF f
      <4> QED
        BY <2>1, <4>1, <4>2, <4>3
  <2>3. ASSUME NEW w \in Workers, Replace(w) PROVE ckpt' \in CkptType
    <3>1. Req(w) \in Requests
      BY <2>3, BusyRequest DEF Replace
    <3>2. worker[w].next \in Requests
      BY <2>3 DEF Replace, NestedNew
    <3>3. "gone" \in Places /\ "live" \in Places
      BY DEF Places
    <3>4. [ckpt EXCEPT ![Req(w)].at = "gone", ![worker[w].next].at = "live"] \in CkptType
      BY Zenon, <3>1, <3>2, <3>3 DEF Shapes, CkptType
    <3> QED
      BY <2>1, <2>3, <3>4 DEF Replace
  <2>4. ASSUME NEW w \in Workers, MoveToDLQ(w) \/ DeleteCheckpoint(w) PROVE ckpt' \in CkptType
    <3>1. Req(w) \in Requests
      BY <2>4, BusyRequest DEF MoveToDLQ, DeleteCheckpoint
    <3>2. \A p \in Places : [ckpt EXCEPT ![Req(w)].at = p] \in CkptType
      BY <3>1, CkptWrite DEF Shapes
    <3>3. \A p : (IF Live(Req(w)) THEN p ELSE ckpt[Req(w)].at) \in {p, ckpt[Req(w)].at}
      OBVIOUS
    <3>4. ckpt[Req(w)].at \in Places /\ "dead" \in Places /\ "gone" \in Places
      BY Zenon, <3>1, CkptWrite DEF Shapes, Places
    <3>5. PICK p \in Places : ckpt' = [ckpt EXCEPT ![Req(w)].at = p] \/ ckpt' = ckpt
      BY <2>4, <3>3, <3>4 DEF MoveToDLQ, DeleteCheckpoint
    <3> QED
      BY <2>1, <3>2, <3>5
  <2> QED
    BY ZenonT(60), <2>1, <2>2, <2>3, <2>4
       DEF Next, Handle, Receive, SetNX, Enqueue, ReleaseLock, Dequeue, ClaimSlow, Take,
           ProcessJob, LoadCheckpoint, MarkDone, Resume, Unlock, Ack, Age, LockExpires, Crash
<1>2. issued' \in Requests /\ ended' \in BOOLEAN
  <2>1. ASSUME NEW w \in Workers, Resume(w) PROVE issued' \in Requests /\ ended' \in BOOLEAN
    <3>1. issued < MaxRequests => issued + 1 \in Requests
      BY ResumptionAssumption DEF Shapes, Requests, ResumptionAssumption
    <3> QED
      BY Zenon, <2>1, <3>1 DEF Resume, Shapes
  <2>2. CASE issued' = issued /\ ended' = ended
    BY <2>2 DEF Shapes
  <2> QED
    BY ZenonT(60), <2>1, <2>2
       DEF Next, Handle, Receive, SetNX, Enqueue, ReleaseLock, Dequeue, ClaimSlow, Take,
           ProcessJob, LoadCheckpoint, MarkDone, RecordFailure, Replace, MoveToDLQ,
           DeleteCheckpoint, Unlock, Ack, Age, LockExpires, Crash
<1>3. done' \subseteq Requests
  <2>1. ASSUME NEW w \in Workers, MarkDone(w) PROVE done' \subseteq Requests
    <3>1. Req(w) \in Requests
      BY <2>1, BusyRequest DEF MarkDone
    <3> QED
      BY <2>1, <3>1 DEF MarkDone, Shapes
  <2>2. CASE done' = done
    BY <2>2 DEF Shapes
  <2> QED
    BY ZenonT(60), <2>1, <2>2
       DEF Next, Handle, Receive, SetNX, Enqueue, ReleaseLock, Dequeue, ClaimSlow, Take,
           ProcessJob, LoadCheckpoint, Resume, RecordFailure, Replace, MoveToDLQ,
           DeleteCheckpoint, Unlock, Ack, Age, LockExpires, Crash
<1>4. faults' \in Nat
  <2>1. CASE faults' = faults \/ faults' = faults + 1
    BY <2>1 DEF Shapes
  <2> QED
    BY ZenonT(60), <2>1
       DEF Next, Handle, Receive, SetNX, Enqueue, ReleaseLock, Dequeue, ClaimSlow, Take,
           ProcessJob, LoadCheckpoint, MarkDone, Resume, RecordFailure, Replace, MoveToDLQ,
           DeleteCheckpoint, Unlock, Ack, Age, LockExpires, Crash, Works, Fails
<1>5. stream' \in Seq(Message)
  <2>1. CASE stream' = stream
    BY <2>1 DEF Shapes
  <2>2. ASSUME NEW c \in Callbacks, Enqueue(c) PROVE stream' \in Seq(Message)
    <3>1. [req |-> callback[c].req, state |-> "new"] \in Message
      BY DEF Shapes, Message, CallbackType
    <3> QED
      BY <2>2, <3>1 DEF Enqueue, Shapes
  <2>3. ASSUME NEW w \in Workers, NEW i \in DOMAIN stream, Take(w, i) PROVE stream' \in Seq(Message)
    <3>1. [stream[i] EXCEPT !.state = "pending"] \in Message
      BY MessageShape DEF Message
    <3> QED
      BY <2>3, <3>1 DEF Take, Shapes
  <2>4. ASSUME NEW w \in Workers, Ack(w) PROVE stream' \in Seq(Message)
    <3>1. worker[w].msg \in DOMAIN stream
      BY <2>4 DEF Ack, Busy
    <3>2. [stream[worker[w].msg] EXCEPT !.state = "acked"] \in Message
      BY <3>1, MessageShape DEF Message
    <3> QED
      BY <2>1, <2>4, <3>1, <3>2 DEF Ack, Shapes
  <2> QED
    BY ZenonT(60), <2>1, <2>2, <2>3, <2>4
       DEF Next, Handle, Receive, SetNX, ReleaseLock, Dequeue, ClaimSlow,
           ProcessJob, LoadCheckpoint, MarkDone, Resume, RecordFailure, Replace, MoveToDLQ,
           DeleteCheckpoint, Unlock, Age, LockExpires, Crash
<1>6. callback' \in CallbackType
  <2>1. ASSUME NEW c \in Callbacks, NEW pc \in CallbackPcs, Goto(c, pc) PROVE callback' \in CallbackType
    BY <2>1 DEF Goto, Shapes, CallbackType
  <2>2. ASSUME NEW c \in Callbacks, NEW r \in Requests, Receive(c, r) PROVE callback' \in CallbackType
    BY <2>2 DEF Receive, Shapes, CallbackType, CallbackPcs
  <2>3. CASE callback' = callback
    BY <2>3 DEF Shapes
  <2>4. ASSUME NEW c \in Callbacks, SetNX(c) \/ Enqueue(c) \/ ReleaseLock(c) PROVE callback' \in CallbackType
    BY <2>1, <2>4 DEF SetNX, Enqueue, ReleaseLock, CallbackPcs
  <2>5. CASE Crash
    BY <2>1, <2>3, <2>5 DEF Crash, CallbackPcs
  <2> QED
    BY ZenonT(60), <2>2, <2>3, <2>4, <2>5
       DEF Next, Handle, Dequeue, ClaimSlow, Take,
           ProcessJob, LoadCheckpoint, MarkDone, Resume, RecordFailure, Replace, MoveToDLQ,
           DeleteCheckpoint, Unlock, Ack, Age, LockExpires
<1>7. worker' \in [Workers -> WorkerType]
  <2>1. IdleWorker \in WorkerType
    BY DEF IdleWorker, WorkerPcs, WorkerType
  <2>2. ASSUME NEW w \in Workers, NEW i \in DOMAIN stream, Take(w, i) PROVE worker' \in [Workers -> WorkerType]
    <3>1. i \in Nat
      BY DEF Shapes
    <3>2. [IdleWorker EXCEPT !.pc = "load", !.msg = i] \in WorkerType
      BY Zenon, <3>1 DEF IdleWorker, WorkerPcs, WorkerType
    <3> QED
      BY <2>2, <3>2 DEF Take, Shapes
  <2>3. ASSUME NEW w \in Workers, ProcessJob(w) PROVE worker' \in [Workers -> WorkerType]
    <3>1. ASSUME NEW pc \in WorkerPcs, Step(w, pc) PROVE worker' \in [Workers -> WorkerType]
      BY Zenon, <3>1 DEF Step, Shapes, WorkerType
    <3>2. CASE worker' = [worker EXCEPT ![w] = IdleWorker]
      BY <2>1, <3>2 DEF Shapes
    <3>3. CASE LoadCheckpoint(w)
      <4>1. Req(w) \in Requests
        BY <3>3, BusyRequest DEF LoadCheckpoint
      <4>2. ckpt[Req(w)].fails \in Nat
        BY Zenon, <4>1, CkptWrite DEF Shapes, Places
      <4> QED
        <5>1. ASSUME NEW pc \in WorkerPcs, NEW f \in Nat,
                     worker' = [worker EXCEPT ![w].pc = pc, ![w].fails = f]
              PROVE  worker' \in [Workers -> WorkerType]
          BY Zenon, <5>1 DEF Shapes, WorkerType
        <5> QED
          BY Zenon, <3>1, <3>2, <3>3, <4>2, <5>1 DEF LoadCheckpoint, WorkerPcs
    <3>4. CASE Resume(w)
      <4>1. issued + 1 \in Nat
        BY ResumptionAssumption DEF Shapes, Requests, ResumptionAssumption
      <4> QED
        <5>1. ASSUME NEW pc \in WorkerPcs, NEW n \in Nat,
                     worker' = [worker EXCEPT ![w].pc = pc, ![w].next = n]
              PROVE  worker' \in [Workers -> WorkerType]
          BY Zenon, <5>1 DEF Shapes, WorkerType
        <5> QED
          BY <3>1, <3>4, <4>1, <5>1 DEF Resume, WorkerPcs
    <3> QED
      BY Zenon, <2>3, <3>1, <3>2, <3>3, <3>4
         DEF ProcessJob, MarkDone, RecordFailure, Replace, MoveToDLQ, DeleteCheckpoint,
             Unlock, Ack, WorkerPcs
  <2>4. CASE Crash
    BY <2>1, <2>4 DEF Crash, Shapes
  <2>5. CASE worker' = worker
    BY <2>5 DEF Shapes
  <2> QED
    BY ZenonT(60), <2>2, <2>3, <2>4, <2>5
       DEF Next, Handle, Receive, SetNX, Enqueue, ReleaseLock, Dequeue, ClaimSlow, Age,
           LockExpires
<1> QED
  BY <1>1, <1>2, <1>3, <1>4, <1>5, <1>6, <1>7 DEF Shapes

(* A callback that does not reach the queue, time and crashes change       *)
(* nothing the invariant speaks of.                                        *)
LEMMA QuietActions ==
    ASSUME ResumptionInv, Shapes',
           \/ \E c \in Callbacks : \/ \E r \in Requests : Receive(c, r)
                                   \/ SetNX(c) \/ ReleaseLock(c)
           \/ \E r \in Requests : Age(r) \/ LockExpires(r)
           \/ Crash
    PROVE  ResumptionInv'
<1> USE DEF ResumptionInv, storeVars, keyVars, boundVars
<1>1. /\ ckpt' = ckpt /\ issued' = issued /\ ended' = ended /\ done' = done /\ stream' = stream
      /\ faults' = faults \/ faults' = faults + 1
  BY Zenon DEF Receive, SetNX, ReleaseLock, Age, LockExpires, Crash, Works, Fails
<1>2. \A v \in Workers : worker'[v] = worker[v] \/ worker'[v].pc = "idle"
  <2>1. CASE worker' = worker
    BY <2>1
  <2>2. ASSUME NEW w \in Workers, worker' = [worker EXCEPT ![w] = IdleWorker] PROVE <1>2
    BY Zenon, <2>2 DEF Shapes, IdleWorker
  <2> QED
    BY Zenon, <2>1, <2>2 DEF Receive, SetNX, ReleaseLock, Age, LockExpires, Crash
<1>3. \A c \in Callbacks : callback'[c].pc # "new" => ckpt[callback'[c].req].at # "none"
  <2>1. CASE callback' = callback
    BY <2>1 DEF Known
  <2>2. ASSUME NEW c \in Callbacks, NEW pc, callback[c].pc # "new", Goto(c, pc) PROVE <1>3
    BY <2>2 DEF Known, Goto, Shapes, CallbackType
  <2>3. ASSUME NEW c \in Callbacks, NEW r \in Requests, Receive(c, r) PROVE <1>3
    <3>1. PICK pc : callback' = [callback EXCEPT ![c] = [pc |-> pc, req |-> r]]
      BY Zenon, <2>3 DEF Receive
    <3> QED
      BY Zenon, <2>3, <3>1 DEF Known, Receive, Shapes, CallbackType
  <2> QED
    BY Zenon, <2>1, <2>2, <2>3 DEF SetNX, ReleaseLock, Age, LockExpires, Crash
<1> QED
  BY <1>1, <1>2, <1>3, QuietStep

(* A response enters the stream. *)
LEMMA EnqueueInv ==
    ASSUME ResumptionInv, Shapes', NEW c \in Callbacks, Enqueue(c)
    PROVE  ResumptionInv'
<1> USE DEF ResumptionInv, storeVars, keyVars, boundVars
<1>1. \A d \in Callbacks : callback'[d].pc # "new" => ckpt[callback'[d].req].at # "none"
  <2>1. \A d \in Callbacks : callback[d].pc # "new" => ckpt[callback[d].req].at # "none"
    BY Zenon DEF Known
  <2>2. callback[c].pc # "new" /\ (Goto(c, "accepted") \/ Goto(c, "release"))
    BY Zenon DEF Enqueue
  <2>3. /\ \A d \in Callbacks : d # c => callback'[d] = callback[d]
        /\ callback'[c].req = callback[c].req
    BY Zenon, <2>2, GotoFields DEF Shapes
  <2> QED
    BY Zenon, <2>1, <2>2, <2>3
<1>2. /\ ckpt' = ckpt /\ issued' = issued /\ ended' = ended /\ done' = done /\ worker' = worker
      /\ faults' = faults \/ faults' = faults + 1
  BY Zenon DEF Enqueue, Works, Fails
<1>3. CASE stream' = stream
  BY Zenon, <1>1, <1>2, <1>3, QuietStep
<1>4. CASE stream' = Append(stream, [req |-> callback[c].req, state |-> "new"])
  <2> DEFINE m == [req |-> callback[c].req, state |-> "new"]
  <2>1. m.req = callback[c].req /\ m.state = "new" /\ m \in Message
    BY DEF Shapes, CallbackType, Message
  <2>2. ckpt[m.req].at # "none"
    BY Zenon, <2>1 DEF Enqueue, Known
  <2> HIDE DEF m
  <2>3. /\ DOMAIN stream \subseteq DOMAIN stream'
        /\ \A i \in DOMAIN stream : stream'[i] = stream[i]
        /\ \A i \in DOMAIN stream' : i \in DOMAIN stream \/ stream'[i] = m
    BY <1>4, <2>1 DEF Shapes, m
  <2>4. Known'
    BY <1>1, <1>2, <2>2, <2>3 DEF Known
  <2>5. Busy' /\ NestedNew' /\ DeletesEnded' /\ SingleFrontier' /\ NeverLost'
    BY Zenon, <1>2, <2>3 DEF Busy, NestedNew, DeletesEnded, SingleFrontier, NeverLost, Live
  <2>6. AckedSettled'
    <3> SUFFICES ASSUME faults' = 0 PROVE AckedSettled'
      BY Zenon DEF AckedSettled
    <3>1. faults = 0
      BY <1>2 DEF Shapes
    <3>2. \A i \in DOMAIN stream' :
             stream'[i].state = "acked" => ckpt'[stream'[i].req].at # "live"
      <4>1. m.state # "acked"
        BY <2>1
      <4> QED
        BY <1>2, <2>3, <3>1, <4>1 DEF AckedSettled, Live
    <3>3. \A w \in Workers : worker'[w].pc \in {"unlock", "ack"} => ~Live(Req(w))'
      BY Zenon, <1>2, <2>3, <3>1 DEF AckedSettled, Live, Req, Busy
    <3> QED
      BY Zenon, <3>2, <3>3 DEF AckedSettled, Live
  <2>7. DoneEnqueued'
    BY <1>2, <2>3 DEF DoneEnqueued
  <2> QED
    BY <2>4, <2>5, <2>6, <2>7
<1> QED
  BY Zenon, <1>3, <1>4 DEF Enqueue

(* A worker takes a message that is not acknowledged. *)
LEMMA TakeInv ==
    ASSUME ResumptionInv, Shapes', NEW w \in Workers, NEW i \in DOMAIN stream,
           stream[i].state # "acked", Take(w, i)
    PROVE  ResumptionInv'
<1> USE DEF ResumptionInv, storeVars, keyVars, boundVars
<1>1. /\ ckpt' = ckpt /\ issued' = issued /\ ended' = ended /\ done' = done
      /\ callback' = callback /\ faults' = faults
  BY DEF Take, Works
<1>2. /\ DOMAIN stream' = DOMAIN stream
      /\ \A j \in DOMAIN stream : /\ stream'[j].req = stream[j].req
                                  /\ stream'[j].state = "acked" => stream[j].state = "acked"
  <2>1. \A j \in DOMAIN stream : stream[j] \in Message
    BY MessageShape
  <2> QED
    BY <2>1 DEF Take, Message, Shapes
<1>3. /\ \A v \in Workers : v # w => worker'[v] = worker[v]
      /\ worker'[w].pc = "load" /\ worker'[w].msg = i
  BY DEF Take, Shapes, IdleWorker
<1>4. Known' /\ Busy'
  BY <1>1, <1>2, <1>3 DEF Known, Busy
<1>5. NestedNew' /\ DeletesEnded'
  BY <1>1, <1>3 DEF NestedNew, DeletesEnded
<1>6. AckedSettled'
  <2>1. \A v \in Workers : worker'[v].pc \in {"unlock", "ack"} =>
            v # w /\ worker'[v] = worker[v] /\ worker[v].msg \in DOMAIN stream
    BY <1>3 DEF Busy
  <2>2. \A v \in Workers : worker'[v].pc \in {"unlock", "ack"} => Req(v)' = Req(v)
    BY <1>2, <2>1 DEF Req
  <2> QED
    BY Zenon, <1>1, <1>2, <2>1, <2>2 DEF AckedSettled, Live
<1>7. DoneEnqueued' /\ SingleFrontier' /\ NeverLost'
  BY <1>1, <1>2 DEF DoneEnqueued, SingleFrontier, NeverLost, Live
<1> QED
  BY Zenon, <1>4, <1>5, <1>6, <1>7

(* The steps of a worker up to the execution, and the ones that count a    *)
(* failure, dead-letter, delete or unlock.                                 *)
LEMMA MoveActions ==
    ASSUME ResumptionInv, Shapes', NEW w \in Workers,
           \/ LoadCheckpoint(w) \/ MarkDone(w) \/ RecordFailure(w)
           \/ MoveToDLQ(w) \/ DeleteCheckpoint(w) \/ Unlock(w)
    PROVE  ResumptionInv'
<1> USE DEF ResumptionInv, storeVars, keyVars, boundVars
<1>1. /\ worker[w].pc # "idle"
      /\ stream' = stream /\ callback' = callback /\ issued' = issued /\ ended' = ended
      /\ faults' = faults \/ faults' = faults + 1
      /\ done' \subseteq done \cup {Req(w)}
  BY DEF LoadCheckpoint, MarkDone, RecordFailure, MoveToDLQ, DeleteCheckpoint, Unlock,
         Works, Fails
<1>2. Req(w) \in Requests
  BY Zenon, <1>1, BusyRequest
<1>3. /\ \A v \in Workers : v # w => worker'[v] = worker[v]
      /\ worker'[w].pc # "idle" => worker'[w].msg = worker[w].msg
      /\ worker'[w].pc # "replace" /\ worker'[w].pc # "delete"
  <2>0. worker \in [Workers -> WorkerType]
    BY DEF Shapes
  <2>1. CASE LoadCheckpoint(w)
    <3>1. CASE \E pc \in {"mark", "dlq"} :
                 worker' = [worker EXCEPT ![w].pc = pc, ![w].fails = ckpt[Req(w)].fails]
      <4>1. PICK pc \in {"mark", "dlq"} :
                worker' = [worker EXCEPT ![w].pc = pc, ![w].fails = ckpt[Req(w)].fails]
        BY Zenon, <3>1
      <4> QED
        BY <2>0, <4>1 DEF WorkerType
    <3>2. CASE Step(w, "ack")
      BY <2>0, <3>2, StepFields
    <3>3. CASE worker' = [worker EXCEPT ![w] = IdleWorker]
      BY Zenon, <2>0, <3>3, IdleFields
    <3> QED
      BY Zenon, <2>1, <3>1, <3>2, <3>3 DEF LoadCheckpoint
  <2>2. CASE MarkDone(w)
    <3>1. Step(w, "resume") \/ worker' = [worker EXCEPT ![w] = IdleWorker]
      BY Zenon, <2>2 DEF MarkDone
    <3> QED
      BY <2>0, <3>1, StepFields, IdleFields
  <2>3. CASE RecordFailure(w)
    BY Zenon, <2>0, <2>3, IdleFields DEF RecordFailure
  <2>4. CASE MoveToDLQ(w)
    <3>1. Step(w, "ack")
      BY Zenon, <2>4 DEF MoveToDLQ
    <3> QED
      BY <2>0, <3>1, StepFields
  <2>5. CASE DeleteCheckpoint(w)
    <3>1. Step(w, "unlock")
      BY Zenon, <2>5 DEF DeleteCheckpoint
    <3> QED
      BY <2>0, <3>1, StepFields
  <2>6. CASE Unlock(w)
    <3>1. Step(w, "ack")
      BY Zenon, <2>6 DEF Unlock
    <3> QED
      BY <2>0, <3>1, StepFields
  <2> QED
    BY Zenon, <2>1, <2>2, <2>3, <2>4, <2>5, <2>6
<1>4. /\ \A r \in Requests : ckpt'[r].at # ckpt[r].at =>
             /\ r = Req(w) /\ ckpt[r].at = "live"
             /\ ckpt'[r].at = "dead" \/ (ckpt'[r].at = "gone" /\ ended)
      /\ faults' = 0 /\ worker'[w].pc \in {"unlock", "ack"} => ckpt'[Req(w)].at # "live"
  <2>0. worker \in [Workers -> WorkerType] /\ ckpt \in CkptType /\ faults \in Nat
    BY DEF Shapes
  <2>1. CASE LoadCheckpoint(w)
    <3>1. ckpt' = ckpt
      BY <2>1 DEF LoadCheckpoint
    <3>2. CASE Step(w, "ack") /\ ~Live(Req(w))
      BY <3>1, <3>2 DEF Live
    <3>3. CASE \E pc \in {"mark", "dlq"} :
                 worker' = [worker EXCEPT ![w].pc = pc, ![w].fails = ckpt[Req(w)].fails]
      BY <2>0, <3>1, <3>3 DEF WorkerType
    <3>4. CASE worker' = [worker EXCEPT ![w] = IdleWorker]
      BY <2>0, <3>1, <3>4, IdleFields
    <3> QED
      BY Zenon, <2>1, <3>2, <3>3, <3>4 DEF LoadCheckpoint
  <2>2. CASE MarkDone(w) \/ RecordFailure(w)
    <3>1. worker'[w].pc \in {"resume", "idle"}
      BY Zenon, <2>0, <2>2, StepFields, IdleFields DEF MarkDone, RecordFailure
    <3>2. CASE ckpt' = ckpt
      BY <3>1, <3>2
    <3>3. CASE ckpt' = [ckpt EXCEPT ![Req(w)].fails = IF Live(Req(w)) THEN @ + 1 ELSE @]
      BY <1>2, <2>0, <3>1, <3>3 DEF CkptType
    <3> QED
      BY Zenon, <2>2, <3>2, <3>3 DEF MarkDone, RecordFailure
  <2>3. CASE MoveToDLQ(w)
    <3>1. CASE ckpt' = [ckpt EXCEPT ![Req(w)].at = IF Live(Req(w)) THEN "dead" ELSE @]
      BY <1>2, <2>0, <3>1 DEF CkptType, Live
    <3>2. CASE ckpt' = ckpt /\ Fails
      BY <2>0, <3>2 DEF Fails
    <3> QED
      BY Zenon, <2>3, <3>1, <3>2 DEF MoveToDLQ
  <2>4. CASE DeleteCheckpoint(w)
    <3>0. ended
      BY Zenon, <2>4 DEF DeleteCheckpoint, DeletesEnded
    <3>1. CASE ckpt' = [ckpt EXCEPT ![Req(w)].at = IF Live(Req(w)) THEN "gone" ELSE @]
      BY <1>2, <2>0, <3>0, <3>1 DEF CkptType, Live
    <3>2. CASE ckpt' = ckpt /\ Fails
      BY <2>0, <3>2 DEF Fails
    <3> QED
      BY Zenon, <2>4, <3>1, <3>2 DEF DeleteCheckpoint
  <2>5. CASE Unlock(w)
    <3>1. ckpt' = ckpt /\ worker[w].pc = "unlock"
      BY <2>5 DEF Unlock
    <3>2. faults' = 0 => faults = 0
      BY <1>1 DEF Shapes
    <3> QED
      BY <3>1, <3>2 DEF AckedSettled, Live
  <2> QED
    BY Zenon, <2>1, <2>2, <2>3, <2>4, <2>5
<1> QED
  BY Zenon, <1>1, <1>3, <1>4, WorkerMove

(* The graph is executed: it fails, pauses at a new request, or ends.      *)
LEMMA ResumeInv ==
    ASSUME ResumptionInv, Shapes', NEW w \in Workers, Resume(w)
    PROVE  ResumptionInv'
<1> USE DEF ResumptionInv, storeVars, keyVars, boundVars
<1>1. /\ worker[w].pc = "resume"
      /\ ckpt' = ckpt /\ done' = done /\ stream' = stream /\ callback' = callback
      /\ faults' = faults
  BY DEF Resume, Works
<1>2. /\ \A v \in Workers : v # w => worker'[v] = worker[v]
      /\ worker'[w].msg = worker[w].msg
      /\ worker'[w].pc \in {"record", "dlq", "replace", "delete"}
  BY DEF Resume, Step, Shapes, WorkerType
<1>3. \/ worker'[w].pc \in {"record", "dlq"} /\ issued' = issued /\ ended' = ended
      \/ /\ worker'[w].pc = "replace" /\ worker'[w].next = issued + 1
         /\ issued' = issued + 1 /\ issued + 1 \in Requests /\ ended' = ended
      \/ worker'[w].pc = "delete" /\ issued' = issued /\ ended' = TRUE
  <2>1. issued < MaxRequests => issued + 1 \in Requests
    BY ResumptionAssumption DEF Shapes, Requests, ResumptionAssumption
  <2> QED
    BY <2>1 DEF Resume, Step, Shapes, WorkerType
<1>4. issued \in Int /\ \A r \in Requests : r \in Int
  BY DEF Shapes, Requests
<1>5. Known'
  BY <1>1, <1>3, <1>4 DEF Known
<1>6. Busy' /\ DeletesEnded' /\ DoneEnqueued'
  BY <1>1, <1>2, <1>3 DEF Busy, DeletesEnded, DoneEnqueued
<1>7. NestedNew'
  <2>1. \A v \in Workers : worker[v].pc = "replace" => worker[v].next # issued + 1
    BY <1>4 DEF NestedNew
  <2>2. issued + 1 \in Requests => ckpt[issued + 1].at = "none"
    BY <1>4 DEF Known
  <2> QED
    BY <1>1, <1>2, <1>3, <1>4, <2>1, <2>2 DEF NestedNew
<1>8. AckedSettled'
  BY Zenon, <1>1, <1>2 DEF AckedSettled, Live, Req
<1>9. SingleFrontier' /\ NeverLost'
  BY <1>1, <1>3 DEF SingleFrontier, NeverLost, Live
<1> QED
  BY <1>5, <1>6, <1>7, <1>8, <1>9

(* A nested pause takes the place of the checkpoint it comes from, or, if  *)
(* that is gone, is dropped.                                               *)
LEMMA ReplaceInv ==
    ASSUME ResumptionInv, Shapes', NEW w \in Workers, Replace(w)
    PROVE  ResumptionInv'
<1> USE DEF ResumptionInv, storeVars, keyVars, boundVars
<1>1. /\ worker[w].pc = "replace"
      /\ stream' = stream /\ callback' = callback /\ issued' = issued /\ ended' = ended
      /\ done' = done
      /\ faults' = faults \/ faults' = faults + 1
  BY DEF Replace, Works, Fails
<1>2. Req(w) \in Requests /\ ckpt[Req(w)].at # "none"
  BY <1>1, BusyRequest
<1>3. /\ \A v \in Workers : v # w => worker'[v] = worker[v]
      /\ worker'[w].msg = worker[w].msg
      /\ worker'[w].pc \in {"ack", "dlq"}
  BY DEF Replace, Step, Shapes, WorkerType
<1>4. CASE ckpt' = ckpt /\ worker'[w].pc = "dlq"
  BY <1>1, <1>3, <1>4, WorkerMove
<1>5. CASE /\ Live(Req(w)) /\ worker'[w].pc = "ack"
           /\ ckpt' = [ckpt EXCEPT ![Req(w)].at = "gone", ![worker[w].next].at = "live"]
  <2> DEFINE n == worker[w].next
  <2>1. n \in Requests /\ n <= issued /\ ckpt[n].at = "none" /\ n # Req(w)
    BY <1>1, <1>2 DEF NestedNew
  <2>2. /\ ckpt'[n].at = "live" /\ ckpt'[Req(w)].at = "gone"
        /\ \A r \in Requests : r # n /\ r # Req(w) => ckpt'[r].at = ckpt[r].at
    BY <1>2, <1>5, <2>1 DEF Shapes, CkptType
  <2>3. \A v \in Workers : v # w /\ worker[v].pc = "replace" => worker[v].next # n
    BY <1>1 DEF NestedNew
  <2> HIDE DEF n
  <2>4. \A r \in Requests : /\ ckpt[r].at # "none" => ckpt'[r].at # "none"
                            /\ ckpt'[r].at = "live" => r = n
                            /\ ckpt[r].at # "none" => ckpt'[r].at # "live"
    BY Zenon, <1>2, <1>5, <2>1, <2>2 DEF SingleFrontier, Live
  <2>5. \A i \in DOMAIN stream : stream[i].req \in Requests /\ ckpt[stream[i].req].at # "none"
    BY Zenon, MessageShape DEF Known
  <2>6. Known'
    <3>1. \A r \in Requests : ckpt'[r].at # "none" => r <= issued
      BY <1>2, <2>1, <2>2 DEF Known
    <3>2. \A c \in Callbacks : callback[c].req \in Requests
      BY DEF Shapes, CallbackType
    <3> QED
      BY Zenon, <1>1, <2>4, <2>5, <3>1, <3>2 DEF Known
  <2>7. Busy' /\ DeletesEnded' /\ DoneEnqueued'
    BY <1>1, <1>3, <1>5 DEF Busy, DeletesEnded, DoneEnqueued
  <2>8. NestedNew'
    <3>1. \A v \in Workers : worker'[v].pc = "replace" => v # w /\ worker'[v] = worker[v]
      BY <1>3
    <3>2. \A v \in Workers : v # w /\ worker[v].pc = "replace" =>
              /\ worker[v].next \in Requests /\ ckpt[worker[v].next].at = "none"
              /\ worker[v].next # n /\ worker[v].next # Req(w)
      BY Zenon, <1>2, <2>3 DEF NestedNew
    <3>3. \A v \in Workers : v # w /\ worker[v].pc = "replace" => ckpt'[worker[v].next].at = "none"
      BY <2>2, <3>2
    <3> QED
      <4>1. \A v \in Workers : worker'[v].pc = "replace" =>
                /\ worker'[v].next \in Requests /\ worker'[v].next <= issued
                /\ ckpt'[worker'[v].next].at = "none"
        BY Zenon, <3>1, <3>3 DEF NestedNew
      <4>2. \A u, v \in Workers :
                worker'[u].pc = "replace" /\ worker'[v].pc = "replace" /\ u # v
                    => worker'[u].next # worker'[v].next
        <5>1. \A u, v \in Workers :
                  worker[u].pc = "replace" /\ worker[v].pc = "replace" /\ u # v
                      => worker[u].next # worker[v].next
          BY Zenon DEF NestedNew
        <5> QED
          BY Zenon, <3>1, <5>1
      <4> QED
        BY Zenon, <1>1, <4>1, <4>2 DEF NestedNew
  <2>9. AckedSettled'
    <3>1. \A i \in DOMAIN stream : ckpt'[stream[i].req].at # "live"
      BY Zenon, <2>4, <2>5
    <3>2. \A v \in Workers : worker'[v].pc \in {"unlock", "ack"} => worker'[v].msg \in DOMAIN stream
      BY <1>1, <2>7 DEF Busy
    <3> QED
      BY Zenon, <1>1, <3>1, <3>2 DEF AckedSettled, Live, Req
  <2>10. SingleFrontier' /\ NeverLost'
    BY <2>1, <2>2, <2>4 DEF SingleFrontier, NeverLost, Live
  <2> QED
    BY <2>6, <2>7, <2>8, <2>9, <2>10
<1> QED
  BY <1>4, <1>5 DEF Replace, Step, Shapes, WorkerType

(* A message is acknowledged. *)
LEMMA AckInv ==
    ASSUME ResumptionInv, Shapes', NEW w \in Workers, Ack(w)
    PROVE  ResumptionInv'
<1> USE DEF ResumptionInv, storeVars, keyVars, boundVars
<1>1. /\ worker[w].pc = "ack"
      /\ ckpt' = ckpt /\ callback' = callback /\ issued' = issued /\ ended' = ended
      /\ done' = done
      /\ faults' = faults \/ faults' = faults + 1
  BY DEF Ack, Works, Fails
<1>2. /\ \A v \in Workers : v # w => worker'[v] = worker[v]
      /\ worker'[w].pc = "idle"
  BY DEF Ack, Shapes, IdleWorker
<1>3. CASE stream' = stream
  BY Zenon, <1>1, <1>2, <1>3, WorkerMove
<1>4. CASE stream' = [stream EXCEPT ![worker[w].msg].state = "acked"]
  <2>1. worker[w].msg \in DOMAIN stream
    BY Zenon, <1>1 DEF Busy
  <2>2. /\ DOMAIN stream' = DOMAIN stream
        /\ \A j \in DOMAIN stream : /\ stream'[j].req = stream[j].req
                                    /\ j # worker[w].msg => stream'[j] = stream[j]
    <3>1. \A j \in DOMAIN stream : stream[j] \in Message
      BY MessageShape
    <3> QED
      BY <1>4, <2>1, <3>1 DEF Message, Shapes
  <2>3. Known' /\ Busy'
    BY Zenon, <1>1, <1>2, <2>2 DEF Known, Busy
  <2>4. NestedNew' /\ DeletesEnded'
    BY ZenonT(60), <1>1, <1>2 DEF NestedNew, DeletesEnded
  <2>5. AckedSettled'
    <3> SUFFICES ASSUME faults' = 0 PROVE AckedSettled'
      BY Zenon DEF AckedSettled
    <3>1. faults = 0
      BY <1>1 DEF Shapes
    <3>2. ~Live(stream[worker[w].msg].req)
      BY Zenon, <1>1, <3>1 DEF AckedSettled, Req
    <3> QED
      <4>1. \A v \in Workers : worker'[v].pc \in {"unlock", "ack"} =>
                v # w /\ worker'[v] = worker[v] /\ worker[v].msg \in DOMAIN stream
        BY <1>2 DEF Busy
      <4>2. \A v \in Workers : worker'[v].pc \in {"unlock", "ack"} => Req(v)' = Req(v)
        BY <2>2, <4>1 DEF Req
      <4>3. \A j \in DOMAIN stream : stream'[j].state = "acked" => ~Live(stream[j].req)
        BY Zenon, <2>2, <3>1, <3>2 DEF AckedSettled
      <4> QED
        BY Zenon, <1>1, <2>2, <3>1, <4>1, <4>2, <4>3 DEF AckedSettled, Live
  <2>6. DoneEnqueued' /\ SingleFrontier' /\ NeverLost'
    BY <1>1, <2>2 DEF DoneEnqueued, SingleFrontier, NeverLost, Live
  <2> QED
    BY <2>3, <2>4, <2>5, <2>6
<1> QED
  BY <1>3, <1>4 DEF Ack

(* Every step keeps the invariant. *)
LEMMA NextInv ==
    ASSUME ResumptionInv, [Next]_vars
    PROVE  ResumptionInv'
<1>1. CASE UNCHANGED vars
  BY Zenon, <1>1 DEF ResumptionInv, vars, Shapes, Known, Busy, NestedNew, DeletesEnded, AckedSettled,
              DoneEnqueued, SingleFrontier, NeverLost, Live, Req
<1>2. CASE Next
  <2>1. Shapes'
    BY <1>2, ShapesStep
  <2>2. ASSUME NEW c \in Callbacks, Enqueue(c) PROVE ResumptionInv'
    BY <2>1, <2>2, EnqueueInv
  <2>3. ASSUME NEW w \in Workers, Dequeue(w) \/ ClaimSlow(w) PROVE ResumptionInv'
    <3>1. PICK i \in DOMAIN stream : stream[i].state # "acked" /\ Take(w, i)
      BY <2>3 DEF Dequeue, ClaimSlow
    <3> QED
      BY <2>1, <3>1, TakeInv
  <2>4. ASSUME NEW w \in Workers, ProcessJob(w) PROVE ResumptionInv'
    BY <2>1, <2>4, MoveActions, ResumeInv, ReplaceInv, AckInv DEF ProcessJob
  <2> QED
    BY <1>2, <2>1, <2>2, <2>3, <2>4, QuietActions DEF Next, Handle
<1> QED
  BY <1>1, <1>2

(* ResumptionInv holds throughout. *)
LEMMA InvHolds == Spec => []ResumptionInv
BY InitInv, NextInv, PTL DEF Spec

(* A workflow never waits at two requests at once: the checkpoint of a     *)
(* nested pause replaces the one it comes from, also when two workers      *)
(* resume the same request.                                                *)
THEOREM OneFrontier == Spec => []SingleFrontier
<1>1. ResumptionInv => SingleFrontier
  BY DEF ResumptionInv
<1> QED
  BY InvHolds, <1>1, PTL

(* A paused workflow that has not been executed to its end is in the       *)
(* checkpoint table or in the dead-letter table, whatever call of          *)
(* processJob fails and wherever a worker crashes.                         *)
THEOREM WorkflowNeverLost == Spec => []NeverLost
<1>1. ResumptionInv => NeverLost
  BY DEF ResumptionInv
<1> QED
  BY InvHolds, <1>1, PTL

(* While no store write has failed, a request whose callback-done key      *)
(* turns callbacks away and whose checkpoint still waits has a message     *)
(* that is not acknowledged.                                               *)
THEOREM SuppressedHasMessage == Spec => []DoneHasMessage
<1>1. ResumptionInv => DoneHasMessage
  BY DEF ResumptionInv, DoneHasMessage, DoneEnqueued, AckedSettled
<1> QED
  BY InvHolds, <1>1, PTL
-----------------------------------------------------------------------------
(* A request is resumed once while nothing goes wrong. *)

(* No call has failed, no message was taken over from a slow worker, no    *)
(* process died and no processing lock ran out.                            *)
Undisturbed == faults = 0 /\ slow = 0 /\ crashes = 0 /\ expiries = 0

Counted ==
    /\ slow \in Nat /\ crashes \in Nat /\ expiries \in Nat
    /\ resumed \in [Requests -> Nat]

(* A message that is worked on is pending and has one worker. *)
OneHolder ==
    \A w \in Workers : worker[w].pc # "idle" =>
        /\ stream[worker[w].msg].state = "pending"
        /\ \A v \in Workers : v # w /\ worker[v].pc # "idle" => worker[v].msg # worker[w].msg

(* Past the load and up to its outcome a worker's checkpoint stays. *)
LiveWork ==
    \A w \in Workers :
        worker[w].pc \in {"mark", "resume", "record", "dlq", "replace", "delete"}
            => Live(Req(w))

Enqueues(c, r) == callback[c].pc = "enqueue" /\ callback[c].req = r
Queued(i, r) == stream[i].req = r

(* A request that waits has at most one response, under way to the stream  *)
(* or in it, and its processing lock is set as long as it has one.         *)
OneResponse ==
    \A r \in Requests : Live(r) =>
        /\ \A i, j \in DOMAIN stream : Queued(i, r) /\ Queued(j, r) => i = j
        /\ \A c, d \in Callbacks : Enqueues(c, r) /\ Enqueues(d, r) => c = d
        /\ \A c \in Callbacks, i \in DOMAIN stream : ~(Enqueues(c, r) /\ Queued(i, r))
        /\ \A c \in Callbacks : Enqueues(c, r) => r \in lock
        /\ \A i \in DOMAIN stream : Queued(i, r) => r \in lock

NoRelease == \A c \in Callbacks : callback[c].pc # "release"

(* A request that waits and was resumed is about to be replaced or deleted. *)
ResumedLeaves ==
    \A r \in Requests :
        /\ resumed[r] <= 1
        /\ ckpt[r].at = "none" => resumed[r] = 0
        /\ Live(r) /\ resumed[r] # 0 =>
               \E w \in Workers : worker[w].pc \in {"replace", "delete"} /\ Req(w) = r

Calm == OneHolder /\ LiveWork /\ OneResponse /\ NoRelease /\ ResumedLeaves

OnceInv == Counted /\ (Undisturbed => Calm)

(* The initial state satisfies it. *)
LEMMA OnceInit == Init => OnceInv
<1> SUFFICES ASSUME Init PROVE OnceInv
  OBVIOUS
<1>1. Counted
  BY DEF Init, Counted
<1>2. OneHolder /\ LiveWork /\ OneResponse /\ NoRelease
  BY DEF Init, OneHolder, LiveWork, OneResponse, NoRelease, Enqueues, IdleWorker
<1>3. ResumedLeaves
  BY DEF Init, ResumedLeaves
<1> QED
  BY <1>1, <1>2, <1>3 DEF OnceInv, Calm

(* The counters and the history keep their types. *)
LEMMA CountedStep ==
    ASSUME ResumptionInv, Counted, Next
    PROVE  Counted'
<1> USE DEF ResumptionInv, storeVars, keyVars, boundVars
<1>1. slow' \in Nat /\ crashes' \in Nat /\ expiries' \in Nat
  <2>1. /\ slow' = slow \/ slow' = slow + 1
        /\ crashes' = crashes \/ crashes' = crashes + 1
        /\ expiries' = expiries \/ expiries' = expiries + 1
    BY ZenonT(60) DEF Next, Handle, Receive, SetNX, Enqueue, ReleaseLock, Dequeue, ClaimSlow, Take,
           ProcessJob, LoadCheckpoint, MarkDone, Resume, RecordFailure, Replace, MoveToDLQ,
           DeleteCheckpoint, Unlock, Ack, Age, LockExpires, Crash
  <2> QED
    BY <2>1 DEF Counted
<1>2. resumed' \in [Requests -> Nat]
  <2>1. CASE resumed' = resumed
    BY <2>1 DEF Counted
  <2>2. ASSUME NEW w \in Workers, resumed' = [resumed EXCEPT ![Req(w)] = @ + 1]
        PROVE  resumed' \in [Requests -> Nat]
    <3>1. \A r \in Requests : resumed'[r] = resumed[r] \/ resumed'[r] = resumed[r] + 1
      BY <2>2 DEF Counted
    <3>2. resumed' = [r \in Requests |-> resumed'[r]]
      BY Zenon, <2>2 DEF Counted
    <3> QED
      BY <3>1, <3>2 DEF Counted
  <2> QED
    BY ZenonT(60), <2>1, <2>2
       DEF Next, Handle, Receive, SetNX, Enqueue, ReleaseLock, Dequeue, ClaimSlow, Take,
           ProcessJob, LoadCheckpoint, MarkDone, Resume, RecordFailure, Replace, MoveToDLQ,
           DeleteCheckpoint, Unlock, Ack, Age, LockExpires, Crash
<1> QED
  BY <1>1, <1>2 DEF Counted

(* Nobody else works on a request that waits. *)
LEMMA Alone ==
    ASSUME ResumptionInv, Calm, NEW v \in Workers, NEW w \in Workers, v # w,
           worker[v].pc # "idle", worker[w].pc # "idle", Live(Req(w))
    PROVE  Req(v) # Req(w)
<1>1. worker[v].msg \in DOMAIN stream /\ worker[w].msg \in DOMAIN stream
  BY Zenon DEF ResumptionInv, Busy
<1>2. worker[v].msg # worker[w].msg
  BY Zenon DEF Calm, OneHolder
<1>3. Req(w) \in Requests
  BY BusyRequest DEF ResumptionInv
<1> QED
  BY Zenon, <1>1, <1>2, <1>3 DEF Calm, OneResponse, Queued, Req

(* The first pass a counter is raised by makes it one.                     *)
LEMMA FirstCount ==
    ASSUME NEW f \in [Requests -> Nat], NEW r \in Requests, f[r] = 0
    PROVE  [f EXCEPT ![r] = @ + 1][r] = 1
OBVIOUS

(* A message keeps its one worker when workers only go on or become idle,  *)
(* and gets one when nobody worked on it.                                  *)
LEMMA HoldersKept ==
    ASSUME OneHolder,
           \A v \in Workers : worker'[v].pc # "idle" =>
               /\ worker[v].pc # "idle" /\ worker'[v].msg = worker[v].msg
               /\ stream'[worker[v].msg] = stream[worker[v].msg]
    PROVE  OneHolder'
BY DEF OneHolder

LEMMA HolderComes ==
    ASSUME OneHolder, NEW w \in Workers, stream'[worker'[w].msg].state = "pending",
           \A v \in Workers : v # w => worker'[v] = worker[v],
           \A v \in Workers : v # w /\ worker[v].pc # "idle" =>
               /\ worker[v].msg # worker'[w].msg
               /\ stream'[worker[v].msg] = stream[worker[v].msg]
    PROVE  OneHolder'
<1> SUFFICES ASSUME NEW u \in Workers, worker'[u].pc # "idle"
             PROVE  /\ stream'[worker'[u].msg].state = "pending"
                    /\ \A v \in Workers : v # u /\ worker'[v].pc # "idle"
                                          => worker'[v].msg # worker'[u].msg
  BY DEF OneHolder
<1>1. CASE u = w
  BY <1>1
<1>2. CASE u # w
  BY <1>2 DEF OneHolder
<1> QED
  BY <1>1, <1>2

(* A step that changes no message, moves no checkpoint and brings no       *)
(* response on its way keeps the calm.                                     *)
LEMMA CalmKept ==
    ASSUME ResumptionInv, Calm, stream' = stream, resumed' = resumed,
           \A r \in Requests : ckpt'[r].at = ckpt[r].at,
           \A r \in Requests : Live(r) /\ r \in lock => r \in lock',
           \A c \in Callbacks : \/ callback'[c] = callback[c]
                                \/ callback'[c].pc \notin {"enqueue", "release"},
           \A v \in Workers :
               \/ worker'[v] = worker[v]
               \/ /\ worker[v].pc \notin {"replace", "delete"}
                  /\ worker'[v].pc # "idle" =>
                         worker[v].pc # "idle" /\ worker'[v].msg = worker[v].msg
                  /\ worker'[v].pc \in {"mark", "resume", "record", "dlq", "replace", "delete"}
                         => Live(Req(v))
    PROVE  Calm'
<1> USE DEF Calm
<1>1. \A v \in Workers : worker'[v].pc # "idle" =>
          /\ worker[v].pc # "idle" /\ worker'[v].msg = worker[v].msg
          /\ Req(v)' = Req(v) /\ Req(v) \in Requests
  BY Zenon, BusyRequest DEF Req, ResumptionInv
<1>2. \A r \in Requests : Live(r)' <=> Live(r)
  BY Zenon DEF Live
<1>3. OneHolder'
  <2>1. \A v \in Workers : worker'[v].pc # "idle" =>
            /\ worker[v].pc # "idle" /\ worker'[v].msg = worker[v].msg
            /\ stream'[worker[v].msg] = stream[worker[v].msg]
    BY Zenon, <1>1
  <2> QED
    BY Zenon, <2>1, HoldersKept
<1>4. LiveWork'
  BY Zenon, <1>1, <1>2 DEF LiveWork
<1>5. NoRelease'
  BY Zenon DEF NoRelease
<1>6. OneResponse'
  <2>1. \A c \in Callbacks, r \in Requests : Enqueues(c, r)' => Enqueues(c, r)
    BY Zenon DEF Enqueues
  <2>2. \A i \in DOMAIN stream, r \in Requests : Queued(i, r)' <=> Queued(i, r)
    BY Zenon DEF Queued
  <2> QED
    BY Zenon, <1>2, <2>1, <2>2 DEF OneResponse
<1>7. ResumedLeaves'
  <2>1. \A w \in Workers : worker[w].pc \in {"replace", "delete"} => worker'[w] = worker[w]
    OBVIOUS
  <2>2. \A w \in Workers : worker[w].pc \in {"replace", "delete"} =>
            worker'[w].pc \in {"replace", "delete"} /\ Req(w)' = Req(w)
    BY Zenon, <2>1 DEF Req
  <2> QED
    BY Zenon, <1>2, <2>2 DEF ResumedLeaves
<1> QED
  BY Zenon, <1>3, <1>4, <1>5, <1>6, <1>7

(* The lock of a request that waits is set by the first of its callbacks.  *)
LEMMA SetNXCalm ==
    ASSUME ResumptionInv, Calm, NEW c \in Callbacks, SetNX(c), faults' = 0
    PROVE  Calm'
<1> USE DEF storeVars, keyVars, boundVars
<1> DEFINE r == callback[c].req
<1>0. faults \in Nat /\ callback \in CallbackType /\ r \in Requests
  BY DEF ResumptionInv, Shapes, CallbackType
<1>1. /\ lock' = lock \cup {r} /\ stream' = stream /\ resumed' = resumed /\ ckpt' = ckpt
      /\ worker' = worker
      /\ callback' = [callback EXCEPT ![c].pc = IF r \in lock THEN "accepted" ELSE "enqueue"]
  BY <1>0 DEF SetNX, Fails, Works, Goto
<1> HIDE DEF r
<1>2. /\ \A d \in Callbacks : d # c => callback'[d] = callback[d]
      /\ callback'[c].req = r
      /\ callback'[c].pc = IF r \in lock THEN "accepted" ELSE "enqueue"
  BY <1>0, <1>1 DEF CallbackType, r
<1>3. CASE r \in lock
  BY <1>1, <1>2, <1>3, CalmKept
<1>4. CASE r \notin lock
  <2> USE DEF Calm
  <2>1. OneHolder' /\ LiveWork' /\ ResumedLeaves'
    BY <1>1 DEF OneHolder, LiveWork, ResumedLeaves, Live, Req
  <2>2. NoRelease'
    BY <1>2, <1>4 DEF NoRelease
  <2>3. \A q \in Requests : Live(q)' <=> Live(q)
    BY <1>1 DEF Live
  <2>4. \A i \in DOMAIN stream, q \in Requests : Queued(i, q)' <=> Queued(i, q)
    BY <1>1 DEF Queued
  <2>5. \A d \in Callbacks, q \in Requests :
            Enqueues(d, q)' <=> IF d = c THEN q = r ELSE Enqueues(d, q)
    <3>1. ~\E q \in Requests : Enqueues(c, q)
      BY Zenon DEF SetNX, Enqueues
    <3>2. \A q \in Requests : Enqueues(c, q)' <=> q = r
      BY <1>2, <1>4 DEF Enqueues
    <3>3. \A d \in Callbacks, q \in Requests : d # c => (Enqueues(d, q)' <=> Enqueues(d, q))
      BY <1>2 DEF Enqueues
    <3> QED
      BY <3>1, <3>2, <3>3
  <2>6. Live(r) => /\ \A d \in Callbacks : ~Enqueues(d, r)
                   /\ \A i \in DOMAIN stream : ~Queued(i, r)
    BY <1>0, <1>4 DEF OneResponse
  <2>7. OneResponse'
    BY <1>0, <1>1, <2>3, <2>4, <2>5, <2>6 DEF OneResponse
  <2> QED
    BY <2>1, <2>2, <2>7
<1> QED
  BY <1>3, <1>4

(* The response under way becomes the message. *)
LEMMA EnqueueCalm ==
    ASSUME ResumptionInv, Calm, NEW c \in Callbacks, Enqueue(c), faults' = 0
    PROVE  Calm'
<1> USE DEF storeVars, keyVars, boundVars, Calm
<1> DEFINE m == [req |-> callback[c].req, state |-> "new"]
           n == Len(stream) + 1
<1>0. faults \in Nat /\ callback \in CallbackType /\ m.req \in Requests /\ stream \in Seq(Message)
  BY DEF ResumptionInv, Shapes, CallbackType
<1>1. /\ lock' = lock /\ stream' = Append(stream, m) /\ resumed' = resumed /\ ckpt' = ckpt
      /\ worker' = worker /\ callback' = [callback EXCEPT ![c].pc = "accepted"]
      /\ callback[c].pc = "enqueue"
  BY <1>0 DEF Enqueue, Fails, Works, Goto
<1>m. m \in Message
  BY <1>0 DEF Message
<1>r. m.req = callback[c].req
  OBVIOUS
<1> HIDE DEF m
<1>2. /\ \A d \in Callbacks : d # c => callback'[d] = callback[d]
      /\ callback'[c].pc = "accepted"
  BY <1>0, <1>1 DEF CallbackType
<1>3. /\ DOMAIN stream' = DOMAIN stream \cup {n} /\ n \notin DOMAIN stream
      /\ \A i \in DOMAIN stream : stream'[i] = stream[i]
      /\ stream'[n] = m
  BY <1>0, <1>1, <1>m
<1> HIDE DEF n
<1>4. \A w \in Workers : worker[w].pc # "idle" => worker[w].msg \in DOMAIN stream
  BY DEF ResumptionInv, Busy
<1>5. OneHolder' /\ LiveWork' /\ ResumedLeaves'
  <2>1. \A w \in Workers : worker[w].pc # "idle" =>
            stream'[worker[w].msg] = stream[worker[w].msg] /\ Req(w)' = Req(w)
    BY <1>1, <1>3, <1>4 DEF Req
  <2>2. OneHolder'
    BY Zenon, <1>1, <2>1 DEF OneHolder
  <2>3. LiveWork' /\ ResumedLeaves'
    BY <1>1, <2>1 DEF LiveWork, ResumedLeaves, Live
  <2> QED
    BY <2>2, <2>3
<1>6. NoRelease'
  BY <1>2 DEF NoRelease
<1>7. OneResponse'
  <2>1. \A d \in Callbacks, q \in Requests : Enqueues(d, q)' <=> Enqueues(d, q) /\ d # c
    BY <1>2 DEF Enqueues
  <2>2. /\ \A i \in DOMAIN stream, q \in Requests : Queued(i, q)' <=> Queued(i, q)
        /\ \A q \in Requests : stream'[n].req = q <=> q = m.req
    BY <1>3 DEF Queued
  <2>3. Enqueues(c, m.req)
    BY <1>1, <1>r DEF Enqueues
  <2>4. \A q \in Requests : Live(q)' <=> Live(q)
    BY <1>1 DEF Live
  <2> SUFFICES ASSUME NEW q \in Requests, Live(q)
               PROVE  /\ \A i, j \in DOMAIN stream' : Queued(i, q)' /\ Queued(j, q)' => i = j
                      /\ \A d, e \in Callbacks : Enqueues(d, q)' /\ Enqueues(e, q)' => d = e
                      /\ \A d \in Callbacks, i \in DOMAIN stream' :
                             ~(Enqueues(d, q)' /\ Queued(i, q)')
                      /\ \A d \in Callbacks : Enqueues(d, q)' => q \in lock'
                      /\ \A i \in DOMAIN stream' : Queued(i, q)' => q \in lock'
    BY Zenon, <2>4 DEF OneResponse
  <2>5. \A i \in DOMAIN stream' : Queued(i, q)' =>
            \/ i \in DOMAIN stream /\ Queued(i, q)
            \/ i = n /\ q = m.req
    BY Zenon, <1>3, <2>2 DEF Queued
  <2>6. q = m.req => /\ \A i \in DOMAIN stream : ~Queued(i, q)
                     /\ \A d \in Callbacks : Enqueues(d, q) => d = c
                     /\ q \in lock
    BY <1>0, <2>3 DEF OneResponse
  <2> QED
    BY <1>1, <2>1, <2>5, <2>6 DEF OneResponse
<1> QED
  BY <1>5, <1>6, <1>7

(* What messages ask for, and who sends them, is what OneResponse reads. *)
LEMMA ResponseKept ==
    ASSUME OneResponse, DOMAIN stream' = DOMAIN stream,
           \A j \in DOMAIN stream : stream'[j].req = stream[j].req,
           callback' = callback, lock' = lock, ckpt' = ckpt
    PROVE  OneResponse'
<1>1. \A r \in Requests : Live(r)' <=> Live(r)
  BY DEF Live
<1>2. \A c \in Callbacks, r \in Requests : Enqueues(c, r)' <=> Enqueues(c, r)
  BY DEF Enqueues
<1>3. \A j \in DOMAIN stream, r \in Requests : Queued(j, r)' <=> Queued(j, r)
  BY DEF Queued
<1> QED
  BY Zenon, <1>1, <1>2, <1>3 DEF OneResponse

(* A message nobody works on gets a worker. *)
LEMMA DequeueCalm ==
    ASSUME ResumptionInv, Calm, NEW w \in Workers, Dequeue(w)
    PROVE  Calm'
<1> USE DEF storeVars, keyVars, boundVars, Calm
<1>0. PICK i \in DOMAIN stream :
        /\ \/ stream[i].state = "pending" /\ ~Attended(i)
           \/ stream[i].state = "new"
        /\ Take(w, i)
  BY DEF Dequeue
<1>1. /\ lock' = lock /\ resumed' = resumed /\ ckpt' = ckpt /\ callback' = callback
      /\ worker[w].pc = "idle"
  BY <1>0 DEF Take
<1>2. /\ \A v \in Workers : v # w => worker'[v] = worker[v]
      /\ worker'[w].pc = "load" /\ worker'[w].msg = i
  BY <1>0 DEF Take, ResumptionInv, Shapes, IdleWorker
<1>3. /\ DOMAIN stream' = DOMAIN stream
      /\ \A j \in DOMAIN stream : stream'[j].req = stream[j].req
      /\ \A j \in DOMAIN stream : j # i => stream'[j] = stream[j]
      /\ stream'[i].state = "pending"
  <2>1. \A j \in DOMAIN stream : stream[j] \in Message
    BY MessageShape DEF ResumptionInv
  <2> QED
    BY <1>0, <2>1 DEF Take, Message, ResumptionInv, Shapes
<1>4. \A v \in Workers : worker[v].pc # "idle" =>
          v # w /\ worker[v].msg \in DOMAIN stream /\ worker[v].msg # i
  BY Zenon, <1>0, <1>1 DEF ResumptionInv, Busy, Attended, OneHolder
<1>5. \A v \in Workers : worker[v].pc # "idle" => Req(v)' = Req(v)
  BY Zenon, <1>2, <1>3, <1>4 DEF Req
<1>6. OneHolder'
  <2>1. \A v \in Workers : v # w /\ worker[v].pc # "idle" =>
            /\ worker[v].msg # worker'[w].msg
            /\ stream'[worker[v].msg] = stream[worker[v].msg]
    BY Zenon, <1>2, <1>3, <1>4
  <2>2. stream'[worker'[w].msg].state = "pending"
    BY Zenon, <1>2, <1>3
  <2> QED
    BY Zenon, <1>2, <2>1, <2>2, HolderComes
<1>7. LiveWork'
  <2>1. \A v \in Workers : worker'[v].pc \in {"mark", "resume", "record", "dlq", "replace", "delete"}
            => v # w /\ worker'[v] = worker[v]
    BY <1>2
  <2> QED
    BY Zenon, <1>1, <1>5, <2>1 DEF LiveWork, Live
<1>8. ResumedLeaves'
  BY Zenon, <1>1, <1>2, <1>4, <1>5 DEF ResumedLeaves, Live
<1>9. NoRelease' /\ OneResponse'
  BY <1>1, <1>3, ResponseKept DEF NoRelease
<1> QED
  BY <1>6, <1>7, <1>8, <1>9

(* A worker's request is executed for the first time: no other worker is   *)
(* at it, and it was not resumed before.                                   *)
LEMMA ResumeCalm ==
    ASSUME ResumptionInv, Counted, Calm, NEW w \in Workers, Resume(w)
    PROVE  Calm'
<1> USE DEF storeVars, keyVars, boundVars, Calm
<1> DEFINE r == Req(w)
<1>0. /\ worker[w].pc = "resume" /\ r \in Requests /\ ckpt[r].at # "none" /\ Live(r)
  BY BusyRequest DEF Resume, ResumptionInv, LiveWork
<1>1. lock' = lock /\ stream' = stream /\ callback' = callback /\ ckpt' = ckpt
  BY DEF Resume
<1>2. /\ \A v \in Workers : v # w => worker'[v] = worker[v]
      /\ worker'[w].msg = worker[w].msg
      /\ worker'[w].pc \in {"record", "dlq", "replace", "delete"}
      /\ \/ resumed' = resumed
         \/ /\ worker'[w].pc \in {"replace", "delete"}
            /\ resumed' = [resumed EXCEPT ![r] = @ + 1]
  BY DEF Resume, Step, ResumptionInv, Shapes, WorkerType
<1>3. \A v \in Workers : worker'[v].pc # "idle" => worker[v].pc # "idle" /\ Req(v)' = Req(v)
  BY Zenon, <1>0, <1>1, <1>2 DEF Req
<1>4. resumed[r] = 0
  <2> SUFFICES ASSUME resumed[r] # 0 PROVE FALSE
    OBVIOUS
  <2>1. PICK v \in Workers : worker[v].pc \in {"replace", "delete"} /\ Req(v) = r
    BY Zenon, <1>0 DEF ResumedLeaves
  <2>2. v # w /\ worker[v].pc # "idle"
    BY Zenon, <1>0, <2>1
  <2> QED
    BY Zenon, <1>0, <2>1, <2>2, Alone
<1>5. OneHolder'
  <2>1. \A v \in Workers : worker'[v].pc # "idle" =>
            /\ worker[v].pc # "idle" /\ worker'[v].msg = worker[v].msg
            /\ stream'[worker[v].msg] = stream[worker[v].msg]
    BY Zenon, <1>0, <1>1, <1>2
  <2> QED
    BY Zenon, <2>1, HoldersKept
<1>6. LiveWork'
  BY Zenon, <1>0, <1>1, <1>2, <1>3 DEF LiveWork, Live
<1>7. NoRelease' /\ OneResponse'
  BY <1>1, ResponseKept DEF NoRelease
<1>8. ResumedLeaves'
  <2>1. \A q \in Requests : q # r => resumed'[q] = resumed[q]
    BY <1>2 DEF Counted
  <2>2. \/ resumed'[r] = 0
        \/ resumed'[r] = 1 /\ worker'[w].pc \in {"replace", "delete"} /\ Req(w)' = r
    <3>1. Req(w)' = r
      BY Zenon, <1>1, <1>2 DEF Req
    <3>2. CASE resumed' = resumed
      BY Zenon, <1>4, <3>2
    <3>3. CASE resumed' = [resumed EXCEPT ![r] = @ + 1] /\ worker'[w].pc \in {"replace", "delete"}
      <4>1. resumed \in [Requests -> Nat] /\ r \in Requests /\ resumed[r] = 0
        BY Zenon, <1>0, <1>4 DEF Counted
      <4> HIDE DEF r
      <4>2. resumed'[r] = 1
        BY Zenon, <3>3, <4>1, FirstCount
      <4> QED
        BY Zenon, <3>1, <3>3, <4>2
    <3> QED
      BY Zenon, <1>2, <3>2, <3>3
  <2>3. ASSUME NEW q \in Requests, q # r, Live(q), resumed[q] # 0
        PROVE  \E v \in Workers : worker'[v].pc \in {"replace", "delete"} /\ Req(v)' = q
    <3>1. PICK v \in Workers : worker[v].pc \in {"replace", "delete"} /\ Req(v) = q
      BY Zenon, <2>3 DEF ResumedLeaves
    <3>2. v # w
      BY Zenon, <2>3, <3>1
    <3> QED
      BY Zenon, <1>2, <1>3, <3>1, <3>2
  <2>4. \A q \in Requests : (Live(q)' <=> Live(q)) /\ ckpt'[q].at = ckpt[q].at
    BY <1>1 DEF Live
  <2> HIDE DEF r
  <2> SUFFICES ASSUME NEW q \in Requests
               PROVE  /\ resumed'[q] <= 1
                      /\ ckpt'[q].at = "none" => resumed'[q] = 0
                      /\ Live(q)' /\ resumed'[q] # 0 =>
                             \E v \in Workers : worker'[v].pc \in {"replace", "delete"}
                                                /\ Req(v)' = q
    BY Zenon DEF ResumedLeaves
  <2>5. CASE q = r
    <3>1. resumed'[r] <= 1
      BY <2>2
    <3>2. ckpt'[r].at # "none"
      BY Zenon, <1>0, <2>4
    <3> QED
      BY Zenon, <2>2, <2>5, <3>1, <3>2
  <2>6. CASE q # r
    <3>1. resumed[q] <= 1 /\ (ckpt[q].at = "none" => resumed[q] = 0)
      BY Zenon DEF ResumedLeaves
    <3> QED
      BY Zenon, <2>1, <2>3, <2>4, <2>6, <3>1
  <2> QED
    BY Zenon, <2>5, <2>6
<1> QED
  BY <1>5, <1>6, <1>7, <1>8

(* A checkpoint leaves the table, and the one of a nested pause may take   *)
(* its place.                                                              *)
LEMMA LeaveCalm ==
    ASSUME ResumptionInv, Calm, NEW w \in Workers,
           worker[w].pc \in {"dlq", "delete", "replace"},
           worker'[w].pc \in {"ack", "unlock"}, worker'[w].msg = worker[w].msg,
           \A v \in Workers : v # w => worker'[v] = worker[v],
           lock' = lock, stream' = stream, callback' = callback, resumed' = resumed,
           ckpt'[Req(w)].at \in {"gone", "dead"},
           \A r \in Requests : \/ r = Req(w)
                               \/ ckpt'[r].at = ckpt[r].at
                               \/ ckpt[r].at = "none" /\ ckpt'[r].at = "live"
    PROVE  Calm'
<1> USE DEF Calm
<1>0. Req(w) \in Requests /\ Live(Req(w))
  BY Zenon, BusyRequest DEF ResumptionInv, LiveWork
<1>1. \A v \in Workers : worker'[v].pc # "idle" => worker[v].pc # "idle" /\ Req(v)' = Req(v)
  BY Zenon DEF Req
<1>2. \A r \in Requests : Live(r)' => r # Req(w) /\ (Live(r) \/ ckpt[r].at = "none")
  BY Zenon DEF Live
<1>3. OneHolder' /\ NoRelease'
  <2>1. \A v \in Workers : worker'[v].pc # "idle" =>
            /\ worker[v].pc # "idle" /\ worker'[v].msg = worker[v].msg
            /\ stream'[worker[v].msg] = stream[worker[v].msg]
    BY Zenon, <1>1
  <2>2. OneHolder'
    BY Zenon, <2>1, HoldersKept
  <2> QED
    BY Zenon, <2>2 DEF NoRelease
<1>4. LiveWork'
  <2> SUFFICES ASSUME NEW v \in Workers,
                      worker'[v].pc \in {"mark", "resume", "record", "dlq", "replace", "delete"}
               PROVE  Live(Req(v))'
    BY Zenon DEF LiveWork
  <2>1. v # w /\ worker'[v] = worker[v]
    BY Zenon
  <2>2. Req(v) # Req(w) /\ Req(v) \in Requests /\ Live(Req(v))
    BY Zenon, <1>0, <2>1, Alone, BusyRequest DEF LiveWork, ResumptionInv
  <2> QED
    BY Zenon, <1>1, <2>1, <2>2 DEF Live
<1>5. OneResponse'
  <2>1. \A r \in Requests : ckpt[r].at = "none" =>
            /\ \A c \in Callbacks : ~Enqueues(c, r)
            /\ \A i \in DOMAIN stream : ~Queued(i, r)
    BY Zenon DEF ResumptionInv, Known, Enqueues, Queued
  <2>2. \A r \in Requests : /\ \A c \in Callbacks : Enqueues(c, r)' <=> Enqueues(c, r)
                            /\ \A i \in DOMAIN stream : Queued(i, r)' <=> Queued(i, r)
    BY Zenon DEF Enqueues, Queued
  <2> QED
    BY Zenon, <1>2, <2>1, <2>2 DEF OneResponse
<1>6. ResumedLeaves'
  <2>1. ASSUME NEW q \in Requests, Live(q)', resumed[q] # 0
        PROVE  \E v \in Workers : worker'[v].pc \in {"replace", "delete"} /\ Req(v)' = q
    <3>1. PICK v \in Workers : worker[v].pc \in {"replace", "delete"} /\ Req(v) = q
      BY Zenon, <1>2, <2>1 DEF ResumedLeaves
    <3>2. v # w
      BY Zenon, <1>2, <2>1, <3>1
    <3> QED
      BY Zenon, <1>1, <3>1, <3>2
  <2>2. \A q \in Requests : ckpt'[q].at = "none" => ckpt[q].at = "none"
    <3>1. ckpt'[Req(w)].at # "none"
      BY Zenon
    <3> QED
      BY Zenon, <3>1
  <2> QED
    BY Zenon, <2>1, <2>2 DEF ResumedLeaves
<1> QED
  BY Zenon, <1>3, <1>4, <1>5, <1>6

(* The message is acknowledged. *)
LEMMA AckCalm ==
    ASSUME ResumptionInv, Calm, NEW w \in Workers, Ack(w), faults' = 0
    PROVE  Calm'
<1> USE DEF storeVars, keyVars, boundVars, Calm
<1> DEFINE i == worker[w].msg
<1>0. worker[w].pc = "ack" /\ i \in DOMAIN stream
  BY DEF Ack, ResumptionInv, Busy
<1>1. /\ lock' = lock /\ resumed' = resumed /\ ckpt' = ckpt /\ callback' = callback
      /\ stream' = [stream EXCEPT ![i].state = "acked"]
  BY DEF Ack, Fails, ResumptionInv, Shapes
<1>2. /\ \A v \in Workers : v # w => worker'[v] = worker[v]
      /\ worker'[w].pc = "idle"
  BY DEF Ack, ResumptionInv, Shapes, IdleWorker
<1>3. /\ DOMAIN stream' = DOMAIN stream
      /\ \A j \in DOMAIN stream : stream'[j].req = stream[j].req
      /\ \A j \in DOMAIN stream : j # i => stream'[j] = stream[j]
  <2>1. \A j \in DOMAIN stream : stream[j] \in Message
    BY MessageShape DEF ResumptionInv
  <2> QED
    BY <1>0, <1>1, <2>1 DEF Message, ResumptionInv, Shapes
<1>4. \A v \in Workers : worker'[v].pc # "idle" =>
          /\ v # w /\ worker'[v] = worker[v] /\ worker[v].msg # i
          /\ worker[v].msg \in DOMAIN stream
  BY Zenon, <1>0, <1>2 DEF OneHolder, ResumptionInv, Busy
<1> HIDE DEF i
<1>5. \A v \in Workers : worker'[v].pc # "idle" => Req(v)' = Req(v)
  BY Zenon, <1>3, <1>4 DEF Req
<1>6. OneHolder'
  <2>1. \A v \in Workers : worker'[v].pc # "idle" =>
            /\ worker[v].pc # "idle" /\ worker'[v].msg = worker[v].msg
            /\ stream'[worker[v].msg] = stream[worker[v].msg]
    BY Zenon, <1>3, <1>4
  <2> QED
    BY Zenon, <2>1, HoldersKept
<1>7. LiveWork'
  BY <1>1, <1>4, <1>5 DEF LiveWork, Live
<1>8. ResumedLeaves'
  <2>1. \A v \in Workers : worker[v].pc \in {"replace", "delete"} =>
            worker'[v] = worker[v] /\ Req(v)' = Req(v)
    BY Zenon, <1>0, <1>2, <1>5
  <2> QED
    BY <1>1, <2>1 DEF ResumedLeaves, Live
<1>9. NoRelease' /\ OneResponse'
  BY <1>1, <1>3, ResponseKept DEF NoRelease
<1> QED
  BY <1>6, <1>7, <1>8, <1>9

(* Every step keeps it. *)
LEMMA OnceStep ==
    ASSUME ResumptionInv, OnceInv, [Next]_vars
    PROVE  OnceInv'
<1> USE DEF storeVars, keyVars, boundVars
<1>1. CASE UNCHANGED vars
  <2>1. Counted' /\ (Undisturbed' <=> Undisturbed)
    BY <1>1 DEF vars, OnceInv, Counted, Undisturbed
  <2>2. /\ stream' = stream /\ resumed' = resumed /\ ckpt' = ckpt /\ lock' = lock
        /\ callback' = callback /\ worker' = worker
    BY <1>1 DEF vars
  <2>3. Calm => Calm'
    BY Zenon, <2>2, CalmKept
  <2> QED
    BY <2>1, <2>3 DEF OnceInv
<1>2. CASE Next
  <2>1. Counted'
    BY <1>2, CountedStep DEF OnceInv
  <2> SUFFICES ASSUME Undisturbed' PROVE Calm'
    BY <2>1 DEF OnceInv
  <2>2. faults \in Nat /\ slow \in Nat /\ crashes \in Nat /\ expiries \in Nat
    BY DEF OnceInv, Counted, ResumptionInv, Shapes
  <2>3. faults' = 0 /\ slow' = 0 /\ crashes' = 0 /\ expiries' = 0
    BY DEF Undisturbed
  <2>4. /\ faults' = faults \/ faults' = faults + 1
        /\ slow' = slow \/ slow' = slow + 1
        /\ crashes' = crashes \/ crashes' = crashes + 1
        /\ expiries' = expiries \/ expiries' = expiries + 1
    BY ZenonT(60), <1>2
       DEF Next, Handle, Receive, SetNX, Enqueue, ReleaseLock, Dequeue, ClaimSlow, Take,
           ProcessJob, LoadCheckpoint, MarkDone, Resume, RecordFailure, Replace, MoveToDLQ,
           DeleteCheckpoint, Unlock, Ack, Age, LockExpires, Crash, Works, Fails
  <2>5. Undisturbed /\ Calm /\ Counted
    BY <2>2, <2>3, <2>4 DEF OnceInv, Undisturbed
  <2>6. ~Fails
    BY <2>2, <2>3 DEF Fails
  <2>7. ASSUME NEW c \in Callbacks, NEW r \in Requests, Receive(c, r) PROVE Calm'
    <3>1. PICK pc \in {"refused", "done", "lock"} :
            callback' = [callback EXCEPT ![c] = [pc |-> pc, req |-> r]]
      BY Zenon, <2>7 DEF Receive
    <3>2. \A d \in Callbacks : callback'[d] = callback[d]
                               \/ callback'[d].pc \notin {"enqueue", "release"}
      BY <3>1 DEF ResumptionInv, Shapes, CallbackType
    <3>3. /\ ckpt' = ckpt /\ stream' = stream /\ resumed' = resumed /\ lock' = lock
          /\ worker' = worker
      BY Zenon, <2>7 DEF Receive
    <3> QED
      BY Zenon, <2>5, <3>2, <3>3, CalmKept
  <2>8. ASSUME NEW c \in Callbacks, SetNX(c) \/ Enqueue(c) \/ ReleaseLock(c) PROVE Calm'
    <3>1. ~ReleaseLock(c)
      BY <2>5 DEF ReleaseLock, Calm, NoRelease
    <3> QED
      BY <2>3, <2>5, <2>8, <3>1, SetNXCalm, EnqueueCalm
  <2>9. ASSUME NEW w \in Workers, ProcessJob(w) PROVE Calm'
    <3>1. CASE LoadCheckpoint(w) \/ MarkDone(w) \/ RecordFailure(w) \/ Unlock(w)
      <4>1. /\ stream' = stream /\ resumed' = resumed /\ callback' = callback
            /\ \A v \in Workers : v # w => worker'[v] = worker[v]
            /\ worker[w].pc \in {"load", "mark", "record", "unlock"}
            /\ worker'[w].pc # "idle" => worker'[w].msg = worker[w].msg
        BY <3>1 DEF LoadCheckpoint, MarkDone, RecordFailure, Unlock, Step,
                    ResumptionInv, Shapes, WorkerType, IdleWorker
      <4>2. Req(w) \in Requests
        BY Zenon, <4>1, BusyRequest DEF ResumptionInv
      <4>3. \A r \in Requests : ckpt'[r].at = ckpt[r].at
        <5>1. CASE ckpt' = ckpt
          BY <5>1
        <5>2. CASE ckpt' = [ckpt EXCEPT ![Req(w)].fails = IF Live(Req(w)) THEN @ + 1 ELSE @]
          BY <4>2, <5>2 DEF ResumptionInv, Shapes, CkptType
        <5> QED
          BY <3>1, <5>1, <5>2 DEF LoadCheckpoint, MarkDone, RecordFailure, Unlock
      <4>4. worker'[w].pc \in {"mark", "resume", "record", "dlq", "replace", "delete"}
                => Live(Req(w))
        <5>1. CASE LoadCheckpoint(w)
          BY <5>1 DEF LoadCheckpoint, Step, ResumptionInv, Shapes, WorkerType, IdleWorker
        <5>2. CASE MarkDone(w) \/ RecordFailure(w)
          BY <2>5, <5>2 DEF MarkDone, RecordFailure, Calm, LiveWork
        <5>3. CASE Unlock(w)
          BY <5>3 DEF Unlock, Step, ResumptionInv, Shapes, WorkerType
        <5> QED
          BY Zenon, <3>1, <5>1, <5>2, <5>3
      <4>5. \A r \in Requests : Live(r) /\ r \in lock => r \in lock'
        <5>1. CASE Unlock(w)
          BY Zenon, <2>5, <5>1 DEF Unlock, ResumptionInv, AckedSettled, Undisturbed
        <5>2. CASE LoadCheckpoint(w) \/ MarkDone(w) \/ RecordFailure(w)
          BY <5>2 DEF LoadCheckpoint, MarkDone, RecordFailure
        <5> QED
          BY <3>1, <5>1, <5>2
      <4>6. \A v \in Workers :
               \/ worker'[v] = worker[v]
               \/ /\ worker[v].pc \notin {"replace", "delete"}
                  /\ worker'[v].pc # "idle" =>
                         worker[v].pc # "idle" /\ worker'[v].msg = worker[v].msg
                  /\ worker'[v].pc \in {"mark", "resume", "record", "dlq", "replace", "delete"}
                         => Live(Req(v))
        BY Zenon, <4>1, <4>4
      <4> QED
        BY Zenon, <2>5, <4>1, <4>3, <4>5, <4>6, CalmKept
    <3>2. CASE MoveToDLQ(w) \/ DeleteCheckpoint(w) \/ Replace(w)
      <4>1. /\ stream' = stream /\ resumed' = resumed /\ callback' = callback /\ lock' = lock
            /\ worker[w].pc \in {"dlq", "delete", "replace"}
        BY <3>2 DEF MoveToDLQ, DeleteCheckpoint, Replace
      <4>2. Req(w) \in Requests /\ Live(Req(w)) /\ ckpt \in CkptType
        BY Zenon, <2>5, <4>1, BusyRequest DEF ResumptionInv, Shapes, Calm, LiveWork
      <4>3. /\ worker'[w].pc \in {"ack", "unlock"} /\ worker'[w].msg = worker[w].msg
            /\ \A v \in Workers : v # w => worker'[v] = worker[v]
        BY <2>6, <3>2, <4>2 DEF MoveToDLQ, DeleteCheckpoint, Replace, Step,
                                ResumptionInv, Shapes, WorkerType
      <4>4. /\ ckpt'[Req(w)].at \in {"gone", "dead"}
            /\ \A r \in Requests : \/ r = Req(w)
                                   \/ ckpt'[r].at = ckpt[r].at
                                   \/ ckpt[r].at = "none" /\ ckpt'[r].at = "live"
        <5>1. CASE MoveToDLQ(w) \/ DeleteCheckpoint(w)
          BY <2>6, <4>2, <5>1 DEF MoveToDLQ, DeleteCheckpoint, CkptType
        <5>2. CASE Replace(w)
          <6>1. /\ worker[w].next \in Requests /\ ckpt[worker[w].next].at = "none"
                /\ worker[w].next # Req(w)
            BY <4>2, <5>2 DEF Replace, ResumptionInv, NestedNew, Live
          <6>2. ckpt' = [ckpt EXCEPT ![Req(w)].at = "gone", ![worker[w].next].at = "live"]
            BY <2>6, <4>2, <5>2 DEF Replace
          <6> QED
            BY <4>2, <6>1, <6>2 DEF CkptType
        <5> QED
          BY Zenon, <3>2, <5>1, <5>2
      <4> QED
        BY Zenon, <2>5, <4>1, <4>3, <4>4, LeaveCalm
    <3> QED
      BY Zenon, <2>3, <2>5, <2>9, <3>1, <3>2, ResumeCalm, AckCalm DEF ProcessJob
  <2>10. ASSUME NEW r \in Requests, Age(r) PROVE Calm'
    <3>1. /\ ckpt' = ckpt /\ stream' = stream /\ resumed' = resumed /\ lock' = lock
          /\ worker' = worker /\ callback' = callback
      BY Zenon, <2>10 DEF Age
    <3> QED
      BY Zenon, <2>5, <3>1, CalmKept
  <2>11. /\ ~Crash /\ \A r \in Requests : ~LockExpires(r)
         /\ \A w \in Workers : ~ClaimSlow(w)
    <3>1. ~Crash
      BY <2>2, <2>3 DEF Crash
    <3>2. ASSUME NEW r \in Requests, LockExpires(r) PROVE FALSE
      BY <2>2, <2>3, <3>2 DEF LockExpires
    <3>3. ASSUME NEW w \in Workers, ClaimSlow(w) PROVE FALSE
      BY <2>2, <2>3, <3>3 DEF ClaimSlow
    <3> QED
      BY Zenon, <3>1, <3>2, <3>3
  <2> QED
    BY <1>2, <2>5, <2>7, <2>8, <2>9, <2>10, <2>11, DequeueCalm DEF Next, Handle
<1> QED
  BY <1>1, <1>2

(* While no call fails, no worker is slow or dies and no processing lock   *)
(* runs out, a request is resumed at most once, however many callbacks for *)
(* it arrive and however handlers and workers interleave: the two          *)
(* idempotency keys of HandleHumanCallback and processJob suffice.         *)
THEOREM ResumesAtMostOnce == Spec => []ResumedOnce
<1>1. Spec => []OnceInv
  BY InitInv, OnceInit, InvHolds, OnceStep, PTL DEF Spec
<1>2. ResumptionInv /\ OnceInv => ResumedOnce
  <2> SUFFICES ASSUME ResumptionInv, OnceInv, faults + slow + crashes + expiries = 0
               PROVE  \A r \in Requests : resumed[r] <= 1
    BY DEF ResumedOnce
  <2>1. Undisturbed
    BY DEF Undisturbed, OnceInv, Counted, ResumptionInv, Shapes
  <2> QED
    BY <2>1 DEF OnceInv, Calm, ResumedLeaves
<1> QED
  BY InvHolds, <1>1, <1>2, PTL
=============================================================================

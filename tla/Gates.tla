------------------------------- MODULE Gates --------------------------------
(***************************************************************************)
(* Two components that let a bounded number of requests through: the       *)
(* circuit breaker of src/pkg/resilience with its registry, and the human  *)
(* node of src/pkg/hitl with its response manager.                         *)
(***************************************************************************)
EXTENDS Integers, Sequences, FiniteSets

-----------------------------------------------------------------------------
(* CircuitBreaker                                                          *)
(***************************************************************************)
(* The circuit breaker of src/pkg/resilience and the registry that hands   *)
(* it out. Callers look the breaker up by its name, ask it for admission,  *)
(* run, and report; each of these is a critical section of its own, so a   *)
(* report may reach the breaker in a later state than the one it was       *)
(* admitted in. Only one name is used: names do not interact.              *)
(***************************************************************************)

CONSTANTS
    Callers,
    FailureThreshold,
    SuccessThreshold,
    HalfOpenMaxRequests,
    MaxEras             \* bound: state changes of a breaker

VARIABLES
    registered, \* registry: index in breakers, or 0
    breakers,   \* the breakers created for the name
    caller      \* pc, breaker held, era in which it was admitted

breakerVars == <<registered, breakers, caller>>

CircuitState == {"closed", "open", "half-open"}

(* era counts the state changes; aged: Timeout has passed since it opened. *)
Breaker == [state : CircuitState, failures : Nat, successes : Nat, halfOpen : Nat,
            aged : BOOLEAN, era : Nat]
NewCircuitBreaker == [state |-> "closed", failures |-> 0, successes |-> 0, halfOpen |-> 0,
                      aged |-> FALSE, era |-> 0]

BreakerTypeOK ==
    /\ registered \in 0..Len(breakers)
    /\ breakers \in Seq(Breaker)
    /\ caller \in [Callers -> [pc : {"idle", "create", "ready", "running"},
                               cb : 0..Len(breakers), era : Nat]]

BreakerInit ==
    /\ registered = 0
    /\ breakers = <<>>
    /\ caller = [c \in Callers |-> [pc |-> "idle", cb |-> 0, era |-> 0]]

Holds(c, i) == caller' = [caller EXCEPT ![c] = [pc |-> "ready", cb |-> i, era |-> 0]]

(* The read-locked look-up. *)
Get(c) ==
    /\ caller[c].pc = "idle"
    /\ IF registered # 0 THEN Holds(c, registered)
                         ELSE caller' = [caller EXCEPT ![c].pc = "create"]
    /\ UNCHANGED <<registered, breakers>>

(* Mutant: the write lock is taken and the map is not read again. *)
Create_NoRecheck(c) ==
    /\ caller[c].pc = "create"
    /\ breakers' = Append(breakers, NewCircuitBreaker)
    /\ registered' = Len(breakers')
    /\ Holds(c, registered')

(* The write-locked look-up and creation. *)
Create(c) ==
    /\ caller[c].pc = "create"
    /\ IF registered # 0
       THEN Holds(c, registered) /\ UNCHANGED <<registered, breakers>>
       ELSE /\ breakers' = Append(breakers, NewCircuitBreaker)
            /\ registered' = Len(breakers')
            /\ Holds(c, registered')

-----------------------------------------------------------------------------
toOpen(b) == [b EXCEPT !.state = "open", !.halfOpen = 0, !.successes = 0,
                       !.aged = FALSE, !.era = @ + 1]
toHalfOpen(b) == [NewCircuitBreaker EXCEPT !.state = "half-open", !.era = b.era + 1]
toClosed(b) == [NewCircuitBreaker EXCEPT !.era = b.era + 1]

Admitted(c, b) ==
    /\ breakers' = [breakers EXCEPT ![caller[c].cb] = b]
    /\ caller' = [caller EXCEPT ![c].pc = "running", ![c].era = b.era]
Rejected(c) ==
    /\ caller' = [caller EXCEPT ![c].pc = "idle"]
    /\ UNCHANGED breakers

(* Mutant: half-open requests are not counted. *)
beforeRequest_Uncounted(c) ==
    LET b == breakers[caller[c].cb] IN
    /\ caller[c].pc = "ready"
    /\ \/ b.state \in {"closed", "half-open"} /\ Admitted(c, b)
       \/ b.state = "open" /\ b.aged /\ b.era < MaxEras /\ Admitted(c, toHalfOpen(b))
       \/ b.state = "open" /\ ~b.aged /\ Rejected(c)
    /\ UNCHANGED registered

(* The request that finds the timeout over is admitted without being       *)
(* counted.                                                                *)
beforeRequest(c) ==
    LET b == breakers[caller[c].cb] IN
    /\ caller[c].pc = "ready"
    /\ \/ b.state = "closed" /\ Admitted(c, b)
       \/ b.state = "open" /\ b.aged /\ b.era < MaxEras /\ Admitted(c, toHalfOpen(b))
       \/ b.state = "open" /\ ~b.aged /\ Rejected(c)
       \/ /\ b.state = "half-open" /\ b.halfOpen < HalfOpenMaxRequests
          /\ Admitted(c, [b EXCEPT !.halfOpen = @ + 1])
       \/ b.state = "half-open" /\ b.halfOpen >= HalfOpenMaxRequests /\ Rejected(c)
    /\ UNCHANGED registered

(* What a result does to a breaker; an open breaker ignores it.            *)
Recorded(b, isFailure) ==
    LET failed == [b EXCEPT !.failures = @ + 1]
        succeeded == [b EXCEPT !.successes = @ + 1] IN
    CASE b.state = "closed" /\ isFailure ->
            IF failed.failures >= FailureThreshold THEN toOpen(failed) ELSE failed
      [] b.state = "closed" /\ ~isFailure -> [b EXCEPT !.failures = 0]
      [] b.state = "half-open" /\ isFailure -> toOpen(b)
      [] b.state = "half-open" /\ ~isFailure ->
            IF succeeded.successes >= SuccessThreshold THEN toClosed(succeeded) ELSE succeeded
      [] b.state = "open" -> b

(* Mutant: a failure in half-open state is only counted. *)
afterRequest_StaysHalfOpen(c, isFailure) ==
    LET b == breakers[caller[c].cb] IN
    /\ caller[c].pc = "running"
    /\ b.era < MaxEras
    /\ breakers' = [breakers EXCEPT ![caller[c].cb] =
            IF b.state = "half-open" /\ isFailure THEN [b EXCEPT !.failures = @ + 1]
            ELSE Recorded(b, isFailure)]
    /\ caller' = [caller EXCEPT ![c].pc = "idle"]
    /\ UNCHANGED registered

(* Execute: the function has returned and its result is recorded.          *)
afterRequest(c, isFailure) ==
    LET b == breakers[caller[c].cb] IN
    /\ caller[c].pc = "running"
    /\ b.era < MaxEras
    /\ breakers' = [breakers EXCEPT ![caller[c].cb] = Recorded(b, isFailure)]
    /\ caller' = [caller EXCEPT ![c].pc = "idle"]
    /\ UNCHANGED registered

Reset(i) ==
    /\ breakers[i].era < MaxEras
    /\ breakers' = [breakers EXCEPT ![i] = toClosed(@)]
    /\ UNCHANGED <<registered, caller>>

(* Timeout passes since the breaker opened. *)
TimeoutElapses(i) ==
    /\ breakers[i].state = "open" /\ ~breakers[i].aged
    /\ breakers' = [breakers EXCEPT ![i].aged = TRUE]
    /\ UNCHANGED <<registered, caller>>

BreakerExecute(c) == beforeRequest(c) \/ \E isFailure \in BOOLEAN : afterRequest(c, isFailure)

BreakerNext ==
    \/ \E c \in Callers : Get(c) \/ Create(c) \/ BreakerExecute(c)
    \/ \E i \in DOMAIN breakers : Reset(i) \/ TimeoutElapses(i)

BreakerSpec == BreakerInit /\ [][BreakerNext]_breakerVars

-----------------------------------------------------------------------------
Probes(i) == {c \in Callers : caller[c].pc = "running" /\ caller[c].cb = i
                              /\ caller[c].era = breakers[i].era}

(* The half-open state lets a bounded number of requests through: the      *)
(* limit of the configuration, and the one that found the timeout over.    *)
HalfOpenBounded ==
    \A i \in DOMAIN breakers :
        breakers[i].state = "half-open" => Cardinality(Probes(i)) <= HalfOpenMaxRequests + 1

(* A half-open breaker that turns requests away still waits for a probe,   *)
(* so it cannot stay half-open for ever, although the count of half-open   *)
(* requests is never lowered.                                              *)
NeverStuckHalfOpen ==
    SuccessThreshold <= HalfOpenMaxRequests + 1 =>
        \A i \in DOMAIN breakers :
            breakers[i].state = "half-open" /\ breakers[i].halfOpen >= HalfOpenMaxRequests
                => Probes(i) # {}

(* Callers that look a name up at the same time share one breaker.         *)
OneBreaker == \A c, d \in Callers : caller[c].cb # 0 /\ caller[d].cb # 0 => caller[c].cb = caller[d].cb

-----------------------------------------------------------------------------
(* HumanNode                                                               *)
(* Executions of a human node: one that waits briefly blocks with a callback at the  *)
(* response manager, one that waits long returns a pause signal and is executed again *)
(* with its answer in the state. Deliveries call the callback holding the lock.       *)

CONSTANTS Executions, Deliverers, MaxConcurrentWaits, MaxAnswers

VARIABLES pc,         \* execution -> where it is
          waits,      \* activeBlockingWaits
          callbacks,  \* executions with a registered callback
          respChan,   \* execution -> responses in its channel, of capacity one
          lock,       \* who holds the manager's mutex
          target,     \* deliverer -> the execution it answers
          answered,   \* answers given so far
          pending,    \* executions whose state has an injected answer
          out         \* execution -> how it ended

humanVars == <<pc, waits, callbacks, respChan, lock, target, answered, pending, out>>

Free == "nobody"
Capacity == 1
HumanInit ==
  /\ pc = [e \in Executions |-> "start"] /\ waits = 0 /\ callbacks = {}
  /\ respChan = [e \in Executions |-> 0] /\ lock = Free
  /\ target = [d \in Deliverers |-> "none"] /\ answered = 0
  /\ pending = {} /\ out = [e \in Executions |-> "none"]

Goto(e, l) == pc' = [pc EXCEPT ![e] = l]
End(e, o) == Goto(e, "ended") /\ out' = [out EXCEPT ![e] = o]

(* Execute: with an injected answer it is taken and its key deleted; otherwise the    *)
(* request is made and the node blocks or pauses.                                     *)
HumanExecute(e) ==
  /\ pc[e] = "start"
  /\ \/ e \in pending /\ pending' = pending \ {e} /\ End(e, "answered") /\ UNCHANGED waits
     \/ e \notin pending /\ waits' = waits + 1 /\ Goto(e, "counted") /\ UNCHANGED <<pending, out>>
     \/ e \notin pending /\ End(e, "paused") /\ UNCHANGED <<pending, waits>>
  /\ UNCHANGED <<callbacks, respChan, lock, target, answered>>
(* Mutant: the counter is compared as it was before the execution was counted. *)
checkLimit_Before(e) ==
  /\ pc[e] = "counted"
  /\ IF waits - 1 > MaxConcurrentWaits
     THEN waits' = waits - 1 /\ End(e, "refused")
     ELSE Goto(e, "admitted") /\ UNCHANGED <<waits, out>>
  /\ UNCHANGED <<callbacks, respChan, lock, target, answered, pending>>
checkLimit(e) ==
  /\ pc[e] = "counted"
  /\ IF waits > MaxConcurrentWaits
     THEN waits' = waits - 1 /\ End(e, "refused")
     ELSE Goto(e, "admitted") /\ UNCHANGED <<waits, out>>
  /\ UNCHANGED <<callbacks, respChan, lock, target, answered, pending>>
RegisterCallback(e) ==
  /\ pc[e] = "admitted" /\ lock = Free
  /\ callbacks' = callbacks \cup {e} /\ Goto(e, "waiting")
  /\ UNCHANGED <<waits, respChan, lock, target, answered, pending, out>>

(* The select: the answer, the timeout or the context, whichever is there. *)
blockWithTimeout(e) ==
  /\ pc[e] = "waiting" /\ Goto(e, "leaving")
  /\ \/ respChan[e] > 0 /\ respChan' = [respChan EXCEPT ![e] = @ - 1] /\ out' = [out EXCEPT ![e] = "answered"]
     \/ \E o \in {"timeout", "canceled"} : out' = [out EXCEPT ![e] = o] /\ UNCHANGED respChan
  /\ UNCHANGED <<waits, callbacks, lock, target, answered, pending>>
(* Mutant: only a timeout removes the callback, an answer having removed its own. *)
Leave_AnswerKeeps(e) ==
  /\ pc[e] = "leaving" /\ lock = Free
  /\ callbacks' = IF out[e] = "timeout" THEN callbacks \ {e} ELSE callbacks
  /\ waits' = waits - 1 /\ Goto(e, "ended")
  /\ UNCHANGED <<respChan, lock, target, answered, pending, out>>
(* The deferred calls: the callback is removed, and then the wait is over. *)
Leave(e) ==
  /\ pc[e] = "leaving" /\ lock = Free
  /\ callbacks' = callbacks \ {e} /\ waits' = waits - 1 /\ Goto(e, "ended")
  /\ UNCHANGED <<respChan, lock, target, answered, pending, out>>

(* A paused node is executed again with the answer the resumption injected. *)
Resume(e) ==
  /\ pc[e] = "ended" /\ out[e] = "paused" /\ answered < MaxAnswers
  /\ answered' = answered + 1 /\ pending' = pending \cup {e}
  /\ Goto(e, "start") /\ out' = [out EXCEPT ![e] = "none"]
  /\ UNCHANGED <<waits, callbacks, respChan, lock, target>>

(* DeliverResponse: the lock, the callback (which sends on the channel), its removal. *)
Deliver(d, e) ==
  /\ target[d] = "none" /\ lock = Free /\ answered < MaxAnswers
  /\ answered' = answered + 1
  /\ IF e \in callbacks THEN lock' = d /\ target' = [target EXCEPT ![d] = e]
     ELSE UNCHANGED <<lock, target>>
  /\ UNCHANGED <<pc, waits, callbacks, respChan, pending, out>>
(* Mutant: the callback stays until its execution removes it. *)
DeliverResponse_Keeps(d) ==
  /\ lock = d /\ respChan[target[d]] < Capacity
  /\ respChan' = [respChan EXCEPT ![target[d]] = @ + 1]
  /\ lock' = Free /\ target' = [target EXCEPT ![d] = "none"]
  /\ UNCHANGED <<pc, waits, callbacks, answered, pending, out>>
DeliverResponse(d) ==
  /\ lock = d /\ respChan[target[d]] < Capacity
  /\ respChan' = [respChan EXCEPT ![target[d]] = @ + 1]
  /\ callbacks' = callbacks \ {target[d]}
  /\ lock' = Free /\ target' = [target EXCEPT ![d] = "none"]
  /\ UNCHANGED <<pc, waits, answered, pending, out>>

HumanNext ==
  \/ \E e \in Executions : \/ HumanExecute(e) \/ checkLimit(e) \/ RegisterCallback(e) \/ blockWithTimeout(e)
                           \/ Leave(e) \/ Resume(e)
  \/ \E d \in Deliverers : DeliverResponse(d) \/ \E e \in Executions : Deliver(d, e)

HumanSpec == HumanInit /\ [][HumanNext]_humanVars

Blocking == {e \in Executions : pc[e] \in {"counted", "admitted", "waiting", "leaving"}}
HumanTypeOK == /\ pc \in [Executions -> {"start", "counted", "admitted", "waiting", "leaving", "ended"}]
               /\ waits \in 0..Cardinality(Executions) /\ callbacks \subseteq Executions
               /\ respChan \in [Executions -> 0..Capacity] /\ lock \in Deliverers \cup {Free}
               /\ answered \in 0..MaxAnswers

(* A delivery never blocks with the manager's lock: though it calls the callback     *)
(* holding it, the channel it sends on has room, however often a request is answered *)
(* and however late its execution reads; so no other node waits for the lock for ever. *)
DeliveryNeverBlocks == \A d \in Deliverers : lock = d => respChan[target[d]] < Capacity

(* No more executions of the node than the limit get to wait, though all of them are *)
(* counted before any of them is compared with it.                                    *)
WaitsBounded == Cardinality({e \in Executions : pc[e] \in {"admitted", "waiting", "leaving"}}) <= MaxConcurrentWaits

(* However an execution ends (answered, timed out, cancelled or refused), no callback *)
(* of it is left at the manager and its wait is no longer counted.                    *)
NothingLeftBehind ==
  /\ callbacks \subseteq {e \in Executions : pc[e] \in {"waiting", "leaving"}}
  /\ waits = Cardinality(Blocking)
=============================================================================

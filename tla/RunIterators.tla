---------------------------- MODULE RunIterators ----------------------------
(***************************************************************************)
(* The iterator runtime, the iterator that merges parallel agents, and the *)
(* streaming runtime.                                                      *)
(***************************************************************************)
EXTENDS Naturals, Sequences, FiniteSets

-----------------------------------------------------------------------------
(* IteratorRun                                                             *)
(* The iterator runner over a sequential or a loop agent whose sub-agents are LLM    *)
(* agents: pull-style, so a consumer that stops ends every layer at once. The runner *)
(* commits events that are not partial and stops at a final response.                *)

CONSTANTS Agents, MaxSteps, MaxIterations, IterMaxEvents

VARIABLES shape,      \* "sequential" or "loop"
          at,         \* [iteration, agent, step, pc] of the agent that runs
          event,      \* the event on its way up, or none
          yielded,    \* kinds of the events the caller has got
          committed,  \* events committed to the session, counted
          after       \* agents whose after-agent callbacks ran

iterVars == <<shape, at, event, yielded, committed, after>>

None == "none"
(* "final" is a message that is not partial, "tool" any other such event, "chunk" a  *)
(* partial one, "error" an event that carries an error, "fail" an iterator error.    *)
Kinds == {"final", "tool", "chunk", "error"}

IterInit ==
  /\ shape \in {"sequential", "loop"} /\ at = [iteration |-> 1, agent |-> 1, step |-> 0, pc |-> "before", last |-> None]
  /\ event = None /\ yielded = << >> /\ committed = 0 /\ after = {}

Running == event = None /\ at.pc # "done" /\ Len(yielded) < IterMaxEvents

(* Before-agent callbacks: an event short-circuits the agent, an error ends it. *)
BeforeCallbacks(outcome) ==
  /\ Running /\ at.pc = "before"
  /\ CASE outcome = "none" -> at' = [at EXCEPT !.pc = "step", !.step = 1] /\ UNCHANGED event
       [] outcome = "event" -> at' = [at EXCEPT !.pc = "agentDone"] /\ event' = "tool"
       [] outcome = "error" -> at' = [at EXCEPT !.pc = "agentDone"] /\ event' = "fail"
  /\ UNCHANGED <<shape, yielded, committed, after>>

(* The LLM flow's step yields an event; one with an error ends the agent. *)
FlowYields(k) ==
  /\ Running /\ at.pc = "step" /\ event' = k
  /\ at' = [at EXCEPT !.last = k, !.pc = IF k = "error" THEN "agentDone" ELSE @]
  /\ UNCHANGED <<shape, yielded, committed, after>>

(* Mutant: one step too many. *)
StepEnds_Late ==
  /\ Running /\ at.pc = "step"
  /\ at' = [at EXCEPT !.last = None, !.step = IF at.last \in {None, "final"} \/ at.step > MaxSteps THEN @ ELSE @ + 1,
                      !.pc = IF at.last \in {None, "final"} \/ at.step > MaxSteps THEN "after" ELSE "step"]
  /\ UNCHANGED <<shape, event, yielded, committed, after>>
(* The end of a step: no event, a final response or the last step end the loop. *)
StepEnds ==
  /\ Running /\ at.pc = "step"
  /\ LET ends == at.last \in {None, "final"} \/ at.step >= MaxSteps
     IN at' = [at EXCEPT !.last = None, !.step = IF ends THEN @ ELSE @ + 1, !.pc = IF ends THEN "after" ELSE "step"]
  /\ UNCHANGED <<shape, event, yielded, committed, after>>

(* After-agent callbacks, then the warning when the steps were used up. *)
AfterCallbacks(outcome) ==
  /\ Running /\ at.pc = "after" /\ after' = after \cup {at.agent}
  /\ event' = CASE outcome = "event" -> "tool" [] outcome = "error" -> "fail"
                [] outcome = "none" -> IF at.step >= MaxSteps THEN "final" ELSE None
  /\ at' = [at EXCEPT !.pc = "agentDone"]
  /\ UNCHANGED <<shape, yielded, committed>>

Fresh == [at EXCEPT !.step = 0, !.last = None]
(* The sequential agent's next sub-agent; the loop's next sub-agent or iteration, or *)
(* its warning when the iterations are used up.                                      *)
SequentialNext ==
  /\ Running /\ at.pc = "agentDone" /\ shape = "sequential"
  /\ at' = IF at.agent < Agents THEN [Fresh EXCEPT !.agent = @ + 1, !.pc = "before"] ELSE [Fresh EXCEPT !.pc = "done"]
  /\ UNCHANGED <<shape, event, yielded, committed, after>>
LoopNext ==
  /\ Running /\ at.pc = "agentDone" /\ shape = "loop"
  /\ IF at.agent < Agents THEN at' = [Fresh EXCEPT !.agent = @ + 1, !.pc = "before"] /\ UNCHANGED event
     ELSE IF at.iteration < MaxIterations
          THEN at' = [Fresh EXCEPT !.agent = 1, !.iteration = @ + 1, !.pc = "before"] /\ UNCHANGED event
          ELSE at' = [Fresh EXCEPT !.pc = "done"] /\ event' = "final"
  /\ UNCHANGED <<shape, yielded, committed, after>>

Stop == at' = [at EXCEPT !.pc = "done"]

(* Mutant: the event is yielded although committing it failed. *)
Runner_YieldsAnyway(ok, more) ==
  /\ event # None /\ event' = None
  /\ LET commits == event \in {"final", "tool", "error"}
         passes == event # "fail"
     IN /\ committed' = IF commits /\ ok THEN committed + 1 ELSE committed
        /\ yielded' = Append(yielded, IF passes THEN event ELSE "fail")
        /\ IF ~more \/ (passes /\ event = "final") \/ event \in {"fail", "error"} THEN Stop ELSE UNCHANGED at
  /\ UNCHANGED <<shape, after>>
(* IteratorRunner.Run, with the composite agent's checks on the way: an error is     *)
(* passed on and ends the composite; an event is committed unless partial, yielded   *)
(* when that succeeded, and a final response ends the run. A caller that wants no    *)
(* more ends it too.                                                                 *)
Runner(ok, more) ==
  /\ event # None /\ event' = None
  /\ LET commits == event \in {"final", "tool", "error"}
         passes == event # "fail" /\ (commits => ok)
     IN /\ committed' = IF commits /\ ok THEN committed + 1 ELSE committed
        /\ yielded' = Append(yielded, IF passes THEN event ELSE "fail")
        /\ IF ~more \/ (passes /\ event = "final") \/ event \in {"fail", "error"} THEN Stop ELSE UNCHANGED at
  /\ UNCHANGED <<shape, after>>

IterNext ==
  \/ \E outcome \in {"none", "event", "error"} : BeforeCallbacks(outcome) \/ AfterCallbacks(outcome)
  \/ \E k \in Kinds : FlowYields(k)
  \/ StepEnds
  \/ SequentialNext
  \/ LoopNext
  \/ \E ok, more \in BOOLEAN : Runner(ok, more)

IterSpec == IterInit /\ [][IterNext]_iterVars

IterTypeOK ==
  /\ at.agent \in 1..Agents /\ at.iteration \in 1..MaxIterations
  /\ event \in Kinds \cup {None, "fail"} /\ committed \in 0..(IterMaxEvents + 1)

(* Every event the caller has got that is not partial was committed before, so a     *)
(* session never lags behind what was shown.                                         *)
YieldedIsCommitted == Cardinality({i \in DOMAIN yielded : yielded[i] \in {"final", "tool", "error"}}) = committed

(* No agent takes more steps than it may, and a final response is the last event.    *)
StepsBounded ==
  /\ at.step <= MaxSteps
  /\ \A i \in DOMAIN yielded : yielded[i] = "final" => i = Len(yielded)

-----------------------------------------------------------------------------
(* ParallelIterator                                                        *)
(* The parallel iterator agent: one goroutine per sub-agent sends its events to one  *)
(* channel, the caller's loop yields them and counts completed agents.               *)

CONSTANTS Branches, MergeMaxEvents

VARIABLES branch,     \* branch -> [pc, sent]
          loop,       \* "wait", "yield", "returned"
          completed, cancelled,
          done        \* the channel that releases the branches is closed

mergeVars == <<branch, loop, completed, cancelled, done>>

MergeInit ==
  /\ branch = [b \in Branches |-> [pc |-> "run", sent |-> 0]]
  /\ loop = "wait" /\ completed = 0 /\ cancelled = FALSE /\ done = FALSE

(* A sub-agent has an event or an error to yield, or comes to its end. *)
Produce(b) ==
  /\ branch[b].pc = "run" /\ branch[b].sent < MergeMaxEvents
  /\ branch' = [branch EXCEPT ![b].pc = "send"]
  /\ UNCHANGED <<loop, completed, cancelled, done>>
End(b) ==
  /\ branch[b].pc = "run" /\ branch' = [branch EXCEPT ![b].pc = "ended"]
  /\ UNCHANGED <<loop, completed, cancelled, done>>

(* The unbuffered channel: the loop takes what a branch offers. An event counts as a *)
(* completed agent only when it is nil, which no sub-agent sends.                    *)
Merge(b) ==
  /\ loop = "wait" /\ completed < Cardinality(Branches) /\ branch[b].pc = "send"
  /\ branch' = [branch EXCEPT ![b] = [pc |-> "run", sent |-> branch[b].sent + 1]]
  /\ loop' = "yield" /\ UNCHANGED <<completed, cancelled, done>>
Released(b) ==
  /\ branch[b].pc = "send" /\ done /\ branch' = [branch EXCEPT ![b].pc = "ended"]
  /\ UNCHANGED <<loop, completed, cancelled, done>>

(* Mutant: the loop returns and leaves the channel open. *)
Return_Open == loop' = "returned" /\ UNCHANGED done
Return == loop' = "returned" /\ done' = TRUE

(* The consumer takes the event and wants more, or stops; the context is cancelled. *)
Yielded(more) ==
  /\ loop = "yield" /\ (IF more THEN loop' = "wait" /\ UNCHANGED done ELSE Return)
  /\ UNCHANGED <<branch, completed, cancelled>>
Cancelled ==
  /\ loop = "wait" /\ cancelled /\ Return /\ UNCHANGED <<branch, completed, cancelled>>
Cancel ==
  /\ ~cancelled /\ cancelled' = TRUE /\ UNCHANGED <<branch, loop, completed, done>>
MergeNext ==
  \/ \E b \in Branches : Produce(b) \/ End(b) \/ Merge(b) \/ Released(b)
  \/ \E more \in BOOLEAN : Yielded(more)
  \/ Cancelled
  \/ Cancel

MergeSpec == MergeInit /\ [][MergeNext]_mergeVars

(* What fairness is about: the runtime runs every goroutine that can step, and the   *)
(* consumer takes what it is given.                                                  *)
Branch(b) == Produce(b) \/ End(b) \/ Released(b)
Consume == \E more \in BOOLEAN : Yielded(more)
Loop == (\E b \in Branches : Merge(b)) \/ Consume \/ Cancelled

MergeTypeOK == loop \in {"wait", "yield", "returned"} /\ completed \in 0..Cardinality(Branches)

Returned == loop = "returned"
AllEnded == \A b \in Branches : branch[b].pc = "ended"

-----------------------------------------------------------------------------
(* StreamingRun                                                            *)
(* The streaming runtime: an agent's events are collected in the invocation context  *)
(* and replayed to a channel after it has run ("stream"), or taken from a generator  *)
(* one by one ("generator"); each is processed, and a batcher groups what is sent.   *)

CONSTANTS Keys, Values, StreamMaxEvents, MaxSets, Buffer, BatchSize

VARIABLES mode, pc,
          history,     \* invCtx.EventHistory
          deltas,      \* invCtx.StateDeltas: uncommitted changes
          state,       \* invCtx.State, 0 for a key not set
          latest,      \* the value of the latest Set of each key
          sets,
          next, last,  \* the events of the history still to be replayed
          output, sent, batch, batches

streamVars == <<mode, pc, history, deltas, state, latest, sets, next, last, output, sent, batch, batches>>
context == <<history, deltas, state, latest, sets>>
channel == <<output, sent, batch, batches>>

Event(partial, k, v) == [partial |-> partial, key |-> k, value |-> v, final |-> FALSE]
Plain(final) == [partial |-> FALSE, key |-> "", value |-> 0, final |-> final]

(* RunStreaming sends a partial event before it runs the agent. *)
Started == IF mode = "stream" THEN <<Event(TRUE, "", 0)>> ELSE << >>
StreamInit ==
  /\ mode \in {"stream", "generator"} /\ pc = "agent"
  /\ history = << >> /\ deltas = << >> /\ state = [k \in Keys |-> 0] /\ latest = [k \in Keys |-> 0] /\ sets = 0
  /\ next = 1 /\ last = 0 /\ output = Started /\ sent = Started /\ batch = << >> /\ batches = << >>

Of(k) == {i \in DOMAIN deltas : deltas[i].key = k}
(* Mutant: the oldest uncommitted change. *)
Get_Oldest(k) == IF Of(k) = {} THEN state[k] ELSE deltas[CHOOSE i \in Of(k) : \A j \in Of(k) : i <= j].value
(* Get: uncommitted changes first, the newest of them, then the committed state. *)
Get(k) == IF Of(k) = {} THEN state[k] ELSE deltas[CHOOSE i \in Of(k) : \A j \in Of(k) : j <= i].value

Changed(k, v) == IF k = "" THEN deltas ELSE Append(deltas, [key |-> k, value |-> v])
Committed(d) == [k \in Keys |-> LET of == {i \in DOMAIN d : d[i].key = k}
                                IN IF of = {} THEN state[k] ELSE d[CHOOSE i \in of : \A j \in of : j <= i].value]
Latest(k, v) == [j \in Keys |-> IF j = k THEN v ELSE latest[j]]

(* The agent: SetState, and EmitEventWithDelta, which applies the delta of an event  *)
(* that is not partial.                                                              *)
SetState(k, v) ==
  /\ pc = "agent" /\ sets < MaxSets /\ sets' = sets + 1
  /\ deltas' = Changed(k, v) /\ latest' = Latest(k, v)
  /\ UNCHANGED <<mode, pc, history, state, next, last>> /\ UNCHANGED channel
EmitEventWithDelta(partial, k, v) ==
  /\ mode = "stream" /\ pc = "agent" /\ Len(history) < StreamMaxEvents
  /\ history' = Append(history, Event(partial, k, v))
  /\ IF partial THEN UNCHANGED <<deltas, latest>> ELSE deltas' = Changed(k, v) /\ latest' = Latest(k, v)
  /\ UNCHANGED <<mode, pc, state, sets, next, last>> /\ UNCHANGED channel
(* The agent returns: its events are then replayed. *)
Execute ==
  /\ mode = "stream" /\ pc = "agent" /\ pc' = "replay" /\ last' = Len(history)
  /\ UNCHANGED <<mode, next>> /\ UNCHANGED context /\ UNCHANGED channel

Send(e) == Len(output) < Buffer /\ output' = Append(output, e) /\ sent' = Append(sent, e) /\ UNCHANGED <<batch, batches>>

(* processEvent: once more into the history, the delta set, all committed unless the *)
(* event is partial.                                                                 *)
processEvent(e, h) ==
  /\ history' = Append(h, e) /\ latest' = Latest(e.key, e.value)
  /\ LET d == Changed(e.key, e.value)
     IN IF e.partial THEN deltas' = d /\ UNCHANGED state ELSE deltas' = << >> /\ state' = Committed(d)
  /\ UNCHANGED sets

(* Saving a checkpoint may fail: an error event ends the stream. *)
RunStreaming(ok) ==
  /\ mode = "stream" /\ pc = "replay" /\ next <= last
  /\ Send(history[next]) /\ processEvent(history[next], history)
  /\ next' = next + 1 /\ pc' = IF ok THEN pc ELSE "failed"
  /\ UNCHANGED <<mode, last>>
RunWithGenerator(partial, k, v, ok) ==
  /\ mode = "generator" /\ pc = "agent" /\ next <= StreamMaxEvents
  /\ LET e == Event(partial, k, v) IN Send(e) /\ processEvent(e, Append(history, e))
  /\ next' = next + 1 /\ pc' = IF ok THEN pc ELSE "failed"
  /\ UNCHANGED <<mode, last>>

(* The error event, or the agent's error instead of any replay. *)
Fail ==
  /\ pc = "failed" \/ (mode = "stream" /\ pc = "agent")
  /\ Send(Plain(FALSE)) /\ pc' = "closed" /\ UNCHANGED <<mode, next, last>> /\ UNCHANGED context
(* The event that carries the final output; it is not processed. *)
Final ==
  /\ (mode = "stream" /\ pc = "replay" /\ next > last) \/ (mode = "generator" /\ pc = "agent")
  /\ Send(Plain(TRUE)) /\ pc' = "closed" /\ UNCHANGED <<mode, next, last>> /\ UNCHANGED context

(* BatchEvents: a batch leaves when it is full or holds the final event ... *)
BatchEvents ==
  /\ output # << >> /\ output' = Tail(output)
  /\ LET b == Append(batch, Head(output))
     IN IF Len(b) >= BatchSize \/ Head(output).final THEN batches' = batches \o b /\ batch' = << >>
        ELSE batch' = b /\ UNCHANGED batches
  /\ UNCHANGED <<mode, pc, next, last, sent>> /\ UNCHANGED context
(* Mutant: what remains when the channel is closed is not sent. *)
Flush_Dropped ==
  /\ pc = "closed" /\ output = << >> /\ batch # << >>
  /\ batch' = << >> /\ UNCHANGED <<mode, pc, next, last, output, sent, batches>> /\ UNCHANGED context
(* ... and what remains when the channel is closed. *)
Flush ==
  /\ pc = "closed" /\ output = << >> /\ batch # << >>
  /\ batches' = batches \o batch /\ batch' = << >>
  /\ UNCHANGED <<mode, pc, next, last, output, sent>> /\ UNCHANGED context

StreamNext ==
  \/ \E k \in Keys, v \in Values :
       \/ SetState(k, v)
       \/ \E partial \in BOOLEAN : EmitEventWithDelta(partial, k, v) \/ \E ok \in BOOLEAN : RunWithGenerator(partial, k, v, ok)
  \/ Execute
  \/ \E ok \in BOOLEAN : RunStreaming(ok)
  \/ Fail
  \/ Final
  \/ BatchEvents
  \/ Flush

StreamSpec == StreamInit /\ [][StreamNext]_streamVars

StreamTypeOK ==
  /\ pc \in {"agent", "replay", "failed", "closed"} /\ Len(output) <= Buffer /\ Len(batch) < BatchSize
  /\ \A k \in Keys : state[k] \in Values \cup {0}

(* A read in the invocation context sees the latest write, whether it is still       *)
(* uncommitted or was committed, by the agent or by the replay of its events.        *)
ReadsLatestWrite == \A k \in Keys : Get(k) = latest[k]

(* Batching neither loses nor reorders: batches, the open batch and the channel are  *)
(* what was sent, in order.                                                          *)
BatchesAreTheStream == sent = batches \o batch \o output
=============================================================================

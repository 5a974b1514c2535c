---------------------------- MODULE AgentRuntime ----------------------------
(***************************************************************************)
(* The event loop and the LLM flow of src/pkg/runtime.                     *)
(***************************************************************************)
EXTENDS Naturals, Sequences, FiniteSets

-----------------------------------------------------------------------------
(* EventLoop                                                               *)
(***************************************************************************)
(* The event loop of src/pkg/runtime/async_runtime.go: agents yield events *)
(* over unbuffered channels, a runner processes each one, commits those    *)
(* that are not partial to the session, forwards it to the caller, and     *)
(* stops at a pause, a final response, an error of its own or a cancelled  *)
(* context. The agent is an LLM agent (a loop of steps), or several simple *)
(* agents composed by the sequential or the parallel one; the runner is    *)
(* AsyncAgentRuntime, or SyncAgentRuntime, which acknowledges events. The  *)
(* executor of a step yields any events; the caller takes all it is sent.  *)
(***************************************************************************)

CONSTANTS
    Agents,      \* 1..n, in the order the sequential agent runs them
    LoopMaxSteps,  \* maxSteps of an LLM agent
    MaxPerStep   \* bound: events of one step

VARIABLES
    mode,        \* "llm", "sequential" or "parallel"
    sync,        \* the runner is SyncAgentRuntime
    loopCancelled,  \* the context
    agent,       \* the agents' goroutines
    held,        \* parallel: the event each branch has taken from its agent
    parent,      \* the goroutine of the composed agent: pc, position, event
    runner,      \* the runner's goroutine: pc, event
    state,       \* invCtx.State: the events committed in memory
    session,     \* the session service: the events persisted
    forwarded    \* what the caller has received

loopVars == <<mode, sync, loopCancelled, agent, held, parent, runner, state, session, forwarded>>

None == [kind |-> "none", from |-> 0, n |-> 0]
(* "final" is a message that is not partial; "chunk" a partial event;      *)
(* "tool" any other; "error" carries an error and is not partial.          *)
Kinds == {"final", "chunk", "tool", "error"}
LoopEvent == [kind : Kinds, from : {0} \cup Agents, n : Nat] \cup {None}
Committing(ev) == ev.kind # "chunk"

LoopTypeOK ==
    /\ mode \in {"llm", "sequential", "parallel"} /\ sync \in BOOLEAN /\ loopCancelled \in BOOLEAN
    /\ agent \in [Agents -> [pc : {"off", "step", "send", "ack", "sent", "done"}, step : 0..LoopMaxSteps,
                             inStep : 0..MaxPerStep, last : LoopEvent, n : Nat]]
    /\ held \in [Agents -> LoopEvent]
    /\ parent \in [pc : {"off", "start", "run", "relay", "ack", "check", "done"}, i : Nat, ev : LoopEvent]
    /\ runner \in [pc : {"recv", "process", "forward", "check", "fail", "closed"}, ev : LoopEvent]
    /\ state \in Seq(LoopEvent) /\ session \in Seq(LoopEvent) /\ forwarded \in Seq(LoopEvent)

Fresh == [pc |-> "off", step |-> 1, inStep |-> 0, last |-> None, n |-> 0]

LoopInit ==
    /\ mode \in {"llm", "sequential", "parallel"}
    /\ sync \in BOOLEAN /\ (sync => mode = "llm")   \* LLMSyncAgent; not WrapAsyncAgentAsSync, whose agent runs ahead
    /\ loopCancelled = FALSE
    /\ agent = [a \in Agents |-> IF mode = "parallel" \/ (mode = "llm" /\ a = 1)
                                 THEN [Fresh EXCEPT !.pc = "step"] ELSE Fresh]
    /\ held = [a \in Agents |-> None]
    /\ parent = [pc |-> CASE mode = "llm" -> "off" [] mode = "sequential" -> "start"
                          [] mode = "parallel" -> "run", i |-> 1, ev |-> None]
    /\ runner = [pc |-> "recv", ev |-> None]
    /\ state = <<>> /\ session = <<>> /\ forwarded = <<>>

LoopCancel ==
    /\ ~loopCancelled /\ loopCancelled' = TRUE
    /\ UNCHANGED <<mode, sync, agent, held, parent, runner, state, session, forwarded>>

-----------------------------------------------------------------------------
(* LLMAsyncAgent.RunAsync and LLMSyncAgent.RunSync: the step loop.         *)
Sends(a, k) ==
    agent' = [agent EXCEPT ![a].pc = "send", ![a].n = @ + 1,
                           ![a].last = [kind |-> k, from |-> a, n |-> agent[a].n + 1]]

Rest == UNCHANGED <<mode, sync, loopCancelled, held, parent, runner, state, session, forwarded>>

(* The executor of the step yields an event; a SimpleAsyncAgent yields one *)
(* message or error and ends.                                              *)
ExecuteStep(a, k) ==
    /\ agent[a].pc = "step" /\ agent[a].inStep < MaxPerStep
    /\ mode # "llm" => k \in {"final", "error"}
    /\ agent' = [agent EXCEPT ![a].pc = "send", ![a].n = @ + 1, ![a].inStep = @ + 1,
                              ![a].last = [kind |-> k, from |-> a, n |-> agent[a].n + 1]]
    /\ Rest

(* The event has been taken (and acknowledged): an error ends the agent.   *)
Resume(a) ==
    /\ agent[a].pc = "sent"
    /\ agent' = [agent EXCEPT ![a].pc = IF agent[a].last.kind = "error" \/ agent[a].step = 0 \/ mode # "llm"
                                        THEN "done" ELSE "step"]
    /\ Rest

(* The step is over: no event or a final one ends the agent, then the      *)
(* context is read, then the next step begins or the limit is reported.    *)
(* step = 0 marks an agent that yields its last event.                     *)
LoopEndStep(a) ==
    /\ mode = "llm" /\ agent[a].pc = "step"
    /\ CASE agent[a].inStep = 0 \/ agent[a].last.kind = "final" -> agent' = [agent EXCEPT ![a].pc = "done"]
         [] agent[a].inStep > 0 /\ agent[a].last.kind # "final" /\ loopCancelled -> Sends(a, "error")
         [] agent[a].inStep > 0 /\ agent[a].last.kind # "final" /\ ~loopCancelled /\ agent[a].step = LoopMaxSteps ->
                agent' = [agent EXCEPT ![a].pc = "send", ![a].n = @ + 1, ![a].step = 0,
                                       ![a].last = [kind |-> "final", from |-> a, n |-> agent[a].n + 1]]
         [] OTHER -> agent' = [agent EXCEPT ![a].step = @ + 1, ![a].inStep = 0, ![a].last = None]
    /\ Rest

-----------------------------------------------------------------------------
(* SequentialAsyncAgent.RunAsync: announce an agent, run it, relay its     *)
(* events, stop at an error, read the context between two agents.          *)
Announce ==
    /\ mode = "sequential" /\ parent.pc = "start"
    /\ parent' = [parent EXCEPT !.pc = "relay", !.ev = [kind |-> "chunk", from |-> 0, n |-> parent.i]]
    /\ UNCHANGED <<mode, sync, loopCancelled, agent, held, runner, state, session, forwarded>>

RelaySequential ==
    LET a == parent.i IN
    /\ mode = "sequential" /\ parent.pc = "run"
    /\ agent[a].pc = "send"
    /\ parent' = [parent EXCEPT !.pc = "relay", !.ev = agent[a].last]
    /\ agent' = [agent EXCEPT ![a].pc = "sent"]
    /\ UNCHANGED <<mode, sync, loopCancelled, held, runner, state, session, forwarded>>

AgentEnds ==
    /\ mode = "sequential" /\ parent.pc = "run" /\ agent[parent.i].pc = "done"
    /\ parent' = [parent EXCEPT !.pc = "check"]
    /\ UNCHANGED <<mode, sync, loopCancelled, agent, held, runner, state, session, forwarded>>

NextAgent ==
    /\ mode = "sequential" /\ parent.pc = "check"
    /\ parent' = CASE loopCancelled -> [parent EXCEPT !.pc = "relay", !.ev = [kind |-> "error", from |-> 0, n |-> 0]]
                   [] ~loopCancelled /\ parent.i + 1 \in Agents -> [parent EXCEPT !.pc = "start", !.i = @ + 1]
                   [] OTHER -> [parent EXCEPT !.pc = "done"]
    /\ UNCHANGED <<mode, sync, loopCancelled, agent, held, runner, state, session, forwarded>>

(* ParallelAsyncAgent.RunAsync: a branch takes its agent's event, the      *)
(* forwarder takes a branch's; it ends when all agents have.               *)
Branch(a) ==
    /\ mode = "parallel" /\ agent[a].pc = "send" /\ held[a] = None
    /\ held' = [held EXCEPT ![a] = agent[a].last]
    /\ agent' = [agent EXCEPT ![a].pc = "sent"]
    /\ UNCHANGED <<mode, sync, loopCancelled, parent, runner, state, session, forwarded>>

Merge(a) ==
    /\ mode = "parallel" /\ parent.pc = "run" /\ held[a] # None
    /\ parent' = [parent EXCEPT !.pc = "relay", !.ev = held[a]]
    /\ held' = [held EXCEPT ![a] = None]
    /\ UNCHANGED <<mode, sync, loopCancelled, agent, runner, state, session, forwarded>>

(* Mutant: wg.Done is skipped by a branch that saw an error. *)
AllEnd_ErrorHangs ==
    /\ mode = "parallel" /\ parent.pc = "run"
    /\ \A a \in Agents : agent[a].pc = "done" /\ agent[a].last.kind # "error" /\ held[a] = None
    /\ parent' = [parent EXCEPT !.pc = "done"]
    /\ UNCHANGED <<mode, sync, loopCancelled, agent, held, runner, state, session, forwarded>>

AllEnd ==
    /\ mode = "parallel" /\ parent.pc = "run"
    /\ \A a \in Agents : agent[a].pc = "done" /\ held[a] = None
    /\ parent' = [parent EXCEPT !.pc = "done"]
    /\ UNCHANGED <<mode, sync, loopCancelled, agent, held, runner, state, session, forwarded>>

(* What the composed agent does once its event has been taken.             *)
AfterRelay ==
    CASE mode = "parallel" -> [parent EXCEPT !.pc = "run", !.ev = None]
      [] mode = "sequential" /\ parent.ev.kind = "error" -> [parent EXCEPT !.pc = "done"]
      [] OTHER -> [parent EXCEPT !.pc = "run", !.ev = None]

-----------------------------------------------------------------------------
(* The runner receives. With the sync runner the sender stays paused.      *)
Starts(ev) == IF mode = "sequential" /\ ev.from = 0 /\ ev.kind = "chunk"
              THEN [agent EXCEPT ![parent.i].pc = "step"] ELSE agent

(* Mutant: the sender is not paused. *)
Receive_Unpaused ==
    /\ runner.pc = "recv"
    /\ \/ /\ mode = "llm" /\ agent[1].pc = "send"
          /\ runner' = [pc |-> "process", ev |-> agent[1].last]
          /\ agent' = [agent EXCEPT ![1].pc = "sent"]
          /\ UNCHANGED parent
       \/ /\ parent.pc = "relay"
          /\ runner' = [pc |-> "process", ev |-> parent.ev]
          /\ agent' = Starts(parent.ev)
          /\ parent' = AfterRelay
    /\ UNCHANGED <<mode, sync, loopCancelled, held, state, session, forwarded>>

Receive ==
    /\ runner.pc = "recv"
    /\ \/ /\ mode = "llm" /\ agent[1].pc = "send"
          /\ runner' = [pc |-> "process", ev |-> agent[1].last]
          /\ agent' = [agent EXCEPT ![1].pc = IF sync THEN "ack" ELSE "sent"]
          /\ UNCHANGED parent
       \/ /\ parent.pc = "relay"
          /\ runner' = [pc |-> "process", ev |-> parent.ev]
          /\ agent' = Starts(parent.ev)
          /\ parent' = AfterRelay
    /\ UNCHANGED <<mode, sync, loopCancelled, held, state, session, forwarded>>

Acknowledge == agent' = IF sync THEN [agent EXCEPT ![1].pc = "sent"] ELSE agent

(* Mutant: a failure to persist the session is not reported. *)
processEvent_IgnoresError(ok) ==
    LET ev == runner.ev IN
    /\ runner.pc = "process" /\ (Committing(ev) \/ ok)
    /\ state' = IF Committing(ev) THEN Append(state, ev) ELSE state
    /\ session' = IF Committing(ev) /\ ok THEN state' ELSE session
    /\ Acknowledge
    /\ runner' = [runner EXCEPT !.pc = "forward"]
    /\ UNCHANGED <<mode, sync, loopCancelled, held, parent, forwarded>>

(* processEvent and the acknowledgement after it, on success and failure.  *)
processEvent(ok) ==
    LET ev == runner.ev IN
    /\ runner.pc = "process" /\ (Committing(ev) \/ ok)
    /\ state' = IF Committing(ev) THEN Append(state, ev) ELSE state
    /\ session' = IF Committing(ev) /\ ok THEN state' ELSE session
    /\ Acknowledge
    /\ runner' = [runner EXCEPT !.pc = IF ok THEN "forward" ELSE "fail"]
    /\ UNCHANGED <<mode, sync, loopCancelled, held, parent, forwarded>>

Forward ==
    /\ runner.pc = "forward"
    /\ forwarded' = Append(forwarded, runner.ev)
    /\ runner' = [runner EXCEPT !.pc = "check"]
    /\ UNCHANGED <<mode, sync, loopCancelled, agent, held, parent, state, session>>

(* shouldPauseFunc is the caller's: it may pause at any event.             *)
Check(pause) ==
    /\ runner.pc = "check"
    /\ runner' = [ev |-> runner.ev, pc |-> IF pause \/ runner.ev.kind = "final" THEN "closed"
                                           ELSE IF loopCancelled THEN "fail" ELSE "recv"]
    /\ UNCHANGED <<mode, sync, loopCancelled, agent, held, parent, state, session, forwarded>>

(* An error of the runner itself is forwarded without being committed.     *)
Fail ==
    /\ runner.pc = "fail"
    /\ forwarded' = Append(forwarded, [kind |-> "error", from |-> 0, n |-> 0])
    /\ runner' = [runner EXCEPT !.pc = "closed"]
    /\ UNCHANGED <<mode, sync, loopCancelled, agent, held, parent, state, session>>

SourceCloses ==
    /\ runner.pc = "recv"
    /\ IF mode = "llm" THEN agent[1].pc = "done" ELSE parent.pc = "done"
    /\ runner' = [runner EXCEPT !.pc = "closed"]
    /\ UNCHANGED <<mode, sync, loopCancelled, agent, held, parent, state, session, forwarded>>

Producers ==
    \/ \E a \in Agents : (\E k \in Kinds : ExecuteStep(a, k)) \/ LoopEndStep(a) \/ Resume(a) \/ Branch(a) \/ Merge(a)
    \/ Announce \/ RelaySequential \/ AgentEnds \/ NextAgent \/ AllEnd
Runner ==
    \/ Receive \/ Forward \/ Fail \/ SourceCloses
    \/ \E ok \in BOOLEAN : processEvent(ok) \/ Check(ok)
LoopNext == LoopCancel \/ Producers \/ Runner

LoopSpec == LoopInit /\ [][LoopNext]_loopVars

-----------------------------------------------------------------------------
LoopClosed == runner.pc = "closed"

Commits(s) == SelectSeq(s, LAMBDA ev : ev.kind # "chunk" /\ ev # [kind |-> "error", from |-> 0, n |-> 0])

(* Non-partial events are persisted before the caller sees them, in the    *)
(* order the caller sees them; at most the event being handled is ahead.   *)
(* (The sequential agent's own cancellation error is a committed event     *)
(* that looks like the runner's; both are left out.)                       *)
CommittedBeforeForwarded ==
    LET f == Commits(forwarded) s == Commits(session) IN
    Len(f) <= Len(s) /\ f = SubSeq(s, 1, Len(f)) /\ Len(s) <= Len(f) + 1

(* The sync runner: an agent that goes on after Yield finds the event it   *)
(* yielded committed to its state.                                         *)
SeesOwnCommits ==
    sync /\ mode = "llm" /\ agent[1].pc \in {"sent", "step"} /\ agent[1].last # None /\ Committing(agent[1].last)
        => \E i \in DOMAIN state : state[i] = agent[1].last

-----------------------------------------------------------------------------
(* LlmFlow                                                                 *)
(***************************************************************************)
(* LlmFlow of src/pkg/runtime/llm_flow.go: the loop of steps (RunAsync),   *)
(* one step (runOneStepAsync: request processors, the model call, response *)
(* processors, function calls) and the model call (callLlmAsync: plugins   *)
(* and callbacks before the model, the call limit, the stream of responses *)
(* with after-model callbacks). Each is a goroutine; they hand events over *)
(* unbuffered channels. The model, the processors, the callbacks and the   *)
(* tools are free to do anything.                                          *)
(***************************************************************************)

CONSTANTS
    FlowMaxSteps,  \* LlmFlow.MaxSteps
    MaxLLMCalls,   \* RunConfig.MaxLLMCalls; 0 is no limit
    MaxStream,     \* bound: responses of one model call
    MaxFn          \* bound: function calls in one response

VARIABLES
    conf,       \* CFC mode with a live provider, SSE streaming, an LlmProvider
    flowCancelled,  \* the context
    endInvocation,
    loop,       \* RunAsync
    stepper,    \* runOneStepAsync and handleFunctionCallsAsync
    caller,     \* callLlmAsync and the goroutines that run the model
    calls,      \* invCtx.LLMCallCount
    generated   \* how often GenerateContent was called

flowVars == <<conf, flowCancelled, endInvocation, loop, stepper, caller, calls, generated>>

(* A response: its function calls, whether it has content, is partial (and *)
(* then a piece of text), is an error. An event: its type, partial, the    *)
(* calls it makes or answers.                                              *)
Response == [calls : 0..MaxFn, content : BOOLEAN, partial : BOOLEAN, err : BOOLEAN]
Responses == {r \in Response : (r.calls > 0 => r.content) /\ (r.partial => r.calls = 0 /\ ~r.err)}
ErrorResponse == [calls |-> 0, content |-> FALSE, partial |-> FALSE, err |-> TRUE]
NoResponse == [calls |-> 0, content |-> FALSE, partial |-> FALSE, err |-> FALSE]
FlowEvent == [type : {"none", "status", "message", "call", "result", "error"}, partial : BOOLEAN, n : 0..MaxFn]
NoEvent == [type |-> "none", partial |-> FALSE, n |-> 0]
StatusEvent == [type |-> "status", partial |-> TRUE, n |-> 0]

FlowTypeOK ==
    /\ conf \in [cfc : BOOLEAN, sse : BOOLEAN, provider : BOOLEAN]
    /\ flowCancelled \in BOOLEAN /\ endInvocation \in BOOLEAN
    /\ loop \in [pc : {"next", "recv", "closed"}, step : 0..FlowMaxSteps, last : FlowEvent]
    /\ stepper \in [pc : {"off", "pre", "recv", "post", "emit", "tools", "done"}, resp : Responses, answered : 0..MaxFn]
    /\ caller \in [pc : {"off", "before", "gate", "stream", "send", "answer", "done"}, resp : Responses, n : 0..MaxStream]
    /\ calls \in 0..FlowMaxSteps /\ generated \in 0..FlowMaxSteps

FlowInit ==
    /\ conf \in [cfc : BOOLEAN, sse : BOOLEAN, provider : BOOLEAN]
    /\ flowCancelled = FALSE /\ endInvocation = FALSE
    /\ loop = [pc |-> "next", step |-> 0, last |-> NoEvent]
    /\ stepper = [pc |-> "off", resp |-> NoResponse, answered |-> 0]
    /\ caller = [pc |-> "off", resp |-> NoResponse, n |-> 0]
    /\ calls = 0 /\ generated = 0

FlowCancel ==
    /\ ~flowCancelled /\ flowCancelled' = TRUE
    /\ UNCHANGED <<conf, endInvocation, loop, stepper, caller, calls, generated>>

-----------------------------------------------------------------------------
(* RunAsync.                                                               *)
StartStep ==
    /\ loop.pc = "next" /\ loop.step < FlowMaxSteps
    /\ loop' = [pc |-> "recv", step |-> loop.step + 1, last |-> NoEvent]
    /\ stepper' = [pc |-> "pre", resp |-> NoResponse, answered |-> 0]
    /\ caller' = [pc |-> "off", resp |-> NoResponse, n |-> 0]
    /\ UNCHANGED <<conf, flowCancelled, endInvocation, calls, generated>>

(* The event "Maximum steps reached".                                      *)
StepLimit ==
    /\ loop.pc = "next" /\ loop.step = FlowMaxSteps
    /\ loop' = [loop EXCEPT !.pc = "closed"]
    /\ UNCHANGED <<conf, flowCancelled, endInvocation, stepper, caller, calls, generated>>

IsFinalResponse(ev) == ev.type = "message" /\ ~ev.partial

FlowEndStep ==
    /\ loop.pc = "recv" /\ stepper.pc = "done"
    /\ loop' = [loop EXCEPT !.pc =
           IF loop.last = NoEvent \/ IsFinalResponse(loop.last) \/ flowCancelled THEN "closed" ELSE "next"]
    /\ UNCHANGED <<conf, flowCancelled, endInvocation, stepper, caller, calls, generated>>

(* A step's event is forwarded; after an error the loop no longer reads,   *)
(* and the goroutines behind it stay blocked on their channels.            *)
Yield(ev) ==
    /\ loop.pc = "recv"
    /\ loop' = [loop EXCEPT !.last = ev, !.pc = IF ev.type = "error" THEN "closed" ELSE "recv"]

YieldStatus(b) == IF b THEN Yield(StatusEvent) ELSE UNCHANGED loop

-----------------------------------------------------------------------------
(* runOneStepAsync: the request processors may yield and may end the       *)
(* invocation, which only ends the step.                                   *)
Preprocess(status, end) ==
    /\ stepper.pc = "pre"
    /\ YieldStatus(status)
    /\ endInvocation' = (endInvocation \/ end)
    /\ stepper' = [stepper EXCEPT !.pc = IF endInvocation' THEN "done" ELSE "recv"]
    /\ caller' = IF endInvocation' THEN caller ELSE [caller EXCEPT !.pc = "before"]
    /\ UNCHANGED <<conf, flowCancelled, calls, generated>>

TakeResponse ==
    /\ stepper.pc = "recv" /\ caller.pc \in {"send", "answer"}
    /\ stepper' = [pc |-> "post", resp |-> caller.resp, answered |-> 0]
    /\ caller' = [caller EXCEPT !.pc = IF caller.pc = "send" THEN "stream" ELSE "done"]
    /\ UNCHANGED <<conf, flowCancelled, endInvocation, loop, calls, generated>>

Skipped(r) == ~r.content /\ ~r.err

Postprocess(status, interrupted) ==
    /\ stepper.pc = "post"
    /\ YieldStatus(status)
    /\ stepper' = [stepper EXCEPT !.pc = IF Skipped(stepper.resp) /\ ~interrupted THEN "recv" ELSE "emit"]
    /\ UNCHANGED <<conf, flowCancelled, endInvocation, caller, calls, generated>>

finalizeModelResponseEvent(r) ==
    [type |-> IF r.err THEN "error" ELSE IF r.calls > 0 THEN "call" ELSE "message",
     partial |-> r.partial, n |-> r.calls]

EmitResponse ==
    /\ stepper.pc = "emit"
    /\ Yield(finalizeModelResponseEvent(stepper.resp))
    /\ stepper' = [stepper EXCEPT !.pc = IF stepper.resp.calls > 0 THEN "tools" ELSE "recv"]
    /\ UNCHANGED <<conf, flowCancelled, endInvocation, caller, calls, generated>>

(* handleFunctionCallsAsync: an unknown tool, a rejecting callback, a tool *)
(* with no handler, a failed and a successful handler each give a response.*)
Outcomes == {"unknown", "rejected", "no handler", "failed", "ok"}

(* Mutant: a rejected call is skipped without a response. *)
HandleCall_SkipsRejected(o) ==
    /\ stepper.pc = "tools" /\ stepper.answered < stepper.resp.calls
    /\ stepper' = IF o = "rejected" THEN [stepper EXCEPT !.resp.calls = @ - 1]
                  ELSE [stepper EXCEPT !.answered = @ + 1]
    /\ UNCHANGED <<conf, flowCancelled, endInvocation, loop, caller, calls, generated>>

HandleCall(o) ==
    /\ stepper.pc = "tools" /\ stepper.answered < stepper.resp.calls /\ o \in Outcomes
    /\ stepper' = [stepper EXCEPT !.answered = @ + 1]
    /\ UNCHANGED <<conf, flowCancelled, endInvocation, loop, caller, calls, generated>>

EmitResults ==
    /\ stepper.pc = "tools" /\ stepper.answered = stepper.resp.calls
    /\ Yield([type |-> "result", partial |-> FALSE, n |-> stepper.answered])
    /\ stepper' = [stepper EXCEPT !.pc = "recv"]
    /\ UNCHANGED <<conf, flowCancelled, endInvocation, caller, calls, generated>>

(* Mutant: a step without a response is not closed. *)
CloseStep_NeedsResponse ==
    /\ stepper.pc = "recv" /\ caller.pc = "done" /\ stepper.resp # NoResponse
    /\ stepper' = [stepper EXCEPT !.pc = "done"]
    /\ UNCHANGED <<conf, flowCancelled, endInvocation, loop, caller, calls, generated>>

CloseStep ==
    /\ stepper.pc = "recv" /\ caller.pc = "done"
    /\ stepper' = [stepper EXCEPT !.pc = "done"]
    /\ UNCHANGED <<conf, flowCancelled, endInvocation, loop, caller, calls, generated>>

-----------------------------------------------------------------------------
(* callLlmAsync. A plugin or a callback may fail or answer for the model;  *)
(* either response is the only one of the call ("answer").                 *)
BeforeModel(r) ==
    /\ caller.pc = "before"
    /\ \/ caller' = [caller EXCEPT !.pc = "gate"]
       \/ caller' = [caller EXCEPT !.pc = "answer", !.resp = r]
       \/ caller' = [caller EXCEPT !.pc = "answer", !.resp = ErrorResponse]
    /\ UNCHANGED <<conf, flowCancelled, endInvocation, loop, stepper, calls, generated>>

(* Mutant: the limit is compared before the call is counted. *)
StartModel_LateCount ==
    /\ caller.pc = "gate" /\ ~conf.cfc
    /\ calls' = calls + 1
    /\ IF (MaxLLMCalls > 0 /\ calls > MaxLLMCalls) \/ ~conf.provider
       THEN /\ caller' = [caller EXCEPT !.pc = "answer", !.resp = ErrorResponse]
            /\ UNCHANGED generated
       ELSE /\ caller' = [caller EXCEPT !.pc = "stream"]
            /\ generated' = generated + 1
    /\ UNCHANGED <<conf, flowCancelled, endInvocation, loop, stepper>>

(* IncrementLLMCallCount, the test for a provider, GenerateContent.        *)
StartModel ==
    /\ caller.pc = "gate" /\ ~conf.cfc
    /\ calls' = calls + 1
    /\ IF (MaxLLMCalls > 0 /\ calls' > MaxLLMCalls) \/ ~conf.provider
       THEN /\ caller' = [caller EXCEPT !.pc = "answer", !.resp = ErrorResponse]
            /\ UNCHANGED generated
       ELSE /\ caller' = [caller EXCEPT !.pc = "stream"]
            /\ generated' = generated + 1
    /\ UNCHANGED <<conf, flowCancelled, endInvocation, loop, stepper>>

(* CFC mode sends the request to a live session and counts no call.        *)
StartLive ==
    /\ caller.pc = "gate" /\ conf.cfc
    /\ caller' = [caller EXCEPT !.pc = "stream"]
    /\ UNCHANGED <<conf, flowCancelled, endInvocation, loop, stepper, calls, generated>>

(* One response, after error recovery and the after-model callbacks, each  *)
(* of which may put another in its place; partial ones go on only when     *)
(* streaming.                                                              *)
ModelResponds(r) ==
    /\ caller.pc = "stream" /\ caller.n < MaxStream
    /\ caller' = IF conf.sse \/ ~r.partial THEN [pc |-> "send", resp |-> r, n |-> caller.n + 1]
                 ELSE [caller EXCEPT !.n = @ + 1]
    /\ UNCHANGED <<conf, flowCancelled, endInvocation, loop, stepper, calls, generated>>

(* The model's stream closes; after a panic, or an error recovered in CFC  *)
(* mode, a last response (the recovery's, or the error) comes first.       *)
ModelEnds(r, panics) ==
    /\ caller.pc = "stream"
    /\ caller' = IF panics /\ (conf.sse \/ ~r.partial) THEN [caller EXCEPT !.pc = "answer", !.resp = r]
                 ELSE [caller EXCEPT !.pc = "done"]
    /\ UNCHANGED <<conf, flowCancelled, endInvocation, loop, stepper, calls, generated>>

Steps ==
    \/ StartStep \/ StepLimit \/ FlowEndStep \/ TakeResponse \/ EmitResponse \/ EmitResults \/ CloseStep
    \/ \E b \in BOOLEAN, e \in BOOLEAN : Preprocess(b, e) \/ Postprocess(b, e)
    \/ \E o \in Outcomes : HandleCall(o)
Model ==
    \/ StartModel \/ StartLive
    \/ \E r \in Responses : BeforeModel(r) \/ ModelResponds(r) \/ (\E p \in BOOLEAN : ModelEnds(r, p))
FlowNext == FlowCancel \/ Steps \/ Model

FlowSpec == FlowInit /\ [][FlowNext]_flowVars

-----------------------------------------------------------------------------
FlowClosed == loop.pc = "closed"

(* The invocation's budget holds across steps, callbacks that answer for   *)
(* the model and refused attempts: the provider is never called more often *)
(* than MaxLLMCalls, and never more than once a step.                      *)
CallBudget == generated <= loop.step /\ (MaxLLMCalls > 0 => generated <= MaxLLMCalls)

(* A step's tool results answer every function call of the response before *)
(* them, whatever happens to each call.                                    *)
CallsAnswered == loop'.last.type = "result" /\ loop'.last # loop.last => loop'.last.n = loop.last.n
=============================================================================

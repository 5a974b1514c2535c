---------------------------- MODULE FlowSupport -----------------------------
(***************************************************************************)
(* What the LLM flow uses: live sessions, the tracker of running tools,    *)
(* plugins, request processors and the export of spans.                    *)
(***************************************************************************)
EXTENDS Naturals, Sequences, FiniteSets, SequencesExt

-----------------------------------------------------------------------------
(* LiveSession                                                             *)
(***************************************************************************)
(* Live sessions of src/pkg/runtime/llm_flow.go: LiveSessionManager (one   *)
(* lock), the request queue of a session, callers that send messages and   *)
(* interrupts, and RunLive, which reads the provider's responses, runs the *)
(* function calls in them and sends the results back to the queue. Nothing *)
(* guards a session's Closed flag or its queue: a sender that has passed   *)
(* the test may find the channel closed, and then panics.                  *)
(***************************************************************************)

CONSTANTS
    Sessions,   \* identifiers generateID may give out
    Callers,
    Cap         \* capacity of the request channel (10 in the code)

VARIABLES
    sessions,   \* the manager's map: sessions it holds
    st,         \* per session: created, Closed, queue, activity, pause
    caller,     \* SendLiveMessage and InterruptLiveSession
    live        \* RunLive, one per session

liveVars == <<sessions, st, caller, live>>

Fresh == [created |-> FALSE, closed |-> FALSE, qclosed |-> FALSE, len |-> 0, events |-> 0,
          idle |-> FALSE, paused |-> FALSE]

LiveTypeOK ==
    /\ sessions \subseteq Sessions
    /\ st \in [Sessions -> [created : BOOLEAN, closed : BOOLEAN, qclosed : BOOLEAN, len : 0..Cap,
                            events : 0..2, idle : BOOLEAN, paused : BOOLEAN]]
    /\ caller \in [Callers -> [pc : {"idle", "send", "put", "panicked"}, s : Sessions]]
    /\ live \in [Sessions -> {"off", "recv", "tools", "send", "put", "closed", "panicked"}]

LiveInit ==
    /\ sessions = {}
    /\ st = [s \in Sessions |-> Fresh]
    /\ caller \in [Callers -> [pc : {"idle"}, s : {CHOOSE s \in Sessions : TRUE}]]
    /\ live = [s \in Sessions |-> "off"]

CreateSession(s) ==
    /\ ~st[s].created
    /\ st' = [st EXCEPT ![s].created = TRUE]
    /\ sessions' = sessions \cup {s}
    /\ UNCHANGED <<caller, live>>

(* Closed, the queue closed unless it is, the event channel closed.        *)
Closing(s) == [st EXCEPT ![s].closed = TRUE, ![s].qclosed = TRUE, ![s].events = @ + 1]

(* Mutant: a closed session stays in the map. *)
CloseSession_Keeps(s) ==
    /\ s \in sessions /\ st[s].events < 2
    /\ st' = Closing(s)
    /\ UNCHANGED <<sessions, caller, live>>

CloseSession(s) ==
    /\ s \in sessions
    /\ st' = Closing(s)
    /\ sessions' = sessions \ {s}
    /\ UNCHANGED <<caller, live>>

(* Mutant: an idle session is dropped without closing its queue. *)
CleanupIdleSessions_QueueOpen ==
    LET old == {s \in sessions : st[s].idle} IN
    /\ old # {}
    /\ st' = [s \in Sessions |-> IF s \in old THEN [Closing(s)[s] EXCEPT !.qclosed = FALSE] ELSE st[s]]
    /\ sessions' = sessions \ old
    /\ UNCHANGED <<caller, live>>

CleanupIdleSessions ==
    LET old == {s \in sessions : st[s].idle} IN
    /\ old # {}
    /\ st' = [s \in Sessions |-> IF s \in old THEN Closing(s)[s] ELSE st[s]]
    /\ sessions' = sessions \ old
    /\ UNCHANGED <<caller, live>>

(* MaxIdleTime passes without activity.                                    *)
GrowIdle(s) ==
    /\ s \in sessions /\ ~st[s].idle
    /\ st' = [st EXCEPT ![s].idle = TRUE]
    /\ UNCHANGED <<sessions, caller, live>>

PauseSession(s) ==
    /\ s \in sessions
    /\ st' = [st EXCEPT ![s].paused = TRUE]
    /\ UNCHANGED <<sessions, caller, live>>

ResumeSession(s) ==
    /\ s \in sessions
    /\ st' = [st EXCEPT ![s].paused = FALSE, ![s].idle = FALSE]
    /\ UNCHANGED <<sessions, caller, live>>

-----------------------------------------------------------------------------
(* A caller holds the session it got from the manager and tests Closed; a  *)
(* message counts as activity, an interrupt does not.                      *)
SendLiveMessage(c, s) ==
    /\ caller[c].pc = "idle" /\ st[s].created /\ ~st[s].closed
    /\ caller' = [caller EXCEPT ![c] = [pc |-> "send", s |-> s]]
    /\ st' = [st EXCEPT ![s].idle = FALSE]
    /\ UNCHANGED <<sessions, live>>

InterruptLiveSession(c, s) ==
    /\ caller[c].pc = "idle" /\ st[s].created /\ ~st[s].closed
    /\ caller' = [caller EXCEPT ![c] = [pc |-> "send", s |-> s]]
    /\ UNCHANGED <<sessions, st, live>>

(* LiveRequestQueue.Send: the flag is read, then the channel is sent to.   *)
Send(c) ==
    /\ caller[c].pc = "send"
    /\ caller' = [caller EXCEPT ![c].pc = IF st[caller[c].s].qclosed THEN "idle" ELSE "put"]
    /\ UNCHANGED <<sessions, st, live>>

Put(c) ==
    LET s == caller[c].s IN
    /\ caller[c].pc = "put" /\ (st[s].qclosed \/ st[s].len < Cap)
    /\ caller' = [caller EXCEPT ![c].pc = IF st[s].qclosed THEN "panicked" ELSE "idle"]
    /\ st' = IF st[s].qclosed THEN st ELSE [st EXCEPT ![s].len = @ + 1]
    /\ UNCHANGED <<sessions, live>>

-----------------------------------------------------------------------------
RunLive(s) ==
    /\ live[s] = "off" /\ st[s].created
    /\ live' = [live EXCEPT ![s] = "recv"]
    /\ UNCHANGED <<sessions, st, caller>>

(* The provider takes requests while the queue has some.                   *)
ProviderTakes(s) ==
    /\ live[s] \notin {"off", "closed"} /\ st[s].len > 0
    /\ st' = [st EXCEPT ![s].len = @ - 1]
    /\ UNCHANGED <<sessions, caller, live>>

(* A response: processors, the event, function calls, turn completion.     *)
Respond(s, calls, cancelled) ==
    /\ live[s] = "recv"
    /\ st' = [st EXCEPT ![s].idle = FALSE]
    /\ live' = [live EXCEPT ![s] = IF calls THEN "tools" ELSE IF cancelled THEN "closed" ELSE "recv"]
    /\ UNCHANGED <<sessions, caller>>

(* handleLiveFunctionCalls: tools run, the results are emitted, and, if    *)
(* the queue is not closed, sent back as a request.                        *)
LiveTools(s) ==
    /\ live[s] = "tools"
    /\ live' = [live EXCEPT ![s] = IF st[s].qclosed THEN "recv" ELSE "send"]
    /\ UNCHANGED <<sessions, st, caller>>

Followup(s) ==
    /\ live[s] = "send"
    /\ live' = [live EXCEPT ![s] = IF st[s].qclosed THEN "recv" ELSE "put"]
    /\ UNCHANGED <<sessions, st, caller>>

PutFollowup(s) ==
    /\ live[s] = "put" /\ (st[s].qclosed \/ st[s].len < Cap)
    /\ live' = [live EXCEPT ![s] = IF st[s].qclosed THEN "panicked" ELSE "recv"]
    /\ st' = IF st[s].qclosed THEN st ELSE [st EXCEPT ![s].len = @ + 1]
    /\ UNCHANGED <<sessions, caller>>

(* The provider closes its stream once the queue is closed and drained.    *)
StreamCloses(s) ==
    /\ live[s] = "recv" /\ st[s].qclosed /\ st[s].len = 0
    /\ live' = [live EXCEPT ![s] = "closed"]
    /\ UNCHANGED <<sessions, st, caller>>

LiveNext ==
    \/ \E s \in Sessions : CreateSession(s) \/ CloseSession(s) \/ GrowIdle(s) \/ PauseSession(s) \/ ResumeSession(s)
    \/ CleanupIdleSessions
    \/ \E c \in Callers : Send(c) \/ Put(c) \/ \E s \in Sessions : SendLiveMessage(c, s) \/ InterruptLiveSession(c, s)
    \/ \E s \in Sessions :
          \/ RunLive(s) \/ ProviderTakes(s) \/ LiveTools(s) \/ Followup(s) \/ PutFollowup(s) \/ StreamCloses(s)
          \/ \E a, b \in BOOLEAN : Respond(s, a, b)

LiveSpec == LiveInit /\ [][LiveNext]_liveVars

-----------------------------------------------------------------------------
(* The event channel of a session is closed at most once, by CloseSession  *)
(* or by the cleanup of idle sessions, so neither panics.                  *)
ClosedOnce == \A s \in Sessions : st[s].events <= 1

(* A session that has left the manager has a closed queue, so its provider *)
(* learns that no more requests come, and it takes no new message.         *)
LeftIsClosed == \A s \in Sessions : st[s].created /\ s \notin sessions => st[s].qclosed /\ st[s].closed

-----------------------------------------------------------------------------
(* ToolTracker                                                             *)
(***************************************************************************)
(* LongRunningToolTracker of src/pkg/runtime/llm_flow.go, used by the      *)
(* goroutines that run the tools, by callers that cancel one, and by a     *)
(* periodic cleanup. Every method holds the tracker's lock. A tool that    *)
(* has not ended has the zero EndTime, which is before every cutoff.       *)
(***************************************************************************)

CONSTANT TrackerTools

VARIABLES
    trackerTools,  \* the map: status of each tool it holds, or "absent"
    trackerOld,  \* tools whose EndTime is before the cutoff of the next cleanup
    worker,    \* the goroutine that runs a tool
    asked,     \* tools CancelTool was called for
    progress   \* whether a progress report was stored

trackerVars == <<trackerTools, trackerOld, worker, asked, progress>>

Ended == {"completed", "failed", "cancelled"}

TrackerTypeOK ==
    /\ trackerTools \in [TrackerTools -> {"absent", "running"} \cup Ended]
    /\ trackerOld \subseteq TrackerTools /\ asked \subseteq TrackerTools /\ progress \subseteq TrackerTools
    /\ worker \in [TrackerTools -> {"off", "run", "stopped", "reported", "refused"}]

TrackerInit ==
    /\ trackerTools = [t \in TrackerTools |-> "absent"]
    /\ trackerOld = TrackerTools
    /\ worker = [t \in TrackerTools |-> "off"]
    /\ asked = {} /\ progress = {}

StartTool(t) ==
    /\ worker[t] = "off"
    /\ trackerTools' = [trackerTools EXCEPT ![t] = "running"]
    /\ worker' = [worker EXCEPT ![t] = "run"]
    /\ UNCHANGED <<trackerOld, asked, progress>>

UpdateProgress(t) ==
    /\ worker[t] = "run" /\ trackerTools[t] # "absent"
    /\ progress' = progress \cup {t}
    /\ UNCHANGED <<trackerTools, trackerOld, worker, asked>>

(* The worker reports its result or its error, also after a cancellation;  *)
(* the tracker refuses a tool it does not hold.                            *)
CompleteTool(t, ok) ==
    /\ worker[t] = "run"
    /\ IF trackerTools[t] = "absent"
       THEN worker' = [worker EXCEPT ![t] = "refused"] /\ UNCHANGED <<trackerTools, trackerOld>>
       ELSE /\ worker' = [worker EXCEPT ![t] = "reported"]
            /\ trackerTools' = [trackerTools EXCEPT ![t] = IF ok THEN "completed" ELSE "failed"]
            /\ trackerOld' = trackerOld \ {t}
    /\ UNCHANGED <<asked, progress>>

CancelTool(t) ==
    /\ trackerTools[t] # "absent"
    /\ trackerTools' = [trackerTools EXCEPT ![t] = "cancelled"]
    /\ asked' = asked \cup {t}
    /\ trackerOld' = trackerOld \ {t}
    /\ UNCHANGED <<worker, progress>>

TimePasses ==
    /\ trackerOld' = {t \in TrackerTools : TRUE} /\ trackerOld # TrackerTools
    /\ UNCHANGED <<trackerTools, worker, asked, progress>>

(* Mutant: only the end time is compared. *)
CleanupCompleted_AnyStatus ==
    /\ trackerTools' = [t \in TrackerTools |-> IF t \in trackerOld THEN "absent" ELSE trackerTools[t]]
    /\ UNCHANGED <<trackerOld, worker, asked, progress>>

CleanupCompleted ==
    /\ trackerTools' = [t \in TrackerTools |-> IF trackerTools[t] # "running" /\ t \in trackerOld THEN "absent" ELSE trackerTools[t]]
    /\ UNCHANGED <<trackerOld, worker, asked, progress>>

TrackerNext ==
    \/ \E t \in TrackerTools : StartTool(t) \/ UpdateProgress(t) \/ CancelTool(t) \/ \E ok \in BOOLEAN : CompleteTool(t, ok)
    \/ TimePasses \/ CleanupCompleted

TrackerSpec == TrackerInit /\ [][TrackerNext]_trackerVars

-----------------------------------------------------------------------------
(* The tracker refuses a worker's result only for a tool that was          *)
(* cancelled: cleanup never takes a tool away from a worker.               *)
ResultsAccepted == \A t \in TrackerTools : worker[t] = "refused" => t \in asked

-----------------------------------------------------------------------------
(* PluginManager                                                           *)
(***************************************************************************)
(* PluginManager of src/pkg/runtime/llm_flow.go: plugins are kept in the   *)
(* order of their priorities, may be disabled, have a life cycle, and      *)
(* their callbacks run before and after the model and the tools; and       *)
(* handleAfterModelCallback, which runs the plugins' and then the flow's   *)
(* own after-model callbacks. Each plugin has one callback of each kind,   *)
(* which returns nothing, a response or an error.                          *)
(***************************************************************************)

CONSTANTS
    Plugins,
    Priority,    \* [Plugins -> Nat]
    MaxChanges   \* bound: calls that change the manager

VARIABLES
    order,        \* pluginOrder; plugins holds the same names
    enabled,      \* plugins that are enabled
    initialized,  \* the manager's flag
    ready,        \* plugins whose Initialize has been called and Cleanup not
    arrival,      \* the registered plugins, oldest first
    pluginAnswer,  \* what the last round of callbacks returned
    changes       \* calls so far

pluginVars == <<order, enabled, initialized, ready, arrival, pluginAnswer, changes>>

Results == {"nil", "response", "error"}
None == [by |-> "none", kind |-> "nil"]

PluginTypeOK ==
    /\ order \in Seq(Plugins) /\ arrival \in Seq(Plugins)
    /\ enabled \subseteq Plugins /\ ready \subseteq Plugins
    /\ initialized \in BOOLEAN /\ changes \in 0..MaxChanges

PluginInit ==
    /\ order = <<>> /\ arrival = <<>> /\ enabled = Plugins /\ ready = {}
    /\ initialized = FALSE /\ pluginAnswer = None /\ changes = 0

Change == changes < MaxChanges /\ changes' = changes + 1 /\ pluginAnswer' = None
Active == SelectSeq(order, LAMBDA p : p \in enabled)

(* Mutant: a plugin goes before those of its own priority. *)
Register_BeforeEquals(p) ==
    LET later == {i \in DOMAIN order : Priority[order[i]] <= Priority[p]}
        i == IF later = {} THEN Len(order) + 1 ELSE CHOOSE i \in later : \A j \in later : i <= j
    IN /\ Change /\ p \notin ToSet(order)
       /\ order' = InsertAt(order, i, p)
       /\ arrival' = Append(arrival, p)
       /\ UNCHANGED <<enabled, initialized, ready>>

Register(p) ==
    LET later == {i \in DOMAIN order : Priority[order[i]] < Priority[p]}
        i == IF later = {} THEN Len(order) + 1 ELSE CHOOSE i \in later : \A j \in later : i <= j
    IN /\ Change /\ p \notin ToSet(order)
       /\ order' = InsertAt(order, i, p)
       /\ arrival' = Append(arrival, p)
       /\ UNCHANGED <<enabled, initialized, ready>>

(* A failed Cleanup keeps the plugin registered.                           *)
Unregister(p, ok) ==
    /\ Change /\ p \in ToSet(order) /\ (ok \/ initialized)
    /\ ready' = IF initialized THEN ready \ {p} ELSE ready
    /\ order' = IF ok THEN SelectSeq(order, LAMBDA q : q # p) ELSE order
    /\ arrival' = IF ok THEN SelectSeq(arrival, LAMBDA q : q # p) ELSE arrival
    /\ UNCHANGED <<enabled, initialized>>

(* Mutant: the flag is set although a plugin failed. *)
Initialize_AlwaysSets(n) ==
    /\ Change /\ ~initialized /\ n <= Len(Active)
    /\ ready' = ready \cup {Active[i] : i \in 1..n}
    /\ initialized' = TRUE
    /\ UNCHANGED <<order, enabled, arrival>>

(* The enabled plugins in order, up to one that fails.                     *)
Initialize(n) ==
    /\ Change /\ ~initialized /\ n <= Len(Active)
    /\ ready' = ready \cup {Active[i] : i \in 1..n}
    /\ initialized' = (n = Len(Active))
    /\ UNCHANGED <<order, enabled, arrival>>

Cleanup ==
    /\ Change /\ initialized
    /\ ready' = ready \ ToSet(Active)
    /\ initialized' = FALSE
    /\ UNCHANGED <<order, enabled, arrival>>

SetEnabled(p, b) ==
    /\ Change /\ p \in ToSet(order)
    /\ enabled' = IF b THEN enabled \cup {p} ELSE enabled \ {p}
    /\ UNCHANGED <<order, initialized, ready, arrival>>

-----------------------------------------------------------------------------
(* The first callback that does not return nil decides: before the model,  *)
(* on an error of the model, and (with errors only) around a tool.         *)
RunCallbacks(out) ==
    /\ LET hits == SelectSeq(Active, LAMBDA p : out[p] # "nil")
       IN pluginAnswer' = IF hits = <<>> THEN None ELSE [by |-> hits[1], kind |-> out[hits[1]]]
    /\ UNCHANGED <<order, enabled, initialized, ready, arrival, changes>>

(* After the model: each plugin's response replaces the one before it, an  *)
(* error ends the round; handleAfterModelCallback then runs the flow's own *)
(* callback, and returns a response only if that one does.                 *)
RunAfterModelCallbacks(out) ==
    LET hits == SelectSeq(Active, LAMBDA p : out[p] # "nil")
        n == Len(hits)
    IN IF \E i \in 1..n : out[hits[i]] = "error" THEN [by |-> "none", kind |-> "error"]
       ELSE IF n = 0 THEN [by |-> "model", kind |-> "response"]
       ELSE [by |-> hits[n], kind |-> "response"]

handleAfterModelCallback(out, own) ==
    /\ pluginAnswer' = [by |-> IF own = "response" THEN "flow" ELSE "model", kind |-> "after",
                  plugins |-> RunAfterModelCallbacks(out)]
    /\ UNCHANGED <<order, enabled, initialized, ready, arrival, changes>>

PluginNext ==
    \/ \E p \in Plugins : Register(p) \/ (\E b \in BOOLEAN : Unregister(p, b) \/ SetEnabled(p, b))
    \/ \E n \in 0..Len(order) : Initialize(n)
    \/ Cleanup
    \/ \E out \in [Plugins -> Results] :
          RunCallbacks(out) \/ (\E own \in Results : handleAfterModelCallback(out, own))

PluginSpec == PluginInit /\ [][PluginNext]_pluginVars

-----------------------------------------------------------------------------
(* A round of callbacks is decided by the plugin that comes first: among   *)
(* the enabled ones registered at that moment and not passing, one of the  *)
(* highest priority, and of those the one registered first, however        *)
(* plugins came and went.                                                  *)
Before(p, q) ==
    \/ Priority[p] > Priority[q]
    \/ Priority[p] = Priority[q] /\ \E i, j \in DOMAIN arrival : i < j /\ arrival[i] = p /\ arrival[j] = q
PriorityDecides ==
    /\ Len(order) = Len(arrival) /\ ToSet(order) = ToSet(arrival)
    /\ \A i, j \in DOMAIN order : i < j => Before(order[i], order[j])

(* Once initialized, every plugin that was registered and enabled then and *)
(* has been neither re-enabled nor registered since is ready: a plugin     *)
(* that failed to start leaves the manager uninitialized.                  *)
InitializedIsReady == initialized' /\ ~initialized => ToSet(Active) \subseteq ready'

-----------------------------------------------------------------------------
(* RequestProcessors                                                       *)
(* The default processors of a language model flow: what the request processors put  *)
(* into each request of a session and what the response processor counts.            *)

CONSTANTS Instructions, Targets, Windows, MaxCalls, MaxHistory

VARIABLES history,   \* the session's conversation_history: [role, text]
          stateSys,  \* state "system_instruction", "" for none
          flags,     \* state flags that are set
          request,   \* the request being built: [sys, contents, tools]
          window,    \* state "max_conversation_history", 0 for no limit
          input,     \* the invocation's instruction, "" for none
          passed,    \* what the caller put into the request: [contents, dict]
          requestCalls

requestVars == <<history, stateSys, flags, request, window, input, passed, requestCalls>>

Flags == {"identity", "transfer", "targets"}
Nothing == [built |-> FALSE, sys |-> << >>, contents |-> << >>, tools |-> {}, dict |-> {}]
NonePassed == [contents |-> << >>, dict |-> {}]

RequestInit ==
  /\ history = << >> /\ stateSys \in {"", "sys"} /\ flags \in SUBSET Flags
  /\ request = Nothing /\ window \in Windows /\ input = "" /\ passed = NonePassed /\ requestCalls = 0

(* The input's instruction when the request has none; the state's wins over both.    *)
InstructionsRequestProcessor(r, in) ==
  [r EXCEPT !.sys = IF stateSys # "" THEN <<stateSys>> ELSE IF @ = << >> /\ in # "" THEN <<in>> ELSE @]

(* The prefix is added once. *)
IdentityRequestProcessor(r) ==
  [r EXCEPT !.sys = IF "identity" \in flags /\ (@ = << >> \/ Head(@) # "you are") THEN <<"you are">> \o @ ELSE @]

Recent(c) == IF window > 0 /\ Len(c) > window THEN SubSeq(c, Len(c) - window + 1, Len(c)) ELSE c
(* Mutant: the window keeps the oldest contents. *)
ContentsRequestProcessor_Oldest(r, in) ==
  LET old == history \o r.contents
      all == IF in # "" /\ (\A i \in 1..Len(old) : old[i].role # "user") /\ r.sys # <<in>>
             THEN Append(old, [role |-> "user", text |-> in]) ELSE old
  IN [r EXCEPT !.contents = SubSeq(all, 1, Len(Recent(all)))]
(* The history goes before the request's contents; the instruction is added as a     *)
(* user message when there is none yet; the most recent contents are kept.           *)
ContentsRequestProcessor(r, in) ==
  LET old == history \o r.contents
      all == IF in # "" /\ (\A i \in 1..Len(old) : old[i].role # "user") /\ r.sys # <<in>>
             THEN Append(old, [role |-> "user", text |-> in]) ELSE old
  IN [r EXCEPT !.contents = Recent(all)]

(* The targets of the state; without any, no tool is offered. *)
getTransferTargets == IF "targets" \in flags THEN Targets ELSE {}
(* Mutant: the tool is only declared. *)
AgentTransferRequestProcessor_DeclaredOnly(r) ==
  IF "transfer" \in flags /\ "transfer_to_agent" \notin r.tools /\ getTransferTargets # {}
  THEN [r EXCEPT !.tools = @ \cup {"transfer_to_agent"}] ELSE r
AgentTransferRequestProcessor(r) ==
  IF "transfer" \in flags /\ "transfer_to_agent" \notin r.tools /\ getTransferTargets # {}
  THEN [r EXCEPT !.tools = @ \cup {"transfer_to_agent"}, !.dict = @ \cup {"transfer_to_agent"}] ELSE r

(* Every tool declared can be found by name; the caller's own entries stay. *)
BasicRequestProcessor(r) == [r EXCEPT !.dict = @ \cup r.tools]

(* The default chain, in its order. *)
ProcessRequest(in, message, tools, dict) ==
  /\ ~request.built /\ requestCalls < MaxCalls /\ requestCalls' = requestCalls + 1
  /\ input' = in /\ passed' = [contents |-> message, dict |-> dict]
  /\ LET new == [Nothing EXCEPT !.built = TRUE, !.contents = message, !.tools = tools, !.dict = dict]
         base == IdentityRequestProcessor(InstructionsRequestProcessor(BasicRequestProcessor(new), in))
     IN request' = AgentTransferRequestProcessor(ContentsRequestProcessor(base, in))
  /\ UNCHANGED <<history, stateSys, flags, window>>

Conversation(answer) ==
  IF input = "" THEN << >> ELSE <<[role |-> "user", text |-> input]>> \o answer

(* The model answers and the response has no error; a host keeps the conversation    *)
(* in the session (external).                                                         *)
ProcessResponse ==
  /\ request.built
  /\ history' = IF Len(history) < MaxHistory THEN history \o Conversation(<<[role |-> "model", text |-> "answer"]>>) ELSE history
  /\ request' = Nothing /\ input' = "" /\ passed' = NonePassed /\ UNCHANGED <<stateSys, flags, window, requestCalls>>

(* A missing response or one with an error code is an error. *)
ResponseError ==
  /\ request.built /\ request' = Nothing /\ input' = "" /\ passed' = NonePassed
  /\ UNCHANGED <<history, stateSys, flags, window, requestCalls>>

Result(r) == [role |-> "tool", text |-> r]
Messages == {<< >>, <<Result("first")>>, <<Result("first"), Result("second")>>,
             <<[role |-> "user", text |-> "own"], Result("first")>>}
Toolsets == {{}, {"search"}, {"transfer_to_agent"}}
RequestNext ==
  \/ \E in \in Instructions \cup {""}, m \in Messages, tools \in Toolsets, dict \in {{}, {"old"}} :
       ProcessRequest(in, m, tools, dict)
  \/ ProcessResponse
  \/ ResponseError

RequestSpec == RequestInit /\ [][RequestNext]_requestVars

RequestTypeOK ==
  /\ requestCalls \in 0..MaxCalls /\ window \in Windows
  /\ window > 0 => Len(request.contents) <= window
  /\ request.tools \subseteq {"search", "transfer_to_agent"}

(* The flow can look up every tool the model is offered, and beside those only what  *)
(* the caller supplied; a transfer is offered when it is enabled and there is         *)
(* somewhere to transfer to.                                                          *)
OfferedIsKnown ==
  request.built => /\ request.dict = request.tools \cup passed.dict
                   /\ {"transfer", "targets"} \subseteq flags => "transfer_to_agent" \in request.tools

(* The history is what the window drops first: what the caller put into the request  *)
(* is all there when the window has room for it and the instruction, and when some of *)
(* it is missing, so is the whole history, and what is left of it is the newest.       *)
Kept(c) == \E j \in 1..Len(request.contents) : request.contents[j] = c
NewestKept ==
  LET new == passed.contents IN
  request.built =>
    /\ window = 0 \/ Len(new) < window => \A i \in 1..Len(new) : Kept(new[i])
    /\ \A i \in 1..Len(new) : ~Kept(new[i]) =>
         /\ \A k \in 1..Len(history) : ~Kept(history[k])
         /\ \A k \in 1..i : ~Kept(new[k])

-----------------------------------------------------------------------------
(* SpanExport                                                              *)
(* The telemetry provider of the runtime: flows that share it start nested spans,    *)
(* end them and flush whatever the provider has collected.                           *)

CONSTANTS Flows, Exporters, MaxSpans

VARIABLES span,      \* span -> [flow, trace, parent, ended]
          pending,   \* the provider's spans
          current,   \* flow -> the spans of its context, innermost last
          exported,  \* exporter -> span -> times exported
          flushing   \* flow -> [spans, left] of a Flush under way

spanVars == <<span, pending, current, exported, flushing>>

Idle == [spans |-> << >>, left |-> << >>]
SpanInit ==
  /\ span = << >> /\ pending = << >> /\ current = [f \in Flows |-> << >>]
  /\ exported = [e \in 1..Exporters |-> [i \in 1..MaxSpans |-> 0]] /\ flushing = [f \in Flows |-> Idle]

Inner(f) == current[f][Len(current[f])]
(* StartSpan: a child of the context's span, in its trace, or the root of a new one. *)
StartSpan(f) ==
  /\ Len(span) < MaxSpans /\ flushing[f] = Idle
  /\ LET root == current[f] = << >>
         new == [flow |-> f, ended |-> FALSE,
                 parent |-> IF root THEN 0 ELSE Inner(f),
                 trace |-> IF root THEN Len(span) + 1 ELSE span[Inner(f)].trace]
     IN span' = Append(span, new)
  /\ pending' = Append(pending, Len(span'))
  /\ current' = [current EXCEPT ![f] = Append(@, Len(span'))]
  /\ UNCHANGED <<exported, flushing>>

(* A child span ends and the flow is back in its parent's context. *)
End(f) ==
  /\ Len(current[f]) > 1
  /\ span' = [span EXCEPT ![Inner(f)].ended = TRUE]
  /\ current' = [current EXCEPT ![f] = SubSeq(@, 1, Len(@) - 1)]
  /\ UNCHANGED <<pending, exported, flushing>>

(* Mutant: what is flushed is not taken from the provider. *)
RunAsync_KeepsSpans(f) ==
  /\ Len(current[f]) = 1
  /\ span' = [span EXCEPT ![Inner(f)].ended = TRUE] /\ current' = [current EXCEPT ![f] = << >>]
  /\ flushing' = [flushing EXCEPT ![f] = [spans |-> pending, left |-> [e \in 1..Exporters |-> e]]]
  /\ UNCHANGED <<exported, pending>>
(* The deferred end of a run: its flow span ends, then Flush takes every collected   *)
(* span under the lock, ...                                                           *)
RunAsync(f) ==
  /\ Len(current[f]) = 1
  /\ span' = [span EXCEPT ![Inner(f)].ended = TRUE] /\ current' = [current EXCEPT ![f] = << >>]
  /\ flushing' = [flushing EXCEPT ![f] = [spans |-> pending, left |-> [e \in 1..Exporters |-> e]]]
  /\ pending' = << >> /\ UNCHANGED exported

(* ... and gives them to the exporters one after the other, stopping at an error.    *)
Flush(f, ok) ==
  /\ flushing[f].left # << >>
  /\ LET e == Head(flushing[f].left)
         rest == IF ok THEN Tail(flushing[f].left) ELSE << >>
     IN /\ exported' = IF ok THEN [exported EXCEPT ![e] = [i \in 1..MaxSpans |-> @[i] + Cardinality({k \in 1..Len(flushing[f].spans) : flushing[f].spans[k] = i})]]
                             ELSE exported
        /\ flushing' = [flushing EXCEPT ![f] = IF rest = << >> THEN Idle ELSE [@ EXCEPT !.left = rest]]
  /\ UNCHANGED <<span, pending, current>>

SpanNext == \E f \in Flows : StartSpan(f) \/ End(f) \/ RunAsync(f) \/ \E ok \in BOOLEAN : Flush(f, ok)

SpanSpec == SpanInit /\ [][SpanNext]_spanVars

SpanTypeOK == /\ Len(span) <= MaxSpans /\ \A i \in 1..Len(span) : span[i] \in [flow : Flows, trace : 1..MaxSpans, parent : 0..MaxSpans, ended : BOOLEAN]
              /\ \A f \in Flows : current[f] \in Seq(1..Len(span))

(* However runs that share the provider overlap and exporters fail, no exporter is   *)
(* given a span twice, and an exporter before another one is never behind it.        *)
ExportedOnce ==
  \A i \in 1..MaxSpans : \A e \in 1..Exporters :
    exported[e][i] <= 1 /\ (e > 1 => exported[e][i] <= exported[e - 1][i])
=============================================================================

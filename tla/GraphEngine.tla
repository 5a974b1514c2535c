---------------------------- MODULE GraphEngine -----------------------------
(***************************************************************************)
(* Running a graph: its traversal, its nodes and the state they share      *)
(* (src/pkg/graph).                                                        *)
(***************************************************************************)
EXTENDS Naturals, Sequences, FiniteSets, SequencesExt

-----------------------------------------------------------------------------
(* GraphRun                                                                *)
(***************************************************************************)
(* Execution of a validated graph by the four executors of src/pkg/graph:  *)
(* Graph.ExecuteWithResult, with pause and ResumeFromPaused, and           *)
(* ExecuteWithObservability (graph.go), executeGraph of the agentic        *)
(* wrapper (agentic_node.go) and A2AGraphExecutor (a2a_integration.go).    *)
(* All walk the graph depth first with a set of visited nodes, on one      *)
(* goroutine; the recursion is a stack of frames. Only the A2A executor    *)
(* looks at the conditions of edges.                                       *)
(***************************************************************************)

CONSTANTS
    Nodes, Entry, None,
    Foreign,      \* a node of some other graph
    Graphs,       \* node -> sequence of [to, open]: open is what the condition gives
    MaxPauses     \* bound on the pauses of one execution

VARIABLES
    g, executor,
    phase,        \* "idle", "running", "paused", "done", "failed"
    stack,        \* frames [n, i]: i = 0 before node n runs, else its next edge
    visited,
    ran,          \* nodes that ran in this traversal
    pausedAt,     \* PausedResult.NodeID, kept while a resumed run goes on
    pauses, cancelled

runVars == <<g, executor, phase, stack, visited, ran, pausedAt, pauses, cancelled>>

Executors == {"plain", "observed", "agentic", "a2a"}

RunTypeOK ==
    /\ g \in Graphs /\ executor \in Executors
    /\ phase \in {"idle", "running", "paused", "done", "failed"}
    /\ \A k \in DOMAIN stack : stack[k].n \in Nodes /\ stack[k].i \in Nat
    /\ visited \subseteq Nodes /\ ran \subseteq Nodes
    /\ pausedAt \in Nodes \cup {None, Foreign} /\ pauses \in 0..MaxPauses /\ cancelled \in BOOLEAN

RunInit ==
    /\ g \in Graphs /\ executor \in Executors
    /\ phase = "idle" /\ stack = <<>> /\ visited = {} /\ ran = {}
    /\ pausedAt = None /\ pauses = 0 /\ cancelled = FALSE

Top == stack[Len(stack)]
Pop == SubSeq(stack, 1, Len(stack) - 1)

(* A fresh traversal from the entry node.                                  *)
Begin ==
    /\ phase = "idle"
    /\ phase' = "running" /\ visited' = {Entry}
    /\ stack' = <<[n |-> Entry, i |-> 0]>>
    /\ UNCHANGED <<g, executor, ran, pausedAt, pauses, cancelled>>

ExecuteWithResult == executor = "plain" /\ Begin
ExecuteWithObservability == executor = "observed" /\ Begin
executeGraph == executor = "agentic" /\ Begin
ExecuteA2A == executor = "a2a" /\ Begin

(* Node.Execute returns nil: its edges are walked next.                    *)
NodeRan ==
    /\ phase = "running" /\ stack # <<>> /\ Top.i = 0
    /\ ran' = ran \cup {Top.n}
    /\ stack' = Append(Pop, [Top EXCEPT !.i = 1])
    /\ UNCHANGED <<g, executor, phase, visited, pausedAt, pauses, cancelled>>

(* An error of the node, or a cancelled context noticed before a node or   *)
(* an edge, ends the traversal.                                            *)
Fail ==
    /\ phase = "running" /\ stack # <<>>
    /\ Top.i = 0 \/ (cancelled /\ executor \in {"plain", "observed"})
    /\ phase' = "failed" /\ stack' = <<>>
    /\ UNCHANGED <<g, executor, visited, ran, pausedAt, pauses, cancelled>>

(* The node yields for a human. The result names the node its signal       *)
(* names, of this graph or of another one, and the node itself only when   *)
(* the signal names none. The other executors return an error instead.     *)
Pause ==
    /\ phase = "running" /\ stack # <<>> /\ Top.i = 0
    /\ executor = "plain" /\ pauses < MaxPauses
    /\ phase' = "paused" /\ pausedAt' \in Nodes \cup {Foreign} /\ pauses' = pauses + 1
    /\ stack' = <<>>
    /\ UNCHANGED <<g, executor, visited, ran, cancelled>>

(* The next edge of the top frame, by executor.                            *)
Follows(e) == executor = "a2a" => e.open

(* Mutant: an edge to a visited node ends the node's traversal. *)
Step_StopsAtVisited ==
    /\ phase = "running" /\ stack # <<>> /\ Top.i > 0
    /\ LET edges == g[Top.n] IN
       IF Top.i > Len(edges) \/ edges[Top.i].to \in visited
       THEN stack' = Pop /\ UNCHANGED visited
       ELSE /\ stack' = Append(Append(Pop, [Top EXCEPT !.i = @ + 1]), [n |-> edges[Top.i].to, i |-> 0])
            /\ visited' = visited \cup {edges[Top.i].to}
    /\ UNCHANGED <<g, executor, phase, ran, pausedAt, pauses, cancelled>>

(* traverseNode for the target of the next edge, or return to the caller.  *)
Step ==
    /\ phase = "running" /\ stack # <<>> /\ Top.i > 0
    /\ LET edges == g[Top.n] IN
       IF Top.i > Len(edges) THEN stack' = Pop /\ UNCHANGED visited
       ELSE IF Follows(edges[Top.i]) /\ edges[Top.i].to \notin visited
       THEN /\ stack' = Append(Append(Pop, [Top EXCEPT !.i = @ + 1]), [n |-> edges[Top.i].to, i |-> 0])
            /\ visited' = visited \cup {edges[Top.i].to}
       ELSE stack' = Append(Pop, [Top EXCEPT !.i = @ + 1]) /\ UNCHANGED visited
    /\ UNCHANGED <<g, executor, phase, ran, pausedAt, pauses, cancelled>>

Finish ==
    /\ phase = "running" /\ stack = <<>>
    /\ phase' = "done"
    /\ UNCHANGED <<g, executor, stack, visited, ran, pausedAt, pauses, cancelled>>

(* Mutant: the paused node is not marked as visited. *)
ResumeFromPaused_Unmarked ==
    /\ phase = "paused" /\ pausedAt \in Nodes
    /\ phase' = "running" /\ visited' = {} /\ ran' = {}
    /\ stack' = <<[n |-> pausedAt, i |-> 1]>>
    /\ UNCHANGED <<g, executor, pausedAt, pauses, cancelled>>

(* ResumeFromPaused: from the edges of the paused node, with that node as  *)
(* the only visited one; what the first traversal had still to visit on    *)
(* its stack, and what it had visited, is not part of a PausedResult.      *)
ResumeFromPaused ==
    /\ phase = "paused" /\ pausedAt \in Nodes
    /\ phase' = "running" /\ visited' = {pausedAt} /\ ran' = {}
    /\ stack' = <<[n |-> pausedAt, i |-> 1]>>
    /\ UNCHANGED <<g, executor, pausedAt, pauses, cancelled>>

(* The node is not in this graph, or the graph has another version now.    *)
ResumeRefused ==
    /\ phase = "paused"
    /\ phase' = "failed"
    /\ UNCHANGED <<g, executor, stack, visited, ran, pausedAt, pauses, cancelled>>

RunCancel ==
    /\ phase = "running" /\ ~cancelled
    /\ cancelled' = TRUE
    /\ UNCHANGED <<g, executor, phase, stack, visited, ran, pausedAt, pauses>>

RunNext ==
    \/ ExecuteWithResult \/ ExecuteWithObservability \/ executeGraph \/ ExecuteA2A
    \/ NodeRan \/ Fail \/ Pause \/ Step \/ Finish \/ ResumeFromPaused \/ ResumeRefused \/ RunCancel

RunSpec == RunInit /\ [][RunNext]_runVars

-----------------------------------------------------------------------------
(* Reference: the nodes reachable from a set by the edges the executor     *)
(* follows, as the least set closed under them.                            *)
Succ(n) == {g[n][k].to : k \in {k \in DOMAIN g[n] : Follows(g[n][k])}}
Reach(start) ==
    CHOOSE S \in {T \in SUBSET Nodes : start \subseteq T /\ \A n \in T : Succ(n) \subseteq T} :
        \A T \in SUBSET Nodes : start \subseteq T /\ (\A n \in T : Succ(n) \subseteq T) => S \subseteq T

(* A traversal that ends without an error has run exactly the nodes that   *)
(* are reachable from where it began, in cycles and joins alike: from the  *)
(* entry node, or after a resume from the edges of the paused node, which  *)
(* is not run again.                                                       *)
RunsWhatIsReachable ==
    phase = "done" =>
        IF pausedAt = None THEN ran = Reach({Entry}) ELSE ran = Reach({pausedAt}) \ {pausedAt}

(* ResumeFromPaused: "The paused node itself is not re-executed": no frame *)
(* of the resumed traversal runs it.                                       *)
PausedNotRerun ==
    phase = "running" /\ pausedAt # None =>
        \A k \in DOMAIN stack : stack[k].n = pausedAt => k = 1 /\ stack[k].i > 0

-----------------------------------------------------------------------------
(* GraphNodes                                                              *)
(***************************************************************************)
(* Node types of src/pkg/graph (node.go, builder.go) over one shared state *)
(* that locks each Get and Set and nothing longer: a LoopNode around a     *)
(* ParallelNode whose children are AgentNodes, followed by a ToolNode. An  *)
(* agent asks its model, reads the message history and, if that is a       *)
(* []models.Message, writes it back with the answer appended. MemoryState  *)
(* keeps such a slice as its JSON copy, a []interface{}.                   *)
(***************************************************************************)

CONSTANTS
    Agents,      \* children of the ParallelNode
    MaxIters     \* LoopConfig.MaxIters (1000 when 0)

VARIABLES
    messages,    \* "messages": answers <<agent, iteration>>, and whether typed
    toolCalls,   \* "tool_calls": the same
    child,       \* per agent: step, history read, result
    loop,        \* pc of the enclosing nodes, iteration, collected answers
    asked        \* history variable: answers the models gave, with tool calls or not

nodesVars == <<messages, toolCalls, child, loop, asked>>

History == [list : Seq(Agents \X Nat), typed : BOOLEAN]

NodesTypeOK ==
    /\ messages \in History /\ toolCalls \in History
    /\ child \in [Agents -> [pc : {"idle", "chat", "read", "write", "calls", "done"}, hist : History,
                             calls : BOOLEAN, err : BOOLEAN]]
    /\ loop.pc \in {"test", "wait", "tool", "failed"} /\ loop.iter \in 0..MaxIters
    /\ loop.got \subseteq Agents /\ loop.err \in BOOLEAN

(* No value reads as an empty slice. Set keeps a slice of structs through  *)
(* deepCopyValue's JSON fallback, which forgets its type.                  *)
Unset == [list |-> <<>>, typed |-> TRUE]
Stored(list) == [list |-> list, typed |-> FALSE]

Rest == [pc |-> "idle", hist |-> Unset, calls |-> FALSE, err |-> FALSE]

NodesInit ==
    /\ messages = Unset /\ toolCalls = Unset /\ asked = {}
    /\ child = [a \in Agents |-> Rest]
    /\ loop = [pc |-> "test", iter |-> 0, got |-> {}, err |-> FALSE]

(* Mutant: the bound is tested after the iteration. *)
LoopTest_Late(go) ==
    /\ loop.pc = "test"
    /\ IF go /\ loop.iter <= MaxIters
       THEN /\ loop' = [loop EXCEPT !.pc = "wait", !.got = {}, !.err = FALSE]
            /\ child' = [a \in Agents |-> [Rest EXCEPT !.pc = "chat"]]
       ELSE loop' = [loop EXCEPT !.pc = "tool"] /\ UNCHANGED child
    /\ UNCHANGED <<messages, toolCalls, asked>>

(* LoopNode: the bound, then the condition; then the child, here the       *)
(* ParallelNode, starts a goroutine for every agent.                       *)
LoopTest(go) ==
    /\ loop.pc = "test"
    /\ IF go /\ loop.iter < MaxIters
       THEN /\ loop' = [loop EXCEPT !.pc = "wait", !.got = {}, !.err = FALSE]
            /\ child' = [a \in Agents |-> [Rest EXCEPT !.pc = "chat"]]
       ELSE loop' = [loop EXCEPT !.pc = "tool"] /\ UNCHANGED child
    /\ UNCHANGED <<messages, toolCalls, asked>>

(* The model answers: last_message and last_response are set.              *)
Chat(a, calls) ==
    /\ child[a].pc = "chat"
    /\ child' = [child EXCEPT ![a].pc = "read", ![a].calls = calls]
    /\ asked' = asked \cup {<<a, loop.iter>>}
    /\ UNCHANGED <<messages, toolCalls, loop>>

ChatFails(a) ==
    /\ child[a].pc = "chat"
    /\ child' = [child EXCEPT ![a].pc = "done", ![a].err = TRUE]
    /\ UNCHANGED <<messages, toolCalls, loop, asked>>

(* state.Get("messages") and, later, state.Set("messages"): an answer that *)
(* another agent appended in between is overwritten. A history that was    *)
(* stored before is not a []models.Message any more and is left alone.     *)
ReadHistory(a) ==
    /\ child[a].pc = "read"
    /\ child' = [child EXCEPT ![a].pc = "write", ![a].hist = messages]
    /\ UNCHANGED <<messages, toolCalls, loop, asked>>

WriteHistory(a) ==
    /\ child[a].pc = "write"
    /\ messages' = IF child[a].hist.typed THEN Stored(Append(child[a].hist.list, <<a, loop.iter>>)) ELSE messages
    /\ child' = [child EXCEPT ![a].pc = "calls", ![a].hist = Unset]
    /\ UNCHANGED <<toolCalls, loop, asked>>

(* Tool calls are stored when there are some; an answer without leaves     *)
(* those of an earlier answer.                                             *)
StoreCalls(a) ==
    /\ child[a].pc = "calls"
    /\ toolCalls' = IF child[a].calls THEN Stored(<<<<a, loop.iter>>>>) ELSE toolCalls
    /\ child' = [child EXCEPT ![a].pc = "done"]
    /\ UNCHANGED <<messages, loop, asked>>

Arrived == [loop EXCEPT !.iter = @ + 1, !.pc = "test"]

(* Mutant: the first error ends the wait. *)
Collect_FirstError(a) ==
    LET err == loop.err \/ child[a].err  got == loop.got \cup {a} IN
    /\ loop.pc = "wait" /\ child[a].pc = "done" /\ a \notin loop.got
    /\ loop' = IF err THEN [loop EXCEPT !.pc = "failed", !.got = got, !.err = err]
               ELSE IF got = Agents THEN [Arrived EXCEPT !.got = got] ELSE [loop EXCEPT !.got = got]
    /\ UNCHANGED <<messages, toolCalls, child, asked>>

(* ParallelNode receives from the error channel once per child and returns *)
(* the first error; the loop goes on only without one.                     *)
Collect(a) ==
    LET err == loop.err \/ child[a].err  got == loop.got \cup {a} IN
    /\ loop.pc = "wait" /\ child[a].pc = "done" /\ a \notin loop.got
    /\ loop' = IF got # Agents THEN [loop EXCEPT !.got = got, !.err = err]
               ELSE IF err THEN [loop EXCEPT !.pc = "failed", !.got = got, !.err = err]
               ELSE [Arrived EXCEPT !.got = got]
    /\ UNCHANGED <<messages, toolCalls, child, asked>>

(* ToolNode needs a []models.ToolCall: it refuses when there is none and   *)
(* when there is the stored copy, which is all it can find in this state.  *)
Tool ==
    /\ loop.pc = "tool" /\ (toolCalls.typed => toolCalls.list = <<>>)
    /\ loop' = [loop EXCEPT !.pc = "failed"]
    /\ UNCHANGED <<messages, toolCalls, child, asked>>

NodesNext ==
    \/ \E go \in BOOLEAN : LoopTest(go)
    \/ \E a \in Agents : (\E c \in BOOLEAN : Chat(a, c)) \/ ChatFails(a) \/ ReadHistory(a) \/ WriteHistory(a)
                             \/ StoreCalls(a) \/ Collect(a)
    \/ Tool

NodesSpec == NodesInit /\ [][NodesNext]_nodesVars

-----------------------------------------------------------------------------
(* ParallelNode waits for all of its children, whatever fails: once it has *)
(* returned no child runs on beside the nodes that follow.                 *)
NoChildOutlivesParallel == loop.pc # "wait" => \A a \in Agents : child[a].pc \in {"idle", "done"}

(* No model is asked more than MaxIters times by a LoopNode.               *)
LoopBounded == \A a \in Agents : Cardinality({q \in asked : q[1] = a}) <= MaxIters

-----------------------------------------------------------------------------
(* GraphState                                                              *)
(***************************************************************************)
(* MemoryState of src/pkg/graph/state.go, the state a graph's nodes share, *)
(* and the watchers of it. Every operation runs under s.mu; the watchers   *)
(* are guarded by observerMu and are told of a change while s.mu is held.  *)
(* A watcher has a bounded channel: an event that finds it full is         *)
(* dropped. Set does not defer its unlock, so a value that cannot be       *)
(* copied, or a Set after Close, panics and leaves s.mu locked for good.   *)
(***************************************************************************)

CONSTANTS
    Keys,         \* data keys; the prefix of DeletePrefix selects a subset
    Watchers,     \* observer identifiers, one use each
    Cap,          \* capacity of a watcher's channel (100 in the code)
    MaxVersion    \* bound on version

VARIABLES
    data,         \* key -> the kind of value held, or "none"
    version,
    watch,        \* per watcher: channel, registration, context
    snap,         \* the snapshot a caller keeps, with what it was taken of
    closed,
    panic         \* "locked": a panic left s.mu held; "released": one did not

stateVars == <<data, version, watch, snap, closed, panic>>

(* What deepCopyValue does with a value: a primitive is stored as it is, a *)
(* map is copied, an opaque one makes jsonDeepCopy panic.                  *)
Kinds == {"prim", "map"}
Version == 1..MaxVersion

StateTypeOK ==
    /\ data \in [Keys -> Kinds \cup {"none"}]
    /\ version \in Version
    /\ watch \in [Watchers -> [chan : {"none", "open", "closed"}, reg : BOOLEAN, ctx : BOOLEAN,
                               len : 0..Cap, last : 0..MaxVersion, lost : BOOLEAN, closes : 0..2]]
    /\ snap \in [version : 0..MaxVersion, data : [Keys -> Kinds \cup {"none"}]]
    /\ closed \in BOOLEAN /\ panic \in {"none", "released", "locked"}

Empty == [k \in Keys |-> "none"]

StateInit ==
    /\ data = Empty /\ version = 1
    /\ watch = [w \in Watchers |-> [chan |-> "none", reg |-> FALSE, ctx |-> TRUE, len |-> 0,
                                    last |-> 0, lost |-> FALSE, closes |-> 0]]
    /\ snap = [version |-> 0, data |-> Empty]
    /\ closed = FALSE /\ panic = "none"

(* publishEventToObservers: a cancelled watcher may be skipped or sent to, *)
(* a full channel loses the event. n events of version v are published.    *)
Told(w, v, n) ==
    IF ~w.reg THEN w
    ELSE [w EXCEPT !.len = IF w.len + n > Cap THEN Cap ELSE w.len + n,
                   !.last = IF w.len < Cap THEN v ELSE w.last,
                   !.lost = w.lost \/ w.len + n > Cap]

Publish(v, n) ==
    \E skip \in SUBSET {w \in Watchers : ~watch[w].ctx} :
        watch' = [w \in Watchers |-> IF w \in skip THEN watch[w] ELSE Told(watch[w], v, n)]

Free == panic # "locked"
Locked == Free /\ version < MaxVersion

Set(k, kind) ==
    /\ Locked /\ ~closed
    /\ version' = version + 1
    /\ data' = [data EXCEPT ![k] = kind]
    /\ Publish(version + 1, 1)
    /\ UNCHANGED <<snap, closed, panic>>

(* newCOWValue panics, or the map is nil after Close: the lock stays held. *)
SetPanics ==
    /\ Locked
    /\ version' = version + 1
    /\ panic' = "locked"
    /\ UNCHANGED <<data, watch, snap, closed>>

(* SetMetadata defers its unlock: the panic leaves only a new version.     *)
SetMetadataPanics ==
    /\ Locked
    /\ version' = version + 1
    /\ panic' = "released"
    /\ UNCHANGED <<data, watch, snap, closed>>

(* Mutant: a change of the metadata is not published. *)
SetMetadata_Silent ==
    /\ Locked /\ ~closed
    /\ version' = version + 1
    /\ UNCHANGED <<data, watch, snap, closed, panic>>

SetMetadata ==
    /\ Locked /\ ~closed
    /\ version' = version + 1
    /\ Publish(version + 1, 1)
    /\ UNCHANGED <<data, snap, closed, panic>>

Delete(k) ==
    /\ Locked /\ data[k] # "none"
    /\ version' = version + 1
    /\ data' = [data EXCEPT ![k] = "none"]
    /\ Publish(version + 1, 1)
    /\ UNCHANGED <<snap, closed, panic>>

(* One new version for all the keys, one event for each of them.           *)
DeletePrefix(ks) ==
    LET gone == {k \in ks : data[k] # "none"} IN
    /\ Locked /\ gone # {}
    /\ version' = version + 1
    /\ data' = [k \in Keys |-> IF k \in gone THEN "none" ELSE data[k]]
    /\ Publish(version + 1, Cardinality(gone))
    /\ UNCHANGED <<snap, closed, panic>>

Snapshot ==
    /\ Free
    /\ snap' = [version |-> version, data |-> data]
    /\ UNCHANGED <<data, version, watch, closed, panic>>

(* Restore takes the version back to the snapshot's (a payload without one *)
(* counts as the first); Unmarshal restores what it decodes.               *)
Restore(s) ==
    LET v == IF s.version = 0 THEN 1 ELSE s.version IN
    /\ Free
    /\ data' = s.data /\ version' = v
    /\ Publish(v, 1)
    /\ UNCHANGED <<snap, closed, panic>>

(* Watch: the channel is made and registered; a closed state still has its *)
(* map of observers.                                                       *)
Watch(w) ==
    /\ Free /\ watch[w].chan = "none"
    /\ watch' = [watch EXCEPT ![w].chan = "open", ![w].reg = TRUE, ![w].last = version]
    /\ UNCHANGED <<data, version, snap, closed, panic>>

StateCancel(w) ==
    /\ watch[w].chan # "none" /\ watch[w].ctx
    /\ watch' = [watch EXCEPT ![w].ctx = FALSE]
    /\ UNCHANGED <<data, version, snap, closed, panic>>

(* unsubscribe, called by the caller or by the goroutine that waits for    *)
(* the context; it needs observerMu only.                                  *)
Unwatch(w) ==
    /\ watch[w].reg
    /\ watch' = [watch EXCEPT ![w].reg = FALSE, ![w].chan = "closed", ![w].closes = @ + 1]
    /\ UNCHANGED <<data, version, snap, closed, panic>>

Receive(w) ==
    /\ watch[w].len > 0
    /\ watch' = [watch EXCEPT ![w].len = @ - 1]
    /\ UNCHANGED <<data, version, snap, closed, panic>>

(* Mutant: Close closes the channels and keeps the watchers registered. *)
Close_KeepsWatchers ==
    /\ Free /\ ~closed
    /\ watch' = [w \in Watchers |-> IF watch[w].reg
                    THEN [watch[w] EXCEPT !.chan = "closed", !.closes = @ + 1] ELSE watch[w]]
    /\ data' = Empty /\ closed' = TRUE
    /\ UNCHANGED <<version, snap, panic>>

Close ==
    /\ Free
    /\ watch' = [w \in Watchers |-> IF watch[w].reg
                    THEN [watch[w] EXCEPT !.reg = FALSE, !.chan = "closed", !.closes = @ + 1] ELSE watch[w]]
    /\ data' = Empty /\ closed' = TRUE
    /\ UNCHANGED <<version, snap, panic>>

StateNext ==
    \/ \E k \in Keys : Delete(k) \/ \E kind \in Kinds : Set(k, kind)
    \/ SetPanics \/ SetMetadataPanics \/ SetMetadata \/ Snapshot \/ Close
    \/ Restore(snap)
    \/ \E ks \in SUBSET Keys : DeletePrefix(ks)
    \/ \E w \in Watchers : Watch(w) \/ StateCancel(w) \/ Unwatch(w) \/ Receive(w)

StateSpec == StateInit /\ [][StateNext]_stateVars

-----------------------------------------------------------------------------
(* A watcher whose channel never overflowed and whose context is live has  *)
(* been told of the current version, whichever operation made it, unless   *)
(* an operation panicked half way.                                         *)
InformedUnlessLossy ==
    \A w \in Watchers :
        watch[w].reg /\ watch[w].ctx /\ ~watch[w].lost /\ panic = "none" => watch[w].last = version

(* Close, the caller's unsubscribe and the goroutine that waits for the    *)
(* watcher's context race to close its channel: it is closed once, and a   *)
(* registered watcher's channel is open, so that no publisher panics.      *)
ChannelsClosedOnce ==
    \A w \in Watchers : watch[w].closes <= 1 /\ (watch[w].reg => watch[w].chan = "open")
=============================================================================

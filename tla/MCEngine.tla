------------------------------ MODULE MCEngine ------------------------------
(***************************************************************************)
(* The parts that run agents: the event loop and the LLM flow, graphs,     *)
(* agents and their compositions and agent-to-agent calls, each on its own *)
(* with its concurrent callers and failures: a behaviour picks a component *)
(* and follows its specification.                                          *)
(***************************************************************************)
EXTENDS Naturals, FiniteSets, Sequences, TLC

VARIABLES
    part,   \* the component this behaviour is about
    v1, v2, v3, v4, v5, v6, v7, v8, v9, v10, v11, v12, v13  \* its variables; those it does not have stay 0

vars == <<part, v1, v2, v3, v4, v5, v6, v7, v8, v9, v10, v11, v12, v13>>

AR == INSTANCE AgentRuntime
    WITH Agents <- 1 .. 2, LoopMaxSteps <- 2, MaxPerStep <- 2, FlowMaxSteps <- 2, MaxLLMCalls <- 1,
         MaxStream <- 2, MaxFn <- 1, mode <- v1, sync <- v2, loopCancelled <- v3, agent <- v4,
         held <- v5, parent <- v6, runner <- v7, state <- v8, session <- v9, forwarded <- v10,
         conf <- v1, flowCancelled <- v2, endInvocation <- v3, loop <- v4, stepper <- v5,
         caller <- v6, calls <- v7, generated <- v8

FS == INSTANCE FlowSupport
    WITH Sessions <- {"s"}, Callers <- {"c", "d"}, Cap <- 1, TrackerTools <- {"t", "u"},
         Plugins <- {"a", "b", "c"},
         Priority <- [p \in {"a", "b", "c"} |-> IF p = "c" THEN 2 ELSE 1], MaxChanges <- 5,
         Instructions <- {"ask", "more"}, Targets <- {"helper"}, Windows <- 0..3, MaxCalls <- 3,
         MaxHistory <- 4, Flows <- {"f", "g"}, Exporters <- 2, MaxSpans <- 3, sessions <- v1,
         st <- v2, caller <- v3, live <- v4, trackerTools <- v1, trackerOld <- v2, worker <- v3,
         asked <- v4, progress <- v5, order <- v1, enabled <- v2, initialized <- v3, ready <- v4,
         arrival <- v5, pluginAnswer <- v6, changes <- v7, history <- v1, stateSys <- v2,
         flags <- v3, request <- v4, window <- v5, input <- v6, passed <- v7, requestCalls <- v8,
         span <- v1, pending <- v2, current <- v3, exported <- v4, flushing <- v5

GE == INSTANCE GraphEngine
    WITH Nodes <- {"a", "b", "c", "d"}, Entry <- "a", None <- "none", Foreign <- "inner",
         Graphs <- {[a |-> <<[to |-> "b", open |-> TRUE], [to |-> "c", open |-> TRUE]>>, b |-> <<[to |-> "d", open |-> TRUE]>>, c |-> <<[to |-> "d", open |-> TRUE]>>, d |-> <<>>],
             [a |-> <<[to |-> "b", open |-> TRUE]>>, b |-> <<[to |-> "c", open |-> TRUE], [to |-> "d", open |-> FALSE]>>, c |-> <<[to |-> "b", open |-> TRUE], [to |-> "a", open |-> TRUE]>>, d |-> <<[to |-> "d", open |-> TRUE]>>],
             [a |-> <<[to |-> "b", open |-> FALSE], [to |-> "c", open |-> TRUE]>>, b |-> <<>>, c |-> <<[to |-> "b", open |-> TRUE], [to |-> "d", open |-> FALSE]>>, d |-> <<>>]},
         MaxPauses <- 2, Agents <- {"p", "q"}, MaxIters <- 2, Keys <- {"k", "l"},
         Watchers <- {"w"}, Cap <- 1, MaxVersion <- 3, g <- v1, executor <- v2, phase <- v3,
         stack <- v4, visited <- v5, ran <- v6, pausedAt <- v7, pauses <- v8, cancelled <- v9,
         messages <- v1, toolCalls <- v2, child <- v3, loop <- v4, asked <- v5, data <- v1,
         version <- v2, watch <- v3, snap <- v4, closed <- v5, panic <- v6

FI == INSTANCE FileStateStore
    WITH Clearers <- {"q"}, Ids <- {"i", "j", "k"}, Snaps <- {"x", "y"}, None <- "none",
         Savers <- {"p", "q"},
         SaverIds <- [s \in {"p", "q"} |-> IF s = "p" THEN {"i", "j"} ELSE {"k"}], tmp <- v1,
         file <- v2, saver <- v3

GP == INSTANCE GraphPlans
    WITH Names <- {"a", "b", "c"}, None <- "none", MaxOps <- 7, Nodes <- {"a", "b", "c"},
         Graphs <- SUBSET ({"a", "b", "c"} \X {"a", "b", "c"}),
         Widths <- {[n \in {"a", "b", "c"} |-> 1], [n \in {"a", "b", "c"} |-> IF n = "b" THEN 0 ELSE 1], [n \in {"a", "b", "c"} |-> IF n = "a" THEN 2 ELSE 1]},
         MaxSteps <- 3, Missing <- 9, nodes <- v1, builderEdges <- v2, entry <- v3, finish <- v4,
         errors <- v5, built <- v6, ops <- v7, dagEdges <- v1, width <- v2, phase <- v3,
         inDegree <- v4, level <- v5, levels <- v6, nodeToStage <- v7, stages <- v8,
         dagOrder <- v9, steps <- v1, planOrder <- v2, status <- v3

RI == INSTANCE RunIterators
    WITH Agents <- 2, MaxSteps <- 2, MaxIterations <- 2, IterMaxEvents <- 3, Branches <- {1, 2, 3},
         MergeMaxEvents <- 2, Keys <- {"k"}, Values <- {1, 2}, StreamMaxEvents <- 2, MaxSets <- 1,
         Buffer <- 1, BatchSize <- 2, shape <- v1, at <- v2, event <- v3, yielded <- v4,
         committed <- v5, after <- v6, branch <- v1, loop <- v2, completed <- v3, cancelled <- v4,
         done <- v5, mode <- v1, pc <- v2, history <- v3, deltas <- v4, state <- v5, latest <- v6,
         sets <- v7, next <- v8, last <- v9, output <- v10, sent <- v11, batch <- v12,
         batches <- v13

AT == INSTANCE AgentTeams
    WITH N <- 3, Par <- 2, MaxItems <- 4, Steps <- 2, MaxIterations <- 3, MaxRoutes <- 3,
         MaxPriority <- 2, Agents <- {"a", "b", "c"}, First <- <<"a", "b">>, LbReqs <- {"p", "q"},
         MaxChanges <- 2, LbMaxCalls <- 2, Remote <- <<"m", "n">>, Having <- {2}, LocalAgents <- 1,
         ClusterReqs <- {"p", "q"}, ClusterMaxCalls <- 2, fanCfg <- v1, splits <- v2, child <- v3,
         res <- v4, okq <- v5, errq <- v6, ctx <- v7, got <- v8, failed <- v9, fanPc <- v10,
         fanOut <- v11, pipeCfg <- v1, iter <- v2, step <- v3, input <- v4, runs <- v5, pass <- v6,
         expired <- v7, pipeOut <- v8, routerCfg <- v1, routes <- v2, routerI <- v3, routerJ <- v4,
         routerPc <- v5, chosen <- v6, arrays <- v1, len <- v2, open <- v3, lbStrategy <- v4,
         lbCounter <- v5, lbReq <- v6, drain <- v7, changes <- v8, lbCalls <- v9,
         removedBusy <- v10, clusterStrategy <- v1, up <- v2, clusterCounter <- v3, stats <- v4,
         clusterReq <- v5, clusterCalls <- v6

LA == INSTANCE LlmAgents
    WITH ReactMaxRuns <- 2, ReactMaxIterations <- 2, RateLimit <- 1, EnhancedMaxRuns <- 2,
         EnhancedMaxIterations <- 2, Callers <- {"c", "d"}, HasDefault <- {"d"}, MaxClock <- 3,
         MaxAnswers <- 3, agent <- v1, reactRun <- v2, history <- v3, used <- v4, metrics <- v5,
         window <- v6, handled <- v7, reactRuns <- v8, config <- v1, cache <- v2,
         enhancedRun <- v3, calls <- v4, tools <- v5, enhancedRuns <- v6, clock <- v1, id <- v2,
         pending <- v3, chan <- v4, pc <- v5, humanResult <- v6, accepted <- v7, answers <- v8

BG == INSTANCE BaseAgents
    WITH Calls <- {"c1", "c2", "c3"},
         AgentOf <- [c \in {"c1", "c2", "c3"} |-> IF c = "c3" THEN "b" ELSE "a"], N <- 4,
         TreeAgents <- {"a", "b", "c"}, Threads <- {"s", "t"}, MaxOps <- 4,
         Children <- {"a", "b", "c"}, NameOf <- ("a" :> "x") @@ ("b" :> "x") @@ ("c" :> "y"),
         MaxCalls <- 1, Invocations <- {"x", "y"},
         Parent <- [r |-> "none", a |-> "r", b |-> "r", c |-> "a"], Entry <- {"r", "a"},
         Scopes <- {"siblings", "sub_agents", "parent"}, MaxTransfers <- 2, DefaultTransfers <- 3,
         MaxChanges <- 1, pc <- v1, clock <- v2, startTimes <- v3, own <- v4, measured <- v5,
         instruction <- v6, context <- v7, text <- v8, callSeen <- v9, overlapped <- v10,
         crossed <- v11, deps <- v1, stack <- v2, visited <- v3, stageMap <- v4, stages <- v5,
         treeParent <- v1, treeSubs <- v2, lock <- v3, op <- v4, ops <- v5, toolSubs <- v1,
         nested <- v2, tools <- v3, made <- v4, calls <- v5, invocationCtx <- v1, ctx <- v2,
         run <- v3, scope <- v4, allow <- v5, changes <- v6, runs <- v7, mixed <- v8

AA == INSTANCE A2A
    WITH Ids <- {"a", "b"}, Requests <- {"r"}, MaxChanges <- 3, MaxData <- 2, Cap <- 1, N <- 2,
         RetryCount <- 1, Callers <- {"p", "q"}, agents <- v1, cards <- v2, registry <- v3,
         req <- v4, changes <- v5, renamed <- v6, produced <- v1, dataChan <- v2, unwritten <- v3,
         srv <- v4, wire <- v5, conn <- v6, reader <- v7, chunks <- v8, consumer <- v9,
         cancelled <- v10, withCard <- v1, current <- v2, call <- v3, ran <- v4

Init ==
    \/ part = "eventloop" /\ AR!LoopInit /\ v11 = 0 /\ v12 = 0 /\ v13 = 0
    \/ part = "llmflow" /\ AR!FlowInit /\ v9 = 0 /\ v10 = 0 /\ v11 = 0 /\ v12 = 0 /\ v13 = 0
    \/ part = "plugins" /\ FS!PluginInit /\ v8 = 0 /\ v9 = 0 /\ v10 = 0 /\ v11 = 0 /\ v12 = 0 /\ v13 = 0
    \/ part = "livesession" /\ FS!LiveInit /\ v5 = 0 /\ v6 = 0 /\ v7 = 0 /\ v8 = 0 /\ v9 = 0 /\ v10 = 0 /\ v11 = 0 /\ v12 = 0 /\ v13 = 0
    \/ part = "tooltracker" /\ FS!TrackerInit /\ v6 = 0 /\ v7 = 0 /\ v8 = 0 /\ v9 = 0 /\ v10 = 0 /\ v11 = 0 /\ v12 = 0 /\ v13 = 0
    \/ part = "graphstate" /\ GE!StateInit /\ v7 = 0 /\ v8 = 0 /\ v9 = 0 /\ v10 = 0 /\ v11 = 0 /\ v12 = 0 /\ v13 = 0
    \/ part = "filestore" /\ FI!Init /\ v4 = 0 /\ v5 = 0 /\ v6 = 0 /\ v7 = 0 /\ v8 = 0 /\ v9 = 0 /\ v10 = 0 /\ v11 = 0 /\ v12 = 0 /\ v13 = 0
    \/ part = "graphrun" /\ GE!RunInit /\ v10 = 0 /\ v11 = 0 /\ v12 = 0 /\ v13 = 0
    \/ part = "dag" /\ GP!DagInit /\ v10 = 0 /\ v11 = 0 /\ v12 = 0 /\ v13 = 0
    \/ part = "gbuilder" /\ GP!BuilderInit /\ v8 = 0 /\ v9 = 0 /\ v10 = 0 /\ v11 = 0 /\ v12 = 0 /\ v13 = 0
    \/ part = "gnodes" /\ GE!NodesInit /\ v6 = 0 /\ v7 = 0 /\ v8 = 0 /\ v9 = 0 /\ v10 = 0 /\ v11 = 0 /\ v12 = 0 /\ v13 = 0
    \/ part = "streamrun" /\ RI!StreamInit
    \/ part = "iterrun" /\ RI!IterInit /\ v7 = 0 /\ v8 = 0 /\ v9 = 0 /\ v10 = 0 /\ v11 = 0 /\ v12 = 0 /\ v13 = 0
    \/ part = "processors" /\ FS!RequestInit /\ v9 = 0 /\ v10 = 0 /\ v11 = 0 /\ v12 = 0 /\ v13 = 0
    \/ part = "spans" /\ FS!SpanInit /\ v6 = 0 /\ v7 = 0 /\ v8 = 0 /\ v9 = 0 /\ v10 = 0 /\ v11 = 0 /\ v12 = 0 /\ v13 = 0
    \/ part = "fanout" /\ AT!FanInit /\ v12 = 0 /\ v13 = 0
    \/ part = "pipeline" /\ AT!PipeInit /\ v9 = 0 /\ v10 = 0 /\ v11 = 0 /\ v12 = 0 /\ v13 = 0
    \/ part = "router" /\ AT!RouterInit /\ v7 = 0 /\ v8 = 0 /\ v9 = 0 /\ v10 = 0 /\ v11 = 0 /\ v12 = 0 /\ v13 = 0
    \/ part = "lb" /\ AT!LbInit /\ v11 = 0 /\ v12 = 0 /\ v13 = 0
    \/ part = "cluster" /\ AT!ClusterInit /\ v7 = 0 /\ v8 = 0 /\ v9 = 0 /\ v10 = 0 /\ v11 = 0 /\ v12 = 0 /\ v13 = 0
    \/ part = "human" /\ LA!HumanInit /\ v9 = 0 /\ v10 = 0 /\ v11 = 0 /\ v12 = 0 /\ v13 = 0
    \/ part = "tree" /\ BG!TreeInit /\ v6 = 0 /\ v7 = 0 /\ v8 = 0 /\ v9 = 0 /\ v10 = 0 /\ v11 = 0 /\ v12 = 0 /\ v13 = 0
    \/ part = "autoflow" /\ BG!AutoInit /\ v9 = 0 /\ v10 = 0 /\ v11 = 0 /\ v12 = 0 /\ v13 = 0
    \/ part = "agentcall" /\ BG!CallInit /\ v12 = 0 /\ v13 = 0
    \/ part = "agentdag" /\ BG!DepsInit /\ v6 = 0 /\ v7 = 0 /\ v8 = 0 /\ v9 = 0 /\ v10 = 0 /\ v11 = 0 /\ v12 = 0 /\ v13 = 0
    \/ part = "agenttools" /\ BG!ToolInit /\ v6 = 0 /\ v7 = 0 /\ v8 = 0 /\ v9 = 0 /\ v10 = 0 /\ v11 = 0 /\ v12 = 0 /\ v13 = 0
    \/ part = "enhanced" /\ LA!EnhancedInit /\ v7 = 0 /\ v8 = 0 /\ v9 = 0 /\ v10 = 0 /\ v11 = 0 /\ v12 = 0 /\ v13 = 0
    \/ part = "llmagent" /\ LA!ReactInit /\ v9 = 0 /\ v10 = 0 /\ v11 = 0 /\ v12 = 0 /\ v13 = 0
    \/ part = "planner" /\ GP!PlanInit /\ v4 = 0 /\ v5 = 0 /\ v6 = 0 /\ v7 = 0 /\ v8 = 0 /\ v9 = 0 /\ v10 = 0 /\ v11 = 0 /\ v12 = 0 /\ v13 = 0
    \/ part = "hub" /\ AA!HubInit /\ v7 = 0 /\ v8 = 0 /\ v9 = 0 /\ v10 = 0 /\ v11 = 0 /\ v12 = 0 /\ v13 = 0
    \/ part = "stream" /\ AA!SseInit /\ v11 = 0 /\ v12 = 0 /\ v13 = 0
    \/ part = "remote" /\ AA!RemoteInit /\ v5 = 0 /\ v6 = 0 /\ v7 = 0 /\ v8 = 0 /\ v9 = 0 /\ v10 = 0 /\ v11 = 0 /\ v12 = 0 /\ v13 = 0

Next ==
    \/ part = "eventloop" /\ AR!LoopNext /\ UNCHANGED <<part, v11, v12, v13>>
    \/ part = "llmflow" /\ AR!FlowNext /\ UNCHANGED <<part, v9, v10, v11, v12, v13>>
    \/ part = "plugins" /\ FS!PluginNext /\ UNCHANGED <<part, v8, v9, v10, v11, v12, v13>>
    \/ part = "livesession" /\ FS!LiveNext /\ UNCHANGED <<part, v5, v6, v7, v8, v9, v10, v11, v12, v13>>
    \/ part = "tooltracker" /\ FS!TrackerNext /\ UNCHANGED <<part, v6, v7, v8, v9, v10, v11, v12, v13>>
    \/ part = "graphstate" /\ GE!StateNext /\ UNCHANGED <<part, v7, v8, v9, v10, v11, v12, v13>>
    \/ part = "filestore" /\ FI!Next /\ UNCHANGED <<part, v4, v5, v6, v7, v8, v9, v10, v11, v12, v13>>
    \/ part = "graphrun" /\ GE!RunNext /\ UNCHANGED <<part, v10, v11, v12, v13>>
    \/ part = "dag" /\ GP!DagNext /\ UNCHANGED <<part, v10, v11, v12, v13>>
    \/ part = "gbuilder" /\ GP!BuilderNext /\ UNCHANGED <<part, v8, v9, v10, v11, v12, v13>>
    \/ part = "gnodes" /\ GE!NodesNext /\ UNCHANGED <<part, v6, v7, v8, v9, v10, v11, v12, v13>>
    \/ part = "streamrun" /\ RI!StreamNext /\ UNCHANGED <<part>>
    \/ part = "iterrun" /\ RI!IterNext /\ UNCHANGED <<part, v7, v8, v9, v10, v11, v12, v13>>
    \/ part = "processors" /\ FS!RequestNext /\ UNCHANGED <<part, v9, v10, v11, v12, v13>>
    \/ part = "spans" /\ FS!SpanNext /\ UNCHANGED <<part, v6, v7, v8, v9, v10, v11, v12, v13>>
    \/ part = "fanout" /\ AT!FanNext /\ UNCHANGED <<part, v12, v13>>
    \/ part = "pipeline" /\ AT!PipeNext /\ UNCHANGED <<part, v9, v10, v11, v12, v13>>
    \/ part = "router" /\ AT!RouterNext /\ UNCHANGED <<part, v7, v8, v9, v10, v11, v12, v13>>
    \/ part = "lb" /\ AT!LbNext /\ UNCHANGED <<part, v11, v12, v13>>
    \/ part = "cluster" /\ AT!ClusterNext /\ UNCHANGED <<part, v7, v8, v9, v10, v11, v12, v13>>
    \/ part = "human" /\ LA!HumanNext /\ UNCHANGED <<part, v9, v10, v11, v12, v13>>
    \/ part = "tree" /\ BG!TreeNext /\ UNCHANGED <<part, v6, v7, v8, v9, v10, v11, v12, v13>>
    \/ part = "autoflow" /\ BG!AutoNext /\ UNCHANGED <<part, v9, v10, v11, v12, v13>>
    \/ part = "agentcall" /\ BG!CallNext /\ UNCHANGED <<part, v12, v13>>
    \/ part = "agentdag" /\ BG!DepsNext /\ UNCHANGED <<part, v6, v7, v8, v9, v10, v11, v12, v13>>
    \/ part = "agenttools" /\ BG!ToolNext /\ UNCHANGED <<part, v6, v7, v8, v9, v10, v11, v12, v13>>
    \/ part = "enhanced" /\ LA!EnhancedNext /\ UNCHANGED <<part, v7, v8, v9, v10, v11, v12, v13>>
    \/ part = "llmagent" /\ LA!ReactNext /\ UNCHANGED <<part, v9, v10, v11, v12, v13>>
    \/ part = "planner" /\ GP!PlanNext /\ UNCHANGED <<part, v4, v5, v6, v7, v8, v9, v10, v11, v12, v13>>
    \/ part = "hub" /\ AA!HubNext /\ UNCHANGED <<part, v7, v8, v9, v10, v11, v12, v13>>
    \/ part = "stream" /\ AA!SseNext /\ UNCHANGED <<part, v11, v12, v13>>
    \/ part = "remote" /\ AA!RemoteNext /\ UNCHANGED <<part, v5, v6, v7, v8, v9, v10, v11, v12, v13>>

Spec == Init /\ [][Next]_vars

-----------------------------------------------------------------------------
(* The event loop and the LLM flow: what is seen was committed, and every  *)
(* call has its answer.                                                    *)
(* - Runtime: every event that is not partial is in the session before the *)
(* caller receives it, in the same order, and at most one is ahead,        *)
(* whichever agents yield.                                                 *)
(* - SyncAgentRuntime: an agent that resumes after Yield finds the event   *)
(* it yielded committed.                                                   *)
(* - LlmFlow: the provider is never called more often than MaxLLMCalls     *)
(* allows, nor twice in a step, whatever the callbacks answer.             *)
(* - LlmFlow: the tool results of a step hold one answer for each function *)
(* call of the response before them.                                       *)
EventsCommitted ==
    /\ [](/\ part = "eventloop" => AR!LoopTypeOK /\ AR!CommittedBeforeForwarded /\ AR!SeesOwnCommits
          /\ part = "llmflow" => AR!FlowTypeOK /\ AR!CallBudget)
    /\ [][part = "llmflow" => AR!CallsAnswered]_vars

(* What the flow rests on keeps its books while callers come, leave, time  *)
(* out and fail.                                                           *)
(* - PluginManager: callbacks run by priority, and in the order of         *)
(* registration within one, however plugins come and go.                   *)
(* - PluginManager: the manager becomes initialized only when every        *)
(* enabled plugin has started.                                             *)
(* - LiveSessionManager: the event channel of a session is closed at most  *)
(* once, by CloseSession or by the cleanup of idle sessions.               *)
(* - LiveSessionManager: a session that has left the manager has its flag  *)
(* and its request queue closed.                                           *)
(* - LongRunningToolTracker: a worker's result is refused only for a tool  *)
(* that was cancelled; cleanup never takes a tool away from its worker.    *)
(* - Every tool a request offers can be looked up, a transfer included,    *)
(* and nothing else beside what the caller supplied                        *)
(* (processors.go:104-335).                                                *)
(* - The history window drops the history before the contents a caller     *)
(* passed, and of those the oldest first; with room for them and the       *)
(* instruction it drops none of them (processors.go:227-273).              *)
(* - No exporter is given a span twice by the flows that share a provider  *)
(* (telemetry_integration.go:139-189, 488-527).                            *)
FlowSupportAgrees ==
    /\ [](/\ part = "plugins" => FS!PluginTypeOK /\ FS!PriorityDecides
          /\ part = "livesession" => FS!LiveTypeOK /\ FS!ClosedOnce /\ FS!LeftIsClosed
          /\ part = "tooltracker" => FS!TrackerTypeOK /\ FS!ResultsAccepted
          /\ part = "processors" => FS!RequestTypeOK /\ FS!OfferedIsKnown /\ FS!NewestKept
          /\ part = "spans" => FS!SpanTypeOK /\ FS!ExportedOnce)
    /\ [][part = "plugins" => FS!InitializedIsReady]_vars

(* The iterator and streaming runtimes pass on the stream and nothing      *)
(* else.                                                                   *)
(* - Every event the caller has got that is not partial was committed      *)
(* (iterators.go:93-144).                                                  *)
(* - No agent takes more steps than it may, and nothing follows a final    *)
(* response (iterators.go:139, 278-308).                                   *)
(* - A read in the invocation context sees the latest write, committed or  *)
(* not (runtime.go:174-235).                                               *)
(* - Batching neither loses nor reorders events (streaming.go:246-275). *)
StreamsFaithful ==
    /\ part = "iterrun" => RI!IterTypeOK /\ RI!YieldedIsCommitted /\ RI!StepsBounded
    /\ part = "streamrun" => RI!StreamTypeOK /\ RI!ReadsLatestWrite /\ RI!BatchesAreTheStream

(* A graph runs what its edges reach, its nodes leave nothing behind, and  *)
(* its observers are told.                                                 *)
(* - Graph executors: a traversal that ends without an error has run       *)
(* exactly the nodes reachable from where it began by the edges it         *)
(* follows, the node the pause named excepted after a resume; conditions   *)
(* of edges count for the A2A executor only.                               *)
(* - ResumeFromPaused: the node the pause named is not run again by the    *)
(* resumed traversal.                                                      *)
(* - ParallelNode: whatever fails, once it has returned no child runs on   *)
(* beside the nodes that follow.                                           *)
(* - LoopNode: no model is asked more than MaxIters times. *)
(* - MemoryState: a live watcher whose channel never overflowed has been   *)
(* told of the current version, whichever operation made it.               *)
(* - MemoryState: Close, unsubscribe and the cancellation goroutine close  *)
(* a watcher's channel once, and a registered watcher's channel is open.   *)
GraphRunsSound ==
    /\ part = "graphrun" => GE!RunTypeOK /\ GE!RunsWhatIsReachable /\ GE!PausedNotRerun
    /\ part = "gnodes" => GE!NodesTypeOK /\ GE!NoChildOutlivesParallel /\ GE!LoopBounded
    /\ part = "graphstate" => GE!StateTypeOK /\ GE!InformedUnlessLossy /\ GE!ChannelsClosedOnce

(* Builder, compiler and planner refuse exactly what could not run, and    *)
(* keep the order of the rest.                                             *)
(* - DAGCompiler: topologicalSort refuses exactly the graphs that have a   *)
(* cycle.                                                                  *)
(* - DAGCompiler: every edge of the graph goes from a stage to a later     *)
(* stage that depends on it, and stages depend on earlier ones only.       *)
(* - Builder: a graph that Build returns has edges between its nodes and a *)
(* finish node on every closed set from its entry.                         *)
(* - Builder: with no failed operation Build refuses only a graph without  *)
(* an entry, or whose entry leads to no finish node.                       *)
(* - The planner's depth-first search refuses exactly the plans with a     *)
(* missing dependency or with a step that depends on itself.               *)
(* - Reordering a plan for parallelism loses no step and keeps             *)
(* dependencies first when the list had them first.                        *)
PlansSound ==
    /\ part = "dag" => GP!DagTypeOK /\ GP!RefusesExactlyCycles /\ GP!EdgesBecomeDependencies
    /\ part = "gbuilder" => GP!BuilderTypeOK /\ GP!BuiltIsRunnable /\ GP!RefusesOnlyUnsound
    /\ part = "planner" => GP!PlanTypeOK /\ GP!RefusesExactlyUnsound /\ GP!ReorderKeepsOrder

(* What a composed agent returns is justified by what its members did, in  *)
(* whatever order they answered.                                           *)
(* - A success of an agent that runs several agents at once rests on the   *)
(* children its settings ask for (parallel_agent.go, mapreduce_agent.go).  *)
(* - No more mappers or workers run at once than the parallelism           *)
(* (mapreduce_agent.go:126).                                               *)
(* - No child goroutine is left waiting on a channel, also after the       *)
(* executor gave up (mapreduce_agent.go:128, parallel_agent.go:215).       *)
(* - The chunks of a split list are disjoint (mapreduce_agent.go:313). *)
(* - An agent of a sequence or a loop receives the answer of the run       *)
(* before it, and a failure ends a sequence that stops on errors           *)
(* (sequential_agent.go:99, loop_agent.go:149).                            *)
(* - A loop takes no more turns than its maximum and none after its agent  *)
(* escalated (loop_agent.go:149,220).                                      *)
(* - The route taken has the highest priority of those that match,         *)
(* whatever order the routes were configured in (router_agent.go:31).      *)
(* - While the pool does not change, the in-flight counter of an agent is  *)
(* the number of requests it serves, however they end                      *)
(* (router_agent.go:692).                                                  *)
(* - The coordinator never counts more errors than executions, at any      *)
(* interleaving of requests (cluster_aware_lb_agent.go:339).               *)
(* - A request fails only after what its strategy falls back on was tried: *)
(* local-first the pool and one more place, affinity every node with the   *)
(* capability and one more place, global nothing more                      *)
(* (cluster_aware_lb_agent.go:97-186).                                     *)
TeamResultsJustified ==
    /\ part = "fanout" => /\ AT!FanTypeOK
                          /\ AT!OkIsJustified
                          /\ AT!MappersBounded
                          /\ AT!NobodyStuck
                          /\ AT!SplitsPartition
    /\ part = "pipeline" => AT!PipeTypeOK /\ AT!HandedOn /\ AT!LoopStopsWhenTold
    /\ part = "router" => AT!RouterTypeOK /\ AT!BestRouteTaken
    /\ part = "lb" => AT!LbTypeOK /\ AT!InFlightExact
    /\ part = "cluster" => AT!ClusterTypeOK /\ AT!ErrorsWithinExecutions /\ AT!FallbacksTried

(* What the base agent tells of its calls, dependencies, tree, tools and   *)
(* transfers agrees with what it did.                                      *)
(* - A call beside which no call of the same agent ran is measured from    *)
(* its own start, whatever calls failed before it (callbacks.go:81-103).   *)
(* - Calls that share an input and found its instruction resolved found    *)
(* the same text, unless two were resolving it at once (agent.go:303-312). *)
(* - Where an agent is needed by one other only, it runs in an earlier     *)
(* stage (agent.go:670-733).                                               *)
(* - Exactly the agents the root depends on get a task (agent.go:670-733). *)
(* - An agent has one parent and is on the list of that agent only, for    *)
(* any interleaving of additions and removals (agent.go:396).              *)
(* - FindAgent finds exactly the descendants, as the parent links give     *)
(* them, also in a cycle (agent.go:456).                                   *)
(* - Until a sub-agent a tool registry was built from is removed,          *)
(* transfer_to_agent(name) reaches the agent that call_<name> runs.        *)
(* - No additional tool takes the transfer tool's place in a hierarchy's   *)
(* registry.                                                               *)
(* - The transfer limit bounds the agents run, whichever context           *)
(* overlapping invocations record their transfers in; while they overlap   *)
(* it may be the default limit of a new context instead of the configured  *)
(* one (invocation_context.go:31,118, autoflow.go:113-115).                *)
(* - Unless invocations overlap, a transfer starts where the one before it *)
(* ended and the last ends at the agent that runs                          *)
(* (invocation_context.go:126-144).                                        *)
(* - An agent hands its work only to an agent its scope allows, unless     *)
(* invocations overlap (autoflow.go:15-31,287).                            *)
BaseAgentsAgree ==
    /\ [](/\ part = "agentcall" => BG!CallTypeOK /\ BG!AloneTimedExactly /\ BG!OneResolution
          /\ part = "agentdag" => BG!DepsTypeOK /\ BG!TreesInOrder /\ BG!TasksExact
          /\ part = "tree" => BG!TreeTypeOK /\ BG!LinksAgree /\ BG!LookupsAgree
          /\ part = "agenttools" => BG!ToolTypeOK /\ BG!DelegationAgrees /\ BG!TransferStays
          /\ part = "autoflow" => BG!AutoTypeOK /\ BG!RunsBounded /\ BG!HistoryIsPath)
    /\ [][part = "autoflow" => BG!ScopeKeptStep]_vars

(* Agents that ask a model or a person stay in their bounds and report     *)
(* what happened.                                                          *)
(* - The after-model callbacks count every answer of the ReAct loop and    *)
(* never more than the model gave (llm_agent.go:323-329).                  *)
(* - In the ReAct conversation every action is followed by exactly one     *)
(* observation (llm_agent.go:342-360).                                     *)
(* - With the cache ahead of a modifier that returns another output the    *)
(* cache holds only what the model wrote, and a repeated answer is changed *)
(* no more often than a fresh one (shortcircuit_callbacks.go:155-183, 403, *)
(* 458-467).                                                               *)
(* - A call asks the model and runs tools no more often than its mode      *)
(* allows (llm_agent_enhanced.go:279-550).                                 *)
(* - A caller receives only an answer accepted for its own request id, and *)
(* no id is answered more often than it was asked for                      *)
(* (human_agent.go:108).                                                   *)
LlmAgentsAgree ==
    /\ part = "llmagent" => LA!ReactTypeOK /\ LA!TokensAgree /\ LA!ActionsObserved
    /\ part = "enhanced" => LA!EnhancedTypeOK /\ LA!CacheBeforeModifierStable /\ LA!CallsBounded
    /\ part = "human" => LA!HumanTypeOK /\ LA!AnswersMatch

(* Calls of agents elsewhere are served as registered, in order, whole,    *)
(* and tried as often as configured.                                       *)
(* - Discovery offers exactly the agents served, as long as agents carry   *)
(* their card's identifier (http_server.go:53,69).                         *)
(* - An invocation runs only an agent served under the name the request    *)
(* gives (http_server.go:92-105).                                          *)
(* - A consumer sees the events of a stream in order, without a gap, and   *)
(* nothing after the final one (protocol.go:369-391).                      *)
(* - A consumer that saw the end of the stream has every piece the agent   *)
(* produced, except those JSON could not encode: the handler drops them    *)
(* and still ends with 'done' (protocol.go:383-387, sse.go:165-168, 284).  *)
(* - A fallback fails only after its last agent (remote_agent.go:516-524). *)
(* - The remote side runs one call's work at most RetryCount + 1 times     *)
(* (remote_agent.go:117-133).                                              *)
CallsElsewhereSettle ==
    /\ part = "hub" => AA!HubTypeOK /\ AA!DiscoveryAgrees /\ AA!RunsServed
    /\ part = "stream" => AA!SseTypeOK /\ AA!InOrder /\ AA!WholeWhenDone
    /\ part = "remote" => AA!RemoteTypeOK /\ AA!FallbackExhausts /\ AA!RunsAtMostRetries

(* FileStateStore: with two savers of different executions at once, one of *)
(* which also clears the directory, every step of the directory is a step  *)
(* of the store in memory (a batch being saves one by one) or changes      *)
(* nothing a reader sees.                                                  *)
ImplementsMemoryStore ==
    [][part = "filestore" => FI!ImplementsMemoryStore]_vars

=============================================================================

---------------------------- MODULE ToolServers -----------------------------
(***************************************************************************)
(* Programs agents talk to and run on: MCP transport and toolsets, agents  *)
(* on standard I/O, and the local backend.                                 *)
(***************************************************************************)
EXTENDS Naturals, Sequences, FiniteSets

-----------------------------------------------------------------------------
(* McpTransport                                                            *)
(* The stdio transport of the MCP client: concurrent requests over one pipe to a     *)
(* server process, answers in any order, late or never, and a reader that hands each *)
(* to the request that waits for it.                                                 *)

CONSTANTS McpCallers, McpMaxRequests

VARIABLES request,     \* caller -> [pc, id, got]
          responses,   \* ids with a channel in the map
          channel,     \* id -> the id of the answer in its channel (capacity 1), 0 for none
          requestID,
          asked,       \* requests the server has read and not answered
          wire,        \* answers on the pipe, not read yet
          passedOver,  \* ids whose answer the reader dropped while its caller waited
          mcpConnected, reading

mcpVars == <<request, responses, channel, requestID, asked, wire, passedOver, mcpConnected, reading>>

McpIdle == [pc |-> "idle", id |-> 0, got |-> 0]

McpInit ==
  /\ request = [c \in McpCallers |-> McpIdle] /\ responses = {}
  /\ channel = [i \in 1..McpMaxRequests |-> 0] /\ requestID = 0
  /\ asked = {} /\ wire = {} /\ passedOver = {}
  /\ mcpConnected = TRUE /\ reading = TRUE

(* Mutant: the first number nobody is waiting for. *)
FreshID_Reused == CHOOSE i \in 1..McpMaxRequests : i \notin responses /\ \A j \in 1..(i - 1) : j \in responses
(* atomic.AddInt32(&c.requestID, 1). *)
FreshID == requestID + 1

(* Send: the channel is put into the map ... *)
Register(c) ==
  /\ request[c].pc \in {"idle", "ok", "error"} /\ mcpConnected /\ requestID < McpMaxRequests
  /\ requestID' = requestID + 1
  /\ request' = [request EXCEPT ![c] = [pc |-> "registered", id |-> FreshID, got |-> 0]]
  /\ responses' = responses \cup {FreshID} /\ channel' = [channel EXCEPT ![FreshID] = 0]
  /\ UNCHANGED <<asked, wire, passedOver, mcpConnected, reading>>

Gone(c, pc) ==
  /\ request' = [request EXCEPT ![c].pc = pc] /\ responses' = responses \ {request[c].id}

(* ... then the request is written, ... *)
Write(c, ok) ==
  /\ request[c].pc = "registered"
  /\ IF ok THEN /\ request' = [request EXCEPT ![c].pc = "sent"] /\ asked' = asked \cup {request[c].id}
                /\ UNCHANGED responses
           ELSE Gone(c, "error") /\ UNCHANGED asked
  /\ UNCHANGED <<channel, requestID, wire, passedOver, mcpConnected, reading>>
(* ... and the caller waits: for the answer, its context, the timeout or the reader. *)
Wait(c) ==
  /\ request[c].pc = "sent" /\ request' = [request EXCEPT ![c].pc = "waiting"]
  /\ UNCHANGED <<responses, channel, requestID, asked, wire, passedOver, mcpConnected, reading>>
Receive(c) ==
  /\ request[c].pc = "waiting" /\ channel[request[c].id] # 0
  /\ request' = [request EXCEPT ![c].pc = "ok", ![c].got = channel[request[c].id]]
  /\ responses' = responses \ {request[c].id}
  /\ UNCHANGED <<channel, requestID, asked, wire, passedOver, mcpConnected, reading>>
GiveUp(c) ==
  /\ request[c].pc = "waiting" /\ Gone(c, "error")
  /\ UNCHANGED <<channel, requestID, asked, wire, passedOver, mcpConnected, reading>>

(* The server answers what it has been asked, once or (a retry of its own) again. *)
Answer(i, again) ==
  /\ i \in asked /\ wire' = wire \cup {i}
  /\ asked' = IF again THEN asked ELSE asked \ {i}
  /\ UNCHANGED <<request, responses, channel, requestID, passedOver, mcpConnected, reading>>

StillWaits(i) == \E c \in McpCallers : request[c].id = i /\ request[c].pc \in {"sent", "waiting"}
(* Mutant: an unbuffered channel takes an answer only when the caller is in select. *)
Deliver_Unbuffered(i) ==
  /\ reading /\ i \in wire /\ wire' = wire \ {i}
  /\ LET takes == i \in responses /\ channel[i] = 0 /\ \E c \in McpCallers : request[c].id = i /\ request[c].pc = "waiting"
     IN /\ channel' = IF takes THEN [channel EXCEPT ![i] = i] ELSE channel
        /\ passedOver' = IF ~takes /\ StillWaits(i) /\ channel[i] = 0 THEN passedOver \cup {i} ELSE passedOver
  /\ UNCHANGED <<request, responses, requestID, asked, mcpConnected, reading>>
(* The reader: the channel of the answer's id, if it is there and has room. *)
Deliver(i) ==
  /\ reading /\ i \in wire /\ wire' = wire \ {i}
  /\ LET takes == i \in responses /\ channel[i] = 0
     IN /\ channel' = IF takes THEN [channel EXCEPT ![i] = i] ELSE channel
        /\ passedOver' = IF ~takes /\ StillWaits(i) /\ channel[i] = 0 THEN passedOver \cup {i} ELSE passedOver
  /\ UNCHANGED <<request, responses, requestID, asked, mcpConnected, reading>>

(* The process ends, a line is too long, or stdin is closed: the reader stops. *)
ReaderEnds ==
  /\ reading /\ reading' = FALSE
  /\ UNCHANGED <<request, responses, channel, requestID, asked, wire, passedOver, mcpConnected>>
McpClose ==
  /\ mcpConnected /\ mcpConnected' = FALSE
  /\ UNCHANGED <<request, responses, channel, requestID, asked, wire, passedOver, reading>>

McpNext ==
  \/ \E c \in McpCallers : Register(c) \/ (\E ok \in BOOLEAN : Write(c, ok)) \/ Wait(c) \/ Receive(c) \/ GiveUp(c)
  \/ \E i \in 1..McpMaxRequests : (\E again \in BOOLEAN : Answer(i, again)) \/ Deliver(i)
  \/ ReaderEnds
  \/ McpClose

McpSpec == McpInit /\ [][McpNext]_mcpVars

McpTypeOK ==
  /\ responses \subseteq 1..McpMaxRequests /\ requestID \in 0..McpMaxRequests
  /\ wire \subseteq 1..McpMaxRequests /\ asked \subseteq 1..McpMaxRequests

(* A caller is answered by the answer to its own request, also after an earlier      *)
(* request was given up and its answer comes late, or comes twice: no two waiting    *)
(* requests share an id, and no answer in flight carries the id of a request that    *)
(* has not been written yet.                                                         *)
AnswersAreOwn ==
  /\ \A c, d \in McpCallers : (c # d /\ {request[c].pc, request[d].pc} \subseteq {"registered", "sent", "waiting"})
        => request[c].id # request[d].id
  /\ \A c \in McpCallers : request[c].pc = "registered" => request[c].id \notin asked \cup wire /\ channel[request[c].id] = 0

(* No answer is dropped while the request it answers still waits for it.             *)
NoAnswerDropped == passedOver = {}

-----------------------------------------------------------------------------
(* McpToolsets                                                             *)
(* The MCP toolsets of the partitions: each connects by starting a server process,   *)
(* pinging it and listing its tools; any of it may fail. Callers look up, create,    *)
(* call, disconnect, connect again and close.                                        *)

CONSTANTS ToolsetCallers, Partitions, MaxToolsets, MaxServers

VARIABLES toolsets,    \* partition -> the toolset in the map, 0 for none
          made,        \* toolsets ever made
          toolsetConnected,  \* toolset -> its connected flag
          client,      \* toolset -> the server its client talks to
          running,     \* server processes that run
          servers,     \* processes ever started
          lock,        \* holder of the map's lock for writing
          busy,        \* toolset -> holder of its own lock
          toolsetAgain,  \* ghost: toolsets that a holder connected when they were out of the map
          caller       \* caller -> [pc, partition, toolset, server]

toolsetVars == <<toolsets, made, toolsetConnected, client, running, servers, lock, busy, toolsetAgain, caller>>

ToolsetIdle == [pc |-> "idle", partition |-> "", toolset |-> 0, server |-> 0]
Sets == 1..MaxToolsets

ToolsetInit ==
  /\ toolsets = [p \in Partitions |-> 0] /\ made = 0 /\ toolsetConnected = [t \in Sets |-> FALSE]
  /\ client = [t \in Sets |-> 0] /\ running = {} /\ servers = 0 /\ lock = "free"
  /\ busy = [t \in Sets |-> "free"] /\ toolsetAgain = {} /\ caller = [c \in ToolsetCallers |-> ToolsetIdle]

(* GetOrCreateToolset: the look under the read lock. *)
Look(c, p) ==
  /\ caller[c].pc = "idle" /\ lock = "free"
  /\ caller' = [caller EXCEPT ![c] = [pc |-> IF toolsets[p] # 0 THEN "has" ELSE "create",
                                      partition |-> p, toolset |-> toolsets[p], server |-> 0]]
  /\ UNCHANGED <<toolsets, made, toolsetConnected, client, running, servers, lock, busy, toolsetAgain>>

(* A new toolset, locked for its Connect while the map stays locked. *)
Make(c) ==
  /\ made < MaxToolsets /\ made' = made + 1 /\ lock' = c /\ busy' = [busy EXCEPT ![made + 1] = c]
  /\ caller' = [caller EXCEPT ![c].pc = "start", ![c].toolset = made + 1]
(* Mutant: without the second look. *)
Create_NoRecheck(c) ==
  /\ caller[c].pc = "create" /\ lock = "free" /\ Make(c)
  /\ UNCHANGED <<toolsets, toolsetConnected, client, running, servers, toolsetAgain>>
(* The second look, under the write lock. *)
Create(c) ==
  /\ caller[c].pc = "create" /\ lock = "free"
  /\ IF toolsets[caller[c].partition] # 0
     THEN /\ caller' = [caller EXCEPT ![c].pc = "has", ![c].toolset = toolsets[caller[c].partition]]
          /\ UNCHANGED <<lock, busy, made>>
     ELSE Make(c)
  /\ UNCHANGED <<toolsets, toolsetConnected, client, running, servers, toolsetAgain>>

(* Connect by a caller that holds the toolset: nothing when it is connected. *)
Connect(c) ==
  /\ caller[c].pc = "has" /\ ~toolsetConnected[caller[c].toolset] /\ busy[caller[c].toolset] = "free"
  /\ busy' = [busy EXCEPT ![caller[c].toolset] = c] /\ caller' = [caller EXCEPT ![c].pc = "start"]
  /\ UNCHANGED <<toolsets, made, toolsetConnected, client, running, servers, lock, toolsetAgain>>

Unlock(c) == lock' = (IF lock = c THEN "free" ELSE lock) /\ busy' = [busy EXCEPT ![caller[c].toolset] = "free"]
Fail(c) ==
  /\ caller' = [caller EXCEPT ![c] = IF lock = c THEN ToolsetIdle ELSE [@ EXCEPT !.pc = "has", !.server = 0]]
  /\ Unlock(c)

(* NewStdioTransport starts the process. *)
Start(c, ok) ==
  /\ caller[c].pc = "start"
  /\ IF ok THEN /\ servers < MaxServers /\ servers' = servers + 1 /\ running' = running \cup {servers + 1}
                /\ caller' = [caller EXCEPT ![c].pc = "ping", ![c].server = servers + 1] /\ UNCHANGED <<lock, busy>>
           ELSE Fail(c) /\ UNCHANGED <<servers, running>>
  /\ UNCHANGED <<toolsets, made, toolsetConnected, client, toolsetAgain>>

(* client.Connect: a failed ping closes the transport. *)
Ping(c, ok) ==
  /\ caller[c].pc = "ping"
  /\ IF ok THEN caller' = [caller EXCEPT ![c].pc = "list"] /\ UNCHANGED <<running, lock, busy>>
           ELSE running' = running \ {caller[c].server} /\ Fail(c)
  /\ UNCHANGED <<toolsets, made, toolsetConnected, client, servers, toolsetAgain>>

(* The tools are listed, and a toolset that was made goes into the map; otherwise    *)
(* the client is closed again.                                                       *)
ListTools(c, ok) ==
  /\ caller[c].pc = "list"
  /\ LET t == caller[c].toolset
     IN IF ok THEN /\ toolsets' = IF lock = c THEN [toolsets EXCEPT ![caller[c].partition] = t] ELSE toolsets
                   /\ toolsetConnected' = [toolsetConnected EXCEPT ![t] = TRUE] /\ client' = [client EXCEPT ![t] = caller[c].server]
                   /\ toolsetAgain' = IF lock # c /\ t \notin {toolsets[p] : p \in Partitions} THEN toolsetAgain \cup {t} ELSE toolsetAgain
                   /\ caller' = [caller EXCEPT ![c].pc = "has", ![c].server = 0] /\ Unlock(c) /\ UNCHANGED running
              ELSE running' = running \ {caller[c].server} /\ Fail(c) /\ UNCHANGED <<toolsets, toolsetConnected, client, toolsetAgain>>
  /\ UNCHANGED <<made, servers>>

(* A tool's handler takes the client under the read lock; refused when the toolset   *)
(* has been disconnected meanwhile.                                                   *)
Call(c) ==
  /\ caller[c].pc = "has" /\ busy[caller[c].toolset] = "free"
  /\ caller' = [caller EXCEPT ![c] = IF toolsetConnected[caller[c].toolset]
                                     THEN [@ EXCEPT !.pc = "calling", !.server = client[caller[c].toolset]] ELSE ToolsetIdle]
  /\ UNCHANGED <<toolsets, made, toolsetConnected, client, running, servers, lock, busy, toolsetAgain>>
(* The call itself, without a lock of the toolset: answered by the server, or an     *)
(* error, the only outcome once the client has been closed.  It starts no server.    *)
CallTool(c) ==
  /\ caller[c].pc = "calling"
  /\ caller' = [caller EXCEPT ![c] = ToolsetIdle]
  /\ UNCHANGED <<toolsets, made, toolsetConnected, client, running, servers, lock, busy, toolsetAgain>>

(* Disconnect of a toolset a caller holds: it stays in the map. *)
Disconnect(c) ==
  /\ caller[c].pc = "has" /\ toolsetConnected[caller[c].toolset] /\ busy[caller[c].toolset] = "free"
  /\ toolsetConnected' = [toolsetConnected EXCEPT ![caller[c].toolset] = FALSE]
  /\ running' = running \ {client[caller[c].toolset]}
  /\ UNCHANGED <<toolsets, made, client, servers, lock, busy, toolsetAgain, caller>>

(* Close disconnects every toolset of the map, waiting for its lock, and empties it. *)
ToolsetClose ==
  /\ lock = "free"
  /\ LET all == {toolsets[p] : p \in Partitions} \ {0}
     IN /\ \A t \in all : busy[t] = "free"
        /\ toolsetConnected' = [t \in Sets |-> toolsetConnected[t] /\ t \notin all]
        /\ running' = running \ {client[t] : t \in {u \in all : toolsetConnected[u]}}
  /\ toolsets' = [p \in Partitions |-> 0]
  /\ UNCHANGED <<made, client, servers, lock, busy, toolsetAgain, caller>>

ToolsetNext ==
  \/ \E c \in ToolsetCallers :
       \/ \E p \in Partitions : Look(c, p)
       \/ Create(c)
       \/ Connect(c)
       \/ \E ok \in BOOLEAN : Start(c, ok) \/ Ping(c, ok) \/ ListTools(c, ok)
       \/ Call(c)
       \/ CallTool(c)
       \/ Disconnect(c)
  \/ ToolsetClose

ToolsetSpec == ToolsetInit /\ [][ToolsetNext]_toolsetVars

ToolsetTypeOK ==
  /\ toolsets \in [Partitions -> 0..made] /\ running \subseteq 1..servers
  /\ lock \in ToolsetCallers \cup {"free"} /\ busy \in [Sets -> ToolsetCallers \cup {"free"}]

(* No server process is orphaned: each one that runs is the client of a connected    *)
(* toolset of the map, which Close will end, or of the connection being made.  Only  *)
(* a holder that connects a toolset after Close took it out of the map keeps a       *)
(* server that no Close will end.                                                    *)
NoOrphanServer ==
  \A s \in running :
     \/ \E t \in Sets : toolsetConnected[t] /\ client[t] = s /\ ((\E p \in Partitions : toolsets[p] = t) \/ t \in toolsetAgain)
     \/ \E c \in ToolsetCallers : caller[c].pc \in {"ping", "list"} /\ caller[c].server = s

-----------------------------------------------------------------------------
(* StdioIpc                                                                *)
(* Requests to an agent in a child process over its stdin and stdout: callers share  *)
(* the pipes and the channel of answers, and nothing matches answers to requests.    *)

CONSTANTS IpcCallers, IpcMaxRequests, Buffer

VARIABLES next,      \* the last message id given
          stdin, stdout, \* the pipes: request ids on their way
          messages,  \* the channel readStdout fills
          pending,   \* caller -> the request it waits for, 0 for none
          got,       \* caller -> [own, type] of its last answer
          stopped,   \* Stop was called
          server,    \* the child runs
          timedOut, overlapped \* ghosts: a request gave up; two requests were under way

ipcVars == <<next, stdin, stdout, messages, pending, got, stopped, server, timedOut, overlapped>>

NoAnswer == [own |-> TRUE, type |-> "none"]
IpcInit ==
  /\ next = 0 /\ stdin = << >> /\ stdout = << >> /\ messages = << >>
  /\ pending = [c \in IpcCallers |-> 0] /\ got = [c \in IpcCallers |-> NoAnswer]
  /\ stopped = FALSE /\ server = TRUE /\ timedOut = FALSE /\ overlapped = FALSE

(* SendRequest up to the wait: a fresh id, one line on the pipe; a dead child or a    *)
(* closed pipe is an error.                                                           *)
SendMessage(c) ==
  /\ pending[c] = 0 /\ next < IpcMaxRequests
  /\ next' = next + 1
  /\ IF ~server \/ stopped
     THEN got' = [got EXCEPT ![c] = [own |-> TRUE, type |-> "error"]] /\ UNCHANGED <<stdin, pending, overlapped>>
     ELSE /\ stdin' = Append(stdin, next + 1) /\ pending' = [pending EXCEPT ![c] = next + 1]
          /\ overlapped' = (overlapped \/ \E d \in IpcCallers \ {c} : pending[d] # 0)
          /\ UNCHANGED got
  /\ UNCHANGED <<stdout, messages, stopped, server, timedOut>>

(* ReceiveMessage: whatever is next on the channel, or the timeout. *)
ReceiveMessage(c) ==
  /\ pending[c] # 0 /\ messages # << >>
  /\ got' = [got EXCEPT ![c] = [own |-> Head(messages).id = pending[c], type |-> Head(messages).type]]
  /\ messages' = Tail(messages) /\ pending' = [pending EXCEPT ![c] = 0]
  /\ UNCHANGED <<next, stdin, stdout, stopped, server, timedOut, overlapped>>
Timeout(c) ==
  /\ pending[c] # 0
  /\ pending' = [pending EXCEPT ![c] = 0] /\ timedOut' = TRUE
  /\ got' = [got EXCEPT ![c] = [own |-> TRUE, type |-> "error"]]
  /\ UNCHANGED <<next, stdin, stdout, messages, stopped, server, overlapped>>

(* Mutant: an agent's error is answered and then treated as a result as well. *)
Responses_Two(id, ok) ==
  IF ok THEN <<[id |-> id, type |-> "response"]>>
  ELSE <<[id |-> id, type |-> "error"], [id |-> id, type |-> "response"]>>
(* handleRequest: one message per request, for a missing agent and an error too. *)
Responses(id, ok) == IF ok THEN <<[id |-> id, type |-> "response"]>> ELSE <<[id |-> id, type |-> "error"]>>
(* The server's loop: a request is processed to its end before the next is read. *)
processMessage(ok) ==
  /\ server /\ stdin # << >>
  /\ stdout' = stdout \o Responses(Head(stdin), ok) /\ stdin' = Tail(stdin)
  /\ UNCHANGED <<next, messages, pending, got, stopped, server, timedOut, overlapped>>
(* The child exits, or its scanner meets a line it cannot hold. *)
ServerExits ==
  /\ server /\ server' = FALSE
  /\ UNCHANGED <<next, stdin, stdout, messages, pending, got, stopped, timedOut, overlapped>>

(* readStdout: a line becomes a message unless the agent was stopped. *)
readStdout ==
  /\ stdout # << >> /\ ~stopped /\ Len(messages) < Buffer
  /\ messages' = Append(messages, Head(stdout)) /\ stdout' = Tail(stdout)
  /\ UNCHANGED <<next, stdin, pending, got, stopped, server, timedOut, overlapped>>

(* Stop closes the pipe, kills the child and waits for the readers. *)
Stop ==
  /\ ~stopped /\ stopped' = TRUE /\ server' = FALSE /\ stdin' = << >>
  /\ UNCHANGED <<next, stdout, messages, pending, got, timedOut, overlapped>>

IpcNext ==
  \/ \E c \in IpcCallers : SendMessage(c) \/ ReceiveMessage(c) \/ Timeout(c)
  \/ \E ok \in BOOLEAN : processMessage(ok)
  \/ ServerExits \/ readStdout \/ Stop
IpcSpec == IpcInit /\ [][IpcNext]_ipcVars

IpcTypeOK == /\ next \in 0..IpcMaxRequests /\ Len(messages) <= Buffer
             /\ \A c \in IpcCallers : pending[c] \in 0..IpcMaxRequests

(* Nothing but the order of the pipes ties an answer to its request.  As long as no   *)
(* request has timed out and no two were under way at once, that order is enough:    *)
(* every caller was given the answer to its own request.                              *)
AloneGetsOwn == \A c \in IpcCallers : ~got[c].own => timedOut \/ overlapped

-----------------------------------------------------------------------------
(* LocalBackend                                                            *)
(* The in-process backend: several executions of a graph, each one walk from the     *)
(* entry to a finish node, with their results kept for GetResult.                    *)

CONSTANTS Runs, Entry, Finish, Edges, \* Edges: node -> the sequence of its targets
          MaxSteps

VARIABLES status,   \* run -> "none", "pending", "running", "completed" or "failed"
          at, steps, path, \* run -> node to execute, steps done, nodes executed
          gone,     \* run -> its context is done
          results,  \* the runs GetResult finds
          dropped   \* the runs cleared from the results

localVars == <<status, at, steps, path, gone, results, dropped>>

LocalInit ==
  /\ status = [r \in Runs |-> "none"] /\ at = [r \in Runs |-> Entry] /\ steps = [r \in Runs |-> 0]
  /\ path = [r \in Runs |-> << >>] /\ gone = [r \in Runs |-> FALSE] /\ results = {} /\ dropped = {}

(* Execute stores a running result, ... *)
Execute(r) ==
  /\ status[r] = "none" /\ status' = [status EXCEPT ![r] = "running"] /\ results' = results \cup {r}
  /\ UNCHANGED <<at, steps, path, gone, dropped>>
(* ... ExecuteAsync a pending one that its goroutine sets running. *)
ExecuteAsync(r) ==
  /\ status[r] = "none" /\ status' = [status EXCEPT ![r] = "pending"] /\ results' = results \cup {r}
  /\ UNCHANGED <<at, steps, path, gone, dropped>>
Launch(r) ==
  /\ status[r] = "pending" /\ status' = [status EXCEPT ![r] = "running"]
  /\ UNCHANGED <<at, steps, path, gone, results, dropped>>

Cancel(r) ==
  /\ status[r] \in {"pending", "running"} /\ ~gone[r] /\ gone' = [gone EXCEPT ![r] = TRUE]
  /\ UNCHANGED <<status, at, steps, path, results, dropped>>

(* Close, ClearResults: the results are forgotten, the executions go on. *)
ClearResults ==
  /\ results # {} /\ results' = {} /\ dropped' = dropped \cup results
  /\ UNCHANGED <<status, at, steps, path, gone>>

(* The first edge that should be traversed, 0 for none. *)
Chosen(n, open) ==
  LET e == {i \in 1..Len(Edges[n]) : i \in open} IN IF e = {} THEN 0 ELSE CHOOSE i \in e : \A j \in e : i <= j

(* Mutant: a dead end counts as the end. *)
Step_DeadEndCompletes(r, ok, open) ==
  LET n == at[r] IN
  IF gone[r] \/ steps[r] >= MaxSteps \/ ~ok
  THEN status' = [status EXCEPT ![r] = "failed"] /\ UNCHANGED <<at, steps, path>>
  ELSE /\ path' = [path EXCEPT ![r] = Append(@, n)] /\ steps' = [steps EXCEPT ![r] = @ + 1]
       /\ IF n \in Finish \/ Chosen(n, open) = 0 THEN status' = [status EXCEPT ![r] = "completed"] /\ UNCHANGED at
          ELSE at' = [at EXCEPT ![r] = Edges[n][Chosen(n, open)]] /\ UNCHANGED status
(* One turn of executeGraph's loop: a done context, the step limit, a failing node   *)
(* or a node without an open edge fails the run, a finish node completes it.         *)
Step(r, ok, open) ==
  LET n == at[r] IN
  IF gone[r] \/ steps[r] >= MaxSteps \/ ~ok
  THEN status' = [status EXCEPT ![r] = "failed"] /\ UNCHANGED <<at, steps, path>>
  ELSE /\ path' = [path EXCEPT ![r] = Append(@, n)] /\ steps' = [steps EXCEPT ![r] = @ + 1]
       /\ IF n \in Finish THEN status' = [status EXCEPT ![r] = "completed"] /\ UNCHANGED at
          ELSE IF Chosen(n, open) = 0 THEN status' = [status EXCEPT ![r] = "failed"] /\ UNCHANGED at
          ELSE at' = [at EXCEPT ![r] = Edges[n][Chosen(n, open)]] /\ UNCHANGED status
executeGraph(r) ==
  /\ status[r] = "running"
  /\ \E ok \in BOOLEAN : \E open \in SUBSET (1..Len(Edges[at[r]])) : Step(r, ok, open)
  /\ UNCHANGED <<gone, results, dropped>>

LocalNext ==
  \/ ClearResults
  \/ \E r \in Runs : Execute(r) \/ ExecuteAsync(r) \/ Launch(r) \/ Cancel(r) \/ executeGraph(r)
LocalSpec == LocalInit /\ [][LocalNext]_localVars

LocalTypeOK == /\ \A r \in Runs : status[r] \in {"none", "pending", "running", "completed", "failed"}
               /\ results \subseteq Runs

(* A result tells what happened: its path is a walk of the graph from the entry, not *)
(* longer than the step limit, and it is complete exactly when the walk has reached  *)
(* a finish node, which is then the only one on it.                                   *)
PathIsWalk ==
  \A r \in Runs :
    LET p == path[r] IN
      /\ Len(p) <= MaxSteps /\ (p # << >> => p[1] = Entry)
      /\ \A i \in 1..(Len(p) - 1) : /\ p[i] \notin Finish
                                    /\ \E j \in 1..Len(Edges[p[i]]) : Edges[p[i]][j] = p[i + 1]
      /\ status[r] = "completed" <=> (p # << >> /\ p[Len(p)] \in Finish)
=============================================================================

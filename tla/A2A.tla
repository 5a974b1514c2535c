-------------------------------- MODULE A2A ---------------------------------
(***************************************************************************)
(* Agents that call agents elsewhere: the A2A hub and server, event        *)
(* streams, and the remote agent.                                          *)
(***************************************************************************)
EXTENDS Naturals, Sequences, FiniteSets

-----------------------------------------------------------------------------
(* A2AHub                                                                  *)
(* The A2A HTTP server: agents registered directly or over HTTP, the discovery      *)
(* registry it shares with the clients, and invocations, which look the agent up    *)
(* under the read lock and run it after the lock is released.                        *)

CONSTANTS Ids,         \* agent and card identifiers
          Requests,
          MaxChanges   \* registrations and removals

VARIABLES agents,      \* [Ids -> what runs: "none", "agent", "remote", "simple"]
          cards,       \* [Ids -> identifier on the card kept for the agent, "none"]
          registry,    \* identifiers in the discovery registry
          req,         \* [Requests -> [pc, via, id, runs, answer]]
          changes,
          renamed      \* history: an agent was registered under another name than its card's

hubVars == <<agents, cards, registry, req, changes, renamed>>

NoReq == [pc |-> "idle", via |-> "none", id |-> "none", runs |-> "none", answer |-> "none"]

HubInit ==
  /\ agents = [i \in Ids |-> "none"] /\ cards = [i \in Ids |-> "none"] /\ registry = {}
  /\ req = [r \in Requests |-> NoReq]
  /\ changes = 0 /\ renamed = FALSE

(* The discovery registry, with a lock of its own. *)
Register(card) == registry' = registry \cup {card}
Unregister(id) == registry' = registry \ {id}
GetAgent(id) == id \in registry
FindByCapability == registry

(* What handleRegister serves for a card: an agent with an endpoint is called over   *)
(* HTTP, one without gets a wrapper that answers by itself.                          *)
Wrapper(endpoint) == IF endpoint THEN "remote" ELSE "simple"
Answers(what) == IF what = "simple" THEN {"result"} ELSE {"result", "error"}

(* RegisterAgent, called directly or by handleRegister with the wrapper it built:    *)
(* the agent is kept under its own id, the registry entry under the card's.          *)
RegisterAgent(id, what, card) ==
  /\ changes < MaxChanges
  /\ agents' = [agents EXCEPT ![id] = what]
  /\ cards' = [cards EXCEPT ![id] = card]
  /\ Register(card)
  /\ changes' = changes + 1
  /\ renamed' = (renamed \/ id # card)
  /\ UNCHANGED req

(* handleRegister: agent_id defaults to the card's. *)
handleRegister(agentID, card, endpoint) ==
  RegisterAgent(IF agentID = "" THEN card ELSE agentID, Wrapper(endpoint), card)

(* Mutant: the discovery registry is not told. *)
UnregisterAgent_Local(id) ==
  /\ changes < MaxChanges /\ changes' = changes + 1
  /\ agents' = [agents EXCEPT ![id] = "none"]
  /\ cards' = [cards EXCEPT ![id] = "none"]
  /\ UNCHANGED <<registry, req, renamed>>

UnregisterAgent(id) ==
  /\ changes < MaxChanges /\ changes' = changes + 1
  /\ agents' = [agents EXCEPT ![id] = "none"]
  /\ cards' = [cards EXCEPT ![id] = "none"]
  /\ Unregister(id)
  /\ UNCHANGED <<req, renamed>>

(* HTTPClient.InvokeAgent: the registry must know the agent; the request names the   *)
(* method "invoke" and carries no agent_id.                                          *)
InvokeAgent(r, id) ==
  /\ req[r].pc = "idle"
  /\ req' = [req EXCEPT ![r] =
       IF GetAgent(id) THEN [@ EXCEPT !.pc = "sent", !.via = "client", !.id = id]
       ELSE [@ EXCEPT !.pc = "done", !.via = "client", !.id = id, !.answer = "unknown agent"]]
  /\ UNCHANGED <<agents, cards, registry, changes, renamed>>

(* RemoteAgentWrapper.Execute of another server names the agent in agent_id. *)
WrapperExecute(r, id) ==
  /\ req[r].pc = "idle"
  /\ req' = [req EXCEPT ![r].pc = "sent", ![r].via = "wrapper", ![r].id = id]
  /\ UNCHANGED <<agents, cards, registry, changes, renamed>>

(* The agent a request names: its agent_id, or else its method. *)
Named(r) == IF req[r].via = "wrapper" THEN req[r].id ELSE "invoke"

(* HandleInvocation up to the end of the read lock, *)
(* Mutant: the agent is found through the card's identifier. *)
HandleInvocation_ByCard(r) ==
  /\ req[r].pc = "sent"
  /\ req' = [req EXCEPT ![r] =
       IF Named(r) \in registry THEN [@ EXCEPT !.pc = "running", !.runs = agents[Named(r)]]
       ELSE [@ EXCEPT !.pc = "done", !.answer = "no agent"]]
  /\ UNCHANGED <<agents, cards, registry, changes, renamed>>

HandleInvocation(r) ==
  /\ req[r].pc = "sent"
  /\ req' = [req EXCEPT ![r] =
       IF Named(r) \in Ids /\ agents[Named(r)] # "none"
       THEN [@ EXCEPT !.pc = "running", !.runs = agents[Named(r)]]
       ELSE [@ EXCEPT !.pc = "done", !.answer = "no agent"]]
  /\ UNCHANGED <<agents, cards, registry, changes, renamed>>

(* and the run of what it found: the answer of the agent, of the endpoint, or the    *)
(* fixed one of the local wrapper.                                                   *)
ExecuteAgent(r, answer) ==
  /\ req[r].pc = "running" /\ answer \in Answers(req[r].runs)
  /\ req' = [req EXCEPT ![r].pc = "done", ![r].answer = answer]
  /\ UNCHANGED <<agents, cards, registry, changes, renamed>>

(* handleCard and handleDiscover, read by other processes between the steps. *)
handleCard(id) == cards[id]
handleDiscover == FindByCapability

HubNext ==
  \/ \E i \in Ids : RegisterAgent(i, "agent", i) \/ UnregisterAgent(i)
  \/ \E a \in Ids \cup {""}, c \in Ids, e \in BOOLEAN : handleRegister(a, c, e)
  \/ \E r \in Requests :
       \/ \E i \in Ids : InvokeAgent(r, i) \/ WrapperExecute(r, i)
       \/ HandleInvocation(r) \/ \E a \in {"result", "error"} : ExecuteAgent(r, a)

HubSpec == HubInit /\ [][HubNext]_hubVars

HubTypeOK ==
  /\ agents \in [Ids -> {"none", "agent", "remote", "simple"}]
  /\ cards \in [Ids -> Ids \cup {"none"}] /\ registry \subseteq Ids
  /\ changes \in 0..MaxChanges /\ renamed \in BOOLEAN
  /\ \A r \in Requests : req[r].answer \in {"none", "unknown agent", "no agent", "result", "error"}

(* What discovery offers is what the server serves, and the card of each agent       *)
(* served is in the registry, as long as agents carry their card's identifier        *)
(* (http_server.go:53,69); with another one the removal leaves the entry behind.      *)
DiscoveryAgrees ==
  /\ ~renamed => handleDiscover = {i \in Ids : agents[i] # "none"}
  /\ \A i \in Ids : (agents[i] # "none") = (handleCard(i) # "none")

(* A request runs something only if an agent is served under the name it gives.      *)
RunsServed == \A r \in Requests : req[r].pc = "running" => req[r].runs # "none"

-----------------------------------------------------------------------------
(* A2AStream                                                               *)
(* A streamed invocation end to end: the agent's channel, the SSE handler of the     *)
(* server, the connection, the goroutine of StreamInvocation that turns events into  *)
(* chunks on a bounded channel, and a consumer that may be cancelled.                *)

CONSTANTS MaxData,     \* pieces the agent produces at most
          Cap          \* capacity of the channel of chunks

VARIABLES produced,    \* pieces the agent has put on its channel
          dataChan,    \* [open: BOOLEAN, next: first piece not yet taken]
          unwritten,   \* pieces JSON could not encode
          srv,         \* the handler: "request", "stream", "end"
          wire,        \* events written and not yet read
          conn,        \* "open", "closed" by the server, "lost"
          reader,      \* the goroutine: [pc: "read", "send", "send error", "end", chunk, seq]
          chunks,      \* [buf, closed]
          consumer,    \* [kind, pc, got]
          cancelled    \* the caller's context

sseVars == <<produced, dataChan, unwritten, srv, wire, conn, reader, chunks, consumer, cancelled>>

Kinds == {"ConsumeStream", "StreamWithCallback", "StreamToWriter"}
Chunk(seq, data, final) == [seq |-> seq, data |-> data, final |-> final]
NoChunk == Chunk(0, "none", FALSE)

SseInit ==
  /\ produced = 0 /\ dataChan = [open |-> TRUE, next |-> 1] /\ unwritten = {}
  /\ srv = "request" /\ wire = <<>> /\ conn = "open"
  /\ reader = [pc |-> "read", chunk |-> NoChunk, seq |-> 0]
  /\ chunks = [buf |-> <<>>, closed |-> FALSE]
  /\ consumer \in [kind : Kinds, pc : {"on"}, got : {<<>>}]
  /\ cancelled = FALSE

Event(kind, piece) == [kind |-> kind, piece |-> piece]
Write(e) == wire' = IF conn = "open" THEN Append(wire, e) ELSE wire

(* The agent: another piece, or the end of its channel. *)
AgentProduces ==
  /\ srv = "stream" /\ dataChan.open
  /\ \/ produced < MaxData /\ produced' = produced + 1 /\ UNCHANGED dataChan
     \/ dataChan' = [dataChan EXCEPT !.open = FALSE] /\ UNCHANGED produced
  /\ UNCHANGED <<unwritten, srv, wire, conn, reader, chunks, consumer, cancelled>>

(* SSEStreamHandler.ServeHTTP: the request is refused with an error event and the    *)
(* connection closed, or the stream starts.                                          *)
ServeHTTP(ok) ==
  /\ srv = "request"
  /\ IF ok THEN srv' = "stream" /\ Write(Event("start", 0)) /\ UNCHANGED conn
     ELSE srv' = "end" /\ Write(Event("error", 0)) /\ conn' = IF conn = "open" THEN "closed" ELSE conn
  /\ UNCHANGED <<produced, dataChan, unwritten, reader, chunks, consumer, cancelled>>

(* WriteEvent with a piece, which has to be encoded first; the handler does not look *)
(* at the error.                                                                     *)
WritePiece(i) ==
  \/ Write(Event("data", i)) /\ UNCHANGED unwritten
  \/ unwritten' = unwritten \cup {i} /\ UNCHANGED wire

(* Mutant: the loop looks at the channel's state before it has drained it. *)
StreamData_Hasty ==
  /\ srv = "stream"
  /\ IF dataChan.next <= produced /\ dataChan.open
     THEN IF conn = "lost" THEN srv' = "end" /\ UNCHANGED <<wire, dataChan, unwritten, conn>>
          ELSE /\ WritePiece(dataChan.next)
               /\ dataChan' = [dataChan EXCEPT !.next = @ + 1]
               /\ UNCHANGED <<srv, conn>>
     ELSE /\ ~dataChan.open
          /\ Write(Event("done", 0)) /\ srv' = "end"
          /\ conn' = IF conn = "open" THEN "closed" ELSE conn
          /\ UNCHANGED <<dataChan, unwritten>>
  /\ UNCHANGED <<produced, reader, chunks, consumer, cancelled>>

(* One turn of the handler's loop; after the last piece "done" and the end. *)
StreamData ==
  /\ srv = "stream"
  /\ IF dataChan.next <= produced
     THEN IF conn = "lost" THEN srv' = "end" /\ UNCHANGED <<wire, dataChan, unwritten, conn>>
          ELSE /\ WritePiece(dataChan.next)
               /\ dataChan' = [dataChan EXCEPT !.next = @ + 1]
               /\ UNCHANGED <<srv, conn>>
     ELSE /\ ~dataChan.open
          /\ Write(Event("done", 0)) /\ srv' = "end"
          /\ conn' = IF conn = "open" THEN "closed" ELSE conn
          /\ UNCHANGED <<dataChan, unwritten>>
  /\ UNCHANGED <<produced, reader, chunks, consumer, cancelled>>

Lose ==
  /\ conn = "open" /\ conn' = "lost" /\ wire' = <<>>
  /\ UNCHANGED <<produced, dataChan, unwritten, srv, reader, chunks, consumer, cancelled>>

Cancel ==
  /\ ~cancelled /\ cancelled' = TRUE
  /\ conn' = IF conn = "open" THEN "lost" ELSE conn
  /\ wire' = <<>>
  /\ UNCHANGED <<produced, dataChan, unwritten, srv, reader, chunks, consumer>>

EndReader == reader' = [reader EXCEPT !.pc = "end"] /\ chunks' = [chunks EXCEPT !.closed = TRUE]

(* The goroutine of StreamInvocation: an event becomes a chunk, the end of the body  *)
(* ends it, any other error becomes a last chunk.                                    *)
ReadEvent ==
  /\ reader.pc = "read"
  /\ IF cancelled THEN \/ EndReader
                       \/ reader' = [reader EXCEPT !.pc = "send error"] /\ UNCHANGED chunks
     ELSE IF wire # <<>>
     THEN /\ reader' = [pc |-> "send", seq |-> reader.seq + 1,
                        chunk |-> Chunk(reader.seq + 1, IF Head(wire).kind = "data" THEN "text" ELSE "map", Head(wire).kind = "done")]
          /\ UNCHANGED chunks
     ELSE \/ conn = "closed" /\ EndReader
          \/ conn = "lost" /\ reader' = [reader EXCEPT !.pc = "send error"] /\ UNCHANGED chunks
  /\ wire' = IF wire # <<>> /\ ~cancelled THEN Tail(wire) ELSE wire
  /\ UNCHANGED <<produced, dataChan, unwritten, srv, conn, consumer, cancelled>>

(* select { case chunks <- chunk: case <-ctx.Done(): } *)
(* Mutant: a chunk that does not fit is dropped. *)
SendChunk_Drops ==
  /\ reader.pc = "send"
  /\ \/ cancelled /\ EndReader
     \/ /\ chunks' = [buf |-> IF Len(chunks.buf) < Cap THEN Append(chunks.buf, reader.chunk) ELSE chunks.buf,
                      closed |-> reader.chunk.final]
        /\ reader' = [reader EXCEPT !.pc = IF reader.chunk.final THEN "end" ELSE "read"]
  /\ UNCHANGED <<produced, dataChan, unwritten, srv, wire, conn, consumer, cancelled>>

SendChunk ==
  /\ reader.pc = "send"
  /\ \/ cancelled /\ EndReader
     \/ /\ Len(chunks.buf) < Cap
        /\ chunks' = [buf |-> Append(chunks.buf, reader.chunk), closed |-> reader.chunk.final]
        /\ reader' = [reader EXCEPT !.pc = IF reader.chunk.final THEN "end" ELSE "read"]
  /\ UNCHANGED <<produced, dataChan, unwritten, srv, wire, conn, consumer, cancelled>>

(* The error chunk is sent without looking at the context. *)
SendError ==
  /\ reader.pc = "send error" /\ Len(chunks.buf) < Cap
  /\ chunks' = [buf |-> Append(chunks.buf, Chunk(reader.seq, "error", TRUE)), closed |-> TRUE]
  /\ reader' = [reader EXCEPT !.pc = "end"]
  /\ UNCHANGED <<produced, dataChan, unwritten, srv, wire, conn, consumer, cancelled>>

(* A consumer takes a chunk: ConsumeStream reads on after the last one, the others    *)
(* return.                                                                            *)
Consume ==
  /\ consumer.pc = "on"
  /\ \/ /\ chunks.buf # <<>>
        /\ consumer' = [consumer EXCEPT !.got = Append(@, Head(chunks.buf)),
                                        !.pc = IF Head(chunks.buf).final /\ consumer.kind # "ConsumeStream" THEN "ok" ELSE "on"]
        /\ chunks' = [chunks EXCEPT !.buf = Tail(@)]
     \/ chunks.buf = <<>> /\ chunks.closed /\ consumer' = [consumer EXCEPT !.pc = "ok"] /\ UNCHANGED chunks
     \/ cancelled /\ consumer' = [consumer EXCEPT !.pc = "error"] /\ UNCHANGED chunks
  /\ UNCHANGED <<produced, dataChan, unwritten, srv, wire, conn, reader, cancelled>>

SseNext ==
  \/ AgentProduces \/ (\E ok \in BOOLEAN : ServeHTTP(ok)) \/ StreamData \/ Lose \/ Cancel
  \/ ReadEvent \/ SendChunk \/ SendError \/ Consume

SseSpec == SseInit /\ [][SseNext]_sseVars

SseTypeOK ==
  /\ produced \in 0..MaxData /\ unwritten \subseteq 1..MaxData /\ srv \in {"request", "stream", "end"} /\ conn \in {"open", "closed", "lost"}
  /\ reader.pc \in {"read", "send", "send error", "end"} /\ Len(chunks.buf) <= Cap
  /\ consumer.pc \in {"on", "ok", "error"} /\ cancelled \in BOOLEAN

Texts(s) == SelectSeq(s, LAMBDA c : c.data = "text")

(* The consumer sees the events in order and without a gap, and nothing after the     *)
(* chunk marked final (protocol.go:369-391).                                          *)
InOrder ==
  LET got == consumer.got
  IN \A i \in DOMAIN got :
       /\ i < Len(got) => ~got[i].final
       /\ got[i].data # "error" => got[i].seq = i

(* A consumer that has seen the end of the stream as the server marks it has every     *)
(* piece the agent produced except those JSON could not encode, of which neither side  *)
(* is told: back-pressure and the end of the agent's channel lose nothing              *)
(* (protocol.go:383-387, sse.go:165-168, 284).                                         *)
WholeWhenDone ==
  \A i \in DOMAIN consumer.got :
    consumer.got[i].final /\ consumer.got[i].data = "map"
      => Len(Texts(consumer.got)) + Cardinality(unwritten) = produced

-----------------------------------------------------------------------------
(* RemoteAgent                                                             *)
(* Remote agents called through a pool: the agent card is fetched unless cached,    *)
(* an attempt whose error looks transient is repeated, the pool turns round its      *)
(* agents or falls back from one to the next.  The remote side may have run the      *)
(* agent although the caller saw an error.                                           *)

CONSTANTS N,           \* agents in the pool
          RetryCount,
          Callers

VARIABLES withCard,    \* [1..N -> BOOLEAN]: the configuration gave a card
          current,     \* the pool's counter, modulo N
          call,        \* [Callers -> [pc, mode, idx, attempt, res]]
          ran          \* [Callers -> [1..N -> executions on the remote side]]

remoteVars == <<withCard, current, call, ran>>

Agents == 1..N

(* What NewRemoteAgent and the builder leave open: whether a card was given. *)
Configurations == [Agents -> BOOLEAN]

Idle == [pc |-> "idle", mode |-> "none", idx |-> 0, attempt |-> 0, res |-> "none"]

RemoteInit ==
  /\ withCard \in Configurations
  /\ current = 0
  /\ call = [c \in Callers |-> Idle]
  /\ ran = [c \in Callers |-> [a \in Agents |-> 0]]

(* RemoteAgentPool.Execute: the counter is read, and incremented, without a lock. *)
PoolExecute(c) ==
  /\ call[c].pc = "idle"
  /\ call' = [call EXCEPT ![c] = [@ EXCEPT !.pc = "bump", !.mode = "pool", !.idx = current + 1]]
  /\ UNCHANGED <<withCard, current, ran>>

PoolBump(c) ==
  /\ call[c].pc = "bump"
  /\ current' = (call[c].idx) % N
  /\ call' = [call EXCEPT ![c].pc = "card"]
  /\ UNCHANGED <<withCard, ran>>

(* ExecuteWithFallback starts with the first agent. *)
ExecuteWithFallback(c) ==
  /\ call[c].pc = "idle"
  /\ call' = [call EXCEPT ![c] = [@ EXCEPT !.pc = "card", !.mode = "fallback", !.idx = 1]]
  /\ UNCHANGED <<withCard, current, ran>>

(* The end of a call on one agent, and with a fallback the start of the next. *)
(* Mutant: the fallback stops at the last agent but one. *)
Return_Short(c, res) ==
  call' = [call EXCEPT ![c] =
    IF res = "ok" \/ @.mode = "pool" \/ @.idx + 1 >= N THEN [@ EXCEPT !.pc = "done", !.res = res]
    ELSE [@ EXCEPT !.pc = "card", !.idx = @ + 1, !.attempt = 0]]

Return(c, res) ==
  call' = [call EXCEPT ![c] =
    IF res = "ok" \/ @.mode = "pool" \/ @.idx = N THEN [@ EXCEPT !.pc = "done", !.res = res]
    ELSE [@ EXCEPT !.pc = "card", !.idx = @ + 1, !.attempt = 0]]

(* ensureAgentCard: a card held and cached is used; otherwise it is fetched, from a   *)
(* registry that holds nothing but the card of the configuration: either way there    *)
(* is a card if one was configured.                                                   *)
ensureAgentCard(c) ==
  /\ call[c].pc = "card"
  /\ IF withCard[call[c].idx] THEN call' = [call EXCEPT ![c].pc = "attempt"] ELSE Return(c, "no card")
  /\ UNCHANGED <<withCard, current, ran>>

(* What an attempt may see.  The client does not look at the status: a 5xx answer is  *)
(* "no JSON", an RPC error, or, when its JSON has no error, "ok" though nothing ran.   *)
(* isRetryableError looks for words and numbers in the text: a refused or reset        *)
(* connection and a dial timeout have them, an RPC error may ("rpc transient") or may  *)
(* not have them; "context deadline exceeded" and a body that is no JSON do not.       *)
Outcomes == {"ok", "refused", "reset", "deadline", "no JSON", "rpc error", "rpc transient"}
isRetryableError(o) == o \in {"refused", "reset", "rpc transient"}
MayHaveRun(o) == o # "refused"

(* invokeRemoteAgent and the loop round it. *)
(* Mutant: the loop's bound counts the retries that are left after this one. *)
Attempt_OneMore(c, o, run) ==
  /\ call[c].pc = "attempt"
  /\ run => MayHaveRun(o)
  /\ ran' = [ran EXCEPT ![c][call[c].idx] = IF run THEN @ + 1 ELSE @]
  /\ IF o # "ok" /\ isRetryableError(o) /\ call[c].attempt <= RetryCount
     THEN call' = [call EXCEPT ![c].attempt = @ + 1]
     ELSE Return(c, o)
  /\ UNCHANGED <<withCard, current>>

Attempt(c, o, run) ==
  /\ call[c].pc = "attempt"
  /\ run => MayHaveRun(o)
  /\ ran' = [ran EXCEPT ![c][call[c].idx] = IF run THEN @ + 1 ELSE @]
  /\ IF o # "ok" /\ isRetryableError(o) /\ call[c].attempt < RetryCount
     THEN call' = [call EXCEPT ![c].attempt = @ + 1]
     ELSE Return(c, o)
  /\ UNCHANGED <<withCard, current>>

RemoteNext ==
  \E c \in Callers :
    \/ PoolExecute(c) \/ PoolBump(c) \/ ExecuteWithFallback(c) \/ ensureAgentCard(c)
    \/ \E o \in Outcomes, run \in BOOLEAN : Attempt(c, o, run)

RemoteSpec == RemoteInit /\ [][RemoteNext]_remoteVars

RemoteTypeOK ==
  /\ withCard \in Configurations
  /\ current \in 0..(N - 1)
  /\ \A c \in Callers :
       /\ call[c].pc \in {"idle", "bump", "card", "attempt", "done"}
       /\ call[c].idx \in 0..N /\ call[c].attempt \in 0..RetryCount + 1
       /\ ran[c] \in [Agents -> Nat]

(* A fallback gives up only after its last agent, and an agent it passed over was     *)
(* without a card or was tried (remote_agent.go:516-524).                             *)
FallbackExhausts ==
  \A c \in Callers :
    call[c].pc = "done" /\ call[c].mode = "fallback" /\ call[c].res # "ok" => call[c].idx = N

(* How often the remote side may run one call's work: once for each answer that was    *)
(* lost or looked transient, and once more, never beyond RetryCount + 1, and only on   *)
(* agents with a card (remote_agent.go:117-133).                                       *)
RunsAtMostRetries ==
  \A c \in Callers, a \in Agents :
    /\ ran[c][a] <= RetryCount + 1
    /\ ran[c][a] > 0 => withCard[a]
=============================================================================

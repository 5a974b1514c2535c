------------------------------ MODULE Sessions ------------------------------
(***************************************************************************)
(* Sessions, checkpoints and memories: src/pkg/state, src/pkg/sessions,    *)
(* src/pkg/memory and the memory services of src/pkg/runtime.              *)
(***************************************************************************)
EXTENDS Naturals, Sequences, FiniteSets

-----------------------------------------------------------------------------
(* SessionStore                                                            *)
(* MemorySessionBackend: one session, and clients that read it, change it and write  *)
(* it back under optimistic locking. Get hands out a copy; Create and Update keep    *)
(* the caller's object, and ListByAgent hands out the stored one, so objects are     *)
(* modelled with their identity.                                                     *)

CONSTANTS StoreClients, MaxObjects, MaxCommits, MaxLives

VARIABLES heap,       \* object -> version
          objects,    \* objects allocated
          stored,     \* the object in the map, 0 for none
          storeClient,  \* client -> [has, seen, life, copy]: its object, the commit and
                      \* the life it read, whether only it holds the object
          commits,    \* updates accepted
          life        \* how often the session has been created

storeVars == <<heap, objects, stored, storeClient, commits, life>>

NoObject == [has |-> 0, seen |-> 0, life |-> 0, copy |-> FALSE]

StoreInit ==
  /\ heap = [o \in 1..MaxObjects |-> 0] /\ objects = 0
  /\ stored = 0 /\ storeClient = [c \in StoreClients |-> NoObject]
  /\ commits = 0 /\ life = 0

(* Create: version 1, and the caller's object goes into the map. *)
Create(c) ==
  /\ stored = 0 /\ objects < MaxObjects /\ life < MaxLives
  /\ objects' = objects + 1 /\ stored' = objects + 1 /\ life' = life + 1
  /\ heap' = [heap EXCEPT ![objects + 1] = 1]
  /\ storeClient' = [storeClient EXCEPT ![c] = [has |-> objects + 1, seen |-> commits, life |-> life + 1, copy |-> FALSE]]
  /\ UNCHANGED commits

Get(c) ==
  /\ stored # 0 /\ objects < MaxObjects
  /\ objects' = objects + 1
  /\ heap' = [heap EXCEPT ![objects + 1] = heap[stored]]
  /\ storeClient' = [storeClient EXCEPT ![c] = [has |-> objects + 1, seen |-> commits, life |-> life, copy |-> TRUE]]
  /\ UNCHANGED <<stored, commits, life>>

(* ListByAgent returns the object of the map itself. *)
ListByAgent(c) ==
  /\ stored # 0
  /\ storeClient' = [storeClient EXCEPT ![c] = [has |-> stored, seen |-> commits, life |-> life, copy |-> FALSE]]
  /\ UNCHANGED <<heap, objects, stored, commits, life>>

(* Mutant: the version is left as it is. *)
Update_NoBump(c) ==
  /\ storeClient[c].has # 0 /\ commits < MaxCommits
  /\ IF stored = 0 \/ heap[stored] # heap[storeClient[c].has]
     THEN storeClient' = [storeClient EXCEPT ![c] = NoObject] /\ UNCHANGED <<heap, stored, commits>>
     ELSE /\ heap' = heap
          /\ stored' = storeClient[c].has /\ commits' = commits + 1
          /\ storeClient' = [storeClient EXCEPT ![c].seen = commits + 1, ![c].life = life, ![c].copy = FALSE]
  /\ UNCHANGED <<objects, life>>
(* Update: refused when the session is gone or its version has moved; otherwise the  *)
(* caller's object takes its place, and the caller may go on with it.                *)
Update(c) ==
  /\ storeClient[c].has # 0 /\ commits < MaxCommits
  /\ IF stored = 0 \/ heap[stored] # heap[storeClient[c].has]
     THEN storeClient' = [storeClient EXCEPT ![c] = NoObject] /\ UNCHANGED <<heap, stored, commits>>
     ELSE /\ heap' = [heap EXCEPT ![storeClient[c].has] = @ + 1]
          /\ stored' = storeClient[c].has /\ commits' = commits + 1
          /\ storeClient' = [storeClient EXCEPT ![c].seen = commits + 1, ![c].life = life, ![c].copy = FALSE]
  /\ UNCHANGED <<objects, life>>

StoreDelete ==
  /\ stored # 0 /\ stored' = 0
  /\ UNCHANGED <<heap, objects, storeClient, commits, life>>

StoreNext ==
  \/ \E c \in StoreClients : Create(c) \/ Get(c) \/ ListByAgent(c) \/ Update(c)
  \/ StoreDelete

StoreSpec == StoreInit /\ [][StoreNext]_storeVars

StoreTypeOK ==
  /\ heap \in [1..MaxObjects -> 0..(MaxCommits + 1)]
  /\ objects \in 0..MaxObjects /\ stored \in 0..objects
  /\ \A c \in StoreClients : storeClient[c].has \in 0..objects

(* Optimistic locking does its work for whoever uses Get: an update through a copy   *)
(* is accepted only if nothing was committed since the copy was made, unless the     *)
(* session was deleted and created again in between (its versions start over).       *)
StaleCopyRefusedStep ==
  \A c \in StoreClients :
    (storeClient[c].copy /\ storeClient[c].life = life /\ commits' = commits + 1 /\ stored' = storeClient[c].has
       /\ storeClient'[c].has = storeClient[c].has /\ ~storeClient'[c].copy)
    => storeClient[c].seen = commits

-----------------------------------------------------------------------------
(* CheckpointStore                                                         *)
(* The in-memory stores of pkg/state: checkpoints of agents by time and        *)
(* values that expire. Time is the clock the code reads, and two reads may give the  *)
(* same instant.                                                                     *)

CONSTANTS PointIds, PointAgents, PointKeys, MaxTime, MaxSaves

VARIABLES checkpoints,   \* id -> [agent, time, seq], seq 0 when absent
          saves,         \* checkpoints saved so far
          values,        \* key -> [stored, hasTTL, expiresAt]
          promised,      \* keys set without a lifetime and not set, deleted or closed since
          closed,
          now

pointVars == <<checkpoints, saves, values, promised, closed, now>>

NoCheckpoint == [agent |-> "", time |-> 0, seq |-> 0]
NoEntry == [stored |-> FALSE, hasTTL |-> FALSE, expiresAt |-> 0]

PointInit ==
  /\ checkpoints = [i \in PointIds |-> NoCheckpoint] /\ saves = 0
  /\ values = [k \in PointKeys |-> NoEntry] /\ promised = {} /\ closed = FALSE
  /\ now = 1

Tick == now < MaxTime /\ now' = now + 1 /\ UNCHANGED <<checkpoints, saves, values, promised, closed>>

(* Save stamps the checkpoint, a new one or one saved before. *)
Save(i, a) ==
  /\ saves < MaxSaves
  /\ saves' = saves + 1
  /\ checkpoints' = [checkpoints EXCEPT ![i] = [agent |-> a, time |-> now, seq |-> saves + 1]]
  /\ UNCHANGED <<values, promised, closed, now>>
PointDelete(i) ==
  /\ checkpoints[i].seq # 0
  /\ checkpoints' = [checkpoints EXCEPT ![i] = NoCheckpoint]
  /\ UNCHANGED <<saves, values, promised, closed, now>>

Of(a) == {i \in PointIds : checkpoints[i].seq # 0 /\ checkpoints[i].agent = a}
(* Mutant: the comparison is the other way round. *)
Latest_First(a, i) == i \in Of(a) /\ \A j \in Of(a) : checkpoints[j].time >= checkpoints[i].time
(* GetLatest goes over the map in any order and keeps the first of the newest. *)
Latest(a, i) == i \in Of(a) /\ \A j \in Of(a) : checkpoints[j].time <= checkpoints[i].time

(* MemoryStateBackend. *)
Set(k, ttl) ==
  /\ ~closed
  /\ values' = [values EXCEPT ![k] = [stored |-> TRUE, hasTTL |-> ttl > 0, expiresAt |-> IF ttl > 0 THEN now + ttl ELSE 0]]
  /\ promised' = IF ttl > 0 THEN promised \ {k} ELSE promised \cup {k}
  /\ UNCHANGED <<checkpoints, saves, closed, now>>
DeleteKey(k) ==
  /\ ~closed /\ values[k].stored
  /\ values' = [values EXCEPT ![k] = NoEntry] /\ promised' = promised \ {k}
  /\ UNCHANGED <<checkpoints, saves, closed, now>>
Expired(k) == values[k].hasTTL /\ now > values[k].expiresAt
(* Mutant: entries are dropped when their time has come or they have none. *)
Cleanup_All ==
  /\ ~closed
  /\ values' = [k \in PointKeys |-> IF now > values[k].expiresAt THEN NoEntry ELSE values[k]]
  /\ UNCHANGED <<promised, checkpoints, saves, closed, now>>
(* cleanupExpired, every thirty seconds. *)
Cleanup ==
  /\ ~closed
  /\ values' = [k \in PointKeys |-> IF Expired(k) THEN NoEntry ELSE values[k]]
  /\ UNCHANGED <<promised, checkpoints, saves, closed, now>>
Close ==
  /\ ~closed /\ closed' = TRUE /\ values' = [k \in PointKeys |-> NoEntry] /\ promised' = {}
  /\ UNCHANGED <<checkpoints, saves, now>>

PointNext ==
  \/ Tick
  \/ \E i \in PointIds : PointDelete(i) \/ \E a \in PointAgents : Save(i, a)
  \/ \E k \in PointKeys : DeleteKey(k) \/ \E ttl \in 0..1 : Set(k, ttl)
  \/ Cleanup
  \/ Close

PointSpec == PointInit /\ [][PointNext]_pointVars

(* GetLatest answers with the checkpoint that was saved last: a later save can only  *)
(* be passed over when the clock gave both the same instant. Saving a checkpoint     *)
(* again, under its old identifier, makes it the latest.                             *)
LatestIsLastSaved ==
  \A a \in PointAgents : \A i, j \in Of(a) :
    (Latest(a, i) /\ checkpoints[j].seq > checkpoints[i].seq) => checkpoints[j].time = checkpoints[i].time

(* A value stored without a lifetime leaves the store only by Delete or Close, never *)
(* by the sweep that runs beside every other call.                                   *)
EternalStays == \A k \in promised : values[k].stored

PointTypeOK == now \in 1..MaxTime /\ saves \in 0..MaxSaves /\ closed \in BOOLEAN

-----------------------------------------------------------------------------
(* AgentSessions                                                           *)
(* The session managers of pkg/sessions over one session: history, context and       *)
(* checkpoints. The memory manager changes the session under its lock; the           *)
(* distributed one loads a copy, changes it and saves it, with nothing in between    *)
(* that would stop another client.                                                   *)

CONSTANTS SessionClients, MaxInvocations, MaxCheckpoints, Contexts

VARIABLES kind,        \* "memory" or "distributed"
          session,     \* [hist, ctx, cps, live], what the manager or the store holds
          sessionClient,  \* client -> the copy it has loaded, or NoCopy
          ids          \* invocations made

sessionVars == <<kind, session, sessionClient, ids>>

NoCopy == [hist |-> <<>>, ctx |-> 0, cps |-> <<>>, live |-> FALSE]
Fresh == [hist |-> <<>>, ctx |-> 0, cps |-> <<>>, live |-> TRUE]

SessionInit ==
  /\ kind \in {"memory", "distributed"}
  /\ session = NoCopy /\ sessionClient = [c \in SessionClients |-> NoCopy]
  /\ ids = 0

CreateSession ==
  /\ ~session.live /\ ids = 0 /\ session' = Fresh
  /\ UNCHANGED <<kind, sessionClient, ids>>
DeleteSession ==
  /\ session.live /\ session' = NoCopy
  /\ UNCHANGED <<kind, sessionClient, ids>>

IsPrefixOf(s, t) == Len(s) <= Len(t) /\ SubSeq(t, 1, Len(s)) = s

(* AddInvocation: its State is the context it leaves, or none (0). *)
WithInvocation(s, state) == [s EXCEPT !.hist = Append(@, [id |-> ids + 1, state |-> state])]

(* Rewind to the i-th invocation, whose state, if it has one, becomes the context. *)
Rewound(s, i) ==
  [s EXCEPT !.hist = SubSeq(@, 1, i), !.ctx = IF s.hist[i].state # 0 THEN s.hist[i].state ELSE @]

(* Mutant: the index of the next invocation is kept. *)
Checkpointed_Next(s) ==
  [s EXCEPT !.cps = Append(@, [index |-> Len(s.hist) + 1, ctx |-> s.ctx, was |-> s.hist])]
(* Checkpoint keeps the index of the last invocation and a copy of the context (was  *)
(* is the history at that moment, for the property).                                 *)
Checkpointed(s) ==
  [s EXCEPT !.cps = Append(@, [index |-> Len(s.hist), ctx |-> s.ctx, was |-> s.hist])]

(* RestoreCheckpoint of the memory manager: a history that has become shorter, or a  *)
(* checkpoint of an empty one, leaves the history alone.                             *)
RestoredMemory(s, cp) ==
  [s EXCEPT !.hist = IF cp.index > 0 /\ cp.index <= Len(@) THEN SubSeq(@, 1, cp.index) ELSE @, !.ctx = cp.ctx]

(* The distributed manager slices without looking: past the end it panics, or        *)
(* (within the capacity) brings in what is not an invocation.                        *)
Hole == [id |-> 0, state |-> 0]
RestoredDistributed(s, cp) ==
  [s EXCEPT !.hist = IF cp.index = 0 THEN @
                     ELSE [i \in 1..cp.index |-> IF i <= Len(s.hist) THEN s.hist[i] ELSE Hole],
            !.ctx = cp.ctx]
Panics(s, cp) == cp.index > Len(s.hist)

(* The memory manager holds session.mu over the whole of it. *)
Locked(new) == kind = "memory" /\ session.live /\ session' = new /\ UNCHANGED sessionClient
Load(c) ==
  /\ kind = "distributed" /\ session.live /\ ~sessionClient[c].live
  /\ sessionClient' = [sessionClient EXCEPT ![c] = session]
  /\ UNCHANGED <<kind, session, ids>>
(* The change is made to the copy and saved in its place. *)
Saved(c, new) ==
  /\ kind = "distributed" /\ sessionClient[c].live
  /\ session' = new /\ sessionClient' = [sessionClient EXCEPT ![c] = NoCopy]
(* GetSession of the distributed manager saves what it loaded, for LastAccess. *)
GetSession(c) == Saved(c, sessionClient[c]) /\ UNCHANGED <<kind, ids>>

Held(c) == IF kind = "memory" THEN session ELSE sessionClient[c]
Change(c, new) == Locked(new) \/ Saved(c, new)

AddInvocation(c, state) ==
  /\ ids < MaxInvocations /\ Held(c).live
  /\ Change(c, WithInvocation(Held(c), state)) /\ ids' = ids + 1
  /\ UNCHANGED kind
UpdateContext(c, x) ==
  /\ Held(c).live /\ Change(c, [Held(c) EXCEPT !.ctx = x]) /\ UNCHANGED <<kind, ids>>
Rewind(c, i) ==
  /\ i \in 1..Len(Held(c).hist) /\ Held(c).live
  /\ Change(c, Rewound(Held(c), i)) /\ UNCHANGED <<kind, ids>>
Checkpoint(c) ==
  /\ Held(c).live /\ Len(Held(c).cps) < MaxCheckpoints
  /\ Change(c, Checkpointed(Held(c))) /\ UNCHANGED <<kind, ids>>
RestoreCheckpoint(c, k) ==
  /\ Held(c).live /\ k \in 1..Len(Held(c).cps)
  /\ LET s == Held(c)
         cp == s.cps[k]
         new == IF kind = "memory" THEN RestoredMemory(s, cp) ELSE RestoredDistributed(s, cp)
     IN \/ Change(c, new)
        \/ /\ kind = "distributed" /\ Panics(s, cp)
           /\ sessionClient' = [sessionClient EXCEPT ![c] = NoCopy] /\ UNCHANGED session
  /\ UNCHANGED <<kind, ids>>

SessionNext ==
  \/ CreateSession
  \/ DeleteSession
  \/ \E c \in SessionClients :
       \/ Load(c)
       \/ GetSession(c)
       \/ \E state \in Contexts \cup {0} : AddInvocation(c, state)
       \/ \E x \in Contexts : UpdateContext(c, x)
       \/ \E i \in 1..MaxInvocations : Rewind(c, i)
       \/ Checkpoint(c)
       \/ \E k \in 1..MaxCheckpoints : RestoreCheckpoint(c, k)

SessionSpec == SessionInit /\ [][SessionNext]_sessionVars

SessionTypeOK ==
  /\ kind \in {"memory", "distributed"} /\ ids \in 0..MaxInvocations
  /\ Len(session.hist) <= MaxInvocations /\ session.ctx \in Contexts \cup {0}

(* A checkpoint taken after the first invocation brings back exactly the history and *)
(* the context of its moment, as long as that history is still a prefix of the       *)
(* present one: it has not been rewound past since.                                  *)
RestoreIsExactStep ==
  \A c \in SessionClients, k \in 1..MaxCheckpoints : RestoreCheckpoint(c, k) =>
    LET cp == Held(c).cps[k]
    IN (cp.was # <<>> /\ IsPrefixOf(cp.was, Held(c).hist)) => session'.hist = cp.was /\ session'.ctx = cp.ctx

-----------------------------------------------------------------------------
(* AgentMemory                                                             *)
(* VectorMemoryStore over InMemoryStore: entries per agent and key, embeddings per   *)
(* key alone, and operations that touch the two maps one after the other, each under *)
(* its own lock.                                                                     *)

CONSTANTS MemoryAgents, MemoryKeys, MemoryClients, MaxOps

VARIABLES memories,     \* <<agent, key>> -> value, 0 when absent
          embeddings,   \* key -> the value its embedding was made from, 0 when absent
          memoryClient,  \* client -> [pc, agent, key, value]
          users,        \* key -> agents that have ever stored or deleted it
          memoryFailed,  \* keys an embedding could not be made for
          clock

memoryVars == <<memories, embeddings, memoryClient, users, memoryFailed, clock>>

Absent == 0
Idle == [pc |-> "idle", agent |-> "", key |-> "", value |-> 0]

MemoryInit ==
  /\ memories = [p \in MemoryAgents \X MemoryKeys |-> Absent] /\ embeddings = [k \in MemoryKeys |-> 0]
  /\ memoryClient = [c \in MemoryClients |-> Idle] /\ users = [k \in MemoryKeys |-> {}] /\ memoryFailed = {}
  /\ clock = 0

Has(a, k) == memories[<<a, k>>] # Absent

(* Store, and Update of an entry that exists: the base store first ... *)
StoreBase(c, a, k, update) ==
  /\ memoryClient[c].pc = "idle" /\ clock < MaxOps /\ (update => Has(a, k))
  /\ clock' = clock + 1
  /\ memories' = [memories EXCEPT ![<<a, k>>] = clock + 1]
  /\ users' = [users EXCEPT ![k] = @ \cup {a}]
  /\ memoryClient' = [memoryClient EXCEPT ![c] = [pc |-> "embed", agent |-> a, key |-> k, value |-> clock + 1]]
  /\ UNCHANGED <<embeddings, memoryFailed>>

(* ... then the embedding, unless the value is no text or the function fails. *)
StoreEmbedding(c, ok) ==
  /\ memoryClient[c].pc = "embed"
  /\ embeddings' = IF ok THEN [embeddings EXCEPT ![memoryClient[c].key] = memoryClient[c].value] ELSE embeddings
  /\ memoryFailed' = IF ok THEN memoryFailed ELSE memoryFailed \cup {memoryClient[c].key}
  /\ memoryClient' = [memoryClient EXCEPT ![c] = Idle]
  /\ UNCHANGED <<memories, users, clock>>

(* Mutant: the entry first, and its embedding afterwards. *)
Delete_BaseFirst(c, a, k) ==
  /\ memoryClient[c].pc = "idle" /\ clock < MaxOps
  /\ clock' = clock + 1 /\ memories' = [memories EXCEPT ![<<a, k>>] = Absent]
  /\ memoryClient' = [memoryClient EXCEPT ![c] = [pc |-> "embed", agent |-> a, key |-> k, value |-> 0]]
  /\ users' = [users EXCEPT ![k] = @ \cup {a}]
  /\ UNCHANGED <<embeddings, memoryFailed>>
(* Delete: the embedding first, and the entry afterwards. *)
MemoryDelete(c, a, k) ==
  /\ memoryClient[c].pc = "idle" /\ clock < MaxOps
  /\ clock' = clock + 1 /\ embeddings' = [embeddings EXCEPT ![k] = 0]
  /\ memoryClient' = [memoryClient EXCEPT ![c] = [pc |-> "remove", agent |-> a, key |-> k, value |-> 0]]
  /\ users' = [users EXCEPT ![k] = @ \cup {a}]
  /\ UNCHANGED <<memories, memoryFailed>>
Remove(c) ==
  /\ memoryClient[c].pc = "remove"
  /\ memories' = [memories EXCEPT ![<<memoryClient[c].agent, memoryClient[c].key>>] = Absent]
  /\ memoryClient' = [memoryClient EXCEPT ![c] = Idle]
  /\ UNCHANGED <<embeddings, users, memoryFailed, clock>>

(* Clear lists the agent's entries, drops the embeddings of their keys, and then     *)
(* everything the agent has by then.                                                 *)
ClearEmbeddings(c, a) ==
  /\ memoryClient[c].pc = "idle" /\ clock < MaxOps
  /\ clock' = clock + 1 /\ embeddings' = [k \in MemoryKeys |-> IF Has(a, k) THEN 0 ELSE embeddings[k]]
  /\ memoryClient' = [memoryClient EXCEPT ![c] = [pc |-> "clear", agent |-> a, key |-> "", value |-> 0]]
  /\ UNCHANGED <<memories, users, memoryFailed>>
MemoryClear(c) ==
  /\ memoryClient[c].pc = "clear"
  /\ memories' = [p \in MemoryAgents \X MemoryKeys |-> IF p[1] = memoryClient[c].agent THEN Absent ELSE memories[p]]
  /\ memoryClient' = [memoryClient EXCEPT ![c] = Idle]
  /\ UNCHANGED <<embeddings, users, memoryFailed, clock>>

MemoryNext ==
  \E c \in MemoryClients :
    \/ \E a \in MemoryAgents, k \in MemoryKeys, update \in BOOLEAN : StoreBase(c, a, k, update)
    \/ \E ok \in BOOLEAN : StoreEmbedding(c, ok)
    \/ \E a \in MemoryAgents, k \in MemoryKeys : MemoryDelete(c, a, k)
    \/ Remove(c)
    \/ \E a \in MemoryAgents : ClearEmbeddings(c, a)
    \/ MemoryClear(c)

MemorySpec == MemoryInit /\ [][MemoryNext]_memoryVars

(* semanticSearch over all entries: those with an embedding under their key. *)
Found(a) == {k \in MemoryKeys : Has(a, k) /\ embeddings[k] # 0}

MemoryTypeOK ==
  /\ clock \in 0..MaxOps /\ users \in [MemoryKeys -> SUBSET MemoryAgents]
  /\ \A k \in MemoryKeys : embeddings[k] \in 0..MaxOps

(* Nothing gets lost to semantic search: when no operation is under way, an entry    *)
(* whose embeddings could be made is found, however stores, deletes and clears       *)
(* crossed each other, unless another agent has used the same key (embeddings are    *)
(* kept per key, and one agent's delete takes the other's).                          *)
EntriesAreFound ==
  (\A c \in MemoryClients : memoryClient[c].pc = "idle") =>
    \A a \in MemoryAgents, k \in MemoryKeys : (Has(a, k) /\ users[k] = {a} /\ k \notin memoryFailed) => k \in Found(a)

-----------------------------------------------------------------------------
(* SessionMemory                                                           *)
(* The memory services that ingest whole sessions and are searched by keyword: the   *)
(* two that keep a session's values by application, user and session id (the basic   *)
(* and the multi-part one), the per-user list, and the one that keeps sessions in    *)
(* memory beside a memory backend.                                                    *)

CONSTANTS Sessions, Users, Owner, Words, MaxEvents

VARIABLES history,   \* session -> its events, as they happened
          store,     \* service -> user -> session -> values kept
          lists,     \* user -> entries of the in-memory ADK service
          kept,      \* session -> entries of the scoped ADK service
          backend,   \* event ids its backend stored
          ingested   \* service -> session -> number of events at its last AddSession

recallVars == <<history, store, lists, kept, backend, ingested>>

Keyed == {"basic", "multipart"}
Services == Keyed \cup {"list", "scoped"}
Contents == [kind : {"text", "parts", "data"}, words : SUBSET Words]
RecallIds(s) == {<<s, i>> : i \in 1..Len(history[s])}

RecallInit ==
  /\ history = [s \in Sessions |-> << >>]
  /\ store = [v \in Keyed |-> [u \in Users |-> [s \in Sessions |-> << >>]]]
  /\ lists = [u \in Users |-> << >>]
  /\ kept = [s \in Sessions |-> << >>] /\ backend = {}
  /\ ingested = [v \in Services |-> [s \in Sessions |-> 0]]

Happens(s, c) ==
  /\ Len(history[s]) < MaxEvents
  /\ history' = [history EXCEPT ![s] = Append(@, [id |-> <<s, Len(@) + 1>>, content |-> c])]
  /\ UNCHANGED <<store, lists, kept, backend, ingested>>

(* The words a service finds in a content: the basic one reads strings only. *)
ExtractWords(v, c) ==
  IF c.kind = "text" \/ (c.kind = "parts" /\ v = "multipart") THEN c.words ELSE {}
Worded(v, es) == SelectSeq(es, LAMBDA e : ExtractWords(v, e.content) # {})

Ingest(v, s) == ingested' = [ingested EXCEPT ![v][s] = Len(history[s])]

(* Mutant: values are appended to those the session had. *)
AddSession_Appends(v, s) ==
  /\ store' = [store EXCEPT ![v][Owner[s]][s] = @ \o Worded(v, history[s])]
  /\ Ingest(v, s) /\ UNCHANGED <<history, lists, kept, backend>>
(* AddSession: the session's values replace those of an earlier AddSession. *)
AddSession(v, s) ==
  /\ store' = [store EXCEPT ![v][Owner[s]][s] = Worded(v, history[s])]
  /\ Ingest(v, s) /\ UNCHANGED <<history, lists, kept, backend>>

RecallClear(u) ==
  /\ store' = [store EXCEPT !["multipart"][u] = [s \in Sessions |-> << >>]]
  /\ ingested' = [v \in Services |-> [s \in Sessions |-> IF v = "multipart" /\ Owner[s] = u THEN 0 ELSE ingested[v][s]]]
  /\ UNCHANGED <<history, lists, kept, backend>>

(* Entries of the ids' values that have one of the words. *)
Search(v, u, ws) ==
  {x \in UNION {{<<s, i>> : i \in 1..Len(store[v][u][s])} : s \in Sessions} :
     ExtractWords(v, store[v][u][x[1]][x[2]].content) \cap ws # {}}

(* The list service appends every entry, once more for every AddSession. *)
AddToList(s) ==
  /\ lists' = [lists EXCEPT ![Owner[s]] = @ \o history[s]] /\ Len(lists[Owner[s]]) <= MaxEvents
  /\ Ingest("list", s) /\ UNCHANGED <<history, store, kept, backend>>
ClearList(u) ==
  /\ lists' = [lists EXCEPT ![u] = << >>]
  /\ ingested' = [ingested EXCEPT !["list"] = [s \in Sessions |-> IF Owner[s] = u THEN 0 ELSE @[s]]]
  /\ UNCHANGED <<history, store, kept, backend>>
SearchForUser(u, ws) ==
  {lists[u][i].id : i \in {j \in 1..Len(lists[u]) : lists[u][j].content.kind = "text" /\ lists[u][j].content.words \cap ws # {}}}

(* The scoped service keeps the session and then stores its texts in the backend,    *)
(* where any of them may fail.                                                        *)
AddScoped(s, failed) ==
  /\ kept' = [kept EXCEPT ![s] = history[s]]
  /\ backend' = backend \cup {<<s, i>> : i \in {j \in 1..Len(history[s]) : history[s][j].content.kind = "text"} \ failed}
  /\ Ingest("scoped", s) /\ UNCHANGED <<history, store, lists>>

KeptMatches(ws) ==
  UNION {{kept[s][i].id : i \in {j \in 1..Len(kept[s]) : kept[s][j].content.kind = "text" /\ kept[s][j].content.words \cap ws # {}}} : s \in Sessions}
(* Mutant: an event the backend found is found again in its session. *)
ScopedSearch_Twice(found, ws) ==
  [x \in found \cup KeptMatches(ws) |-> (IF x \in found THEN 1 ELSE 0) + (IF x \in KeptMatches(ws) THEN 1 ELSE 0)]
(* Search of the scoped service, when its backend's query finds found: how often     *)
(* each event is in the answer.                                                       *)
ScopedSearch(found, ws) ==
  [x \in found \cup KeptMatches(ws) |->
     (IF x \in found THEN 1 ELSE 0) + (IF x \in KeptMatches(ws) \ found THEN 1 ELSE 0)]

RecallNext ==
  \/ \E s \in Sessions : \/ \E c \in Contents : Happens(s, c)
                         \/ \E v \in Keyed : AddSession(v, s)
                         \/ AddToList(s)
                         \/ \E failed \in SUBSET (1..Len(history[s])) : AddScoped(s, failed)
  \/ \E u \in Users : RecallClear(u) \/ ClearList(u)

RecallSpec == RecallInit /\ [][RecallNext]_recallVars

Events == UNION {{history[s][i] : i \in 1..Len(history[s])} : s \in Sessions}
RecallTypeOK == /\ Events \subseteq [id : UNION {RecallIds(s) : s \in Sessions}, content : Contents]
                /\ backend \subseteq UNION {RecallIds(s) : s \in Sessions}

(* Recall is exact: whatever was ingested, cleared and ingested again, a search of a *)
(* user's memory has every event with a word of the query of the user's sessions as  *)
(* they were last ingested, each once and nothing else; the list service has no      *)
(* other events either, though it may have them several times.                        *)
RecallIsExact ==
 /\ \A u \in Users, ws \in SUBSET Words :
      SearchForUser(u, ws) = {e.id : e \in {x \in Events : /\ Owner[x.id[1]] = u /\ x.id[2] <= ingested["list"][x.id[1]]
                                                          /\ x.content.kind = "text" /\ x.content.words \cap ws # {}}}
 /\ \A v \in Keyed, u \in Users, ws \in SUBSET Words :
      LET hits == Search(v, u, ws)
          due == {e \in Events : /\ Owner[e.id[1]] = u /\ e.id[2] <= ingested[v][e.id[1]]
                                 /\ ExtractWords(v, e.content) \cap ws # {}}
      IN /\ {store[v][u][x[1]][x[2]] : x \in hits} = due
         /\ Cardinality(hits) = Cardinality(due)

(* The scoped service answers with every matching event of the sessions it was       *)
(* given, once, whatever part of them its backend stored and its query found.        *)
FoundOnce ==
  \A ws \in SUBSET Words, found \in SUBSET backend :
    LET answer == ScopedSearch(found, ws)
    IN /\ \A x \in DOMAIN answer : answer[x] = 1
       /\ \A e \in Events : e.content.kind = "text" /\ e.content.words \cap ws # {} /\ e.id[2] <= ingested["scoped"][e.id[1]]
                              => e.id \in DOMAIN answer
=============================================================================

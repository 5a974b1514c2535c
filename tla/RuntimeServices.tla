-------------------------- MODULE RuntimeServices ---------------------------
(***************************************************************************)
(* The services of src/pkg/runtime/services: session cache, artifact       *)
(* cache, vector index, the Redis backends and the bundle with its         *)
(* middleware.                                                             *)
(***************************************************************************)
EXTENDS Integers, Sequences, FiniteSets, SequencesExt, FiniteSetsExt

-----------------------------------------------------------------------------
(* SessionService                                                          *)
(* The distributed session service: a cache with a lifetime and a size before a      *)
(* backend. Reading and writing the backend and filling the cache are two steps.     *)

CONSTANTS CacheClients, Sessions, CacheMaxPuts, CacheMaxTime, CacheTTL, CacheMaxSize, Flight

VARIABLES cacheBackend,  \* session -> number of the last Put, 0 for none
          replacedAt,  \* Put -> time the session was put again
          cachePuts,
          cache,       \* session -> [put, cachedAt, accessedAt]; put 0 when absent
          cacheClient,  \* client -> what it has read or put and is about to cache
          cacheNow

cacheVars == <<cacheBackend, replacedAt, cachePuts, cache, cacheClient, cacheNow>>

Absent == [put |-> 0, cachedAt |-> 0, accessedAt |-> 0]
CacheIdle == [session |-> "", put |-> 0, since |-> 0]

CacheInit ==
  /\ cacheBackend = [s \in Sessions |-> 0] /\ replacedAt = [p \in 1..CacheMaxPuts |-> CacheMaxTime + 1] /\ cachePuts = 0
  /\ cache = [s \in Sessions |-> Absent] /\ cacheClient = [c \in CacheClients |-> CacheIdle] /\ cacheNow = 0

CacheBusy(c) == cacheClient[c].put # 0

(* Mutant: a hit renews the lifetime. *)
getFromCache_Sliding(c, s) ==
  /\ ~CacheBusy(c) /\ cache[s].put # 0 /\ cacheNow - cache[s].cachedAt <= CacheTTL
  /\ cache' = [cache EXCEPT ![s].accessedAt = cacheNow, ![s].cachedAt = cacheNow]
  /\ UNCHANGED <<cacheBackend, replacedAt, cachePuts, cacheClient, cacheNow>>
(* GetSession, a hit: what is cached is returned and counts as used. *)
getFromCache(c, s) ==
  /\ ~CacheBusy(c) /\ cache[s].put # 0 /\ cacheNow - cache[s].cachedAt <= CacheTTL
  /\ cache' = [cache EXCEPT ![s].accessedAt = cacheNow]
  /\ UNCHANGED <<cacheBackend, replacedAt, cachePuts, cacheClient, cacheNow>>

(* GetSession, a miss or an expired entry: the backend is read ... *)
GetSession(c, s) ==
  /\ ~CacheBusy(c) /\ (cache[s].put = 0 \/ cacheNow - cache[s].cachedAt > CacheTTL) /\ cacheBackend[s] # 0
  /\ cacheClient' = [cacheClient EXCEPT ![c] = [session |-> s, put |-> cacheBackend[s], since |-> cacheNow]]
  /\ UNCHANGED <<cacheBackend, replacedAt, cachePuts, cache, cacheNow>>

(* The in-memory backend's Put: a copy replaces what was stored. *)
CacheBackendPut(s, n) ==
  /\ cacheBackend' = [cacheBackend EXCEPT ![s] = n]
  /\ replacedAt' = [p \in 1..CacheMaxPuts |-> IF p = cacheBackend[s] THEN cacheNow ELSE replacedAt[p]]

(* UpdateSession writes the backend ... *)
UpdateSession(c, s) ==
  /\ ~CacheBusy(c) /\ cachePuts < CacheMaxPuts /\ cachePuts' = cachePuts + 1
  /\ CacheBackendPut(s, cachePuts + 1)
  /\ cacheClient' = [cacheClient EXCEPT ![c] = [session |-> s, put |-> cachePuts + 1, since |-> cacheNow]]
  /\ UNCHANGED <<cache, cacheNow>>

CacheCached == {s \in Sessions : cache[s].put # 0}
(* evictOldest: a least recently used entry. *)
evictOldest ==
  {s \in CacheCached : \A t \in CacheCached : cache[s].accessedAt <= cache[t].accessedAt}

(* Mutant: one is evicted only once the cache is over its size. *)
putInCache_Over(c) ==
  /\ CacheBusy(c)
  /\ \E base \in (IF Cardinality(CacheCached) > CacheMaxSize THEN {[cache EXCEPT ![s] = Absent] : s \in evictOldest} ELSE {cache}) :
        cache' = [base EXCEPT ![cacheClient[c].session] = [put |-> cacheClient[c].put, cachedAt |-> cacheNow, accessedAt |-> cacheNow]]
  /\ cacheClient' = [cacheClient EXCEPT ![c] = CacheIdle]
  /\ UNCHANGED <<cacheBackend, replacedAt, cachePuts, cacheNow>>
(* ... and the entry is cached, after one has been evicted when the cache is full,   *)
(* also when the session itself is already there.                                    *)
cachePutInCache(c) ==
  /\ CacheBusy(c)
  /\ \E base \in (IF Cardinality(CacheCached) >= CacheMaxSize THEN {[cache EXCEPT ![s] = Absent] : s \in evictOldest} ELSE {cache}) :
        cache' = [base EXCEPT ![cacheClient[c].session] = [put |-> cacheClient[c].put, cachedAt |-> cacheNow, accessedAt |-> cacheNow]]
  /\ cacheClient' = [cacheClient EXCEPT ![c] = CacheIdle]
  /\ UNCHANGED <<cacheBackend, replacedAt, cachePuts, cacheNow>>

InvalidateCache(s) ==
  /\ cache[s].put # 0 /\ cache' = [cache EXCEPT ![s] = Absent]
  /\ UNCHANGED <<cacheBackend, replacedAt, cachePuts, cacheClient, cacheNow>>

(* Time passes; a call is assumed to fill the cache within Flight of its backend step. *)
CacheTick ==
  /\ cacheNow < CacheMaxTime /\ \A c \in CacheClients : CacheBusy(c) => cacheNow - cacheClient[c].since < Flight
  /\ cacheNow' = cacheNow + 1 /\ UNCHANGED <<cacheBackend, replacedAt, cachePuts, cache, cacheClient>>

CacheNext ==
  \/ \E c \in CacheClients : (\E s \in Sessions : getFromCache(c, s) \/ GetSession(c, s) \/ UpdateSession(c, s)) \/ cachePutInCache(c)
  \/ \E s \in Sessions : InvalidateCache(s)
  \/ CacheTick

CacheSpec == CacheInit /\ [][CacheNext]_cacheVars

CacheTypeOK == cachePuts \in 0..CacheMaxPuts /\ cacheNow \in 0..CacheMaxTime /\ Cardinality(CacheCached) <= CacheMaxSize

(* Staleness is bounded: an entry was the backend's session when it was cached, or   *)
(* at most one call's duration before. With the lifetime this bounds how old an      *)
(* answer of GetSession can be, although fills may overtake newer writes.            *)
StaleAtMostTTL ==
  \A s \in CacheCached : cache[s].put = cacheBackend[s] \/ replacedAt[cache[s].put] >= cache[s].cachedAt - Flight

-----------------------------------------------------------------------------
(* ArtifactCache                                                           *)
(* The distributed artifact service's cache: bounded in bytes, least recently used   *)
(* entries make room.                                                                *)

CONSTANTS Keys, Sizes, ArtifactMaxSize, MaxArtifactSize, ArtifactMaxPuts, MaxClock

VARIABLES artifactBackend,  \* key -> [put, size], put 0 when absent
          artifactPuts,
          artifacts,   \* key -> [put, size, accessed, expired], put 0 when not cached
          totalSize,
          fill,        \* what a GetArtifact has read from the backend and will cache
          clock

artifactVars == <<artifactBackend, artifactPuts, artifacts, totalSize, fill, clock>>

NotStored == [put |-> 0, size |-> 0]
NotCached == [put |-> 0, size |-> 0, accessed |-> 0, expired |-> FALSE]
NoFill == [key |-> "", put |-> 0, size |-> 0]

ArtifactInit ==
  /\ artifactBackend = [k \in Keys |-> NotStored] /\ artifactPuts = 0
  /\ artifacts = [k \in Keys |-> NotCached] /\ totalSize = 0
  /\ fill = NoFill /\ clock = 0

ArtifactCached(c) == {k \in Keys : c[k].put # 0}
BytesOf(c) == FoldSet(LAMBDA k, n : n + c[k].size, 0, ArtifactCached(c))

(* evictOldestFromCache, again and again, until the artifact fits or nothing is left. *)
Evicted(S) == [c |-> [k \in Keys |-> IF k \in S THEN NotCached ELSE artifacts[k]],
               total |-> totalSize - FoldSet(LAMBDA k, n : n + artifacts[k].size, 0, S)]
Oldest(S) == \A k \in S, l \in ArtifactCached(artifacts) \ S : artifacts[k].accessed <= artifacts[l].accessed
EvictOldest(size) ==
  {S \in SUBSET ArtifactCached(artifacts) :
     /\ Oldest(S)
     /\ Evicted(S).total + size <= ArtifactMaxSize \/ S = ArtifactCached(artifacts)
     /\ \A k \in S : Evicted(S \ {k}).total + size > ArtifactMaxSize \/ ~Oldest(S \ {k})}

(* Mutant: the entry goes in whether or not the room sufficed. *)
putInCache_Always(k, put, size) ==
  \E S \in EvictOldest(size) :
     LET e == Evicted(S)
     IN /\ artifacts' = [e.c EXCEPT ![k] = [put |-> put, size |-> size, accessed |-> clock + 1, expired |-> FALSE]]
        /\ totalSize' = e.total + size
(* putInCache: room is made; an artifact that still does not fit is not cached. The  *)
(* size is added also when the key replaces an entry of its own.                     *)
artifactPutInCache(k, put, size) ==
  \E S \in EvictOldest(size) :
     LET e == Evicted(S)
     IN IF e.total + size > ArtifactMaxSize THEN artifacts' = e.c /\ totalSize' = e.total
        ELSE /\ artifacts' = [e.c EXCEPT ![k] = [put |-> put, size |-> size, accessed |-> clock + 1, expired |-> FALSE]]
             /\ totalSize' = e.total + size

(* The in-memory backend: a copy is stored, or the key removed. *)
ArtifactBackendPut(k, n, size) == artifactBackend' = [artifactBackend EXCEPT ![k] = [put |-> n, size |-> size]]
ArtifactBackendDelete(k) == artifactBackend' = [artifactBackend EXCEPT ![k] = NotStored]

Ticked == clock < MaxClock /\ clock' = clock + 1

(* SaveArtifact: too large an artifact is not cached, and what is cached stays. *)
SaveArtifact(k, size) ==
  /\ artifactPuts < ArtifactMaxPuts /\ artifactPuts' = artifactPuts + 1 /\ Ticked
  /\ ArtifactBackendPut(k, artifactPuts + 1, size)
  /\ IF size <= MaxArtifactSize THEN artifactPutInCache(k, artifactPuts + 1, size) ELSE UNCHANGED <<artifacts, totalSize>>
  /\ UNCHANGED fill

(* An entry outlives cacheTTL: it is no longer returned, but keeps its place. *)
Expires(k) ==
  /\ artifacts[k].put # 0 /\ ~artifacts[k].expired /\ artifacts' = [artifacts EXCEPT ![k].expired = TRUE]
  /\ UNCHANGED <<artifactBackend, artifactPuts, totalSize, fill, clock>>
(* GetArtifact: a hit, or the backend's artifact, cached in a second step. *)
Hit(k) ==
  /\ artifacts[k].put # 0 /\ ~artifacts[k].expired /\ Ticked /\ artifacts' = [artifacts EXCEPT ![k].accessed = clock + 1]
  /\ UNCHANGED <<artifactBackend, artifactPuts, totalSize, fill>>
GetArtifact(k) ==
  /\ (artifacts[k].put = 0 \/ artifacts[k].expired) /\ artifactBackend[k].put # 0 /\ fill = NoFill
  /\ fill' = [key |-> k, put |-> artifactBackend[k].put, size |-> artifactBackend[k].size]
  /\ UNCHANGED <<artifactBackend, artifactPuts, artifacts, totalSize, clock>>
Fill ==
  /\ fill # NoFill /\ Ticked /\ fill' = NoFill
  /\ IF fill.size <= MaxArtifactSize THEN artifactPutInCache(fill.key, fill.put, fill.size) ELSE UNCHANGED <<artifacts, totalSize>>
  /\ UNCHANGED <<artifactBackend, artifactPuts>>

DeleteArtifact(k) ==
  /\ artifactBackend[k].put # 0 /\ ArtifactBackendDelete(k)
  /\ artifacts' = [artifacts EXCEPT ![k] = NotCached] /\ totalSize' = totalSize - artifacts[k].size
  /\ UNCHANGED <<artifactPuts, fill, clock>>

ArtifactNext ==
  \/ \E k \in Keys : (\E size \in Sizes : SaveArtifact(k, size)) \/ Hit(k) \/ Expires(k) \/ GetArtifact(k) \/ DeleteArtifact(k)
  \/ Fill

ArtifactSpec == ArtifactInit /\ [][ArtifactNext]_artifactVars

ArtifactTypeOK == artifactPuts \in 0..ArtifactMaxPuts /\ clock \in 0..MaxClock /\ totalSize \in Int

(* The cache stays within its budget: the bytes it holds never exceed the size it    *)
(* accounts for, which never exceeds the maximum. (The account may only be too high: *)
(* replacing an entry counts it twice.)                                              *)
CacheWithinBudget == BytesOf(artifacts) <= totalSize /\ totalSize <= ArtifactMaxSize

-----------------------------------------------------------------------------
(* VectorIndex                                                             *)
(* The distributed memory service: a backend and, per partition, an index of a map   *)
(* and two parallel arrays that is searched first.                                   *)

CONSTANTS VectorClients, Memories, Partitions, MaxStores

VARIABLES vectorBackend,  \* memory -> [partition of its user, version], version 0 when absent
          stores,
          vectorIndex,  \* partition -> [memories: memory -> version (0 absent), ids, embeddings]
          vectorClient  \* client -> [pc, memory, partition, version, left]

vectorVars == <<vectorBackend, stores, vectorIndex, vectorClient>>

VectorIdle == [pc |-> "idle", memory |-> "", partition |-> 0, version |-> 0, left |-> {}]

VectorInit ==
  /\ vectorBackend = [m \in Memories |-> [partition |-> 0, version |-> 0]] /\ stores = 0
  /\ vectorIndex = [p \in Partitions |-> [memories |-> [m \in Memories |-> 0], ids |-> << >>, embeddings |-> << >>]]
  /\ vectorClient = [c \in VectorClients |-> VectorIdle]

(* The in-memory backend. *)
VectorBackendPut(m, p, n) == vectorBackend' = [vectorBackend EXCEPT ![m] = [partition |-> p, version |-> n]]
VectorBackendDelete(m) == vectorBackend' = [vectorBackend EXCEPT ![m].version = 0]

(* Store: validated by the caller's embedding; the backend first ... *)
Store(c, m, p) ==
  /\ vectorClient[c].pc = "idle" /\ stores < MaxStores /\ stores' = stores + 1
  /\ VectorBackendPut(m, p, stores + 1)
  /\ vectorClient' = [vectorClient EXCEPT ![c] = [pc |-> "index", memory |-> m, partition |-> p, version |-> stores + 1, left |-> {}]]
  /\ UNCHANGED vectorIndex

(* Query, when the index of the user's partition has nothing of theirs, or only      *)
(* entries past their lifetime, whatever it has of others: the backend is searched   *)
(* and the answer indexed.                                                           *)
Query(c, m) ==
  /\ vectorClient[c].pc = "idle" /\ vectorBackend[m].version # 0
  /\ vectorClient' = [vectorClient EXCEPT ![c] = [pc |-> "index", memory |-> m, partition |-> vectorBackend[m].partition,
                                      version |-> vectorBackend[m].version, left |-> {}]]
  /\ UNCHANGED <<vectorBackend, stores, vectorIndex>>

(* Mutant: an update is appended like a new memory. *)
addToIndex_Append(c) ==
  /\ vectorClient[c].pc = "index" /\ vectorClient' = [vectorClient EXCEPT ![c] = VectorIdle]
  /\ LET m == vectorClient[c].memory  v == vectorClient[c].version  x == vectorIndex[vectorClient[c].partition]
     IN vectorIndex' = [vectorIndex EXCEPT ![vectorClient[c].partition] =
          [memories |-> [x.memories EXCEPT ![m] = v], ids |-> Append(x.ids, m), embeddings |-> Append(x.embeddings, v)]]
  /\ UNCHANGED <<vectorBackend, stores>>
(* ... then the index: a new memory is appended to both arrays, a known one replaced. *)
addToIndex(c) ==
  /\ vectorClient[c].pc = "index" /\ vectorClient' = [vectorClient EXCEPT ![c] = VectorIdle]
  /\ LET m == vectorClient[c].memory  v == vectorClient[c].version  x == vectorIndex[vectorClient[c].partition]
     IN vectorIndex' = [vectorIndex EXCEPT ![vectorClient[c].partition] =
          [memories |-> [x.memories EXCEPT ![m] = v],
           ids |-> IF x.memories[m] = 0 THEN Append(x.ids, m) ELSE x.ids,
           embeddings |-> IF x.memories[m] = 0 THEN Append(x.embeddings, v)
                          ELSE [i \in DOMAIN x.embeddings |-> IF i = SelectInSeq(x.ids, LAMBDA n : n = m) THEN v ELSE x.embeddings[i]]]]
  /\ UNCHANGED <<vectorBackend, stores>>

(* Delete: the backend first, then one index after another, each under its lock. *)
VectorDelete(c, m) ==
  /\ vectorClient[c].pc = "idle" /\ vectorBackend[m].version # 0
  /\ VectorBackendDelete(m)
  /\ vectorClient' = [vectorClient EXCEPT ![c] = [pc |-> "remove", memory |-> m, partition |-> 0, version |-> 0, left |-> Partitions]]
  /\ UNCHANGED <<stores, vectorIndex>>
removeFromAllIndices(c, p) ==
  /\ vectorClient[c].pc = "remove" /\ p \in vectorClient[c].left
  /\ LET m == vectorClient[c].memory  x == vectorIndex[p]  i == SelectInSeq(x.ids, LAMBDA n : n = m)
     IN vectorIndex' = [vectorIndex EXCEPT ![p] =
          [memories |-> [x.memories EXCEPT ![m] = 0],
           ids |-> IF i = 0 THEN x.ids ELSE RemoveAt(x.ids, i),
           embeddings |-> IF i = 0 THEN x.embeddings ELSE RemoveAt(x.embeddings, i)]]
  /\ vectorClient' = [vectorClient EXCEPT ![c] = IF vectorClient[c].left = {p} THEN VectorIdle ELSE [vectorClient[c] EXCEPT !.left = vectorClient[c].left \ {p}]]
  /\ UNCHANGED <<vectorBackend, stores>>

VectorNext ==
  \E c \in VectorClients :
    \/ \E m \in Memories : (\E p \in Partitions : Store(c, m, p)) \/ Query(c, m) \/ VectorDelete(c, m)
    \/ addToIndex(c)
    \/ \E p \in Partitions : removeFromAllIndices(c, p)

VectorSpec == VectorInit /\ [][VectorNext]_vectorVars

VectorTypeOK == stores \in 0..MaxStores /\ \A m \in Memories : vectorBackend[m].version \in 0..MaxStores

(* The map and the parallel arrays of an index agree: every listed id is in the map  *)
(* (searchIndex dereferences it unchecked), once, with that memory's embedding.      *)
ArraysAgree ==
  \A p \in Partitions : LET x == vectorIndex[p] IN
    /\ Len(x.ids) = Len(x.embeddings)
    /\ \A i \in DOMAIN x.ids : x.memories[x.ids[i]] # 0 /\ x.embeddings[i] = x.memories[x.ids[i]]
    /\ \A i, j \in DOMAIN x.ids : x.ids[i] = x.ids[j] => i = j

-----------------------------------------------------------------------------
(* RedisBackends                                                           *)
(* The Redis backends of sessions and memories: an item with a lifetime   *)
(* and, per owner, a set of its items' ids that List starts from. A pipeline's       *)
(* commands reach the server in order, and others' commands between them.            *)

CONSTANTS RedisClients, Items, Owners, Kinds, RedisTTL, RedisMaxTime, RedisMaxPuts

VARIABLES kind,        \* which of the backends this is
          item,        \* item -> [owner, until]; until -1 when absent
          redisIndex,  \* owner -> [ids, until]
          pipe,        \* client -> commands not executed yet
          redisPuts,
          unsure,      \* items whose last Put crossed a Delete, was cut short, or met an expiring set
          redisNow

redisVars == <<kind, item, redisIndex, pipe, redisPuts, unsure, redisNow>>

NoItem == [owner |-> "", until |-> -1]

RedisInit ==
  /\ kind \in Kinds
  /\ item = [i \in Items |-> NoItem] /\ redisIndex = [o \in Owners |-> [ids |-> {}, until |-> -1]]
  /\ pipe = [c \in RedisClients |-> << >>] /\ redisPuts = 0 /\ unsure = {} /\ redisNow = 0

Alive(i) == item[i].until >= redisNow
Members(o) == IF redisIndex[o].until >= redisNow THEN redisIndex[o].ids ELSE {}
Command(op, i, o) == [op |-> op, item |-> i, owner |-> o]

(* The commands of the pipelines. A memory without an owner is not indexed. *)
SessionPut(i, o) == <<Command("set", i, o), Command("sadd", i, o), Command("expire", i, o)>>
SessionDelete(i, o) == <<Command("del", i, o), Command("srem", i, o)>>
MemoryPut(i, o) == <<Command("set", i, o)>> \o IF o = "" THEN << >> ELSE <<Command("sadd", i, o), Command("expire", i, o)>>
MemoryDelete(i, o) == <<Command("del", i, o)>> \o IF o = "" THEN << >> ELSE <<Command("srem", i, o)>>

RedisBusy(i, ops) == \E c \in RedisClients : \E k \in DOMAIN pipe[c] : pipe[c][k].item = i /\ pipe[c][k].op \in ops
Settled(i) == ~RedisBusy(i, {"set", "sadd", "expire", "del", "srem"})

Put(c, i, o) ==
  /\ pipe[c] = << >> /\ redisPuts < RedisMaxPuts /\ redisPuts' = redisPuts + 1
  /\ kind = "session" => o # ""
  /\ pipe' = [pipe EXCEPT ![c] = IF kind = "session" THEN SessionPut(i, o) ELSE MemoryPut(i, o)]
  /\ unsure' = IF RedisBusy(i, {"del", "srem"}) THEN unsure \cup {i} ELSE IF Settled(i) THEN unsure \ {i} ELSE unsure
  /\ UNCHANGED <<kind, item, redisIndex, redisNow>>

(* Delete reads the item to learn its owner; an item not found counts as deleted. *)
RedisDelete(c, i) ==
  /\ pipe[c] = << >> /\ Alive(i)
  /\ pipe' = [pipe EXCEPT ![c] = IF kind = "session" THEN SessionDelete(i, item[i].owner) ELSE MemoryDelete(i, item[i].owner)]
  /\ unsure' = IF RedisBusy(i, {"set", "sadd", "expire"}) THEN unsure \cup {i} ELSE unsure
  /\ UNCHANGED <<kind, item, redisIndex, redisPuts, redisNow>>

(* The set that SADD put the item in expired before EXPIRE. *)
Missed(m) == m.op = "expire" /\ m.item \notin Members(m.owner)
(* Mutant: EXPIRE that only sets the lifetime of a set that has none. *)
Exec_ExpireOnce(c) ==
  /\ pipe[c] # << >> /\ pipe' = [pipe EXCEPT ![c] = Tail(@)]
  /\ LET m == Head(pipe[c])
     IN CASE m.op = "set" -> item' = [item EXCEPT ![m.item] = [owner |-> m.owner, until |-> redisNow + RedisTTL]] /\ UNCHANGED redisIndex
          [] m.op = "del" -> item' = [item EXCEPT ![m.item] = NoItem] /\ UNCHANGED redisIndex
          [] m.op = "sadd" ->
               /\ redisIndex' = [redisIndex EXCEPT ![m.owner] = [ids |-> Members(m.owner) \cup {m.item},
                                                       until |-> IF Members(m.owner) = {} THEN RedisMaxTime + RedisTTL ELSE @.until]]
               /\ UNCHANGED item
          [] m.op = "expire" ->
               /\ redisIndex' = [redisIndex EXCEPT ![m.owner].until = IF Members(m.owner) # {} /\ @ = RedisMaxTime + RedisTTL THEN redisNow + RedisTTL ELSE @]
               /\ UNCHANGED item
          [] m.op = "srem" -> redisIndex' = [redisIndex EXCEPT ![m.owner].ids = @ \ {m.item}] /\ UNCHANGED item
  /\ unsure' = IF Missed(Head(pipe[c])) THEN unsure \cup {Head(pipe[c]).item} ELSE unsure
  /\ UNCHANGED <<kind, redisPuts, redisNow>>
(* The server executes a client's next command. A set made anew has no lifetime yet; *)
(* a set that has expired is gone, and EXPIRE does nothing.                          *)
Exec(c) ==
  /\ pipe[c] # << >> /\ pipe' = [pipe EXCEPT ![c] = Tail(@)]
  /\ LET m == Head(pipe[c])
     IN CASE m.op = "set" -> item' = [item EXCEPT ![m.item] = [owner |-> m.owner, until |-> redisNow + RedisTTL]] /\ UNCHANGED redisIndex
          [] m.op = "del" -> item' = [item EXCEPT ![m.item] = NoItem] /\ UNCHANGED redisIndex
          [] m.op = "sadd" ->
               /\ redisIndex' = [redisIndex EXCEPT ![m.owner] = [ids |-> Members(m.owner) \cup {m.item},
                                                       until |-> IF Members(m.owner) = {} THEN RedisMaxTime + RedisTTL ELSE @.until]]
               /\ UNCHANGED item
          [] m.op = "expire" ->
               /\ redisIndex' = IF Members(m.owner) = {} THEN redisIndex ELSE [redisIndex EXCEPT ![m.owner].until = redisNow + RedisTTL]
               /\ UNCHANGED item
          [] m.op = "srem" -> redisIndex' = [redisIndex EXCEPT ![m.owner].ids = @ \ {m.item}] /\ UNCHANGED item
  /\ unsure' = IF Missed(Head(pipe[c])) THEN unsure \cup {Head(pipe[c]).item} ELSE unsure
  /\ UNCHANGED <<kind, redisPuts, redisNow>>
(* The connection breaks: the commands left are not executed, and Exec fails. *)
Cut(c) ==
  /\ pipe[c] # << >> /\ pipe' = [pipe EXCEPT ![c] = << >>]
  /\ unsure' = unsure \cup {Head(pipe[c]).item}
  /\ UNCHANGED <<kind, item, redisIndex, redisPuts, redisNow>>

RedisTick ==
  /\ redisNow < RedisMaxTime /\ redisNow' = redisNow + 1
  /\ UNCHANGED <<kind, item, redisIndex, pipe, redisPuts, unsure>>

RedisNext ==
  \/ \E c \in RedisClients : (\E i \in Items : (\E o \in Owners : Put(c, i, o)) \/ RedisDelete(c, i)) \/ Exec(c) \/ Cut(c)
  \/ RedisTick

RedisSpec == RedisInit /\ [][RedisNext]_redisVars

RedisTypeOK == kind \in Kinds /\ redisPuts \in 0..RedisMaxPuts /\ redisNow \in 0..RedisMaxTime

(* List: the members of the owner's set that still exist. *)
List(o) == {i \in Members(o) : Alive(i)}

(* An item that exists is listed for its owner, also when the owner's set and the    *)
(* item were given their lifetimes at different times, provided that its last Put    *)
(* succeeded, crossed no Delete of it, and did not meet the expiry of the owner's    *)
(* set between its SADD and its EXPIRE.                                              *)
StoredIsListed ==
  \A i \in Items : (Alive(i) /\ Settled(i) /\ i \notin unsure /\ item[i].owner # "") => i \in List(item[i].owner)

-----------------------------------------------------------------------------
(* ServiceBundle                                                           *)
(* The bundle of distributed services and its middleware: closing the services once, *)
(* and calls that are tried again with a timeout, whose operation runs in a goroutine *)
(* that outlives a call that gave up.                                                 *)

CONSTANTS Services, Closers, MaxRetries

VARIABLES initialized,  \* the bundle's flag
          closed,       \* service -> how often it was closed
          answer,       \* closer -> what Close returned
          attempt,      \* attempts the call has started
          call,         \* the call: idle, waiting for an attempt, between two, ended
          bundleOp,     \* attempt -> its goroutine
          done,         \* attempt -> the results in its channel
          result        \* what the call returned

bundleVars == <<initialized, closed, answer, attempt, call, bundleOp, done, result>>

Attempts == 1..MaxRetries
Buffer == 1
BundleInit ==
  /\ initialized = TRUE /\ closed = [s \in Services |-> 0] /\ answer = [c \in Closers |-> "none"]
  /\ attempt = 0 /\ call = "idle" /\ bundleOp = [i \in Attempts |-> "none"]
  /\ done = [i \in Attempts |-> {}] /\ result = "none"

Count(b) == IF b THEN 1 ELSE 0
(* Mutant: Close returns at the first service that fails to close. *)
Close_FirstError(c) ==
  /\ answer[c] = "none"
  /\ IF ~initialized THEN answer' = [answer EXCEPT ![c] = "nil"] /\ UNCHANGED <<initialized, closed>>
     ELSE \E failed \in SUBSET Services, reached \in SUBSET Services :
       /\ reached = Services \/ reached \cap failed # {}
       /\ closed' = [s \in Services |-> closed[s] + Count(s \in reached)]
       /\ initialized' = FALSE
       /\ answer' = [answer EXCEPT ![c] = IF failed = {} THEN "nil" ELSE "errors"]
  /\ UNCHANGED <<attempt, call, bundleOp, done, result>>
(* Close, under the lock: every service is closed, whichever of them fail. *)
Close(c) ==
  /\ answer[c] = "none"
  /\ IF ~initialized THEN answer' = [answer EXCEPT ![c] = "nil"] /\ UNCHANGED <<initialized, closed>>
     ELSE \E failed \in SUBSET Services :
       /\ closed' = [s \in Services |-> closed[s] + 1] /\ initialized' = FALSE
       /\ answer' = [answer EXCEPT ![c] = IF failed = {} THEN "nil" ELSE "errors"]
  /\ UNCHANGED <<attempt, call, bundleOp, done, result>>

(* WithRetry around WithTimeout: an attempt is a goroutine running the operation. *)
WithRetry ==
  /\ call \in {"idle", "between"} /\ UNCHANGED <<initialized, closed, answer, done>>
  /\ IF attempt = MaxRetries
     THEN call' = "ended" /\ result' = "failed" /\ UNCHANGED <<attempt, bundleOp>>
     ELSE /\ attempt' = attempt + 1 /\ bundleOp' = [bundleOp EXCEPT ![attempt + 1] = "running"]
          /\ call' = "waiting" /\ UNCHANGED result

(* The operation ends, and its goroutine sends what it returned. A goroutine whose    *)
(* channel has neither room nor a reader would stay blocked.                          *)
Operate(i, r) ==
  /\ bundleOp[i] = "running" /\ bundleOp' = [bundleOp EXCEPT ![i] = r]
  /\ UNCHANGED <<initialized, closed, answer, attempt, call, done, result>>
Listening(i) == call = "waiting" /\ attempt = i
(* Mutant: the channel has no buffer. *)
CanSend_Unbuffered(i) == Listening(i)
CanSend(i) == Cardinality(done[i]) < Buffer
Send(i) ==
  /\ bundleOp[i] \in {"ok", "error"} /\ CanSend(i)
  /\ done' = [done EXCEPT ![i] = @ \cup {bundleOp[i]}] /\ bundleOp' = [bundleOp EXCEPT ![i] = "gone"]
  /\ UNCHANGED <<initialized, closed, answer, attempt, call, result>>

(* Mutant: a call that timed out takes the result of any attempt. *)
WithTimeout_AnyAttempt ==
  /\ call = "waiting" /\ UNCHANGED <<initialized, closed, answer, attempt, bundleOp>>
  /\ \/ \E r \in done[1] : /\ done' = [done EXCEPT ![1] = {}]
                           /\ IF r = "ok" THEN call' = "ended" /\ result' = "nil"
                              ELSE call' = "between" /\ UNCHANGED result
     \/ call' = "between" /\ UNCHANGED <<done, result>>
(* The select of WithTimeout: the attempt's own result, or the deadline. *)
WithTimeout ==
  /\ call = "waiting" /\ UNCHANGED <<initialized, closed, answer, attempt, bundleOp>>
  /\ \/ \E r \in done[attempt] :
          /\ done' = [done EXCEPT ![attempt] = {}]
          /\ IF r = "ok" THEN call' = "ended" /\ result' = "nil"
             ELSE call' = "between" /\ UNCHANGED result
     \/ call' = "between" /\ UNCHANGED <<done, result>>

BundleNext ==
  \/ \E c \in Closers : Close(c)
  \/ WithRetry \/ WithTimeout
  \/ \E i \in Attempts : Send(i) \/ \E r \in {"ok", "error"} : Operate(i, r)

BundleSpec == BundleInit /\ [][BundleNext]_bundleVars

BundleTypeOK == /\ attempt \in 0..MaxRetries /\ initialized \in BOOLEAN
                /\ bundleOp \in [Attempts -> {"none", "running", "ok", "error", "gone"}]

(* However many callers close the bundle and whichever services fail to close, a      *)
(* caller that got its answer knows that every service was closed, once.              *)
BundleClosedOnce ==
  /\ \A s \in Services : closed[s] <= 1
  /\ (\E c \in Closers : answer[c] # "none") => \A s \in Services : closed[s] = 1

(* A goroutine whose operation ended can send its result, also when its call timed   *)
(* out, tried again or returned: none stays blocked.                                  *)
LateResultFindsRoom == \A i \in Attempts : bundleOp[i] \in {"ok", "error"} => CanSend(i)

(* The call succeeds only with the success of the attempt it was waiting for: a late *)
(* result of an attempt it gave up on is not taken for a later one.                  *)
RetryTakesItsOwn == result = "nil" => bundleOp[attempt] = "gone" /\ done[attempt] = {}
=============================================================================

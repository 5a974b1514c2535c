----------------------------- MODULE MCPlatform -----------------------------
(***************************************************************************)
(* The parts the platform rests on: admission to the scheduler, the        *)
(* durable tables, the registries, actors, stores, sessions, memories,     *)
(* tools, model providers, policies and backends, each on its own with its *)
(* concurrent callers, crashes and failures: a behaviour picks a component *)
(* and follows its specification.                                          *)
(***************************************************************************)
EXTENDS Naturals, FiniteSets, Sequences, TLC

VARIABLES
    part,   \* the component this behaviour is about
    v1, v2, v3, v4, v5, v6, v7, v8, v9, v10, v11, v12, v13, v14, v15, v16, v17  \* its variables; those it does not have stay 0

vars == <<part, v1, v2, v3, v4, v5, v6, v7, v8, v9, v10, v11, v12, v13, v14, v15, v16, v17>>

AD == INSTANCE Admission
    WITH Jobs <- {"j", "k"}, Cap <- 1, MaxTroubles <- 1, MaxReconciles <- 1, subs <- v1, log <- v2,
         row <- v3, task <- v4, obj <- v5, cur <- v6, queue <- v7, inq <- v8, pend <- v9,
         run <- v10, seen <- v11, rec <- v12, leader <- v13, troubles <- v14, recs <- v15,
         crowded <- v16, deferred <- v17

DT == INSTANCE DurableTables
    WITH ArchiveJobs <- {"j", "k"}, MaxWrites <- 1, MaxTasks <- 2, Writers <- {"v", "w"},
         StoresJobs <- {"j"}, MaxSeq <- 3, MaxAttempt <- 2, Clients <- {"c", "d"},
         Requests <- {"r", "s"}, MaxOps <- 3, MaxRetries <- 1, MaxFails <- 1,
         Processes <- {"p", "q"}, Conns <- {1, 2}, Statements <- 2, archiveRow <- v1, trans <- v2,
         tasks <- v3, fileOf <- v4, files <- v5, exp <- v6, manifest <- v7, prune <- v8,
         writes <- v9, late <- v10, lost <- v11, mem <- v1, pg <- v2, storesHeld <- v3,
         answers <- v4, rows <- v1, dlq <- v2, lock <- v3, dlock <- v4, tx <- v5, fate <- v6,
         ckptOps <- v7, style <- v1, ddlHeld <- v2, busy <- v3, ddlPc <- v4, conn <- v5,
         left <- v6, broken <- v7

WN == INSTANCE WorkerNodes
    WITH Self <- "r", Others <- {"o"}, MaxLoad <- 1, MaxLeases <- 2, MaxChanges <- 2,
         PoolCallers <- {"p", "q"}, PoolNodes <- {"n"}, MaxConns <- 3, ProcCallers <- {"a", "b"},
         MaxStarts <- 2, MaxStops <- 2, keys <- v1, keyLease <- v2, live <- v3, made <- v4,
         lease <- v5, load <- v6, nodes <- v7, start <- v8, watching <- v9, events <- v10,
         missed <- v11, manager <- v12, updater <- v13, changes <- v14, pool <- v1, conns <- v2,
         lock <- v3, poolCaller <- v4, mps <- v1, current <- v2, card <- v3, procCaller <- v4,
         stops <- v5

EQ == INSTANCE EtcdQueues
    WITH MutexNodes <- {"n1"}, Callers <- {"c1", "c2"}, NodeOf <- [c \in {"c1", "c2"} |-> "n1"],
         MaxLocks <- 2, ElectNodes <- {"n1", "n2"}, Schedulers <- {"a", "b"},
         Requests <- {"r1", "r2"}, MaxRevision <- 3, locked <- v1, closed <- v2, mutexQueue <- v3,
         lease <- v4, pc <- v5, waitCh <- v6, locks <- v7, electQueue <- v1, session <- v2,
         loop <- v3, electIsLeader <- v4, stop <- v5, task <- v6, revision <- v1, key <- v2,
         fenceIsLeader <- v3, request <- v4, lastEpoch <- v5, inFlight <- v6

AE == INSTANCE ActorsAndEvents
    WITH Callers <- {"p"}, MaxProcs <- 3, Cap <- 1, RestartLimit <- 1, Types <- {"t"},
         Handlers <- {"h"}, Publications <- {1, 2}, Checkers <- {"db", "llm"}, Database <- {"db"},
         Probes <- {"p"}, MaxTroubles <- 2, sys <- v1, actor <- v2, proc <- v3, caller <- v4,
         sup <- v5, toStop <- v6, config <- v7, childProc <- v8, restarts <- v9, sinceReset <- v10,
         loose <- v11, subscribers <- v1, publication <- v2, counts <- v3, store <- v4,
         closed <- v5, registered <- v1, up <- v2, snapshot <- v3, running <- v4, results <- v5,
         overall <- v6, reported <- v7, pc <- v8, troubles <- v9

MP == INSTANCE ModelsAndPolicies
    WITH Kinds <- [c |-> {"health"}, d |-> {"chat", "stream"}], Providers <- 2,
         ModelMaxRetries <- 1, ErrorLimit <- 2, MaxErrors <- 2, Executions <- {"a", "b", "c"},
         HealMaxRetries <- 1, MaxCalls <- 3, Cap <- 3,
         Policies <- {<<[kind |-> "pii", action |-> "redact"], [kind |-> "regex", action |-> "redact"]>>, <<[kind |-> "regex", action |-> "redact"], [kind |-> "pii", action |-> "redact"], [kind |-> "length", action |-> "block"]>>, <<[kind |-> "llm", action |-> "block"], [kind |-> "length", action |-> "redact"], [kind |-> "content", action |-> "warn"]>>, <<[kind |-> "length", action |-> "redact"], [kind |-> "pii", action |-> "redact"], [kind |-> "unknown", action |-> "block"]>>},
         Texts <- {{"pii", "word"}, {"long", "pii"}}, Backends <- 2, status <- v1, call <- v2,
         result <- v3, asked <- v4, healthy <- v5, exec <- v1, currentRetry <- v2, lastError <- v3,
         health <- v4, calls <- v5, rules <- v1, failOpen <- v2, stopFirst <- v3, state <- v4,
         run <- v5, todo <- v6, ended <- v7, log <- v8

SS == INSTANCE Sessions
    WITH StoreClients <- {"a", "b"}, MaxObjects <- 4, MaxCommits <- 3, MaxLives <- 2,
         PointIds <- {1, 2}, PointAgents <- {"a"}, PointKeys <- {"k"}, MaxTime <- 3, MaxSaves <- 3,
         SessionClients <- {"a", "b"}, MaxInvocations <- 2, MaxCheckpoints <- 1, Contexts <- {1},
         MemoryAgents <- {"a", "b"}, MemoryKeys <- {"k"}, MemoryClients <- {"p", "q"}, MaxOps <- 4,
         Sessions <- {"x", "y"}, Users <- {"u", "v"},
         Owner <- [s \in {"x", "y"} |-> IF s = "x" THEN "u" ELSE "v"], Words <- {"a"},
         MaxEvents <- 1, heap <- v1, objects <- v2, stored <- v3, storeClient <- v4, commits <- v5,
         life <- v6, checkpoints <- v1, saves <- v2, values <- v3, promised <- v4, closed <- v5,
         now <- v6, kind <- v1, session <- v2, sessionClient <- v3, ids <- v4, memories <- v1,
         embeddings <- v2, memoryClient <- v3, users <- v4, memoryFailed <- v5, clock <- v6,
         history <- v1, store <- v2, lists <- v3, kept <- v4, backend <- v5, ingested <- v6

TS == INSTANCE ToolServers
    WITH McpCallers <- {"p", "q"}, McpMaxRequests <- 2, ToolsetCallers <- {"p", "q"},
         Partitions <- {"x"}, MaxToolsets <- 2, MaxServers <- 3, IpcCallers <- {"c", "d"},
         IpcMaxRequests <- 3, Buffer <- 2, Runs <- {"r", "s"}, Entry <- "a", Finish <- {"z"},
         Edges <- [a |-> <<"b", "z">>, b |-> <<"a", "c">>, c |-> << >>, z |-> <<"a">>],
         MaxSteps <- 4, request <- v1, responses <- v2, channel <- v3, requestID <- v4,
         asked <- v5, wire <- v6, passedOver <- v7, mcpConnected <- v8, reading <- v9,
         toolsets <- v1, made <- v2, toolsetConnected <- v3, client <- v4, running <- v5,
         servers <- v6, lock <- v7, busy <- v8, toolsetAgain <- v9, caller <- v10, next <- v1,
         stdin <- v2, stdout <- v3, messages <- v4, pending <- v5, got <- v6, stopped <- v7,
         server <- v8, timedOut <- v9, overlapped <- v10, status <- v1, at <- v2, steps <- v3,
         path <- v4, gone <- v5, results <- v6, dropped <- v7

SV == INSTANCE RuntimeServices
    WITH CacheClients <- {"p", "q"}, Sessions <- {"x", "y"}, CacheMaxPuts <- 2, CacheMaxTime <- 3,
         CacheTTL <- 1, CacheMaxSize <- 1, Flight <- 1, Keys <- {"x", "y"}, Sizes <- {1, 2, 3},
         ArtifactMaxSize <- 3, MaxArtifactSize <- 2, ArtifactMaxPuts <- 3, MaxClock <- 4,
         VectorClients <- {"p", "q"}, Memories <- {"m", "n"}, Partitions <- {1, 2}, MaxStores <- 2,
         RedisClients <- {"p", "q"}, Items <- {"x", "y"}, Owners <- {"u", ""},
         Kinds <- {"session", "memory"}, RedisTTL <- 1, RedisMaxTime <- 2, RedisMaxPuts <- 3,
         Services <- {"session", "artifact", "memory"}, Closers <- {"a", "b"}, MaxRetries <- 3,
         cacheBackend <- v1, replacedAt <- v2, cachePuts <- v3, cache <- v4, cacheClient <- v5,
         cacheNow <- v6, artifactBackend <- v1, artifactPuts <- v2, artifacts <- v3,
         totalSize <- v4, fill <- v5, clock <- v6, vectorBackend <- v1, stores <- v2,
         vectorIndex <- v3, vectorClient <- v4, kind <- v1, item <- v2, redisIndex <- v3,
         pipe <- v4, redisPuts <- v5, unsure <- v6, redisNow <- v7, initialized <- v1,
         closed <- v2, answer <- v3, attempt <- v4, call <- v5, bundleOp <- v6, done <- v7,
         result <- v8

GA == INSTANCE Gates
    WITH Callers <- {"c1"}, FailureThreshold <- 1, SuccessThreshold <- 1, HalfOpenMaxRequests <- 1,
         MaxEras <- 1, Executions <- {"a", "b", "c"}, Deliverers <- {"d", "e"},
         MaxConcurrentWaits <- 2, MaxAnswers <- 2, registered <- v1, breakers <- v2, caller <- v3,
         pc <- v1, waits <- v2, callbacks <- v3, respChan <- v4, lock <- v5, target <- v6,
         answered <- v7, pending <- v8, out <- v9

Init ==
    \/ part = "admission" /\ AD!Init
    \/ part = "archive" /\ DT!ArchiveInit /\ v12 = 0 /\ v13 = 0 /\ v14 = 0 /\ v15 = 0 /\ v16 = 0 /\ v17 = 0
    \/ part = "cptables" /\ DT!CkptInit /\ v8 = 0 /\ v9 = 0 /\ v10 = 0 /\ v11 = 0 /\ v12 = 0 /\ v13 = 0 /\ v14 = 0 /\ v15 = 0 /\ v16 = 0 /\ v17 = 0
    \/ part = "schemalock" /\ DT!DdlInit /\ v8 = 0 /\ v9 = 0 /\ v10 = 0 /\ v11 = 0 /\ v12 = 0 /\ v13 = 0 /\ v14 = 0 /\ v15 = 0 /\ v16 = 0 /\ v17 = 0
    \/ part = "registry" /\ WN!RegInit /\ v15 = 0 /\ v16 = 0 /\ v17 = 0
    \/ part = "process" /\ WN!ProcInit /\ v6 = 0 /\ v7 = 0 /\ v8 = 0 /\ v9 = 0 /\ v10 = 0 /\ v11 = 0 /\ v12 = 0 /\ v13 = 0 /\ v14 = 0 /\ v15 = 0 /\ v16 = 0 /\ v17 = 0
    \/ part = "fencing" /\ EQ!FenceInit /\ v7 = 0 /\ v8 = 0 /\ v9 = 0 /\ v10 = 0 /\ v11 = 0 /\ v12 = 0 /\ v13 = 0 /\ v14 = 0 /\ v15 = 0 /\ v16 = 0 /\ v17 = 0
    \/ part = "connpool" /\ WN!PoolInit /\ v5 = 0 /\ v6 = 0 /\ v7 = 0 /\ v8 = 0 /\ v9 = 0 /\ v10 = 0 /\ v11 = 0 /\ v12 = 0 /\ v13 = 0 /\ v14 = 0 /\ v15 = 0 /\ v16 = 0 /\ v17 = 0
    \/ part = "actors" /\ AE!ActorInit /\ v12 = 0 /\ v13 = 0 /\ v14 = 0 /\ v15 = 0 /\ v16 = 0 /\ v17 = 0
    \/ part = "healing" /\ MP!HealInit /\ v6 = 0 /\ v7 = 0 /\ v8 = 0 /\ v9 = 0 /\ v10 = 0 /\ v11 = 0 /\ v12 = 0 /\ v13 = 0 /\ v14 = 0 /\ v15 = 0 /\ v16 = 0 /\ v17 = 0
    \/ part = "sessions" /\ SS!StoreInit /\ v7 = 0 /\ v8 = 0 /\ v9 = 0 /\ v10 = 0 /\ v11 = 0 /\ v12 = 0 /\ v13 = 0 /\ v14 = 0 /\ v15 = 0 /\ v16 = 0 /\ v17 = 0
    \/ part = "asessions" /\ SS!SessionInit /\ v5 = 0 /\ v6 = 0 /\ v7 = 0 /\ v8 = 0 /\ v9 = 0 /\ v10 = 0 /\ v11 = 0 /\ v12 = 0 /\ v13 = 0 /\ v14 = 0 /\ v15 = 0 /\ v16 = 0 /\ v17 = 0
    \/ part = "ebus" /\ AE!BusInit /\ v6 = 0 /\ v7 = 0 /\ v8 = 0 /\ v9 = 0 /\ v10 = 0 /\ v11 = 0 /\ v12 = 0 /\ v13 = 0 /\ v14 = 0 /\ v15 = 0 /\ v16 = 0 /\ v17 = 0
    \/ part = "memory" /\ SS!MemoryInit /\ v7 = 0 /\ v8 = 0 /\ v9 = 0 /\ v10 = 0 /\ v11 = 0 /\ v12 = 0 /\ v13 = 0 /\ v14 = 0 /\ v15 = 0 /\ v16 = 0 /\ v17 = 0
    \/ part = "ckpt" /\ SS!PointInit /\ v7 = 0 /\ v8 = 0 /\ v9 = 0 /\ v10 = 0 /\ v11 = 0 /\ v12 = 0 /\ v13 = 0 /\ v14 = 0 /\ v15 = 0 /\ v16 = 0 /\ v17 = 0
    \/ part = "mcpio" /\ TS!McpInit /\ v10 = 0 /\ v11 = 0 /\ v12 = 0 /\ v13 = 0 /\ v14 = 0 /\ v15 = 0 /\ v16 = 0 /\ v17 = 0
    \/ part = "mcpsets" /\ TS!ToolsetInit /\ v11 = 0 /\ v12 = 0 /\ v13 = 0 /\ v14 = 0 /\ v15 = 0 /\ v16 = 0 /\ v17 = 0
    \/ part = "sesscache" /\ SV!CacheInit /\ v7 = 0 /\ v8 = 0 /\ v9 = 0 /\ v10 = 0 /\ v11 = 0 /\ v12 = 0 /\ v13 = 0 /\ v14 = 0 /\ v15 = 0 /\ v16 = 0 /\ v17 = 0
    \/ part = "artifact" /\ SV!ArtifactInit /\ v7 = 0 /\ v8 = 0 /\ v9 = 0 /\ v10 = 0 /\ v11 = 0 /\ v12 = 0 /\ v13 = 0 /\ v14 = 0 /\ v15 = 0 /\ v16 = 0 /\ v17 = 0
    \/ part = "vindex" /\ SV!VectorInit /\ v5 = 0 /\ v6 = 0 /\ v7 = 0 /\ v8 = 0 /\ v9 = 0 /\ v10 = 0 /\ v11 = 0 /\ v12 = 0 /\ v13 = 0 /\ v14 = 0 /\ v15 = 0 /\ v16 = 0 /\ v17 = 0
    \/ part = "redisbe" /\ SV!RedisInit /\ v8 = 0 /\ v9 = 0 /\ v10 = 0 /\ v11 = 0 /\ v12 = 0 /\ v13 = 0 /\ v14 = 0 /\ v15 = 0 /\ v16 = 0 /\ v17 = 0
    \/ part = "sessmem" /\ SS!RecallInit /\ v7 = 0 /\ v8 = 0 /\ v9 = 0 /\ v10 = 0 /\ v11 = 0 /\ v12 = 0 /\ v13 = 0 /\ v14 = 0 /\ v15 = 0 /\ v16 = 0 /\ v17 = 0
    \/ part = "policy" /\ MP!PolicyInit /\ v9 = 0 /\ v10 = 0 /\ v11 = 0 /\ v12 = 0 /\ v13 = 0 /\ v14 = 0 /\ v15 = 0 /\ v16 = 0 /\ v17 = 0
    \/ part = "backend" /\ TS!LocalInit /\ v8 = 0 /\ v9 = 0 /\ v10 = 0 /\ v11 = 0 /\ v12 = 0 /\ v13 = 0 /\ v14 = 0 /\ v15 = 0 /\ v16 = 0 /\ v17 = 0
    \/ part = "ipc" /\ TS!IpcInit /\ v11 = 0 /\ v12 = 0 /\ v13 = 0 /\ v14 = 0 /\ v15 = 0 /\ v16 = 0 /\ v17 = 0
    \/ part = "txstores" /\ DT!StoresInit /\ v5 = 0 /\ v6 = 0 /\ v7 = 0 /\ v8 = 0 /\ v9 = 0 /\ v10 = 0 /\ v11 = 0 /\ v12 = 0 /\ v13 = 0 /\ v14 = 0 /\ v15 = 0 /\ v16 = 0 /\ v17 = 0
    \/ part = "humannode" /\ GA!HumanInit /\ v10 = 0 /\ v11 = 0 /\ v12 = 0 /\ v13 = 0 /\ v14 = 0 /\ v15 = 0 /\ v16 = 0 /\ v17 = 0
    \/ part = "healthreg" /\ AE!HealthInit /\ v10 = 0 /\ v11 = 0 /\ v12 = 0 /\ v13 = 0 /\ v14 = 0 /\ v15 = 0 /\ v16 = 0 /\ v17 = 0
    \/ part = "bundle" /\ SV!BundleInit /\ v9 = 0 /\ v10 = 0 /\ v11 = 0 /\ v12 = 0 /\ v13 = 0 /\ v14 = 0 /\ v15 = 0 /\ v16 = 0 /\ v17 = 0
    \/ part = "models" /\ MP!ModelInit /\ v6 = 0 /\ v7 = 0 /\ v8 = 0 /\ v9 = 0 /\ v10 = 0 /\ v11 = 0 /\ v12 = 0 /\ v13 = 0 /\ v14 = 0 /\ v15 = 0 /\ v16 = 0 /\ v17 = 0

Next ==
    \/ part = "admission" /\ AD!Next /\ UNCHANGED <<part>>
    \/ part = "archive" /\ DT!ArchiveNext /\ UNCHANGED <<part, v12, v13, v14, v15, v16, v17>>
    \/ part = "cptables" /\ DT!CkptNext /\ UNCHANGED <<part, v8, v9, v10, v11, v12, v13, v14, v15, v16, v17>>
    \/ part = "schemalock" /\ DT!DdlNext /\ UNCHANGED <<part, v8, v9, v10, v11, v12, v13, v14, v15, v16, v17>>
    \/ part = "registry" /\ WN!RegNext /\ UNCHANGED <<part, v15, v16, v17>>
    \/ part = "process" /\ WN!ProcNext /\ UNCHANGED <<part, v6, v7, v8, v9, v10, v11, v12, v13, v14, v15, v16, v17>>
    \/ part = "fencing" /\ EQ!FenceNext /\ UNCHANGED <<part, v7, v8, v9, v10, v11, v12, v13, v14, v15, v16, v17>>
    \/ part = "connpool" /\ WN!PoolNext /\ UNCHANGED <<part, v5, v6, v7, v8, v9, v10, v11, v12, v13, v14, v15, v16, v17>>
    \/ part = "actors" /\ AE!ActorNext /\ UNCHANGED <<part, v12, v13, v14, v15, v16, v17>>
    \/ part = "healing" /\ MP!HealNext /\ UNCHANGED <<part, v6, v7, v8, v9, v10, v11, v12, v13, v14, v15, v16, v17>>
    \/ part = "sessions" /\ SS!StoreNext /\ UNCHANGED <<part, v7, v8, v9, v10, v11, v12, v13, v14, v15, v16, v17>>
    \/ part = "asessions" /\ SS!SessionNext /\ UNCHANGED <<part, v5, v6, v7, v8, v9, v10, v11, v12, v13, v14, v15, v16, v17>>
    \/ part = "ebus" /\ AE!BusNext /\ UNCHANGED <<part, v6, v7, v8, v9, v10, v11, v12, v13, v14, v15, v16, v17>>
    \/ part = "memory" /\ SS!MemoryNext /\ UNCHANGED <<part, v7, v8, v9, v10, v11, v12, v13, v14, v15, v16, v17>>
    \/ part = "ckpt" /\ SS!PointNext /\ UNCHANGED <<part, v7, v8, v9, v10, v11, v12, v13, v14, v15, v16, v17>>
    \/ part = "mcpio" /\ TS!McpNext /\ UNCHANGED <<part, v10, v11, v12, v13, v14, v15, v16, v17>>
    \/ part = "mcpsets" /\ TS!ToolsetNext /\ UNCHANGED <<part, v11, v12, v13, v14, v15, v16, v17>>
    \/ part = "sesscache" /\ SV!CacheNext /\ UNCHANGED <<part, v7, v8, v9, v10, v11, v12, v13, v14, v15, v16, v17>>
    \/ part = "artifact" /\ SV!ArtifactNext /\ UNCHANGED <<part, v7, v8, v9, v10, v11, v12, v13, v14, v15, v16, v17>>
    \/ part = "vindex" /\ SV!VectorNext /\ UNCHANGED <<part, v5, v6, v7, v8, v9, v10, v11, v12, v13, v14, v15, v16, v17>>
    \/ part = "redisbe" /\ SV!RedisNext /\ UNCHANGED <<part, v8, v9, v10, v11, v12, v13, v14, v15, v16, v17>>
    \/ part = "sessmem" /\ SS!RecallNext /\ UNCHANGED <<part, v7, v8, v9, v10, v11, v12, v13, v14, v15, v16, v17>>
    \/ part = "policy" /\ MP!PolicyNext /\ UNCHANGED <<part, v9, v10, v11, v12, v13, v14, v15, v16, v17>>
    \/ part = "backend" /\ TS!LocalNext /\ UNCHANGED <<part, v8, v9, v10, v11, v12, v13, v14, v15, v16, v17>>
    \/ part = "ipc" /\ TS!IpcNext /\ UNCHANGED <<part, v11, v12, v13, v14, v15, v16, v17>>
    \/ part = "txstores" /\ DT!StoresNext /\ UNCHANGED <<part, v5, v6, v7, v8, v9, v10, v11, v12, v13, v14, v15, v16, v17>>
    \/ part = "humannode" /\ GA!HumanNext /\ UNCHANGED <<part, v10, v11, v12, v13, v14, v15, v16, v17>>
    \/ part = "healthreg" /\ AE!HealthNext /\ UNCHANGED <<part, v10, v11, v12, v13, v14, v15, v16, v17>>
    \/ part = "bundle" /\ SV!BundleNext /\ UNCHANGED <<part, v9, v10, v11, v12, v13, v14, v15, v16, v17>>
    \/ part = "models" /\ MP!ModelNext /\ UNCHANGED <<part, v6, v7, v8, v9, v10, v11, v12, v13, v14, v15, v16, v17>>

Spec == Init /\ [][Next]_vars

-----------------------------------------------------------------------------
(* Admission to the scheduler's queue, with reconcile, recovery and        *)
(* restarts beside it.                                                     *)
(* - The queue capacity a submission reserves before the lock is released  *)
(* is kept: an accepted job stays out of the queue only if another path    *)
(* used the queue meanwhile.                                               *)
(* - A job the log says is unfinished is listed as unfinished in its row,  *)
(* so that reconcile and recovery find it again; only one that never got   *)
(* past JOB_SUBMITTED may be hidden, when reconcile could not read its log *)
(* and forced its row to FAILED.                                           *)
AdmissionKept == part = "admission" => AD!TypeOK /\ AD!ReservationKept /\ AD!FoundAgain

(* Nothing the durable tables hold is lost between two statements, two     *)
(* processes or two stores.                                                *)
(* - What the prune command deletes is in the bundle that the verified     *)
(* manifest names for the job, except for a record written after the prune *)
(* counted the job's transitions.                                          *)
(* - The in-memory and the PostgreSQL transition stores give the same      *)
(* answers and the same reads, whatever the order ids are written in and   *)
(* wherever a callback fails.                                              *)
(* - A sequence id NextSequenceID hands out is nobody else's and in no     *)
(* record, also for jobs older than the sequence table.                    *)
(* - A checkpoint leaves the active table only by a deletion, a            *)
(* replacement or with a dead letter, whatever transactions overlap, are   *)
(* refused or die.                                                         *)
(* - A checkpoint moved by MoveToCheckpointDLQSerializable is not also     *)
(* replaced or deleted by an overlapping transaction, and its dead letter  *)
(* has the last failure count.                                             *)
(* - The schema statements of two processes overlap only if the connection *)
(* holding the session lock was closed in the middle, and never under the  *)
(* transaction lock.                                                       *)
(* - A process whose transition store's ensureSchema has returned holds no *)
(* schema lock.                                                            *)
TablesKeepEverything ==
    /\ part = "archive" => DT!ArchiveTypeOK /\ DT!DeletedIsArchived
    /\ part = "txstores" => DT!StoresTypeOK /\ DT!StoresAgree /\ DT!SequencesFresh
    /\ part = "cptables" => DT!CkptTypeOK /\ DT!LeavesATrace /\ DT!SerializableMoveExact
    /\ part = "schemalock" => DT!DdlTypeOK /\ DT!DdlOverlapsNever /\ DT!NoLockKept

(* What the control plane believes of its workers, their connections and   *)
(* their epochs.                                                           *)
(* - Registry: the local cache agrees with etcd about every other node     *)
(* once the watch's events are handled, unless the node's last change fell *)
(* between syncExistingNodes and the creation of the watch, or after the   *)
(* watch had failed (it is never created again).                           *)
(* - Registry: after Stop, the session Stop closed is the last one the     *)
(* node created, and no other lease holds its key: the node cannot stay    *)
(* registered.                                                             *)
(* - Every open connection is in the pool's map, one per node at most      *)
(* (remote_execution.go:163-204).                                          *)
(* - Workers never let through a request of an older leadership than one   *)
(* let through before (dispatch_authority.go:169-204).                     *)
(* - ProcessManager: the A2A registry has a card only while the monitor of *)
(* some process of the agent has still to run.                             *)
(* - ProcessManager: a process with status stopped has exited or was       *)
(* killed, whichever of StopAgent and the monitor wrote the status last.   *)
WorkersAccounted ==
    /\ [](/\ part = "registry" => WN!RegTypeOK /\ WN!CacheCurrent /\ WN!StoppedLeaves
          /\ part = "connpool" => WN!PoolTypeOK /\ WN!NoConnectionLeaks
          /\ part = "fencing" => EQ!FenceTypeOK
          /\ part = "process" => WN!ProcTypeOK /\ WN!NoGhostCard /\ WN!StoppedIsDying)
    /\ [][part = "fencing" => EQ!EpochsNeverRegressStep]_vars

(* Sessions, checkpoints and memories give back what was put in. *)
(* - An update through a copy is accepted only if nothing was committed    *)
(* since, within one life of the session (backends.go:320-339).            *)
(* - GetLatest answers with the checkpoint saved last, up to equal         *)
(* instants (backends.go:242-260).                                         *)
(* - A value without a lifetime leaves the store only by Delete or Close   *)
(* (backends.go:38-57).                                                    *)
(* - A checkpoint brings back the history and context of its moment while  *)
(* that history is still a prefix (session.go:208-273).                    *)
(* - An entry whose embedding could be made is found by semantic search    *)
(* once operations are over, unless another agent used its key             *)
(* (memory.go:354-482).                                                    *)
(* - A keyword search has every matching event of the user's ingested      *)
(* sessions once and nothing else (adk_memory.go:481-568,                  *)
(* adk_memory_enhanced.go:431-629).                                        *)
(* - The scoped memory service answers with a matching event once,         *)
(* whatever its backend kept (adk_memory.go:114-261).                      *)
MemoryIsExact ==
    /\ [](/\ part = "sessions" => SS!StoreTypeOK
          /\ part = "ckpt" => SS!PointTypeOK /\ SS!LatestIsLastSaved /\ SS!EternalStays
          /\ part = "asessions" => SS!SessionTypeOK
          /\ part = "memory" => SS!MemoryTypeOK /\ SS!EntriesAreFound
          /\ part = "sessmem" => SS!RecallTypeOK /\ SS!RecallIsExact /\ SS!FoundOnce)
    /\ [][part = "sessions" => SS!StaleCopyRefusedStep]_vars
    /\ [][part = "asessions" => SS!RestoreIsExactStep]_vars

(* The runtime's services stay within their bounds and agree with their    *)
(* backends.                                                               *)
(* - A cached session was the backend's when it was cached, or one call's  *)
(* duration before (session_service.go:108-210).                           *)
(* - The artifact cache never holds or accounts for more than its maximum  *)
(* (artifact_service.go:247-283).                                          *)
(* - An index's map and parallel arrays agree, so a search never meets an  *)
(* id without a memory (memory_service.go:264-400).                        *)
(* - An item that exists is listed for its owner, whenever its and the     *)
(* set's lifetimes began, unless its last Put failed, crossed a Delete of  *)
(* it, or met the expiry of the owner's set between its SADD and its       *)
(* EXPIRE (backends_redis.go:99-204).                                      *)
(* - Closing the service bundle closes every service once, whichever of    *)
(* them fail and however many callers close it.                            *)
(* - A goroutine of WithTimeout whose call gave up can still send its      *)
(* result.                                                                 *)
(* - WithRetry succeeds only with the attempt it waits for, never with the *)
(* late result of an earlier one.                                          *)
ServicesBounded ==
    /\ part = "sesscache" => SV!CacheTypeOK /\ SV!StaleAtMostTTL
    /\ part = "artifact" => SV!ArtifactTypeOK /\ SV!CacheWithinBudget
    /\ part = "vindex" => SV!VectorTypeOK /\ SV!ArraysAgree
    /\ part = "redisbe" => SV!RedisTypeOK /\ SV!StoredIsListed
    /\ part = "bundle" => /\ SV!BundleTypeOK
                          /\ SV!BundleClosedOnce
                          /\ SV!LateResultFindsRoom
                          /\ SV!RetryTakesItsOwn

(* Actors, event handlers and health checks under concurrent stops,        *)
(* failures and registrations.                                             *)
(* - A restart waits for the process it replaces: only one that StopChild  *)
(* or RemoveChild let go of, or that the supervisor did not track when the *)
(* restart began, may run beside the new one (supervisor.go:208-249).      *)
(* - No more restarts for failures than the limit between two resets of    *)
(* the count; restart messages are not counted (supervisor.go:109-127).    *)
(* - When Publish returns its handlers have all run and the counts agree   *)
(* (events.go:142-175).                                                    *)
(* - A health probe answers with the worst of its components' results, in  *)
(* whatever order the checks finish.                                       *)
(* - A health probe reports every component registered when it began. *)
ActorsSupervised ==
    /\ part = "actors" => AE!ActorTypeOK /\ AE!OneIncarnation /\ AE!RestartBudget
    /\ part = "ebus" => AE!BusTypeOK /\ AE!PublishedIsHandled
    /\ part = "healthreg" => AE!HealthTypeOK /\ AE!VerdictIsWorst /\ AE!EveryComponentReported

(* Answers of tool servers, agent processes and the local backend reach    *)
(* the call they belong to.                                                *)
(* - A caller is answered by the answer to its own request, however late   *)
(* or often answers come (stdio_transport.go:114-153, client.go:89-171).   *)
(* - No answer is dropped while its request still waits                    *)
(* (stdio_transport.go:120, 226-235).                                      *)
(* - Every running server process belongs to a connected toolset of the    *)
(* map or to the connection being made, unless a holder connected its      *)
(* toolset after Close had taken it out of the map (toolset.go:70-120,     *)
(* 296-355).                                                               *)
(* - Without a timeout and without overlapping requests every caller gets  *)
(* its own answer (stdio_ipc.go:125-247, 320-459).                         *)
(* - An execution result's path is a walk of the graph and is complete     *)
(* exactly at a finish node (local.go:147-231).                            *)
AnswersMatchCalls ==
    /\ part = "mcpio" => TS!McpTypeOK /\ TS!AnswersAreOwn /\ TS!NoAnswerDropped
    /\ part = "mcpsets" => TS!ToolsetTypeOK /\ TS!NoOrphanServer
    /\ part = "ipc" => TS!IpcTypeOK /\ TS!AloneGetsOwn
    /\ part = "backend" => TS!LocalTypeOK /\ TS!PathIsWalk

(* Providers, self healing and policies: no verdict is better than what    *)
(* was observed.                                                           *)
(* - A provider with ErrorLimit errors in a row is unavailable             *)
(* (base_provider.go:58-103, provider.go:352-371).                         *)
(* - A call fails only after asking every provider, each within its        *)
(* retries (fallback_provider.go:30-68, provider.go:502-559).              *)
(* - An overlapped execution that began after the wrapper recorded an      *)
(* error, and was not under way at a Reset, never returns success without  *)
(* a successful attempt of its own (healing.go:103-176); one begun earlier *)
(* may, in the window between healing.go:142 and 144.                      *)
(* - A run the policy node lets go on has no personal data that a redact   *)
(* rule removes (engine.go:55-121, policy_node.go:79-157).                 *)
(* - The audit events agree with what matched and with what became of the  *)
(* run (engine.go:96-162).                                                 *)
GuardsHold ==
    /\ part = "models" => MP!ModelTypeOK /\ MP!TroubledIsDown /\ MP!FailedAskedAll
    /\ part = "healing" => MP!HealTypeOK /\ MP!SuccessIsOwn
    /\ part = "policy" => MP!PolicyTypeOK /\ MP!AllowedIsRedacted /\ MP!AuditTellsVerdict

(* A node that waits for a person never blocks who answers, waits within   *)
(* its limits and leaves nothing behind.                                   *)
(* - A delivered human response finds room in its channel, so the response *)
(* manager's lock is never held by a blocked delivery.                     *)
(* - No more than maxConcurrentWaits executions of a human node block at   *)
(* once.                                                                   *)
(* - However an execution of a human node ends, its callback is gone and   *)
(* its wait is no longer counted.                                          *)
HumanWaitsBounded ==
    /\ part = "humannode" => /\ GA!HumanTypeOK
                             /\ GA!DeliveryNeverBlocks
                             /\ GA!WaitsBounded
                             /\ GA!NothingLeftBehind

=============================================================================

--------------------------- MODULE MCControlPlane ---------------------------
(***************************************************************************)
(* The dispatch of a job by one scheduler, the choice of a node, and the   *)
(* resilience and coordination packages (src/pkg/resilience,               *)
(* src/pkg/coordination), each component on its own: a behaviour picks a   *)
(* component and follows its specification.                                *)
(***************************************************************************)
EXTENDS Naturals, FiniteSets, Sequences, TLC

CONSTANTS Peers, c1, c2, c3, n1, n2

(* Two callers on one node, one on the other. *)
Home == (c1 :> n1) @@ (c2 :> n1) @@ (c3 :> n2)

Symmetry == Permutations(Peers)

VARIABLES
    part,   \* the component this behaviour is about
    v1, v2, v3, v4, v5, v6, v7, v8, v9, v10, v11, v12, v13, v14, v15, v16, v17, v18, v19  \* its variables; those it does not have stay 0

vars == <<part, v1, v2, v3, v4, v5, v6, v7, v8, v9, v10, v11, v12, v13, v14, v15, v16, v17, v18, v19>>

DI == INSTANCE Dispatch
    WITH Schedulers <- {"s"}, NumTasks <- 2, StageOf <- <<1, 1>>, NumStages <- 1,
         MaxDispatchAttempts <- 1, MaxEpoch <- 1, MaxCrashes <- 0, MaxFaults <- 0, MaxResumes <- 0,
         MaxReplays <- 0, log <- v1, order <- v2, jobRow <- v3, taskRow <- v4, reign <- v5,
         held <- v6, net <- v7, execs <- v8, up <- v9, mem <- v10, grown <- v11, queued <- v12,
         run <- v13, gor <- v14, recon <- v15, faults <- v16, crashes <- v17, resumes <- v18,
         replays <- v19

SR == INSTANCE SelectionRows
    WITH NoNode <- 0, MaxNodes <- 3, MaxOver <- 2, MaxAvail <- 2, MaxPicks <- 4, nodes <- v1,
         avail <- v2, fresh <- v3, cooling <- v4, nodeIndex <- v5, picks <- v6

GA == INSTANCE Gates
    WITH Callers <- Peers, FailureThreshold <- 2, SuccessThreshold <- 2, HalfOpenMaxRequests <- 1,
         MaxEras <- 4, Executions <- {"a", "b", "c"}, Deliverers <- {"d", "e"},
         MaxConcurrentWaits <- 2, MaxAnswers <- 2, registered <- v1, breakers <- v2, caller <- v3,
         pc <- v1, waits <- v2, callbacks <- v3, respChan <- v4, lock <- v5, target <- v6,
         answered <- v7, pending <- v8, out <- v9

RE == INSTANCE Resilience
    WITH Callers <- {c1, c2}, Rate <- 1, Burst <- 2, WindowRate <- 2, Window <- 1, MaxN <- 2,
         MaxTime <- 2, MaxRemovals <- 1, InitialDelay <- 10, MaxDelay <- 50, Multiplier <- 2,
         Jitter <- 10, MaxRetries <- 4, MaxAttempts <- 5, kind <- v1, now <- v2, limiter <- v3,
         buckets <- v4, caller <- v5, timestamps <- v6, leaky <- v7, granted <- v8, removals <- v9,
         retrierPc <- v1, attempt <- v2, calls <- v3, delay <- v4, slept <- v5, outcome <- v6

EC == INSTANCE EtcdCounters
    WITH Sessions <- {n1, n2}, Callers <- {c1, c2, c3}, SessionOf <- Home, Size <- 2, MaxPuts <- 5,
         Waiters <- Peers, Count <- 2, Generations <- 1 .. 2, permits <- v1, revision <- v2,
         semLease <- v3, pc <- v4, seen <- v5, permitKey <- v6, target <- v7, generation <- v1,
         made <- v2, participants <- v3, released <- v4, barrierLease <- v5, waiter <- v6,
         joined <- v7

EQ == INSTANCE EtcdQueues
    WITH MutexNodes <- {n1, n2}, Callers <- {c1, c2, c3}, NodeOf <- Home, MaxLocks <- 2,
         ElectNodes <- Peers, Schedulers <- {"a", "b"}, Requests <- {"r1", "r2"}, MaxRevision <- 3,
         locked <- v1, closed <- v2, mutexQueue <- v3, lease <- v4, pc <- v5, waitCh <- v6,
         locks <- v7, electQueue <- v1, session <- v2, loop <- v3, electIsLeader <- v4, stop <- v5,
         task <- v6, revision <- v1, key <- v2, fenceIsLeader <- v3, request <- v4,
         lastEpoch <- v5, inFlight <- v6

Init ==
    \/ part = "dispatch" /\ DI!Init
    \/ part = "selection" /\ SR!Init /\ v7 = 0 /\ v8 = 0 /\ v9 = 0 /\ v10 = 0 /\ v11 = 0 /\ v12 = 0 /\ v13 = 0 /\ v14 = 0 /\ v15 = 0 /\ v16 = 0 /\ v17 = 0 /\ v18 = 0 /\ v19 = 0
    \/ part = "breaker" /\ GA!BreakerInit /\ v4 = 0 /\ v5 = 0 /\ v6 = 0 /\ v7 = 0 /\ v8 = 0 /\ v9 = 0 /\ v10 = 0 /\ v11 = 0 /\ v12 = 0 /\ v13 = 0 /\ v14 = 0 /\ v15 = 0 /\ v16 = 0 /\ v17 = 0 /\ v18 = 0 /\ v19 = 0
    \/ part = "limiter" /\ RE!LimiterInit /\ v10 = 0 /\ v11 = 0 /\ v12 = 0 /\ v13 = 0 /\ v14 = 0 /\ v15 = 0 /\ v16 = 0 /\ v17 = 0 /\ v18 = 0 /\ v19 = 0
    \/ part = "retrier" /\ RE!RetrierInit /\ v7 = 0 /\ v8 = 0 /\ v9 = 0 /\ v10 = 0 /\ v11 = 0 /\ v12 = 0 /\ v13 = 0 /\ v14 = 0 /\ v15 = 0 /\ v16 = 0 /\ v17 = 0 /\ v18 = 0 /\ v19 = 0
    \/ part = "barrier" /\ EC!BarrierInit /\ v8 = 0 /\ v9 = 0 /\ v10 = 0 /\ v11 = 0 /\ v12 = 0 /\ v13 = 0 /\ v14 = 0 /\ v15 = 0 /\ v16 = 0 /\ v17 = 0 /\ v18 = 0 /\ v19 = 0
    \/ part = "mutex" /\ EQ!MutexInit /\ v8 = 0 /\ v9 = 0 /\ v10 = 0 /\ v11 = 0 /\ v12 = 0 /\ v13 = 0 /\ v14 = 0 /\ v15 = 0 /\ v16 = 0 /\ v17 = 0 /\ v18 = 0 /\ v19 = 0
    \/ part = "semaphore" /\ EC!SemInit /\ v8 = 0 /\ v9 = 0 /\ v10 = 0 /\ v11 = 0 /\ v12 = 0 /\ v13 = 0 /\ v14 = 0 /\ v15 = 0 /\ v16 = 0 /\ v17 = 0 /\ v18 = 0 /\ v19 = 0
    \/ part = "election" /\ EQ!ElectInit /\ v7 = 0 /\ v8 = 0 /\ v9 = 0 /\ v10 = 0 /\ v11 = 0 /\ v12 = 0 /\ v13 = 0 /\ v14 = 0 /\ v15 = 0 /\ v16 = 0 /\ v17 = 0 /\ v18 = 0 /\ v19 = 0

Next ==
    \/ part = "dispatch" /\ DI!Next /\ UNCHANGED <<part>>
    \/ part = "selection" /\ SR!Next /\ UNCHANGED <<part, v7, v8, v9, v10, v11, v12, v13, v14, v15, v16, v17, v18, v19>>
    \/ part = "breaker" /\ GA!BreakerNext /\ UNCHANGED <<part, v4, v5, v6, v7, v8, v9, v10, v11, v12, v13, v14, v15, v16, v17, v18, v19>>
    \/ part = "limiter" /\ RE!LimiterNext /\ UNCHANGED <<part, v10, v11, v12, v13, v14, v15, v16, v17, v18, v19>>
    \/ part = "retrier" /\ RE!RetrierNext /\ UNCHANGED <<part, v7, v8, v9, v10, v11, v12, v13, v14, v15, v16, v17, v18, v19>>
    \/ part = "barrier" /\ EC!BarrierNext /\ UNCHANGED <<part, v8, v9, v10, v11, v12, v13, v14, v15, v16, v17, v18, v19>>
    \/ part = "mutex" /\ EQ!MutexNext /\ UNCHANGED <<part, v8, v9, v10, v11, v12, v13, v14, v15, v16, v17, v18, v19>>
    \/ part = "semaphore" /\ EC!SemNext /\ UNCHANGED <<part, v8, v9, v10, v11, v12, v13, v14, v15, v16, v17, v18, v19>>
    \/ part = "election" /\ EQ!ElectNext /\ UNCHANGED <<part, v7, v8, v9, v10, v11, v12, v13, v14, v15, v16, v17, v18, v19>>

Spec == Init /\ [][Next]_vars

-----------------------------------------------------------------------------
(* The log of a job that one scheduler runs, two tasks of one stage at a   *)
(* time, is a legal history and justifies its outcome.                     *)
(* - The log always replays: with one scheduler, whatever its run loop,    *)
(* task goroutines and reconcile loop do in which order,                   *)
(* replayJobStateFromData rejects no prefix of it.                         *)
(* - JOB_SUCCEEDED is recorded only when every task has a TASK_SUCCEEDED   *)
(* record before it.                                                       *)
LogSound ==
    /\ part = "dispatch" => DI!LogReplays
    /\ part = "dispatch" => DI!SuccessJustified

(* selectNodeByCapacity chooses as it says, whatever the reports,          *)
(* cooldowns and earlier picks.                                            *)
(* - selectNodeByCapacity picks a node with the most free slots among the  *)
(* fresh ones, none if they are full, and a stale one only when no node is *)
(* fresh, while no node is over-committed by more than one slot.           *)
(* - selectNodeByCapacity picks only a node out of cooldown with a free    *)
(* slot, and a stale one never while a fresh one has a free slot, over-    *)
(* committed nodes included.                                               *)
(* - The round-robin counter spreads a row of selections over the nodes    *)
(* that tie for the most free slots: their counts differ by at most one.   *)
NodeChoice == part = "selection" => SR!SelectionPrecedence /\ SR!NeverPicksFull /\ SR!TiesShareWork

(* Breakers, limiters and the retrier keep their limits, however their     *)
(* callers interleave.                                                     *)
(* - A half-open breaker never has more than HalfOpenMaxRequests + 1       *)
(* requests admitted in one half-open period: beforeRequest counts what it *)
(* admits, all but the request that finds the breaker due for half-open.   *)
(* - A half-open breaker always has a way out: requests that are admitted  *)
(* or still to be admitted can reach SuccessThreshold, or fail and open    *)
(* it.                                                                     *)
(* - GetWithConfig hands every caller the same breaker of a name. *)
(* - TokenBucket, reached through PerKeyRateLimiter: between any two       *)
(* instants d ticks apart a key is granted at most Burst + Rate * d, and   *)
(* as much again for every Remove of the key, since callers that hold the  *)
(* removed bucket go on drawing on it.                                     *)
(* - SlidingWindowLimiter grants at most its rate in any window. *)
(* - LeakyBucket grants at most its capacity plus what has leaked. *)
(* - Retrier.Do: a RetryError says MaxRetries + 1 attempts, and so many    *)
(* were made.                                                              *)
(* - Retrier.Do: a delay, its jitter aside, is never shorter than the one  *)
(* before, and exceeds MaxDelay by at most the jitter.                     *)
LimitsHold ==
    /\ [](/\ part = "breaker" => /\ GA!BreakerTypeOK
                                 /\ GA!HalfOpenBounded
                                 /\ GA!NeverStuckHalfOpen
                                 /\ GA!OneBreaker
          /\ part = "limiter" => /\ RE!LimiterTypeOK
                                 /\ RE!BucketWithinRate
                                 /\ RE!WindowWithinRate
                                 /\ RE!LeakyWithinRate
          /\ part = "retrier" => RE!RetrierTypeOK /\ RE!ExhaustedAfterAll)
    /\ [][part = "retrier" => RE!DelayStep]_vars

(* DistributedBarrier implements its contract: Wait returns nil only in a  *)
(* generation that Count calls joined, whatever leases expire, requests    *)
(* fail or Reset deletes.                                                  *)
BarrierImplements ==
    /\ part = "barrier" => EC!Contract!Init
    /\ [][part = "barrier" => [EC!Contract!Next]_<<v7, EC!through>>]_vars

(* The etcd mutex, semaphore and elector let in no more holders than they  *)
(* should and lose no waiter, whatever leases expire and requests fail.    *)
(* - DistributedMutex: at most one caller of all nodes is past Lock with   *)
(* its session alive and has not begun to unlock.                          *)
(* - DistributedMutex: a waiting caller's channel is closed, or its node's *)
(* slot has an owner that will close it.                                   *)
(* - DistributedSemaphore: callers past Acquire with a live session are at *)
(* most Size, whichever key of the session each Release deletes.           *)
(* - DistributedSemaphore: a caller that watches while its key is in the   *)
(* first Size places has been told of a change.                            *)
(* - LeaderElector: a node that believes to lead, its session alive and no *)
(* Stop begun, owns the oldest election key.                               *)
LocksExclude ==
    /\ part = "mutex" => EQ!MutexTypeOK /\ EQ!MutualExclusion /\ EQ!NoLostWakeup
    /\ part = "semaphore" => EC!SemTypeOK /\ EC!AtMostSize /\ EC!NoMissedChange
    /\ part = "election" => EQ!ElectTypeOK /\ EQ!LeaderHoldsKey

=============================================================================

----------------------------- MODULE MCLiveness -----------------------------
(***************************************************************************)
(* Liveness: a job, a stage of the scheduler, the resumption workers, the  *)
(* distributed mutex, the elector, the event loop, the LLM flow and the    *)
(* merging iterator, each under the fairness its goroutines, timers and    *)
(* calls with deadlines justify.                                           *)
(***************************************************************************)
EXTENDS Naturals, FiniteSets, Sequences, TLC

VARIABLES
    part,   \* the component this behaviour is about
    v1, v2, v3, v4, v5, v6, v7, v8, v9, v10, v11, v12, v13, v14, v15, v16, v17, v18, v19  \* its variables; those it does not have stay 0

vars == <<part, v1, v2, v3, v4, v5, v6, v7, v8, v9, v10, v11, v12, v13, v14, v15, v16, v17, v18, v19>>

DI == INSTANCE Dispatch
    WITH Schedulers <- {"s1"}, NumTasks <- 1, StageOf <- <<1>>, NumStages <- 1,
         MaxDispatchAttempts <- 2, MaxEpoch <- 2, MaxCrashes <- 0, MaxFaults <- 0, MaxResumes <- 0,
         MaxReplays <- 0, log <- v1, order <- v2, jobRow <- v3, taskRow <- v4, reign <- v5,
         held <- v6, net <- v7, execs <- v8, up <- v9, mem <- v10, grown <- v11, queued <- v12,
         run <- v13, gor <- v14, recon <- v15, faults <- v16, crashes <- v17, resumes <- v18,
         replays <- v19

PL == INSTANCE Placement
    WITH Nodes <- {"n1", "n2"}, NumTasks <- 2, Keys <- {"k"}, NoKey <- "nokey", NoNode <- "nonode",
         Key <- <<"k", "nokey">>, DefaultMax <- 1, MaxCap <- 2, WorkerMax <- 2,
         MaxDispatchAttempts <- 2, Deferral <- TRUE, MaxReports <- 0, MaxTroubles <- 0,
         healthy <- v1, known <- v2, cap <- v3, cooldown <- v4, affinity <- v5, stage <- v6,
         task <- v7, inFlight <- v8, sent <- v9, reports <- v10, troubles <- v11, refused <- v12

FL == INSTANCE Placement
    WITH Nodes <- {"n1", "n2"}, NumTasks <- 1, Keys <- {"k"}, NoKey <- "nokey", NoNode <- "nonode",
         Key <- <<"k">>, DefaultMax <- 1, MaxCap <- 2, WorkerMax <- 2, MaxDispatchAttempts <- 2,
         Deferral <- TRUE, MaxReports <- 0, MaxTroubles <- 1, healthy <- v1, known <- v2,
         cap <- v3, cooldown <- v4, affinity <- v5, stage <- v6, task <- v7, inFlight <- v8,
         sent <- v9, reports <- v10, troubles <- v11, refused <- v12

RS == INSTANCE Resumption
    WITH Callbacks <- {"c"}, Workers <- {"v", "w"}, MaxResumptionAttempts <- 1, MaxRequests <- 2,
         MaxFaults <- 0, MaxSlow <- 1, MaxCrashes <- 1, MaxExpiries <- 1, ckpt <- v1, issued <- v2,
         fresh <- v3, done <- v4, lock <- v5, stream <- v6, callback <- v7, worker <- v8,
         resumed <- v9, ended <- v10, faults <- v11, slow <- v12, crashes <- v13, expiries <- v14

EQ == INSTANCE EtcdQueues
    WITH MutexNodes <- {"n1"}, Callers <- {"c1", "c2"}, NodeOf <- [c \in {"c1", "c2"} |-> "n1"],
         MaxLocks <- 2, ElectNodes <- {"n1", "n2"}, Schedulers <- {"a", "b"},
         Requests <- {"r1", "r2"}, MaxRevision <- 3, locked <- v1, closed <- v2, mutexQueue <- v3,
         lease <- v4, pc <- v5, waitCh <- v6, locks <- v7, electQueue <- v1, session <- v2,
         loop <- v3, electIsLeader <- v4, stop <- v5, task <- v6, revision <- v1, key <- v2,
         fenceIsLeader <- v3, request <- v4, lastEpoch <- v5, inFlight <- v6

AR == INSTANCE AgentRuntime
    WITH Agents <- 1 .. 2, LoopMaxSteps <- 2, MaxPerStep <- 1, FlowMaxSteps <- 2, MaxLLMCalls <- 0,
         MaxStream <- 1, MaxFn <- 1, mode <- v1, sync <- v2, loopCancelled <- v3, agent <- v4,
         held <- v5, parent <- v6, runner <- v7, state <- v8, session <- v9, forwarded <- v10,
         conf <- v1, flowCancelled <- v2, endInvocation <- v3, loop <- v4, stepper <- v5,
         caller <- v6, calls <- v7, generated <- v8

RI == INSTANCE RunIterators
    WITH Agents <- 2, MaxSteps <- 2, MaxIterations <- 2, IterMaxEvents <- 3, Branches <- {1, 2, 3},
         MergeMaxEvents <- 2, Keys <- {"k"}, Values <- {1, 2}, StreamMaxEvents <- 2, MaxSets <- 1,
         Buffer <- 1, BatchSize <- 2, shape <- v1, at <- v2, event <- v3, yielded <- v4,
         committed <- v5, after <- v6, branch <- v1, loop <- v2, completed <- v3, cancelled <- v4,
         done <- v5, mode <- v1, pc <- v2, history <- v3, deltas <- v4, state <- v5, latest <- v6,
         sets <- v7, next <- v8, last <- v9, output <- v10, sent <- v11, batch <- v12,
         batches <- v13

Init ==
    \/ part = "dispatch" /\ DI!Init
    \/ part = "stage" /\ PL!Init /\ v13 = 0 /\ v14 = 0 /\ v15 = 0 /\ v16 = 0 /\ v17 = 0 /\ v18 = 0 /\ v19 = 0
    \/ part = "flapping" /\ FL!Init /\ v13 = 0 /\ v14 = 0 /\ v15 = 0 /\ v16 = 0 /\ v17 = 0 /\ v18 = 0 /\ v19 = 0
    \/ part = "resume" /\ RS!Init /\ v15 = 0 /\ v16 = 0 /\ v17 = 0 /\ v18 = 0 /\ v19 = 0
    \/ part = "mutex" /\ EQ!MutexInit /\ v8 = 0 /\ v9 = 0 /\ v10 = 0 /\ v11 = 0 /\ v12 = 0 /\ v13 = 0 /\ v14 = 0 /\ v15 = 0 /\ v16 = 0 /\ v17 = 0 /\ v18 = 0 /\ v19 = 0
    \/ part = "election" /\ EQ!ElectInit /\ v7 = 0 /\ v8 = 0 /\ v9 = 0 /\ v10 = 0 /\ v11 = 0 /\ v12 = 0 /\ v13 = 0 /\ v14 = 0 /\ v15 = 0 /\ v16 = 0 /\ v17 = 0 /\ v18 = 0 /\ v19 = 0
    \/ part = "eventloop" /\ AR!LoopInit /\ v11 = 0 /\ v12 = 0 /\ v13 = 0 /\ v14 = 0 /\ v15 = 0 /\ v16 = 0 /\ v17 = 0 /\ v18 = 0 /\ v19 = 0
    \/ part = "llmflow" /\ AR!FlowInit /\ v9 = 0 /\ v10 = 0 /\ v11 = 0 /\ v12 = 0 /\ v13 = 0 /\ v14 = 0 /\ v15 = 0 /\ v16 = 0 /\ v17 = 0 /\ v18 = 0 /\ v19 = 0
    \/ part = "pariter" /\ RI!MergeInit /\ v6 = 0 /\ v7 = 0 /\ v8 = 0 /\ v9 = 0 /\ v10 = 0 /\ v11 = 0 /\ v12 = 0 /\ v13 = 0 /\ v14 = 0 /\ v15 = 0 /\ v16 = 0 /\ v17 = 0 /\ v18 = 0 /\ v19 = 0

Next ==
    \/ part = "dispatch" /\ DI!Next /\ UNCHANGED <<part>>
    \/ part = "stage" /\ PL!Next /\ UNCHANGED <<part, v13, v14, v15, v16, v17, v18, v19>>
    \/ part = "flapping" /\ FL!Next /\ UNCHANGED <<part, v13, v14, v15, v16, v17, v18, v19>>
    \/ part = "resume" /\ RS!Next /\ UNCHANGED <<part, v15, v16, v17, v18, v19>>
    \/ part = "mutex" /\ EQ!MutexNext /\ UNCHANGED <<part, v8, v9, v10, v11, v12, v13, v14, v15, v16, v17, v18, v19>>
    \/ part = "election" /\ EQ!ElectNext /\ UNCHANGED <<part, v7, v8, v9, v10, v11, v12, v13, v14, v15, v16, v17, v18, v19>>
    \/ part = "eventloop" /\ AR!LoopNext /\ UNCHANGED <<part, v11, v12, v13, v14, v15, v16, v17, v18, v19>>
    \/ part = "llmflow" /\ AR!FlowNext /\ UNCHANGED <<part, v9, v10, v11, v12, v13, v14, v15, v16, v17, v18, v19>>
    \/ part = "pariter" /\ RI!MergeNext /\ UNCHANGED <<part, v6, v7, v8, v9, v10, v11, v12, v13, v14, v15, v16, v17, v18, v19>>

Spec == Init /\ [][Next]_vars

(* Fairness. Only one component is at work in a behaviour, so fairness of  *)
(* its first, second ... process, and of what must succeed when tried      *)
(* again and again, is fairness of the disjunction over the components.    *)
Process1 ==
    \/ part = "dispatch" /\ DI!RunLoop("s1") /\ UNCHANGED <<part>>
    \/ part = "stage" /\ PL!RunLoop /\ UNCHANGED <<part, v13, v14, v15, v16, v17, v18, v19>>
    \/ part = "flapping" /\ FL!RunLoop /\ UNCHANGED <<part, v13, v14, v15, v16, v17, v18, v19>>
    \/ part = "resume" /\ RS!Work("v") /\ UNCHANGED <<part, v15, v16, v17, v18, v19>>
    \/ part = "mutex" /\ EQ!Goroutine("c1") /\ UNCHANGED <<part, v8, v9, v10, v11, v12, v13, v14, v15, v16, v17, v18, v19>>
    \/ part = "election" /\ EQ!LoopStep("n1") /\ UNCHANGED <<part, v7, v8, v9, v10, v11, v12, v13, v14, v15, v16, v17, v18, v19>>
    \/ part = "eventloop" /\ AR!Producers /\ UNCHANGED <<part, v11, v12, v13, v14, v15, v16, v17, v18, v19>>
    \/ part = "llmflow" /\ AR!Steps /\ UNCHANGED <<part, v9, v10, v11, v12, v13, v14, v15, v16, v17, v18, v19>>
    \/ part = "pariter" /\ RI!Branch(1) /\ UNCHANGED <<part, v6, v7, v8, v9, v10, v11, v12, v13, v14, v15, v16, v17, v18, v19>>

Process2 ==
    \/ part = "dispatch" /\ DI!Reconcile("s1") /\ UNCHANGED <<part>>
    \/ part = "stage" /\ PL!Prompt(1) /\ UNCHANGED <<part, v13, v14, v15, v16, v17, v18, v19>>
    \/ part = "flapping" /\ FL!Prompt(1) /\ UNCHANGED <<part, v13, v14, v15, v16, v17, v18, v19>>
    \/ part = "resume" /\ RS!Work("w") /\ UNCHANGED <<part, v15, v16, v17, v18, v19>>
    \/ part = "mutex" /\ EQ!Goroutine("c2") /\ UNCHANGED <<part, v8, v9, v10, v11, v12, v13, v14, v15, v16, v17, v18, v19>>
    \/ part = "election" /\ EQ!LoopStep("n2") /\ UNCHANGED <<part, v7, v8, v9, v10, v11, v12, v13, v14, v15, v16, v17, v18, v19>>
    \/ part = "eventloop" /\ AR!Runner /\ UNCHANGED <<part, v11, v12, v13, v14, v15, v16, v17, v18, v19>>
    \/ part = "llmflow" /\ AR!Model /\ UNCHANGED <<part, v9, v10, v11, v12, v13, v14, v15, v16, v17, v18, v19>>
    \/ part = "pariter" /\ RI!Branch(2) /\ UNCHANGED <<part, v6, v7, v8, v9, v10, v11, v12, v13, v14, v15, v16, v17, v18, v19>>

Process3 ==
    \/ part = "dispatch" /\ DI!Prompt("s1", 1) /\ UNCHANGED <<part>>
    \/ part = "stage" /\ PL!Prompt(2) /\ UNCHANGED <<part, v13, v14, v15, v16, v17, v18, v19>>
    \/ part = "election" /\ EQ!Stops("n1") /\ UNCHANGED <<part, v7, v8, v9, v10, v11, v12, v13, v14, v15, v16, v17, v18, v19>>
    \/ part = "pariter" /\ RI!Branch(3) /\ UNCHANGED <<part, v6, v7, v8, v9, v10, v11, v12, v13, v14, v15, v16, v17, v18, v19>>

Process4 ==
    \/ part = "dispatch" /\ DI!Elect("s1") /\ UNCHANGED <<part>>
    \/ part = "election" /\ EQ!Stops("n2") /\ UNCHANGED <<part, v7, v8, v9, v10, v11, v12, v13, v14, v15, v16, v17, v18, v19>>
    \/ part = "pariter" /\ RI!Loop /\ UNCHANGED <<part, v6, v7, v8, v9, v10, v11, v12, v13, v14, v15, v16, v17, v18, v19>>

Retry1 ==
    \/ part = "dispatch" /\ DI!ReconcileFail("s1") /\ UNCHANGED <<part>>
    \/ part = "stage" /\ PL!DeferralTimeout /\ UNCHANGED <<part, v13, v14, v15, v16, v17, v18, v19>>
    \/ part = "flapping" /\ FL!DeferralTimeout /\ UNCHANGED <<part, v13, v14, v15, v16, v17, v18, v19>>
    \/ part = "election" /\ EQ!Wins("n1") /\ UNCHANGED <<part, v7, v8, v9, v10, v11, v12, v13, v14, v15, v16, v17, v18, v19>>

Retry2 ==
    \/ part = "election" /\ EQ!Wins("n2") /\ UNCHANGED <<part, v7, v8, v9, v10, v11, v12, v13, v14, v15, v16, v17, v18, v19>>

LiveSpec ==
    /\ Spec
    /\ WF_vars(Process1) /\ WF_vars(Process2) /\ WF_vars(Process3) /\ WF_vars(Process4)
    /\ SF_vars(Retry1) /\ SF_vars(Retry2)

-----------------------------------------------------------------------------
(* Scheduler: once leadership is stable, the log records an outcome for    *)
(* the job or its pause for a human: what a deposed leader, a lost race or *)
(* a call to a node that never returns left behind is failed or finished   *)
(* by the reconcile loop.                                                  *)
EventuallySettled ==
    <>[](part = "dispatch" /\ DI!IsLeader("s1")) => <>(part = "dispatch" /\ DI!Settled)

(* What the control plane has begun comes to an end. *)
(* - Scheduler: capacity conflicts, cooldowns, deferral and nodes that     *)
(* come and go do not keep a stage alive: executeStage returns, whatever   *)
(* the workers answer (two tasks, or one task and a node that goes down),  *)
(* provided no dial of a worker blocks for ever.                           *)
(* - Resumption workers: a response that was enqueued leads to an end of   *)
(* its checkpoint, by success, by a nested pause or by the dead-letter     *)
(* table after a bounded number of retries, if no store write is lost.     *)
(* - DistributedMutex: if the other caller does not keep the slot for      *)
(* ever, a caller that waits for it gets its turn or gives up: every other *)
(* way out of Lock frees the slot and wakes the waiter (the other caller   *)
(* locks finitely often; nothing prevents it from overtaking).             *)
(* - LeaderElector: a leader whose session expired steps down. *)
(* - LeaderElector: while a node with a live session keeps running, the    *)
(* leadership is taken again after every resignation, failure or expiry.   *)
ControlPlaneProgress ==
    /\ (\A t \in 1..2 : []<>~((part = "stage" /\ PL!Dialling(t)) \/ (t = 1 /\ part = "flapping" /\ FL!Dialling(t))))
         => (part \in {"stage", "flapping"} ~> (part = "stage" /\ PL!Ended) \/ (part = "flapping" /\ FL!Ended))
    /\ \A r \in 1..2 : (part = "resume" /\ RS!Accepted(r)) ~> (part = "resume" /\ RS!Settled(r))
    /\ ([]<>~(part = "mutex" /\ EQ!HasSlot("c2"))) => ((part = "mutex" /\ EQ!Waiting("c1")) ~> (part = "mutex" /\ ~EQ!Waiting("c1")))
    /\ (part = "election" /\ EQ!Deposed("n1")) ~> (part = "election" /\ ~EQ!Believes("n1"))
    /\ <>[](part = "election" /\ EQ!Running("n1")) => []<>(part = "election" /\ \E m \in {"n1", "n2"} : EQ!Believes(m))

(* A stream of events is closed, and the branches behind it end. *)
(* - AsyncAgentRuntime and SyncAgentRuntime: the caller's channel is       *)
(* closed in the end, whatever the steps yield, for the step loop is       *)
(* bounded.                                                                *)
(* - LlmFlow: the stream of events is closed in the end, whatever the      *)
(* model, the callbacks and the tools do.                                  *)
(* - Once the merging loop has returned no branch stays blocked on the     *)
(* channel (iterators.go:509-525).                                         *)
StreamsEnd ==
    /\ part = "eventloop" ~> (part = "eventloop" /\ AR!LoopClosed)
    /\ part = "llmflow" ~> (part = "llmflow" /\ AR!FlowClosed)
    /\ (part = "pariter" /\ RI!Returned) ~> (part = "pariter" /\ RI!AllEnded)

=============================================================================

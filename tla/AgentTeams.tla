----------------------------- MODULE AgentTeams -----------------------------
(***************************************************************************)
(* Agents made of agents: parallel, map-reduce and fan-out, sequence and   *)
(* loop, router, load balancer and cluster balancer (src/pkg/agents).      *)
(***************************************************************************)
EXTENDS Naturals, Sequences, FiniteSets

-----------------------------------------------------------------------------
(* AgentFanOut                                                             *)
(* The agents that run several agents at once: ParallelAgent (all its children,  *)
(* or the first that succeeds), MapReduceAgent and FanOutAgent.  One call of the *)
(* executor: it splits its input, launches one goroutine per child, waits for    *)
(* them and decides.  What a child answers is any of success and failure.        *)

CONSTANTS N,            \* children of the parallel agent, workers of the fan-out
          Par,          \* parallelism of the map-reduce and fan-out agents
          MaxItems      \* longest input list that is split

VARIABLES fanCfg,       \* [pattern, failFast, min, collect]: the agent's settings
          splits,       \* sequence of the sets of items given to each child
          child,        \* [Kids -> goroutine state]
          res,          \* [Kids -> "none" | "ok" | "err"]: what the child returned
          okq, errq,    \* children whose value waits in the result, error channel
          ctx,          \* "live" | "cancelled" (cancel() was called) | "expired"
          got, failed,  \* children the executor has heard of
          fanPc, fanOut

fanVars == <<fanCfg, splits, child, res, okq, errq, ctx, got, failed, fanPc, fanOut>>

(* One per worker or child agent; a map-reduce has one per split. *)
Kids == 1..(IF N < MaxItems THEN MaxItems ELSE N)
Patterns == {"all", "first", "map", "fan"}

(* ListSplitter: chunks of `size` consecutive items of a list of n.              *)
(* Mutant: the bound of a chunk is included in the next one. *)
ListSplitter_Overlap(n, size) ==
  [i \in 1..((n + size - 1) \div size) |-> {k \in 1..n : (i - 1) * size <= k /\ k <= i * size}]

ListSplitter(n, size) ==
  [i \in 1..((n + size - 1) \div size) |-> {k \in 1..n : (i - 1) * size < k /\ k <= i * size}]

(* FixedCountSplitter: the chunk size is the integer quotient, at least one. *)
FixedCountSplitter(n, count) ==
  ListSplitter(n, IF n \div count = 0 THEN 1 ELSE n \div count)

Settings == [pattern : Patterns, failFast : BOOLEAN, min : 0..N, collect : BOOLEAN]

Relevant(c) == /\ c.pattern # "all" => (~c.failFast /\ c.min = 0)
               /\ c.pattern # "map" => ~c.collect

(* ParallelAgent gives every child the whole input; the others split it, and a   *)
(* fan-out refuses more splits than workers, a map-reduce refuses none.          *)
FanInit ==
  /\ fanCfg \in {c \in Settings : Relevant(c)}
  /\ \E n \in 0..MaxItems, count \in 1..N :
       splits = IF fanCfg.pattern \in {"all", "first"} THEN [i \in 1..N |-> 1..MaxItems]
                ELSE FixedCountSplitter(n, count)
  /\ child = [c \in Kids |-> "idle"]
  /\ res = [c \in Kids |-> "none"]
  /\ okq = {} /\ errq = {}
  /\ ctx = "live"
  /\ got = {} /\ failed = {}
  /\ fanPc = "start"
  /\ fanOut = "none"

Launched == {c \in Kids : child[c] # "idle"}
FanWidth == Cardinality(DOMAIN splits)
Required == IF fanCfg.min = 0 THEN N ELSE fanCfg.min

(* The deferred cancel() of every executor. *)
Return(o) ==
  /\ fanOut' = o
  /\ fanPc' = "returned"
  /\ ctx' = IF ctx = "live" THEN "cancelled" ELSE ctx

Split ==
  /\ fanPc = "start"
  /\ \/ /\ fanCfg.pattern = "map" /\ splits = <<>> /\ Return("failed")
     \/ /\ fanCfg.pattern = "fan" /\ FanWidth > N /\ Return("failed")
     \/ /\ fanCfg.pattern = "map" => splits # <<>>
        /\ fanCfg.pattern = "fan" => FanWidth <= N
        /\ fanPc' = "launching" /\ UNCHANGED <<ctx, fanOut>>
  /\ UNCHANGED <<fanCfg, splits, child, res, okq, errq, got, failed>>

(* Holders of the parallelism semaphore; the parallel agent has none. *)
Holding == {c \in Kids : child[c] \in {"running", "sending"}}
HasRoom_Late == fanCfg.pattern \in {"all", "first"} \/ Cardinality(Holding) <= Par
HasRoom == fanCfg.pattern \in {"all", "first"} \/ Cardinality(Holding) < Par

(* The launch loop waits for the semaphore and looks at no context meanwhile. *)
Launch ==
  /\ fanPc = "launching"
  /\ LET next == Cardinality(Launched) + 1 IN
       IF next > FanWidth
       THEN fanPc' = "waiting" /\ UNCHANGED child
       ELSE HasRoom /\ child' = [child EXCEPT ![next] = "running"] /\ UNCHANGED fanPc
  /\ UNCHANGED <<fanCfg, splits, res, okq, errq, ctx, got, failed, fanOut>>

(* What a child's goroutine does when its agent returned r. *)
ChildReturns(c, r) ==
  /\ child[c] = "running"
  /\ res' = [res EXCEPT ![c] = r]
  /\ child' = [child EXCEPT ![c] = IF fanCfg.pattern = "all" THEN "done" ELSE "sending"]
  /\ IF fanCfg.pattern = "all" /\ r = "err" /\ fanCfg.failFast
     THEN /\ errq' = IF errq = {} THEN {c} ELSE errq
          /\ ctx' = IF ctx = "live" THEN "cancelled" ELSE ctx
     ELSE UNCHANGED <<errq, ctx>>
  /\ UNCHANGED <<fanCfg, splits, okq, got, failed, fanPc, fanOut>>

(* Capacity of the channel the child sends on: the first successful result is    *)
(* sent without blocking, every other channel holds one value per child.         *)
(* Mutant: the channels hold one value. *)
Capacity_One == 1
Capacity == IF fanCfg.pattern \in {"all", "first"} THEN N ELSE FanWidth

CanSend(c) ==
  \/ fanCfg.pattern = "first" /\ res[c] = "ok"
  \/ Cardinality(IF fanCfg.pattern # "fan" /\ res[c] = "err" THEN errq ELSE okq) < Capacity

Send(c) ==
  /\ child[c] = "sending"
  /\ CanSend(c)
  /\ child' = [child EXCEPT ![c] = "done"]
  /\ CASE fanCfg.pattern = "fan" -> okq' = okq \cup {c} /\ UNCHANGED <<errq, ctx>>
       [] fanCfg.pattern # "fan" /\ res[c] = "err" -> errq' = errq \cup {c} /\ UNCHANGED <<okq, ctx>>
       [] fanCfg.pattern = "map" /\ res[c] = "ok" -> okq' = okq \cup {c} /\ UNCHANGED <<errq, ctx>>
       [] fanCfg.pattern = "first" /\ res[c] = "ok" ->
            /\ UNCHANGED errq
            /\ IF okq = {}
               THEN okq' = {c} /\ ctx' = IF ctx = "live" THEN "cancelled" ELSE ctx
               ELSE UNCHANGED <<okq, ctx>>
  /\ UNCHANGED <<fanCfg, splits, res, got, failed, fanPc, fanOut>>

Timeout ==
  /\ ctx = "live"
  /\ fanPc # "returned"
  /\ ctx' = "expired"
  /\ UNCHANGED <<fanCfg, splits, child, res, okq, errq, got, failed, fanPc, fanOut>>

Succeeded == {c \in Kids : res[c] = "ok"}

(* aggregateResults over the successful children: only an unknown type and the   *)
(* caller's reduce function fail.                                                *)
Aggregate == {"ok", "failed"}

(* parallelExecutor.Execute after wg.Wait(): the fail-fast error, the minimum,   *)
(* the aggregation.                                                              *)
(* Mutant: an absent minimum asks for nothing. *)
DecideAll_NoDefault ==
  \/ errq # {} /\ Return("failed") /\ UNCHANGED got
  \/ errq = {} /\ got' = Succeeded /\ \E o \in Aggregate :
       Return(IF Cardinality(Succeeded) < fanCfg.min THEN "failed" ELSE o)

DecideAll ==
  \/ errq # {} /\ Return("failed") /\ UNCHANGED got
  \/ errq = {} /\ got' = Succeeded /\ \E o \in Aggregate :
       Return(IF Cardinality(Succeeded) < Required THEN "failed" ELSE o)

WaitAll ==
  /\ fanPc = "waiting" /\ fanCfg.pattern = "all"
  /\ \A c \in DOMAIN splits : child[c] = "done"
  /\ DecideAll
  /\ UNCHANGED <<fanCfg, splits, child, res, okq, errq, failed>>

(* executeFirst: a select over the result, the errors and the context, which is  *)
(* also done once a child has delivered its result.                              *)
WaitFirst ==
  /\ fanPc = "waiting" /\ fanCfg.pattern = "first"
  /\ \/ /\ okq # {}
        /\ got' = okq /\ okq' = {} /\ Return("ok") /\ UNCHANGED <<errq, failed>>
     \/ \E c \in errq :
          /\ errq' = errq \ {c} /\ failed' = failed \cup {c}
          /\ IF Cardinality(failed) + 1 >= N THEN Return("failed") ELSE UNCHANGED <<ctx, fanPc, fanOut>>
          /\ UNCHANGED <<got, okq>>
     \/ ctx # "live" /\ Return("timedout") /\ UNCHANGED <<got, okq, errq, failed>>
  /\ UNCHANGED <<fanCfg, splits, child, res>>

(* mapPhase: collects results and errors until every split answered or the       *)
(* context is done, which counts as one more error.                              *)
WaitMap ==
  /\ fanPc = "waiting" /\ fanCfg.pattern = "map"
  /\ Cardinality(got \cup failed) < FanWidth
  /\ \/ \E c \in okq : okq' = okq \ {c} /\ got' = got \cup {c} /\ UNCHANGED <<errq, failed, fanPc>>
     \/ \E c \in errq : errq' = errq \ {c} /\ failed' = failed \cup {c} /\ UNCHANGED <<okq, got, fanPc>>
     \/ ctx # "live" /\ failed' = failed \cup {0} /\ fanPc' = "reducing" /\ UNCHANGED <<okq, errq, got>>
  /\ UNCHANGED <<fanCfg, splits, child, res, ctx, fanOut>>

Reduce ==
  /\ fanCfg.pattern = "map"
  /\ fanPc = "reducing" \/ (fanPc = "waiting" /\ Cardinality(got \cup failed) = FanWidth)
  /\ CASE ~fanCfg.collect /\ failed # {} -> Return("failed")
       [] got = {} -> Return("failed")
       [] OTHER -> Return("ok") \/ (Cardinality(got) > 1 /\ Return("failed"))
  /\ UNCHANGED <<fanCfg, splits, child, res, okq, errq, got, failed>>

(* fanOutExecutor.Execute: hears that every worker is done, or times out. *)
WaitFan ==
  /\ fanPc = "waiting" /\ fanCfg.pattern = "fan"
  /\ \/ \E c \in okq : okq' = okq \ {c} /\ failed' = failed \cup {c} /\ UNCHANGED <<ctx, fanPc, fanOut, got>>
     \/ Cardinality(failed) < FanWidth /\ ctx # "live" /\ Return("timedout") /\ UNCHANGED <<okq, failed, got>>
     \/ /\ Cardinality(failed) = FanWidth
        /\ got' = Succeeded
        /\ Return(IF \E c \in Kids : res[c] = "err" THEN "failed" ELSE "ok")
        /\ UNCHANGED <<okq, failed>>
  /\ UNCHANGED <<fanCfg, splits, child, res, errq>>

FanNext ==
  \/ Split \/ Launch \/ Timeout
  \/ \E c \in Kids, r \in {"ok", "err"} : ChildReturns(c, r)
  \/ \E c \in Kids : Send(c)
  \/ WaitAll \/ WaitFirst \/ WaitMap \/ Reduce \/ WaitFan

FanSpec == FanInit /\ [][FanNext]_fanVars

FanTypeOK ==
  /\ fanCfg \in Settings
  /\ child \in [Kids -> {"idle", "running", "sending", "done"}]
  /\ res \in [Kids -> {"none", "ok", "err"}]
  /\ okq \subseteq Kids /\ errq \subseteq Kids /\ got \subseteq Kids /\ failed \subseteq Kids \cup {0}
  /\ ctx \in {"live", "cancelled", "expired"}
  /\ fanPc \in {"start", "launching", "waiting", "reducing", "returned"}
  /\ fanOut \in {"none", "ok", "failed", "timedout"}

(* A success rests on the children the agent was configured to need, whatever the *)
(* order in which they answered and the deadline passed: on at least the minimum  *)
(* and no failure under fail-fast, on the child whose value is returned, on every *)
(* split unless errors are collected (parallel_agent.go, mapreduce_agent.go).     *)
OkIsJustified ==
  fanOut = "ok" =>
    /\ \A c \in got : res[c] = "ok"
    /\ fanCfg.pattern = "all" => /\ Cardinality(got) >= Required
                                 /\ fanCfg.failFast => got = DOMAIN splits
    /\ fanCfg.pattern = "first" => Cardinality(got) = 1
    /\ (fanCfg.pattern = "map" /\ ~fanCfg.collect) \/ fanCfg.pattern = "fan" => got = DOMAIN splits
    /\ fanCfg.pattern = "map" => got # {}

(* No more children than the parallelism run at once (mapreduce_agent.go:126). *)
MappersBounded == fanCfg.pattern \in {"map", "fan"} => Cardinality(Holding) <= Par

(* A child never waits on a channel for ever, also after the executor has         *)
(* returned without reading it: every channel has room for what is still to come. *)
NobodyStuck == \A c \in Kids : child[c] = "sending" => CanSend(c)

(* The chunks of ListSplitter hold every item of the list once. *)
SplitsPartition ==
  fanCfg.pattern \in {"map", "fan"} =>
    /\ \A i, j \in DOMAIN splits : i # j => splits[i] \cap splits[j] = {}
    /\ \E n \in 0..MaxItems : UNION {splits[i] : i \in DOMAIN splits} = 1..n

-----------------------------------------------------------------------------
(* AgentPipeline                                                           *)
(* SequentialAgent and LoopAgent: one call of a sequence of agents, of a loop     *)
(* around one agent, or of a loop around a sequence (LoopAgentConfig.SubAgents,   *)
(* which NewLoopAgent wraps in a sequence that passes outputs and does not stop   *)
(* on errors).  Each run of an agent answers any result, fails or escalates.      *)

CONSTANTS Steps,        \* agents of the sequence
          MaxIterations

VARIABLES pipeCfg,      \* [kind, pass, stop, cond]: settings
          iter, step,   \* loop iteration, step within the sequence
          input,        \* the run whose answer the next agent receives; 0 is the caller's input
          runs,         \* every run so far: [iter, step, input, answer]
          pass,         \* runs whose answers the sequence has collected
          expired, pipeOut

pipeVars == <<pipeCfg, iter, step, input, runs, pass, expired, pipeOut>>

Kinds == {"sequence", "loop", "loop over a sequence"}
Answers == {"result", "error", "escalate"}
Conditions == {"none", "while", "until"}

Looping == pipeCfg.kind # "sequence"
Sequenced == pipeCfg.kind # "loop"
PipeWidth == IF Sequenced THEN Steps ELSE 1

(* NewSequentialAgent and NewLoopAgent. *)
PipeInit ==
  /\ pipeCfg \in [kind : Kinds, pass : BOOLEAN, stop : BOOLEAN, cond : Conditions]
  /\ pipeCfg.kind = "loop over a sequence" => pipeCfg.pass /\ ~pipeCfg.stop
  /\ pipeCfg.kind = "loop" => ~pipeCfg.pass /\ pipeCfg.stop
  /\ pipeCfg.kind = "sequence" => pipeCfg.cond = "none"
  /\ iter = 1 /\ step = 1
  /\ input = 0
  /\ runs = <<>>
  /\ pass = <<>>
  /\ expired = FALSE
  /\ pipeOut = "none"

Running == pipeOut = "none"

Record(answer) ==
  runs' = Append(runs, [iter |-> iter, step |-> step, input |-> input, answer |-> answer])

(* A failing step: the sequence stops, or records the error and, if it passes     *)
(* outputs, hands the error on; the single agent of a loop ends the loop.         *)
(* Mutant: the error is not handed on. *)
Fail_KeepsInput ==
  /\ Running /\ step <= PipeWidth
  /\ Record("error")
  /\ IF pipeCfg.stop
     THEN pipeOut' = "failed" /\ UNCHANGED <<step, input, pass>>
     ELSE /\ step' = step + 1
          /\ pass' = Append(pass, Len(runs) + 1)
          /\ UNCHANGED input
          /\ UNCHANGED pipeOut
  /\ UNCHANGED <<pipeCfg, iter, expired>>

Fail ==
  /\ Running /\ step <= PipeWidth
  /\ Record("error")
  /\ IF pipeCfg.stop
     THEN pipeOut' = "failed" /\ UNCHANGED <<step, input, pass>>
     ELSE /\ step' = step + 1
          /\ pass' = Append(pass, Len(runs) + 1)
          /\ input' = IF pipeCfg.pass THEN Len(runs) + 1 ELSE input
          /\ UNCHANGED pipeOut
  /\ UNCHANGED <<pipeCfg, iter, expired>>

(* A step that answers.  The output is handed on except after the last step.      *)
Answer(a) ==
  /\ Running /\ step <= PipeWidth
  /\ a # "error"
  /\ Record(a)
  /\ step' = step + 1
  /\ pass' = Append(pass, Len(runs) + 1)
  /\ input' = IF pipeCfg.pass /\ step < PipeWidth THEN Len(runs) + 1 ELSE input
  /\ UNCHANGED <<pipeCfg, iter, expired, pipeOut>>

(* aggregateResults: the last answer if outputs are passed on or it is the only   *)
(* one, otherwise the list of them.                                               *)
Aggregated == IF pipeCfg.pass \/ Len(pass) = 1 THEN "last" ELSE "list"

SequenceEnds ==
  /\ Running /\ ~Looping /\ step > PipeWidth
  /\ pipeOut' = Aggregated
  /\ UNCHANGED <<pipeCfg, iter, step, input, runs, pass, expired>>

(* evaluateCondition: the output's metadata says escalate (a sequence's metadata  *)
(* never does), or the condition holds, which ends an until-loop and continues a  *)
(* while-loop; without a condition the loop continues.                            *)
LastRun == runs[Len(runs)]

(* Mutant: the condition is not inverted for until-loops, escalation not seen. *)
ShouldContinue_Deaf(holds) == pipeCfg.cond # "none" => holds

ShouldContinue(holds) ==
  /\ ~(pipeCfg.kind = "loop" /\ LastRun.answer = "escalate")
  /\ pipeCfg.cond = "while" => holds
  /\ pipeCfg.cond = "until" => ~holds

(* Mutant: the limit is compared after the turn it should have stopped. *)
Turn_OneMore(holds) ==
  /\ Running /\ Looping /\ step > PipeWidth
  /\ IF ~ShouldContinue(holds) \/ iter > MaxIterations
     THEN pipeOut' = "last" /\ UNCHANGED <<iter, step, input, pass>>
     ELSE /\ iter' = iter + 1
          /\ step' = 1
          /\ pass' = <<>>
          /\ input' = Len(runs)
          /\ pipeOut' = IF expired THEN "timedout" ELSE "none"
  /\ UNCHANGED <<pipeCfg, runs, expired>>

(* One turn of the loop after the inner agent returned, prepareNextInput and the  *)
(* check of the deadline before the next turn included.                           *)
Turn(holds) ==
  /\ Running /\ Looping /\ step > PipeWidth
  /\ IF ~ShouldContinue(holds) \/ iter = MaxIterations
     THEN pipeOut' = "last" /\ UNCHANGED <<iter, step, input, pass>>
     ELSE /\ iter' = iter + 1
          /\ step' = 1
          /\ pass' = <<>>
          /\ input' = Len(runs)
          /\ pipeOut' = IF expired THEN "timedout" ELSE "none"
  /\ UNCHANGED <<pipeCfg, runs, expired>>

Expire ==
  /\ Running /\ Looping /\ ~expired
  /\ expired' = TRUE
  /\ UNCHANGED <<pipeCfg, iter, step, input, runs, pass, pipeOut>>

PipeNext ==
  \/ Fail
  \/ \E a \in Answers : Answer(a)
  \/ SequenceEnds
  \/ \E holds \in BOOLEAN : Turn(holds)
  \/ Expire

PipeSpec == PipeInit /\ [][PipeNext]_pipeVars

PipeTypeOK ==
  /\ pipeCfg \in [kind : Kinds, pass : BOOLEAN, stop : BOOLEAN, cond : Conditions]
  /\ iter \in 1..MaxIterations /\ step \in 1..(Steps + 1)
  /\ input \in 0..Len(runs)
  /\ expired \in BOOLEAN
  /\ pipeOut \in {"none", "failed", "last", "list", "timedout"}

(* With outputs passed on, an agent receives the answer or the error of the run   *)
(* just before it, also across the turns of a loop; a failure is the end of a     *)
(* sequence that stops on errors (sequential_agent.go:99, loop_agent.go:149).     *)
HandedOn ==
  /\ \A k \in 2..Len(runs) : pipeCfg.pass => runs[k].input = k - 1
  /\ \A k \in 1..Len(runs) : pipeCfg.stop /\ runs[k].answer = "error" => k = Len(runs) /\ pipeOut = "failed"

(* A loop takes no more turns than its maximum, runs every agent of its body in   *)
(* each, and takes none after the agent of its body escalated                     *)
(* (loop_agent.go:149,220).                                                       *)
LoopStopsWhenTold ==
  /\ Len(runs) <= PipeWidth * (IF Looping THEN MaxIterations ELSE 1)
  /\ pipeCfg.kind = "loop" => \A k \in 1..Len(runs) : runs[k].answer = "escalate" => k = Len(runs)

-----------------------------------------------------------------------------
(* RouterAgent                                                             *)
(* RouterAgent and the intent router in front of it: which                        *)
(* agent an input is given to.  NewRouterAgent sorts the routes by exchanging     *)
(* pairs; Execute takes the first whose condition matches, or the fallback.       *)

CONSTANTS MaxRoutes, MaxPriority

VARIABLES routerCfg,  \* [fallback, default]: settings
          routes,    \* sequence of [id, prio, match]; match: the condition holds of the input
          routerI, routerJ,  \* loop counters of the sort
          routerPc, chosen \* chosen: id of the route taken, "default", "none"

routerVars == <<routerCfg, routes, routerI, routerJ, routerPc, chosen>>

Route == [id : {"r1", "r2", "r3"}, prio : 0..MaxPriority, match : BOOLEAN]
Id(k) == CASE k = 1 -> "r1" [] k = 2 -> "r2" [] k = 3 -> "r3"

RouterInit ==
  /\ routerCfg \in [fallback : {"error", "default", "first"}, default : BOOLEAN]
  /\ \E n \in 0..MaxRoutes : \E p \in [1..n -> 0..MaxPriority], m \in [1..n -> BOOLEAN] :
       routes = [k \in 1..n |-> [id |-> Id(k), prio |-> p[k], match |-> m[k]]]
  /\ routerI = 1 /\ routerJ = 2
  /\ routerPc = "sorting"
  /\ chosen = "none"

Exchange == [routes EXCEPT ![routerI] = routes[routerJ], ![routerJ] = routes[routerI]]

(* Mutant: adjacent pairs only, one pass. *)
Sort_OnePass ==
  /\ routerPc = "sorting"
  /\ IF routerI < Len(routes)
     THEN /\ routes' = IF routes[routerI + 1].prio > routes[routerI].prio
                       THEN [routes EXCEPT ![routerI] = routes[routerI + 1], ![routerI + 1] = routes[routerI]] ELSE routes
          /\ routerI' = routerI + 1 /\ UNCHANGED <<routerJ, routerPc>>
     ELSE routerPc' = "routing" /\ UNCHANGED <<routes, routerI, routerJ>>
  /\ UNCHANGED <<routerCfg, chosen>>

Sort ==
  /\ routerPc = "sorting"
  /\ IF routerI < Len(routes)
     THEN IF routerJ <= Len(routes)
          THEN /\ routes' = IF routes[routerJ].prio > routes[routerI].prio THEN Exchange ELSE routes
               /\ routerJ' = routerJ + 1 /\ UNCHANGED <<routerI, routerPc>>
          ELSE routerI' = routerI + 1 /\ routerJ' = routerI + 2 /\ UNCHANGED <<routes, routerPc>>
     ELSE routerPc' = "routing" /\ UNCHANGED <<routes, routerI, routerJ>>
  /\ UNCHANGED <<routerCfg, chosen>>

Matching == {k \in DOMAIN routes : routes[k].match}

(* The intent router classifies first; a classifier that fails or answers no      *)
(* string ends the call before any route is tried.                                *)
Classify ==
  /\ routerPc = "routing"
  /\ routerPc' = "failed"
  /\ UNCHANGED <<routerCfg, routes, routerI, routerJ, chosen>>

(* handleNoMatch. *)
NoMatch ==
  /\ routerPc = "routing" /\ Matching = {}
  /\ CASE routerCfg.fallback = "default" /\ routerCfg.default -> chosen' = "default" /\ routerPc' = "executing"
       [] routerCfg.fallback = "first" /\ routes # <<>> -> chosen' = routes[1].id /\ routerPc' = "executing"
       [] OTHER -> routerPc' = "failed" /\ UNCHANGED chosen
  /\ UNCHANGED <<routerCfg, routes, routerI, routerJ>>

(* The first matching route. *)
Take ==
  /\ routerPc = "routing" /\ Matching # {}
  /\ LET k == CHOOSE k \in Matching : \A m \in Matching : k <= m IN chosen' = routes[k].id
  /\ routerPc' = "executing"
  /\ UNCHANGED <<routerCfg, routes, routerI, routerJ>>

(* The agent chosen answers or fails; a route is never replaced by another. *)
Executed ==
  /\ routerPc = "executing"
  /\ routerPc' \in {"answered", "failed"}
  /\ UNCHANGED <<routerCfg, routes, routerI, routerJ, chosen>>

RouterNext == Sort \/ Classify \/ NoMatch \/ Take \/ Executed

RouterSpec == RouterInit /\ [][RouterNext]_routerVars

RouterTypeOK ==
  /\ \A k \in DOMAIN routes : routes[k] \in Route
  /\ routerI \in 1..(MaxRoutes + 1) /\ routerJ \in 2..(MaxRoutes + 2)
  /\ routerPc \in {"sorting", "routing", "executing", "answered", "failed"}
  /\ chosen \in {"none", "default", "r1", "r2", "r3"}

(* "Higher priority routes checked first" (router_agent.go:31), for any order in   *)
(* which the routes were configured: the route taken matches and no matching       *)
(* route has a higher priority; a fallback is taken only if none matches, and the  *)
(* first route then is one of the highest priority.                                *)
BestRouteTaken ==
  chosen \notin {"none", "default"} =>
    LET taken == CHOOSE k \in DOMAIN routes : routes[k].id = chosen IN
      \A k \in DOMAIN routes :
        (routes[k].match \/ Matching = {}) => routes[k].prio <= routes[taken].prio

-----------------------------------------------------------------------------
(* LoadBalancer                                                            *)
(* LoadBalancerAgent: a slice of agent wrappers, each with an in-flight counter    *)
(* and a health flag by value and a circuit breaker by pointer.  A request keeps   *)
(* the address of the wrapper it selected after the lock is released, so the model *)
(* keeps the backing arrays: removing shifts the later wrappers down in place,     *)
(* adding writes past the end or copies everything to a new array.                 *)

CONSTANTS Agents,      \* names
          First,       \* sequence of the agents configured at the start
          LbReqs,      \* concurrent requests
          MaxChanges,  \* bound on AddAgent, RemoveAgent and drains
          LbMaxCalls   \* bound on the calls served

VARIABLES arrays,      \* sequence of backing arrays, the last is the slice's
          len,         \* length of the slice
          open,        \* agents whose circuit breaker is open
          lbStrategy, lbCounter,
          lbReq,       \* [Reqs -> [pc, arr, idx]]: address of the selected wrapper
          drain,       \* [pc, name, arr, idx] of the one DrainAgent call
          changes, lbCalls,
          removedBusy  \* a completed drain removed an agent that was serving

lbVars == <<arrays, len, open, lbStrategy, lbCounter, lbReq, drain, changes, lbCalls, removedBusy>>

Cur == Len(arrays)
Pool == 1..len
Wrapper(n) == [name |-> n, inFlight |-> 0, healthy |-> TRUE]
LbIdle == [pc |-> "idle", arr |-> 0, idx |-> 0]
NoDrain == [pc |-> "idle", name |-> "none", arr |-> 0, idx |-> 0]
LbStrategies == {"round-robin", "random", "least-loaded"}

(* NewLoadBalancerAgent. *)
LbInit ==
  /\ arrays = << [i \in DOMAIN First |-> Wrapper(First[i])] >>
  /\ len = Len(First)
  /\ open = {}
  /\ lbStrategy \in LbStrategies
  /\ lbCounter = 0
  /\ lbReq = [r \in LbReqs |-> LbIdle]
  /\ drain = NoDrain
  /\ changes = 0 /\ lbCalls = 0
  /\ removedBusy = FALSE

Names == {arrays[Cur][i].name : i \in Pool}

(* selectAgent, under the read lock: the healthy wrappers whose breaker is not    *)
(* open, all of them if there is none, and one of these by the strategy.          *)
Healthy == {i \in Pool : arrays[Cur][i].healthy /\ arrays[Cur][i].name \notin open}
Candidates == IF Healthy = {} THEN Pool ELSE Healthy
Nth(S, k) == CHOOSE i \in S : Cardinality({x \in S : x < i}) = k

Select(r) ==
  /\ lbReq[r].pc = "idle" /\ len > 0 /\ lbCalls < LbMaxCalls
  /\ \E i \in Candidates :
       /\ CASE lbStrategy = "round-robin" -> i = Nth(Candidates, lbCounter % Cardinality(Candidates))
            [] lbStrategy = "random" -> TRUE
            [] lbStrategy = "least-loaded" ->
                 /\ \A x \in Candidates : arrays[Cur][i].inFlight <= arrays[Cur][x].inFlight
                 /\ \A x \in Candidates : x < i => arrays[Cur][x].inFlight > arrays[Cur][i].inFlight
       /\ lbReq' = [lbReq EXCEPT ![r] = [pc |-> "selected", arr |-> Cur, idx |-> i]]
  /\ lbCounter' = IF lbStrategy = "round-robin" THEN lbCounter + 1 ELSE lbCounter
  /\ lbCalls' = lbCalls + 1
  /\ UNCHANGED <<arrays, len, open, lbStrategy, drain, changes, removedBusy>>

At(r) == arrays[lbReq[r].arr][lbReq[r].idx]

(* wrapper.InFlight.Add(1), and the call through the breaker starts. *)
Enter(r) ==
  /\ lbReq[r].pc = "selected"
  /\ arrays' = [arrays EXCEPT ![lbReq[r].arr][lbReq[r].idx].inFlight = @ + 1]
  /\ lbReq' = [lbReq EXCEPT ![r].pc = "running"]
  /\ UNCHANGED <<len, open, lbStrategy, lbCounter, drain, changes, lbCalls, removedBusy>>

(* The call ends: the breaker may open on a failure and closes on a success; the  *)
(* health follows, and the deferred decrement hits the address kept.              *)
(* Mutant: a failed call returns without giving its slot back. *)
Finish_LeaksOnError(r, ok) ==
  /\ lbReq[r].pc = "running"
  /\ open' \in IF ok THEN {open \ {At(r).name}} ELSE {open, open \cup {At(r).name}}
  /\ arrays' = [arrays EXCEPT ![lbReq[r].arr][lbReq[r].idx] =
                  [@ EXCEPT !.inFlight = IF ok THEN @ - 1 ELSE @,
                            !.healthy = ok \/ (@ /\ At(r).name \notin open')]]
  /\ lbReq' = [lbReq EXCEPT ![r] = LbIdle]
  /\ UNCHANGED <<len, lbStrategy, lbCounter, drain, changes, lbCalls, removedBusy>>

Finish(r, ok) ==
  /\ lbReq[r].pc = "running"
  /\ open' \in IF ok THEN {open \ {At(r).name}} ELSE {open, open \cup {At(r).name}}
  /\ arrays' = [arrays EXCEPT ![lbReq[r].arr][lbReq[r].idx] =
                  [@ EXCEPT !.inFlight = @ - 1,
                            !.healthy = ok \/ (@ /\ At(r).name \notin open')]]
  /\ lbReq' = [lbReq EXCEPT ![r] = LbIdle]
  /\ UNCHANGED <<len, lbStrategy, lbCounter, drain, changes, lbCalls, removedBusy>>

(* AddAgent: a spare element of the array is overwritten, otherwise the slice     *)
(* moves to a new array with a copy of every counter and flag.                    *)
AddAgent(n) ==
  /\ changes < MaxChanges /\ n \notin Names
  /\ arrays' = IF len < Len(arrays[Cur])
               THEN [arrays EXCEPT ![Cur][len + 1] = Wrapper(n)]
               ELSE Append(arrays, Append(arrays[Cur], Wrapper(n)))
  /\ len' = len + 1
  /\ open' = open \ {n}
  /\ changes' = changes + 1
  /\ UNCHANGED <<lbStrategy, lbCounter, lbReq, drain, lbCalls, removedBusy>>

Without(i) ==
  [arrays EXCEPT ![Cur] = [k \in DOMAIN @ |-> IF k >= i /\ k < len THEN @[k + 1] ELSE @[k]]]

RemoveAgent(n) ==
  /\ changes < MaxChanges
  /\ \E i \in Pool : arrays[Cur][i].name = n /\ arrays' = Without(i)
  /\ len' = len - 1
  /\ changes' = changes + 1
  /\ UNCHANGED <<open, lbStrategy, lbCounter, lbReq, drain, lbCalls, removedBusy>>

(* DrainAgent marks the wrapper unhealthy and then polls its counter. *)
StartDrain(n) ==
  /\ drain.pc = "idle" /\ changes < MaxChanges
  /\ \E i \in Pool :
       /\ arrays[Cur][i].name = n
       /\ arrays' = [arrays EXCEPT ![Cur][i].healthy = FALSE]
       /\ drain' = [pc |-> "waiting", name |-> n, arr |-> Cur, idx |-> i]
  /\ changes' = changes + 1
  /\ UNCHANGED <<len, open, lbStrategy, lbCounter, lbReq, lbCalls, removedBusy>>

Serving(n) == \E r \in LbReqs : lbReq[r].pc # "idle" /\ At(r).name = n

(* The tick that finds the counter at zero removes the agent, if it is still there. *)
EndDrain ==
  /\ drain.pc = "waiting"
  /\ arrays[drain.arr][drain.idx].inFlight = 0
  /\ IF drain.name \in Names
     THEN /\ \E i \in Pool : arrays[Cur][i].name = drain.name /\ arrays' = Without(i)
          /\ len' = len - 1
          /\ removedBusy' = (removedBusy \/ Serving(drain.name))
     ELSE UNCHANGED <<arrays, len, removedBusy>>
  /\ drain' = NoDrain
  /\ UNCHANGED <<open, lbStrategy, lbCounter, lbReq, changes, lbCalls>>

(* The deadline, or the caller's context: removed by force, or left unhealthy.    *)
GiveUpDrain ==
  /\ drain.pc = "waiting"
  /\ \/ UNCHANGED <<arrays, len>>
     \/ \E i \in Pool :
          arrays[Cur][i].name = drain.name /\ arrays' = Without(i) /\ len' = len - 1
  /\ drain' = NoDrain
  /\ UNCHANGED <<open, lbStrategy, lbCounter, lbReq, changes, lbCalls, removedBusy>>

LbNext ==
  \/ \E r \in LbReqs : Select(r) \/ Enter(r) \/ \E ok \in BOOLEAN : Finish(r, ok)
  \/ \E n \in Agents : AddAgent(n) \/ RemoveAgent(n) \/ StartDrain(n)
  \/ EndDrain \/ GiveUpDrain

LbSpec == LbInit /\ [][LbNext]_lbVars

LbTypeOK ==
  /\ len \in 0..Len(arrays[Cur])
  /\ open \subseteq Agents
  /\ lbStrategy \in LbStrategies
  /\ \A r \in LbReqs : lbReq[r].pc \in {"idle", "selected", "running"}
  /\ removedBusy \in BOOLEAN

(* As long as no agent was added or removed, the in-flight counter of every       *)
(* wrapper is the number of requests its agent is serving, however they end       *)
(* (router_agent.go:692); least-loaded selection and draining rest on it.         *)
InFlightExact ==
  changes = 0 =>
    \A i \in Pool : arrays[1][i].inFlight = Cardinality({r \in LbReqs : lbReq[r].pc = "running" /\ lbReq[r].idx = i})

-----------------------------------------------------------------------------
(* ClusterBalancer                                                         *)
(* ClusterAwareLoadBalancerAgent: a request is run by the local pool or on a       *)
(* remote node, by the strategy, with fallbacks from one to the other.  A run of   *)
(* the local pool and of a remote node succeeds or fails; the registry's view of   *)
(* the healthy nodes changes between two looks at it.                              *)

CONSTANTS Remote,       \* remote nodes, a sequence in the registry's order
          Having,       \* indices of the nodes registered with the capability asked for
          LocalAgents,  \* localAgentCount, fixed at construction
          ClusterReqs, ClusterMaxCalls

VARIABLES clusterStrategy,
          up,           \* indices of the remote nodes that are healthy
          clusterCounter,  \* shared by executeGlobal and the local round-robin
          stats,        \* [executions, errors] of the coordinator
          clusterReq,   \* [Reqs -> [pc, asked, left, tries]]: the capable nodes and those left
          clusterCalls

clusterVars == <<clusterStrategy, up, clusterCounter, stats, clusterReq, clusterCalls>>

ClusterStrategies == {"local-first", "global", "affinity"}
ClusterIdle == [pc |-> "idle", asked |-> {}, left |-> {}, tries |-> <<>>]
All == DOMAIN Remote

ClusterInit ==
  /\ clusterStrategy \in ClusterStrategies
  /\ up = All
  /\ clusterCounter = 0
  /\ stats = [executions |-> 0, errors |-> 0]
  /\ clusterReq = [r \in ClusterReqs |-> ClusterIdle]
  /\ clusterCalls = 0

To(r, pc) == clusterReq' = [clusterReq EXCEPT ![r].pc = pc]

(* Execute: local-first starts locally; global counts over the local agents and    *)
(* the healthy remote nodes; affinity takes the nodes that have the capability,     *)
(* after the local pool if that has it, and is local-first if none is asked for.    *)
Start(r) ==
  /\ clusterReq[r].pc \in {"idle", "ok", "failed"} /\ clusterCalls < ClusterMaxCalls
  /\ clusterCalls' = clusterCalls + 1
  /\ \/ /\ clusterStrategy = "local-first"
        /\ clusterReq' = [clusterReq EXCEPT ![r] = [ClusterIdle EXCEPT !.pc = "local"]] /\ UNCHANGED clusterCounter
     \/ /\ clusterStrategy = "global"
        /\ clusterCounter' = clusterCounter + 1
        /\ clusterReq' = [clusterReq EXCEPT ![r] = [ClusterIdle EXCEPT !.pc =
              IF clusterCounter' % (LocalAgents + Cardinality(up)) < LocalAgents
              THEN "only local" ELSE "remote"]]
     \/ /\ clusterStrategy = "affinity"
        /\ \E localToo \in BOOLEAN, nodes \in {{}, Having} :
             /\ nodes = {} => localToo
             /\ clusterReq' = [clusterReq EXCEPT ![r] = [pc |-> IF localToo THEN "local" ELSE "capable",
                                           asked |-> nodes, left |-> nodes, tries |-> <<>>]]
        /\ UNCHANGED clusterCounter
  /\ UNCHANGED <<clusterStrategy, up, stats>>

(* One run of the local pool, whose round-robin takes the next counter value.       *)
Local(r, ok) ==
  /\ clusterReq[r].pc \in {"local", "only local"}
  /\ clusterCounter' = clusterCounter + 1
  /\ clusterReq' = [clusterReq EXCEPT ![r] = [@ EXCEPT
       !.tries = Append(@, "local"),
       !.pc = CASE ok -> "ok"
                [] ~ok /\ @ = "only local" -> "failed"
                [] ~ok /\ @ = "local" -> IF clusterStrategy = "affinity" THEN "capable" ELSE "remote"]]
  /\ UNCHANGED <<clusterStrategy, up, stats, clusterCalls>>

(* The loop over the capable nodes, then any remote node. *)
Capable(r) ==
  /\ clusterReq[r].pc = "capable"
  /\ IF clusterReq[r].left = {} THEN To(r, "remote")
     ELSE \E i \in clusterReq[r].left :
            clusterReq' = [clusterReq EXCEPT ![r] = [@ EXCEPT !.pc = "calling capable", !.left = @ \ {i},
                                                !.tries = Append(@, Remote[i])]]
  /\ UNCHANGED <<clusterStrategy, up, clusterCounter, stats, clusterCalls>>

(* executeOnRemoteNode: the registry returns its nodes in no order, so the counter *)
(* picks any of them; without a remote node, back to the local pool.              *)
(* Mutant: without a remote node the request fails. *)
PickRemote_GivesUp(r) ==
  /\ clusterReq[r].pc = "remote"
  /\ IF up = {}
     THEN To(r, "failed")
     ELSE \E i \in up :
            clusterReq' = [clusterReq EXCEPT ![r].pc = "calling", ![r].tries = Append(@, Remote[i])]
  /\ UNCHANGED <<clusterStrategy, up, clusterCounter, stats, clusterCalls>>

PickRemote(r) ==
  /\ clusterReq[r].pc = "remote"
  /\ IF up = {}
     THEN To(r, "only local")
     ELSE \E i \in up :
            clusterReq' = [clusterReq EXCEPT ![r].pc = "calling", ![r].tries = Append(@, Remote[i])]
  /\ UNCHANGED <<clusterStrategy, up, clusterCounter, stats, clusterCalls>>

(* DefaultClusterCoordinator.ExecuteOnNode: two counters, each by itself atomic.    *)
(* Mutant: the error is counted before the execution. *)
Counted_ErrorFirst(r, ok) ==
  /\ clusterReq[r].pc \in {"calling", "calling capable"}
  /\ stats' = IF ok THEN [stats EXCEPT !.executions = @ + 1] ELSE [stats EXCEPT !.errors = @ + 1]
  /\ To(r, CASE ok -> "ok" [] ~ok /\ clusterReq[r].pc = "calling" -> "counting last"
             [] OTHER -> "counting")
  /\ UNCHANGED <<clusterStrategy, up, clusterCounter, clusterCalls>>

Counted(r, ok) ==
  /\ clusterReq[r].pc \in {"calling", "calling capable"}
  /\ stats' = [stats EXCEPT !.executions = @ + 1]
  /\ To(r, CASE ok -> "ok" [] ~ok /\ clusterReq[r].pc = "calling" -> "counting last"
             [] OTHER -> "counting")
  /\ UNCHANGED <<clusterStrategy, up, clusterCounter, clusterCalls>>

CountError(r) ==
  /\ clusterReq[r].pc \in {"counting", "counting last"}
  /\ stats' = [stats EXCEPT !.errors = @ + 1]
  /\ To(r, IF clusterReq[r].pc = "counting" THEN "capable" ELSE "failed")
  /\ UNCHANGED <<clusterStrategy, up, clusterCounter, clusterCalls>>

(* The registry's healthy nodes change. *)
Health(i) ==
  /\ up' = IF i \in up THEN up \ {i} ELSE up \cup {i}
  /\ UNCHANGED <<clusterStrategy, clusterCounter, stats, clusterReq, clusterCalls>>

ClusterNext ==
  \/ \E r \in ClusterReqs : \/ Start(r) \/ Capable(r) \/ PickRemote(r) \/ CountError(r)
                            \/ \E ok \in BOOLEAN : Local(r, ok) \/ Counted(r, ok)
  \/ \E i \in All : Health(i)

ClusterSpec == ClusterInit /\ [][ClusterNext]_clusterVars

ClusterTypeOK ==
  /\ clusterStrategy \in ClusterStrategies
  /\ up \subseteq All
  /\ clusterCounter \in Nat
  /\ stats \in [executions : Nat, errors : Nat]
  /\ \A r \in ClusterReqs : clusterReq[r].left \subseteq All

(* The coordinator's statistics never show more errors than executions, at any     *)
(* interleaving of concurrent requests (cluster_aware_lb_agent.go:339-343).        *)
ErrorsWithinExecutions == stats.errors <= stats.executions

(* A request fails only after what its strategy falls back on was tried, whatever  *)
(* nodes come and go meanwhile: local-first the pool and then one more place, which *)
(* is the pool again when there is no remote node; affinity every node with the     *)
(* capability asked for and then one more place, or as local-first when none is     *)
(* asked for; global has no fallback and tries one place                            *)
(* (cluster_aware_lb_agent.go:97-186).                                              *)
FallbacksTried ==
  \A r \in {q \in ClusterReqs : clusterReq[q].pc = "failed"} :
    LET tries == clusterReq[r].tries
        n == Cardinality(clusterReq[r].asked) IN
    /\ clusterStrategy = "global" => Len(tries) = 1
    /\ clusterStrategy = "local-first" => Len(tries) = 2 /\ tries[1] = "local"
    /\ clusterStrategy = "affinity" =>
         /\ Len(tries) \in {n + 1, n + 2} /\ (tries[1] # "local" => Len(tries) = n + 1)
         /\ \A i \in clusterReq[r].asked : \E k \in 1..(Len(tries) - 1) : tries[k] = Remote[i]
         /\ n = 0 => Len(tries) = 2
=============================================================================

----------------------------- MODULE GraphPlans -----------------------------
(***************************************************************************)
(* Graphs and plans before they run: the builder, the compiler to stages,  *)
(* and the planner.                                                        *)
(***************************************************************************)
EXTENDS Integers, Sequences, FiniteSets, SequencesExt, FiniteSetsExt

-----------------------------------------------------------------------------
(* GraphBuilder                                                            *)
(***************************************************************************)
(* Builder of src/pkg/graph/builder.go over the construction operations    *)
(* and Validate of graph.go. A failed operation is remembered and makes    *)
(* Build fail; the operations themselves go on.                            *)
(***************************************************************************)

CONSTANTS
    Names,      \* node identifiers a caller may use
    None,
    MaxOps      \* bound on the calls of one builder

VARIABLES
    nodes, builderEdges,  \* AddEdge appends to a list; which edges there are matters here
    entry, finish,
    errors,         \* len(b.errors) > 0
    built,          \* "no", "ok" or "refused"
    ops

builderVars == <<nodes, builderEdges, entry, finish, errors, built, ops>>

BuilderTypeOK ==
    /\ nodes \subseteq Names /\ builderEdges \subseteq Names \X Names
    /\ entry \in Names \cup {None} /\ finish \subseteq Names
    /\ errors \in BOOLEAN /\ built \in {"no", "ok", "refused"} /\ ops \in 0..MaxOps

BuilderInit ==
    /\ nodes = {} /\ builderEdges = {} /\ entry = None /\ finish = {}
    /\ errors = FALSE /\ built = "no" /\ ops = 0

Op == built = "no" /\ ops < MaxOps /\ ops' = ops + 1
Bad(e) == errors' = (errors \/ e)

(* AddNode, AddFunction, AddAgent, AddPassthrough: a name is used once.    *)
AddNode(n) ==
    /\ Op
    /\ nodes' = nodes \cup {n} /\ Bad(n \in nodes)
    /\ UNCHANGED <<builderEdges, entry, finish, built>>

(* AddEdge, AddConditionalEdge: both ends must exist.                      *)
AddEdge(a, b) ==
    LET ok == a \in nodes /\ b \in nodes IN
    /\ Op
    /\ builderEdges' = IF ok THEN builderEdges \cup {<<a, b>>} ELSE builderEdges
    /\ Bad(~ok)
    /\ UNCHANGED <<nodes, entry, finish, built>>

(* AddDynamicEdge: To() of a dynamic edge is the empty name, which no node *)
(* has, so the edge is always refused.                                     *)
AddDynamicEdge(a) ==
    /\ Op /\ Bad(TRUE)
    /\ UNCHANGED <<nodes, builderEdges, entry, finish, built>>

SetEntry(n) ==
    /\ Op
    /\ entry' = IF n \in nodes THEN n ELSE entry
    /\ Bad(n \notin nodes)
    /\ UNCHANGED <<nodes, builderEdges, finish, built>>

AddFinish(n) ==
    /\ Op
    /\ finish' = IF n \in nodes THEN finish \cup {n} ELSE finish
    /\ Bad(n \notin nodes)
    /\ UNCHANGED <<nodes, builderEdges, entry, built>>

(* canReachFinish: depth first from n with the nodes visited so far; the   *)
(* search of an edge's target inherits what its elder siblings visited.    *)
RECURSIVE Visit(_, _)
Visit(work, visited) ==
    IF work = {} THEN visited
    ELSE LET n == CHOOSE m \in work : TRUE IN
         IF n \in finish THEN visited \cup {n}
         ELSE Visit((work \cup {e[2] : e \in {e \in builderEdges : e[1] = n}}) \ (visited \cup {n}), visited \cup {n})

(* Mutant: only the entry and its direct successors are looked at. *)
canReachFinish_Near == \E e \in builderEdges \cup {<<entry, entry>>} : e[1] = entry /\ e[2] \in finish

canReachFinish == Visit({entry}, {}) \cap finish # {}

(* Mutant: reachability is not tested. *)
Validate_Anywhere == nodes # {} /\ entry \in nodes /\ finish # {} /\ finish \subseteq nodes

Validate ==
    /\ nodes # {}
    /\ entry \in nodes
    /\ finish # {} /\ finish \subseteq nodes
    /\ canReachFinish

Build ==
    /\ built = "no"
    /\ built' = IF ~errors /\ Validate THEN "ok" ELSE "refused"
    /\ UNCHANGED <<nodes, builderEdges, entry, finish, errors, ops>>

BuilderNext ==
    \/ \E n \in Names : AddNode(n) \/ SetEntry(n) \/ AddFinish(n) \/ AddDynamicEdge(n)
    \/ \E a, b \in Names : AddEdge(a, b)
    \/ Build

BuilderSpec == BuilderInit /\ [][BuilderNext]_builderVars

-----------------------------------------------------------------------------
Closed(S) == \A e \in builderEdges : e[1] \in S => e[2] \in S

(* A graph that Build returns can be run: its edges join its nodes, and    *)
(* every set of nodes that holds the entry and what its members lead to    *)
(* holds a finish node.                                                    *)
BuiltIsRunnable ==
    built = "ok" =>
        /\ \A e \in builderEdges : e[1] \in nodes /\ e[2] \in nodes
        /\ \A S \in SUBSET nodes : entry \in S /\ Closed(S) => S \cap finish # {}

(* Build refuses nothing that is sound: with no failed operation it        *)
(* refuses only a graph without an entry, or one whose entry leads to no   *)
(* finish node.                                                            *)
RefusesOnlyUnsound ==
    built = "refused" /\ ~errors =>
        entry = None \/ \E S \in SUBSET nodes : entry \in S /\ Closed(S) /\ S \cap finish = {}

-----------------------------------------------------------------------------
(* DagCompiler                                                             *)
(***************************************************************************)
(* DAGCompiler of src/pkg/graph/compiler.go, which turns a graph into a    *)
(* job: Kahn's algorithm by levels, one stage per level, the children of a *)
(* ParallelNode as tasks of the level. Stages get random identifiers. The  *)
(* scheduler rebuilds a job from its task records before it runs it, and   *)
(* sorts the stages by identifier (buildRecoveredRuntimeJob).              *)
(***************************************************************************)

CONSTANTS
    Nodes,
    Graphs,      \* sets of edges <<from, to>>; parallel edges count in-degrees twice
    Widths       \* node -> number of tasks its flattening gives, per shape

VARIABLES
    dagEdges, width,
    phase,       \* "sort", "stages", "compiled", "cycle", "recovered"
    inDegree, level,
    levels,      \* sortedLevels: sequence of sets of nodes
    nodeToStage, \* node -> index of its stage, or 0
    stages,      \* sequence of [tasks, deps]: deps are indices of stages
    dagOrder     \* the order in which the scheduler runs the stages

dagVars == <<dagEdges, width, phase, inDegree, level, levels, nodeToStage, stages, dagOrder>>

Pred(n) == {m \in Nodes : <<m, n>> \in dagEdges}

DagTypeOK ==
    /\ dagEdges \in Graphs /\ width \in Widths
    /\ phase \in {"sort", "stages", "compiled", "cycle", "recovered"}
    /\ inDegree \in [Nodes -> Nat] /\ level \subseteq Nodes
    /\ \A k \in DOMAIN levels : levels[k] \subseteq Nodes
    /\ nodeToStage \in [Nodes -> 0..Len(stages)]
    /\ \A k \in DOMAIN stages : stages[k].tasks \in Nat /\ stages[k].deps \subseteq 1..Len(stages)
    /\ \A k \in DOMAIN dagOrder : dagOrder[k] \in 1..Len(stages)

DagInit ==
    /\ dagEdges \in Graphs /\ width \in Widths
    /\ phase = "sort"
    /\ inDegree = [n \in Nodes |-> Cardinality(Pred(n))]
    /\ level = {n \in Nodes : Pred(n) = {}}
    /\ levels = <<>> /\ nodeToStage = [n \in Nodes |-> 0]
    /\ stages = <<>> /\ dagOrder = <<>>

(* One round: the level is recorded and its edges are taken away; a node   *)
(* whose in-degree reaches zero is in the next level.                      *)
SortLevel ==
    /\ phase = "sort" /\ level # {}
    /\ LET left == [n \in Nodes |-> inDegree[n] - Cardinality(Pred(n) \cap level)] IN
       /\ inDegree' = left
       /\ level' = {n \in Nodes : left[n] = 0 /\ inDegree[n] > 0}
    /\ levels' = Append(levels, level)
    /\ UNCHANGED <<dagEdges, width, phase, nodeToStage, stages, dagOrder>>

Sorted == UNION {levels[k] : k \in DOMAIN levels}

(* Mutant: nodes of a cycle that the sort never reached are left out. *)
SortEnds_NoCheck ==
    /\ phase = "sort" /\ level = {} /\ levels # <<>>
    /\ phase' = "stages"
    /\ UNCHANGED <<dagEdges, width, inDegree, level, levels, nodeToStage, stages, dagOrder>>

SortEnds ==
    /\ phase = "sort" /\ level = {}
    /\ phase' = IF Sorted = Nodes THEN "stages" ELSE "cycle"
    /\ UNCHANGED <<dagEdges, width, inDegree, level, levels, nodeToStage, stages, dagOrder>>

(* flattenLevel: the tasks of a level. *)
Tasks(lv) == MapThenSumSet(LAMBDA n : width[n], lv)

(* Mutant: only the previous stage is a dependency. *)
Deps_PreviousOnly(lv) == IF stages = <<>> THEN {} ELSE {Len(stages)}

(* computeStageDependencies: the stages of the predecessors, else the      *)
(* previous stage.                                                         *)
Deps(lv) ==
    LET d == {nodeToStage[m] : m \in UNION {Pred(n) : n \in lv}} \ {0} IN
    IF d = {} /\ stages # <<>> THEN {Len(stages)} ELSE d

(* A level that flattens to nothing makes no stage, and its nodes belong   *)
(* to none.                                                                *)
BuildStage ==
    LET lv == levels[1] IN
    /\ phase = "stages" /\ levels # <<>>
    /\ levels' = Tail(levels)
    /\ IF Tasks(lv) = 0 THEN UNCHANGED <<nodeToStage, stages>>
       ELSE /\ stages' = Append(stages, [tasks |-> Tasks(lv), deps |-> Deps(lv)])
            /\ nodeToStage' = [n \in Nodes |-> IF n \in lv THEN Len(stages) + 1 ELSE nodeToStage[n]]
    /\ UNCHANGED <<dagEdges, width, phase, inDegree, level, dagOrder>>

Compiled ==
    /\ phase = "stages" /\ levels = <<>>
    /\ phase' = "compiled"
    /\ dagOrder' = [k \in 1..Len(stages) |-> k]
    /\ UNCHANGED <<dagEdges, width, inDegree, level, levels, nodeToStage, stages>>

(* buildRecoveredRuntimeJob: stages in the order of their identifiers,     *)
(* which are random.                                                       *)
Recover(p) ==
    /\ phase = "compiled"
    /\ phase' = "recovered"
    /\ dagOrder' = p
    /\ UNCHANGED <<dagEdges, width, inDegree, level, levels, nodeToStage, stages>>

Permutations1(n) == {p \in [1..n -> 1..n] : \A i, j \in 1..n : i # j => p[i] # p[j]}

DagNext == SortLevel \/ SortEnds \/ BuildStage \/ Compiled \/ \E p \in Permutations1(Len(stages)) : Recover(p)

DagSpec == DagInit /\ [][DagNext]_dagVars

-----------------------------------------------------------------------------
(* Reference: a graph has a cycle when some nonempty set of nodes has no   *)
(* node without a predecessor in the set.                                  *)
Cyclic == \E S \in SUBSET Nodes : S # {} /\ \A n \in S : Pred(n) \cap S # {}

(* topologicalSort refuses exactly the graphs that have a cycle, whether   *)
(* no node is free of predecessors or the cycle hides behind free ones.    *)
RefusesExactlyCycles == (phase \in {"stages", "compiled"} => ~Cyclic) /\ (phase = "cycle" => Cyclic)

(* "Each level becomes a stage, with proper dependency linking": every     *)
(* edge of the graph goes from a stage to a later one that depends on it,  *)
(* and a stage depends on earlier stages only.                             *)
EdgesBecomeDependencies ==
    phase = "compiled" =>
        /\ \A e \in dagEdges : nodeToStage[e[1]] # 0 /\ nodeToStage[e[2]] # 0
                               => nodeToStage[e[1]] \in stages[nodeToStage[e[2]]].deps
        /\ \A k \in DOMAIN stages : \A d \in stages[k].deps : d < k

-----------------------------------------------------------------------------
(* TaskPlanner                                                             *)
(* The default planner (pkg/planner): a plan is a list of steps with dependencies,   *)
(* validated by a depth-first search and reordered by levels for parallel execution. *)

CONSTANTS MaxSteps, Missing      \* bound on steps; an identifier no step has

VARIABLES
  steps,    \* the draft: step i has identifier i; its set of dependencies
  planOrder,  \* the positions of the steps in the plan
  status    \* [valid, reordered]: verdict of ValidatePlan and result of OptimizePlan

planVars == <<steps, planOrder, status>>

Ids == 1..Len(steps)
Known == Ids \cup {Missing}
NoStatus == [verdict |-> "draft", reordered |-> << >>]
(* createSimplePlan: one step without dependencies. *)
PlanInit == steps = <<{}>> /\ planOrder = <<1>> /\ status = NoStatus
-----------------------------------------------------------------------------
(* The model provider's plan: a further step, anywhere in the list. *)
AddStep(deps, at) ==
  /\ status = NoStatus /\ Len(steps) < MaxSteps
  /\ steps' = Append(steps, deps)
  /\ planOrder' = InsertAt(planOrder, at, Len(steps) + 1) /\ UNCHANGED status
(* ... and a dependency that closes a cycle. *)
AddDependency(i, d) ==
  /\ status = NoStatus /\ i \in Ids /\ steps' = [steps EXCEPT ![i] = @ \cup {d}] /\ UNCHANGED <<planOrder, status>>

(* Mutant: the search does not tell steps on the path from finished ones. *)
detectCycle_NoStack(id, s) == [s EXCEPT !.visited = @ \cup {id}]
RECURSIVE detectCycle(_, _), detectAll(_, _, _)
(* detectCycle: a step on the current path is met again. *)
detectCycle(id, s) ==
  LET here == [s EXCEPT !.visited = @ \cup {id}, !.path = @ \cup {id}]
      after == IF id \in Ids THEN detectAll(SetToSeq(steps[id]), 1, here) ELSE here
  IN IF id \in Ids /\ ~after.cycle THEN [after EXCEPT !.path = @ \ {id}] ELSE after
detectAll(deps, i, s) ==
  IF s.cycle \/ i > Len(deps) THEN s
  ELSE detectAll(deps, i + 1,
         IF deps[i] \notin s.visited THEN detectCycle(deps[i], s)
         ELSE IF deps[i] \in s.path THEN [s EXCEPT !.cycle = TRUE] ELSE s)
(* checkCircularDependencies starts the search at every step. *)
checkCircularDependencies ==
  FoldLeft(LAMBDA s, id : IF s.cycle THEN s ELSE detectCycle(id, s),
           [visited |-> {}, path |-> {}, cycle |-> FALSE], planOrder).cycle
(* validateStep: the dependencies exist. *)
validateStep(i) == steps[i] \subseteq Ids
ValidatePlan ==
  /\ status = NoStatus
  /\ status' = [status EXCEPT !.verdict = IF checkCircularDependencies \/ \E i \in Ids : ~validateStep(i)
                                          THEN "refused" ELSE "valid"]
  /\ UNCHANGED <<steps, planOrder>>

(* Levels, in the order of the list: one above the dependencies listed before. *)
LevelOf(above) == IF above = {} THEN 0 ELSE 1 + (CHOOSE x \in above : \A y \in above : x >= y)
Levels ==
  FoldLeft(LAMBDA lv, id : [x \in DOMAIN lv \cup {id} |->
             IF x = id THEN LevelOf({lv[d] : d \in steps[id] \cap DOMAIN lv}) ELSE lv[x]], << >>, planOrder)
(* Mutant: the loop over the levels stops before the highest. *)
reorderForParallelism_ShortLoop ==
  LET top == CHOOSE l \in 0..MaxSteps : (\E i \in Ids : Levels[i] = l) /\ \A i \in Ids : Levels[i] <= l
  IN FoldLeft(LAMBDA done, l : done \o SelectSeq(planOrder, LAMBDA id : Levels[id] = l), << >>, [l \in 1..top |-> l - 1])
(* reorderForParallelism concatenates the levels. *)
reorderForParallelism ==
  FoldLeft(LAMBDA done, l : done \o SelectSeq(planOrder, LAMBDA id : Levels[id] = l), << >>, [l \in 1..MaxSteps |-> l - 1])
OptimizePlan ==
  /\ status.verdict = "valid" /\ status.reordered = << >>
  /\ status' = [status EXCEPT !.reordered = reorderForParallelism] /\ UNCHANGED <<steps, planOrder>>

PlanNext ==
  \/ \E deps \in SUBSET Known, at \in 1..(Len(planOrder) + 1) : AddStep(deps, at)
  \/ \E i, d \in Ids : AddDependency(i, d)
  \/ ValidatePlan \/ OptimizePlan
PlanSpec == PlanInit /\ [][PlanNext]_planVars

PlanTypeOK == Len(steps) \in 1..MaxSteps /\ Len(planOrder) = Len(steps) /\ status.verdict \in {"draft", "valid", "refused"}
-----------------------------------------------------------------------------
(* Steps a step depends on, directly or not. *)
RECURSIVE Upstream(_, _)
Upstream(set, n) == IF n = 0 THEN set ELSE Upstream(set \cup UNION {steps[d] : d \in set \cap Ids}, n - 1)
(* The search refuses exactly the plans with a dependency that does not exist or with *)
(* a step that depends on itself, over any number of steps.                           *)
RefusesExactlyUnsound ==
  status.verdict # "draft" =>
    (status.verdict = "refused" <=> \E i \in Ids : i \in Upstream(steps[i], MaxSteps) \/ ~(steps[i] \subseteq Ids))

Before(seq, a, b) == \E i, k \in 1..Len(seq) : i < k /\ seq[i] = a /\ seq[k] = b
(* OptimizePlan loses no step, and a plan whose list has every dependency before its  *)
(* dependents still has after the reordering.                                          *)
ReorderKeepsOrder ==
  status.reordered # << >> =>
    /\ Range(status.reordered) = Ids /\ Len(status.reordered) = Len(steps)
    /\ (\A i \in Ids : \A d \in steps[i] : Before(planOrder, d, i))
         => \A i \in Ids : \A d \in steps[i] : Before(status.reordered, d, i)
=============================================================================

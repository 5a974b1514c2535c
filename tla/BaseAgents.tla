----------------------------- MODULE BaseAgents -----------------------------
(***************************************************************************)
(* The base agent of src/pkg/agent: a call with its callbacks,             *)
(* dependencies, the tree of sub-agents, agents as tools, and transfers.   *)
(***************************************************************************)
EXTENDS Naturals, Sequences, FiniteSets, SequencesExt, FiniteSetsExt

-----------------------------------------------------------------------------
(* AgentCall                                                               *)
(* BaseAgent.Execute: calls of agents that share one input, as a ParallelAgent and a *)
(* SequentialAgent share it, with the timing callbacks of callbacks.go attached.     *)
(* Nothing is locked: the callbacks' map and the shared input are read and written in *)
(* steps of their own. Values are read and written whole.                             *)

CONSTANTS Calls,          \* calls of Execute
          AgentOf         \* the agent of a call

VARIABLES pc,             \* where the call is
          clock,          \* start times taken so far
          startTimes,     \* agent -> start time, 0 when it has none: the callbacks' map
          own,            \* call -> when it really started
          measured,       \* call -> start time its duration was measured from, 0 for none
          instruction,    \* of the shared input: "plain", "template", or what it was resolved to
          context,        \* input.Context[outputKey]: the call that stored it, or "none"
          text,           \* call -> the instruction it read and resolves
          callSeen,       \* call -> instruction its executor found in the input
          overlapped,     \* history: calls that ran beside a call of the same agent
          crossed         \* history: two calls were resolving the instruction at once

callVars == <<pc, clock, startTimes, own, measured, instruction, context, text, callSeen, overlapped, crossed>>

AgentsOf == {AgentOf[c] : c \in Calls}
Outcomes == {"ok", "nil output", "error"}

CallInit ==
  /\ pc = [c \in Calls |-> "idle"] /\ clock = 0
  /\ startTimes = [a \in AgentsOf |-> 0]
  /\ own = [c \in Calls |-> 0] /\ measured = [c \in Calls |-> 0]
  /\ instruction \in {"template", "plain"} /\ context = "none"
  /\ text = [c \in Calls |-> "none"] /\ callSeen = [c \in Calls |-> "none"]
  /\ overlapped = {} /\ crossed = FALSE

Running(c) == pc[c] \notin {"idle", "done", "failed"}
Beside(c) == {d \in Calls \ {c} : AgentOf[d] = AgentOf[c] /\ Running(d)}

(* The before-execute callbacks, TimingCallback or MetricsCallback among them: the   *)
(* clock is read. The error of a callback that fails is passed over.                  *)
BeforeExecute(c) ==
  /\ pc[c] = "idle"
  /\ pc' = [pc EXCEPT ![c] = "timing"]
  /\ clock' = clock + 1
  /\ own' = [own EXCEPT ![c] = clock + 1]
  /\ overlapped' = IF Beside(c) = {} THEN overlapped ELSE overlapped \cup Beside(c) \cup {c}
  /\ UNCHANGED <<startTimes, measured, instruction, context, text, callSeen, crossed>>

(* Mutant: a start that is there already is kept. *)
TimingBefore_Once(c) ==
  /\ pc[c] = "timing"
  /\ pc' = [pc EXCEPT ![c] = "before"]
  /\ startTimes' = [startTimes EXCEPT ![AgentOf[c]] = IF @ = 0 THEN own[c] ELSE @]
  /\ UNCHANGED <<clock, own, measured, instruction, context, text, callSeen, overlapped, crossed>>
(* ... and what it showed is kept under the agent's id. *)
TimingBefore(c) ==
  /\ pc[c] = "timing"
  /\ pc' = [pc EXCEPT ![c] = "before"]
  /\ startTimes' = [startTimes EXCEPT ![AgentOf[c]] = own[c]]
  /\ UNCHANGED <<clock, own, measured, instruction, context, text, callSeen, overlapped, crossed>>

(* Mutant: the template is taken from where it was written down, not from the input. *)
Instruction_Original == IF instruction = "plain" THEN "plain" ELSE "template"
(* input.Instruction, as a call reads it. *)
Instruction == instruction

Resolving(c) == pc[c] \in {"read", "lookup", "write"}

(* HasTemplates: only an instruction with a placeholder is interpolated ... *)
HasTemplates(c) ==
  /\ pc[c] = "before"
  /\ pc' = [pc EXCEPT ![c] = IF Instruction = "template" THEN "read" ELSE "run"]
  /\ crossed' = (crossed \/ (Instruction = "template" /\ \E d \in Calls : Resolving(d)))
  /\ UNCHANGED <<clock, startTimes, own, measured, instruction, context, text, callSeen, overlapped>>

(* ... which reads it again ... *)
ReadInstruction(c) ==
  /\ pc[c] = "read"
  /\ pc' = [pc EXCEPT ![c] = "lookup"]
  /\ text' = [text EXCEPT ![c] = Instruction]
  /\ UNCHANGED <<clock, startTimes, own, measured, instruction, context, callSeen, overlapped, crossed>>

(* ... and puts in what the context has for its key, or leaves the placeholder. *)
InterpolateInstruction(c) ==
  /\ pc[c] = "lookup"
  /\ pc' = [pc EXCEPT ![c] = "write"]
  /\ text' = [text EXCEPT ![c] = IF @ = "template" /\ context # "none" THEN context ELSE @]
  /\ UNCHANGED <<clock, startTimes, own, measured, instruction, context, callSeen, overlapped, crossed>>

(* The input is changed in place. *)
WriteBack(c) ==
  /\ pc[c] = "write"
  /\ pc' = [pc EXCEPT ![c] = "run"]
  /\ instruction' = text[c]
  /\ UNCHANGED <<clock, startTimes, own, measured, context, text, callSeen, overlapped, crossed>>

(* The executor finds the instruction in the input it shares ... *)
Executor(c) ==
  /\ pc[c] = "run"
  /\ pc' = [pc EXCEPT ![c] = "running"]
  /\ callSeen' = [callSeen EXCEPT ![c] = instruction]
  /\ UNCHANGED <<clock, startTimes, own, measured, instruction, context, text, overlapped, crossed>>

(* ... and returns; on an error only the error callbacks follow. *)
Executed(c, outcome) ==
  /\ pc[c] = "running"
  /\ pc' = [pc EXCEPT ![c] = CASE outcome = "error" -> "failed"
                                [] outcome = "ok" -> "store"
                                [] OTHER -> "after"]
  /\ UNCHANGED <<clock, startTimes, own, measured, instruction, context, text, callSeen, overlapped, crossed>>

(* The result goes into the shared context under the output key. *)
StoreOutput(c) ==
  /\ pc[c] = "store"
  /\ pc' = [pc EXCEPT ![c] = "after"]
  /\ context' = c
  /\ UNCHANGED <<clock, startTimes, own, measured, instruction, text, callSeen, overlapped, crossed>>

(* The after-execute callbacks: the duration runs from the start found, which is     *)
(* deleted; without one nothing is measured.                                          *)
AfterExecute(c) ==
  /\ pc[c] = "after"
  /\ pc' = [pc EXCEPT ![c] = IF startTimes[AgentOf[c]] = 0 THEN "done" ELSE "timed"]
  /\ measured' = [measured EXCEPT ![c] = startTimes[AgentOf[c]]]
  /\ UNCHANGED <<clock, startTimes, own, instruction, context, text, callSeen, overlapped, crossed>>

TimingAfter(c) ==
  /\ pc[c] = "timed"
  /\ pc' = [pc EXCEPT ![c] = "done"]
  /\ startTimes' = [startTimes EXCEPT ![AgentOf[c]] = 0]
  /\ UNCHANGED <<clock, own, measured, instruction, context, text, callSeen, overlapped, crossed>>

CallNext == \E c \in Calls :
  \/ BeforeExecute(c) \/ TimingBefore(c)
  \/ HasTemplates(c) \/ ReadInstruction(c) \/ InterpolateInstruction(c) \/ WriteBack(c)
  \/ Executor(c)
  \/ \E o \in Outcomes : Executed(c, o)
  \/ StoreOutput(c)
  \/ AfterExecute(c) \/ TimingAfter(c)

CallSpec == CallInit /\ [][CallNext]_callVars

Texts == Calls \cup {"template", "plain"}
CallTypeOK ==
  /\ pc \in [Calls -> {"idle", "timing", "before", "read", "lookup", "write", "run", "running",
                        "store", "after", "timed", "done", "failed"}]
  /\ clock \in Nat /\ startTimes \in [AgentsOf -> Nat] /\ measured \in [Calls -> Nat]
  /\ context \in Calls \cup {"none"} /\ instruction \in Texts /\ text \in [Calls -> Texts \cup {"none"}]
  /\ overlapped \subseteq Calls /\ crossed \in BOOLEAN

(* A call beside which no call of the same agent ran is measured from its own start, *)
(* whatever calls before it failed and left their start behind. Calls that overlap   *)
(* share the entry and may be measured from each other's start, or not at all.        *)
AloneTimedExactly ==
  \A c \in Calls \ overlapped : pc[c] \in {"timed", "done"} => measured[c] = own[c]

(* The first resolution is kept: all calls that found the instruction resolved found *)
(* the same text, however often the key was written in between, unless two calls were *)
(* resolving it at once.                                                              *)
OneResolution ==
  ~crossed => \A c, d \in Calls : (callSeen[c] \in Calls /\ callSeen[d] \in Calls) => callSeen[c] = callSeen[d]

-----------------------------------------------------------------------------
(* AgentDag                                                                *)
(* NewAgentDAG: the depth-first walk that puts an agent and what it depends on into  *)
(* stages, deepest first, one step per visit.                                        *)

CONSTANT N           \* agents 1..N, agent 1 the root

DepsAgents == 1..N
DepsRoot == 1

VARIABLES deps,      \* agent -> sequence of the agents it depends on
          stack,     \* the calls of buildRecursive in progress: [agent, depth, next]
          visited,
          stageMap,  \* agent -> depth its task was given, or none yet
          stages     \* the result: sequence of sets of agents, <<>> until it is built

depsVars == <<deps, stack, visited, stageMap, stages>>

NoStage == N + 1

(* No call is in progress and none was made while the agents are being wired. *)
DepsInit ==
  /\ deps = [a \in DepsAgents |-> <<>>] /\ stack = <<>>
  /\ visited = {} /\ stageMap = [a \in DepsAgents |-> NoStage] /\ stages = <<>>

(* The caller wires the agents without a cycle: an agent depends on later ones. *)
AddDependency(a, b) ==
  /\ visited = {} /\ b > a /\ b \notin Range(deps[a])
  /\ deps' = [deps EXCEPT ![a] = Append(@, b)]
  /\ UNCHANGED <<stack, visited, stageMap, stages>>

NewAgentDAG ==
  /\ visited = {}
  /\ stack' = <<[agent |-> DepsRoot, depth |-> 0, next |-> 1]>>
  /\ visited' = {DepsRoot}
  /\ UNCHANGED <<deps, stageMap, stages>>

Top == Last(stack)

(* Mutant: an agent is marked when its task is made, not when it is entered. *)
Visit_LateMark ==
  /\ stack # <<>> /\ Top.next <= Len(deps[Top.agent])
  /\ LET d == deps[Top.agent][Top.next]
         on == [stack EXCEPT ![Len(stack)].next = @ + 1]
     IN stack' = Append(on, [agent |-> d, depth |-> Top.depth + 1, next |-> 1])
  /\ UNCHANGED <<deps, visited, stageMap, stages>>
(* buildRecursive takes the next dependency; one seen before is passed over and      *)
(* keeps the depth of its first visit.                                               *)
Visit ==
  /\ stack # <<>> /\ Top.next <= Len(deps[Top.agent])
  /\ LET d == deps[Top.agent][Top.next]
         on == [stack EXCEPT ![Len(stack)].next = @ + 1]
     IN /\ stack' = IF d \in visited THEN on
                    ELSE Append(on, [agent |-> d, depth |-> Top.depth + 1, next |-> 1])
        /\ visited' = visited \cup {d}
  /\ UNCHANGED <<deps, stageMap, stages>>

(* With its dependencies done an agent gets its task, in the stage of its depth. *)
MakeTask ==
  /\ stack # <<>> /\ Top.next > Len(deps[Top.agent])
  /\ stageMap' = [stageMap EXCEPT ![Top.agent] = Top.depth]
  /\ stack' = Front(stack)
  /\ UNCHANGED <<deps, visited, stages>>

AtDepth(i) == {a \in DepsAgents : stageMap[a] = i}

(* Mutant: the stages are listed from the root down. *)
OrderStages_RootFirst ==
  /\ stack = <<>> /\ visited # {} /\ stages = <<>>
  /\ LET maxDepth == Max({stageMap[a] : a \in visited})
     IN stages' = [i \in 1..maxDepth + 1 |-> AtDepth(i - 1)]
  /\ UNCHANGED <<deps, stack, visited, stageMap>>
(* The stages in order, deepest first. *)
OrderStages ==
  /\ stack = <<>> /\ visited # {} /\ stages = <<>>
  /\ LET maxDepth == Max({stageMap[a] : a \in visited})
     IN stages' = [i \in 1..maxDepth + 1 |-> AtDepth(maxDepth + 1 - i)]
  /\ UNCHANGED <<deps, stack, visited, stageMap>>

DepsNext ==
  \/ \E a, b \in DepsAgents : AddDependency(a, b)
  \/ NewAgentDAG
  \/ Visit
  \/ MakeTask
  \/ OrderStages

DepsSpec == DepsInit /\ [][DepsNext]_depsVars

DepsTypeOK ==
  /\ visited \subseteq DepsAgents /\ stageMap \in [DepsAgents -> 0..NoStage]
  /\ \A i \in 1..Len(stages) : stages[i] \subseteq DepsAgents

DependsOn(a) == Range(deps[a])
Dependents(b) == {a \in visited : b \in DependsOn(a)}
StageOf(a) == CHOOSE i \in 1..Len(stages) : a \in stages[i]

(* The root runs in the last stage and alone; where no agent is shared by two others *)
(* every agent runs in an earlier stage than the one that depends on it.             *)
TreesInOrder ==
  stages # <<>> =>
    /\ stages[Len(stages)] = {DepsRoot}
    /\ \A b \in visited : Cardinality(Dependents(b)) = 1 =>
         \A a \in Dependents(b) : StageOf(b) < StageOf(a)

(* Every agent the root depends on, directly or not, gets one task and no other      *)
(* agent gets one.                                                                   *)
TasksExact ==
  stages # <<>> =>
    /\ \A a \in visited : DependsOn(a) \subseteq visited
    /\ \A a \in DepsAgents : (a \in visited) <=> (\E i \in 1..Len(stages) : a \in stages[i])
    /\ \A a \in visited \ {DepsRoot} : Dependents(a) # {}

-----------------------------------------------------------------------------
(* AgentTree                                                               *)
(* The agent hierarchy of BaseAgent: AddSubAgent takes the child's lock and then   *)
(* the parent's, RemoveSubAgent the parent's and then the child's.  Threads run    *)
(* them concurrently; lookups read the tree they leave.                            *)

CONSTANTS TreeAgents, Threads, MaxOps

VARIABLES treeParent,  \* [Agents -> Agents \cup {"none"}]
          treeSubs,   \* [Agents -> sequence of sub-agents]
          lock,       \* [Agents -> thread holding the write lock, "none"]
          op,         \* [Threads -> [pc, p, c]]
          ops         \* operations started

treeVars == <<treeParent, treeSubs, lock, op, ops>>

TreeIdle == [pc |-> "idle", p |-> "none", c |-> "none"]

TreeInit ==
  /\ treeParent = [a \in TreeAgents |-> "none"]
  /\ treeSubs = [a \in TreeAgents |-> <<>>]
  /\ lock = [a \in TreeAgents |-> "none"]
  /\ op = [t \in Threads |-> TreeIdle]
  /\ ops = 0

Start(t, kind, p, c) ==
  /\ op[t].pc = "idle" /\ ops < MaxOps
  /\ op' = [op EXCEPT ![t] = [pc |-> kind, p |-> p, c |-> c]]
  /\ ops' = ops + 1
  /\ UNCHANGED <<treeParent, treeSubs, lock>>

(* AddSubAgent: lock the child and test the single-parent rule, *)
(* Mutant: the rule is tested before the child is locked. *)
AddCheck_Unlocked(t) ==
  /\ \/ /\ op[t].pc = "add"
        /\ op' = [op EXCEPT ![t] = IF treeParent[op[t].c] = "none" THEN [@ EXCEPT !.pc = "add unlocked"] ELSE TreeIdle]
        /\ UNCHANGED lock
     \/ /\ op[t].pc = "add unlocked" /\ lock[op[t].c] = "none"
        /\ lock' = [lock EXCEPT ![op[t].c] = t]
        /\ op' = [op EXCEPT ![t].pc = "add locked"]
  /\ UNCHANGED <<treeParent, treeSubs, ops>>

AddCheck(t) ==
  /\ op[t].pc = "add" /\ lock[op[t].c] = "none"
  /\ IF treeParent[op[t].c] # "none"
     THEN op' = [op EXCEPT ![t] = TreeIdle] /\ UNCHANGED lock
     ELSE op' = [op EXCEPT ![t].pc = "add locked"] /\ lock' = [lock EXCEPT ![op[t].c] = t]
  /\ UNCHANGED <<treeParent, treeSubs, ops>>

(* lock the parent, link both ways, release both. *)
AddLink(t) ==
  /\ op[t].pc = "add locked" /\ lock[op[t].p] = "none"
  /\ treeParent' = [treeParent EXCEPT ![op[t].c] = op[t].p]
  /\ treeSubs' = [treeSubs EXCEPT ![op[t].p] = Append(@, op[t].c)]
  /\ lock' = [lock EXCEPT ![op[t].c] = "none"]
  /\ op' = [op EXCEPT ![t] = TreeIdle]
  /\ UNCHANGED ops

(* RemoveSubAgent: lock the parent and take the child off its list, *)
RemoveFind(t) ==
  /\ op[t].pc = "remove" /\ lock[op[t].p] = "none"
  /\ IF Contains(treeSubs[op[t].p], op[t].c)
     THEN /\ treeSubs' = [treeSubs EXCEPT ![op[t].p] = SelectSeq(@, LAMBDA x : x # op[t].c)]
          /\ lock' = [lock EXCEPT ![op[t].p] = t]
          /\ op' = [op EXCEPT ![t].pc = "remove locked"]
     ELSE op' = [op EXCEPT ![t] = TreeIdle] /\ UNCHANGED <<treeSubs, lock>>
  /\ UNCHANGED <<treeParent, ops>>

(* lock the child, clear its parent, release both. *)
RemoveClear(t) ==
  /\ op[t].pc = "remove locked" /\ lock[op[t].c] = "none"
  /\ treeParent' = [treeParent EXCEPT ![op[t].c] = "none"]
  /\ lock' = [lock EXCEPT ![op[t].p] = "none"]
  /\ op' = [op EXCEPT ![t] = TreeIdle]
  /\ UNCHANGED <<treeSubs, ops>>

TreeNext ==
  \E t \in Threads :
    \/ \E p, c \in TreeAgents : Start(t, "add", p, c) \/ Start(t, "remove", p, c)
    \/ AddCheck(t) \/ AddLink(t) \/ RemoveFind(t) \/ RemoveClear(t)

TreeSpec == TreeInit /\ [][TreeNext]_treeVars

(* findAgent: the children, then the descendants of each, none visited twice.      *)
(* Returns the agent found, or "none", and the agents visited.                     *)
(* Mutant: a child's own sub-agents are searched only if it is the first. *)
RECURSIVE findAgent_FirstChild(_, _, _)
findAgent_FirstChild(a, n, seen) ==
  IF a \in seen THEN [found |-> "none", seen |-> seen]
  ELSE IF Contains(treeSubs[a], n) THEN [found |-> n, seen |-> seen \cup {a}]
  ELSE IF treeSubs[a] = <<>> THEN [found |-> "none", seen |-> seen \cup {a}]
  ELSE findAgent_FirstChild(treeSubs[a][1], n, seen \cup {a})

RECURSIVE treeFindAgent(_, _, _)
treeFindAgent(a, n, seen) ==
  IF a \in seen THEN [found |-> "none", seen |-> seen]
  ELSE IF Contains(treeSubs[a], n) THEN [found |-> n, seen |-> seen \cup {a}]
  ELSE FoldLeft(LAMBDA acc, c : IF acc.found # "none" THEN acc ELSE treeFindAgent(c, n, acc.seen),
                [found |-> "none", seen |-> seen \cup {a}], treeSubs[a])

(* GetRoot, GetPath, GetDepth: parent by parent until there is none or one comes    *)
(* round again.                                                                     *)
RECURSIVE Ancestors(_, _)
Ancestors(a, seen) ==
  IF treeParent[a] = "none" \/ treeParent[a] \in seen THEN seen
  ELSE Ancestors(treeParent[a], seen \cup {treeParent[a]})

TreeTypeOK ==
  /\ treeParent \in [TreeAgents -> TreeAgents \cup {"none"}]
  /\ \A a \in TreeAgents : treeSubs[a] \in Seq(TreeAgents)
  /\ lock \in [TreeAgents -> Threads \cup {"none"}]
  /\ ops \in 0..MaxOps

(* The single-parent rule (agent.go:396) from both sides: an agent on the list of   *)
(* an agent has it as its parent and is there once, and, when neither is locked, an  *)
(* agent is on its parent's list, for any interleaving of additions and removals.   *)
LinksAgree ==
  \A p, c \in TreeAgents :
    /\ Contains(treeSubs[p], c) => treeParent[c] = p
    /\ Cardinality({i \in DOMAIN treeSubs[p] : treeSubs[p][i] = c}) <= 1
    /\ treeParent[c] = p /\ lock[p] = "none" /\ lock[c] = "none" => Contains(treeSubs[p], c)

(* FindAgent finds exactly the agents below, GetRoot and GetDepth walk exactly the  *)
(* agents above, also when additions have closed a cycle (agent.go:456,517).        *)
LookupsAgree ==
  (\A a \in TreeAgents : lock[a] = "none") =>
    \A a, n \in TreeAgents :
      (treeFindAgent(a, n, {}).found = n) <=> (treeParent[n] # "none" /\ a \in Ancestors(treeParent[n], {treeParent[n]}))

-----------------------------------------------------------------------------
(* AgentTools                                                              *)
(* Agents as tools (pkg/agents/agent_tool.go, pkg/tools): a registry of the parent's *)
(* sub-agents, built once, beside a transfer tool that searches the hierarchy as it  *)
(* is when it is called.                                                              *)

CONSTANTS
  Children,     \* the possible sub-agents
  NameOf,       \* [Children -> names]; names may be shared
  MaxCalls

VARIABLES
  toolSubs,   \* the parent's sub-agents, in order
  nested,     \* <<a sub-agent, its own sub-agent>>, or empty
  tools,      \* [tool names -> what the tool runs], the tools registered
  made,       \* <<the sub-agents the registry was created from>>, or empty
  calls       \* the delegations so far: [tool, name, ran]

toolVars == <<toolSubs, nested, tools, made, calls>>

ToolNames == {NameOf[c] : c \in Children}
call(name) == <<"call", name>>
transfer == <<"transfer", "to_agent">>
Placed(c) == Contains(toolSubs, c) \/ Contains(nested, c)

ToolInit == toolSubs = << >> /\ nested = << >> /\ tools = << >> /\ made = << >> /\ calls = << >>

(* AddSubAgent: the single-parent rule. *)
AddSubAgent(c) ==
  /\ ~Placed(c) /\ toolSubs' = Append(toolSubs, c) /\ UNCHANGED <<nested, tools, made, calls>>
AddNested(parent, c) ==
  /\ Contains(toolSubs, parent) /\ nested = << >> /\ ~Placed(c)
  /\ nested' = <<parent, c>> /\ UNCHANGED <<toolSubs, tools, made, calls>>
RemoveSubAgent(c) ==
  /\ Contains(toolSubs, c) /\ ~Contains(nested, c)
  /\ toolSubs' = SelectSeq(toolSubs, LAMBDA x : x # c) /\ UNCHANGED <<nested, tools, made, calls>>
-----------------------------------------------------------------------------
(* Register refuses a name that is taken; its callers ignore the refusal. *)
(* Mutant: the later registration replaces the earlier. *)
Register_Replaces(reg, name, target) == [n \in DOMAIN reg \cup {name} |-> IF n = name THEN target ELSE reg[n]]
Register(reg, name, target) ==
  IF name \in DOMAIN reg THEN reg ELSE [n \in DOMAIN reg \cup {name} |-> IF n = name THEN target ELSE reg[n]]
(* WrapAgentAsTool, for every sub-agent in order. *)
WrapSubAgentsAsTools(reg) == FoldLeft(LAMBDA r, c : Register(r, call(NameOf[c]), c), reg, toolSubs)
(* The transfer tool first, the sub-agents, then the caller's additional tools. *)
CreateHierarchicalToolRegistry(extra) ==
  /\ made = << >> /\ made' = <<toolSubs>>
  /\ tools' = FoldLeft(LAMBDA r, n : Register(r, n, "builtin"),
                       WrapSubAgentsAsTools(Register(<< >>, transfer, "transfer")), SetToSeq(extra))
  /\ UNCHANGED <<toolSubs, nested, calls>>
(* An AgentToolBuilder tool, under a name of its own. *)
BuildAgentTool(c, name) ==
  /\ made # << >> /\ Contains(toolSubs, c) /\ name \notin DOMAIN tools
  /\ tools' = Register(tools, name, c) /\ UNCHANGED <<toolSubs, nested, made, calls>>
(* findAgent: the children before the children's children. *)
(* Mutant: the descendants of a child are searched before the next child. *)
findAgent_DepthFirst(name) ==
  LET all == nested \o toolSubs
      hits == {i \in 1..Len(all) : NameOf[all[i]] = name}
  IN IF hits = {} THEN "none" ELSE all[CHOOSE i \in hits : \A k \in hits : i <= k]
toolFindAgent(name) ==
  LET all == toolSubs \o nested
      hits == {i \in 1..Len(all) : NameOf[all[i]] = name}
  IN IF hits = {} THEN "none" ELSE all[CHOOSE i \in hits : \A k \in hits : i <= k]
(* The transfer tool's handler looks the name up when it is called. *)
transferTo(name) == toolFindAgent(name)
(* Execute of a tool: a sub-agent's tool runs it, the transfer tool the agent it finds. *)
ToolExecute(tool, name) ==
  /\ made # << >> /\ Len(calls) < MaxCalls /\ tool \in DOMAIN tools /\ (tool # transfer => name = tool[2])
  /\ calls' = Append(calls, [tool |-> tool, name |-> name,
                             ran |-> IF tools[tool] = "transfer" THEN transferTo(name) ELSE tools[tool]])
  /\ UNCHANGED <<toolSubs, nested, tools, made>>

ToolNext ==
  \/ \E c \in Children : AddSubAgent(c) \/ RemoveSubAgent(c)
  \/ \E p, c \in Children : AddNested(p, c)
  \/ \E extra \in SUBSET ({transfer} \cup {call(n) : n \in ToolNames}) : CreateHierarchicalToolRegistry(extra)
  \/ \E c \in Children : BuildAgentTool(c, call("own"))
  \/ \E tool \in DOMAIN tools : \E n \in ToolNames \cup {"own"} : ToolExecute(tool, n)
ToolSpec == ToolInit /\ [][ToolNext]_toolVars

ToolTypeOK == ToSet(toolSubs) \subseteq Children /\ Len(made) <= 1 /\ Len(calls) <= MaxCalls
-----------------------------------------------------------------------------
(* The two ways a model can delegate agree: until one of the sub-agents it was built *)
(* from is removed, transfer_to_agent(name) finds the agent that call_<name> runs,   *)
(* with several agents of one name, nested agents and agents added later.            *)
DelegationAgrees ==
  (made # << >> /\ IsPrefix(made[1], toolSubs)) =>
    \A i \in 1..Len(made[1]) : LET n == NameOf[made[1][i]] IN toolFindAgent(n) = tools[call(n)]
(* Every registry made for a hierarchy can transfer: no additional tool takes the    *)
(* transfer tool's name, and a transfer never runs a tool that is not an agent.      *)
TransferStays ==
  /\ made # << >> => transfer \in DOMAIN tools /\ tools[transfer] = "transfer"
  /\ \A i \in 1..Len(calls) : calls[i].tool = transfer => calls[i].ran # "builtin"

-----------------------------------------------------------------------------
(* AutoFlow                                                                *)
(* AutoFlow.Execute: an agent runs, and when its answer asks for a transfer the    *)
(* target is looked up within the configured scope and run in its place, a bounded  *)
(* number of times.  The invocation context is a field of the AutoFlow, so that     *)
(* invocations that overlap read and write the context of the one started last; it  *)
(* is stored first and filled in through the field, in steps of their own.          *)

CONSTANTS Invocations,   \* calls of Execute on one AutoFlow
          Parent,        \* the hierarchy: [agent -> its parent, "none" for the root]
          Entry,         \* the agents an invocation may start with
          Scopes,        \* the scopes configured, among TransferScope
          MaxTransfers, DefaultTransfers,   \* the configured limit; a new context's (10)
          MaxChanges     \* changes of scope while invocations run

AutoAgents == DOMAIN Parent
AutoNames == AutoAgents \cup {"unknown", ""}
TransferScope == {"disabled", "parent", "siblings", "sub_agents", "descendants", "all"}

VARIABLES invocationCtx, \* AutoFlow's field: the invocation whose context it holds
          ctx,           \* [Invocations -> [cur: CurrentAgent, hist: TransferHistory, max: MaxTransfers]]
          run,           \* [Invocations -> [pc, agent, target]]
          scope, allow, changes,
          runs,          \* history: agent executions
          mixed          \* history: two invocations have overlapped

autoVars == <<invocationCtx, ctx, run, scope, allow, changes, runs, mixed>>

AutoIdle == [pc |-> "idle", agent |-> "none", target |-> "none"]
NoCtx == [cur |-> "none", hist |-> <<>>, max |-> 0]

AutoInit ==
  /\ invocationCtx = "none"
  /\ ctx = [i \in Invocations |-> NoCtx]
  /\ run = [i \in Invocations |-> AutoIdle]
  /\ scope \in Scopes /\ allow \in BOOLEAN /\ changes = 0
  /\ runs = 0 /\ mixed = FALSE

RECURSIVE Above(_)
Above(a) == IF Parent[a] = "none" THEN {} ELSE {Parent[a]} \cup Above(Parent[a])
AutoRoot == CHOOSE a \in AutoAgents : Parent[a] = "none"

(* findAgentInScope, from the current agent of the context the AutoFlow holds. *)
(* Mutant: direct sub-agents are looked up as descendants. *)
findAgentInScope_Deep(cur, sc) ==
  {a \in AutoAgents :
     CASE sc = "disabled"    -> FALSE
       [] sc = "parent"      -> Parent[cur] = a
       [] sc = "siblings"    -> Parent[cur] # "none" /\ Parent[a] = Parent[cur] /\ a # cur
       [] sc = "sub_agents"  -> cur \in Above(a)
       [] sc = "descendants" -> cur \in Above(a)
       [] sc = "all"         -> AutoRoot \in Above(a)}

findAgentInScope(cur, sc) ==
  {a \in AutoAgents :
     CASE sc = "disabled"    -> FALSE
       [] sc = "parent"      -> Parent[cur] = a
       [] sc = "siblings"    -> Parent[cur] # "none" /\ Parent[a] = Parent[cur] /\ a # cur
       [] sc = "sub_agents"  -> Parent[a] = cur
       [] sc = "descendants" -> cur \in Above(a)
       [] sc = "all"         -> AutoRoot \in Above(a)}

Finish(i) == run' = [run EXCEPT ![i] = [AutoIdle EXCEPT !.pc = "done"]]

(* Execute: a new context, at the root and with the default limit, replaces the one  *)
(* the AutoFlow holds.                                                                *)
AutoExecute(i, a) ==
  /\ run[i].pc = "idle"
  /\ invocationCtx' = i
  /\ ctx' = [ctx EXCEPT ![i] = [cur |-> AutoRoot, hist |-> <<>>, max |-> DefaultTransfers]]
  /\ run' = [run EXCEPT ![i] = [pc |-> "limit", agent |-> a, target |-> "none"]]
  /\ mixed' = (mixed \/ \E j \in Invocations : run[j].pc \notin {"idle", "done"})
  /\ UNCHANGED <<scope, allow, changes, runs>>

(* The limit goes into the context the field holds by now ... *)
SetMaxTransfers(i) ==
  /\ run[i].pc = "limit"
  /\ ctx' = [ctx EXCEPT ![invocationCtx].max = MaxTransfers]
  /\ run' = [run EXCEPT ![i].pc = "current"]
  /\ UNCHANGED <<invocationCtx, scope, allow, changes, runs, mixed>>

(* ... and so does the agent, which runs then. *)
SetCurrentAgent(i) ==
  /\ run[i].pc = "current"
  /\ ctx' = [ctx EXCEPT ![invocationCtx].cur = run[i].agent]
  /\ run' = [run EXCEPT ![i].pc = "run"]
  /\ runs' = runs + 1
  /\ UNCHANGED <<invocationCtx, scope, allow, changes, mixed>>

(* The agent fails, or answers without asking for a transfer, or transfers are off. *)
executeWithTransfer(i) ==
  /\ run[i].pc = "run"
  /\ Finish(i)
  /\ UNCHANGED <<invocationCtx, ctx, scope, allow, changes, runs, mixed>>

(* handleTransferRequest: no target, or none in scope, fails the invocation. *)
handleTransferRequest(i, name) ==
  /\ run[i].pc = "run" /\ allow
  /\ IF name \in findAgentInScope(ctx[invocationCtx].cur, scope)
     THEN run' = [run EXCEPT ![i].pc = "transfer", ![i].target = name]
     ELSE Finish(i)
  /\ UNCHANGED <<invocationCtx, ctx, scope, allow, changes, runs, mixed>>

(* TransferTo and the run of the target. *)
(* Mutant: the limit is tested after the record is added. *)
TransferTo_Late(i) ==
  /\ run[i].pc = "transfer"
  /\ LET c == invocationCtx
         t == run[i].target
     IN IF Len(ctx[c].hist) > ctx[c].max
        THEN Finish(i) /\ UNCHANGED <<ctx, runs>>
        ELSE /\ ctx' = [ctx EXCEPT ![c] = [@ EXCEPT !.cur = t, !.hist = Append(@, [from |-> ctx[c].cur, to |-> t])]]
             /\ run' = [run EXCEPT ![i] = [pc |-> "run", agent |-> t, target |-> "none"]]
             /\ runs' = runs + 1
  /\ UNCHANGED <<invocationCtx, scope, allow, changes, mixed>>

(* Mutant: the record names the agent the invocation started with. *)
TransferTo_FromStart(i) ==
  /\ run[i].pc = "transfer"
  /\ LET c == invocationCtx
         t == run[i].target
     IN IF Len(ctx[c].hist) >= ctx[c].max
        THEN Finish(i) /\ UNCHANGED <<ctx, runs>>
        ELSE /\ ctx' = [ctx EXCEPT ![c] = [@ EXCEPT !.cur = t, !.hist = Append(@,
                        [from |-> IF @ = <<>> THEN ctx[c].cur ELSE @[1].from, to |-> t])]]
             /\ run' = [run EXCEPT ![i] = [pc |-> "run", agent |-> t, target |-> "none"]]
             /\ runs' = runs + 1
  /\ UNCHANGED <<invocationCtx, scope, allow, changes, mixed>>

TransferTo(i) ==
  /\ run[i].pc = "transfer"
  /\ LET c == invocationCtx
         t == run[i].target
     IN IF Len(ctx[c].hist) >= ctx[c].max
        THEN Finish(i) /\ UNCHANGED <<ctx, runs>>
        ELSE /\ ctx' = [ctx EXCEPT ![c] = [@ EXCEPT !.cur = t, !.hist = Append(@, [from |-> ctx[c].cur, to |-> t])]]
             /\ run' = [run EXCEPT ![i] = [pc |-> "run", agent |-> t, target |-> "none"]]
             /\ runs' = runs + 1
  /\ UNCHANGED <<invocationCtx, scope, allow, changes, mixed>>

SetTransferScope(s) ==
  /\ changes < MaxChanges /\ s # scope
  /\ scope' = s /\ changes' = changes + 1
  /\ UNCHANGED <<invocationCtx, ctx, run, allow, runs, mixed>>

SetAllowTransfer ==
  /\ changes < MaxChanges
  /\ allow' = ~allow /\ changes' = changes + 1
  /\ UNCHANGED <<invocationCtx, ctx, run, scope, runs, mixed>>

AutoNext ==
  \/ \E i \in Invocations :
       \/ \E a \in Entry : AutoExecute(i, a)
       \/ SetMaxTransfers(i) \/ SetCurrentAgent(i) \/ executeWithTransfer(i)
       \/ \E n \in AutoNames : handleTransferRequest(i, n)
       \/ TransferTo(i)
  \/ SetAllowTransfer
  \/ \E s \in Scopes : SetTransferScope(s)

AutoSpec == AutoInit /\ [][AutoNext]_autoVars

AutoTypeOK ==
  /\ invocationCtx \in Invocations \cup {"none"}
  /\ \A i \in Invocations :
       /\ ctx[i].cur \in AutoAgents \cup {"none"}
       /\ run[i].pc \in {"idle", "limit", "current", "run", "transfer", "done"}
  /\ scope \in TransferScope /\ allow \in BOOLEAN /\ changes \in 0..MaxChanges
  /\ runs \in Nat /\ mixed \in BOOLEAN

Started == {i \in Invocations : run[i].pc # "idle"}

(* MaxTransfers "prevents infinite loops" (invocation_context.go:31): however the   *)
(* invocations overlap and whichever context their transfers are recorded in, the    *)
(* agents run at most once per invocation and once per transfer a context allows,     *)
(* which is what was configured or, while invocations overlap, a new context's limit. *)
Limit == IF mixed /\ DefaultTransfers > MaxTransfers THEN DefaultTransfers ELSE MaxTransfers
RunsBounded == runs <= Cardinality(Started) * (Limit + 1)

(* Unless invocations overlapped, the history is the path the invocation took: each  *)
(* transfer starts where the one before ended, and its end is the agent running.      *)
HistoryIsPath ==
  ~mixed => \A i \in Invocations :
    LET h == ctx[i].hist
    IN /\ \A k \in 2..Len(h) : h[k].from = h[k - 1].to
       /\ h # <<>> => ctx[i].cur = h[Len(h)].to
       /\ run[i].pc \in {"run", "transfer"} => ctx[i].cur = run[i].agent

(* The scope an agent may transfer in, by the documentation of each scope            *)
(* (autoflow.go:15-31), from the agent that asked.                                    *)
Allowed(asker, target, s) ==
  \/ s = "parent" /\ target = Parent[asker]
  \/ s = "siblings" /\ target # asker /\ Parent[target] = Parent[asker]
  \/ s = "sub_agents" /\ Parent[target] = asker
  \/ s = "descendants" /\ asker \in Above(target)
  \/ s = "all"

(* An agent is only given the work of one that may transfer to it, when invocations  *)
(* do not overlap; also when the scope is changed while they run.                    *)
ScopeKeptStep ==
  \A i \in Invocations :
    run[i].pc = "run" /\ run'[i].pc = "transfer" /\ ~mixed =>
      Allowed(run[i].agent, run'[i].target, scope)
=============================================================================

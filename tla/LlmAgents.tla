----------------------------- MODULE LlmAgents ------------------------------
(***************************************************************************)
(* Agents that ask a model or a person: the reason-act agent, the enhanced *)
(* one, and the human agent (src/pkg/agents).                              *)
(***************************************************************************)
EXTENDS Naturals, Sequences, FiniteSets, SequencesExt

-----------------------------------------------------------------------------
(* LlmAgent                                                                *)
(* LlmAgent, and LlmAgentWithAutoFlow: repeated calls of one agent, with the         *)
(* counting callbacks of llm_callbacks.go attached to its model calls and its tools. *)

CONSTANTS ReactMaxRuns, ReactMaxIterations,
          RateLimit        \* maxCallsPerMinute of the RateLimiterCallback

VARIABLES agent,      \* [kind, react, model: is there one, tools: enabled]
          reactRun,   \* [pc, round, text, result]
          history,    \* conversationHistory of the ReAct loop
          used,       \* model calls that answered, of all calls of the agent
          metrics,    \* [modelCalls, toolCalls, tokens]: what the callbacks counted
          window,     \* RateLimiterCallback.calls
          handled,    \* tools whose handler ran, in the call in progress
          reactRuns

reactVars == <<agent, reactRun, history, used, metrics, window, handled, reactRuns>>

Tools == {"known", "disabled"}       \* both registered; only "known" is enabled
ReactTexts == {"answer", "final", "transfer"} \cup Tools
ReactIdle == [pc |-> "idle", round |-> 0, text |-> "none", result |-> "none"]

(* NewLlmAgent, NewLlmAgentWithAutoFlow: an agent without a model exists only in the *)
(* plain mode, where its single tool is called instead.                              *)
ReactInit ==
  /\ agent \in {a \in [kind : {"llm", "autoflow"}, react : BOOLEAN, model : BOOLEAN] :
                  /\ a.kind = "autoflow" => a.model /\ ~a.react
                  /\ a.react => a.model}
  /\ reactRun = ReactIdle /\ history = <<>> /\ used = 0 /\ window = 0 /\ reactRuns = 0
  /\ metrics = [modelCalls |-> 0, toolCalls |-> 0, tokens |-> 0]
  /\ handled = {}

ReactExecute ==
  /\ reactRun.pc = "idle" /\ reactRuns < ReactMaxRuns
  /\ reactRuns' = reactRuns + 1 /\ handled' = {}
  /\ reactRun' = [ReactIdle EXCEPT !.pc = CASE agent.kind = "autoflow" -> "autoflow"
                                  [] agent.model -> "ask"
                                  [] OTHER -> "stand in", !.round = 1]
  /\ history' = IF agent.react THEN <<"system", "task">> ELSE <<>>
  /\ UNCHANGED <<agent, used, metrics, window>>

(* executeLLMAndDetectTransfer: one question; a transfer the model asks for is only  *)
(* recorded in the metadata of the answer.                                           *)
executeLLMAndDetectTransfer(text) ==
  /\ reactRun.pc = "autoflow"
  /\ IF text = "failed" THEN reactRun' = [reactRun EXCEPT !.pc = "done", !.result = "error"] /\ UNCHANGED used
     ELSE /\ reactRun' = [reactRun EXCEPT !.pc = "done", !.result = IF text = "transfer" THEN "transfer requested" ELSE "answer"]
          /\ used' = used + 1
  /\ UNCHANGED <<agent, history, metrics, window, handled, reactRuns>>

(* The before-model callbacks: the rate limiter counts until its limit and then      *)
(* fails, which stops nothing; the collector counts every one.                       *)
RateLimiterBefore == window' = IF window < RateLimit THEN window + 1 ELSE window
ReactBeforeModel == RateLimiterBefore /\ metrics' = [metrics EXCEPT !.modelCalls = @ + 1]

ReactAsk ==
  /\ reactRun.pc = "ask"
  /\ ReactBeforeModel
  /\ reactRun' = [reactRun EXCEPT !.pc = "generate"]
  /\ UNCHANGED <<agent, history, used, handled, reactRuns>>

(* Without a model a tool call is made up for the single enabled tool. *)
StandIn ==
  /\ reactRun.pc = "stand in"
  /\ reactRun' = [reactRun EXCEPT !.pc = "tool", !.text = "known"]
  /\ UNCHANGED <<agent, history, used, metrics, window, handled, reactRuns>>

(* Mutant: the loop leaves out the callbacks after an answer. *)
AfterModel_FirstOnly(round) ==
  metrics' = IF round = 1 THEN [metrics EXCEPT !.tokens = @ + 1] ELSE metrics
(* The after-model callbacks follow every answer of the ReAct loop, and the first    *)
(* answer of a plain call.                                                           *)
ReactAfterModel(round) ==
  metrics' = IF agent.react \/ round = 1 THEN [metrics EXCEPT !.tokens = @ + 1] ELSE metrics

ReactNextRound(r) == IF r.round < ReactMaxIterations THEN [r EXCEPT !.pc = "ask", !.round = @ + 1]
                ELSE [r EXCEPT !.pc = "done", !.result = "maximum iterations"]

(* executeSimple looks for a tool call in the first answer; every other answer is    *)
(* its result.                                                                       *)
Answered(text) ==
  IF text \in Tools /\ reactRun.round = 1 THEN [reactRun EXCEPT !.pc = "tool", !.text = text]
  ELSE [reactRun EXCEPT !.pc = "done", !.result = text]
(* Generate and what follows an answer: executeReAct looks for a tool call in every  *)
(* one until the final one.                                                          *)
ReactGenerate(text) ==
  /\ reactRun.pc = "generate"
  /\ IF text = "failed"
     THEN reactRun' = [reactRun EXCEPT !.pc = "done", !.result = "error"] /\ UNCHANGED <<used, metrics, history>>
     ELSE /\ used' = used + 1
          /\ ReactAfterModel(reactRun.round)
          /\ history' = IF agent.react THEN Append(history, text) ELSE history
          /\ reactRun' = CASE ~agent.react -> Answered(text)
                      [] agent.react /\ text \in Tools -> [reactRun EXCEPT !.pc = "tool", !.text = text]
                      [] agent.react /\ text = "final" -> [reactRun EXCEPT !.pc = "done", !.result = text]
                      [] OTHER -> ReactNextRound(reactRun)
  /\ UNCHANGED <<agent, window, handled, reactRuns>>

Enabled(tool) == tool = "known"

(* Mutant: a failed action leaves no observation. *)
Observe_Silent(ok) == history' = IF ok THEN Append(history, "observation") ELSE history
Observe(ok) == history' = Append(history, "observation")

(* executeSimple after the tool: its failure ends the call; otherwise the            *)
(* before-model callbacks run, even when there is no model to ask once more.         *)
ReactFollowUp(fine) ==
  /\ reactRun' = CASE ~fine -> [reactRun EXCEPT !.pc = "done", !.result = "error"]
              [] fine /\ agent.model -> [reactRun EXCEPT !.pc = "generate", !.round = 2]
              [] OTHER -> [reactRun EXCEPT !.pc = "done", !.result = "tool result"]
  /\ IF fine THEN RateLimiterBefore ELSE UNCHANGED window

(* executeTool: a tool that is not enabled is refused before any callback. After it  *)
(* the loop goes round with an observation and the plain call asks once more.        *)
reactExecuteTool(ok) ==
  /\ reactRun.pc = "tool"
  /\ LET on == Enabled(reactRun.text)
         fine == on /\ ok
     IN /\ handled' = IF on THEN handled \cup {reactRun.text} ELSE handled
        /\ IF agent.react
           THEN /\ Observe(fine)
                /\ reactRun' = ReactNextRound(reactRun)
                /\ metrics' = [metrics EXCEPT !.toolCalls = IF on THEN @ + 1 ELSE @]
                /\ UNCHANGED window
           ELSE /\ ReactFollowUp(fine)
                /\ metrics' = [metrics EXCEPT !.toolCalls = IF on THEN @ + 1 ELSE @,
                                              !.modelCalls = IF fine THEN @ + 1 ELSE @]
                /\ UNCHANGED history
  /\ UNCHANGED <<agent, used, reactRuns>>

ReactReturn == reactRun.pc = "done" /\ reactRun' = ReactIdle /\ history' = <<>>
  /\ UNCHANGED <<agent, used, metrics, window, handled, reactRuns>>

ReactNext ==
  \/ ReactExecute
  \/ \E t \in ReactTexts \cup {"failed"} : executeLLMAndDetectTransfer(t)
  \/ ReactAsk
  \/ StandIn
  \/ \E t \in ReactTexts \cup {"failed"} : ReactGenerate(t)
  \/ \E ok \in BOOLEAN : reactExecuteTool(ok)
  \/ ReactReturn

ReactSpec == ReactInit /\ [][ReactNext]_reactVars

ReactTypeOK ==
  /\ reactRun.pc \in {"idle", "autoflow", "ask", "stand in", "generate", "tool", "done"}
  /\ used \in Nat /\ window \in 0..RateLimit /\ reactRuns \in 0..ReactMaxRuns /\ handled \subseteq Tools

(* In the ReAct loop every answer of the model is counted by the callbacks, over all *)
(* calls; a plain call never counts more than the model gave.                        *)
TokensAgree ==
  /\ agent.react => metrics.tokens = used
  /\ metrics.tokens <= used

(* Every action the ReAct loop takes is answered: in the conversation an action is   *)
(* followed by exactly one observation unless its tool is running or it ended the    *)
(* loop, and no observation comes from nowhere.                                      *)
ActionsObserved ==
  \A i \in 3..Len(history) :
    /\ history[i] = "observation" => history[i - 1] \in Tools
    /\ history[i] \in Tools =>
         \/ i < Len(history) /\ history[i + 1] = "observation"
         \/ i = Len(history) /\ reactRun.pc = "tool"

-----------------------------------------------------------------------------
(* EnhancedLlm                                                             *)
(* EnhancedLlmAgent: repeated calls of one agent whose before-model chain is a       *)
(* content filter followed by a response cache, and whose after-model chain is the   *)
(* cache alone or with a response modifier on either side. The standard callbacks    *)
(* may rewrite the prompt before the model and the response after it. A prompt is    *)
(* the history it is joined from; an output is what the model wrote and how often    *)
(* it was changed since. Outputs are pointers: what is changed in place after the    *)
(* cache kept it is changed in the cache.                                            *)

CONSTANTS EnhancedMaxRuns,  \* calls of Execute
          EnhancedMaxIterations  \* of the ReAct loop

VARIABLES config,     \* what the agent and the callbacks it was built with are like
          cache,      \* set of [prompt, out]: CacheCallback.cache
          enhancedRun,  \* the call in progress
          calls,      \* model calls of the call in progress
          tools,      \* handlers run in the call in progress
          enhancedRuns  \* calls started

enhancedVars == <<config, cache, enhancedRun, calls, tools, enhancedRuns>>

EnhancedTexts == {"answer", "use tool", "final", "empty final"}
Out(text, mods) == [text |-> text, mods |-> mods]
NoOut == Out("none", 0)
Modifiers == {"replace", "in place"}
Orders == {<<"cache">>} \cup {<<"cache", m>> : m \in Modifiers} \cup {<<m, "cache">> : m \in Modifiers}
EnhancedIdle == [pc |-> "idle", prompt |-> <<>>, key |-> <<>>, out |-> NoOut, round |-> 0, result |-> "none"]

Ended(result) == [EnhancedIdle EXCEPT !.pc = "done", !.result = result]
Configs == [order : Orders,      \* the after-model chain
            rewrites : BOOLEAN,  \* a standard before-model callback rewrites the prompt
            filters : BOOLEAN,   \* a standard after-model callback changes the response
            react : BOOLEAN]     \* useReAct of the agent the executor refers to

EnhancedInit ==
  /\ config \in Configs
  /\ cache = {} /\ enhancedRun = EnhancedIdle /\ calls = 0 /\ tools = 0 /\ enhancedRuns = 0

(* What the callbacks around the agent and around a tool may say: content stands in  *)
(* for what they surround; an error is passed over, as every chain is run with       *)
(* stopOnError false.                                                                *)
Verdicts == {"content", "continue", "error"}
ExecuteBeforeAgent(verdict) == verdict = "content"
ExecuteAfterAgent(result, verdict) == IF verdict = "content" THEN "callback" ELSE result
ExecuteBeforeTool(verdict) == verdict = "content"

(* Execute's head: a callback may answer for the whole agent. *)
EnhancedExecute(verdict) ==
  /\ enhancedRun.pc = "idle" /\ enhancedRuns < EnhancedMaxRuns
  /\ enhancedRuns' = enhancedRuns + 1
  /\ enhancedRun' = IF ExecuteBeforeAgent(verdict) THEN [EnhancedIdle EXCEPT !.pc = "final output", !.out = Out("callback", 0)]
            ELSE [EnhancedIdle EXCEPT !.pc = "before model", !.prompt = <<"task">>, !.round = 1]
  /\ UNCHANGED <<config, cache, calls, tools>>

(* A prompt provider that fails ends the call before the model is asked. *)
resolveInstruction ==
  /\ enhancedRun.pc = "before model" /\ enhancedRun.round = 1
  /\ enhancedRun' = Ended("error")
  /\ UNCHANGED <<config, cache, calls, tools, enhancedRuns>>

Cached(prompt) == {e \in cache : e.prompt = prompt}
(* The chain before the model: the filter's refusal is an error and an error is      *)
(* passed over, so only the cache can answer.                                        *)
ExecuteBeforeModel(prompt, allowed) ==
  LET verdicts == <<IF allowed THEN "continue" ELSE "error",
                    IF Cached(prompt) # {} THEN "content" ELSE "continue">>
      stops == {i \in 1..Len(verdicts) : verdicts[i] = "content"}
  IN IF stops = {} THEN NoOut ELSE (CHOOSE e \in Cached(prompt) : TRUE).out

(* modelInput.Prompt, which the standard callbacks rewrite in place on the way to    *)
(* the model; the follow-up of executeSimple does not run them.                      *)
Asked(prompt, followUp) == IF config.rewrites /\ ~followUp THEN <<"rewritten">> \o prompt ELSE prompt
EnhancedFollowUp == ~config.react /\ enhancedRun.round = 2
(* An answered follow-up leaves with it at once; every other answer goes through the *)
(* after-model chain.                                                                *)
EnhancedBeforeModel(allowed) ==
  /\ enhancedRun.pc = "before model"
  /\ LET o == ExecuteBeforeModel(enhancedRun.prompt, allowed)
     IN enhancedRun' = IF o = NoOut THEN [enhancedRun EXCEPT !.pc = "generate", !.key = Asked(enhancedRun.prompt, EnhancedFollowUp)]
               ELSE [enhancedRun EXCEPT !.out = o, !.key = enhancedRun.prompt,
                                !.pc = IF EnhancedFollowUp THEN "final output" ELSE "after model"]
  /\ UNCHANGED <<config, cache, calls, tools, enhancedRuns>>

EnhancedGenerate(text) ==
  /\ enhancedRun.pc = "generate"
  /\ calls' = calls + 1
  /\ enhancedRun' = IF text = "failed" THEN Ended("error")
            ELSE [enhancedRun EXCEPT !.out = Out(text, 0), !.pc = "after model"]
  /\ UNCHANGED <<config, cache, tools, enhancedRuns>>

(* Mutant: the chain is run from its end. *)
Chain_Reversed(chain) == [i \in DOMAIN chain |-> chain[Len(chain) + 1 - i]]
Chain(chain) == chain
Modified(o) == Out(o.text, o.mods + 1)
(* A change in place: the entry that is the same pointer changes with the output. *)
InPlace(r) == [r EXCEPT !.out = Modified(@), !.kept = IF r.shared THEN Modified(@) ELSE @]
(* One after-model callback, given what the one before it left: the cache keeps the  *)
(* pointer it is given; a modifier returns another output or changes this one.       *)
Callback(r, c) ==
  CASE c = "cache" -> [r EXCEPT !.kept = r.out, !.shared = TRUE]
    [] c = "replace" -> [r EXCEPT !.out = Modified(@), !.shared = FALSE]
    [] c = "in place" -> InPlace(r)
(* ExecuteAfterModel. A cached answer is the entry itself before the chain starts. *)
ExecuteAfterModel(chain, o) ==
  FoldLeft(Callback, [out |-> o, kept |-> o, shared |-> TRUE], chain)
(* ExecuteAfter, which the follow-up does not run: a filter that fails leaves the    *)
(* response as it is.                                                                *)
ExecuteAfter(r) == IF config.filters /\ ~EnhancedFollowUp THEN {r, InPlace(r)} ELSE {r}

EnhancedAfterModel ==
  /\ enhancedRun.pc = "after model"
  /\ \E r \in ExecuteAfter(ExecuteAfterModel(Chain(config.order), enhancedRun.out)) :
        /\ enhancedRun' = [enhancedRun EXCEPT !.out = r.out, !.pc = IF config.react THEN "react" ELSE "simple"]
        /\ cache' = (cache \ Cached(enhancedRun.key)) \cup {[prompt |-> enhancedRun.key, out |-> r.kept]}
  /\ UNCHANGED <<config, calls, tools, enhancedRuns>>

(* executeSimple: a tool call found in the first answer is run and the model asked   *)
(* once more; the answer to that is final whatever it says.                          *)
executeSimple ==
  /\ enhancedRun.pc = "simple"
  /\ enhancedRun' = [enhancedRun EXCEPT !.pc = IF enhancedRun.round = 1 /\ enhancedRun.out.text = "use tool" THEN "tool" ELSE "final output"]
  /\ UNCHANGED <<config, cache, calls, tools, enhancedRuns>>

OutOfRounds(r) == [r EXCEPT !.pc = "final output", !.out = Out("maximum iterations", 0)]
(* Mutant: the loop tests its bound after one round more. *)
NextRound_Late(r, more) ==
  IF r.round <= EnhancedMaxIterations THEN [r EXCEPT !.pc = "before model", !.round = @ + 1, !.prompt = @ \o more]
  ELSE OutOfRounds(r)

EnhancedNextRound(r, more) ==
  IF r.round < EnhancedMaxIterations THEN [r EXCEPT !.pc = "before model", !.round = @ + 1, !.prompt = @ \o more]
  ELSE OutOfRounds(r)

(* executeReAct after parseReActStep: a final answer ends the loop (an empty one is  *)
(* told apart from none only by its being empty, so it is reported as the bound), an *)
(* action runs a tool, anything else goes round again.                               *)
executeReAct ==
  /\ enhancedRun.pc = "react"
  /\ enhancedRun' = CASE enhancedRun.out.text = "final" -> [enhancedRun EXCEPT !.pc = "final output"]
              [] enhancedRun.out.text = "empty final" -> OutOfRounds(enhancedRun)
              [] enhancedRun.out.text = "use tool" -> [enhancedRun EXCEPT !.pc = "tool"]
              [] OTHER -> EnhancedNextRound(enhancedRun, <<enhancedRun.out>>)
  /\ UNCHANGED <<config, cache, calls, tools, enhancedRuns>>

Observation(fine) == IF fine THEN "result" ELSE "error"
(* executeTool: unknown or not enabled is an error; a before-tool callback may       *)
(* answer for the tool; the handler may fail. The simple call fails with it, the     *)
(* ReAct loop takes it as an observation.                                            *)
enhancedExecuteTool(enabled, verdict, ok) ==
  /\ enhancedRun.pc = "tool"
  /\ LET answered == ExecuteBeforeTool(verdict)
         fine == enabled /\ (answered \/ ok)
     IN /\ tools' = IF enabled /\ ~answered THEN tools + 1 ELSE tools
        /\ enhancedRun' = CASE config.react -> EnhancedNextRound(enhancedRun, <<enhancedRun.out, Observation(fine)>>)
                    [] ~config.react /\ fine -> [enhancedRun EXCEPT !.pc = "before model", !.round = 2,
                                                            !.prompt = @ \o <<enhancedRun.out, Observation(fine)>>]
                    [] OTHER -> Ended("error")
  /\ UNCHANGED <<config, cache, calls, enhancedRuns>>

(* finalOutput, ExecuteAfterAgent and maybeStoreOutput. *)
FinalOutput(verdict) ==
  /\ enhancedRun.pc = "final output"
  /\ enhancedRun' = Ended(ExecuteAfterAgent(enhancedRun.out.text, verdict))
  /\ UNCHANGED <<config, cache, calls, tools, enhancedRuns>>

EnhancedReturn == enhancedRun.pc = "done" /\ enhancedRun' = EnhancedIdle /\ calls' = 0 /\ tools' = 0
  /\ UNCHANGED <<config, cache, enhancedRuns>>

EnhancedNext ==
  \/ \E v \in Verdicts : EnhancedExecute(v)
  \/ resolveInstruction
  \/ \E allowed \in BOOLEAN : EnhancedBeforeModel(allowed)
  \/ \E t \in EnhancedTexts \cup {"failed"} : EnhancedGenerate(t)
  \/ EnhancedAfterModel
  \/ executeSimple
  \/ executeReAct
  \/ \E enabled, ok \in BOOLEAN, v \in Verdicts : enhancedExecuteTool(enabled, v, ok)
  \/ \E v \in Verdicts : FinalOutput(v)
  \/ EnhancedReturn

EnhancedSpec == EnhancedInit /\ [][EnhancedNext]_enhancedVars

EnhancedTypeOK ==
  /\ config \in Configs
  /\ enhancedRun.pc \in {"idle", "before model", "generate", "after model", "simple", "react", "tool", "final output", "done"}
  /\ calls \in Nat /\ tools \in Nat /\ enhancedRuns \in 0..EnhancedMaxRuns

(* With the cache ahead of a modifier that returns another output, the cache only    *)
(* ever holds what the model itself wrote, whatever the callbacks after it change,   *)
(* so a repeated answer has been changed no more often than a fresh one: once by the *)
(* modifier and once by the standard filter. In every other chain the entry is the   *)
(* output that was handed out, and repeated answers are changed again each time.     *)
CacheBeforeModifierStable ==
  config.order = <<"cache", "replace">> => /\ \A e \in cache : e.out.mods = 0
                                    /\ enhancedRun.out.mods <= 2

(* No call asks the model, or runs a tool, more often than its mode allows: two      *)
(* questions and one tool, or one of each per iteration.                             *)
CallsBounded ==
  IF config.react THEN calls <= EnhancedMaxIterations /\ tools <= EnhancedMaxIterations ELSE calls <= 2 /\ tools <= 1

-----------------------------------------------------------------------------
(* HumanRequests                                                           *)
(* HumanResponseManager and the two callers that wait on it, HumanAgent and        *)
(* HumanApprovalTool: a request is registered with a channel of one place under an *)
(* id made of the clock, an answer is put in the channel of the id, and the caller *)
(* waits for the answer, its timeout or its context.                               *)

CONSTANTS Callers,
          HasDefault,   \* callers configured with a default response
          MaxClock,     \* bound on the nanoseconds of the run
          MaxAnswers    \* bound on the answers humans send

VARIABLES clock,
          id,           \* [Callers -> id of its request], 0 before
          pending,      \* [ids -> caller whose channel is registered], "none" if absent
          chan,         \* [Callers -> answer in its channel], 0 if empty
          pc, humanResult,  \* caller: idle, waiting, done; result: answer, 0 default/timeout/cancelled
          accepted,     \* answers DeliverResponse accepted: [n, id]
          answers       \* answers sent

humanVars == <<clock, id, pending, chan, pc, humanResult, accepted, answers>>

Ids == 1..MaxClock

HumanInit ==
  /\ clock = 1
  /\ id = [c \in Callers |-> 0]
  /\ pending = [i \in Ids |-> "none"]
  /\ chan = [c \in Callers |-> 0]
  /\ pc = [c \in Callers |-> "idle"]
  /\ humanResult = [c \in Callers |-> 0]
  /\ accepted = {}
  /\ answers = 0

Tick ==
  /\ clock < MaxClock
  /\ clock' = clock + 1
  /\ UNCHANGED <<id, pending, chan, pc, humanResult, accepted, answers>>

(* generateRequestID and RegisterRequest: an id of the same nanosecond replaces    *)
(* the entry.  The notification of the external system may fail; nothing changes.  *)
HumanAsk(c) ==
  /\ pc[c] = "idle"
  /\ id' = [id EXCEPT ![c] = clock]
  /\ pending' = [pending EXCEPT ![clock] = c]
  /\ pc' = [pc EXCEPT ![c] = "waiting"]
  /\ UNCHANGED <<clock, chan, humanResult, accepted, answers>>

(* DeliverResponse: into the channel of the id, and the entry is removed.          *)
(* Mutant: the entry stays. *)
DeliverResponse_Keeps(i) ==
  /\ answers < MaxAnswers
  /\ answers' = answers + 1
  /\ IF pending[i] # "none" /\ chan[pending[i]] = 0
     THEN /\ chan' = [chan EXCEPT ![pending[i]] = answers']
          /\ UNCHANGED pending
          /\ accepted' = accepted \cup {[n |-> answers', id |-> i]}
     ELSE UNCHANGED <<chan, pending, accepted>>
  /\ UNCHANGED <<clock, id, pc, humanResult>>

DeliverResponse(i) ==
  /\ answers < MaxAnswers
  /\ answers' = answers + 1
  /\ IF pending[i] # "none" /\ chan[pending[i]] = 0
     THEN /\ chan' = [chan EXCEPT ![pending[i]] = answers']
          /\ pending' = [pending EXCEPT ![i] = "none"]
          /\ accepted' = accepted \cup {[n |-> answers', id |-> i]}
     ELSE UNCHANGED <<chan, pending, accepted>>
  /\ UNCHANGED <<clock, id, pc, humanResult>>

(* The caller's select: the answer, which may carry an error, *)
Receive(c) ==
  /\ pc[c] = "waiting" /\ chan[c] # 0
  /\ chan' = [chan EXCEPT ![c] = 0]
  /\ \E ok \in BOOLEAN :
       /\ pc' = [pc EXCEPT ![c] = IF ok THEN "answered" ELSE "failed"]
       /\ humanResult' = [humanResult EXCEPT ![c] = chan[c]]
  /\ UNCHANGED <<clock, id, pending, accepted, answers>>

(* its timeout, with the default response if it has one, *)
Timeout(c) ==
  /\ pc[c] = "waiting"
  /\ pc' = [pc EXCEPT ![c] = IF c \in HasDefault THEN "defaulted" ELSE "failed"]
  /\ UNCHANGED <<clock, id, pending, chan, humanResult, accepted, answers>>

(* or its context.  The entry stays registered in both. *)
Cancelled(c) ==
  /\ pc[c] = "waiting"
  /\ pc' = [pc EXCEPT ![c] = "failed"]
  /\ UNCHANGED <<clock, id, pending, chan, humanResult, accepted, answers>>

HumanNext ==
  \/ Tick
  \/ \E c \in Callers : HumanAsk(c) \/ Receive(c) \/ Timeout(c) \/ Cancelled(c)
  \/ \E i \in Ids : DeliverResponse(i)

HumanSpec == HumanInit /\ [][HumanNext]_humanVars

HumanTypeOK ==
  /\ clock \in Ids
  /\ id \in [Callers -> 0..MaxClock]
  /\ pending \in [Ids -> Callers \cup {"none"}]
  /\ chan \in [Callers -> 0..MaxAnswers]
  /\ pc \in [Callers -> {"idle", "waiting", "answered", "defaulted", "failed"}]
  /\ answers \in 0..MaxAnswers

(* A caller receives only an answer that was accepted for its own id, and of the   *)
(* answers accepted for one id no more than the requests that had it, also when    *)
(* requests of the same nanosecond share an id and answers come late or twice      *)
(* (human_agent.go:108).                                                           *)
AnswersMatch ==
  /\ \A c \in Callers : humanResult[c] # 0 => [n |-> humanResult[c], id |-> id[c]] \in accepted
  /\ \A i \in Ids :
       Cardinality({a \in accepted : a.id = i}) <= Cardinality({c \in Callers : id[c] = i})
=============================================================================

------------------------- MODULE ModelsAndPolicies --------------------------
(***************************************************************************)
(* What stands around a model call: the providers with their fallbacks,    *)
(* self healing, and the policy engine.                                    *)
(***************************************************************************)
EXTENDS Naturals, Sequences, FiniteSets

-----------------------------------------------------------------------------
(* ModelProviders                                                          *)
(* Model providers behind a fallback provider: retries inside a provider, the next   *)
(* provider after a failure, and the shared status every call records.               *)

CONSTANTS Kinds, Providers, \* caller -> the calls it makes; providers are 1..Providers
          ModelMaxRetries, ErrorLimit, MaxErrors

VARIABLES status,  \* provider -> [errors, up]
          call,    \* call -> [kind, pc, p, tries, gone]
          result,  \* call -> "none", "ok" or "failed"
          asked,   \* call -> provider -> requests sent to it
          healthy  \* call -> providers its health check found healthy

Calls == DOMAIN Kinds

modelVars == <<status, call, result, asked, healthy>>

NoCall == [kind |-> "none", pc |-> "idle", p |-> 0, tries |-> 0, gone |-> FALSE]
ModelInit ==
  /\ status = [p \in 1..Providers |-> [errors |-> 0, up |-> TRUE]]
  /\ call = [c \in Calls |-> NoCall] /\ result = [c \in Calls |-> "none"]
  /\ asked = [c \in Calls |-> [p \in 1..Providers |-> 0]] /\ healthy = [c \in Calls |-> {}]

(* RecordRequest: repeated errors make a provider unavailable, a success available. *)
RecordRequest(s, ok) ==
  IF ok THEN [errors |-> 0, up |-> TRUE]
  ELSE [errors |-> s.errors + 1, up |-> s.up /\ s.errors + 1 < ErrorLimit]
(* Mutant: the error count survives. *)
MarkAvailable_KeepsErrors(s) == [s EXCEPT !.up = TRUE]
MarkAvailable(s) == [errors |-> 0, up |-> TRUE]
MarkUnavailable(s) == [s EXCEPT !.up = FALSE]

Start(c, kind) ==
  /\ call[c].pc = "idle"
  /\ call' = [call EXCEPT ![c] = [NoCall EXCEPT !.kind = kind, !.pc = "try", !.p = 1]]
  /\ result' = [result EXCEPT ![c] = "none"] /\ healthy' = [healthy EXCEPT ![c] = {}]
  /\ asked' = [asked EXCEPT ![c] = [p \in 1..Providers |-> 0]] /\ UNCHANGED status

(* The caller's context ends; a request in flight then fails without a retry. *)
Cancel(c) ==
  /\ call[c].pc # "idle" /\ ~call[c].gone
  /\ call' = [call EXCEPT ![c].gone = TRUE] /\ UNCHANGED <<status, result, asked, healthy>>

End(c, r) == call' = [call EXCEPT ![c] = NoCall] /\ result' = [result EXCEPT ![c] = r]
(* Chat, Stream: the next provider, or "all providers failed".                        *)
(* Mutant: the last provider is never asked. *)
NextProvider_SkipsLast(c) ==
  IF call[c].p + 1 < Providers
  THEN call' = [call EXCEPT ![c].p = @ + 1, ![c].pc = "try", ![c].tries = 0] /\ UNCHANGED result
  ELSE End(c, "failed")
NextProvider(c) ==
  IF call[c].p < Providers
  THEN call' = [call EXCEPT ![c].p = @ + 1, ![c].pc = "try", ![c].tries = 0] /\ UNCHANGED result
  ELSE End(c, "failed")
(* HealthCheck asks every provider and fails when none is healthy. *)
NextCheck(c) ==
  IF call[c].p < Providers
  THEN call' = [call EXCEPT ![c].p = @ + 1, ![c].pc = "try", ![c].tries = 0] /\ UNCHANGED result
  ELSE End(c, IF healthy'[c] = {} THEN "failed" ELSE "ok")

MayRetry(c) == call[c].tries + 1 <= ModelMaxRetries

(* withRetry: one attempt that fails with an error worth repeating. *)
withRetry(c) ==
  /\ call[c].pc = "try" /\ ~call[c].gone /\ MayRetry(c)
  /\ call' = [call EXCEPT ![c].tries = @ + 1]
  /\ asked' = [asked EXCEPT ![c][call[c].p] = @ + 1] /\ UNCHANGED <<status, result, healthy>>

(* The last attempt: the request is recorded, then the call goes on.  A chat whose   *)
(* answer has no choices is recorded as a success and still fails over.              *)
Chat(c, out) ==
  /\ call[c].pc = "try" /\ call[c].kind = "chat" /\ (call[c].gone => out = "error")
  /\ status' = [status EXCEPT ![call[c].p] = RecordRequest(@, out # "error")]
  /\ status'[call[c].p].errors <= MaxErrors
  /\ asked' = [asked EXCEPT ![c][call[c].p] = @ + 1]
  /\ (out = "ok" /\ End(c, "ok")) \/ (out # "ok" /\ NextProvider(c))
  /\ UNCHANGED healthy

Stream(c, ok) ==
  /\ call[c].pc = "try" /\ call[c].kind = "stream" /\ (call[c].gone => ~ok)
  /\ status' = [status EXCEPT ![call[c].p] = RecordRequest(@, ok)]
  /\ status'[call[c].p].errors <= MaxErrors
  /\ asked' = [asked EXCEPT ![c][call[c].p] = @ + 1]
  /\ IF ok THEN call' = [call EXCEPT ![c].pc = "recv"] /\ UNCHANGED result ELSE NextProvider(c)
  /\ UNCHANGED healthy

(* After the chunks given to the handler: the end of the stream, or an error of the  *)
(* stream or the handler, which is not recorded and moves on to the next provider.   *)
Recv(c, what) ==
  /\ call[c].pc = "recv"
  /\ (what = "eof" /\ End(c, "ok")) \/ (what = "error" /\ NextProvider(c))
  /\ UNCHANGED <<status, asked, healthy>>

HealthCheck(c, ok) ==
  /\ call[c].pc = "try" /\ call[c].kind = "health" /\ (call[c].gone => ~ok)
  /\ status' = [status EXCEPT ![call[c].p] = RecordRequest(@, ok)]
  /\ status'[call[c].p].errors <= MaxErrors
  /\ asked' = [asked EXCEPT ![c][call[c].p] = @ + 1]
  /\ call' = [call EXCEPT ![c].pc = IF ok THEN "markUp" ELSE "markDown"]
  /\ UNCHANGED <<result, healthy>>
(* ... and in a lock section of its own the provider is marked. *)
Mark(c) ==
  /\ call[c].pc \in {"markUp", "markDown"}
  /\ LET up == call[c].pc = "markUp"
     IN /\ status' = [status EXCEPT ![call[c].p] = IF up THEN MarkAvailable(@) ELSE MarkUnavailable(@)]
        /\ healthy' = [healthy EXCEPT ![c] = IF up THEN @ \cup {call[c].p} ELSE @]
  /\ NextCheck(c) /\ UNCHANGED asked

ModelNext ==
  \E c \in Calls :
    \/ \E k \in Kinds[c] : Start(c, k)
    \/ Cancel(c) \/ withRetry(c) \/ Mark(c)
    \/ \E out \in {"ok", "empty", "error"} : Chat(c, out)
    \/ \E ok \in BOOLEAN : Stream(c, ok) \/ HealthCheck(c, ok)
    \/ \E what \in {"eof", "error"} : Recv(c, what)
ModelSpec == ModelInit /\ [][ModelNext]_modelVars

ModelTypeOK == /\ status \in [1..Providers -> [errors : 0..MaxErrors, up : BOOLEAN]]
               /\ \A c \in Calls : call[c].p \in 0..Providers /\ result[c] \in {"none", "ok", "failed"}

(* A provider with as many recorded errors in a row as the limit is unavailable,     *)
(* however chats, streams and the two steps of a health check interleave.            *)
TroubledIsDown == \A p \in 1..Providers : status[p].errors >= ErrorLimit => ~status[p].up

(* A call that failed asked every provider, and no provider more often than its      *)
(* retries allow.                                                                     *)
FailedAskedAll ==
  \A c \in Calls : /\ \A p \in 1..Providers : asked[c][p] <= ModelMaxRetries + 1
                   /\ result[c] = "failed" => \A p \in 1..Providers : asked[c][p] >= 1

-----------------------------------------------------------------------------
(* SelfHealing                                                             *)
(* AgenticAgent.Execute over SelfHealing.ExecuteWithHealing. The retry counter and   *)
(* the last error are fields of the wrapper, with no lock: executions that overlap   *)
(* share them, and an increment is a read and a write.                               *)

CONSTANTS Executions,     \* goroutines calling Execute of one wrapped agent
          HealMaxRetries,
          MaxCalls,       \* calls of the wrapped agent
          Cap             \* values of currentRetry followed

VARIABLES exec,           \* execution -> [pc, read, own, early]; early: it began, or ran on,
                          \* while the wrapper had no error recorded
          currentRetry, lastError,
          health,         \* the last health recorded
          calls

healVars == <<exec, currentRetry, lastError, health, calls>>

HealInit ==
  /\ currentRetry = 0 /\ lastError = FALSE
  /\ exec = [e \in Executions |-> [pc |-> "idle", read |-> 0, own |-> FALSE, early |-> TRUE]]
  /\ health = "none" /\ calls = 0

At(e, where) == exec' = [exec EXCEPT ![e].pc = where]

(* Mutant: the whole state is reset for the new execution. *)
Begin_Reset(e) ==
  /\ exec[e].pc \in {"idle", "ok", "error"} /\ calls < MaxCalls
  /\ exec' = [exec EXCEPT ![e] = [pc |-> "loop", read |-> 0, own |-> FALSE, early |-> ~lastError]]
  /\ currentRetry' = 0 /\ lastError' = FALSE
  /\ UNCHANGED <<health, calls>>
(* Execute: the span and the count, then currentRetry = 0. *)
Begin(e) ==
  /\ exec[e].pc \in {"idle", "ok", "error"} /\ calls < MaxCalls
  /\ exec' = [exec EXCEPT ![e] = [pc |-> "loop", read |-> 0, own |-> FALSE, early |-> ~lastError]]
  /\ currentRetry' = 0
  /\ UNCHANGED <<lastError, health, calls>>

(* The head of the loop. When others have used the retries up, lastError is returned, *)
(* whoever left it there.                                                            *)
Loop(e) ==
  /\ exec[e].pc = "loop"
  /\ IF currentRetry <= HealMaxRetries THEN At(e, "call")
     ELSE At(e, IF lastError THEN "error" ELSE "ok")
  /\ UNCHANGED <<currentRetry, lastError, health, calls>>

(* One attempt, behind the circuit breaker when there is one: an open breaker ends   *)
(* the retries at once.                                                              *)
Call(e, outcome) ==
  /\ exec[e].pc = "call" /\ calls < MaxCalls
  /\ calls' = calls + 1
  /\ CASE outcome = "ok" ->
            /\ exec' = [exec EXCEPT ![e].pc = "ok", ![e].own = TRUE]
            /\ health' = "ok" /\ UNCHANGED lastError
       [] outcome = "open" ->
            /\ At(e, "error") /\ lastError' = TRUE /\ health' = "failing"
       [] OTHER ->
            /\ exec' = [exec EXCEPT ![e].pc = "count", ![e].read = currentRetry]
            /\ UNCHANGED <<health, lastError>>
  /\ UNCHANGED currentRetry

Count(e) ==
  /\ exec[e].pc = "count" /\ exec[e].read < Cap
  /\ currentRetry' = exec[e].read + 1 /\ At(e, "note")
  /\ UNCHANGED <<lastError, health, calls>>

Note(e) ==
  /\ exec[e].pc = "note"
  /\ lastError' = TRUE /\ health' = "degraded" /\ At(e, "check")
  /\ UNCHANGED <<currentRetry, calls>>

Check(e) ==
  /\ exec[e].pc = "check"
  /\ IF currentRetry > HealMaxRetries
     THEN At(e, "error") /\ health' = "failing"
     ELSE At(e, "backoff") /\ UNCHANGED health
  /\ UNCHANGED <<currentRetry, lastError, calls>>

(* The backoff ends, or the caller's context does. *)
Backoff(e, cancelled) ==
  /\ exec[e].pc = "backoff"
  /\ At(e, IF cancelled THEN "error" ELSE "loop")
  /\ UNCHANGED <<currentRetry, lastError, health, calls>>

(* Reset forgets the retries and the error, whoever is executing. *)
Reset ==
  /\ currentRetry' = 0 /\ lastError' = FALSE
  /\ exec' = [e \in Executions |-> [exec[e] EXCEPT !.early = exec[e].pc \notin {"ok", "error"} \/ exec[e].early]]
  /\ UNCHANGED <<health, calls>>

HealNext ==
  \/ Reset
  \/ \E e \in Executions :
       \/ Begin(e)
       \/ Loop(e)
       \/ \E outcome \in {"ok", "open", "failed"} : Call(e, outcome)
       \/ Count(e)
       \/ Note(e)
       \/ Check(e)
       \/ \E cancelled \in BOOLEAN : Backoff(e, cancelled)

HealSpec == HealInit /\ [][HealNext]_healVars

HealTypeOK ==
  /\ currentRetry \in 0..Cap /\ lastError \in BOOLEAN /\ calls \in 0..MaxCalls
  /\ health \in {"none", "ok", "degraded", "failing"}
  /\ \A e \in Executions : exec[e].pc \in {"idle", "loop", "call", "count", "note", "check", "backoff", "ok", "error"}

(* However executions overlap in the shared counter, none that began after the       *)
(* wrapper recorded an error, and was not under way at a Reset, returns without an   *)
(* error unless an attempt of its own succeeded.  (Others may: one that finds the    *)
(* retries used up before the error that used them is recorded returns nil.)         *)
SuccessIsOwn == \A e \in Executions : (exec[e].pc = "ok" /\ ~exec[e].early) => exec[e].own

-----------------------------------------------------------------------------
(* PolicyEngine                                                            *)
(* The policy node of a graph and its engine.  A text is the set of matters that a   *)
(* rule can find in it; the empty text is {"short"}.                                 *)

CONSTANTS Policies, \* sequences of [kind, action], disabled rules left out
          Texts,    \* the texts a state can hold
          Backends  \* number of audit backends

VARIABLES rules, failOpen, stopFirst, \* the policy
          state,    \* graph state key -> {} when unset, else {text}
          run,      \* the evaluation under way: [key, text, i, out, allowed, action, hits]
          todo,     \* the keys still to evaluate
          ended,    \* "no", "ok", "blocked" or "error"
          log       \* backend -> the sequence of [action, hits] it recorded

policyVars == <<rules, failOpen, stopFirst, state, run, todo, ended, log>>

Keys == {"input_instruction", "last_message", "last_response"}
Empty == {"short"}
NoRun == [key |-> "none", text |-> {}, i |-> 0, out |-> {}, allowed |-> TRUE, action |-> "pass", hits |-> << >>]
(* NewPolicyNode fixes the rules; it leaves StopOnFirstMatch unset, other hosts of   *)
(* the engine may set it.                                                             *)
PolicyInit ==
  /\ rules \in Policies /\ failOpen \in BOOLEAN /\ stopFirst \in BOOLEAN
  /\ \E i, m, r \in Texts \cup {{}} :
       state = [k \in Keys |-> LET t == IF k = "input_instruction" THEN i ELSE IF k = "last_message" THEN m ELSE r
                               IN IF t = {} THEN {} ELSE {t}]
  /\ run = NoRun /\ todo = <<"input_instruction", "last_message">> /\ ended = "no"
  /\ log = [b \in 1..Backends |-> << >>]

(* What an evaluator can answer: whether it matched, the texts it may offer as       *)
(* redacted ({} for none), or an error.                                               *)
PIIEvaluator(t) == {[err |-> FALSE, hit |-> "pii" \in t, red |-> {t \ {"pii"}}]}
ContentEvaluator(t) == {[err |-> FALSE, hit |-> "word" \in t, red |-> {}]}
LengthEvaluator(t) ==
  {[err |-> FALSE, hit |-> t \cap {"long", "short"} # {}, red |-> IF "long" \in t THEN {k} ELSE {}]
     : k \in {s \in SUBSET t : "long" \in t => "long" \in s}}
RegexEvaluator(t) ==
  {[err |-> FALSE, hit |-> "word" \in t, red |-> IF "word" \in t THEN {t \ {"word"}} ELSE {}],
   [err |-> TRUE, hit |-> FALSE, red |-> {}]}
LLMEvaluator(t) ==
  {[err |-> FALSE, hit |-> h, red |-> {}] : h \in BOOLEAN} \cup {[err |-> TRUE, hit |-> FALSE, red |-> {}]}
Answers(kind, t) ==
  CASE kind = "pii" -> PIIEvaluator(t)
    [] kind = "content" -> ContentEvaluator(t)
    [] kind = "length" -> LengthEvaluator(t)
    [] kind = "regex" -> RegexEvaluator(t)
    [] kind = "llm" -> LLMEvaluator(t)
    [] OTHER -> {[err |-> FALSE, hit |-> FALSE, red |-> {}]}  \* no evaluator of this type

(* The node takes the next text: the instruction, then the last message or, without  *)
(* one, the last response, whose verdict is written to last_message all the same.    *)
Source(k) == IF k = "last_message" /\ state[k] = {} THEN "last_response" ELSE k
Execute ==
  /\ ended = "no" /\ run = NoRun
  /\ IF todo = << >> THEN ended' = "ok" /\ UNCHANGED <<run, todo>>
     ELSE /\ todo' = Tail(todo) /\ UNCHANGED ended
          /\ IF state[Source(Head(todo))] \in {{}, {Empty}} THEN UNCHANGED run
             ELSE \E t \in state[Source(Head(todo))] :
                    run' = [NoRun EXCEPT !.key = Head(todo), !.text = t, !.out = t, !.i = 1]
  /\ UNCHANGED <<rules, failOpen, stopFirst, state, log>>

(* Mutant: rules are given the text the evaluation started with. *)
Given_Original == run.text
(* A rule is given the text as the rules before it left it. *)
Given == run.out

(* Mutant: a redaction after a block takes its place. *)
Verdict_LastWins(action, next) == IF next = "warn" THEN action ELSE next
Verdict(action, next) ==
  CASE next = "block" -> "block"
    [] next = "redact" /\ action # "block" -> "redact"
    [] OTHER -> action

Running == run # NoRun /\ run.i <= Len(rules)
(* One rule of Engine.Evaluate. *)
Evaluate ==
  /\ Running
  /\ LET rule == rules[run.i]
     IN \E a \in Answers(rule.kind, Given) :
          IF a.err
          THEN IF failOpen THEN run' = [run EXCEPT !.i = @ + 1] /\ UNCHANGED ended
               ELSE run' = NoRun /\ ended' = "error"
          ELSE IF ~a.hit THEN run' = [run EXCEPT !.i = @ + 1] /\ UNCHANGED ended
          ELSE /\ \E o \in IF rule.action = "block" THEN {Empty}
                           ELSE IF rule.action = "redact" /\ a.red # {} THEN a.red ELSE {run.out} :
                    run' = [run EXCEPT !.out = o, !.hits = Append(@, rule.action),
                                       !.allowed = @ /\ rule.action # "block",
                                       !.action = Verdict(@, rule.action),
                                       !.i = IF stopFirst /\ rule.action = "block" THEN Len(rules) + 1 ELSE @ + 1]
               /\ UNCHANGED ended
  /\ UNCHANGED <<rules, failOpen, stopFirst, state, todo, log>>

(* What the engine tells its audit logger of the evaluation. *)
AuditEvent == [action |-> run.action, hits |-> run.hits]
Log(up) == [b \in 1..Backends |-> IF b \in up THEN Append(log[b], AuditEvent) ELSE log[b]]
(* After the rules: the audit event goes to every backend that is up, and the node   *)
(* applies the verdict to its state.                                                  *)
evaluateAndApply(up) ==
  /\ run # NoRun /\ run.i > Len(rules)
  /\ log' = Log(up)
  /\ ended' = IF run.allowed THEN ended ELSE "blocked"
  /\ state' = IF run.allowed /\ run.action = "redact" THEN [state EXCEPT ![run.key] = {run.out}] ELSE state
  /\ run' = NoRun
  /\ UNCHANGED <<rules, failOpen, stopFirst, todo>>

PolicyNext == Execute \/ Evaluate \/ \E up \in SUBSET (1..Backends) : evaluateAndApply(up)
PolicySpec == PolicyInit /\ [][PolicyNext]_policyVars

PolicyTypeOK == /\ ended \in {"no", "ok", "blocked", "error"} /\ run.i \in 0..(Len(rules) + 1)
                /\ \A k \in Keys : Cardinality(state[k]) <= 1

(* A node that lets a run go on has removed, from the instruction and from the last  *)
(* message, every matter that one of its redact rules can remove, whatever other     *)
(* rules ran before or after that rule.                                               *)
AllowedIsRedacted ==
  ended = "ok" =>
    \A k \in {"input_instruction", "last_message"} : \A t \in state[k] : \A i \in 1..Len(rules) :
      ~ (rules[i] = [kind |-> "pii", action |-> "redact"] /\ "pii" \in t)

(* What the backends recorded is the truth: an event is a block exactly when a block *)
(* rule matched, a redaction when one matched and no block did, and the run is       *)
(* stopped when, and only when, its last event is a block.                            *)
AuditTellsVerdict ==
  \A b \in 1..Backends : \A i \in 1..Len(log[b]) :
    LET e == log[b][i]
        hit(a) == \E j \in 1..Len(e.hits) : e.hits[j] = a
    IN /\ (e.action = "block") <=> hit("block")
       /\ (e.action = "redact") <=> hit("redact") /\ ~hit("block")
       /\ (e.action = "block") => ended = "blocked" /\ i = Len(log[b])
=============================================================================

----------------------------- MODULE Resilience -----------------------------
(***************************************************************************)
(* The rest of the resilience package (src/pkg/resilience): the rate       *)
(* limiters and the retrier.                                               *)
(***************************************************************************)
EXTENDS Integers, Sequences, FiniteSetsExt

-----------------------------------------------------------------------------
(* RateLimiter                                                             *)
(***************************************************************************)
(* The rate limiters of src/pkg/resilience: token buckets handed out per   *)
(* key, the sliding window and the leaky bucket. Time is a tick counter;   *)
(* tokens and water are whole numbers because the rates are. A Wait is     *)
(* repeated attempts, each one critical section, with a sleep in between   *)
(* whose length the limiter computes; Allow is a Wait that does not sleep. *)
(***************************************************************************)

CONSTANTS
    Callers,
    Rate,           \* tokens per tick; leak per tick
    Burst,
    WindowRate,     \* SlidingWindowLimiter: requests per window
    Window,
    MaxN,           \* bound: size of a request
    MaxTime,        \* bound: ticks
    MaxRemovals     \* bound: Remove(key)

VARIABLES
    kind,       \* which limiter this behaviour uses
    now,
    limiter,    \* PerKeyRateLimiter.limiters[key]: index in buckets, or 0
    buckets,    \* the token buckets made for the key
    caller,     \* pc, bucket held, size of the request, end of its sleep
    timestamps, \* SlidingWindowLimiter
    leaky,      \* LeakyBucket: water and lastUpdate
    granted,    \* history: what was granted in each tick
    removals

limiterVars == <<kind, now, limiter, buckets, caller, timestamps, leaky, granted, removals>>

Time == 0..MaxTime
Kinds == {"bucket", "window", "leaky"}
Caller(pc) == [pc |-> pc, tb |-> 0, n |-> 0, wake |-> 0]
NewTokenBucket == [tokens |-> Burst, last |-> now, closed |-> FALSE]

LimiterTypeOK ==
    /\ now \in Time
    /\ limiter \in 0..Len(buckets)
    /\ buckets \in Seq([tokens : 0..Burst, last : Time, closed : BOOLEAN])
    /\ caller \in [Callers -> [pc : {"idle", "create", "ready", "asleep", "denied"},
                               tb : 0..Len(buckets), n : 0..MaxN, wake : Nat]]
    /\ timestamps \in Seq(Time)
    /\ leaky \in [water : 0..Burst, last : Time]
    /\ kind \in Kinds /\ granted \in [Time -> Nat]
    /\ removals \in 0..MaxRemovals

LimiterInit ==
    /\ now = 0 /\ removals = 0
    /\ limiter = 0 /\ buckets = <<>>
    /\ caller = [c \in Callers |-> Caller("idle")]
    /\ timestamps = <<>>
    /\ leaky = [water |-> 0, last |-> 0]
    /\ kind \in Kinds /\ granted = [t \in Time |-> 0]

Grant(n) == granted' = [granted EXCEPT ![now] = @ + n]
Least(a, b) == IF a < b THEN a ELSE b

-----------------------------------------------------------------------------
(* Token buckets per key.                                                  *)

Holds(c, i, n) == caller' = [caller EXCEPT ![c] = [pc |-> "ready", tb |-> i, n |-> n, wake |-> 0]]

getLimiter(c, n) ==
    /\ kind = "bucket" /\ caller[c].pc = "idle"
    /\ IF limiter # 0 THEN Holds(c, limiter, n)
                      ELSE caller' = [caller EXCEPT ![c].pc = "create", ![c].n = n]
    /\ UNCHANGED <<kind, now, limiter, buckets, timestamps, leaky, granted, removals>>

(* Mutant: the map is not read again under the write lock. *)
newLimiter_NoRecheck(c) ==
    /\ caller[c].pc = "create"
    /\ buckets' = Append(buckets, NewTokenBucket)
    /\ limiter' = Len(buckets')
    /\ Holds(c, limiter', caller[c].n)
    /\ UNCHANGED <<kind, now, timestamps, leaky, granted, removals>>

newLimiter(c) ==
    /\ caller[c].pc = "create"
    /\ IF limiter # 0
       THEN Holds(c, limiter, caller[c].n) /\ UNCHANGED <<limiter, buckets>>
       ELSE /\ buckets' = Append(buckets, NewTokenBucket)
            /\ limiter' = Len(buckets')
            /\ Holds(c, limiter', caller[c].n)
    /\ UNCHANGED <<kind, now, timestamps, leaky, granted, removals>>

Remove ==
    /\ limiter # 0 /\ removals < MaxRemovals
    /\ limiter' = 0 /\ removals' = removals + 1
    /\ UNCHANGED <<kind, now, buckets, caller, timestamps, leaky, granted>>

(* Mutant: the bucket is not capped at its burst. *)
refill_Uncapped(b) == [b EXCEPT !.tokens = @ + (now - b.last) * Rate, !.last = now]
refill(b) == [b EXCEPT !.tokens = Least(Burst, @ + (now - b.last) * Rate), !.last = now]

(* One attempt of AllowN or WaitN. Allow gives up, Wait sleeps for as long *)
(* as the missing tokens take.                                             *)
AllowN(c) ==
    LET r == caller[c]
        b == IF buckets[r.tb].closed THEN buckets[r.tb] ELSE refill(buckets[r.tb])
        deficit == r.n - b.tokens
        wait == (deficit + Rate - 1) \div Rate IN
    /\ r.pc = "ready" \/ (r.pc = "asleep" /\ now >= r.wake)
    /\ \/ /\ ~b.closed /\ deficit <= 0
          /\ buckets' = [buckets EXCEPT ![r.tb] = [b EXCEPT !.tokens = @ - r.n]]
          /\ Grant(r.n)
          /\ caller' = [caller EXCEPT ![c] = Caller("idle")]
       \/ /\ b.closed \/ deficit > 0
          /\ buckets' = [buckets EXCEPT ![r.tb] = b]
          /\ \/ caller' = [caller EXCEPT ![c] = Caller("denied")]
             \/ ~b.closed /\ caller' = [caller EXCEPT ![c].pc = "asleep", ![c].wake = now + wait]
          /\ UNCHANGED granted
    /\ UNCHANGED <<kind, now, limiter, timestamps, leaky, removals>>

(* The context of a sleeping Wait ends. *)
Cancel(c) ==
    /\ caller[c].pc = "asleep"
    /\ caller' = [caller EXCEPT ![c] = Caller("denied")]
    /\ UNCHANGED <<kind, now, limiter, buckets, timestamps, leaky, granted, removals>>

Close(i) ==
    /\ ~buckets[i].closed
    /\ buckets' = [buckets EXCEPT ![i].closed = TRUE]
    /\ UNCHANGED <<kind, now, limiter, caller, timestamps, leaky, granted, removals>>

-----------------------------------------------------------------------------
(* The sliding window drops what is older than the window, never what is   *)
(* exactly as old.                                                         *)

(* Mutant: the oldest entry of the window is dropped one tick early. *)
cleanup_Early(s) == SelectSeq(s, LAMBDA t : t > now - Window)
cleanup(s) == SelectSeq(s, LAMBDA t : t >= now - Window)

AllowNWindow(n) ==
    LET kept == cleanup(timestamps) IN
    /\ kind = "window"
    /\ \/ /\ Len(kept) + n <= WindowRate
          /\ timestamps' = kept \o [i \in 1..n |-> now]
          /\ Grant(n)
       \/ Len(kept) + n > WindowRate /\ timestamps' = kept /\ UNCHANGED granted
    /\ UNCHANGED <<kind, now, limiter, buckets, caller, leaky, removals>>

(* The leaky bucket. *)
leak(b) == [water |-> IF b.water < (now - b.last) * Rate THEN 0 ELSE b.water - (now - b.last) * Rate,
            last |-> now]

(* Mutant: a request is let in when the bucket is not yet full. *)
AllowNLeaky_IfRoom(n) ==
    LET b == leak(leaky) IN
    /\ kind = "leaky"
    /\ \/ b.water < Burst /\ leaky' = [b EXCEPT !.water = @ + n] /\ Grant(n)
       \/ b.water >= Burst /\ leaky' = b /\ UNCHANGED granted
    /\ UNCHANGED <<kind, now, limiter, buckets, caller, timestamps, removals>>

AllowNLeaky(n) ==
    LET b == leak(leaky) IN
    /\ kind = "leaky"
    /\ \/ b.water + n <= Burst /\ leaky' = [b EXCEPT !.water = @ + n] /\ Grant(n)
       \/ b.water + n > Burst /\ leaky' = b /\ UNCHANGED granted
    /\ UNCHANGED <<kind, now, limiter, buckets, caller, timestamps, removals>>

Tick ==
    /\ now < MaxTime /\ now' = now + 1
    /\ UNCHANGED <<kind, limiter, buckets, caller, timestamps, leaky, granted, removals>>

LimiterNext ==
    \/ \E c \in Callers : (\E n \in 1..MaxN : getLimiter(c, n)) \/ newLimiter(c) \/ AllowN(c) \/ Cancel(c)
    \/ \E i \in DOMAIN buckets : Close(i)
    \/ \E n \in 1..MaxN : AllowNWindow(n) \/ AllowNLeaky(n)
    \/ Remove \/ Tick

LimiterSpec == LimiterInit /\ [][LimiterNext]_limiterVars

-----------------------------------------------------------------------------
Granted(from, to) == MapThenSumSet(LAMBDA t : granted[t], from..to)

(* Between any two instants a key is granted no more than a burst and what *)
(* the rate adds in between, whoever creates its bucket and however long   *)
(* the bucket was left alone. Each Remove adds one bucket to the key's     *)
(* account, because a caller that holds the old one goes on drawing on it. *)
BucketWithinRate ==
    kind = "bucket" => \A s \in Time, t \in Time :
        s <= t => Granted(s, t) <= (1 + removals) * (Burst + Rate * (t - s))

(* No window of the configured length holds more requests than the rate.   *)
WindowWithinRate ==
    kind = "window" => \A t \in Time : Granted(IF t < Window THEN 0 ELSE t - Window, t) <= WindowRate

(* The same bound for the leaky bucket. *)
LeakyWithinRate ==
    kind = "leaky" => \A s \in Time, t \in Time : s <= t => Granted(s, t) <= Burst + Rate * (t - s)

-----------------------------------------------------------------------------
(* Retrier                                                                 *)
(***************************************************************************)
(* Retrier.Do and DoWithResult of src/pkg/resilience: attempts, the delays *)
(* between them and the ways out. Delays are whole milliseconds; the       *)
(* jitter is any value the factor allows.                                  *)
(***************************************************************************)

CONSTANTS
    InitialDelay, MaxDelay, Multiplier,
    Jitter,         \* JitterFactor in percent
    MaxRetries,     \* 0: no limit
    MaxAttempts     \* bound: attempts when there is no limit

VARIABLES
    retrierPc,
    attempt,
    calls,      \* history: executions of the function
    delay,      \* the last delay
    slept,      \* history: the largest delay without jitter so far
    outcome

retrierVars == <<retrierPc, attempt, calls, delay, slept, outcome>>

Outcomes == {"none", "ok", "canceled", "permanent", "exhausted"}

RetrierTypeOK ==
    /\ retrierPc \in {"check", "call", "failed", "sleep", "return"}
    /\ attempt \in Nat /\ calls \in Nat /\ delay \in Nat /\ slept \in Nat
    /\ outcome \in Outcomes

RetrierInit ==
    /\ retrierPc = "check" /\ outcome = "none"
    /\ attempt = 0 /\ calls = 0 /\ delay = 0 /\ slept = 0

Pow[n \in Nat] == IF n = 0 THEN 1 ELSE Multiplier * Pow[n - 1]

(* The delay before jitter: capped. *)
Base(n) == IF InitialDelay * Pow[n] > MaxDelay THEN MaxDelay ELSE InitialDelay * Pow[n]

(* Mutant: the jitter is taken from the delay before the cap. *)
NextDelay_Uncapped(n) ==
    LET d == InitialDelay * Pow[n]
        j == (d * Jitter) \div 100 IN
    d - j .. d + j

(* ExponentialBackoff.NextDelay: the jitter is added after the cap.        *)
NextDelay(n) == LET j == (Base(n) * Jitter) \div 100 IN Base(n) - j .. Base(n) + j

Return(o) == retrierPc' = "return" /\ outcome' = o

(* The loop condition and the context. *)
Check ==
    /\ retrierPc = "check"
    /\ \/ MaxRetries > 0 /\ attempt > MaxRetries /\ Return("exhausted")
       \/ /\ MaxRetries = 0 \/ attempt <= MaxRetries
          /\ retrierPc' = "call" /\ UNCHANGED outcome
       \/ (MaxRetries = 0 \/ attempt <= MaxRetries) /\ Return("canceled")
    /\ UNCHANGED <<attempt, calls, delay, slept>>

Call ==
    /\ retrierPc = "call"
    /\ calls' = calls + 1
    /\ \/ Return("ok")
       \/ Return("permanent")
       \/ retrierPc' = "failed" /\ UNCHANGED outcome
    /\ UNCHANGED <<attempt, delay, slept>>

(* Mutant: the last retry is given up. *)
Failed_OffByOne ==
    /\ retrierPc = "failed"
    /\ \/ MaxRetries > 0 /\ attempt + 1 >= MaxRetries /\ Return("exhausted") /\ UNCHANGED <<delay, slept>>
       \/ /\ MaxRetries = 0 \/ attempt + 1 < MaxRetries
          /\ delay' \in NextDelay(attempt) /\ slept' = Base(attempt)
          /\ retrierPc' = "sleep" /\ UNCHANGED outcome
    /\ UNCHANGED <<attempt, calls>>

(* A retryable failure: give up, or sleep. *)
Failed ==
    /\ retrierPc = "failed"
    /\ \/ MaxRetries > 0 /\ attempt >= MaxRetries /\ Return("exhausted") /\ UNCHANGED <<delay, slept>>
       \/ /\ MaxRetries = 0 \/ attempt < MaxRetries
          /\ delay' \in NextDelay(attempt) /\ slept' = Base(attempt)
          /\ retrierPc' = "sleep" /\ UNCHANGED outcome
    /\ UNCHANGED <<attempt, calls>>

Sleep ==
    /\ retrierPc = "sleep"
    /\ \/ Return("canceled") /\ UNCHANGED attempt
       \/ /\ attempt < MaxAttempts /\ attempt' = attempt + 1
          /\ retrierPc' = "check" /\ UNCHANGED outcome
    /\ UNCHANGED <<calls, delay, slept>>

RetrierNext == Check \/ Call \/ Failed \/ Sleep

RetrierSpec == RetrierInit /\ [][RetrierNext]_retrierVars

-----------------------------------------------------------------------------
(* A RetryError reports MaxRetries + 1 attempts: so many were made.        *)
ExhaustedAfterAll == outcome = "exhausted" => calls = MaxRetries + 1

(* A delay, its jitter aside, is never shorter than the one before, and    *)
(* exceeds MaxDelay by at most the jitter.                                 *)
DelayStep ==
    retrierPc = "failed" /\ retrierPc' = "sleep" =>
       slept' >= slept /\ 100 * delay' <= MaxDelay * (100 + Jitter)
DelaysGrow == [][DelayStep]_retrierVars
=============================================================================

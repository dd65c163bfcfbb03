--------------------------- MODULE RPCResilience ---------------------------
(***************************************************************************)
(* ResilientEthereumClient (internal/ethereum/rpc_resilience.go): callers   *)
(* that share one token bucket and retry a request, with backoff and jitter, *)
(* until it succeeds, fails for good, uses up its attempts or is cancelled. *)
(*                                                                          *)
(* Time is counted in ticks.  The bucket gains one unit per tick and a       *)
(* request costs Cost units, so requestsPerSecond is one per Cost ticks.    *)
(* Each caller performs one operation.                                      *)
(***************************************************************************)
EXTENDS Integers, FiniteSets

CONSTANTS
    Caller,           \* goroutines with an RPC operation
    MaxAttempts,      \* RPCResilienceConfig, as validated: all positive,
    InitialBackoff,   \* InitialBackoff <= MaxBackoff, jitter 0..100 percent
    MaxBackoff,
    MaxDuration,      \* the largest time.Duration, 2^63 - 1 nanoseconds
    JitterPercent,
    Burst,
    Cost

ASSUME ConfigAssumption ==
    /\ IsFiniteSet(Caller)
    /\ {MaxAttempts, InitialBackoff, MaxBackoff, MaxDuration, Burst, Cost} \subseteq Nat \ {0}
    /\ InitialBackoff <= MaxBackoff /\ MaxBackoff <= MaxDuration
    /\ JitterPercent \in 0..100

VARIABLES
    tokens,      \* units in the bucket at time "last"
    elapsed,     \* now - last, in ticks; more than a full bucket is all the same
    debt,        \* observer: see RateBound
    pc,          \* where each operation is, or how it ended
    attempt,     \* the loop variable of executeResilientRPC
    timer,       \* ticks until the timer of a sleeping operation fires
    cancelled,   \* operations whose context has ended
    late         \* observer: requests sent after the context ended

limiterVars == <<tokens, elapsed, debt>>
vars == <<limiterVars, pc, attempt, timer, cancelled, late>>

Capacity == Burst * Cost

Smaller(m, n) == IF m <= n THEN m ELSE n
Larger(m, n) == IF m >= n THEN m ELSE n

\* "value", or the error: ctx.Err(), the error itself, retry budget exhausted.
Ended == {"value", "canceled", "permanent", "exhausted"}

\* What comes back from the node or from decoding its answer.
ErrorKind == {"canceled", "deadline", "validation", "invalidToken", "reorg",
              "temporary", "notFound", "connection", "http4xx", "httpRetry",
              "http5xx", "networkTemporary", "networkOther", "rpcBusy", "rpcOther",
              "unknown"}

\* isRetryableRPCError; "httpRetry" is status 408, 425 or 429 and "rpcBusy"
\* the JSON-RPC codes -32002 and -32603.
isRetryable(kind) ==
    kind \in {"temporary", "notFound", "connection", "httpRetry", "http5xx",
              "networkTemporary", "rpcBusy"}

\* delay *= 2 on an int64 that is not negative: the result wraps.
Twice(delay) ==
    IF 2 * delay <= MaxDuration THEN 2 * delay ELSE 2 * delay - 2 * (MaxDuration + 1)

\* The loop of rpcRetryPolicy.wait: delay after the exponents 1..k-1, with Go's
\* integer division in the overflow guard.
LoopDelay[k \in 1..MaxAttempts] ==
    IF k = 1 THEN InitialBackoff
    ELSE LET delay == LoopDelay[k - 1]
         IN  IF delay >= MaxBackoff THEN delay
             ELSE IF delay > MaxBackoff \div 2 THEN MaxBackoff
             ELSE Twice(delay)

\* Mutant of BackoffDelay: the loop doubles without its overflow guard and
\* leaves it to the clamp behind it.
UnguardedLoop[k \in 1..MaxAttempts] ==
    IF k = 1 THEN InitialBackoff
    ELSE LET delay == UnguardedLoop[k - 1]
         IN  IF delay >= MaxBackoff THEN delay ELSE Twice(delay)

BackoffUnguarded(k) == Smaller(UnguardedLoop[k], MaxBackoff)

\* Mutant of BackoffDelay: the delay never grows.
BackoffConstant(k) == Smaller(InitialBackoff, MaxBackoff)

\* rpcRetryPolicy.wait after failed attempt k, before the jitter: the loop and
\* the clamp behind it.
BackoffDelay(k) == Smaller(LoopDelay[k], MaxBackoff)

\* The delays the random jitter can make of it.  The conversion back to a
\* time.Duration cuts off the fraction; what it makes of a delay that does not
\* fit is up to the platform, and a timer set to a negative one fires at once.
Jittered(delay) ==
    LET shortest == Larger(0, (delay * (100 - JitterPercent)) \div 100)
        longest  == Larger(0, (delay * (100 + JitterPercent)) \div 100)
    IN  IF longest <= MaxDuration THEN shortest..longest ELSE 0..MaxDuration

TypeOK ==
    /\ tokens \in 0..Capacity
    /\ elapsed \in 0..Capacity
    /\ debt \in Nat
    /\ pc \in [Caller -> {"idle", "limiter", "throttled", "call", "backoff"} \cup Ended]
    /\ attempt \in [Caller -> 1..MaxAttempts]
    /\ timer \in [Caller -> Nat]
    /\ cancelled \subseteq Caller
    /\ late \in [Caller -> Nat]

Init ==
    /\ tokens = Capacity
    /\ elapsed = 0
    /\ debt = 0
    /\ pc = [c \in Caller |-> "idle"]
    /\ attempt = [c \in Caller |-> 1]
    /\ timer = [c \in Caller |-> 0]
    /\ cancelled = {}
    /\ late = [c \in Caller |-> 0]

-----------------------------------------------------------------------------
Begin(c) ==
    /\ pc[c] = "idle"
    /\ pc' = [pc EXCEPT ![c] = "limiter"]
    /\ UNCHANGED <<limiterVars, attempt, timer, cancelled, late>>

\* The critical section of Wait begins by crediting the time since "last".
Refilled == Smaller(Capacity, tokens + elapsed)

\* Mutant of Acquire: "last" is not moved, so the same time is credited twice.
AcquireKeepsLast(c) ==
    /\ pc[c] = "limiter"
    /\ Refilled >= Cost
    /\ tokens' = Refilled - Cost
    /\ debt' = debt + Cost
    /\ pc' = [pc EXCEPT ![c] = "call"]
    /\ late' = [late EXCEPT ![c] = IF c \in cancelled THEN @ + 1 ELSE @]
    /\ UNCHANGED <<elapsed, attempt, timer, cancelled>>

\* Wait finds a token, and the request is sent: the context is not looked at.
Acquire(c) ==
    /\ pc[c] = "limiter"
    /\ Refilled >= Cost
    /\ tokens' = Refilled - Cost
    /\ elapsed' = 0
    /\ debt' = debt + Cost
    /\ pc' = [pc EXCEPT ![c] = "call"]
    /\ late' = [late EXCEPT ![c] = IF c \in cancelled THEN @ + 1 ELSE @]
    /\ UNCHANGED <<attempt, timer, cancelled>>

\* Mutant of Throttle: "last" is moved but the credit is not kept.
ThrottleLosesCredit(c) ==
    /\ pc[c] = "limiter"
    /\ Refilled < Cost
    /\ elapsed' = 0
    /\ pc' = [pc EXCEPT ![c] = "throttled"]
    /\ timer' = [timer EXCEPT ![c] = Cost - Refilled]
    /\ UNCHANGED <<tokens, debt, attempt, cancelled, late>>

\* Wait finds less than a token and sleeps until there should be one.
Throttle(c) ==
    /\ pc[c] = "limiter"
    /\ Refilled < Cost
    /\ tokens' = Refilled
    /\ elapsed' = 0
    /\ pc' = [pc EXCEPT ![c] = "throttled"]
    /\ timer' = [timer EXCEPT ![c] = Cost - Refilled]
    /\ UNCHANGED <<debt, attempt, cancelled, late>>

Succeed(c) ==
    /\ pc[c] = "call"
    /\ pc' = [pc EXCEPT ![c] = "value"]
    /\ UNCHANGED <<limiterVars, attempt, timer, cancelled, late>>

\* A failed request ends the operation.
CallFails(c, kind) ==
    /\ pc[c] = "call"
    /\ c \in cancelled \/ ~isRetryable(kind) \/ attempt[c] = MaxAttempts
    /\ pc' = [pc EXCEPT ![c] =
                 IF c \in cancelled THEN "canceled"
                 ELSE IF ~isRetryable(kind) THEN "permanent"
                 ELSE "exhausted"]
    /\ UNCHANGED <<limiterVars, attempt, timer, cancelled, late>>

\* Mutant of Retry: ctx.Err() is not looked at.
RetryCancelled(c, kind) ==
    /\ pc[c] = "call"
    /\ isRetryable(kind)
    /\ attempt[c] < MaxAttempts
    /\ pc' = [pc EXCEPT ![c] = "backoff"]
    /\ \E delay \in Jittered(BackoffDelay(attempt[c])) :
          timer' = [timer EXCEPT ![c] = delay]
    /\ UNCHANGED <<limiterVars, attempt, cancelled, late>>

\* Mutant of Retry: the delay is the one of the next attempt.
RetryDoublesOnceMore(c, kind) ==
    /\ pc[c] = "call"
    /\ c \notin cancelled
    /\ isRetryable(kind)
    /\ attempt[c] < MaxAttempts
    /\ pc' = [pc EXCEPT ![c] = "backoff"]
    /\ \E delay \in Jittered(BackoffDelay(attempt[c] + 1)) :
          timer' = [timer EXCEPT ![c] = delay]
    /\ UNCHANGED <<limiterVars, attempt, cancelled, late>>

\* A failed request is to be repeated after policy.wait.
Retry(c, kind) ==
    /\ pc[c] = "call"
    /\ c \notin cancelled
    /\ isRetryable(kind)
    /\ attempt[c] < MaxAttempts
    /\ pc' = [pc EXCEPT ![c] = "backoff"]
    /\ \E delay \in Jittered(BackoffDelay(attempt[c])) :
          timer' = [timer EXCEPT ![c] = delay]
    /\ UNCHANGED <<limiterVars, attempt, cancelled, late>>

\* sleepWithContext, case <-timer.C: also when the context has ended as well.
\* The limiter is asked again, for the next attempt if this was the backoff.
WakeUp(c) ==
    /\ pc[c] \in {"throttled", "backoff"}
    /\ timer[c] = 0
    /\ pc' = [pc EXCEPT ![c] = "limiter"]
    /\ attempt' = [attempt EXCEPT ![c] = IF pc[c] = "backoff" THEN @ + 1 ELSE @]
    /\ UNCHANGED <<limiterVars, timer, cancelled, late>>

\* sleepWithContext, case <-ctx.Done()
SleepCancelled(c) ==
    /\ pc[c] \in {"throttled", "backoff"}
    /\ c \in cancelled
    /\ pc' = [pc EXCEPT ![c] = "canceled"]
    /\ timer' = [timer EXCEPT ![c] = 0]
    /\ UNCHANGED <<limiterVars, attempt, cancelled, late>>

Cancel(c) ==
    /\ c \notin cancelled
    /\ cancelled' = cancelled \cup {c}
    /\ UNCHANGED <<limiterVars, pc, attempt, timer, late>>

Tick ==
    /\ elapsed' = Smaller(Capacity, elapsed + 1)
    /\ debt' = IF debt > 0 THEN debt - 1 ELSE 0
    /\ timer' = [c \in Caller |-> IF timer[c] > 0 THEN timer[c] - 1 ELSE 0]
    /\ UNCHANGED <<tokens, pc, attempt, cancelled, late>>

Operation(c) ==
    \/ Acquire(c)
    \/ Throttle(c)
    \/ Succeed(c)
    \/ \E kind \in ErrorKind : CallFails(c, kind) \/ Retry(c, kind)
    \/ WakeUp(c)
    \/ SleepCancelled(c)

Next ==
    \/ Tick
    \/ \E c \in Caller : Begin(c) \/ Operation(c) \/ Cancel(c)

\* Goroutines run, time passes, and a request comes back in some way.
Spec ==
    /\ Init /\ [][Next]_vars
    /\ WF_vars(Tick)
    /\ \A c \in Caller : WF_vars(Operation(c))

-----------------------------------------------------------------------------
\* Properties.

\* Whoever asks and whenever, no interval sees more requests than a full
\* bucket and what flowed in during it.  debt is the largest excess, over the
\* intervals that end now, of the units spent over the ticks passed; it may
\* never exceed the bucket.
RateBound == debt <= Capacity

\* Why it holds: what was spent too fast is missing from the bucket, so that
\* debt and bucket together never exceed a full bucket.
LimiterInv ==
    /\ tokens \in 0..Capacity
    /\ elapsed \in 0..Capacity
    /\ debt \in Nat
    /\ debt + Refilled <= Capacity

\* Cancellation stops retries, backoff and rate-limit waits: once its context
\* has ended, an operation sends at most one more request, the one it was
\* about to send.
AtMostOneLateRequest == \A c \in Caller : late[c] <= 1

\* The delay the retry after attempt k is documented and tested to have.
Reference(k) == Smaller(MaxBackoff, InitialBackoff * 2^(k - 1))

\* The sleep of rpcRetryPolicy.wait before the next attempt is the exponential
\* delay, exactly: the loop computes min(MaxBackoff, InitialBackoff * 2^(k-1))
\* on int64 values without wrapping, and what the operation sleeps is that delay
\* give or take the jitter, cut to whole ticks.  Excluded: a MaxBackoff so close
\* to the largest time.Duration that the jittered delay does not fit.
BackoffExact ==
    [][\A c \in Caller :
          LET reference == Reference(attempt[c])
          IN  /\ pc[c] = "call" /\ pc'[c] = "backoff"
              /\ reference * (100 + JitterPercent) < (MaxDuration + 1) * 100
              => /\ timer'[c] * 100 <= reference * (100 + JitterPercent)
                 /\ timer'[c] * 100 + 100 > reference * (100 - JitterPercent)]_vars

\* Every operation ends, though the bucket serves whoever comes first and a
\* throttled caller may find its token taken when it wakes.
OperationEnds == \A c \in Caller : (pc[c] = "limiter") ~> (pc[c] \in Ended)
=============================================================================

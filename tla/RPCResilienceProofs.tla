------------------------ MODULE RPCResilienceProofs ------------------------
(***************************************************************************)
(* The token bucket of ResilientEthereumClient keeps its rate, and a        *)
(* cancelled operation stops, for every number of callers, every burst,     *)
(* every rate and every retry policy.                                       *)
(***************************************************************************)
EXTENDS RPCResilience, FiniteSetTheorems, TLAPS

\* The bucket holds a natural number of units, and a request costs one or more.
LEMMA CapacityNat == Capacity \in Nat /\ Cost \in Nat /\ Cost > 0
  <1>1. Burst \in Nat /\ Cost \in Nat /\ Cost > 0
    BY ConfigAssumption
  <1>2. Burst * Cost \in Nat
    BY <1>1
  <1> QED
    BY <1>1, <1>2 DEF Capacity

\* Only taking a token, being throttled and the passing of time touch the
\* limiter: the other steps of an operation leave it alone.
LEMMA OthersKeepLimiter ==
    ASSUME NEW c \in Caller,
           \/ Begin(c) \/ Succeed(c) \/ WakeUp(c) \/ SleepCancelled(c) \/ Cancel(c)
           \/ \E kind \in ErrorKind : CallFails(c, kind) \/ Retry(c, kind)
    PROVE  UNCHANGED limiterVars
  BY DEF Begin, Succeed, WakeUp, SleepCancelled, Cancel, CallFails, Retry

\* The initial bucket is full and nothing has been spent.
LEMMA InitLimiter == Init => LimiterInv
  BY CapacityNat DEF Init, LimiterInv, Refilled, Smaller

\* A step that leaves the limiter alone keeps its invariant.
LEMMA StutterLimiter == LimiterInv /\ UNCHANGED limiterVars => LimiterInv'
  BY DEF LimiterInv, limiterVars, Refilled, Smaller

\* Every step of every caller, and every tick, keeps debt and bucket together
\* within a full bucket.
LEMMA NextLimiter == LimiterInv /\ [Next]_vars => LimiterInv'
  <1> SUFFICES ASSUME LimiterInv, [Next]_vars PROVE LimiterInv'
    OBVIOUS
  <1> USE CapacityNat
  <1>1. CASE Tick
    BY <1>1 DEF Tick, LimiterInv, Refilled, Smaller
  <1>2. ASSUME NEW c \in Caller, Acquire(c) PROVE LimiterInv'
    BY <1>2 DEF Acquire, LimiterInv, Refilled, Smaller
  <1>3. ASSUME NEW c \in Caller, Throttle(c) PROVE LimiterInv'
    BY <1>3 DEF Throttle, LimiterInv, Refilled, Smaller
  <1>4. ASSUME NEW c \in Caller,
               \/ Begin(c) \/ Succeed(c) \/ WakeUp(c) \/ SleepCancelled(c) \/ Cancel(c)
               \/ \E kind \in ErrorKind : CallFails(c, kind) \/ Retry(c, kind)
        PROVE  LimiterInv'
    BY <1>4, OthersKeepLimiter, StutterLimiter
  <1>5. CASE UNCHANGED vars
    BY <1>5, StutterLimiter DEF vars
  <1> QED
    BY <1>1, <1>2, <1>3, <1>4, <1>5 DEF Next, Operation

\* rpcRateLimiter keeps its rate: however many goroutines share the bucket and
\* however they retry, sleep and are cancelled, no interval admits more than a
\* full bucket and what flowed in during it.
THEOREM RateTheorem == Spec => []RateBound
  <1>1. LimiterInv => RateBound
    BY CapacityNat DEF LimiterInv, RateBound, Refilled, Smaller
  <1> QED
    BY <1>1, InitLimiter, NextLimiter, PTL DEF Spec

-----------------------------------------------------------------------------
\* Cancellation.

\* An operation that sent a request after its context ended is waiting for that
\* request or is over: it is neither asleep nor about to ask the limiter, so no
\* further request of it can follow.
LateInv ==
    /\ pc \in [Caller -> {"idle", "limiter", "throttled", "call", "backoff"} \cup Ended]
    /\ late \in [Caller -> 0..1]
    /\ \A c \in Caller :
          late[c] = 1 => c \in cancelled /\ pc[c] \in {"call"} \cup Ended

\* Before the first request nothing was sent late.
LEMMA InitLate == Init => LateInv
  BY DEF Init, LateInv

\* Only the step that takes a token counts a late request, and then the caller
\* was still in the limiter, so it had counted none.  A late request that fails
\* is not repeated: the retry loop looks at ctx.Err() first.
LEMMA NextLate == LateInv /\ [Next]_vars => LateInv'
  <1> SUFFICES ASSUME LateInv, [Next]_vars PROVE LateInv'
    OBVIOUS
  <1> USE DEF LateInv, Ended
  <1>1. CASE Tick
    BY <1>1 DEF Tick
  <1>2. ASSUME NEW c \in Caller, Begin(c) PROVE LateInv'
    BY <1>2 DEF Begin
  <1>3. ASSUME NEW c \in Caller, Acquire(c) PROVE LateInv'
    <2>1. late[c] = 0
      BY <1>3 DEF Acquire
    <2> QED
      BY <1>3, <2>1 DEF Acquire
  <1>4. ASSUME NEW c \in Caller, Throttle(c) PROVE LateInv'
    BY <1>4 DEF Throttle
  <1>5. ASSUME NEW c \in Caller, Succeed(c) PROVE LateInv'
    BY <1>5 DEF Succeed
  <1>6. ASSUME NEW c \in Caller, NEW kind \in ErrorKind, CallFails(c, kind) PROVE LateInv'
    BY <1>6 DEF CallFails
  <1>7. ASSUME NEW c \in Caller, NEW kind \in ErrorKind, Retry(c, kind) PROVE LateInv'
    <2>1. late[c] = 0
      BY <1>7 DEF Retry
    <2> QED
      BY <1>7, <2>1 DEF Retry
  <1>8. ASSUME NEW c \in Caller, WakeUp(c) PROVE LateInv'
    BY <1>8 DEF WakeUp
  <1>9. ASSUME NEW c \in Caller, SleepCancelled(c) PROVE LateInv'
    BY <1>9 DEF SleepCancelled
  <1>10. ASSUME NEW c \in Caller, Cancel(c) PROVE LateInv'
    BY <1>10 DEF Cancel
  <1>11. CASE UNCHANGED vars
    BY <1>11 DEF vars
  <1> QED
    BY <1>1, <1>2, <1>3, <1>4, <1>5, <1>6, <1>7, <1>8, <1>9, <1>10, <1>11
    DEF Next, Operation

\* executeResilientRPC stops when its context ends: whatever the limiter, the
\* backoff and the node do, an operation sends at most the one request it was
\* about to send when it was cancelled.
THEOREM CancellationTheorem == Spec => []AtMostOneLateRequest
  <1>1. LateInv => AtMostOneLateRequest
    BY DEF LateInv, AtMostOneLateRequest
  <1> QED
    BY <1>1, InitLate, NextLate, PTL DEF Spec

-----------------------------------------------------------------------------
\* Backoff.

\* Powers of two, from the number of subsets of a finite set.
LEMMA PowerOfZero == 2^0 = 1
  <1>1. IsFiniteSet({}) /\ Cardinality({}) = 0
    BY FS_EmptySet
  <1>2. Cardinality(SUBSET {}) = 2^Cardinality({})
    BY <1>1, FS_SUBSET
  <1>3. SUBSET {} = {{}}
    OBVIOUS
  <1>4. Cardinality({{}}) = 1
    BY FS_Singleton
  <1> QED
    BY <1>1, <1>2, <1>3, <1>4

LEMMA PowerDoubles ==
    ASSUME NEW n \in Nat
    PROVE  2^n \in Nat \ {0} /\ 2^(n + 1) = 2 * 2^n
  <1> DEFINE S == 1..n
             T == 1..(n + 1)
             Q == {X \cup {n + 1} : X \in SUBSET S}
             f == [X \in SUBSET S |-> X \cup {n + 1}]
  <1>1. IsFiniteSet(S) /\ Cardinality(S) = n /\ IsFiniteSet(T) /\ Cardinality(T) = n + 1
    BY FS_Interval
  <1>2. /\ IsFiniteSet(SUBSET S) /\ Cardinality(SUBSET S) = 2^n
        /\ Cardinality(SUBSET T) = 2^(n + 1)
    BY <1>1, FS_SUBSET
  <1>3. n + 1 \notin S /\ T = S \cup {n + 1}
    OBVIOUS
  <1>4. SUBSET T = (SUBSET S) \cup Q
    <2> HIDE DEF S, T
    <2>1. ASSUME NEW Y \in SUBSET T, n + 1 \in Y PROVE Y \in Q
      <3>1. Y \ {n + 1} \in SUBSET S
        BY <1>3
      <3>2. Y = (Y \ {n + 1}) \cup {n + 1}
        BY <2>1
      <3> QED
        BY <3>1, <3>2
    <2>2. ASSUME NEW Y \in SUBSET T, n + 1 \notin Y PROVE Y \in SUBSET S
      BY <1>3, <2>2
    <2>3. ASSUME NEW Y \in (SUBSET S) \cup Q PROVE Y \in SUBSET T
      BY <1>3
    <2> QED
      BY <2>1, <2>2, <2>3
  <1>5. (SUBSET S) \cap Q = {}
    <2> HIDE DEF S, T
    <2> QED
      BY <1>3
  <1>6. f \in Bijection(SUBSET S, Q)
    <2> HIDE DEF S, T
    <2>1. f \in [SUBSET S -> Q]
      OBVIOUS
    <2>2. ASSUME NEW X \in SUBSET S, NEW Y \in SUBSET S, f[X] = f[Y] PROVE X = Y
      <3>1. X = f[X] \ {n + 1} /\ Y = f[Y] \ {n + 1}
        BY <1>3
      <3> QED
        BY <2>2, <3>1
    <2>3. \A Y \in Q : \E X \in SUBSET S : f[X] = Y
      OBVIOUS
    <2> HIDE DEF f, Q
    <2>4. f \in Injection(SUBSET S, Q)
      BY <2>1, <2>2 DEF Injection, IsInjective
    <2>5. f \in Surjection(SUBSET S, Q)
      BY <2>1, <2>3 DEF Surjection
    <2> QED
      BY <2>4, <2>5 DEF Bijection
  <1> HIDE DEF S, T, Q, f
  <1>7. IsFiniteSet(Q) /\ Cardinality(Q) = 2^n
    <2>1. ExistsBijection(SUBSET S, Q)
      BY <1>6 DEF ExistsBijection
    <2> QED
      BY <1>2, <2>1, FS_Bijection
  <1>8. Cardinality(SUBSET T) = Cardinality(SUBSET S) + Cardinality(Q) - Cardinality({})
    BY <1>2, <1>4, <1>5, <1>7, FS_Union
  <1>9. 2^n \in Nat
    BY <1>2, FS_CardinalityType
  <1>10. 2^n # 0
    <2>1. {} \in SUBSET S
      OBVIOUS
    <2> QED
      BY <1>2, <2>1, FS_EmptySet
  <1>11. 2^(n + 1) = 2 * 2^n
    BY <1>2, <1>7, <1>8, <1>9, FS_EmptySet
  <1> QED
    BY <1>9, <1>10, <1>11

\* One round of the loop in rpcRetryPolicy.wait.
Doubled(delay) ==
    IF delay >= MaxBackoff THEN delay
    ELSE IF delay > MaxBackoff \div 2 THEN MaxBackoff
    ELSE Twice(delay)

LEMMA ReferenceFirst == Reference(1) = InitialBackoff
  <1>1. InitialBackoff \in Nat /\ MaxBackoff \in Nat /\ InitialBackoff <= MaxBackoff
    BY ConfigAssumption
  <1>2. 2^(1 - 1) = 1
    BY PowerOfZero
  <1> QED
    BY <1>1, <1>2 DEF Reference, Smaller

\* Halving MaxBackoff first, as the code does, makes the same choice as doubling
\* the delay and cutting it off, and the doubling never wraps.
LEMMA ReferenceNext ==
    ASSUME NEW k \in Nat \ {0}
    PROVE  Reference(k) \in Nat /\ Reference(k + 1) = Doubled(Reference(k))
  <1> DEFINE x == InitialBackoff * 2^(k - 1)
             y == InitialBackoff * 2^k
  <1>1. InitialBackoff \in Nat /\ MaxBackoff \in Nat
    BY ConfigAssumption
  <1>2. 2^(k - 1) \in Nat /\ 2^k = 2 * 2^(k - 1)
    <2>1. k - 1 \in Nat /\ (k - 1) + 1 = k
      OBVIOUS
    <2> QED
      BY <2>1, PowerDoubles
  <1>3. x \in Nat /\ y = 2 * x
    <2> DEFINE p == 2^(k - 1)
    <2>1. p \in Nat /\ y = InitialBackoff * (2 * p) /\ x = InitialBackoff * p
      BY <1>2
    <2> HIDE DEF p, x, y
    <2> QED
      BY <1>1, <2>1
  <1>4. Reference(k) = Smaller(MaxBackoff, x) /\ Reference(k + 1) = Smaller(MaxBackoff, y)
    <2>1. (k + 1) - 1 = k
      OBVIOUS
    <2> QED
      BY <2>1 DEF Reference
  <1> HIDE DEF x, y
  <1>5. Smaller(MaxBackoff, x) \in Nat
    BY <1>1, <1>3 DEF Smaller
  <1>6. Smaller(MaxBackoff, 2 * x) = Doubled(Smaller(MaxBackoff, x))
    <2>1. MaxDuration \in Nat /\ MaxBackoff <= MaxDuration
      BY ConfigAssumption
    <2>2. ASSUME NEW d \in Nat, d <= MaxBackoff \div 2 PROVE Twice(d) = 2 * d
      BY <1>1, <2>1, <2>2 DEF Twice
    <2>3. MaxBackoff \div 2 \in Nat
      BY <1>1
    <2> QED
      BY <1>1, <1>3, <2>2, <2>3 DEF Smaller, Doubled
  <1> QED
    BY <1>3, <1>4, <1>5, <1>6

\* LoopDelay satisfies its recursion: the reference is a function that does.
LEMMA BackoffUnfolds ==
    /\ LoopDelay[1] = InitialBackoff
    /\ \A k \in 1..MaxAttempts : k # 1 => LoopDelay[k] = Doubled(LoopDelay[k - 1])
  <1> DEFINE body(f) == [k \in 1..MaxAttempts |->
                            IF k = 1 THEN InitialBackoff
                            ELSE LET delay == f[k - 1]
                                 IN  IF delay >= MaxBackoff THEN delay
                                     ELSE IF delay > MaxBackoff \div 2 THEN MaxBackoff
                                     ELSE Twice(delay)]
             g == [k \in 1..MaxAttempts |-> Reference(k)]
  <1>1. MaxAttempts \in Nat /\ MaxAttempts >= 1
    BY ConfigAssumption
  <1>2. ASSUME NEW k \in 1..MaxAttempts
        PROVE  g[k] = IF k = 1 THEN InitialBackoff ELSE Doubled(g[k - 1])
    <2>1. CASE k = 1
      BY <2>1, ReferenceFirst
    <2>2. CASE k # 1
      <3>1. k - 1 \in 1..MaxAttempts /\ k - 1 \in Nat \ {0} /\ (k - 1) + 1 = k
        BY <1>1, <2>2
      <3>2. Reference(k) = Doubled(Reference(k - 1))
        BY <3>1, ReferenceNext
      <3> QED
        BY <2>2, <3>1, <3>2
    <2> QED
      BY <2>1, <2>2
  <1>3. g = body(g)
    BY <1>2 DEF Doubled
  <1>4. LoopDelay = CHOOSE f : f = body(f)
    BY DEF LoopDelay
  <1>5. LoopDelay = body(LoopDelay)
    <2> HIDE DEF g, body
    <2> QED
      BY <1>3, <1>4
  <1>6. 1 \in 1..MaxAttempts
    BY <1>1
  <1> QED
    BY <1>5, <1>6 DEF Doubled

\* A jittered delay that fits is the delay give or take the jitter, cut to whole
\* ticks.
LEMMA JitterBound ==
    ASSUME NEW d \in Nat, NEW delay \in Jittered(d)
    PROVE  /\ delay \in Nat
           /\ d * (100 + JitterPercent) < (MaxDuration + 1) * 100 =>
                 /\ delay * 100 <= d * (100 + JitterPercent)
                 /\ delay * 100 + 100 > d * (100 - JitterPercent)
  <1> DEFINE lo == d * (100 - JitterPercent)
             hi == d * (100 + JitterPercent)
             shortest == Larger(0, lo \div 100)
             longest == Larger(0, hi \div 100)
  <1>1. JitterPercent \in Nat /\ 100 - JitterPercent \in Nat /\ MaxDuration \in Nat
    BY ConfigAssumption
  <1>2. lo \in Nat /\ hi \in Nat
    <2> DEFINE j == 100 - JitterPercent
               i == 100 + JitterPercent
    <2>1. j \in Nat /\ i \in Nat
      BY <1>1
    <2> HIDE DEF j, i
    <2>2. d * j \in Nat /\ d * i \in Nat
      BY <2>1
    <2> QED
      BY <2>2 DEF j, i
  <1>3. delay \in IF longest <= MaxDuration THEN shortest..longest ELSE 0..MaxDuration
    BY DEF Jittered
  <1> HIDE DEF lo, hi
  <1>4. shortest = lo \div 100 /\ longest = hi \div 100
    BY <1>2 DEF Larger
  <1> HIDE DEF shortest, longest
  <1>5. delay \in Nat
    BY <1>1, <1>2, <1>3, <1>4
  <1>6. ASSUME hi < (MaxDuration + 1) * 100
        PROVE  delay * 100 <= hi /\ delay * 100 + 100 > lo
    <2>1. longest <= MaxDuration
      BY <1>1, <1>2, <1>4, <1>6
    <2>2. shortest <= delay /\ delay <= longest
      BY <1>2, <1>3, <1>4, <2>1
    <2> QED
      BY <1>2, <1>4, <1>5, <2>2
  <1> QED
    BY <1>5, <1>6 DEF hi, lo

\* The loop variable only ever moves to the next attempt, so the loop's delay
\* follows the reference from attempt to attempt.
BackoffInv ==
    /\ pc \in [Caller -> {"idle", "limiter", "throttled", "call", "backoff"} \cup Ended]
    /\ attempt \in [Caller -> 1..MaxAttempts]
    /\ timer \in [Caller -> Nat]
    /\ \A c \in Caller : LoopDelay[attempt[c]] = Reference(attempt[c])
    /\ \A c \in Caller : pc[c] = "backoff" => attempt[c] < MaxAttempts

LEMMA InitBackoff == Init => BackoffInv
  <1>1. MaxAttempts \in Nat /\ MaxAttempts >= 1
    BY ConfigAssumption
  <1>2. LoopDelay[1] = Reference(1)
    BY BackoffUnfolds, ReferenceFirst
  <1> QED
    BY <1>1, <1>2 DEF Init, BackoffInv

\* The retry after attempt k sleeps the reference delay with its jitter; the
\* clamp behind the loop has nothing left to do.
LEMMA RetrySleeps ==
    ASSUME BackoffInv, NEW c \in Caller, NEW kind \in ErrorKind, Retry(c, kind)
    PROVE  /\ attempt[c] < MaxAttempts /\ Reference(attempt[c]) \in Nat
           /\ \E delay \in Jittered(Reference(attempt[c])) : timer' = [timer EXCEPT ![c] = delay]
  <1> DEFINE k == attempt[c]
  <1>1. k \in 1..MaxAttempts /\ k < MaxAttempts /\ k \in Nat \ {0}
    BY DEF BackoffInv, Retry
  <1>2. LoopDelay[k] = Reference(k) /\ Reference(k) \in Nat
    BY <1>1, ReferenceNext DEF BackoffInv
  <1>3. Reference(k) <= MaxBackoff
    <2>1. MaxBackoff \in Nat /\ InitialBackoff \in Nat
      BY ConfigAssumption
    <2> DEFINE x == InitialBackoff * 2^(k - 1)
    <2>2. Reference(k) = Smaller(MaxBackoff, x)
      BY DEF Reference
    <2>3. x \in Nat
      <3>1. 2^(k - 1) \in Nat
        BY <1>1, PowerDoubles
      <3> QED
        BY <2>1, <3>1
    <2> HIDE DEF x
    <2> QED
      BY <2>1, <2>2, <2>3 DEF Smaller
  <1>4. BackoffDelay(k) = Reference(k)
    BY <1>2, <1>3 DEF BackoffDelay, Smaller
  <1> QED
    BY <1>1, <1>2, <1>4 DEF Retry

LEMMA RetryBackoff ==
    ASSUME BackoffInv, NEW c \in Caller, NEW kind \in ErrorKind, Retry(c, kind)
    PROVE  BackoffInv'
  <1> DEFINE k == attempt[c]
  <1>1. k < MaxAttempts /\ Reference(k) \in Nat
    BY RetrySleeps
  <1>2. PICK delay \in Jittered(Reference(k)) : timer' = [timer EXCEPT ![c] = delay]
    BY RetrySleeps
  <1>3. delay \in Nat
    BY <1>1, <1>2, JitterBound
  <1>4. attempt' = attempt /\ pc' = [pc EXCEPT ![c] = "backoff"]
    BY DEF Retry
  <1> QED
    BY <1>1, <1>2, <1>3, <1>4 DEF BackoffInv

LEMMA WakeBackoff ==
    ASSUME BackoffInv, NEW c \in Caller, WakeUp(c)
    PROVE  BackoffInv'
  <1> DEFINE k == attempt[c]
  <1>1. k \in 1..MaxAttempts /\ LoopDelay[k] = Reference(k) /\ MaxAttempts \in Nat
    BY ConfigAssumption DEF BackoffInv
  <1>2. timer' = timer /\ pc' = [pc EXCEPT ![c] = "limiter"]
    BY DEF WakeUp
  <1>3. CASE pc[c] = "backoff"
    <2>1. attempt' = [attempt EXCEPT ![c] = k + 1] /\ k < MaxAttempts
      BY <1>3 DEF WakeUp, BackoffInv
    <2>2. k + 1 \in 1..MaxAttempts /\ k + 1 # 1 /\ (k + 1) - 1 = k /\ k \in Nat \ {0}
      BY <1>1, <2>1
    <2>3. LoopDelay[k + 1] = Doubled(LoopDelay[(k + 1) - 1])
      BY <2>2, BackoffUnfolds
    <2>4. LoopDelay[k + 1] = Reference(k + 1)
      BY <1>1, <2>2, <2>3, ReferenceNext
    <2> HIDE DEF k
    <2> QED
      BY <1>2, <2>1, <2>2, <2>4 DEF BackoffInv
  <1>4. CASE pc[c] # "backoff"
    <2>1. attempt' = attempt
      BY <1>4 DEF WakeUp, BackoffInv
    <2> QED
      BY <1>2, <2>1 DEF BackoffInv
  <1> QED
    BY <1>3, <1>4

\* Time only shortens a sleep.
LEMMA TickBackoff == BackoffInv /\ Tick => BackoffInv'
  BY DEF Tick, BackoffInv

\* The other steps set no backoff timer and move no attempt.
LEMMA NextBackoff == LimiterInv /\ BackoffInv /\ [Next]_vars => BackoffInv'
  <1> SUFFICES ASSUME LimiterInv, BackoffInv, [Next]_vars PROVE BackoffInv'
    OBVIOUS
  <1>1. ASSUME NEW c \in Caller, Throttle(c) PROVE BackoffInv'
    <2>1. Cost - Refilled \in Nat
      BY <1>1, CapacityNat DEF Throttle, LimiterInv, Refilled, Smaller
    <2>2. /\ pc' = [pc EXCEPT ![c] = "throttled"] /\ attempt' = attempt
          /\ timer' = [timer EXCEPT ![c] = Cost - Refilled]
      BY <1>1 DEF Throttle
    <2> QED
      BY <2>1, <2>2 DEF BackoffInv
  <1>2. ASSUME NEW c \in Caller,
               Begin(c) \/ Acquire(c) \/ Succeed(c) \/ Cancel(c) \/ SleepCancelled(c)
               \/ \E kind \in ErrorKind : CallFails(c, kind)
        PROVE  BackoffInv'
    <2> USE DEF BackoffInv, Ended
    <2>1. CASE Begin(c)
      BY <2>1 DEF Begin
    <2>2. CASE Acquire(c)
      BY <2>2 DEF Acquire
    <2>3. CASE Succeed(c)
      BY <2>3 DEF Succeed
    <2>4. CASE Cancel(c)
      BY <2>4 DEF Cancel
    <2>5. CASE SleepCancelled(c)
      BY <2>5 DEF SleepCancelled
    <2>6. CASE \E kind \in ErrorKind : CallFails(c, kind)
      BY <2>6 DEF CallFails
    <2> QED
      BY <1>2, <2>1, <2>2, <2>3, <2>4, <2>5, <2>6
  <1>3. CASE UNCHANGED vars
    BY <1>3 DEF vars, BackoffInv
  <1> QED
    BY <1>1, <1>2, <1>3, RetryBackoff, WakeBackoff, TickBackoff DEF Next, Operation

\* Only a retry begins a backoff, and it sets the timer to the reference delay
\* with its jitter.
LEMMA BackoffStep ==
    ASSUME BackoffInv, [Next]_vars, NEW c \in Caller, pc[c] = "call", pc'[c] = "backoff",
           Reference(attempt[c]) * (100 + JitterPercent) < (MaxDuration + 1) * 100
    PROVE  /\ timer'[c] * 100 <= Reference(attempt[c]) * (100 + JitterPercent)
           /\ timer'[c] * 100 + 100 > Reference(attempt[c]) * (100 - JitterPercent)
  <1>1. ASSUME NEW b \in Caller,
               Begin(b) \/ Acquire(b) \/ Throttle(b) \/ Succeed(b) \/ Cancel(b)
               \/ WakeUp(b) \/ SleepCancelled(b) \/ \E kind \in ErrorKind : CallFails(b, kind)
        PROVE  FALSE
    BY <1>1 DEF BackoffInv, Begin, Acquire, Throttle, Succeed, Cancel, WakeUp, SleepCancelled,
                CallFails
  <1>2. ~(Tick \/ UNCHANGED vars)
    BY DEF Tick, vars
  <1>3. PICK b \in Caller, kind \in ErrorKind : Retry(b, kind)
    BY <1>1, <1>2 DEF Next, Operation
  <1>4. b = c
    BY <1>3 DEF Retry, BackoffInv
  <1>5. PICK delay \in Jittered(Reference(attempt[c])) : timer' = [timer EXCEPT ![c] = delay]
    BY <1>3, <1>4, RetrySleeps
  <1>6. timer'[c] = delay
    BY <1>5 DEF BackoffInv
  <1>7. Reference(attempt[c]) \in Nat
    BY <1>3, <1>4, RetrySleeps
  <1> QED
    BY <1>5, <1>6, <1>7, JitterBound

\* rpcRetryPolicy.wait sleeps the exponential delay for every policy that
\* validates, every number of attempts and every width of time.Duration: the
\* loop with its overflow guard computes min(MaxBackoff, InitialBackoff * 2^(k-1))
\* without wrapping, and the timer is set to that within the jitter.
THEOREM BackoffTheorem == Spec => BackoffExact
  <1>1. BackoffInv /\ [Next]_vars =>
          \A c \in Caller :
            LET reference == Reference(attempt[c])
            IN  /\ pc[c] = "call" /\ pc'[c] = "backoff"
                /\ reference * (100 + JitterPercent) < (MaxDuration + 1) * 100
                => /\ timer'[c] * 100 <= reference * (100 + JitterPercent)
                   /\ timer'[c] * 100 + 100 > reference * (100 - JitterPercent)
    BY BackoffStep
  <1> QED
    BY <1>1, InitBackoff, NextBackoff, InitLimiter, NextLimiter, PTL DEF Spec, BackoffExact

\* Buckets, timers and attempts stay within their types.
THEOREM RPCTypeTheorem == Spec => []TypeOK
  <1>1. Init => cancelled \subseteq Caller
    BY DEF Init
  <1>2. cancelled \subseteq Caller /\ [Next]_vars => (cancelled \subseteq Caller)'
    BY DEF Next, Operation, vars, Tick, Begin, Acquire, Throttle, Succeed, CallFails, Retry,
           WakeUp, SleepCancelled, Cancel
  <1>3. LimiterInv /\ LateInv /\ BackoffInv /\ cancelled \subseteq Caller => TypeOK
    BY DEF LimiterInv, LateInv, BackoffInv, TypeOK
  <1> QED
    BY <1>1, <1>2, <1>3, InitLimiter, NextLimiter, InitLate, NextLate, InitBackoff,
       NextBackoff, PTL DEF Spec
=============================================================================

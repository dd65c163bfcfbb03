------------------------- MODULE TokenLedgerProofs -------------------------
(***************************************************************************)
(* What internal/metadata and internal/domain compute, for every input.      *)
(*                                                                           *)
(* GetTokenMetadata for any number of handlers and any contract: answers     *)
(* were saved before they were given, and as long as the contract does not   *)
(* change its answers, cache, table and handlers agree.                      *)
(*                                                                           *)
(* FormatTokenAmount for every amount and every number of decimals: the text *)
(* is exact and the shortest one.                                            *)
(*                                                                           *)
(* The ledger for every width, genesis, block and sequence of calls: its     *)
(* balances are those its blocks account for.                                *)
(*                                                                           *)
(* The last two are inductions over numbers and sequences.  The library's    *)
(* induction theorems have a predicate as their parameter; the ones used     *)
(* here (StrongInduction, StepInduction) have a set, and follow from the     *)
(* well-foundedness of < on Nat.  That a recursive function exists is proved *)
(* with them, from its approximations on initial segments.                   *)
(***************************************************************************)
EXTENDS TokenEnrichment, Ledger, SequenceTheorems, FiniteSetTheorems, TLAPS

-----------------------------------------------------------------------------
\* Token metadata.

\* What the contract answers now, to all three calls.
Current == [name |-> deployed, symbol |-> deployed, decimals |-> deployed]

\* How far a call has come with the three eth_calls.
CallTypes ==
    /\ pc \in [Caller -> {"idle", "load", "save", "cache"} \cup Reading]
    /\ metadata \in [Caller -> [name : Version \cup {None},
                               symbol : Version \cup {None},
                               decimals : Version \cup {None}]]
    /\ \A c \in Caller :
          /\ pc[c] \in {"symbol", "decimals"} => metadata[c].name \in Version
          /\ pc[c] = "decimals" => metadata[c].symbol \in Version
          /\ pc[c] \in {"save", "cache"} => metadata[c] \in Metadata
          /\ pc[c] \in {"idle", "load"} => metadata[c] = Unread

SharedTypes ==
    /\ deployed \in Version
    /\ row \in Metadata \cup {None}
    /\ cache \in Metadata \cup {None}
    /\ returned \in [Caller -> Metadata \cup {None}]
    /\ moved \in BOOLEAN
    /\ saved \subseteq Metadata

\* A call that is about to fill the cache holds what was in the table, and a
\* table that was ever written has a row.
SavedInv ==
    /\ \A c \in Caller : pc[c] = "cache" => metadata[c] \in saved
    /\ cache # None => cache \in saved
    /\ \A c \in Caller : returned[c] # None => returned[c] \in saved
    /\ row # None => row \in saved
    /\ row = None => saved = {}

\* While the contract is stable, what each call has read so far is what the
\* contract answers now, and so is everything it left behind.
StableInv ==
    ~moved =>
        /\ {row, cache} \subseteq {None, Current}
        /\ \A c \in Caller :
              /\ returned[c] \in {None, Current}
              /\ pc[c] \in {"symbol", "decimals"} => metadata[c].name = deployed
              /\ pc[c] = "decimals" => metadata[c].symbol = deployed
              /\ pc[c] \in {"save", "cache"} => metadata[c] = Current

MetadataInv == CallTypes /\ SharedTypes /\ SavedInv /\ StableInv

\* The service starts with an empty cache, an empty table and no call.
LEMMA InitMetadata == Init => MetadataInv
  <1> SUFFICES ASSUME Init PROVE MetadataInv
    OBVIOUS
  <1>1. CallTypes
    BY DEF Init, CallTypes, Unread, Reading
  <1>2. SharedTypes
    BY DEF Init, SharedTypes
  <1>3. SavedInv
    BY DEF Init, SavedInv
  <1>4. StableInv
    BY DEF Init, StableInv
  <1> QED
    BY <1>1, <1>2, <1>3, <1>4 DEF MetadataInv

\* Every step of a call keeps the types, and reads the fields in their order.
LEMMA CallKeepsTypes ==
    ASSUME MetadataInv, NEW c \in Caller, GetTokenMetadata(c)
    PROVE  CallTypes' /\ SharedTypes'
  <1> USE DEF MetadataInv, CallTypes, SharedTypes, Metadata, Unread, Reading, tableVars
  <1>1. CASE CacheHit(c)
    BY <1>1 DEF CacheHit, Return
  <1>2. CASE CacheMiss(c)
    BY <1>2 DEF CacheMiss
  <1>3. CASE LoadTokenMetadata(c)
    BY <1>3 DEF LoadTokenMetadata
  <1>4. CASE FetchName(c)
    BY <1>4 DEF FetchName
  <1>5. CASE FetchSymbol(c)
    BY <1>5 DEF FetchSymbol
  <1>6. CASE FetchDecimals(c)
    BY <1>6 DEF FetchDecimals
  <1>7. CASE SaveTokenMetadata(c)
    BY <1>7 DEF SaveTokenMetadata, Upsert
  <1>8. CASE CacheMetadata(c)
    BY <1>8 DEF CacheMetadata, Return
  <1>9. CASE Fail(c)
    BY <1>9 DEF Fail, Return
  <1>10. CASE SaveAnswerLost(c)
    BY <1>10 DEF SaveAnswerLost, Upsert, Return
  <1> QED
    BY <1>1, <1>2, <1>3, <1>4, <1>5, <1>6, <1>7, <1>8, <1>9, <1>10 DEF GetTokenMetadata

\* No call answers, or fills the cache, before its answer is in the table: the
\* error of a failed save is returned in place of the metadata.
LEMMA CallKeepsSaved ==
    ASSUME MetadataInv, NEW c \in Caller, GetTokenMetadata(c)
    PROVE  SavedInv'
  <1> USE NoneAssumption DEF MetadataInv, CallTypes, SharedTypes, SavedInv, tableVars
  <1>1. CASE CacheHit(c)
    BY <1>1 DEF CacheHit, Return
  <1>2. CASE CacheMiss(c)
    BY <1>2 DEF CacheMiss
  <1>3. CASE LoadTokenMetadata(c)
    BY <1>3 DEF LoadTokenMetadata
  <1>4. CASE FetchName(c)
    BY <1>4 DEF FetchName
  <1>5. CASE FetchSymbol(c)
    BY <1>5 DEF FetchSymbol
  <1>6. CASE FetchDecimals(c)
    BY <1>6 DEF FetchDecimals
  <1>7. CASE SaveTokenMetadata(c)
    BY <1>7 DEF SaveTokenMetadata, Upsert
  <1>8. CASE CacheMetadata(c)
    BY <1>8 DEF CacheMetadata, Return
  <1>9. CASE Fail(c)
    BY <1>9 DEF Fail, Return, Reading
  <1>10. CASE SaveAnswerLost(c)
    BY <1>10 DEF SaveAnswerLost, Upsert, Return
  <1> QED
    BY <1>1, <1>2, <1>3, <1>4, <1>5, <1>6, <1>7, <1>8, <1>9, <1>10 DEF GetTokenMetadata

\* The three fields come from one version of the contract if there was only
\* one, whichever of the calls in flight wrote the row or filled the cache.
LEMMA CallKeepsStable ==
    ASSUME MetadataInv, NEW c \in Caller, GetTokenMetadata(c)
    PROVE  StableInv'
  <1> USE DEF MetadataInv, CallTypes, SharedTypes, StableInv, Current, Metadata, tableVars
  <1>1. CASE CacheHit(c)
    BY <1>1 DEF CacheHit, Return
  <1>2. CASE CacheMiss(c)
    BY <1>2 DEF CacheMiss
  <1>3. CASE LoadTokenMetadata(c)
    BY <1>3 DEF LoadTokenMetadata
  <1>4. CASE FetchName(c)
    BY <1>4 DEF FetchName
  <1>5. CASE FetchSymbol(c)
    BY <1>5 DEF FetchSymbol
  <1>6. CASE FetchDecimals(c)
    BY <1>6 DEF FetchDecimals
  <1>7. CASE SaveTokenMetadata(c)
    BY <1>7 DEF SaveTokenMetadata, Upsert
  <1>8. CASE CacheMetadata(c)
    BY <1>8 DEF CacheMetadata, Return
  <1>9. CASE Fail(c)
    BY <1>9 DEF Fail, Return, Reading
  <1>10. CASE SaveAnswerLost(c)
    BY <1>10 DEF SaveAnswerLost, Upsert, Return
  <1> QED
    BY <1>1, <1>2, <1>3, <1>4, <1>5, <1>6, <1>7, <1>8, <1>9, <1>10 DEF GetTokenMetadata

\* Every step of a call, of the contract and of the process keeps the invariant.
LEMMA NextMetadata == MetadataInv /\ [Next]_vars => MetadataInv'
  <1> SUFFICES ASSUME MetadataInv, [Next]_vars PROVE MetadataInv'
    OBVIOUS
  <1>1. ASSUME NEW c \in Caller, GetTokenMetadata(c) PROVE MetadataInv'
    BY <1>1, CallKeepsTypes, CallKeepsSaved, CallKeepsStable DEF MetadataInv
  <1> USE DEF MetadataInv, CallTypes, SharedTypes, SavedInv, StableInv, Unread, Reading, tableVars
  <1>2. CASE Upgrade
    BY <1>2 DEF Upgrade
  <1>3. CASE Restart
    BY <1>3 DEF Restart, Current
  <1>4. CASE UNCHANGED vars
    BY <1>4 DEF vars, Current
  <1> QED
    BY <1>1, <1>2, <1>3, <1>4 DEF Next

\* GetTokenMetadata saves before it answers: what is cached or was returned
\* without an error was in token_metadata first, through failed and lost saves,
\* concurrent handlers and restarts.
THEOREM SavedTheorem == Spec => []AnswersWereSaved
  <1>1. MetadataInv => AnswersWereSaved
    BY DEF MetadataInv, SavedInv, SharedTypes, AnswersWereSaved
  <1> QED
    BY <1>1, InitMetadata, NextMetadata, PTL DEF Spec

\* Concurrent GetTokenMetadata calls do not mix what they read: as long as the
\* contract does not change its answers, cache, table and everything returned
\* agree.
THEOREM AgreementTheorem == Spec => []AgreeWhileStable
  <1>1. MetadataInv => AgreeWhileStable
    BY NoneAssumption DEF MetadataInv, SavedInv, StableInv, SharedTypes, AgreeWhileStable
  <1> QED
    BY <1>1, InitMetadata, NextMetadata, PTL DEF Spec

\* The theorems above are about lookups alone; they hold next to formatting too,
\* whose steps leave the lookups' state as it is.
LEMMA EnrichmentLooksUp == EnrichmentSpec => Spec
  <1>1. EnrichmentInit => Init
    BY DEF EnrichmentInit
  <1>2. [EnrichmentNext]_enrichmentVars => [Next]_vars
    BY DEF EnrichmentNext, enrichmentVars, Formatted
  <1> QED
    BY <1>1, <1>2, PTL DEF EnrichmentSpec, Spec

-----------------------------------------------------------------------------
\* Token amounts: induction over numbers.

\* A set of numbers that is not empty has a least one.
LEMMA LeastNumber ==
    ASSUME NEW T \in SUBSET Nat, T # {}
    PROVE  \E x \in T : \A y \in T : x <= y
  <1>1. PICK x \in T : \A y \in T : <<y, x>> \notin OpToRel(<, Nat)
    BY NatLessThanWellFounded, WFMin, Zenon
  <1>2. ASSUME NEW y \in T PROVE x <= y
    <2>1. x \in Nat /\ y \in Nat
      OBVIOUS
    <2>2. <<y, x>> \notin OpToRel(<, Nat)
      BY <1>1
    <2>3. ~(y < x)
      BY <2>1, <2>2, Zenon DEF OpToRel
    <2> QED
      BY <2>1, <2>3
  <1> QED
    BY <1>2

\* Strong induction, for a set instead of a predicate.
LEMMA StrongInduction ==
    ASSUME NEW S,
           \A n \in Nat : (\A m \in Nat : m < n => m \in S) => n \in S
    PROVE  \A n \in Nat : n \in S
  <1> DEFINE T == {n \in Nat : n \notin S}
  <1> SUFFICES ASSUME T # {} PROVE FALSE
    OBVIOUS
  <1>1. PICK x \in T : \A y \in T : x <= y
    BY LeastNumber
  <1>2. \A m \in Nat : m < x => m \in S
    BY <1>1
  <1> QED
    BY <1>2

\* Induction from one number to the next, for a set.
LEMMA StepInduction ==
    ASSUME NEW S, 0 \in S, \A n \in Nat : n \in S => n + 1 \in S
    PROVE  \A n \in Nat : n \in S
  <1>1. ASSUME NEW n \in Nat, \A m \in Nat : m < n => m \in S
        PROVE  n \in S
    <2>1. CASE n = 0
      BY <2>1
    <2>2. CASE n # 0
      <3>1. n - 1 \in Nat /\ n - 1 < n /\ (n - 1) + 1 = n
        BY <2>2
      <3>2. n - 1 \in S
        BY <1>1, <3>1
      <3> QED
        BY <3>1, <3>2
    <2> QED
      BY <2>1, <2>2
  <1> QED
    BY <1>1, StrongInduction

\* Division with remainder by Base, and that the quotient is smaller: the
\* recursion of Digits ends.
LEMMA Division ==
    ASSUME NEW m \in Nat
    PROVE  /\ m \div Base \in Nat
           /\ m % Base \in Digit
           /\ m = ((m \div Base) * Base) + (m % Base)
           /\ m >= Base => m \div Base < m /\ m \div Base > 0
  <1> DEFINE q == m \div Base
             r == m % Base
  <1>1. Base \in Nat /\ Base > 1
    BY BaseAssumption
  <1>2. q \in Int /\ r \in 0..(Base - 1) /\ m = q * Base + r
    BY <1>1
  <1> HIDE DEF q, r
  <1>3. q >= 0
    BY <1>1, <1>2
  <1>4. ASSUME m >= Base PROVE q > 0
    BY <1>1, <1>2, <1>3, <1>4
  <1>5. ASSUME m >= Base PROVE q < m
    BY <1>1, <1>2, <1>3, <1>4, <1>5
  <1>6. q \in Nat /\ r \in Digit
    BY <1>2, <1>3 DEF Digit
  <1> HIDE DEF Digit
  <1>7. q \in Nat /\ r \in Digit /\ m = q * Base + r /\ (m >= Base => q < m /\ q > 0)
    BY <1>2, <1>4, <1>5, <1>6
  <1> QED
    BY ONLY <1>7 DEF q, r

\* One step of big.Int.String: the digits of m, when f gives those of m \div Base.
Step(f, m) == IF m < Base THEN <<m>> ELSE Append(f[m \div Base], m % Base)

\* f is the recursion of Digits, up to n.
UpTo(n, f) ==
    /\ f \in [0..n -> Seq(Digit)]
    /\ \A m \in 0..n : f[m] = Step(f, m)

\* A step gives digits when the recursive call does.
LEMMA StepTyped ==
    ASSUME NEW m \in Nat, NEW f, m >= Base => f[m \div Base] \in Seq(Digit)
    PROVE  Step(f, m) \in Seq(Digit)
  <1>1. Base \in Nat /\ Base > 1
    BY BaseAssumption
  <1>2. CASE m < Base
    <2>1. m \in Digit
      BY <1>1, <1>2 DEF Digit
    <2> QED
      BY <1>2, <2>1 DEF Step
  <1>3. CASE m >= Base
    <2>1. m % Base \in Digit
      BY Division
    <2> HIDE DEF Digit
    <2> QED
      BY <1>1, <1>3, <2>1 DEF Step
  <1> QED
    BY <1>1, <1>2, <1>3

\* The recursion of Digits can be carried out up to every n.
LEMMA Unfoldings == \A n \in Nat : \E f : UpTo(n, f)
  <1> DEFINE S == {n \in Nat : \E f : UpTo(n, f)}
  <1>0. Base \in Nat /\ Base > 1
    BY BaseAssumption
  <1>1. ASSUME NEW n \in Nat, \A m \in Nat : m < n => m \in S
        PROVE  n \in S
    <2>1. PICK g : n # 0 => UpTo(n - 1, g)
      <3>1. CASE n = 0
        BY <3>1
      <3>2. CASE n # 0
        BY <1>1, <3>2
      <3> QED
        BY <3>1, <3>2
    <2> DEFINE h == [m \in 0..n |-> IF m = n THEN Step(g, n) ELSE g[m]]
    <2>2. ASSUME NEW m \in 0..n PROVE Step(h, m) = Step(g, m)
      <3>1. CASE m < Base
        BY <3>1 DEF Step
      <3>2. CASE m >= Base
        <4>1. m \div Base \in 0..n /\ m \div Base # n
          BY <3>2, Division
        <4>2. h[m \div Base] = g[m \div Base]
          BY <4>1
        <4> HIDE DEF h
        <4> QED
          BY <4>2 DEF Step
      <3> QED
        BY <1>0, <3>1, <3>2
    <2>3. Step(g, n) \in Seq(Digit)
      <3>1. ASSUME n >= Base PROVE g[n \div Base] \in Seq(Digit)
        <4>1. n # 0 /\ n \div Base \in 0..(n - 1)
          BY <1>0, <3>1, Division
        <4> QED
          BY <2>1, <4>1 DEF UpTo
      <3> QED
        BY <3>1, StepTyped
    <2>4. ASSUME NEW m \in 0..n PROVE h[m] = Step(g, m) /\ h[m] \in Seq(Digit)
      <3>1. CASE m = n
        BY <2>3, <3>1
      <3>2. CASE m # n
        <4>1. n # 0 /\ m \in 0..(n - 1)
          BY <3>2
        <4> QED
          BY <2>1, <3>2, <4>1 DEF UpTo
      <3> QED
        BY <3>1, <3>2
    <2>5. h \in [0..n -> Seq(Digit)]
      BY <2>4
    <2>6. UpTo(n, h)
      <3> HIDE DEF h
      <3> QED
        BY <2>2, <2>4, <2>5 DEF UpTo
    <2> QED
      BY <2>6
  <1> HIDE DEF S
  <1>2. \A n \in Nat : n \in S
    BY <1>1, StrongInduction
  <1> QED
    BY <1>2 DEF S

\* Two of these agree where both are defined.
LEMMA UnfoldingsAgree ==
    ASSUME NEW n \in Nat, NEW f, UpTo(n, f), NEW k \in Nat, NEW g, UpTo(k, g)
    PROVE  \A m \in Nat : m <= n /\ m <= k => f[m] = g[m]
  <1> DEFINE S == {m \in Nat : m <= n /\ m <= k => f[m] = g[m]}
  <1>0. Base \in Nat /\ Base > 1
    BY BaseAssumption
  <1>1. ASSUME NEW m \in Nat, \A j \in Nat : j < m => j \in S
        PROVE  m \in S
    <2> SUFFICES ASSUME m <= n, m <= k PROVE f[m] = g[m]
      OBVIOUS
    <2>1. f[m] = Step(f, m) /\ g[m] = Step(g, m)
      BY DEF UpTo
    <2>2. CASE m < Base
      BY <2>1, <2>2 DEF Step
    <2>3. CASE m >= Base
      <3>1. m \div Base \in Nat /\ m \div Base < m
        BY <2>3, Division
      <3>2. f[m \div Base] = g[m \div Base]
        BY <1>1, <3>1
      <3> QED
        BY <2>1, <3>2 DEF Step
    <2> QED
      BY <1>0, <2>2, <2>3
  <1> HIDE DEF S
  <1>2. \A m \in Nat : m \in S
    BY <1>1, StrongInduction
  <1> QED
    BY <1>2 DEF S

\* So it has a solution on all of Nat, and Digits is that solution.
LEMMA DigitsUnfold ==
    ASSUME NEW n \in Nat
    PROVE  /\ n < Base => Digits(n) = <<n>>
           /\ n >= Base => Digits(n) = Append(Digits(n \div Base), n % Base)
  <1> DEFINE body(f) == [m \in Nat |-> IF m < Base THEN <<m>>
                                       ELSE Append(f[m \div Base], m % Base)]
             g(m) == CHOOSE f : UpTo(m, f)
             d == [m \in Nat |-> g(m)[m]]
             digits == CHOOSE f : f = body(f)
  <1>0. Base \in Nat /\ Base > 1
    BY BaseAssumption
  <1>1. ASSUME NEW m \in Nat PROVE UpTo(m, g(m))
    BY Unfoldings
  <1>2. ASSUME NEW m \in Nat PROVE d[m] = Step(d, m)
    <2>1. d[m] = Step(g(m), m)
      <3>1. UpTo(m, g(m)) /\ m \in 0..m
        BY <1>1
      <3> HIDE DEF g
      <3> QED
        BY <3>1 DEF UpTo
    <2>2. CASE m < Base
      BY <2>1, <2>2 DEF Step
    <2>3. CASE m >= Base
      <3> DEFINE j == m \div Base
      <3>1. j \in Nat /\ j < m
        BY <2>3, Division
      <3>2. UpTo(m, g(m)) /\ UpTo(j, g(j))
        BY <1>1, <3>1
      <3> HIDE DEF g, j
      <3>3. g(m)[j] = g(j)[j]
        BY <3>1, <3>2, UnfoldingsAgree
      <3>4. d[j] = g(m)[j]
        BY <3>1, <3>3
      <3> HIDE DEF d
      <3> QED
        BY <2>1, <3>4 DEF Step, j
    <2> QED
      BY <1>0, <2>2, <2>3
  <1>3. d = body(d)
    <2> HIDE DEF g
    <2> QED
      BY <1>2 DEF Step
  <1>4. digits = body(digits)
    <2> HIDE DEF d, body
    <2> QED
      BY <1>3
  <1>5. ASSUME NEW m \in Nat PROVE Digits(m) = digits[m]
    BY DEF Digits
  <1>6. ASSUME NEW m \in Nat PROVE digits[m] = IF m < Base THEN <<m>> ELSE Append(digits[m \div Base], m % Base)
    <2> HIDE DEF digits
    <2> QED
      BY <1>4
  <1> HIDE DEF digits
  <1>7. n \div Base \in Nat
    BY Division
  <1>8. Digits(n) = digits[n] /\ Digits(n \div Base) = digits[n \div Base]
    BY <1>5, <1>7
  <1>9. digits[n] = IF n < Base THEN <<n>> ELSE Append(digits[n \div Base], n % Base)
    BY <1>6
  <1> QED
    BY <1>0, <1>8, <1>9

-----------------------------------------------------------------------------
\* Reading digits.

\* f[i] is the number of the first i digits of s.
Horner(s, f) ==
    /\ f \in [0..Len(s) -> Nat]
    /\ f[0] = 0
    /\ \A i \in 1..Len(s) : f[i] = f[i - 1] * Base + s[i]

\* s reads as n.
Denotes(s, n) == \E f : Horner(s, f) /\ f[Len(s)] = n

\* The reading of a text is unique.
LEMMA NumberUnique ==
    ASSUME NEW s \in Seq(Digit), NEW n, Denotes(s, n)
    PROVE  Number(s) = n
  <1> DEFINE body(f) == [i \in 0..Len(s) |-> IF i = 0 THEN 0 ELSE f[i - 1] * Base + s[i]]
             first == CHOOSE f : f = body(f)
  <1>0. Len(s) \in Nat
    BY LenProperties
  <1>1. PICK h : Horner(s, h) /\ h[Len(s)] = n
    BY DEF Denotes
  <1>2. h = body(h)
    <2>1. ASSUME NEW i \in 0..Len(s)
          PROVE  h[i] = IF i = 0 THEN 0 ELSE h[i - 1] * Base + s[i]
      <3>1. CASE i = 0
        BY <1>1, <3>1 DEF Horner
      <3>2. CASE i # 0
        <4>1. i \in 1..Len(s)
          BY <1>0, <3>2
        <4> QED
          BY <1>1, <3>2, <4>1 DEF Horner
      <3> QED
        BY <3>1, <3>2
    <2> QED
      BY <1>1, <2>1 DEF Horner
  <1>3. first = body(first)
    <2> HIDE DEF body
    <2> QED
      BY <1>2
  <1>4. Number(s) = first[Len(s)]
    BY DEF Number
  <1> HIDE DEF first
  <1>5. ASSUME NEW i \in 0..Len(s)
        PROVE  first[i] = IF i = 0 THEN 0 ELSE first[i - 1] * Base + s[i]
    BY <1>3
  <1> DEFINE S == {i \in Nat : i <= Len(s) => first[i] = h[i]}
  <1>6. ASSUME NEW i \in Nat, \A j \in Nat : j < i => j \in S
        PROVE  i \in S
    <2> SUFFICES ASSUME i <= Len(s) PROVE first[i] = h[i]
      OBVIOUS
    <2>1. CASE i = 0
      BY <1>0, <1>1, <1>5, <2>1 DEF Horner
    <2>2. CASE i # 0
      <3>1. i - 1 \in Nat /\ i - 1 < i /\ i \in 1..Len(s) /\ i \in 0..Len(s)
        BY <1>0, <2>2
      <3>2. first[i - 1] = h[i - 1]
        BY <1>0, <1>6, <3>1
      <3>3. h[i] = h[i - 1] * Base + s[i]
        BY <1>1, <3>1 DEF Horner
      <3>4. first[i] = first[i - 1] * Base + s[i]
        BY <1>5, <2>2, <3>1
      <3> QED
        BY <3>2, <3>3, <3>4
    <2> QED
      BY <2>1, <2>2
  <1>7. \A i \in Nat : i \in S
    <2> HIDE DEF S
    <2> QED
      BY <1>6, StrongInduction
  <1> QED
    BY <1>0, <1>1, <1>4, <1>7

\* A single digit reads as itself.
LEMMA DenotesDigit ==
    ASSUME NEW d \in Digit
    PROVE  Denotes(<<d>>, d)
  <1> DEFINE f == [i \in 0..1 |-> IF i = 0 THEN 0 ELSE d]
  <1>0. Base \in Nat /\ d \in Nat
    BY BaseAssumption DEF Digit
  <1>1. Len(<<d>>) = 1 /\ <<d>>[1] = d
    OBVIOUS
  <1>2. f \in [0..1 -> Nat] /\ f[0] = 0 /\ f[1] = d
    BY <1>0
  <1> HIDE DEF f
  <1>3. ASSUME NEW i \in 1..1 PROVE f[i] = f[i - 1] * Base + <<d>>[i]
    <2>1. i = 1 /\ i - 1 = 0
      OBVIOUS
    <2>2. f[i] = d /\ f[i - 1] = 0 /\ <<d>>[i] = d
      BY <1>1, <1>2, <2>1
    <2> QED
      BY <1>0, <2>2
  <1>4. Horner(<<d>>, f)
    BY <1>1, <1>2, <1>3 DEF Horner
  <1> QED
    BY <1>1, <1>2, <1>4 DEF Denotes

\* One more digit at the right multiplies by Base and adds it.
LEMMA DenotesAppend ==
    ASSUME NEW s \in Seq(Digit), NEW m, Denotes(s, m), NEW d \in Digit
    PROVE  Denotes(Append(s, d), m * Base + d)
  <1> DEFINE t == Append(s, d)
             k == Len(s)
  <1>0. Base \in Nat /\ d \in Nat /\ k \in Nat
    BY BaseAssumption, LenProperties DEF Digit
  <1>1. Len(t) = k + 1 /\ t[k + 1] = d /\ \A i \in 1..k : t[i] = s[i]
    BY AppendProperties
  <1>2. PICK f : Horner(s, f) /\ f[k] = m
    BY DEF Denotes
  <1>3. f \in [0..k -> Nat] /\ f[0] = 0 /\ m \in Nat
        /\ \A i \in 1..k : f[i] = f[i - 1] * Base + s[i]
    BY <1>0, <1>2 DEF Horner
  <1> HIDE DEF t, k
  <1> DEFINE g == [i \in 0..(k + 1) |-> IF i = k + 1 THEN m * Base + d ELSE f[i]]
  <1>4. m * Base + d \in Nat
    BY <1>0, <1>3
  <1>5. g \in [0..(k + 1) -> Nat] /\ g[0] = 0 /\ g[k + 1] = m * Base + d
    BY <1>0, <1>3, <1>4
  <1>6. ASSUME NEW i \in 1..(k + 1) PROVE g[i] = g[i - 1] * Base + t[i]
    <2>1. CASE i = k + 1
      <3>1. i - 1 = k /\ i - 1 \in 0..(k + 1) /\ i - 1 # k + 1
        BY <1>0, <2>1
      <3>2. g[i - 1] = m /\ t[i] = d
        BY <1>0, <1>1, <1>2, <2>1, <3>1 DEF k
      <3> QED
        BY <1>5, <2>1, <3>2
    <2>2. CASE i # k + 1
      <3>1. i \in 1..k /\ i - 1 \in 0..(k + 1) /\ i - 1 # k + 1
        BY <1>0, <2>2
      <3>2. g[i] = f[i] /\ g[i - 1] = f[i - 1] /\ t[i] = s[i]
        BY <1>0, <1>1, <2>2, <3>1
      <3> QED
        BY <1>3, <3>1, <3>2
    <2> QED
      BY <2>1, <2>2
  <1> HIDE DEF g
  <1>7. Horner(t, g)
    BY <1>1, <1>5, <1>6 DEF Horner
  <1>8. Denotes(t, m * Base + d)
    BY <1>1, <1>5, <1>7 DEF Denotes
  <1> QED
    BY <1>8 DEF t

\* strings.Repeat("0", k)
Zeros(k) == [i \in 1..k |-> 0]

\* A run of k zeros is k digits.
LEMMA ZerosTyped ==
    ASSUME NEW k \in Nat
    PROVE  Zeros(k) \in Seq(Digit) /\ Len(Zeros(k)) = k /\ \A i \in 1..k : Zeros(k)[i] = 0
  <1>1. 0 \in Digit
    BY BaseAssumption DEF Digit
  <1> HIDE DEF Digit
  <1> QED
    BY <1>1 DEF Zeros

\* Zeros at the left (the padding of FormatTokenAmount) change nothing.
LEMMA DenotesPadded ==
    ASSUME NEW s \in Seq(Digit), NEW n, Denotes(s, n), NEW c \in Nat
    PROVE  Denotes(Zeros(c) \o s, n)
  <1> DEFINE t == Zeros(c) \o s
             k == Len(s)
  <1>0. Base \in Nat /\ k \in Nat /\ Zeros(c) \in Seq(Digit) /\ Len(Zeros(c)) = c
    BY BaseAssumption, LenProperties, ZerosTyped
  <1>1. /\ Len(t) = c + k
        /\ \A i \in 1..c : t[i] = 0
        /\ \A i \in (c + 1)..(c + k) : t[i] = s[i - c]
    <2> DEFINE z == Zeros(c)
    <2>1. z \in Seq(Digit) /\ Len(z) = c /\ \A i \in 1..c : z[i] = 0
      BY ZerosTyped
    <2> HIDE DEF z, Digit
    <2>2. /\ Len(z \o s) = c + k
          /\ \A i \in 1..(c + k) : (z \o s)[i] = IF i <= c THEN z[i] ELSE s[i - c]
      BY <2>1, ConcatProperties
    <2>3. t = z \o s
      BY DEF z
    <2> HIDE DEF t, k
    <2>4. \A i \in 1..(c + k) : t[i] = IF i <= c THEN z[i] ELSE s[i - c]
      BY <2>2, <2>3
    <2>5. ASSUME NEW i \in 1..c PROVE t[i] = 0
      BY <1>0, <2>1, <2>4
    <2>6. ASSUME NEW i \in (c + 1)..(c + k) PROVE t[i] = s[i - c]
      BY <1>0, <2>4
    <2> QED
      BY <2>2, <2>3, <2>5, <2>6
  <1>2. PICK f : Horner(s, f) /\ f[k] = n
    BY DEF Denotes
  <1>3. f \in [0..k -> Nat] /\ f[0] = 0
        /\ \A i \in 1..k : f[i] = f[i - 1] * Base + s[i]
    BY <1>0, <1>2 DEF Horner
  <1> HIDE DEF t, k
  <1> DEFINE g == [i \in 0..(c + k) |-> IF i <= c THEN 0 ELSE f[i - c]]
  <1>4. g \in [0..(c + k) -> Nat] /\ g[0] = 0
    BY <1>0, <1>3
  <1>5. g[c + k] = n
    <2>1. CASE k = 0
      BY <1>0, <1>2, <1>3, <2>1 DEF k
    <2>2. CASE k # 0
      <3>1. c + k \in 0..(c + k) /\ ~(c + k <= c) /\ (c + k) - c = k
        BY <1>0, <2>2
      <3> QED
        BY <1>2, <3>1
    <2> QED
      BY <2>1, <2>2
  <1>6. ASSUME NEW i \in 1..(c + k) PROVE g[i] = g[i - 1] * Base + t[i]
    <2>1. CASE i <= c
      <3>1. g[i] = 0 /\ g[i - 1] = 0 /\ t[i] = 0
        BY <1>0, <1>1, <2>1
      <3> QED
        BY <1>0, <3>1
    <2>2. CASE ~(i <= c)
      <3>1. i - c \in 1..k /\ i \in (c + 1)..(c + k) /\ (i - 1) - c = (i - c) - 1
            /\ i - 1 \in 0..(c + k) /\ i \in 0..(c + k)
        BY <1>0, <2>2
      <3>2. g[i] = f[i - c] /\ t[i] = s[i - c]
        BY <1>1, <2>2, <3>1
      <3>3. g[i - 1] = f[(i - c) - 1]
        <4>1. CASE i - 1 <= c
          <5>1. (i - c) - 1 = 0
            BY <1>0, <2>2, <4>1
          <5> QED
            BY <1>3, <3>1, <4>1, <5>1
        <4>2. CASE ~(i - 1 <= c)
          BY <3>1, <4>2
        <4> QED
          BY <4>1, <4>2
      <3>4. f[i - c] = f[(i - c) - 1] * Base + s[i - c]
        BY <1>3, <3>1
      <3> QED
        BY <3>2, <3>3, <3>4
    <2> QED
      BY <2>1, <2>2
  <1> HIDE DEF g
  <1>7. Horner(t, g)
    BY <1>1, <1>4, <1>6 DEF Horner
  <1>8. Denotes(t, n)
    BY <1>1, <1>5, <1>7 DEF Denotes
  <1> QED
    BY <1>8 DEF t

-----------------------------------------------------------------------------
\* Writing them.

\* What big.Int.String promises: digits that read back as the number, and no
\* zero in front of another digit.
LEMMA DigitsRead ==
    \A n \in Nat : /\ Digits(n) \in Seq(Digit) /\ Len(Digits(n)) > 0
                   /\ Denotes(Digits(n), n)
                   /\ n > 0 => Digits(n)[1] # 0
                   /\ n < Base => Len(Digits(n)) <= 1
  <1> DEFINE Good(n, s) == /\ s \in Seq(Digit) /\ Len(s) > 0
                           /\ Denotes(s, n)
                           /\ n > 0 => s[1] # 0
                           /\ n < Base => Len(s) <= 1
             S == {n \in Nat : Good(n, Digits(n))}
  <1>0. Base \in Nat /\ Base > 1
    BY BaseAssumption
  <1>1. ASSUME NEW n \in Nat, \A m \in Nat : m < n => m \in S
        PROVE  n \in S
    <2>1. CASE n < Base
      <3>1. n \in Digit
        BY <1>0, <2>1 DEF Digit
      <3> HIDE DEF Digit
      <3>2. <<n>> \in Seq(Digit) /\ Len(<<n>>) = 1 /\ <<n>>[1] = n
        BY <3>1
      <3>3. Denotes(<<n>>, n)
        BY <3>1, DenotesDigit
      <3>4. Digits(n) = <<n>>
        BY <2>1, DigitsUnfold
      <3>5. Good(n, <<n>>)
        BY <3>2, <3>3
      <3> HIDE DEF Good
      <3> QED
        BY <3>4, <3>5
    <2>2. CASE n >= Base
      <3> DEFINE q == n \div Base
                 r == n % Base
                 s == Digits(q)
      <3>1. q \in Nat /\ r \in Digit /\ n = (q * Base) + r /\ q < n /\ q > 0
        BY <2>2, Division
      <3>2. Digits(n) = Append(s, r)
        BY <2>2, DigitsUnfold
      <3>3. q \in S
        BY <1>1, <3>1
      <3>4. s \in Seq(Digit) /\ Len(s) > 0 /\ Denotes(s, q) /\ s[1] # 0
        BY <3>1, <3>3
      <3> HIDE DEF q, r, s, Digit
      <3>5. /\ Append(s, r) \in Seq(Digit) /\ Len(Append(s, r)) = Len(s) + 1
            /\ \A i \in 1..Len(s) : Append(s, r)[i] = s[i]
        BY <3>1, <3>4, AppendProperties
      <3>6. Len(s) \in Nat /\ 1 \in 1..Len(s)
        BY <3>4, LenProperties
      <3>7. Denotes(Append(s, r), n)
        BY <3>1, <3>4, DenotesAppend
      <3>8. Good(n, Append(s, r))
        BY <1>0, <2>2, <3>4, <3>5, <3>6, <3>7
      <3> HIDE DEF Good
      <3> QED
        BY <3>2, <3>8
    <2> QED
      BY <1>0, <2>1, <2>2
  <1>2. \A n \in Nat : n \in S
    <2> HIDE DEF S
    <2> QED
      BY <1>1, StrongInduction
  <1> QED
    BY <1>2

\* What is cut off at the right are zeros, and what is left ends with none.
LEMMA Trimmed ==
    ASSUME NEW s \in Seq(Digit)
    PROVE  \E n \in 0..Len(s) : /\ TrimRight(s) = SubSeq(s, 1, n)
                                /\ n > 0 => s[n] # 0
                                /\ \A i \in (n + 1)..Len(s) : s[i] = 0
  <1> DEFINE k == Len(s)
             I == {i \in 1..k : s[i] # 0}
             n == IF I # {} THEN Max(I) ELSE 0
  <1>0. k \in Nat
    BY LenProperties
  <1>1. TrimRight(s) = SubSeq(s, 1, n)
    BY DEF TrimRight, SelectLastInSeq
  <1>2. n \in 0..k /\ (n > 0 => s[n] # 0) /\ \A i \in (n + 1)..k : s[i] = 0
    <2>1. CASE I = {}
      <3>1. n = 0
        BY <2>1
      <3>2. \A i \in 1..k : s[i] = 0
        BY <2>1
      <3> HIDE DEF n, I
      <3> QED
        BY <1>0, <3>1, <3>2
    <2>2. CASE I # {}
      <3> DEFINE T == {k - i : i \in I}
      <3>1. T \in SUBSET Nat /\ T # {}
        BY <1>0, <2>2
      <3>2. PICK x \in T : \A y \in T : x <= y
        BY <3>1, LeastNumber
      <3>3. PICK j \in I : x = k - j
        BY <3>2
      <3>4. ASSUME NEW i \in I PROVE j >= i
        <4>1. x <= k - i
          BY <3>2
        <4> QED
          BY <1>0, <3>3, <4>1
      <3>5. Max(I) \in I /\ \A i \in I : Max(I) >= i
        BY <3>3, <3>4 DEF Max
      <3>6. n \in I /\ \A i \in I : n >= i
        BY <2>2, <3>5
      <3> HIDE DEF n
      <3> QED
        BY <1>0, <3>6
    <2> QED
      BY <2>1, <2>2
  <1> HIDE DEF n
  <1> QED
    BY <1>1, <1>2

\* Enough zeros are put in front for one digit before the point; and a zero is
\* in front only when it is that digit.
LEMMA PaddedReads ==
    ASSUME NEW a \in Nat, NEW d \in Nat
    PROVE  LET p == Padded(Digits(a), d)
           IN  /\ p \in Seq(Digit) /\ Len(p) > d /\ Denotes(p, a)
               /\ Len(p) > d + 1 => p[1] # 0
  <1> DEFINE s == Digits(a)
             c == d - Len(s) + 1
             p == Padded(s, d)
  <1>0. Base \in Nat /\ Base > 1
    BY BaseAssumption
  <1>1. /\ s \in Seq(Digit) /\ Len(s) > 0 /\ Denotes(s, a) /\ (a > 0 => s[1] # 0)
        /\ (a < Base => Len(s) <= 1)
    BY DigitsRead
  <1>2. Len(s) \in Nat
    BY <1>1, LenProperties
  <1> HIDE DEF s, Digit
  <1>3. CASE Len(s) <= d
    <2>1. c \in Nat
      BY <1>2, <1>3
    <2>2. p = Zeros(c) \o s
      BY <1>3 DEF Padded, Zeros
    <2>3. Zeros(c) \in Seq(Digit) /\ Len(Zeros(c)) = c
      BY <2>1, ZerosTyped
    <2> DEFINE z == Zeros(c)
    <2> HIDE DEF z
    <2>4. z \o s \in Seq(Digit) /\ Len(z \o s) = Len(z) + Len(s)
      BY <1>1, <2>3, ConcatProperties DEF z
    <2>5. Len(z \o s) = d + 1
      BY <1>2, <2>1, <2>3, <2>4 DEF z
    <2>6. Denotes(z \o s, a)
      BY <1>1, <2>1, DenotesPadded DEF z
    <2>7. p = z \o s
      BY <2>2 DEF z
    <2> HIDE DEF p
    <2>8. p \in Seq(Digit) /\ Len(p) > d /\ Denotes(p, a) /\ ~(Len(p) > d + 1)
      BY <2>4, <2>5, <2>6, <2>7
    <2> QED
      BY <2>8 DEF p, s
  <1>4. CASE ~(Len(s) <= d)
    <2>1. p = s
      BY <1>4 DEF Padded
    <2> HIDE DEF p
    <2>0. Len(p) > d
      BY <1>2, <1>4, <2>1
    <2>2. ASSUME Len(p) > d + 1 PROVE p[1] # 0
      <3>0. Len(s) > d + 1
        BY <2>1, <2>2
      <3>1. Len(s) > 1
        BY <1>2, <3>0
      <3>2. ~(a < Base)
        BY <1>1, <1>2, <3>1
      <3>3. a > 0
        BY <1>0, <3>2
      <3> QED
        BY <1>1, <2>1, <3>3
    <2>3. p \in Seq(Digit) /\ Denotes(p, a)
      BY <1>1, <2>1
    <2> QED
      BY <2>0, <2>2, <2>3 DEF p, s
  <1> QED
    BY <1>3, <1>4

\* Cutting p before its last d digits and the zeros at its end loses nothing.
LEMMA CutAndShift ==
    ASSUME NEW p \in Seq(Digit), NEW d \in Nat, Len(p) > d,
           Len(p) > d + 1 => p[1] # 0
    PROVE  LET w == SubSeq(p, 1, Len(p) - d)
               f == TrimRight(SubSeq(p, Len(p) - d + 1, Len(p)))
           IN  /\ w \in Seq(Digit) \ {<<>>} /\ f \in Seq(Digit)
               /\ Len(w) > 1 => Head(w) # 0
               /\ Len(f) <= d
               /\ f # <<>> => Last(f) # 0
               /\ w \o f \o Zeros(d - Len(f)) = p
  <1> DEFINE k == Len(p) - d
             w == SubSeq(p, 1, k)
             t == SubSeq(p, k + 1, Len(p))
             f == TrimRight(t)
  <1>0. Len(p) \in Nat /\ k \in Nat /\ k >= 1 /\ Len(p) = k + d
    BY LenProperties
  <1>1. \A i \in 1..Len(p) : p[i] \in Digit
    BY ElementOfSeq
  <1> HIDE DEF Digit
  <1> HIDE DEF k
  <1>2. w \in Seq(Digit) /\ Len(w) = k /\ \A i \in 1..k : w[i] = p[i]
    <2>1. \A i \in 1..k : p[i] \in Digit
      BY <1>0, <1>1
    <2>2. /\ w \in Seq(Digit) /\ Len(w) = IF 1 <= k THEN k - 1 + 1 ELSE 0
          /\ \A i \in 1..(k - 1 + 1) : w[i] = p[1 + i - 1]
      BY <1>0, <2>1, SubSeqProperties
    <2> HIDE DEF w
    <2> QED
      BY <1>0, <2>2
  <1>3. t \in Seq(Digit) /\ Len(t) = d /\ \A i \in 1..d : t[i] = p[k + i]
    <2>1. \A i \in (k + 1)..Len(p) : p[i] \in Digit
      BY <1>0, <1>1
    <2>2. /\ t \in Seq(Digit) /\ Len(t) = IF k + 1 <= Len(p) THEN Len(p) - (k + 1) + 1 ELSE 0
          /\ \A i \in 1..(Len(p) - (k + 1) + 1) : t[i] = p[(k + 1) + i - 1]
      BY <1>0, <2>1, SubSeqProperties
    <2> HIDE DEF t
    <2> QED
      BY <1>0, <2>2
  <1> HIDE DEF t
  <1>4. PICK n \in 0..d : /\ f = SubSeq(t, 1, n)
                          /\ n > 0 => t[n] # 0
                          /\ \A i \in (n + 1)..d : t[i] = 0
    BY <1>3, Trimmed
  <1>5. n \in Nat /\ n <= d
    BY <1>4
  <1>6. f \in Seq(Digit) /\ Len(f) = n /\ \A i \in 1..n : f[i] = t[i]
    <2>0. \A i \in 1..Len(t) : t[i] \in Digit
      BY <1>3, ElementOfSeq
    <2>1. \A i \in 1..n : t[i] \in Digit
      BY <1>3, <1>5, <2>0
    <2> DEFINE u == SubSeq(t, 1, n)
    <2>2. /\ u \in Seq(Digit) /\ Len(u) = IF 1 <= n THEN n - 1 + 1 ELSE 0
          /\ \A i \in 1..(n - 1 + 1) : u[i] = t[1 + i - 1]
      BY <1>5, <2>1, SubSeqProperties
    <2>3. f = u
      BY <1>4
    <2> HIDE DEF u, f
    <2> QED
      BY <1>5, <2>2, <2>3
  <1> HIDE DEF f, w
  <1>7. w # <<>> /\ (Len(w) > 1 => Head(w) # 0)
    <2>1. Len(<<>>) = 0
      OBVIOUS
    <2>2. w # <<>>
      BY <1>0, <1>2, <2>1
    <2>3. Head(w) = w[1]
      BY <1>2, <2>2, HeadTailProperties
    <2>4. ASSUME Len(w) > 1 PROVE w[1] # 0
      BY <1>0, <1>2, <2>4
    <2> QED
      BY <2>2, <2>3, <2>4
  <1>8. f # <<>> => Last(f) # 0
    <2> SUFFICES ASSUME f # <<>> PROVE Last(f) # 0
      OBVIOUS
    <2>1. n # 0
      BY <1>6, EmptySeq
    <2>2. n > 0 /\ n \in 1..n
      BY <1>5, <2>1
    <2> QED
      BY <1>4, <1>6, <2>2 DEF Last
  <1> DEFINE e == d - n
             z == Zeros(e)
             wf == w \o f
             x == wf \o z
  <1>e. e \in Nat
    BY <1>5
  <1> HIDE DEF e
  <1>9. z \in Seq(Digit) /\ Len(z) = e /\ \A i \in 1..e : z[i] = 0
    BY <1>e, ZerosTyped
  <1> HIDE DEF z
  <1>10. /\ wf \in Seq(Digit) /\ Len(wf) = k + n
         /\ \A i \in 1..(k + n) : wf[i] = IF i <= k THEN w[i] ELSE f[i - k]
    <2>1. /\ wf \in Seq(Digit) /\ Len(wf) = Len(w) + Len(f)
          /\ \A i \in 1..(Len(w) + Len(f)) : wf[i] = IF i <= Len(w) THEN w[i] ELSE f[i - Len(w)]
      BY <1>2, <1>6, ConcatProperties
    <2> HIDE DEF wf
    <2> QED
      BY <1>2, <1>6, <2>1
  <1> HIDE DEF wf
  <1>11. /\ x \in Seq(Digit) /\ Len(x) = (k + n) + e
         /\ \A i \in 1..((k + n) + e) :
               x[i] = IF i <= k + n THEN wf[i] ELSE z[i - (k + n)]
    <2>1. /\ x \in Seq(Digit) /\ Len(x) = Len(wf) + Len(z)
          /\ \A i \in 1..(Len(wf) + Len(z)) :
                x[i] = IF i <= Len(wf) THEN wf[i] ELSE z[i - Len(wf)]
      BY <1>9, <1>10, ConcatProperties
    <2> HIDE DEF x
    <2> QED
      BY <1>9, <1>10, <2>1
  <1> HIDE DEF x
  <1>12. Len(x) = Len(p)
    BY <1>0, <1>5, <1>11 DEF e
  <1>13. ASSUME NEW i \in 1..Len(x) PROVE x[i] = p[i]
    <2>0. i \in Nat /\ 1 <= i /\ i <= k + d
      BY <1>0, <1>12
    <2>1. CASE i <= k
      <3>1. x[i] = wf[i] /\ wf[i] = w[i]
        BY <1>0, <1>5, <1>e, <1>10, <1>11, <2>0, <2>1
      <3> QED
        BY <1>0, <1>2, <2>0, <2>1, <3>1
    <2>2. CASE i > k /\ i <= k + n
      <3>1. x[i] = wf[i] /\ wf[i] = f[i - k]
        BY <1>0, <1>5, <1>e, <1>10, <1>11, <2>0, <2>2
      <3>2. i - k \in 1..n /\ i - k \in 1..d /\ k + (i - k) = i
        BY <1>0, <1>5, <2>0, <2>2
      <3>3. f[i - k] = t[i - k] /\ t[i - k] = p[k + (i - k)]
        BY <1>3, <1>6, <3>2
      <3> QED
        BY <3>1, <3>2, <3>3
    <2>3. CASE i > k + n
      <3>1. x[i] = z[i - (k + n)]
        BY <1>0, <1>5, <1>11, <2>0, <2>3 DEF e
      <3>2. i - (k + n) \in 1..e /\ i - k \in 1..d /\ i - k \in (n + 1)..d
            /\ k + (i - k) = i
        BY <1>0, <1>5, <2>0, <2>3 DEF e
      <3>3. z[i - (k + n)] = 0 /\ t[i - k] = 0 /\ t[i - k] = p[k + (i - k)]
        BY <1>3, <1>4, <1>9, <3>2
      <3> QED
        BY <3>1, <3>2, <3>3
    <2> QED
      BY <1>0, <1>5, <2>0, <2>1, <2>2, <2>3
  <1>14. x = p
    BY <1>11, <1>12, <1>13, SeqEqual
  <1>15. w \o f \o Zeros(d - Len(f)) = p
    BY <1>6, <1>14 DEF x, wf, z, e
  <1>16. /\ w \in Seq(Digit) \ {<<>>} /\ f \in Seq(Digit)
         /\ Len(w) > 1 => Head(w) # 0
         /\ Len(f) <= d
         /\ f # <<>> => Last(f) # 0
         /\ w \o f \o Zeros(d - Len(f)) = p
    BY <1>2, <1>5, <1>6, <1>7, <1>8, <1>15
  <1> QED
    BY <1>16 DEF w, f, t, k

\* ExactText, of the arguments and the result of one call.
Exact(v, d, text) ==
    LET shifted == text.whole \o text.fraction \o Zeros(d - Len(text.fraction))
    IN  /\ v # Nil => Number(shifted) * (IF text.negative THEN -1 ELSE 1) = v
        /\ text.whole \in Seq(Digit) \ {<<>>} /\ text.fraction \in Seq(Digit)
        /\ Len(text.whole) > 1 => Head(text.whole) # 0
        /\ Len(text.fraction) <= d
        /\ text.fraction # <<>> => Last(text.fraction) # 0
        /\ text.negative => Number(shifted) # 0

\* The two parts of a text of an amount that is not nil.
LEMMA PartsExact ==
    ASSUME NEW v \in Amounts, NEW d \in Nat, NEW w, NEW f,
           w \in Seq(Digit) \ {<<>>}, f \in Seq(Digit),
           Len(w) > 1 => Head(w) # 0,
           Len(f) <= d,
           f # <<>> => Last(f) # 0,
           Number(w \o f \o Zeros(d - Len(f))) = IF v < 0 THEN -v ELSE v
    PROVE  Exact(v, d, Text(v < 0, w, f))
  <1> DEFINE number == Number(w \o f \o Zeros(d - Len(f)))
  <1>1. v \in Int
    BY AmountsAssumption
  <1> HIDE DEF number
  <1>2. number = IF v < 0 THEN -v ELSE v
    BY DEF number
  <1>3. number * (IF v < 0 THEN -1 ELSE 1) = v
    BY <1>1, <1>2
  <1>4. v < 0 => number # 0
    BY <1>1, <1>2
  <1> DEFINE text == Text(v < 0, w, f)
  <1>5. text.whole = w /\ text.fraction = f
    BY DEF Text
  <1>6. text.negative = (v < 0)
    BY DEF Text
  <1> HIDE DEF text
  <1>7. number = Number(text.whole \o text.fraction \o Zeros(d - Len(text.fraction)))
    BY <1>5 DEF number
  <1>8. Number(text.whole \o text.fraction \o Zeros(d - Len(text.fraction)))
          * (IF text.negative THEN -1 ELSE 1) = v
    BY <1>3, <1>6, <1>7
  <1>9. text.negative => Number(text.whole \o text.fraction \o Zeros(d - Len(text.fraction))) # 0
    BY <1>4, <1>6, <1>7
  <1>10. Exact(v, d, text)
    BY <1>5, <1>8, <1>9 DEF Exact
  <1> QED
    BY <1>10 DEF text

\* The nil amount is written as 0.
LEMMA NilExact ==
    ASSUME NEW d \in Nat
    PROVE  Exact(Nil, d, Format(Nil, d))
  <1> DEFINE text == Text(FALSE, <<0>>, <<>>)
  <1>1. Format(Nil, d) = text
    BY DEF Format
  <1>2. 0 \in Digit
    BY BaseAssumption DEF Digit
  <1> HIDE DEF Digit
  <1>3. <<0>> \in Seq(Digit) \ {<<>>} /\ <<>> \in Seq(Digit) /\ Len(<<0>>) = 1 /\ Len(<<>>) = 0
    BY <1>2
  <1>4. text.whole = <<0>> /\ text.fraction = <<>>
    BY DEF Text
  <1>5. text.negative = FALSE
    BY DEF Text
  <1> HIDE DEF text
  <1>6. Exact(Nil, d, text)
    BY <1>3, <1>4, <1>5 DEF Exact
  <1> QED
    BY <1>1, <1>6

\* The text of an amount that is not nil, with and without a point.
LEMMA FormatExact ==
    ASSUME NEW v \in Amounts, NEW d \in Nat
    PROVE  Exact(v, d, Format(v, d))
  <1> DEFINE a == IF v < 0 THEN -v ELSE v
             p == Padded(Digits(a), d)
             w == SubSeq(p, 1, Len(p) - d)
             f == TrimRight(SubSeq(p, Len(p) - d + 1, Len(p)))
  <1>1. v # Nil /\ v \in Int /\ a \in Nat
    BY AmountsAssumption
  <1>2. CASE d = 0
    <2> DEFINE s == Digits(a)
    <2>1. Format(v, d) = Text(v < 0, s, <<>>)
      BY <1>1, <1>2 DEF Format
    <2> HIDE DEF a
    <2>2. /\ s \in Seq(Digit) /\ Len(s) > 0 /\ Denotes(s, a) /\ (a > 0 => s[1] # 0)
          /\ (a < Base => Len(s) <= 1)
      BY <1>1, DigitsRead
    <2> HIDE DEF s
    <2>3. Len(s) \in Nat /\ s # <<>> /\ Head(s) = s[1]
      BY <2>2, LenProperties, EmptySeq, HeadTailProperties
    <2>4. ASSUME Len(s) > 1 PROVE Head(s) # 0
      <3>0. ~(a < Base)
        BY <1>1, <2>2, <2>3, <2>4
      <3>1. a > 0
        BY <1>1, <3>0, BaseAssumption
      <3> QED
        BY <2>2, <2>3, <3>1
    <2> DEFINE z == Zeros(0)
    <2>5. z \in Seq(Digit) /\ Len(z) = 0
      BY ZerosTyped
    <2>6. z = <<>>
      BY <2>5, EmptySeq
    <2>7. s \o <<>> \o Zeros(d - Len(<<>>)) = s
      <3>1. Zeros(d - Len(<<>>)) = <<>>
        BY <1>2, <2>6
      <3>2. s \o <<>> = s
        BY <2>2, ConcatEmptySeq
      <3> QED
        BY <3>1, <3>2
    <2>8. Number(s) = a
      BY <2>2, NumberUnique
    <2>9. Exact(v, d, Text(v < 0, s, <<>>))
      <3> DEFINE e == <<>>
      <3>1. e \in Seq(Digit) /\ Len(e) = 0
        BY EmptySeq
      <3>2. Number(s \o e \o Zeros(d - Len(e))) = IF v < 0 THEN -v ELSE v
        BY <2>7, <2>8 DEF a
      <3>3. Len(e) <= d /\ (e # <<>> => Last(e) # 0)
        BY <3>1
      <3> HIDE DEF e
      <3>4. Exact(v, d, Text(v < 0, s, e))
        BY <2>2, <2>3, <2>4, <3>1, <3>2, <3>3, PartsExact
      <3> QED
        BY <3>4 DEF e
    <2> QED
      BY <2>1, <2>9
  <1>3. CASE d # 0
    <2>1. Format(v, d) = Text(v < 0, w, f)
      BY <1>1, <1>3 DEF Format
    <2> HIDE DEF a
    <2>2. p \in Seq(Digit) /\ Len(p) > d /\ Denotes(p, a) /\ (Len(p) > d + 1 => p[1] # 0)
      BY <1>1, PaddedReads
    <2> HIDE DEF p
    <2>3. /\ w \in Seq(Digit) \ {<<>>} /\ f \in Seq(Digit)
          /\ Len(w) > 1 => Head(w) # 0
          /\ Len(f) <= d
          /\ f # <<>> => Last(f) # 0
          /\ w \o f \o Zeros(d - Len(f)) = p
      BY <2>2, CutAndShift
    <2> HIDE DEF w, f
    <2>4. Number(p) = a
      BY <2>2, NumberUnique
    <2>5. Number(w \o f \o Zeros(d - Len(f))) = IF v < 0 THEN -v ELSE v
      BY <2>3, <2>4 DEF a
    <2> QED
      BY <2>1, <2>3, <2>5, PartsExact
  <1> QED
    BY <1>2, <1>3

\* The result of the call is the text of its arguments, for whatever arguments.
AmountInv ==
    /\ value \in Amounts \cup {Nil}
    /\ decimals \in Decimals
    /\ result \in {Nil, Format(value, decimals)}

\* So ExactText is a fact about Format alone.
LEMMA ExactFromInv == AmountInv => ExactText
  <1> SUFFICES ASSUME AmountInv, result # Nil PROVE ExactText
    BY DEF ExactText
  <1>1. result = Format(value, decimals) /\ decimals \in Nat
    BY DecimalsAssumption DEF AmountInv
  <1>2. Exact(value, decimals, result)
    BY <1>1, NilExact, FormatExact DEF AmountInv
  <1> QED
    BY <1>2 DEF Exact, ExactText, Zeros

\* FormatTokenAmount for every big.Int, every number of decimals and every base:
\* the text denotes value / Base^decimals exactly and is the shortest that does.
THEOREM ExactTheorem == EnrichmentSpec => []ExactText
  <1>1. EnrichmentInit => AmountInv
    BY DEF EnrichmentInit, AmountInit, AmountInv
  <1>2. AmountInv /\ [EnrichmentNext]_enrichmentVars => AmountInv'
    BY DEF AmountInv, EnrichmentNext, enrichmentVars, FormatTokenAmount, Formatted, amountVars
  <1> QED
    BY <1>1, <1>2, ExactFromInv, PTL DEF EnrichmentSpec

-----------------------------------------------------------------------------
\* The ledger: additions without an overflow check.

\* 2^Width is a modulus.
LEMMA ModulusPositive == 2^Width \in Nat /\ 2^Width > 0
  <1> DEFINE S == SUBSET (1..Width)
  <1>1. Width \in Nat
    BY WidthAssumption
  <1>2. IsFiniteSet(1..Width) /\ Cardinality(1..Width) = Width
    BY <1>1, FS_Interval
  <1>3. IsFiniteSet(S) /\ Cardinality(S) = 2^Width
    BY <1>2, FS_SUBSET
  <1>4. S # {}
    OBVIOUS
  <1> HIDE DEF S
  <1>5. Cardinality(S) \in Nat /\ Cardinality(S) # 0
    BY <1>3, <1>4, FS_CardinalityType, FS_EmptySet
  <1> QED
    BY <1>3, <1>5

\* The remainder is the only number of its range that differs by a multiple.
LEMMA RemainderUnique ==
    ASSUME NEW m \in Nat, m > 0, NEW q \in Int, NEW r \in Int, 0 <= r, r < m,
           NEW p \in Int, NEW s \in Int, 0 <= s, s < m, q * m + r = p * m + s
    PROVE  r = s
  <1>1. (q - p) * m = s - r
    OBVIOUS
  <1> DEFINE d == q - p
  <1>2. d \in Int /\ d * m = s - r
    BY <1>1
  <1> HIDE DEF d
  <1>3. CASE d >= 1
    <2>1. d * m >= m
      BY <1>2, <1>3
    <2> QED
      BY <1>2, <2>1
  <1>4. CASE d <= -1
    <2>1. d * m <= -m
      BY <1>2, <1>4
    <2> QED
      BY <1>2, <2>1
  <1>5. CASE d = 0
    BY <1>2, <1>5
  <1> QED
    BY <1>2, <1>3, <1>4, <1>5

\* Additions without an overflow check may be reduced at the end.
LEMMA UintAdds ==
    ASSUME NEW x \in Int, NEW y \in Int
    PROVE  Uint(x) \in Uint64 /\ Uint(Uint(x) + y) = Uint(x + y)
  <1> DEFINE m == 2^Width
             r == x % m
             q == x \div m
             s == (r + y) % m
             p == (r + y) \div m
             u == (x + y) % m
             v == (x + y) \div m
  <1>1. m \in Nat /\ m > 0
    BY ModulusPositive
  <1>u. Uint(x) = r /\ Uint(Uint(x) + y) = s /\ Uint(x + y) = u /\ Uint64 = 0..(m - 1)
    BY DEF Uint, Uint64
  <1> HIDE DEF m
  <1>2. q \in Int /\ r \in Int /\ 0 <= r /\ r < m /\ x = q * m + r
    BY <1>1
  <1> HIDE DEF q, r
  <1>3. p \in Int /\ s \in Int /\ 0 <= s /\ s < m /\ r + y = p * m + s
    BY <1>1, <1>2
  <1>4. v \in Int /\ u \in Int /\ 0 <= u /\ u < m /\ x + y = v * m + u
    BY <1>1
  <1> HIDE DEF p, s, u, v
  <1>5. x + y = (q + p) * m + s
    BY <1>1, <1>2, <1>3
  <1>6. u = s
    <2> DEFINE w == q + p
    <2>1. w \in Int /\ w * m + s = v * m + u
      BY <1>2, <1>3, <1>4, <1>5
    <2> HIDE DEF w
    <2> QED
      BY <1>1, <1>3, <1>4, <2>1, RemainderUnique
  <1> QED
    BY <1>1, <1>2, <1>6, <1>u

\* A number that fits is not changed.
LEMMA UintOfUint64 ==
    ASSUME NEW x \in Uint64
    PROVE  Uint(x) = x
  <1> DEFINE m == 2^Width
             r == x % m
             q == x \div m
  <1>1. m \in Nat /\ m > 0
    BY ModulusPositive
  <1>u. Uint(x) = r /\ x \in 0..(m - 1)
    BY DEF Uint, Uint64
  <1> HIDE DEF m
  <1>2. q \in Int /\ r \in Int /\ 0 <= r /\ r < m /\ x = q * m + r
    BY <1>1, <1>u
  <1> HIDE DEF q, r
  <1>z. 0 * m + x = x
    BY <1>1, <1>u
  <1> DEFINE z == 0
  <1>3. z \in Int /\ z * m + x = q * m + r
    BY <1>1, <1>2, <1>z
  <1> HIDE DEF z
  <1>4. r = x
    BY <1>1, <1>u, <1>2, <1>3, RemainderUnique
  <1> QED
    BY <1>4, <1>u

-----------------------------------------------------------------------------
\* What a sequence of transactions adds to a balance.

\* Blocks are sequences of transactions, whose values are numbers.
LEMMA BlocksTyped ==
    /\ \A b \in Block : b \in Seq(Transaction)
    /\ \A a, tx : tx \in Transaction => Change(a, tx) \in Int
  <1>1. ASSUME NEW b \in Block PROVE b \in Seq(Transaction)
    <2>1. b \in Seq(Range(b))
      BY BlockAssumption
    <2>2. Range(b) \subseteq Transaction
      BY DEF Transaction
    <2> QED
      BY <2>1, <2>2, SeqMonotonic
  <1>2. ASSUME NEW a, NEW tx \in Transaction PROVE Change(a, tx) \in Int
    <2>1. tx.ValueWei \in Int
      BY BlockAssumption, ModulusPositive DEF Uint64
    <2> QED
      BY <2>1 DEF Change
  <1> QED
    BY <1>1, <1>2

\* f[i] is what the first i transactions add to the balance of a.
Sums(a, s, n, f) ==
    /\ f \in [0..n -> Int]
    /\ f[0] = 0
    /\ \A i \in 1..n : f[i] = f[i - 1] + Change(a, s[i])

\* There are such sums,
LEMMA SumsExist ==
    ASSUME NEW a, NEW s \in Seq(Transaction)
    PROVE  \E f : Sums(a, s, Len(s), f)
  <1> DEFINE S == {n \in Nat : n <= Len(s) => \E f : Sums(a, s, n, f)}
  <1>0. Len(s) \in Nat
    BY LenProperties
  <1>1. 0 \in S
    <2> DEFINE f == [i \in 0..0 |-> 0]
    <2>1. f \in [0..0 -> Int] /\ f[0] = 0
      OBVIOUS
    <2> HIDE DEF f
    <2>2. Sums(a, s, 0, f)
      BY <2>1 DEF Sums
    <2> QED
      BY <2>2
  <1>2. ASSUME NEW n \in Nat, n \in S PROVE n + 1 \in S
    <2> SUFFICES ASSUME n + 1 <= Len(s) PROVE \E f : Sums(a, s, n + 1, f)
      OBVIOUS
    <2>1. PICK f : Sums(a, s, n, f)
      BY <1>0, <1>2
    <2> DEFINE d == Change(a, s[n + 1])
               g == [i \in 0..(n + 1) |-> IF i = n + 1 THEN f[n] + d ELSE f[i]]
    <2>2. d \in Int
      BY <1>0, ElementOfSeq, BlocksTyped
    <2>3. f \in [0..n -> Int] /\ f[0] = 0 /\ \A i \in 1..n : f[i] = f[i - 1] + Change(a, s[i])
      BY <2>1 DEF Sums
    <2>e. Change(a, s[n + 1]) = d
      OBVIOUS
    <2> HIDE DEF d
    <2>4. g \in [0..(n + 1) -> Int] /\ g[0] = 0
      BY <2>2, <2>3
    <2>5. ASSUME NEW i \in 1..(n + 1) PROVE g[i] = g[i - 1] + Change(a, s[i])
      <3>1. CASE i = n + 1
        <4>1. i - 1 \in 0..(n + 1) /\ i - 1 # n + 1 /\ i - 1 = n /\ i \in 0..(n + 1)
          BY <3>1
        <4>2. g[i] = f[n] + d /\ g[i - 1] = f[n]
          BY <3>1, <4>1
        <4> HIDE DEF g
        <4> QED
          BY <2>e, <3>1, <4>2
      <3>2. CASE i # n + 1
        <4>1. i - 1 \in 0..(n + 1) /\ i - 1 # n + 1 /\ i \in 1..n /\ i \in 0..(n + 1)
          BY <3>2
        <4>2. g[i] = f[i] /\ g[i - 1] = f[i - 1]
          BY <3>2, <4>1
        <4> HIDE DEF g
        <4> QED
          BY <2>3, <4>1, <4>2
      <3> QED
        BY <3>1, <3>2
    <2> HIDE DEF g
    <2>6. Sums(a, s, n + 1, g)
      BY <2>4, <2>5 DEF Sums
    <2> QED
      BY <2>6
  <1>3. \A n \in Nat : n \in S
    <2> HIDE DEF S
    <2> QED
      BY <1>1, <1>2, StepInduction
  <1> QED
    BY <1>0, <1>3

\* and Net is the last of them.
LEMMA NetUnique ==
    ASSUME NEW a, NEW s \in Seq(Transaction), NEW h, Sums(a, s, Len(s), h)
    PROVE  Net(a, s) = h[Len(s)]
  <1> DEFINE body(f) == [i \in 0..Len(s) |-> IF i = 0 THEN 0 ELSE f[i - 1] + Change(a, s[i])]
             net == CHOOSE f : f = body(f)
  <1>0. Len(s) \in Nat
    BY LenProperties
  <1>2. h = body(h)
    <2>1. ASSUME NEW i \in 0..Len(s)
          PROVE  h[i] = IF i = 0 THEN 0 ELSE h[i - 1] + Change(a, s[i])
      <3>1. CASE i = 0
        BY <3>1 DEF Sums
      <3>2. CASE i # 0
        <4>1. i \in 1..Len(s)
          BY <1>0, <3>2
        <4> QED
          BY <3>2, <4>1 DEF Sums
      <3> QED
        BY <3>1, <3>2
    <2> QED
      BY <2>1 DEF Sums
  <1>3. net = body(net)
    <2> HIDE DEF body
    <2> QED
      BY <1>2
  <1>4. Net(a, s) = net[Len(s)]
    BY DEF Net
  <1> HIDE DEF net
  <1>5. ASSUME NEW i \in 0..Len(s)
        PROVE  net[i] = IF i = 0 THEN 0 ELSE net[i - 1] + Change(a, s[i])
    BY <1>3
  <1> DEFINE S == {i \in Nat : i <= Len(s) => net[i] = h[i]}
  <1>6. 0 \in S
    BY <1>0, <1>5 DEF Sums
  <1>7. ASSUME NEW i \in Nat, i \in S PROVE i + 1 \in S
    <2> SUFFICES ASSUME i + 1 <= Len(s) PROVE net[i + 1] = h[i + 1]
      OBVIOUS
    <2>1. i + 1 \in 0..Len(s) /\ i + 1 # 0 /\ (i + 1) - 1 = i /\ i + 1 \in 1..Len(s)
      BY <1>0
    <2>2. net[i] = h[i]
      BY <1>0, <1>7
    <2>3. net[i + 1] = net[i] + Change(a, s[i + 1])
      BY <1>5, <2>1
    <2>4. h[i + 1] = h[i] + Change(a, s[i + 1])
      BY <2>1 DEF Sums
    <2> QED
      BY <2>2, <2>3, <2>4
  <1>8. \A i \in Nat : i \in S
    <2> HIDE DEF S
    <2> QED
      BY <1>6, <1>7, StepInduction
  <1> QED
    BY <1>0, <1>4, <1>8

\* No transaction, no change.
LEMMA NetOfNone == \A a : Net(a, <<>>) = 0
  <1> SUFFICES ASSUME NEW a PROVE Net(a, <<>>) = 0
    OBVIOUS
  <1> DEFINE e == <<>>
  <1>1. e \in Seq(Transaction) /\ Len(e) = 0
    BY EmptySeq
  <1> HIDE DEF e
  <1>2. PICK f : Sums(a, e, Len(e), f)
    BY <1>1, SumsExist
  <1>3. Net(a, e) = f[Len(e)]
    BY <1>1, <1>2, NetUnique
  <1>4. f[0] = 0
    BY <1>2 DEF Sums
  <1> QED
    BY <1>1, <1>3, <1>4 DEF e

\* What two sequences add is what they add one after the other.
LEMMA NetConcat ==
    ASSUME NEW a, NEW s \in Seq(Transaction), NEW t \in Seq(Transaction)
    PROVE  /\ Net(a, s) \in Int
           /\ Net(a, s \o t) = Net(a, s) + Net(a, t)
  <1> DEFINE k == Len(s)
             l == Len(t)
             c == s \o t
  <1>0. k \in Nat /\ l \in Nat
    BY LenProperties
  <1>1. /\ c \in Seq(Transaction) /\ Len(c) = k + l
        /\ \A i \in 1..(k + l) : c[i] = IF i <= k THEN s[i] ELSE t[i - k]
    BY ConcatProperties
  <1>2. PICK f : Sums(a, s, k, f)
    BY SumsExist
  <1>3. PICK g : Sums(a, t, l, g)
    BY SumsExist
  <1>4. Net(a, s) = f[k] /\ Net(a, t) = g[l]
    BY <1>2, <1>3, NetUnique
  <1> HIDE DEF k, l, c
  <1>5. f \in [0..k -> Int] /\ f[0] = 0 /\ \A i \in 1..k : f[i] = f[i - 1] + Change(a, s[i])
    BY <1>2 DEF Sums
  <1>6. g \in [0..l -> Int] /\ g[0] = 0 /\ \A i \in 1..l : g[i] = g[i - 1] + Change(a, t[i])
    BY <1>3 DEF Sums
  <1>7. f[k] \in Int
    BY <1>0, <1>5
  <1> DEFINE h == [i \in 0..(k + l) |-> IF i <= k THEN f[i] ELSE f[k] + g[i - k]]
  <1>8. h \in [0..(k + l) -> Int] /\ h[0] = 0
    BY <1>0, <1>5, <1>6, <1>7
  <1>9. h[k + l] = f[k] + g[l]
    <2>1. CASE l = 0
      BY <1>0, <1>6, <1>7, <2>1
    <2>2. CASE l # 0
      <3>1. k + l \in 0..(k + l) /\ ~(k + l <= k) /\ (k + l) - k = l
        BY <1>0, <2>2
      <3> QED
        BY <3>1
    <2> QED
      BY <2>1, <2>2
  <1>10. ASSUME NEW i \in 1..(k + l) PROVE h[i] = h[i - 1] + Change(a, c[i])
    <2>1. CASE i <= k
      <3>1. i \in 1..k /\ i \in 0..(k + l) /\ i - 1 \in 0..(k + l) /\ i - 1 <= k
        BY <1>0, <2>1
      <3>2. h[i] = f[i] /\ h[i - 1] = f[i - 1] /\ c[i] = s[i]
        BY <1>1, <2>1, <3>1
      <3> HIDE DEF h
      <3> QED
        BY <1>5, <3>1, <3>2
    <2>2. CASE ~(i <= k)
      <3>1. i - k \in 1..l /\ i \in 0..(k + l) /\ i - 1 \in 0..(k + l) /\ (i - 1) - k = (i - k) - 1
        BY <1>0, <2>2
      <3>2. h[i] = f[k] + g[i - k] /\ c[i] = t[i - k]
        BY <1>1, <2>2, <3>1
      <3>3. h[i - 1] = f[k] + g[(i - k) - 1]
        <4>1. CASE i - 1 <= k
          <5>1. (i - k) - 1 = 0 /\ i - 1 = k
            BY <1>0, <2>2, <4>1
          <5>2. h[i - 1] = f[k] /\ g[(i - k) - 1] = 0
            BY <1>6, <3>1, <4>1, <5>1
          <5> QED
            BY <1>7, <5>2
        <4>2. CASE ~(i - 1 <= k)
          BY <3>1, <4>2
        <4> QED
          BY <4>1, <4>2
      <3>4. g[i - k] = g[(i - k) - 1] + Change(a, t[i - k])
        BY <1>6, <3>1
      <3>5. g[(i - k) - 1] \in Int
        BY <1>0, <1>6, <3>1
      <3>6. Change(a, t[i - k]) \in Int
        BY <3>1, ElementOfSeq, BlocksTyped DEF l
      <3> HIDE DEF h
      <3> QED
        BY <1>7, <3>2, <3>3, <3>4, <3>5, <3>6
    <2> QED
      BY <2>1, <2>2
  <1> HIDE DEF h
  <1>11. Sums(a, c, Len(c), h)
    BY <1>1, <1>8, <1>10 DEF Sums
  <1>12. Net(a, c) = h[k + l]
    BY <1>1, <1>11, NetUnique
  <1> QED
    BY <1>4, <1>7, <1>9, <1>12 DEF c

-----------------------------------------------------------------------------
\* The loop of ProcessBlock, and the blocks of the ledger as one sequence.

\* f[i] is what the loop of ProcessBlock has after i transactions.
Loop(state, b, n, f) ==
    f = [i \in 0..n |-> IF i = 0 THEN state ELSE ProcessTransaction(f[i - 1], b[i])]

\* The loop can be carried out for any number of transactions,
LEMMA LoopExists ==
    ASSUME NEW state, NEW b
    PROVE  \A n \in Nat : \E f : Loop(state, b, n, f)
  <1> DEFINE S == {n \in Nat : \E f : Loop(state, b, n, f)}
  <1>1. 0 \in S
    <2> DEFINE f == [i \in 0..0 |-> state]
    <2>1. f = [i \in 0..0 |-> IF i = 0 THEN state ELSE ProcessTransaction(f[i - 1], b[i])]
      OBVIOUS
    <2> HIDE DEF f
    <2>2. Loop(state, b, 0, f)
      BY <2>1 DEF Loop
    <2> QED
      BY <2>2
  <1>2. ASSUME NEW n \in Nat, n \in S PROVE n + 1 \in S
    <2>1. PICK f : Loop(state, b, n, f)
      BY <1>2
    <2> DEFINE last == ProcessTransaction(f[n], b[n + 1])
               g == [i \in 0..(n + 1) |-> IF i = n + 1 THEN last ELSE f[i]]
    <2>2. ASSUME NEW i \in 0..(n + 1)
          PROVE  g[i] = IF i = 0 THEN state ELSE ProcessTransaction(g[i - 1], b[i])
      <3>1. CASE i = n + 1
        <4>1. i # 0 /\ i - 1 \in 0..(n + 1) /\ i - 1 # n + 1 /\ i - 1 = n
          BY <3>1
        <4>2. g[i - 1] = f[n] /\ g[i] = last
          BY <3>1, <4>1
        <4> HIDE DEF g
        <4> QED
          BY <3>1, <4>1, <4>2
      <3>2. CASE i # n + 1
        <4>1. i \in 0..n /\ (i # 0 => i - 1 \in 0..(n + 1) /\ i - 1 # n + 1)
          BY <3>2
        <4>2. g[i] = f[i] /\ (i # 0 => g[i - 1] = f[i - 1])
          BY <3>2, <4>1
        <4>3. f[i] = IF i = 0 THEN state ELSE ProcessTransaction(f[i - 1], b[i])
          BY <2>1, <4>1 DEF Loop
        <4> HIDE DEF g
        <4> QED
          BY <4>2, <4>3
      <3> QED
        BY <3>1, <3>2
    <2>3. g = [i \in 0..(n + 1) |-> IF i = 0 THEN state ELSE ProcessTransaction(g[i - 1], b[i])]
      <3> HIDE DEF last
      <3> QED
        BY <2>2
    <2> HIDE DEF g
    <2>4. Loop(state, b, n + 1, g)
      BY <2>3 DEF Loop
    <2> QED
      BY <2>4
  <1>3. \A n \in Nat : n \in S
    <2> HIDE DEF S
    <2> QED
      BY <1>1, <1>2, StepInduction
  <1> QED
    BY <1>3

\* and ProcessTransactions is what it ends with.
LEMMA LoopUnfolds ==
    ASSUME NEW b \in Seq(Transaction)
    PROVE  \E f : /\ f[0] = Copy
                  /\ \A i \in 1..Len(b) : f[i] = ProcessTransaction(f[i - 1], b[i])
                  /\ ProcessTransactions(b) = f[Len(b)]
  <1> DEFINE body(f) == [i \in 0..Len(b) |-> IF i = 0 THEN Copy ELSE ProcessTransaction(f[i - 1], b[i])]
             after == CHOOSE f : f = body(f)
  <1>0. Len(b) \in Nat
    BY LenProperties
  <1>1. PICK h : Loop(Copy, b, Len(b), h)
    BY <1>0, LoopExists
  <1>2. h = body(h)
    BY <1>1 DEF Loop
  <1>3. after = body(after)
    <2> HIDE DEF body
    <2> QED
      BY <1>2
  <1>4. ProcessTransactions(b) = after[Len(b)]
    BY DEF ProcessTransactions
  <1> HIDE DEF after
  <1>5. after[0] = Copy
    BY <1>0, <1>3
  <1>6. ASSUME NEW i \in 1..Len(b) PROVE after[i] = ProcessTransaction(after[i - 1], b[i])
    <2>1. i \in 0..Len(b) /\ i # 0
      BY <1>0
    <2> QED
      BY <1>3, <2>1
  <1> QED
    BY <1>4, <1>5, <1>6

\* f[i] is the first i blocks, one after the other.
Flat(bs, n, f) ==
    /\ f \in [1..n -> Seq(Transaction)]
    /\ \A i \in 1..n : f[i] = IF i = 1 THEN bs[i] ELSE f[i - 1] \o bs[i]

\* There is such a sequence of sequences,
LEMMA FlatExists ==
    ASSUME NEW bs \in Seq(Block)
    PROVE  \A n \in Nat : n <= Len(bs) => \E f : Flat(bs, n, f)
  <1> DEFINE S == {n \in Nat : n <= Len(bs) => \E f : Flat(bs, n, f)}
             T == Seq(Transaction)
  <1>0. Len(bs) \in Nat
    BY LenProperties
  <1>1. 0 \in S
    <2> DEFINE f == [i \in 1..0 |-> <<>>]
    <2>1. f \in [1..0 -> T]
      OBVIOUS
    <2> HIDE DEF f
    <2>2. Flat(bs, 0, f)
      BY <2>1 DEF Flat
    <2> QED
      BY <2>2
  <1>2. ASSUME NEW n \in Nat, n \in S PROVE n + 1 \in S
    <2> SUFFICES ASSUME n + 1 <= Len(bs) PROVE \E f : Flat(bs, n + 1, f)
      OBVIOUS
    <2>1. PICK f : Flat(bs, n, f)
      BY <1>0, <1>2
    <2> DEFINE last == IF n = 0 THEN bs[n + 1] ELSE f[n] \o bs[n + 1]
               g == [i \in 1..(n + 1) |-> IF i = n + 1 THEN last ELSE f[i]]
    <2>2. bs[n + 1] \in T
      BY <1>0, ElementOfSeq, BlocksTyped
    <2>3. f \in [1..n -> T] /\ \A i \in 1..n : f[i] = IF i = 1 THEN bs[i] ELSE f[i - 1] \o bs[i]
      BY <2>1 DEF Flat
    <2>4. last \in T
      <3>1. CASE n = 0
        BY <2>2, <3>1
      <3>2. CASE n # 0
        <4>1. f[n] \in T
          BY <2>3, <3>2
        <4> QED
          BY <2>2, <3>2, <4>1, ConcatProperties
      <3> QED
        BY <3>1, <3>2
    <2>5. g \in [1..(n + 1) -> T]
      <3> HIDE DEF last, T
      <3> QED
        BY <2>3, <2>4
    <2>6. ASSUME NEW i \in 1..(n + 1)
          PROVE  g[i] = IF i = 1 THEN bs[i] ELSE g[i - 1] \o bs[i]
      <3>1. CASE i = n + 1
        <4>1. g[i] = last
          BY <3>1
        <4>2. CASE n = 0
          BY <3>1, <4>1, <4>2
        <4>3. CASE n # 0
          <5>1. i # 1 /\ i - 1 \in 1..(n + 1) /\ i - 1 # n + 1 /\ i - 1 = n
            BY <3>1, <4>3
          <5>2. g[i - 1] = f[n]
            BY <5>1
          <5>3. last = f[n] \o bs[i]
            BY <3>1, <4>3
          <5> HIDE DEF g, last
          <5> QED
            BY <4>1, <5>1, <5>2, <5>3
        <4> QED
          BY <4>2, <4>3
      <3>2. CASE i # n + 1
        <4>1. i \in 1..n /\ (i # 1 => i - 1 \in 1..(n + 1) /\ i - 1 # n + 1)
          BY <3>2
        <4>2. g[i] = f[i] /\ (i # 1 => g[i - 1] = f[i - 1])
          BY <3>2, <4>1
        <4> HIDE DEF g, last
        <4> QED
          BY <2>3, <4>1, <4>2
      <3> QED
        BY <3>1, <3>2
    <2> HIDE DEF g
    <2>7. Flat(bs, n + 1, g)
      BY <2>5, <2>6 DEF Flat
    <2> QED
      BY <2>7
  <1>3. \A n \in Nat : n \in S
    <2> HIDE DEF S
    <2> QED
      BY <1>1, <1>2, StepInduction
  <1> QED
    BY <1>3

\* and FlattenSeq is the last of them.
LEMMA FlattenUnique ==
    ASSUME NEW bs \in Seq(Block), bs # <<>>, NEW h, Flat(bs, Len(bs), h)
    PROVE  FlattenSeq(bs) = h[Len(bs)]
  <1> DEFINE body(f) == [i \in 1..Len(bs) |-> IF i = 1 THEN bs[i] ELSE f[i - 1] \o bs[i]]
             flatten == CHOOSE f : f = body(f)
  <1>0. Len(bs) \in Nat /\ Len(bs) # 0
    BY LenProperties, EmptySeq
  <1>2. h = body(h)
    BY DEF Flat
  <1>3. flatten = body(flatten)
    <2> HIDE DEF body
    <2> QED
      BY <1>2
  <1>4. FlattenSeq(bs) = flatten[Len(bs)]
    BY <1>0 DEF FlattenSeq
  <1> HIDE DEF flatten
  <1>5. ASSUME NEW i \in 1..Len(bs)
        PROVE  flatten[i] = IF i = 1 THEN bs[i] ELSE flatten[i - 1] \o bs[i]
    BY <1>3
  <1> DEFINE S == {i \in Nat : i + 1 <= Len(bs) => flatten[i + 1] = h[i + 1]}
  <1>6. 0 \in S
    <2>1. 1 \in 1..Len(bs) /\ 0 + 1 = 1
      BY <1>0
    <2>2. flatten[1] = h[1]
      BY <1>5, <2>1 DEF Flat
    <2> QED
      BY <2>1, <2>2
  <1>7. ASSUME NEW i \in Nat, i \in S PROVE i + 1 \in S
    <2> SUFFICES ASSUME (i + 1) + 1 <= Len(bs) PROVE flatten[(i + 1) + 1] = h[(i + 1) + 1]
      OBVIOUS
    <2> DEFINE j == (i + 1) + 1
    <2>1. j \in 1..Len(bs) /\ j # 1 /\ j - 1 = i + 1 /\ i + 1 <= Len(bs)
      BY <1>0
    <2>2. flatten[i + 1] = h[i + 1]
      BY <1>7, <2>1
    <2> HIDE DEF j
    <2>3. flatten[j] = flatten[i + 1] \o bs[j]
      BY <1>5, <2>1
    <2>4. h[j] = h[i + 1] \o bs[j]
      BY <2>1 DEF Flat
    <2> QED
      BY <2>2, <2>3, <2>4 DEF j
  <1>8. \A i \in Nat : i \in S
    <2> HIDE DEF S
    <2> QED
      BY <1>6, <1>7, StepInduction
  <1>9. Len(bs) - 1 \in Nat /\ (Len(bs) - 1) + 1 = Len(bs)
    BY <1>0
  <1> QED
    BY <1>0, <1>4, <1>8, <1>9

\* A block is appended to the ledger's transactions as a whole.
LEMMA FlattenAppend ==
    ASSUME NEW bs \in Seq(Block), NEW b \in Block
    PROVE  /\ FlattenSeq(bs) \in Seq(Transaction)
           /\ FlattenSeq(Append(bs, b)) = FlattenSeq(bs) \o b
  <1> DEFINE n == Len(bs)
             cs == Append(bs, b)
  <1>0. n \in Nat
    BY LenProperties
  <1>1. cs \in Seq(Block) /\ Len(cs) = n + 1 /\ cs[n + 1] = b /\ \A i \in 1..n : cs[i] = bs[i]
    BY AppendProperties
  <1> HIDE DEF cs
  <1>2. cs # <<>> /\ b \in Seq(Transaction)
    <2>1. Len(cs) # 0
      BY <1>0, <1>1
    <2>2. cs # <<>>
      BY <1>1, <2>1, EmptySeq
    <2>3. b \in Seq(Transaction)
      BY BlocksTyped
    <2> QED
      BY <2>2, <2>3
  <1>3. PICK f : Flat(cs, n + 1, f)
    BY <1>0, <1>1, FlatExists
  <1>4. f \in [1..(n + 1) -> Seq(Transaction)]
        /\ \A i \in 1..(n + 1) : f[i] = IF i = 1 THEN cs[i] ELSE f[i - 1] \o cs[i]
    BY <1>3 DEF Flat
  <1>5. FlattenSeq(cs) = f[n + 1]
    BY <1>1, <1>2, <1>3, FlattenUnique
  <1>6. CASE n = 0
    <2>1. bs = <<>>
      BY <1>6, EmptySeq
    <2>2. FlattenSeq(bs) = <<>>
      BY <2>1 DEF FlattenSeq
    <2>3. f[n + 1] = b
      BY <1>1, <1>4, <1>6
    <2>4. <<>> \o b = b
      BY <1>2, ConcatEmptySeq
    <2> QED
      BY <1>5, <2>2, <2>3, <2>4, EmptySeq DEF cs
  <1>7. CASE n # 0
    <2> DEFINE g == [i \in 1..n |-> f[i]]
    <2>1. g \in [1..n -> Seq(Transaction)]
      BY <1>0, <1>4
    <2>2. ASSUME NEW i \in 1..n PROVE g[i] = IF i = 1 THEN bs[i] ELSE g[i - 1] \o bs[i]
      <3>1. i \in 1..(n + 1) /\ (i # 1 => i - 1 \in 1..n)
        BY <1>0
      <3>2. g[i] = f[i] /\ (i # 1 => g[i - 1] = f[i - 1]) /\ cs[i] = bs[i]
        BY <1>1, <3>1
      <3>3. f[i] = IF i = 1 THEN cs[i] ELSE f[i - 1] \o cs[i]
        BY <1>4, <3>1
      <3> HIDE DEF g
      <3> QED
        BY <3>2, <3>3
    <2>3. g[n] = f[n] /\ f[n] \in Seq(Transaction)
      BY <1>0, <1>4, <1>7
    <2> HIDE DEF g
    <2>4. Flat(bs, n, g)
      BY <2>1, <2>2 DEF Flat
    <2>5. bs # <<>>
      BY <1>7, EmptySeq
    <2>6. FlattenSeq(bs) = g[n]
      BY <2>4, <2>5, FlattenUnique
    <2>7. f[n + 1] = f[n] \o b
      <3>1. n + 1 \in 1..(n + 1) /\ n + 1 # 1 /\ (n + 1) - 1 = n
        BY <1>0, <1>7
      <3> QED
        BY <1>1, <1>4, <3>1
    <2> QED
      BY <1>5, <2>3, <2>6, <2>7 DEF cs
  <1> QED
    BY <1>6, <1>7

-----------------------------------------------------------------------------
\* What ProcessTransaction and ProcessBlock do.

\* The states of the copy ProcessBlock works on.
Hashes == {tx.Hash : tx \in Transaction}
State == [ok : BOOLEAN, balances : Balances, processed : SUBSET Hashes]

\* Balances are natural numbers, and 0 is one.
LEMMA Uint64Typed == Uint64 \subseteq Nat /\ 0 \in Uint64
  BY ModulusPositive DEF Uint64

\* What a map gives for any address, present or not.
LEMMA BalanceIn ==
    ASSUME NEW A, NEW b \in [A -> Uint64], NEW a
    PROVE  Balance(b, a) \in Uint64 /\ Balance(b, a) \in Int
  <1>1. DOMAIN b = A
    OBVIOUS
  <1>2. CASE a \in A
    <2> DEFINE x == Balance(b, a)
    <2>1. x \in Uint64
      BY <1>1, <1>2 DEF Balance
    <2> HIDE DEF x
    <2>2. x \in Nat
      BY <2>1, Uint64Typed
    <2>3. x \in Int
      BY <2>2
    <2> QED
      BY <2>1, <2>3 DEF x
  <1>3. CASE a \notin A
    <2>1. Balance(b, a) = 0
      BY <1>1, <1>3 DEF Balance
    <2> QED
      BY <2>1, Uint64Typed
  <1> QED
    BY <1>2, <1>3

\* The same for the map of a ledger.
LEMMA BalanceTyped ==
    ASSUME NEW b \in Balances, NEW a
    PROVE  Balance(b, a) \in Uint64 /\ Balance(b, a) \in Int
  <1>1. PICK A \in SUBSET (Address \cup {Empty}) : b \in [A -> Uint64]
    BY DEF Balances
  <1> QED
    BY <1>1, BalanceIn

\* A transfer that is covered moves its value, to oneself too.
LEMMA MoveExact ==
    ASSUME NEW b \in Balances, NEW tx \in Transaction,
           tx.From \in DOMAIN b, b[tx.From] >= tx.ValueWei
    PROVE  /\ Move(b, tx) \in Balances
           /\ \A a : Balance(Move(b, tx), a) = Uint(Balance(b, a) + Change(a, tx))
  <1> DEFINE v == tx.ValueWei
             from == tx.From
             to == tx.To
             paid == [b EXCEPT ![from] = @ - v]
             m == [a \in DOMAIN b \cup {to} |-> IF a = to THEN Uint(Balance(paid, a) + v) ELSE paid[a]]
  <1>1. PICK A \in SUBSET (Address \cup {Empty}) : b \in [A -> Uint64]
    BY DEF Balances
  <1>2. from \in A /\ to \in Address \cup {Empty} /\ v \in Uint64 /\ DOMAIN b = A
    BY <1>1, BlockAssumption
  <1>3. v \in Nat /\ b[from] \in Nat /\ b[from] \in Uint64 /\ b[from] >= v
    BY <1>1, <1>2, Uint64Typed
  <1>4. b[from] - v \in Uint64
    BY <1>3, ModulusPositive DEF Uint64
  <1>5. Move(b, tx) = m
    BY DEF Move
  <1>c. \A a : Change(a, tx) = (IF to = a THEN v ELSE 0) - (IF from = a THEN v ELSE 0)
    BY DEF Change
  <1> HIDE DEF v, from, to
  <1>6. paid \in [A -> Uint64] /\ paid[from] = b[from] - v /\ \A a \in A : a # from => paid[a] = b[a]
    BY <1>1, <1>2, <1>4
  <1> HIDE DEF paid
  <1>7. \A a : Balance(paid, a) \in Uint64 /\ Balance(paid, a) \in Int
    BY <1>6, BalanceIn
  <1>8. \A a : Uint(Balance(paid, a) + v) \in Uint64
    <2> SUFFICES ASSUME NEW a PROVE Uint(Balance(paid, a) + v) \in Uint64
      OBVIOUS
    <2> DEFINE x == Balance(paid, a) + v
    <2>1. x \in Int /\ 0 \in Int
      BY <1>3, <1>7
    <2> HIDE DEF x
    <2>2. Uint(x) \in Uint64
      BY <2>1, UintAdds
    <2> QED
      BY <2>2 DEF x
  <1>9. m \in [A \cup {to} -> Uint64]
    BY <1>2, <1>6, <1>8
  <1>10. m \in Balances
    <2> HIDE DEF m
    <2> QED
      BY <1>2, <1>9 DEF Balances
  <1>11. ASSUME NEW a PROVE Balance(m, a) = Uint(Balance(b, a) + Change(a, tx))
    <2>1. Balance(b, a) \in Uint64 /\ Balance(b, a) \in Int
      BY BalanceTyped
    <2>2. CASE a = to
      <3>1. Balance(m, a) = Uint(Balance(paid, a) + v)
        BY <2>2 DEF Balance
      <3>2. CASE to = from
        <4>1. Balance(paid, a) = b[from] - v /\ Balance(b, a) = b[from]
          BY <1>2, <1>6, <2>2, <3>2 DEF Balance
        <4>2. Change(a, tx) = 0
          BY <1>c, <1>3, <2>2, <3>2
        <4>3. Balance(paid, a) + v = Balance(b, a) + Change(a, tx)
          BY <1>3, <4>1, <4>2
        <4> QED
          BY <3>1, <4>3
      <3>3. CASE to # from
        <4>1. Balance(paid, a) = Balance(b, a)
          BY <1>2, <1>6, <2>2, <3>3 DEF Balance
        <4>2. Change(a, tx) = v
          BY <1>c, <1>3, <2>2, <3>3
        <4> QED
          BY <3>1, <4>1, <4>2
      <3> QED
        BY <3>2, <3>3
    <2>3. CASE a # to /\ a = from
      <3>1. Balance(m, a) = b[from] - v /\ Balance(b, a) = b[from]
        BY <1>2, <1>6, <2>3 DEF Balance
      <3>2. Change(a, tx) = -v
        BY <1>c, <1>3, <2>3
      <3>3. Balance(b, a) + Change(a, tx) = b[from] - v
        BY <1>3, <3>1, <3>2
      <3>4. Uint(b[from] - v) = b[from] - v
        BY <1>4, UintOfUint64
      <3> QED
        BY <3>1, <3>3, <3>4
    <2>4. CASE a # to /\ a # from
      <3>1. Balance(m, a) = Balance(b, a)
        BY <1>2, <1>6, <2>4 DEF Balance
      <3>2. Change(a, tx) = 0
        BY <1>c, <2>4
      <3>3. Balance(b, a) + Change(a, tx) = Balance(b, a)
        BY <2>1, <3>2
      <3>4. Uint(Balance(b, a)) = Balance(b, a)
        BY <2>1, UintOfUint64
      <3> QED
        BY <3>1, <3>3, <3>4
    <2> QED
      BY <2>2, <2>3, <2>4
  <1> QED
    BY <1>5, <1>10, <1>11

\* ProcessTransaction applies a transaction once and entirely, or fails.
LEMMA OneTransaction ==
    ASSUME NEW x \in State, NEW tx \in Transaction, NEW y, y = ProcessTransaction(x, tx)
    PROVE  /\ y \in State
           /\ y.ok => /\ x.ok
                      /\ \A a : Balance(y.balances, a) = Uint(Balance(x.balances, a) + Change(a, tx))
                      /\ y.processed = x.processed \cup {tx.Hash}
                      /\ tx.Hash \notin x.processed
  <1>1. x.ok \in BOOLEAN /\ x.balances \in Balances /\ x.processed \in SUBSET Hashes
    BY DEF State
  <1>2. CASE x.ok /\ Accepts(x, tx)
    <2> DEFINE m == Move(x.balances, tx)
               p == x.processed \cup {tx.Hash}
    <2>1. /\ m \in Balances
          /\ \A a : Balance(m, a) = Uint(Balance(x.balances, a) + Change(a, tx))
      BY <1>1, <1>2, MoveExact DEF Accepts
    <2>2. p \in SUBSET Hashes
      BY <1>1 DEF Hashes
    <2>3. y = [x EXCEPT !.balances = m, !.processed = p]
      BY <1>2 DEF ProcessTransaction
    <2> HIDE DEF m, Balances, Hashes
    <2>4. y \in State /\ y.ok = x.ok /\ y.balances = m /\ y.processed = p
      <3> HIDE DEF p
      <3> QED
        BY <2>1, <2>2, <2>3 DEF State
    <2>5. tx.Hash \notin x.processed
      BY <1>2 DEF Accepts
    <2> QED
      BY <1>2, <2>1, <2>4, <2>5
  <1>3. CASE ~(x.ok /\ Accepts(x, tx))
    <2>1. y = [x EXCEPT !.ok = FALSE]
      BY <1>3 DEF ProcessTransaction
    <2> HIDE DEF Balances, Hashes
    <2>2. y \in State /\ y.ok = FALSE
      BY <2>1 DEF State
    <2> QED
      BY <2>2
  <1> QED
    BY <1>2, <1>3

\* The types of the Blockchain's fields.
LedgerTypes ==
    /\ genesis \in Genesis
    /\ balances \in Balances
    /\ processed \in SUBSET Hashes
    /\ IsFiniteSet(processed)
    /\ blocks \in Seq(Block)
    /\ direct \in Seq(Transaction)

\* What ProcessBlock has done to its copy when every transaction was accepted.
LEMMA BlockExact ==
    ASSUME LedgerTypes, NEW b \in Seq(Transaction), NEW x, x = ProcessTransactions(b)
    PROVE  /\ x \in State
           /\ x.ok => /\ \A a : Balance(x.balances, a) = Uint(Balance(balances, a) + Net(a, b))
                      /\ x.processed = processed \cup {b[j].Hash : j \in 1..Len(b)}
                      /\ IsFiniteSet(x.processed)
                      /\ Cardinality(x.processed) = Cardinality(processed) + Len(b)
  <1> DEFINE n == Len(b)
             g(a) == CHOOSE h : Sums(a, b, n, h)
  <1>0. n \in Nat /\ \A i \in 1..n : b[i] \in Transaction
    BY LenProperties, ElementOfSeq
  <1>1. PICK f : /\ f[0] = Copy
                 /\ \A i \in 1..n : f[i] = ProcessTransaction(f[i - 1], b[i])
                 /\ x = f[n]
    BY LoopUnfolds
  <1>2. \A a : Sums(a, b, n, g(a)) /\ Net(a, b) = g(a)[n]
    <2> SUFFICES ASSUME NEW a PROVE Sums(a, b, n, g(a)) /\ Net(a, b) = g(a)[n]
      OBVIOUS
    <2>1. Sums(a, b, n, g(a))
      BY SumsExist
    <2> HIDE DEF g
    <2> QED
      BY <2>1, NetUnique
  <1> HIDE DEF g, n
  <1> DEFINE Good(i) ==
               /\ f[i] \in State
               /\ f[i].ok => /\ \A a : Balance(f[i].balances, a) = Uint(Balance(balances, a) + g(a)[i])
                             /\ f[i].processed = processed \cup {b[j].Hash : j \in 1..i}
                             /\ IsFiniteSet(f[i].processed)
                             /\ Cardinality(f[i].processed) = Cardinality(processed) + i
             S == {i \in Nat : i <= n => Good(i)}
  <1>3. 0 \in S
    <2>1. Copy \in State /\ Copy.balances = balances /\ Copy.processed = processed
      <3> HIDE DEF Balances, Hashes
      <3> QED
        BY DEF Copy, State, LedgerTypes
    <2>2. ASSUME NEW a PROVE Balance(balances, a) = Uint(Balance(balances, a) + g(a)[0])
      <3>1. Balance(balances, a) \in Uint64 /\ Balance(balances, a) \in Int
        BY BalanceTyped DEF LedgerTypes
      <3>2. g(a)[0] = 0
        BY <1>2 DEF Sums
      <3>3. Balance(balances, a) + g(a)[0] = Balance(balances, a)
        BY <3>1, <3>2
      <3> QED
        BY <3>1, <3>3, UintOfUint64
    <2>3. {b[j].Hash : j \in 1..0} = {}
      OBVIOUS
    <2>4. Cardinality(processed) \in Nat /\ IsFiniteSet(processed)
      BY FS_CardinalityType DEF LedgerTypes
    <2>5. f[0] \in State /\ f[0].balances = balances /\ f[0].processed = processed
      BY <1>1, <2>1
    <2>6. Cardinality(f[0].processed) = Cardinality(processed) + 0
      BY <2>4, <2>5
    <2>7. f[0].processed = processed \cup {b[j].Hash : j \in 1..0}
      BY <2>3, <2>5
    <2>8. Good(0)
      BY <2>2, <2>4, <2>5, <2>6, <2>7
    <2> HIDE DEF Good
    <2> QED
      BY <2>8
  <1>4. ASSUME NEW i \in Nat, i \in S PROVE i + 1 \in S
    <2> SUFFICES ASSUME i + 1 <= n PROVE Good(i + 1)
      OBVIOUS
    <2> DEFINE k == i + 1
               y == f[k]
               z == f[i]
               tx == b[k]
    <2>1. k \in 1..n /\ k - 1 = i /\ i <= n
      BY <1>0
    <2>2. z \in State
      BY <1>4, <2>1
    <2>3. y = ProcessTransaction(z, tx) /\ tx \in Transaction
      BY <1>0, <1>1, <2>1
    <2>4. /\ y \in State
          /\ y.ok => /\ z.ok
                     /\ \A a : Balance(y.balances, a) = Uint(Balance(z.balances, a) + Change(a, tx))
                     /\ y.processed = z.processed \cup {tx.Hash}
                     /\ tx.Hash \notin z.processed
      <3> HIDE DEF y, z, tx
      <3> QED
        BY <2>2, <2>3, OneTransaction
    <2>5. ASSUME y.ok
          PROVE  /\ \A a : Balance(y.balances, a) = Uint(Balance(balances, a) + g(a)[k])
                 /\ y.processed = processed \cup {b[j].Hash : j \in 1..k}
                 /\ IsFiniteSet(y.processed)
                 /\ Cardinality(y.processed) = Cardinality(processed) + k
      <3>1. /\ \A a : Balance(z.balances, a) = Uint(Balance(balances, a) + g(a)[i])
            /\ z.processed = processed \cup {b[j].Hash : j \in 1..i}
            /\ IsFiniteSet(z.processed)
            /\ Cardinality(z.processed) = Cardinality(processed) + i
        BY <1>4, <2>1, <2>4, <2>5
      <3>2. ASSUME NEW a PROVE Balance(y.balances, a) = Uint(Balance(balances, a) + g(a)[k])
        <4> DEFINE base == Balance(balances, a)
                   sum == g(a)[i]
                   more == Change(a, tx)
        <4>1. base \in Int
          BY BalanceTyped DEF LedgerTypes
        <4>2. g(a) \in [0..n -> Int] /\ g(a)[k] = g(a)[k - 1] + more
          BY <1>2, <2>1 DEF Sums
        <4>3. sum \in Int /\ more \in Int /\ g(a)[k] = sum + more
          BY <1>0, <2>1, <2>3, <4>2, BlocksTyped
        <4>4. Balance(y.balances, a) = Uint(Balance(z.balances, a) + more)
          BY <2>4, <2>5
        <4>5. Balance(z.balances, a) = Uint(base + sum)
          BY <3>1
        <4> HIDE DEF base, sum, more, y, z, k
        <4>6. base + sum \in Int /\ (base + sum) + more = base + (sum + more)
          BY <4>1, <4>3
        <4> DEFINE bs == base + sum
        <4>7. Uint(Uint(bs) + more) = Uint(bs + more)
          <5> HIDE DEF bs
          <5>1. bs \in Int
            BY <4>6 DEF bs
          <5> QED
            BY <4>3, <5>1, UintAdds
        <4>8. Balance(y.balances, a) = Uint(base + g(a)[k])
          BY <4>3, <4>4, <4>5, <4>6, <4>7
        <4> QED
          BY <4>8 DEF base
      <3>3. {b[j].Hash : j \in 1..k} = {b[j].Hash : j \in 1..i} \cup {tx.Hash}
        OBVIOUS
      <3>4. y.processed = z.processed \cup {tx.Hash} /\ tx.Hash \notin z.processed
        BY <2>4, <2>5
      <3>5. y.processed = processed \cup {b[j].Hash : j \in 1..k}
        BY <3>1, <3>3, <3>4
      <3>6. Cardinality(processed) \in Nat
        BY FS_CardinalityType DEF LedgerTypes
      <3>7. IsFiniteSet(y.processed) /\ Cardinality(y.processed) = Cardinality(z.processed) + 1
        <4> DEFINE P == z.processed
                   h == tx.Hash
        <4> HIDE DEF P, h
        <4>1. IsFiniteSet(P) /\ h \notin P /\ y.processed = P \cup {h}
          BY <3>1, <3>4 DEF P, h
        <4>2. IsFiniteSet(P \cup {h}) /\ Cardinality(P \cup {h}) = Cardinality(P) + 1
          BY <4>1, FS_AddElement
        <4> QED
          BY <4>1, <4>2 DEF P
      <3>8. Cardinality(y.processed) = Cardinality(processed) + k
        BY <3>1, <3>6, <3>7
      <3> QED
        BY <3>2, <3>5, <3>7, <3>8
    <2>6. y \in State
      BY <2>4
    <2> QED
      BY <2>5, <2>6
  <1>5. \A i \in Nat : i \in S
    <2> HIDE DEF S
    <2> QED
      BY <1>3, <1>4, StepInduction
  <1>6. Good(n)
    BY <1>0, <1>5
  <1> QED
    BY <1>1, <1>2, <1>6 DEF n

-----------------------------------------------------------------------------
\* The ledger and the service that feeds it.

\* The first three parts of LedgerIsItsBlocks: the ledger and its transactions.
Explained ==
    /\ \A a \in Address :
          Balance(balances, a) = Uint(Balance(genesis, a) + Net(a, Applied))
    /\ processed = {Applied[i].Hash : i \in DOMAIN Applied}
    /\ Len(Applied) = Cardinality(processed)

\* A sequence of one transaction.
LEMMA NetOfOne ==
    ASSUME NEW a, NEW tx \in Transaction
    PROVE  Net(a, <<tx>>) = Change(a, tx)
  <1> DEFINE s == <<tx>>
  <1>1. s \in Seq(Transaction) /\ Len(s) = 1 /\ s[1] = tx
    OBVIOUS
  <1> HIDE DEF s
  <1>2. PICK f : Sums(a, s, Len(s), f)
    BY <1>1, SumsExist
  <1>3. Net(a, s) = f[Len(s)]
    BY <1>1, <1>2, NetUnique
  <1>4. f[0] = 0 /\ \A i \in 1..1 : f[i] = f[i - 1] + Change(a, s[i])
    BY <1>1, <1>2 DEF Sums
  <1>5. f[1] = f[0] + Change(a, s[1])
    <2>1. 1 \in 1..1 /\ 1 - 1 = 0
      OBVIOUS
    <2> QED
      BY <1>4, <2>1
  <1>6. Change(a, tx) \in Int
    BY BlocksTyped
  <1> QED
    BY <1>1, <1>3, <1>4, <1>5, <1>6 DEF s

\* What processedTransactions holds after the transactions of s.
HashesOf(s) == {s[i].Hash : i \in 1..Len(s)}

\* The hashes of two sequences are those of one after the other.
LEMMA HashesConcat ==
    ASSUME NEW s \in Seq(Transaction), NEW t \in Seq(Transaction)
    PROVE  HashesOf(s \o t) = HashesOf(s) \cup HashesOf(t)
  <1> DEFINE c == s \o t
             k == Len(s)
             l == Len(t)
  <1>0. k \in Nat /\ l \in Nat
    BY LenProperties
  <1>1. /\ Len(c) = k + l
        /\ \A i \in 1..(k + l) : c[i] = IF i <= k THEN s[i] ELSE t[i - k]
    BY ConcatProperties
  <1> HIDE DEF c
  <1>2. ASSUME NEW i \in 1..Len(c) PROVE c[i].Hash \in HashesOf(s) \cup HashesOf(t)
    <2>1. CASE i <= k
      <3>1. c[i] = s[i] /\ i \in 1..Len(s)
        BY <1>0, <1>1, <2>1
      <3> QED
        BY <3>1 DEF HashesOf
    <2>2. CASE ~(i <= k)
      <3>1. c[i] = t[i - k] /\ i - k \in 1..Len(t)
        BY <1>0, <1>1, <2>2
      <3> HIDE DEF k
      <3> QED
        BY <3>1 DEF HashesOf
    <2> QED
      BY <2>1, <2>2
  <1>3. ASSUME NEW i \in 1..Len(s) PROVE s[i].Hash \in HashesOf(c)
    <2>1. i \in 1..Len(c) /\ c[i] = s[i]
      BY <1>0, <1>1
    <2> QED
      BY <2>1 DEF HashesOf
  <1>4. ASSUME NEW i \in 1..Len(t) PROVE t[i].Hash \in HashesOf(c)
    <2> DEFINE j == k + i
    <2>1. j \in 1..Len(c) /\ ~(j <= k) /\ j - k = i /\ j \in 1..(k + l)
      BY <1>0, <1>1
    <2>2. c[j] = t[i]
      BY <1>1, <2>1
    <2> HIDE DEF j
    <2> QED
      BY <2>1, <2>2 DEF HashesOf
  <1>5. HashesOf(c) = HashesOf(s) \cup HashesOf(t)
    BY <1>2, <1>3, <1>4 DEF HashesOf
  <1> QED
    BY <1>5 DEF c

\* The transactions of all blocks are a sequence of transactions.
LEMMA FlattenTyped ==
    ASSUME NEW bs \in Seq(Block)
    PROVE  FlattenSeq(bs) \in Seq(Transaction)
  <1>1. CASE bs = <<>>
    BY <1>1, EmptySeq DEF FlattenSeq
  <1>2. CASE bs # <<>>
    <2>1. Len(bs) \in Nat /\ Len(bs) # 0
      BY <1>2, LenProperties, EmptySeq
    <2>2. PICK f : Flat(bs, Len(bs), f)
      BY <2>1, FlatExists
    <2>3. FlattenSeq(bs) = f[Len(bs)]
      BY <1>2, <2>2, FlattenUnique
    <2> QED
      BY <2>1, <2>2, <2>3 DEF Flat
  <1> QED
    BY <1>1, <1>2

\* The ledger's transactions are still the explanation when those of s have been
\* put between two of them and applied.
LEMMA ExplainMore ==
    ASSUME LedgerTypes, LedgerTypes', Explained, genesis' = genesis,
           NEW r \in Seq(Transaction), NEW s \in Seq(Transaction), NEW t \in Seq(Transaction),
           Applied = r \o t, Applied' = (r \o s) \o t,
           \A a : Balance(balances', a) = Uint(Balance(balances, a) + Net(a, s)),
           processed' = processed \cup HashesOf(s),
           Cardinality(processed') = Cardinality(processed) + Len(s)
    PROVE  Explained'
  <1> DEFINE p == r \o t
             q == (r \o s) \o t
  <1>1. p \in Seq(Transaction) /\ r \o s \in Seq(Transaction) /\ q \in Seq(Transaction)
    BY ConcatProperties
  <1>2. Len(r) \in Nat /\ Len(s) \in Nat /\ Len(t) \in Nat
    BY LenProperties
  <1>3. Len(p) = Len(r) + Len(t) /\ Len(q) = (Len(r) + Len(s)) + Len(t)
    BY <1>1, ConcatProperties
  <1>4. HashesOf(q) = HashesOf(p) \cup HashesOf(s)
    <2>1. HashesOf(p) = HashesOf(r) \cup HashesOf(t)
      BY HashesConcat
    <2>2. HashesOf(r \o s) = HashesOf(r) \cup HashesOf(s)
      BY HashesConcat
    <2>3. HashesOf(q) = HashesOf(r \o s) \cup HashesOf(t)
      BY <1>1, HashesConcat
    <2> QED
      BY <2>1, <2>2, <2>3
  <1>5. ASSUME NEW a PROVE Net(a, p) \in Int /\ Net(a, s) \in Int /\ Net(a, q) = Net(a, p) + Net(a, s)
    <2>1. Net(a, r) \in Int /\ Net(a, s) \in Int /\ Net(a, t) \in Int /\ Net(a, p) \in Int
      BY <1>1, NetConcat
    <2>2. Net(a, p) = Net(a, r) + Net(a, t)
      BY NetConcat
    <2>3. Net(a, r \o s) = Net(a, r) + Net(a, s)
      BY NetConcat
    <2>4. Net(a, q) = Net(a, r \o s) + Net(a, t)
      BY <1>1, NetConcat
    <2> HIDE DEF p, q
    <2> QED
      BY <2>1, <2>2, <2>3, <2>4
  <1>6. Applied = p /\ Applied' = q
    OBVIOUS
  <1> HIDE DEF p, q
  <1>7. DOMAIN p = 1..Len(p) /\ DOMAIN q = 1..Len(q)
    BY <1>1, LenProperties
  <1>8. /\ \A a \in Address : Balance(balances, a) = Uint(Balance(genesis, a) + Net(a, p))
        /\ processed = HashesOf(p)
        /\ Len(p) = Cardinality(processed)
    BY <1>6, <1>7 DEF Explained, HashesOf
  <1>9. ASSUME NEW a \in Address
        PROVE  Balance(balances', a) = Uint(Balance(genesis', a) + Net(a, q))
    <2> DEFINE x == Balance(genesis, a) + Net(a, p)
               y == Net(a, s)
    <2>1. Balance(genesis, a) \in Int
      BY GenesisAssumption, BalanceTyped DEF LedgerTypes
    <2>2. x \in Int /\ y \in Int /\ x + y = Balance(genesis, a) + Net(a, q)
      BY <1>5, <2>1
    <2>3. Balance(balances', a) = Uint(Balance(balances, a) + y)
      OBVIOUS
    <2>4. Balance(balances, a) = Uint(x)
      BY <1>8
    <2> HIDE DEF x, y
    <2>5. Uint(Uint(x) + y) = Uint(x + y)
      BY <2>2, UintAdds
    <2> QED
      BY <2>2, <2>3, <2>4, <2>5
  <1>10. processed' = HashesOf(q)
    BY <1>4, <1>8
  <1>11. Len(q) = Cardinality(processed')
    <2> DEFINE n == Cardinality(processed)
               m == Cardinality(processed')
    <2>1. Len(p) = n /\ m = n + Len(s)
      BY <1>8
    <2> HIDE DEF n, m
    <2>2. n = Len(r) + Len(t)
      BY <1>3, <2>1
    <2>3. m = (Len(r) + Len(t)) + Len(s)
      BY <2>1, <2>2
    <2>4. (Len(r) + Len(t)) + Len(s) = (Len(r) + Len(s)) + Len(t)
      BY <1>2
    <2>5. Len(q) = m
      BY <1>3, <2>3, <2>4
    <2> QED
      BY <2>5 DEF m
  <1>12. processed' = {q[i].Hash : i \in DOMAIN q}
    BY <1>7, <1>10 DEF HashesOf
  <1> QED
    BY <1>6, <1>9, <1>11, <1>12 DEF Explained

\* SyncLatestBlock: the attempts left, the block in hand, and that the ledger
\* has grown exactly if the call is over without an error.
ServiceInv ==
    /\ call \in {"idle", "fetch", "wait", "process"}
    /\ attempt \in 0..MaxAttempts
    /\ call = "wait" => attempt < MaxAttempts
    /\ call = "process" => fetched \in Block
    /\ outcome \in [err : BOOLEAN, height : Nat]
    /\ call # "idle" => outcome.err = FALSE /\ outcome.height = Len(blocks)
    /\ call = "idle" => Len(blocks) = outcome.height + (IF outcome.err THEN 0 ELSE 1)

\* The inductive invariant.
LedgerInv == LedgerTypes /\ Explained /\ ServiceInv

\* Steps of the service that do not touch the ledger.
LEMMA LedgerUnchanged ==
    ASSUME LedgerTypes, Explained, UNCHANGED ledgerVars
    PROVE  LedgerTypes' /\ Explained'
  BY DEF ledgerVars, LedgerTypes, Explained, Applied

\* NewBlockchain: the genesis explains itself.
LEMMA InitLedger == LedgerInit => LedgerInv
  <1> SUFFICES ASSUME LedgerInit PROVE LedgerInv
    OBVIOUS
  <1>1. genesis \in Genesis /\ balances = genesis /\ blocks = <<>> /\ direct = <<>> /\ processed = {}
    BY DEF LedgerInit
  <1>2. LedgerTypes
    BY <1>1, GenesisAssumption, EmptySeq, FS_EmptySet DEF LedgerTypes
  <1>3. Explained
    <2>1. Applied = <<>>
      BY <1>1 DEF Applied, FlattenSeq
    <2>2. ASSUME NEW a \in Address PROVE Balance(balances, a) = Uint(Balance(genesis, a) + Net(a, <<>>))
      <3>1. Balance(balances, a) \in Uint64 /\ Balance(balances, a) \in Int
        BY <1>2, BalanceTyped DEF LedgerTypes
      <3>2. Net(a, <<>>) = 0
        BY NetOfNone
      <3>3. Balance(genesis, a) + Net(a, <<>>) = Balance(balances, a)
        BY <1>1, <3>1, <3>2
      <3> QED
        BY <3>1, <3>3, UintOfUint64
    <2>3. DOMAIN <<>> = {} /\ Len(<<>>) = 0 /\ Cardinality({}) = 0
      BY FS_EmptySet
    <2> QED
      BY <1>1, <2>1, <2>2, <2>3 DEF Explained
  <1>4. ServiceInv
    BY <1>1, WidthAssumption DEF LedgerInit, ServiceInv
  <1> QED
    BY <1>2, <1>3, <1>4 DEF LedgerInv

\* A whole block: SyncLatestBlock appends it if all its transactions were
\* accepted, and otherwise leaves the ledger as it was.
LEMMA ProcessKeepsLedger ==
    ASSUME LedgerInv, Process
    PROVE  LedgerInv'
  <1> DEFINE b == fetched
             x == ProcessTransactions(b)
  <1>1. call = "process" /\ b \in Block /\ LedgerTypes /\ Explained /\ ServiceInv
    BY DEF LedgerInv, Process, ServiceInv
  <1>2. b \in Seq(Transaction)
    BY <1>1, BlocksTyped
  <1>3. /\ x \in State
        /\ x.ok => /\ \A a : Balance(x.balances, a) = Uint(Balance(balances, a) + Net(a, b))
                   /\ x.processed = processed \cup {b[j].Hash : j \in 1..Len(b)}
                   /\ IsFiniteSet(x.processed)
                   /\ Cardinality(x.processed) = Cardinality(processed) + Len(b)
    <2> HIDE DEF b, x
    <2>1. x = ProcessTransactions(b)
      BY DEF x
    <2> QED
      BY <1>1, <1>2, <2>1, BlockExact
  <1>4. /\ genesis' = genesis /\ direct' = direct /\ call' = "idle" /\ attempt' = attempt
        /\ outcome' = [outcome EXCEPT !.err = ~x.ok]
    BY DEF Process
  <1>5. /\ x.ok => balances' = x.balances /\ processed' = x.processed /\ blocks' = Append(blocks, b)
        /\ ~x.ok => balances' = balances /\ processed' = processed /\ blocks' = blocks
    BY DEF Process, ProcessBlock
  <1>6. x.ok \in BOOLEAN /\ x.balances \in Balances /\ x.processed \in SUBSET Hashes
    BY <1>3 DEF State
  <1>7. /\ outcome \in [err : BOOLEAN, height : Nat] /\ outcome.height = Len(blocks)
        /\ attempt \in 0..MaxAttempts /\ blocks \in Seq(Block)
    BY <1>1 DEF ServiceInv, LedgerTypes
  <1> HIDE DEF x, b
  <1>8. CASE x.ok
    <2>1. /\ Append(blocks, b) \in Seq(Block) /\ Len(Append(blocks, b)) = Len(blocks) + 1
      BY <1>1, <1>7, AppendProperties
    <2>2. LedgerTypes'
      <3> HIDE DEF Balances, Hashes
      <3> QED
        BY <1>1, <1>3, <1>4, <1>5, <1>6, <1>8, <2>1 DEF LedgerTypes
    <2>3. Explained'
      <3> DEFINE r == FlattenSeq(blocks)
      <3>1. r \in Seq(Transaction) /\ FlattenSeq(Append(blocks, b)) = r \o b
        BY <1>1, <1>7, FlattenAppend
      <3>2. direct \in Seq(Transaction)
        BY <1>1 DEF LedgerTypes
      <3>3. Applied = r \o direct /\ Applied' = (r \o b) \o direct
        BY <1>4, <1>5, <1>8, <3>1 DEF Applied
      <3>4. /\ \A a : Balance(balances', a) = Uint(Balance(balances, a) + Net(a, b))
            /\ processed' = processed \cup HashesOf(b)
            /\ Cardinality(processed') = Cardinality(processed) + Len(b)
        BY <1>3, <1>5, <1>8 DEF HashesOf
      <3> HIDE DEF r
      <3> QED
        BY <1>1, <1>2, <1>4, <2>2, <3>1, <3>2, <3>3, <3>4, ExplainMore
    <2>4. ServiceInv'
      <3>1. outcome' \in [err : BOOLEAN, height : Nat] /\ outcome'.err = FALSE
            /\ outcome'.height = Len(blocks)
        BY <1>4, <1>7, <1>8
      <3>2. Len(blocks') = outcome'.height + 1
        BY <1>5, <1>8, <2>1, <3>1
      <3> QED
        BY <1>4, <1>7, <3>1, <3>2 DEF ServiceInv
    <2> QED
      BY <2>2, <2>3, <2>4 DEF LedgerInv
  <1>9. CASE ~x.ok
    <2>1. UNCHANGED ledgerVars
      BY <1>4, <1>5, <1>9 DEF ledgerVars
    <2>2. LedgerTypes' /\ Explained'
      BY <1>1, <2>1, LedgerUnchanged
    <2>3. ServiceInv'
      <3>1. outcome' \in [err : BOOLEAN, height : Nat] /\ outcome'.err = TRUE
            /\ outcome'.height = Len(blocks)
        BY <1>4, <1>7, <1>9
      <3>2. Len(blocks') = outcome'.height + 0
        BY <1>5, <1>7, <1>9, <3>1, LenProperties
      <3> QED
        BY <1>4, <1>7, <3>1, <3>2 DEF ServiceInv
    <2> QED
      BY <2>2, <2>3 DEF LedgerInv
  <1> QED
    BY <1>6, <1>8, <1>9

\* One transaction applied by itself.
LEMMA DirectKeepsLedger ==
    ASSUME LedgerInv, NEW tx \in Transaction, ApplyDirectly(tx)
    PROVE  LedgerInv'
  <1> DEFINE x == ProcessTransaction(Copy, tx)
             s == <<tx>>
  <1>1. LedgerTypes /\ Explained /\ ServiceInv
    BY DEF LedgerInv
  <1>2. /\ x.ok /\ balances' = x.balances /\ processed' = x.processed
        /\ direct' = Append(direct, tx) /\ genesis' = genesis /\ blocks' = blocks
        /\ UNCHANGED serviceVars
    BY DEF ApplyDirectly
  <1>3. Copy \in State /\ Copy.balances = balances /\ Copy.processed = processed
    <2> HIDE DEF Balances, Hashes
    <2> QED
      BY <1>1 DEF Copy, State, LedgerTypes
  <1>4. /\ x \in State
        /\ \A a : Balance(x.balances, a) = Uint(Balance(balances, a) + Change(a, tx))
        /\ x.processed = processed \cup {tx.Hash}
        /\ tx.Hash \notin processed
    <2> DEFINE c == Copy
    <2> HIDE DEF x, c
    <2>1. c \in State /\ x = ProcessTransaction(c, tx) /\ c.balances = balances /\ c.processed = processed
      BY <1>3 DEF x, c
    <2> QED
      BY <1>2, <2>1, OneTransaction
  <1>5. x.balances \in Balances /\ x.processed \in SUBSET Hashes
    BY <1>4 DEF State
  <1> HIDE DEF x
  <1>6. IsFiniteSet(processed') /\ Cardinality(processed') = Cardinality(processed) + 1
    <2> DEFINE h == tx.Hash
    <2> HIDE DEF h
    <2>1. IsFiniteSet(processed) /\ h \notin processed /\ processed' = processed \cup {h}
      BY <1>1, <1>2, <1>4 DEF LedgerTypes, h
    <2> QED
      BY <2>1, FS_AddElement
  <1>7. direct \in Seq(Transaction) /\ Append(direct, tx) \in Seq(Transaction)
        /\ Append(direct, tx) = direct \o s
    BY <1>1, AppendProperties, AppendIsConcat DEF LedgerTypes
  <1>8. LedgerTypes'
    <2> HIDE DEF Balances, Hashes, s
    <2> QED
      BY <1>1, <1>2, <1>5, <1>6, <1>7 DEF LedgerTypes
  <1>9. Explained'
    <2> DEFINE r == FlattenSeq(blocks) \o direct
               e == <<>>
    <2>1. s \in Seq(Transaction) /\ Len(s) = 1 /\ s[1] = tx
      OBVIOUS
    <2>2. FlattenSeq(blocks) \in Seq(Transaction)
      BY <1>1, FlattenTyped DEF LedgerTypes
    <2>3. r \in Seq(Transaction) /\ e \in Seq(Transaction)
      BY <1>7, <2>2, ConcatProperties, EmptySeq
    <2>4. Applied = r /\ Applied' = r \o s
      <3>1. Applied' = FlattenSeq(blocks) \o (direct \o s)
        BY <1>2, <1>7 DEF Applied
      <3>2. FlattenSeq(blocks) \o (direct \o s) = r \o s
        <4> DEFINE F == FlattenSeq(blocks)
        <4>1. F \in Seq(Transaction) /\ s \in Seq(Transaction) /\ direct \in Seq(Transaction)
          BY <1>7, <2>1, <2>2
        <4> HIDE DEF s, F
        <4>2. (F \o direct) \o s = F \o (direct \o s)
          BY <4>1, ConcatAssociative
        <4> QED
          BY <4>2 DEF F
      <3> QED
        BY <3>1, <3>2 DEF Applied
    <2> HIDE DEF r
    <2>5. r \o e = r /\ (r \o s) \o e = r \o s
      <3>1. r \o s \in Seq(Transaction)
        BY <2>1, <2>3, ConcatProperties
      <3> QED
        BY <2>3, <3>1, ConcatEmptySeq
    <2>6. HashesOf(s) = {tx.Hash}
      <3> HIDE DEF s
      <3> QED
        BY <2>1 DEF HashesOf
    <2>7. \A a : Net(a, s) = Change(a, tx)
      BY NetOfOne
    <2> HIDE DEF s, e
    <2>8. \A a : Balance(balances', a) = Uint(Balance(balances, a) + Net(a, s))
      BY <1>2, <1>4, <2>7
    <2>9. processed' = processed \cup HashesOf(s) /\ Cardinality(processed') = Cardinality(processed) + Len(s)
      BY <1>2, <1>4, <1>6, <2>1, <2>6
    <2>10. Applied = r \o e /\ Applied' = (r \o s) \o e
      BY <2>4, <2>5
    <2> QED
      BY <1>1, <1>2, <1>8, <2>1, <2>3, <2>8, <2>9, <2>10, ExplainMore
  <1>10. ServiceInv'
    BY <1>1, <1>2 DEF ServiceInv, serviceVars
  <1> QED
    BY <1>8, <1>9, <1>10 DEF LedgerInv

\* Every step of the service and of its callers keeps the invariant.
LEMMA NextLedger == LedgerInv /\ [LedgerNext]_syncVars => LedgerInv'
  <1> SUFFICES ASSUME LedgerInv, [LedgerNext]_syncVars PROVE LedgerInv'
    OBVIOUS
  <1>0. LedgerTypes /\ Explained /\ ServiceInv
    BY DEF LedgerInv
  <1>1. ASSUME UNCHANGED ledgerVars, ServiceInv' PROVE LedgerInv'
    BY <1>0, <1>1, LedgerUnchanged DEF LedgerInv
  <1>2. blocks \in Seq(Block) /\ Len(blocks) \in Nat /\ MaxAttempts \in Nat \ {0}
    BY <1>0, LenProperties, WidthAssumption DEF LedgerTypes
  <1>f. ASSUME SyncFails, UNCHANGED <<ledgerVars, attempt>>, call \in {"fetch", "wait"}
        PROVE  ServiceInv'
    <2>1. /\ outcome \in [err : BOOLEAN, height : Nat] /\ outcome.height = Len(blocks)
          /\ call' = "idle" /\ outcome' = [outcome EXCEPT !.err = TRUE]
          /\ attempt' \in 0..MaxAttempts /\ blocks' = blocks
      BY <1>0, <1>f DEF SyncFails, ServiceInv, ledgerVars
    <2>2. outcome' \in [err : BOOLEAN, height : Nat] /\ outcome'.err = TRUE
          /\ outcome'.height = Len(blocks)
      BY <2>1
    <2>3. Len(blocks') = outcome'.height + 0
      BY <1>2, <2>1, <2>2
    <2> QED
      BY <2>1, <2>2, <2>3 DEF ServiceInv
  <1>3. CASE Begin
    <2>1. UNCHANGED ledgerVars
      BY <1>3 DEF Begin
    <2>2. ServiceInv'
      BY <1>2, <1>3, <2>1 DEF Begin, ServiceInv, ledgerVars
    <2> QED
      BY <1>1, <2>1, <2>2
  <1>4. CASE FetchBlock
    <2>1. UNCHANGED ledgerVars
      BY <1>4 DEF FetchBlock
    <2>2. ServiceInv'
      BY <1>0, <1>4, <2>1 DEF FetchBlock, ServiceInv, ledgerVars
    <2> QED
      BY <1>1, <2>1, <2>2
  <1>5. CASE FetchError
    <2>1. UNCHANGED ledgerVars
      BY <1>5 DEF FetchError
    <2>2. ServiceInv'
      <3>1. CASE attempt = MaxAttempts
        BY <1>5, <1>f, <2>1, <3>1 DEF FetchError
      <3>2. CASE attempt # MaxAttempts
        BY <1>0, <1>2, <1>5, <2>1, <3>2 DEF FetchError, ServiceInv, ledgerVars
      <3> QED
        BY <3>1, <3>2
    <2> QED
      BY <1>1, <2>1, <2>2
  <1>6. CASE Cancelled
    <2>1. UNCHANGED ledgerVars
      BY <1>6 DEF Cancelled
    <2>2. ServiceInv'
      BY <1>6, <1>f, <2>1 DEF Cancelled
    <2> QED
      BY <1>1, <2>1, <2>2
  <1>7. CASE TryAgain
    <2>1. UNCHANGED ledgerVars
      BY <1>7 DEF TryAgain
    <2>2. ServiceInv'
      BY <1>0, <1>2, <1>7, <2>1 DEF TryAgain, ServiceInv, ledgerVars
    <2> QED
      BY <1>1, <2>1, <2>2
  <1>8. CASE ContextEnds
    <2>1. UNCHANGED ledgerVars
      BY <1>8 DEF ContextEnds
    <2>2. ServiceInv'
      BY <1>0, <1>8, <2>1 DEF ContextEnds, ServiceInv, ledgerVars
    <2> QED
      BY <1>1, <2>1, <2>2
  <1>9. CASE UNCHANGED syncVars
    <2>1. UNCHANGED ledgerVars /\ UNCHANGED serviceVars
      BY <1>9 DEF syncVars
    <2>2. ServiceInv'
      BY <1>0, <2>1 DEF ServiceInv, ledgerVars, serviceVars
    <2> QED
      BY <1>1, <2>1, <2>2
  <1>10. ASSUME NEW b \in Block, NEW i \in DOMAIN b, ApplyDirectly(b[i]) PROVE LedgerInv'
    <2>1. b[i] \in Transaction
      BY DEF Transaction, Range
    <2> QED
      BY <1>10, <2>1, DirectKeepsLedger
  <1> QED
    BY <1>3, <1>4, <1>5, <1>6, <1>7, <1>8, <1>9, <1>10, ProcessKeepsLedger
    DEF LedgerNext, ServiceStep, Full

\* The balances of the ledger are those its genesis, blocks and single transactions
\* account for, modulo 2^Width: ProcessBlock leaves no trace of a block that failed
\* half-way, no transaction counts twice, and SyncLatestBlock returns nil exactly if
\* it appended a block.  For every width, genesis, block and length.
THEOREM LedgerTheorem == LedgerSpec => []LedgerIsItsBlocks
  <1>1. LedgerInv => LedgerIsItsBlocks
    BY DEF LedgerInv, Explained, ServiceInv, LedgerIsItsBlocks
  <1> QED
    BY <1>1, InitLedger, NextLedger, PTL DEF LedgerSpec

\* SyncLatestBlock never makes more than MaxAttempts attempts, and the subtraction of
\* ProcessTransaction never wraps: every balance stays a uint64.
THEOREM LedgerTypeTheorem == LedgerSpec => []LedgerTypeOK
  <1>1. LedgerInv => LedgerTypeOK
    BY DEF LedgerInv, LedgerTypes, ServiceInv, LedgerTypeOK
  <1> QED
    BY <1>1, InitLedger, NextLedger, PTL DEF LedgerSpec
=============================================================================

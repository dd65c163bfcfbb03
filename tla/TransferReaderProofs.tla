------------------------ MODULE TransferReaderProofs ------------------------
(***************************************************************************)
(* Paging with a cursor, for every table, every query and every page size:   *)
(* pages never overlap, and together they are the answer, whatever is        *)
(* committed and rolled back between them.                                   *)
(***************************************************************************)
EXTENDS TransferReader, FiniteSetTheorems, TLAPS

\* ORDER BY leaves no choice among the rows of S.
Ordered(S) ==
    /\ IsFiniteSet(S)
    /\ \A r \in S : BlockOf(r) \in Nat /\ LogOf(r) \in Nat
    /\ \A r, s \in S : r # s => Before(r, s) \/ Before(s, r)

\* How many rows of S come before r.
Rank(S, r) == Cardinality({s \in S : Before(s, r)})

-----------------------------------------------------------------------------
LEMMA RankBelow ==
    ASSUME NEW S, Ordered(S), NEW r \in S
    PROVE  Rank(S, r) \in 0..(Cardinality(S) - 1) /\ Cardinality(S) \in Nat
<1> DEFINE B == {s \in S : Before(s, r)}
<1>1. IsFiniteSet(S) /\ B \in SUBSET S
  BY DEF Ordered
<1>2. r \in S /\ r \notin B
  BY DEF Ordered, Before
<1> HIDE DEF B
<1>3. /\ IsFiniteSet(B) /\ Cardinality(B) <= Cardinality(S)
      /\ Cardinality(S) = Cardinality(B) => S = B
  BY <1>1, FS_Subset
<1>4. Cardinality(B) \in Nat /\ Cardinality(S) \in Nat
  BY <1>1, <1>3, FS_CardinalityType
<1>5. Cardinality(B) \in 0..(Cardinality(S) - 1)
  BY <1>2, <1>3, <1>4
<1> QED
  BY <1>4, <1>5 DEF B, Rank

LEMMA RankGrows ==
    ASSUME NEW S, Ordered(S), NEW r \in S, NEW s \in S, Before(s, r)
    PROVE  Rank(S, s) < Rank(S, r)
<1> DEFINE A == {x \in S : Before(x, s)}
           B == {x \in S : Before(x, r)}
<1>1. A \subseteq B
  BY DEF Ordered, Before
<1>2. s \in B /\ s \notin A
  BY DEF Ordered, Before
<1>3. IsFiniteSet(S) /\ B \in SUBSET S
  BY DEF Ordered
<1> HIDE DEF A, B
<1>4. IsFiniteSet(B)
  BY <1>3, FS_Subset
<1>5. /\ IsFiniteSet(A) /\ Cardinality(A) <= Cardinality(B)
      /\ Cardinality(B) = Cardinality(A) => B = A
  BY <1>1, <1>4, FS_Subset
<1>6. Cardinality(A) \in Nat /\ Cardinality(B) \in Nat
  BY <1>4, <1>5, FS_CardinalityType
<1>7. Cardinality(A) < Cardinality(B)
  BY <1>2, <1>5, <1>6
<1> QED
  BY <1>7 DEF A, B, Rank

\* No rank is left out.
LEMMA EveryRank ==
    ASSUME NEW S, Ordered(S), NEW k \in 0..(Cardinality(S) - 1)
    PROVE  \E r \in S : Rank(S, r) = k
<1> DEFINE N == 0..(Cardinality(S) - 1)
           rank == [r \in S |-> Rank(S, r)]
<1>1. IsFiniteSet(S) /\ Cardinality(S) \in Nat
  BY FS_CardinalityType DEF Ordered
<1>2. IsFiniteSet(N) /\ Cardinality(N) = Cardinality(S)
  <2> DEFINE m == Cardinality(S) - 1
  <2>1. m \in Int /\ 0 \in Int
    BY <1>1
  <2> HIDE DEF m
  <2>2. IsFiniteSet(0..m) /\ Cardinality(0..m) = IF 0 > m THEN 0 ELSE m - 0 + 1
    BY <2>1, FS_Interval
  <2> QED
    BY <1>1, <2>2 DEF m
<1>3. rank \in [S -> N]
  BY RankBelow
<1>4. \A r, s \in S : Rank(S, r) = Rank(S, s) => r = s
  <2> SUFFICES ASSUME NEW r \in S, NEW s \in S, Rank(S, r) = Rank(S, s), r # s PROVE FALSE
    OBVIOUS
  <2>1. Rank(S, r) \in Nat /\ Rank(S, s) \in Nat
    BY <1>1, RankBelow
  <2>2. Before(r, s) \/ Before(s, r)
    BY DEF Ordered
  <2> QED
    BY <2>1, <2>2, RankGrows
<1>5. rank \in Injection(S, N)
  BY <1>3, <1>4 DEF Injection, IsInjective
<1> HIDE DEF N
<1>6. rank \in Surjection(S, N)
  BY <1>1, <1>2, <1>5, FS_Injection
<1> QED
  BY <1>6 DEF Surjection, N

\* LIMIT keeps the beginning of the order.
LEMMA FirstRowsAre ==
    ASSUME NEW S, Ordered(S), NEW n \in Nat
    PROVE  /\ FirstRows(S, n) = {r \in S : Rank(S, r) < n}
           /\ FirstRows(S, n) \subseteq S
           /\ \A r \in FirstRows(S, n), s \in S : Before(s, r) => s \in FirstRows(S, n)
<1>1. FirstRows(S, n) = {r \in S : Rank(S, r) < n}
  BY DEF FirstRows, Rank
<1>2. ASSUME NEW r \in S, NEW s \in S, Rank(S, r) < n, Before(s, r)
      PROVE  Rank(S, s) < n
  <2>1. Rank(S, s) < Rank(S, r) /\ Rank(S, s) \in Int /\ Rank(S, r) \in Int
    BY <1>2, RankGrows, RankBelow
  <2> QED
    BY <1>2, <2>1
<1> QED
  BY <1>1, <1>2

\* Asking for one row more than the page and cutting it off again is the page.
LEMMA PageOfFound ==
    ASSUME NEW S, Ordered(S), NEW n \in Nat
    PROVE  FirstRows(FirstRows(S, n + 1), n) = {r \in S : Rank(S, r) < n}
<1> DEFINE F == FirstRows(S, n + 1)
<1>1. /\ F = {r \in S : Rank(S, r) < n + 1} /\ F \subseteq S
      /\ \A r \in F, s \in S : Before(s, r) => s \in F
  BY FirstRowsAre
<1> HIDE DEF F
<1>2. \A r \in F : {s \in F : Before(s, r)} = {s \in S : Before(s, r)}
  BY <1>1
<1>3. \A r \in F : Cardinality({s \in F : Before(s, r)}) = Rank(S, r)
  BY <1>2 DEF Rank
<1>4. \A r \in S : Rank(S, r) \in Int
  BY RankBelow
<1>5. FirstRows(F, n) = {r \in F : Rank(S, r) < n}
  BY <1>3 DEF FirstRows
<1>6. FirstRows(F, n) = {r \in S : Rank(S, r) < n}
  BY <1>1, <1>4, <1>5
<1> QED
  BY <1>6 DEF F

\* A page that is not followed by another one is all there is; one that is
\* ends with the row before which everything else of it comes.
LEMMA Paging ==
    ASSUME NEW S, Ordered(S), NEW n \in Nat \ {0}
    PROVE  LET found == FirstRows(S, n + 1)
               cut == FirstRows(found, n)
           IN  /\ cut \subseteq S
               /\ Cardinality(found) \in Nat
               /\ Cardinality(found) <= n => cut = S
               /\ Cardinality(found) > n =>
                     /\ LastRow(cut) \in cut
                     /\ cut = {r \in S : r = LastRow(cut) \/ Before(r, LastRow(cut))}
<1> DEFINE F == FirstRows(S, n + 1)
           P == FirstRows(F, n)
           last == LastRow(P)
<1>1. F = {r \in S : Rank(S, r) < n + 1} /\ P = {r \in S : Rank(S, r) < n} /\ F \in SUBSET S
  BY FirstRowsAre, PageOfFound
<1> HIDE DEF F, P
<1>2. /\ IsFiniteSet(S) /\ IsFiniteSet(F) /\ Cardinality(F) <= Cardinality(S)
      /\ Cardinality(F) \in Nat /\ Cardinality(S) \in Nat
  BY <1>1, FS_Subset, FS_CardinalityType DEF Ordered
<1>3. \A r \in S : Rank(S, r) \in 0..(Cardinality(S) - 1)
  BY RankBelow
<1>4. ASSUME Cardinality(F) <= n PROVE P = S
  <2> SUFFICES ASSUME NEW r \in S, ~(Rank(S, r) < n) PROVE FALSE
    BY <1>1
  <2>1. Cardinality(S) >= n + 1 /\ 0..n \subseteq 0..(Cardinality(S) - 1)
    BY <1>2, <1>3
  <2> DEFINE rank == [s \in F |-> Rank(S, s)]
  <2>2. \A s \in F : Rank(S, s) \in 0..n
    BY <1>1, <1>3
  <2>3. \A k \in 0..n : \E s \in F : Rank(S, s) = k
    <3> TAKE k \in 0..n
    <3>1. PICK s \in S : Rank(S, s) = k
      BY <2>1, EveryRank
    <3> QED
      BY <1>1, <3>1
  <2>4. rank \in Surjection(F, 0..n)
    BY <2>2, <2>3 DEF Surjection
  <2>5. Cardinality(0..n) <= Cardinality(F)
    BY <1>2, <2>4, FS_Surjection
  <2>6. Cardinality(0..n) = n + 1
    BY FS_Interval
  <2> QED
    BY <1>2, <1>4, <2>5, <2>6
<1>5. ASSUME Cardinality(F) > n
      PROVE  last \in P /\ P = {r \in S : r = last \/ Before(r, last)}
  <2>1. n - 1 \in 0..(Cardinality(S) - 1)
    BY <1>2, <1>5
  <2>2. PICK top \in S : Rank(S, top) = n - 1
    BY <2>1, EveryRank
  <2>3. top \in P
    BY <1>1, <2>2
  <2>4. \A s \in P \ {top} : Before(s, top)
    <3> SUFFICES ASSUME NEW s \in P, s # top, Before(top, s) PROVE FALSE
      BY <1>1, <2>3 DEF Ordered
    <3>1. Rank(S, top) < Rank(S, s)
      BY <1>1, RankGrows
    <3> QED
      BY <1>1, <1>3, <2>2, <3>1
  <2>5. last \in P /\ \A s \in P \ {last} : Before(s, last)
    BY <2>3, <2>4 DEF LastRow
  <2>6. ASSUME NEW r \in S, Before(r, last) PROVE r \in P
    <3>1. last \in S /\ Rank(S, last) < n
      BY <1>1, <2>5
    <3>2. Rank(S, r) < Rank(S, last)
      BY <2>6, <3>1, RankGrows
    <3> QED
      BY <1>1, <1>3, <3>1, <3>2
  <2> HIDE DEF last
  <2> QED
    BY <1>1, <2>5, <2>6
<1>6. P \subseteq S
  BY <1>1
<1> QED
  BY <1>2, <1>4, <1>5, <1>6 DEF F, P

-----------------------------------------------------------------------------
\* The inductive invariant.

Row == TransferId \X (0..MaxHeight) \X Hash

\* The table: finitely many rows, all of stored blocks.
TableInv ==
    /\ Heights \subseteq 0..MaxHeight
    /\ IsFiniteSet(rows)
    /\ \A r \in rows :
          /\ r \in Row /\ r[1] \in Transfers[r[3]]
          /\ BlockOf(r) \in Heights /\ r[3] = segment[BlockOf(r)]

Behind(r, text) == Beyond(r, Decode(text))

\* While pages are to come: the cursor is a position at or below which nothing
\* was returned yet, and what is still to be returned is what was there at
\* first.  Blocks that are committed meanwhile lie above the cursor, or above
\* the block of a rollback.
CursorInv ==
    /\ cursor \in (0..MaxHeight) \X Nat
    /\ floor \in Heights \/ (floor = MaxHeight /\ cursor[1] \in Heights)
    /\ \A r \in seen \cup page : ~Behind(r, cursor)
    /\ \A r \in Row :
          BlockOf(r) <= floor /\ Behind(r, cursor) =>
              (r \in rows /\ Matches(r, query) <=> r \in first)

ClientInv ==
    /\ floor \in 0..MaxHeight
    /\ scan \in {"idle", "paging", "done"}
    /\ scan = "paging" <=> cursor # None
    /\ seen \cup page \cup first \subseteq Row
    /\ scan # "idle" => Accepted(query)
    /\ PagesDescend
    /\ ScanExact
    /\ cursor # None => CursorInv

ReaderInv == TableInv /\ ClientInv

-----------------------------------------------------------------------------
LEMMA RowTypes ==
    ASSUME NEW r \in Row
    PROVE  BlockOf(r) \in 0..MaxHeight /\ BlockOf(r) \in Nat /\ LogOf(r) \in Nat /\ r[3] \in Hash
  BY LogIndexAssumption, HeightAssumption DEF Row, BlockOf, LogOf

\* The int64 of a stored block number is the number.
LEMMA BehindIs ==
    ASSUME NEW r \in Row, NEW m \in 0..MaxHeight, NEW l \in Nat
    PROVE  Behind(r, <<m, l>>) <=> BlockOf(r) < m \/ (BlockOf(r) = m /\ LogOf(r) < l)
  BY BigintAssumption, HeightAssumption DEF Behind, Beyond, Decode, ToInt64

\* Two rows of the table differ in block or log index.
LEMMA TableOrdered ==
    ASSUME TableInv, NEW S \in SUBSET rows
    PROVE  Ordered(S)
<1>1. IsFiniteSet(S)
  BY FS_Subset DEF TableInv
<1>2. \A r \in S : r \in Row /\ BlockOf(r) \in Nat /\ LogOf(r) \in Nat
  BY RowTypes DEF TableInv
<1>3. ASSUME NEW r \in S, NEW s \in S, r # s
      PROVE  Before(r, s) \/ Before(s, r)
  <2>1. CASE BlockOf(r) # BlockOf(s)
    BY <1>2, <2>1 DEF Before
  <2>2. CASE BlockOf(r) = BlockOf(s)
    <3>1. r[3] = s[3] /\ r[3] \in Hash /\ r[1] \in Transfers[r[3]] /\ s[1] \in Transfers[r[3]]
      BY <1>2, <2>2, RowTypes DEF TableInv
    <3>2. r[1] # s[1]
      BY <1>2, <1>3, <2>2, <3>1 DEF Row, BlockOf
    <3>3. LogOf(r) # LogOf(s)
      BY <3>1, <3>2, LogIndexAssumption DEF LogOf
    <3> QED
      BY <1>2, <2>2, <3>3 DEF Before
  <2> QED
    BY <2>1, <2>2
<1> QED
  BY <1>1, <1>2, <1>3 DEF Ordered

\* What the rows of a query behind a cursor are.
Wanted(q, after) == {r \in rows : Matches(r, q) /\ (after # None => Beyond(r, Decode(after)))}

\* One page: all that is wanted, or its beginning and a cursor to its last row.
LEMMA GetPageGives ==
    ASSUME TableInv, NEW q, Accepted(q), NEW after, GetPage(q, after)
    PROVE  /\ page' \subseteq Wanted(q, after)
           /\ cursor' = None => page' = Wanted(q, after) /\ scan' = "done"
           /\ cursor' # None =>
                 /\ scan' = "paging"
                 /\ \E last \in Wanted(q, after) :
                       /\ cursor' = <<BlockOf(last), LogOf(last)>>
                       /\ page' = {r \in Wanted(q, after) : r = last \/ Before(r, last)}
<1> DEFINE S == Wanted(q, after)
           n == Limit(q)
           found == FirstRows(S, n + 1)
           cut == FirstRows(found, n)
<1>1. n \in Nat \ {0}
  BY LimitAssumption DEF Accepted, Limit
<1>2. S \in SUBSET rows
  BY DEF Wanted
<1>3. Ordered(S)
  BY <1>2, TableOrdered
<1>4. /\ page' = cut
      /\ cursor' = NextCursor(found, n)
      /\ scan' = IF cursor' = None THEN "done" ELSE "paging"
  BY DEF GetPage, Found, Wanted
<1> HIDE DEF S, n
<1>5. /\ cut \subseteq S
      /\ Cardinality(found) \in Nat
      /\ Cardinality(found) <= n => cut = S
      /\ Cardinality(found) > n =>
            /\ LastRow(cut) \in cut
            /\ cut = {r \in S : r = LastRow(cut) \/ Before(r, LastRow(cut))}
  BY <1>1, <1>3, Paging
<1>6. CASE Cardinality(found) > n
  <2> DEFINE last == LastRow(cut)
  <2>1. last \in S
    BY <1>5, <1>6
  <2>2. cursor' = <<BlockOf(last), LogOf(last)>>
    BY <1>4, <1>6 DEF NextCursor, Encode
  <2>3. BlockOf(last) \in Nat /\ LogOf(last) \in Nat
    BY <1>3, <2>1 DEF Ordered
  <2>4. cursor' # None
    BY <2>2, <2>3, CursorAssumption
  <2> QED
    BY <1>4, <1>5, <1>6, <2>1, <2>2, <2>4 DEF S
<1>7. CASE ~(Cardinality(found) > n)
  <2>1. cursor' = None
    BY <1>4, <1>7 DEF NextCursor
  <2>2. cut = S
    BY <1>1, <1>5, <1>7
  <2> QED
    BY <1>4, <1>5, <2>1, <2>2 DEF S
<1> QED
  BY <1>6, <1>7

-----------------------------------------------------------------------------
\* The cursor divides the rows as the order does.
LEMMA CutIs ==
    ASSUME TableInv, NEW S \in SUBSET rows, NEW last \in S
    PROVE  \A r \in S : (r = last \/ Before(r, last)) <=> ~Behind(r, <<BlockOf(last), LogOf(last)>>)
<1> TAKE r \in S
<1>1. Ordered(S) /\ r \in Row /\ last \in Row
  BY TableOrdered DEF TableInv
<1>2. /\ BlockOf(r) \in Nat /\ LogOf(r) \in Nat
      /\ BlockOf(last) \in 0..MaxHeight /\ BlockOf(last) \in Nat /\ LogOf(last) \in Nat
  BY <1>1, RowTypes
<1>3. Behind(r, <<BlockOf(last), LogOf(last)>>) <=>
          BlockOf(r) < BlockOf(last) \/ (BlockOf(r) = BlockOf(last) /\ LogOf(r) < LogOf(last))
  BY <1>1, <1>2, BehindIs
<1>4. r # last => Before(r, last) \/ Before(last, r)
  BY <1>1 DEF Ordered
<1> QED
  BY <1>2, <1>3, <1>4 DEF Before

\* A row behind the cursor comes after one that is not.
LEMMA BehindAfter ==
    ASSUME NEW c \in (0..MaxHeight) \X Nat, NEW r \in Row, NEW s \in Row,
           ~Behind(r, c), Behind(s, c)
    PROVE  Before(r, s)
<1>1. c[1] \in 0..MaxHeight /\ c[2] \in Nat /\ c = <<c[1], c[2]>> /\ MaxHeight \in Nat
  BY HeightAssumption
<1>2. /\ ~(BlockOf(r) < c[1] \/ (BlockOf(r) = c[1] /\ LogOf(r) < c[2]))
      /\ BlockOf(s) < c[1] \/ (BlockOf(s) = c[1] /\ LogOf(s) < c[2])
  BY <1>1, BehindIs
<1> QED
  BY <1>1, <1>2, RowTypes DEF Before

\* What is behind a row that is behind the cursor is behind the cursor.
LEMMA BehindFurther ==
    ASSUME NEW c \in (0..MaxHeight) \X Nat, NEW last \in Row, Behind(last, c),
           NEW r \in Row, Behind(r, <<BlockOf(last), LogOf(last)>>)
    PROVE  Behind(r, c)
<1>1. /\ c[1] \in 0..MaxHeight /\ c[2] \in Nat /\ c = <<c[1], c[2]>> /\ MaxHeight \in Nat
      /\ BlockOf(last) \in 0..MaxHeight /\ LogOf(last) \in Nat
  BY HeightAssumption, RowTypes
<1>2. /\ BlockOf(r) < BlockOf(last) \/ (BlockOf(r) = BlockOf(last) /\ LogOf(r) < LogOf(last))
      /\ BlockOf(last) < c[1] \/ (BlockOf(last) = c[1] /\ LogOf(last) < c[2])
  BY <1>1, BehindIs
<1>3. BlockOf(r) < c[1] \/ (BlockOf(r) = c[1] /\ LogOf(r) < c[2])
  BY <1>1, <1>2, RowTypes
<1> QED
  BY <1>1, <1>3, BehindIs

\* The rows of one block.
LEMMA RowsOfBlock ==
    ASSUME NEW b \in Hash
    PROVE  /\ IsFiniteSet(Rows(b))
           /\ \A r \in Rows(b) : /\ r \in Row /\ r[1] \in Transfers[b]
                                 /\ BlockOf(r) = Number[b] /\ r[3] = b
<1> DEFINE f == [t \in Transfers[b] |-> <<t, Number[b], b>>]
<1>1. f \in Surjection(Transfers[b], Rows(b))
  BY DEF Surjection, Rows
<1>2. IsFiniteSet(Transfers[b])
  BY LogIndexAssumption
<1> HIDE DEF f
<1>3. IsFiniteSet(Rows(b))
  BY <1>1, <1>2, FS_Surjection
<1>4. \A r \in Rows(b) : /\ r \in Row /\ r[1] \in Transfers[b]
                         /\ BlockOf(r) = Number[b] /\ r[3] = b
  BY NumberAssumption, TransfersAssumption DEF Rows, Row, BlockOf
<1> QED
  BY <1>3, <1>4

LEMMA InitReader == Init => ReaderInv
<1> SUFFICES ASSUME Init PROVE ReaderInv
  OBVIOUS
<1>1. ClientInv
  BY HeightAssumption DEF Init, ClientInv, PagesDescend, ScanExact
<1>2. CASE segment = [n \in {} |-> NoHash] /\ rows = {}
  <2>1. TableInv
    BY <1>2, FS_EmptySet DEF TableInv, Heights
  <2> QED
    BY <1>1, <2>1 DEF ReaderInv
<1>3. ASSUME NEW b \in Hash, segment = [n \in {Number[b]} |-> b], rows = Rows(b)
      PROVE  TableInv
  <2>1. Heights = {Number[b]} /\ segment[Number[b]] = b /\ Number[b] \in 0..MaxHeight
    BY <1>3, NumberAssumption DEF Heights
  <2> QED
    BY <1>3, <2>1, RowsOfBlock DEF TableInv
<1> QED
  BY <1>1, <1>2, <1>3 DEF Init, StoredInit, ReaderInv

-----------------------------------------------------------------------------
LEMMA FirstPageStep ==
    ASSUME ReaderInv, NEW q \in Queries, FirstPage(q)
    PROVE  ReaderInv'
<1> DEFINE S == Wanted(q, None)
<1>1. TableInv /\ Accepted(q) /\ GetPage(q, None)
  BY DEF ReaderInv, FirstPage
<1>2. /\ query' = q /\ seen' = {} /\ first' = S /\ floor' = MaxHeight
      /\ UNCHANGED <<segment, rows>>
  BY DEF FirstPage, GetPage, Wanted
<1>3. TableInv'
  BY <1>1, <1>2 DEF TableInv, Heights
<1>4. S \in SUBSET rows /\ \A r \in S : r \in Row /\ BlockOf(r) \in Heights
  BY <1>1 DEF Wanted, TableInv
<1>5. \A r \in Row : BlockOf(r) <= MaxHeight
  BY RowTypes, HeightAssumption
<1>6. \A r \in rows : r \in S <=> Matches(r, q)
  BY DEF Wanted
<1> HIDE DEF S
<1>7. CASE cursor' = None
  <2>1. page' = S /\ scan' = "done"
    BY <1>1, <1>7, GetPageGives DEF S
  <2>2. ScanExact'
    BY <1>2, <1>4, <1>7, <2>1 DEF ScanExact
  <2>3. PagesDescend'
    BY <1>2 DEF PagesDescend
  <2>4. ClientInv'
    BY <1>1, <1>2, <1>4, <1>7, <2>1, <2>2, <2>3, HeightAssumption DEF ClientInv
  <2> QED
    BY <1>3, <2>4 DEF ReaderInv
<1>8. CASE cursor' # None
  <2>1. scan' = "paging"
    BY <1>1, <1>8, GetPageGives
  <2>2. PICK last \in S : /\ cursor' = <<BlockOf(last), LogOf(last)>>
                          /\ page' = {r \in S : r = last \/ Before(r, last)}
    BY <1>1, <1>8, GetPageGives DEF S
  <2>3. page' = {r \in S : ~Behind(r, cursor')}
    BY <1>1, <1>4, <2>2, CutIs
  <2>4. last \in Row /\ BlockOf(last) \in 0..MaxHeight /\ LogOf(last) \in Nat
    BY <1>4, RowTypes
  <2>5. CursorInv'
    <3>1. (cursor \in (0..MaxHeight) \X Nat)'
      BY <2>2, <2>4
    <3>2. floor' = MaxHeight /\ cursor'[1] \in Heights'
      BY <1>2, <1>4, <2>2 DEF Heights
    <3>3. \A r \in seen' \cup page' : ~Behind(r, cursor')
      BY <1>2, <2>3
    <3>4. \A r \in Row : r \in rows' /\ Matches(r, query') <=> r \in first'
      BY <1>2, <1>4, <1>6
    <3> QED
      BY <3>1, <3>2, <3>3, <3>4 DEF CursorInv
  <2>6. ScanExact'
    <3>1. {r \in seen' \cup page' : BlockOf(r) <= floor'} =
          {r \in first' : BlockOf(r) <= floor' /\ ~Behind(r, cursor')}
      BY <1>2, <2>3
    <3> QED
      BY <1>8, <3>1 DEF ScanExact, Behind
  <2>7. PagesDescend'
    BY <1>2 DEF PagesDescend
  <2>8. seen' \cup page' \cup first' \subseteq Row
    BY <1>2, <1>4, <2>3
  <2>9. ClientInv'
    BY <1>1, <1>2, <1>8, <2>1, <2>5, <2>6, <2>7, <2>8, HeightAssumption DEF ClientInv
  <2> QED
    BY <1>3, <2>9 DEF ReaderInv
<1> QED
  BY <1>7, <1>8

LEMMA NextPageStep ==
    ASSUME ReaderInv, NextPage
    PROVE  ReaderInv'
<1> DEFINE S == Wanted(query, cursor)
           old == seen \cup page
<1>1. /\ TableInv /\ ClientInv /\ scan = "paging" /\ GetPage(query, cursor)
      /\ seen' = old /\ UNCHANGED <<query, first, floor, segment, rows>>
  BY DEF ReaderInv, NextPage, GetPage
<1>2. /\ cursor # None /\ CursorInv /\ Accepted(query)
      /\ cursor \in (0..MaxHeight) \X Nat
  BY <1>1 DEF ClientInv, CursorInv
<1>3. TableInv'
  BY <1>1 DEF TableInv, Heights
<1>4. old \subseteq Row /\ first \subseteq Row /\ floor \in 0..MaxHeight
  BY <1>1 DEF ClientInv
<1>5. S = {r \in rows : Matches(r, query) /\ Behind(r, cursor)}
  BY <1>2 DEF Wanted, Behind
<1>6. \A r \in S : r \in Row /\ BlockOf(r) \in Heights
  BY <1>1, <1>5 DEF TableInv
<1>7. \A r \in old : ~Behind(r, cursor)
  BY <1>2 DEF CursorInv
<1>8. {r \in old : BlockOf(r) <= floor} =
      {r \in first : BlockOf(r) <= floor /\ ~Behind(r, cursor)}
  BY <1>1, <1>2 DEF ClientInv, ScanExact, Behind
<1>9. \A r \in Row : BlockOf(r) <= floor /\ Behind(r, cursor) => (r \in S <=> r \in first)
  BY <1>2, <1>5 DEF CursorInv
<1> HIDE DEF S
<1>10. page' \subseteq S
  BY <1>1, <1>2, GetPageGives DEF S
<1> HIDE DEF old
<1>11. PagesDescend'
  <2> SUFFICES ASSUME NEW r \in old, NEW s \in S PROVE Before(r, s)
    BY <1>1, <1>10 DEF PagesDescend
  <2>1. Behind(s, cursor) /\ ~Behind(r, cursor) /\ r \in Row /\ s \in Row
    BY <1>4, <1>5, <1>6, <1>7
  <2> QED
    BY <1>2, <2>1, BehindAfter
<1>12. seen' \cup page' \cup first' \subseteq Row
  BY <1>1, <1>4, <1>6, <1>10
<1>13. CASE cursor' = None
  <2>1. page' = S /\ scan' = "done"
    BY <1>1, <1>2, <1>13, GetPageGives DEF S
  <2>2. {r \in old \cup S : BlockOf(r) <= floor} = {r \in first : BlockOf(r) <= floor}
    BY <1>4, <1>5, <1>6, <1>8, <1>9
  <2>3. ScanExact'
    BY <1>1, <1>13, <2>1, <2>2 DEF ScanExact
  <2>4. ClientInv'
    BY <1>1, <1>2, <1>4, <1>11, <1>12, <1>13, <2>1, <2>3 DEF ClientInv
  <2> QED
    BY <1>3, <2>4 DEF ReaderInv
<1>14. CASE cursor' # None
  <2>1. scan' = "paging"
    BY <1>1, <1>2, <1>14, GetPageGives
  <2>2. PICK last \in S : /\ cursor' = <<BlockOf(last), LogOf(last)>>
                          /\ page' = {r \in S : r = last \/ Before(r, last)}
    BY <1>1, <1>2, <1>14, GetPageGives DEF S
  <2>3. page' = {r \in S : ~Behind(r, cursor')}
    <3>1. S \in SUBSET rows
      BY <1>5
    <3> QED
      BY <1>1, <2>2, <3>1, CutIs
  <2>4. /\ last \in Row /\ Behind(last, cursor) /\ BlockOf(last) \in Heights
        /\ BlockOf(last) \in 0..MaxHeight /\ LogOf(last) \in Nat
    BY <1>5, <1>6, RowTypes
  <2>5. \A r \in Row : Behind(r, cursor') => Behind(r, cursor)
    BY <1>2, <2>2, <2>4, BehindFurther
  <2>6. CursorInv'
    <3>1. (cursor \in (0..MaxHeight) \X Nat)'
      BY <2>2, <2>4
    <3>2. floor' \in Heights' \/ (floor' = MaxHeight /\ cursor'[1] \in Heights')
      BY <1>1, <1>2, <2>2, <2>4 DEF CursorInv, Heights
    <3>3. \A r \in seen' \cup page' : ~Behind(r, cursor')
      BY <1>1, <1>4, <1>7, <2>3, <2>5
    <3>4. \A r \in Row : BlockOf(r) <= floor /\ Behind(r, cursor') =>
                             (r \in rows /\ Matches(r, query) <=> r \in first)
      BY <1>2, <2>5 DEF CursorInv
    <3>5. \A r \in Row : BlockOf(r) <= floor' /\ Behind(r, cursor') =>
                             (r \in rows' /\ Matches(r, query') <=> r \in first')
      BY <1>1, <3>4
    <3> QED
      BY <3>1, <3>2, <3>3, <3>5 DEF CursorInv
  <2>7. {r \in old \cup page' : BlockOf(r) <= floor} =
        {r \in first : BlockOf(r) <= floor /\ ~Behind(r, cursor')}
    BY <1>4, <1>5, <1>6, <1>8, <1>9, <2>3, <2>5
  <2>8. ScanExact'
    BY <1>1, <1>14, <2>7 DEF ScanExact, Behind
  <2>9. ClientInv'
    BY <1>1, <1>2, <1>4, <1>11, <1>12, <1>14, <2>1, <2>6, <2>8 DEF ClientInv
  <2> QED
    BY <1>3, <2>9 DEF ReaderInv
<1> QED
  BY <1>13, <1>14

LEMMA ForgetStep ==
    ASSUME ReaderInv, Forget
    PROVE  ReaderInv'
<1>1. TableInv'
  BY DEF ReaderInv, TableInv, Heights, Forget
<1>2. ClientInv'
  BY DEF ReaderInv, ClientInv, Forget, PagesDescend, ScanExact
<1> QED
  BY <1>1, <1>2 DEF ReaderInv

\* A new block lies above the block of the cursor, or above the floor.
LEMMA CommitStep ==
    ASSUME ReaderInv, Commit
    PROVE  ReaderInv'
<1>1. TableInv /\ ClientInv /\ UNCHANGED clientVars
  BY DEF ReaderInv, Commit
<1>2. UNCHANGED <<scan, query, cursor, seen, page, first, floor>>
  BY <1>1 DEF clientVars
<1>3. PagesDescend' /\ ScanExact'
  BY <1>1, <1>2 DEF ClientInv, PagesDescend, ScanExact
<1>4. PICK b \in Hash : Begin(b) \/ Grow(b)
  BY DEF Commit
<1>5. /\ Number[b] \in 0..MaxHeight /\ MaxHeight \in Nat
      /\ segment' = Extend(b)
      /\ Heights' = Heights \cup {Number[b]}
      /\ segment'[Number[b]] = b
      /\ \A n \in Heights : n # Number[b] => segment'[n] = segment[n]
  BY <1>4, NumberAssumption, HeightAssumption DEF Begin, Grow, Extend, Heights
<1>6. Heights \subseteq 0..MaxHeight
  BY <1>1 DEF TableInv
<1>7. \A n \in Heights : n < Number[b]
  BY <1>4, <1>5, <1>6 DEF Begin, Grow, IsTip
<1>8. rows' = rows \cup Rows(b)
  <2>1. CASE Begin(b)
    BY <1>1, <2>1 DEF Begin, TableInv
  <2>2. CASE Grow(b)
    BY <2>2 DEF Grow
  <2> QED
    BY <1>4, <2>1, <2>2
<1>9. TableInv'
  <2>1. IsFiniteSet(rows')
    BY <1>1, <1>8, RowsOfBlock, FS_Union DEF TableInv
  <2>2. ASSUME NEW r \in rows'
        PROVE  /\ r \in Row /\ r[1] \in Transfers[r[3]]
               /\ BlockOf(r) \in Heights' /\ r[3] = segment'[BlockOf(r)]
    <3>1. CASE r \in Rows(b)
      BY <1>5, <3>1, RowsOfBlock
    <3>2. CASE r \in rows
      <4>1. /\ r \in Row /\ r[1] \in Transfers[r[3]]
            /\ BlockOf(r) \in Heights /\ r[3] = segment[BlockOf(r)]
        BY <1>1, <3>2 DEF TableInv
      <4>2. BlockOf(r) # Number[b]
        BY <1>5, <1>6, <1>7, <4>1
      <4> QED
        BY <1>5, <4>1, <4>2
    <3> QED
      BY <1>8, <2>2, <3>1, <3>2
  <2> QED
    BY <1>5, <1>6, <2>1, <2>2 DEF TableInv
<1>10. ASSUME cursor # None PROVE CursorInv'
  <2>1. CursorInv
    BY <1>1, <1>10 DEF ClientInv
  <2>2. floor' \in Heights' \/ (floor' = MaxHeight /\ cursor'[1] \in Heights')
    BY <1>2, <1>5, <2>1 DEF CursorInv
  <2>3. ASSUME NEW r \in Row, BlockOf(r) <= floor, Behind(r, cursor) PROVE r \notin Rows(b)
    <3> SUFFICES ASSUME BlockOf(r) = Number[b] PROVE FALSE
      BY RowsOfBlock
    <3>1. cursor[1] \in 0..MaxHeight /\ cursor[2] \in Nat /\ cursor = <<cursor[1], cursor[2]>>
      BY <2>1 DEF CursorInv
    <3>2. BlockOf(r) <= cursor[1]
      BY <1>5, <2>3, <3>1, BehindIs
    <3>3. floor \in Nat /\ Number[b] \in Nat /\ cursor[1] \in Nat
      BY <1>1, <1>5, <3>1 DEF ClientInv
    <3>4. CASE floor \in Heights
      <4>1. floor < Number[b]
        BY <1>7, <3>4
      <4> QED
        BY <2>3, <3>3, <4>1
    <3>5. CASE cursor[1] \in Heights
      <4>1. cursor[1] < Number[b]
        BY <1>7, <3>5
      <4> QED
        BY <3>2, <3>3, <4>1
    <3> QED
      BY <2>1, <3>4, <3>5 DEF CursorInv
  <2>4. \A r \in Row : BlockOf(r) <= floor /\ Behind(r, cursor) =>
                           (r \in rows' /\ Matches(r, query) <=> r \in first)
    BY <1>8, <2>1, <2>3 DEF CursorInv
  <2> QED
    BY <1>2, <2>1, <2>2, <2>4 DEF CursorInv
<1>11. ClientInv'
  BY <1>1, <1>2, <1>3, <1>10 DEF ClientInv
<1> QED
  BY <1>9, <1>11 DEF ReaderInv

\* A rollback lowers the floor to a block that stays.
LEMMA RollbackStep ==
    ASSUME ReaderInv, Rollback
    PROVE  ReaderInv'
<1>1. TableInv /\ ClientInv /\ UNCHANGED <<scan, query, cursor, seen, page, first>>
  BY DEF ReaderInv, Rollback
<1>2. PICK k \in 0..MaxHeight : GiveUpTo(k) /\ floor' = IF k < floor THEN k ELSE floor
  BY DEF Rollback
<1>3. /\ k \in Heights /\ Heights' = {m \in Heights : m <= k}
      /\ \A n \in Heights' : segment'[n] = segment[n]
      /\ rows' = {r \in rows : BlockOf(r) <= k}
  BY <1>2 DEF GiveUpTo, Heights, BlockOf
<1>4. Heights \subseteq 0..MaxHeight /\ floor \in 0..MaxHeight /\ MaxHeight \in Nat
  BY <1>1, HeightAssumption DEF TableInv, ClientInv
<1>5. k < MaxHeight
  BY <1>2, <1>4 DEF GiveUpTo
<1>6. floor' \in 0..MaxHeight /\ floor' <= floor /\ floor' <= k
  BY <1>2, <1>4
<1>7. TableInv'
  <2>1. IsFiniteSet(rows')
    BY <1>1, <1>3, FS_Subset DEF TableInv
  <2>2. Heights' \subseteq 0..MaxHeight
    BY <1>3, <1>4
  <2>3. \A r \in rows' : /\ r \in Row /\ r[1] \in Transfers[r[3]]
                         /\ BlockOf(r) \in Heights' /\ r[3] = segment'[BlockOf(r)]
    BY <1>1, <1>3 DEF TableInv
  <2> QED
    BY <2>1, <2>2, <2>3 DEF TableInv
<1>8. \A r \in Row : BlockOf(r) <= floor' => BlockOf(r) <= floor /\ BlockOf(r) <= k
  BY <1>2, <1>4, <1>6, RowTypes
<1>9. seen \cup page \cup first \subseteq Row
  BY <1>1 DEF ClientInv
<1>10. ScanExact'
  BY <1>1, <1>8, <1>9 DEF ClientInv, ScanExact
<1>11. PagesDescend'
  BY <1>1 DEF ClientInv, PagesDescend
<1>12. ASSUME cursor # None PROVE CursorInv'
  <2>1. CursorInv
    BY <1>1, <1>12 DEF ClientInv
  <2>2. floor' \in Heights'
    BY <1>2, <1>3, <1>4, <1>5, <2>1 DEF CursorInv
  <2>3. \A r \in Row : BlockOf(r) <= floor' /\ Behind(r, cursor) =>
                           (r \in rows' /\ Matches(r, query) <=> r \in first)
    BY <1>3, <1>8, <2>1 DEF CursorInv
  <2> QED
    BY <1>1, <2>1, <2>2, <2>3 DEF CursorInv
<1>13. ClientInv'
  BY <1>1, <1>6, <1>10, <1>11, <1>12 DEF ClientInv
<1> QED
  BY <1>7, <1>13 DEF ReaderInv

LEMMA NextReader == ReaderInv /\ [Next]_vars => ReaderInv'
<1> SUFFICES ASSUME ReaderInv, [Next]_vars PROVE ReaderInv'
  OBVIOUS
<1>1. ASSUME NEW q \in Queries, FirstPage(q) PROVE ReaderInv'
  BY <1>1, FirstPageStep
<1>2. CASE NextPage
  BY <1>2, NextPageStep
<1>3. CASE Forget
  BY <1>3, ForgetStep
<1>4. CASE Commit
  BY <1>4, CommitStep
<1>5. CASE Rollback
  BY <1>5, RollbackStep
<1>6. CASE UNCHANGED vars
  BY <1>6 DEF vars, clientVars, ReaderInv, TableInv, Heights, ClientInv, CursorInv,
              PagesDescend, ScanExact
<1> QED
  BY <1>1, <1>2, <1>3, <1>4, <1>5, <1>6 DEF Next

LEMMA ReaderAlways == Spec => []ReaderInv
  BY InitReader, NextReader, PTL DEF Spec

-----------------------------------------------------------------------------
\* ListTransfers with a cursor never shows a position twice: whatever the
\* indexer commits or rolls back between two pages, a page lies entirely after
\* all the earlier ones in the order of the query, for every table, every
\* filter and every page size.
THEOREM PagesTheorem == Spec => []PagesDescend
<1>1. ReaderInv => PagesDescend
  BY DEF ReaderInv, ClientInv
<1> QED
  BY <1>1, ReaderAlways, PTL

\* A client that follows nextCursor to its end has read exactly the answer of
\* the moment it began, as far as no block of it was rolled back; before the
\* end, exactly the part of it up to the cursor.
THEOREM ScanTheorem == Spec => []ScanExact
<1>1. ReaderInv => ScanExact
  BY DEF ReaderInv, ClientInv
<1> QED
  BY <1>1, ReaderAlways, PTL
=============================================================================

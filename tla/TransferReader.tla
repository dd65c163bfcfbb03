--------------------------- MODULE TransferReader ---------------------------
(***************************************************************************)
(* GET /transfers, page by page: PostgresTransferReader.ListTransfers       *)
(* (internal/store/postgres_transfer_reader.go), the cursor of              *)
(* internal/api/transfer_cursor.go, and a client that follows nextCursor     *)
(* while the indexer commits and rolls back blocks between two pages.  The   *)
(* table it reads is the one StoredChain describes.  A page is one SELECT    *)
(* and sees one committed state; the reader keeps no state between pages,    *)
(* so one client stands for all.                                             *)
(***************************************************************************)
EXTENDS StoredChain, FiniteSets

CONSTANTS
    LogIndex,       \* log_index, the second half of a transfer's identity
    Token,          \* token_address of a transfer, as spelled in the table
    Parties,        \* from_address and to_address of a transfer
    Lower,          \* LOWER(address)
    None,           \* a query parameter that is absent
    Queries,        \* queries a client may make
    DefaultLimit,   \* 100
    MaxLimit,       \* 1000
    Int64Limit      \* 2^63, the first block number that int64 cannot hold

ASSUME LogIndexAssumption ==
    /\ LogIndex \in [TransferId -> Nat]
    /\ \A b \in Hash : IsFiniteSet(Transfers[b])
    /\ \A b \in Hash : \A t, u \in Transfers[b] : LogIndex[t] = LogIndex[u] => t = u

ASSUME LimitAssumption ==
    /\ DefaultLimit \in Nat /\ MaxLimit \in Nat
    /\ 0 < DefaultLimit /\ DefaultLimit <= MaxLimit

ASSUME BigintAssumption == Int64Limit \in Nat /\ MaxHeight < Int64Limit

\* A nil cursor is not the text of one.
ASSUME CursorAssumption == None \notin Nat \X Nat

VARIABLES
    scan,     \* "idle", "paging" or "done"
    query,    \* the query of this scan
    cursor,   \* nextCursor of the last page, encoded
    seen,     \* the rows of the earlier pages
    page,     \* the rows of the last page
    first,    \* the matching rows at the moment of the first page
    floor     \* the lowest block the store was rolled back to since then

clientVars == <<scan, query, cursor, seen, page, first, floor>>
vars == <<segment, rows, clientVars>>

\* A row of the table is <<identity, block_number, block_hash>>.
BlockOf(r) == r[2]
LogOf(r) == LogIndex[r[1]]

\* ORDER BY block_number DESC, log_index DESC
Before(r, s) ==
    \/ BlockOf(r) > BlockOf(s)
    \/ BlockOf(r) = BlockOf(s) /\ LogOf(r) > LogOf(s)

-----------------------------------------------------------------------------
\* The reader.

\* The uint64 of the query is bound as int64(n).
ToInt64(n) == IF n < Int64Limit THEN n ELSE n - 2 * Int64Limit

\* Mutant of Matches: a party is compared as it is spelled.
MatchesSpelling(r, q) ==
    /\ q.BlockNumber # None => BlockOf(r) = ToInt64(q.BlockNumber)
    /\ q.Token # None => Lower[Token[r[1]]] = Lower[q.Token]
    /\ q.Address # None => q.Address \in Parties[r[1]]

Matches(r, q) ==
    /\ q.BlockNumber # None => BlockOf(r) = ToInt64(q.BlockNumber)
    /\ q.Token # None => Lower[Token[r[1]]] = Lower[q.Token]
    /\ q.Address # None => \E a \in Parties[r[1]] : Lower[a] = Lower[q.Address]

\* Mutant of Beyond: the whole block of the cursor comes again.
BeyondOrSameBlock(r, c) == BlockOf(r) <= ToInt64(c.BlockNumber)

\* Mutant of Beyond: the condition includes the cursor's own row.
BeyondOrAt(r, c) ==
    \/ BlockOf(r) < ToInt64(c.BlockNumber)
    \/ BlockOf(r) = ToInt64(c.BlockNumber) /\ LogOf(r) <= c.LogIndex

Beyond(r, c) ==
    \/ BlockOf(r) < ToInt64(c.BlockNumber)
    \/ BlockOf(r) = ToInt64(c.BlockNumber) /\ LogOf(r) < c.LogIndex

\* parseTransferQuery answers 400 to other limits.  It also rewrites addresses in
\* their checksum spelling, which LOWER makes irrelevant.
Accepted(q) == q.Limit # None => q.Limit \in 1..MaxLimit

\* The default of the parser, and the clamps of ListTransfers itself.
Limit(q) ==
    IF q.Limit = None \/ q.Limit <= 0 THEN DefaultLimit
    ELSE IF q.Limit > MaxLimit THEN MaxLimit
    ELSE q.Limit

\* LIMIT n: the first n rows in the order of Before.
FirstRows(S, n) == {r \in S : Cardinality({s \in S : Before(s, r)}) < n}

LastRow(S) == CHOOSE r \in S : \A s \in S \ {r} : Before(s, r)

\* EncodeTransferCursor and DecodeTransferCursor: an opaque text that holds
\* both numbers, and back.
Encode(c) == <<c.BlockNumber, c.LogIndex>>
Decode(text) == [BlockNumber |-> text[1], LogIndex |-> text[2]]

\* Mutant of NextCursor: the cursor is taken from the row beyond the page.
CursorOfExtraRow(found, limit) ==
    IF Cardinality(found) > limit
    THEN Encode([BlockNumber |-> BlockOf(LastRow(found)), LogIndex |-> LogOf(LastRow(found))])
    ELSE None

\* One row more than the page holds was asked for; if it came there is a next
\* page, which begins behind the last row of this one.
NextCursor(found, limit) ==
    IF Cardinality(found) > limit
    THEN LET last == LastRow(FirstRows(found, limit))
         IN  Encode([BlockNumber |-> BlockOf(last), LogIndex |-> LogOf(last)])
    ELSE None

\* SELECT ... WHERE ... ORDER BY ... LIMIT limit + 1
Found(q, after) ==
    FirstRows({r \in rows : Matches(r, q) /\ (after # None => Beyond(r, Decode(after)))},
              Limit(q) + 1)

-----------------------------------------------------------------------------
\* The client.

GetPage(q, after) ==
    LET found == Found(q, after)
    IN  /\ page' = FirstRows(found, Limit(q))
        /\ cursor' = NextCursor(found, Limit(q))
        /\ scan' = IF cursor' = None THEN "done" ELSE "paging"
        /\ UNCHANGED <<segment, rows>>

FirstPage(q) ==
    /\ scan = "idle"
    /\ Accepted(q)
    /\ query' = q
    /\ seen' = {}
    /\ first' = {r \in rows : Matches(r, q)}
    /\ floor' = MaxHeight
    /\ GetPage(q, None)

NextPage ==
    /\ scan = "paging"
    /\ seen' = seen \cup page
    /\ GetPage(query, cursor)
    /\ UNCHANGED <<query, first, floor>>

\* The result has been used, or the client goes away after a page or an error.
Forget ==
    /\ scan # "idle"
    /\ scan' = "idle"
    /\ cursor' = None
    /\ seen' = {}
    /\ page' = {}
    /\ first' = {}
    /\ UNCHANGED <<segment, rows, query, floor>>

-----------------------------------------------------------------------------
\* The indexer, between two pages.

Commit ==
    /\ \E b \in Hash : Begin(b) \/ Grow(b)
    /\ UNCHANGED clientVars

Rollback ==
    \E k \in 0..MaxHeight :
        /\ GiveUpTo(k)
        /\ floor' = IF k < floor THEN k ELSE floor
        /\ UNCHANGED <<scan, query, cursor, seen, page, first>>

Init ==
    /\ StoredInit
    /\ scan = "idle"
    /\ query \in Queries
    /\ cursor = None
    /\ seen = {}
    /\ page = {}
    /\ first = {}
    /\ floor = MaxHeight

Next ==
    \/ \E q \in Queries : FirstPage(q)
    \/ NextPage
    \/ Forget
    \/ Commit
    \/ Rollback

\* The client asks for the next page, and an answer comes in the end.
Spec == Init /\ [][Next]_vars /\ WF_vars(NextPage)

-----------------------------------------------------------------------------
\* Properties.

TypeOK ==
    /\ scan \in {"idle", "paging", "done"}
    /\ query \in Queries
    /\ cursor = None \/ cursor \in (0..MaxHeight) \X {LogIndex[t] : t \in TransferId}
    /\ seen \cup page \subseteq TransferId \X (0..MaxHeight) \X Hash
    /\ Cardinality(page) <= Limit(query)
    /\ floor \in 0..MaxHeight

\* Pages follow each other in the order of the table, whatever is committed or
\* rolled back between them: nothing on a page is at or before the position of
\* anything on an earlier page, so no position is shown twice.
PagesDescend == \A r \in seen, s \in page : Before(r, s)

\* A scan is exact about everything that stays: of the rows at or below the
\* lowest block the store was rolled back to meanwhile, it has returned those
\* of its first moment up to the cursor, all of them and no other; in the end
\* all of them.  Without a rollback that is the whole result, however many
\* blocks were committed since; and a transfer is shown twice, at two heights,
\* only if the block it was first shown with was rolled back.
ScanExact ==
    scan # "idle" =>
        {r \in seen \cup page : BlockOf(r) <= floor} =
        {r \in first : /\ BlockOf(r) <= floor
                       /\ cursor # None => ~Beyond(r, Decode(cursor))}

\* Every scan comes to its last page although new blocks keep arriving.
ScanEnds == (scan = "paging") ~> (scan # "paging")
=============================================================================

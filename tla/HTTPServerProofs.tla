-------------------------- MODULE HTTPServerProofs --------------------------
(***************************************************************************)
(* The HTTP API, for any number of concurrent requests and any page size:   *)
(* what is logged is what the client got, no row is lost to missing          *)
(* metadata, a scrape shows every request that was over when it began, and   *)
(* the counters are exact whenever no request is under way.                  *)
(***************************************************************************)
EXTENDS HTTPServer, FiniteSetTheorems, TLAPS

-----------------------------------------------------------------------------
\* The inductive invariant.

Serving == {"handler", "list", "enrich", "snapshot"}
Leaving == {"observe", "duration", "errors", "return", "done"}

\* The response of a request at p: nothing is sent before "header", and what
\* the statusRecorder has is what the client has, unless the handler panicked
\* after the header went out.
Response(p, q) ==
    /\ q.header = 0 <=> ~q.wroteResponse
    /\ p \in Serving \cup {"new"} =>
          ~q.wroteResponse /\ ~q.panicked /\ q.status = 200 /\ q.documents = 0
    /\ p = "header" =>
          /\ ~q.wroteResponse /\ q.documents = 0 /\ q.reply # 0
          /\ q.panicked => q.reply = 500 /\ q.status = 500
    /\ p = "body" =>
          /\ q.documents = 0
          /\ IF q.panicked
             THEN q.wroteResponse /\ q.header = 500 /\ q.status = 500
             ELSE IF q.wroteResponse THEN q.status = q.header ELSE q.status = 200
    /\ p = "recover" => q.panicked /\ q.documents = 0
    /\ p \in Leaving =>
          /\ q.wroteResponse /\ q.documents <= 1
          /\ IF q.panicked
             THEN q.status = 500 /\ (q.header = 500 \/ q.documents = 0)
             ELSE q.status = q.header

\* The page of a request at p: the rows that are not yet looked at are left, and
\* 200 is answered only when none is.
Page(p, q) ==
    /\ p \in {"new", "handler", "list"} =>
          q.rows = 0 /\ q.enriched = 0 /\ q.bare = 0 /\ q.left = 0
    /\ p \in {"list", "enrich"} => q.route = "transfers"
    /\ p = "snapshot" => q.route = "metrics"
    /\ q.enriched + q.bare + q.left = q.rows
    /\ q.route = "transfers" =>
          /\ p = "header" /\ q.reply = 200 => q.left = 0
          /\ p = "body" => q.wroteResponse
          /\ q.header = 200 => q.left = 0

RequestInv == \A r \in Request : Response(pc[r], req[r]) /\ Page(pc[r], req[r])

\* The requests an addition of ObserveHTTPRequest has counted.
Counted == {r \in Request : pc[r] \in {"duration", "errors", "return", "done"}}
Timed == {r \in Request : pc[r] \in {"errors", "return", "done"}}
Judged == {r \in Request : pc[r] \in {"return", "done"}}

CounterInv ==
    /\ counters["httpRequests"] = Cardinality(Counted)
    /\ counters["httpDurations"] = Cardinality(Timed)
    /\ counters["httpErrors"] = Cardinality(Failed(Judged))
    /\ counters["tokenMetadataErrors"] = Cardinality(BareRows)

Arrived == {r \in Request : pc[r] # "new"}

\* A scrape that has loaded only some of the counters.
ScrapeInv ==
    \A r \in Request :
        /\ req[r].over \subseteq Done
        /\ Len(req[r].loaded) >= 1 =>
              /\ req[r].loaded[1] >= Cardinality(req[r].over)
              /\ req[r].loaded[1] < Cardinality(Arrived)
        /\ Len(req[r].loaded) >= 2 => req[r].loaded[2] >= Cardinality(Failed(req[r].over))
        /\ Len(req[r].loaded) >= 3 => req[r].loaded[3] >= Cardinality(req[r].over)

HTTPInv == TypeOK /\ RequestInv /\ CounterInv /\ ScrapeInv

-----------------------------------------------------------------------------
\* One request moves at a time.

Moves(r, p, q) ==
    /\ p \in Places /\ q \in RequestRecord
    /\ Response(p, q) /\ Page(p, q)
    /\ pc' = [pc EXCEPT ![r] = p]
    /\ req' = [req EXCEPT ![r] = q]

\* The others are as they were.
LEMMA MovesKeeps ==
    ASSUME TypeOK, RequestInv, NEW r \in Request, NEW p, NEW q, Moves(r, p, q)
    PROVE  /\ pc' \in [Request -> Places] /\ req' \in [Request -> RequestRecord]
           /\ RequestInv'
           /\ pc'[r] = p /\ req'[r] = q
           /\ \A o \in Request : o # r => pc'[o] = pc[o] /\ req'[o] = req[o]
<1>1. /\ pc' \in [Request -> Places] /\ req' \in [Request -> RequestRecord]
      /\ pc'[r] = p /\ req'[r] = q
      /\ \A o \in Request : o # r => pc'[o] = pc[o] /\ req'[o] = req[o]
  BY DEF Moves, TypeOK
<1>2. \A o \in Request : Response(pc'[o], req'[o]) /\ Page(pc'[o], req'[o])
  BY <1>1 DEF Moves, RequestInv
<1> QED
  BY <1>1, <1>2 DEF RequestInv

LEMMA ArriveMoves ==
    ASSUME TypeOK, RequestInv, NEW r \in Request,
           NEW route \in {"health", "transfers", "metrics", "unknown"}, NEW get \in BOOLEAN,
           Arrive(r, route, get)
    PROVE  Moves(r, "handler", [Fresh EXCEPT !.route = route, !.get = get, !.over = Done])
<1> DEFINE q == [Fresh EXCEPT !.route = route, !.get = get, !.over = Done]
<1>1. q \in RequestRecord
  <2>1. <<>> \in Seq(Nat)
    OBVIOUS
  <2>2. Done \in SUBSET Request
    BY DEF Done
  <2>3. 0 \in 0..MaxRows
    BY MaxRowsAssumption
  <2>4. Fresh \in RequestRecord
    BY <2>1, <2>3 DEF Fresh, RequestRecord, Statuses
  <2> QED
    BY <2>2, <2>4 DEF RequestRecord
<1>2. Response("handler", q) /\ Page("handler", q)
  BY DEF Response, Page, Fresh, Serving, Leaving
<1> QED
  BY <1>1, <1>2 DEF Moves, Arrive, Go, Places, Done

LEMMA DispatchMoves ==
    ASSUME TypeOK, RequestInv, NEW r \in Request, Dispatch(r)
    PROVE  \/ \E status \in Statuses :
                 /\ status = 200 => req[r].route # "transfers"
                 /\ Moves(r, "header", [req[r] EXCEPT !.reply = status])
           \/ \E p \in {"list", "snapshot"} : Moves(r, p, req[r])
<1> DEFINE q == req[r]
<1>1. q \in RequestRecord /\ Response("handler", q) /\ Page("handler", q) /\ pc[r] = "handler"
  BY DEF TypeOK, RequestInv, Dispatch
<1>2. ASSUME NEW status \in Statuses, status = 200 => q.route # "transfers", Answer(r, status)
      PROVE  Moves(r, "header", [q EXCEPT !.reply = status])
  <2> DEFINE a == [q EXCEPT !.reply = status]
  <2>1. a \in RequestRecord
    BY <1>1, <1>2 DEF RequestRecord
  <2>2. Response("header", a) /\ Page("header", a)
    BY <1>1, <1>2 DEF Response, Page, RequestRecord, Statuses, Serving, Leaving
  <2> QED
    BY <2>1, <2>2, <1>2 DEF Moves, Answer, Go, Places, TypeOK
<1>3. ASSUME UNCHANGED req, NEW p \in {"list", "snapshot"}, Go(r, p),
             p = "list" => q.route = "transfers", p = "snapshot" => q.route = "metrics"
      PROVE  Moves(r, p, q)
  <2>1. Response(p, q) /\ Page(p, q)
    BY <1>1, <1>3 DEF Response, Page, RequestRecord, Statuses, Serving, Leaving
  <2> QED
    BY <1>1, <1>3, <2>1 DEF Moves, Go, Places, TypeOK
<1> QED
  BY <1>2, <1>3 DEF Dispatch, StatusOf, Statuses

LEMMA SetReply ==
    ASSUME NEW q \in RequestRecord, NEW status \in Statuses
    PROVE  [q EXCEPT !.reply = status] \in RequestRecord
BY DEF RequestRecord

LEMMA SetHeader ==
    ASSUME NEW q \in RequestRecord, NEW status \in Statuses
    PROVE  LET w == [q EXCEPT !.status = status, !.wroteResponse = TRUE, !.header = status]
           IN  /\ w \in RequestRecord
               /\ w.status = status /\ w.wroteResponse = TRUE /\ w.header = status
               /\ w.panicked = q.panicked /\ w.route = q.route /\ w.documents = q.documents
               /\ w.rows = q.rows /\ w.enriched = q.enriched /\ w.bare = q.bare
               /\ w.left = q.left /\ w.over = q.over /\ w.loaded = q.loaded
BY DEF RequestRecord

LEMMA SetDocuments ==
    ASSUME NEW q \in RequestRecord, NEW n \in Nat
    PROVE  LET w == [q EXCEPT !.documents = n]
           IN  /\ w \in RequestRecord
               /\ w.status = q.status /\ w.wroteResponse = q.wroteResponse
               /\ w.header = q.header /\ w.documents = n
               /\ w.panicked = q.panicked /\ w.route = q.route
               /\ w.rows = q.rows /\ w.enriched = q.enriched /\ w.bare = q.bare
               /\ w.left = q.left /\ w.over = q.over /\ w.loaded = q.loaded
BY DEF RequestRecord

LEMMA ListMoves ==
    ASSUME TypeOK, RequestInv, NEW r \in Request, ListTransfers(r)
    PROVE  \/ \E n \in 0..MaxRows :
                 Moves(r, "enrich", [req[r] EXCEPT !.rows = n, !.left = n])
           \/ \E status \in Statuses : Moves(r, "header", [req[r] EXCEPT !.reply = status])
<1> DEFINE q == req[r]
<1>1. q \in RequestRecord /\ Response("list", q) /\ Page("list", q) /\ pc[r] = "list"
  BY DEF TypeOK, RequestInv, ListTransfers
<1>2. ASSUME NEW status \in Statuses \ {200}, Answer(r, status)
      PROVE  Moves(r, "header", [q EXCEPT !.reply = status])
  <2> DEFINE a == [q EXCEPT !.reply = status]
  <2>1. a \in RequestRecord
    BY <1>1, <1>2 DEF RequestRecord
  <2>2. Response("header", a) /\ Page("header", a)
    BY <1>1, <1>2 DEF Response, Page, RequestRecord, Statuses, Serving, Leaving
  <2> QED
    BY <2>1, <2>2, <1>2 DEF Moves, Answer, Go, Places, TypeOK
<1>3. ASSUME NEW n \in 0..MaxRows, Go(r, "enrich"),
             req' = [req EXCEPT ![r].rows = n, ![r].left = n]
      PROVE  Moves(r, "enrich", [q EXCEPT !.rows = n, !.left = n])
  <2> DEFINE a == [q EXCEPT !.rows = n, !.left = n]
  <2>1. a \in RequestRecord
    BY <1>1, <1>3 DEF RequestRecord
  <2>2. Response("enrich", a) /\ Page("enrich", a)
    BY <1>1, <1>3, MaxRowsAssumption DEF Response, Page, RequestRecord, Statuses, Serving, Leaving
  <2> QED
    BY <2>1, <2>2, <1>3 DEF Moves, Go, Places, TypeOK
<1>4. \A err \in {{}, {"not found"}, {"temporary"}} : StatusOf(err) \in Statuses \ {200}
  <2>1. ASSUME NEW err, "public" \notin err PROVE StatusOf(err) \in Statuses \ {200}
    BY <2>1 DEF StatusOf, Statuses
  <2>2. "public" \notin {} /\ "public" \notin {"not found"} /\ "public" \notin {"temporary"}
    OBVIOUS
  <2> QED
    BY <2>1, <2>2, Zenon
<1> QED
  BY <1>2, <1>3, <1>4 DEF ListTransfers

\* Looking at a row moves it from left to enriched or to bare.
LEMMA RowMoves ==
    ASSUME TypeOK, RequestInv, NEW r \in Request, EnrichRow(r) \/ BareRow(r)
    PROVE  /\ req[r].bare + 1 \in 0..MaxRows /\ req[r].left > 0
           /\ EnrichRow(r) =>
                 Moves(r, "enrich", [req[r] EXCEPT !.left = @ - 1, !.enriched = @ + 1])
           /\ BareRow(r) =>
                 Moves(r, "enrich", [req[r] EXCEPT !.left = @ - 1, !.bare = @ + 1])
<1> DEFINE q == req[r]
           e == [q EXCEPT !.left = @ - 1, !.enriched = @ + 1]
           b == [q EXCEPT !.left = @ - 1, !.bare = @ + 1]
<1>1. q \in RequestRecord /\ Response("enrich", q) /\ Page("enrich", q) /\ pc[r] = "enrich"
  BY DEF TypeOK, RequestInv, EnrichRow, BareRow
<1>2. q.left > 0 /\ q.left - 1 \in 0..MaxRows /\ q.bare + 1 \in 0..MaxRows
      /\ q.enriched + 1 \in 0..MaxRows
      /\ q.left \in Int /\ q.bare \in Int /\ q.enriched \in Int /\ q.rows \in Int
      /\ q.enriched + q.bare + q.left = q.rows
  <2>1. q.left > 0
    BY DEF EnrichRow, BareRow
  <2>2. q.left \in 0..MaxRows /\ q.bare \in 0..MaxRows /\ q.enriched \in 0..MaxRows
        /\ q.rows \in 0..MaxRows
    BY <1>1 DEF RequestRecord
  <2>3. q.enriched + q.bare + q.left = q.rows
    BY <1>1 DEF Page
  <2> HIDE DEF q
  <2> QED
    BY <2>1, <2>2, <2>3, MaxRowsAssumption
<1>3. e \in RequestRecord /\ b \in RequestRecord
  BY <1>1, <1>2 DEF RequestRecord
<1>4. Response("enrich", e) /\ Page("enrich", e)
  <2>1. e.left = q.left - 1 /\ e.enriched = q.enriched + 1
        /\ e.bare = q.bare /\ e.rows = q.rows
    BY <1>1 DEF RequestRecord
  <2>2. Response("enrich", e)
    BY <1>1 DEF Response, RequestRecord, Serving, Leaving
  <2>3. e.enriched + e.bare + e.left = e.rows
    <3> HIDE DEF e, q
    <3> QED
      BY <1>2, <2>1
  <2>4. e.route = "transfers" /\ e.header = 0
    BY <1>1 DEF Response, Page, RequestRecord, Serving
  <2> HIDE DEF e
  <2> QED
    BY <2>2, <2>3, <2>4 DEF Page
<1>5. Response("enrich", b) /\ Page("enrich", b)
  <2>1. b.left = q.left - 1 /\ b.enriched = q.enriched
        /\ b.bare = q.bare + 1 /\ b.rows = q.rows
    BY <1>1 DEF RequestRecord
  <2>2. Response("enrich", b)
    BY <1>1 DEF Response, RequestRecord, Serving, Leaving
  <2>3. b.enriched + b.bare + b.left = b.rows
    <3> HIDE DEF b, q
    <3> QED
      BY <1>2, <2>1
  <2>4. b.route = "transfers" /\ b.header = 0
    BY <1>1 DEF Response, Page, RequestRecord, Serving
  <2> HIDE DEF b
  <2> QED
    BY <2>2, <2>3, <2>4 DEF Page
<1>6. pc' = [pc EXCEPT ![r] = "enrich"]
  BY <1>1 DEF EnrichRow, BareRow, TypeOK
<1>7. EnrichRow(r) => Moves(r, "enrich", e)
  BY <1>3, <1>4, <1>6 DEF Moves, Places, EnrichRow, TypeOK
<1>8. BareRow(r) => Moves(r, "enrich", b)
  BY <1>3, <1>5, <1>6 DEF Moves, Places, BareRow, TypeOK
<1> QED
  BY <1>2, <1>7, <1>8

LEMMA PageMoves ==
    ASSUME TypeOK, RequestInv, NEW r \in Request, PageReady(r)
    PROVE  Moves(r, "header", [req[r] EXCEPT !.reply = 200])
<1> DEFINE q == req[r]
           a == [q EXCEPT !.reply = 200]
<1>1. q \in RequestRecord /\ Response("enrich", q) /\ Page("enrich", q) /\ q.left = 0
  BY DEF TypeOK, RequestInv, PageReady
<1>2. a \in RequestRecord
  <2>1. 200 \in Statuses
    BY DEF Statuses
  <2> HIDE DEF q
  <2> QED
    BY <1>1, <2>1, SetReply
<1>3. Response("header", a)
  BY <1>1 DEF Response, RequestRecord, Serving, Leaving
<1>4. Page("header", a)
  BY <1>1 DEF Page, RequestRecord
<1> QED
  BY <1>2, <1>3, <1>4 DEF Moves, PageReady, Answer, Go, Places, TypeOK

LEMMA LoadMoves ==
    ASSUME TypeOK, RequestInv, NEW r \in Request, LoadCounter(r)
    PROVE  Moves(r, "snapshot",
                 [req[r] EXCEPT !.loaded = Append(@, counters[Fields[Len(@) + 1]])])
<1> DEFINE q == req[r]
           v == counters[Fields[Len(q.loaded) + 1]]
           a == [q EXCEPT !.loaded = Append(@, counters[Fields[Len(@) + 1]])]
<1>1. q \in RequestRecord /\ Response("snapshot", q) /\ Page("snapshot", q)
      /\ pc[r] = "snapshot"
  BY DEF TypeOK, RequestInv, LoadCounter
<1>2. q.loaded \in Seq(Nat) /\ Len(q.loaded) < Len(Fields)
  BY <1>1 DEF RequestRecord, LoadCounter
<1>3. v \in Nat
  <2>1. Len(q.loaded) + 1 \in DOMAIN Fields
    BY <1>2 DEF Fields
  <2> QED
    BY <2>1 DEF TypeOK
<1>4. Append(q.loaded, v) \in Seq(Nat)
  BY <1>2, <1>3
<1>5. a \in RequestRecord
  BY <1>1, <1>4 DEF RequestRecord
<1>6. Response("snapshot", a)
  BY <1>1 DEF Response, RequestRecord, Serving, Leaving
<1>7. Page("snapshot", a)
  BY <1>1 DEF Page, RequestRecord
<1> QED
  BY <1>1, <1>5, <1>6, <1>7 DEF Moves, LoadCounter, Places, TypeOK

LEMMA SnapshotMoves ==
    ASSUME TypeOK, RequestInv, NEW r \in Request, SnapshotReady(r)
    PROVE  Moves(r, "body", req[r])
<1> DEFINE q == req[r]
<1>1. q \in RequestRecord /\ Response("snapshot", q) /\ Page("snapshot", q)
  BY DEF TypeOK, RequestInv, SnapshotReady
<1>2. Response("body", q) /\ Page("body", q)
  BY <1>1 DEF Response, Page, RequestRecord, Serving, Leaving
<1> QED
  BY <1>1, <1>2 DEF Moves, SnapshotReady, Go, Places, TypeOK

LEMMA HeaderMoves ==
    ASSUME TypeOK, RequestInv, NEW r \in Request, SendHeader(r)
    PROVE  Moves(r, "body", [req[r] EXCEPT !.status = req[r].reply, !.wroteResponse = TRUE,
                                           !.header = req[r].reply])
<1> DEFINE q == req[r]
           a == [q EXCEPT !.status = q.reply, !.wroteResponse = TRUE, !.header = q.reply]
<1>1. q \in RequestRecord /\ Response("header", q) /\ Page("header", q)
  BY DEF TypeOK, RequestInv, SendHeader
<1>2. ~q.wroteResponse /\ q.reply \in Statuses
  BY <1>1 DEF Response, RequestRecord
<1>3. a \in RequestRecord
  BY <1>1, <1>2 DEF RequestRecord
<1>4. Response("body", a)
  BY <1>1, <1>2 DEF Response, RequestRecord, Serving, Leaving, Statuses
<1>5. Page("body", a)
  BY <1>1, <1>2 DEF Page, RequestRecord
<1>6. WriteHeader(q, q.reply) = a
  BY <1>2 DEF WriteHeader
<1> QED
  BY <1>3, <1>4, <1>5, <1>6 DEF Moves, SendHeader, Go, Places, TypeOK

\* What the client has of the document is all it will get.
LEMMA BodyMoves ==
    ASSUME TypeOK, RequestInv, NEW r \in Request, SendBody(r)
    PROVE  \E q : /\ Moves(r, "observe", q)
                 /\ q.bare = req[r].bare /\ q.over = req[r].over /\ q.loaded = req[r].loaded
<1> DEFINE q == req[r]
           w == WriteHeader(q, 200)
<1>1. q \in RequestRecord /\ Response("body", q) /\ Page("body", q)
  BY DEF TypeOK, RequestInv, SendBody
<1>2. PICK delivered \in {0, 1} : req' = [req EXCEPT ![r] = Write(q, delivered)]
  BY DEF SendBody
<1> DEFINE a == Write(q, delivered)
<1>3. /\ w \in RequestRecord /\ w.documents = 0 /\ w.wroteResponse = TRUE /\ w.header # 0
      /\ w.panicked = q.panicked /\ w.route = q.route
      /\ w.rows = q.rows /\ w.enriched = q.enriched /\ w.bare = q.bare /\ w.left = q.left
      /\ w.over = q.over /\ w.loaded = q.loaded
      /\ IF q.panicked THEN w.status = 500 /\ w.header = 500 ELSE w.status = w.header
      /\ q.route = "transfers" => w.header = q.header
  <2>1. CASE q.wroteResponse
    <3>1. w = q
      BY <2>1 DEF WriteHeader
    <3> HIDE DEF w, q
    <3>2. q.documents = 0 /\ q.header # 0 /\ q.wroteResponse = TRUE
      BY <1>1, <2>1 DEF Response, RequestRecord
    <3>3. IF q.panicked THEN q.status = 500 /\ q.header = 500 ELSE q.status = q.header
      BY <1>1, <2>1 DEF Response
    <3> QED
      BY <1>1, <3>1, <3>2, <3>3
  <2>2. CASE ~q.wroteResponse
    <3> DEFINE ok == 200
    <3>1. w = [q EXCEPT !.status = ok, !.wroteResponse = TRUE, !.header = ok]
      BY <2>2 DEF WriteHeader
    <3>2. q.documents = 0 /\ ~q.panicked /\ q.route # "transfers"
      BY <1>1, <2>2 DEF Response, Page
    <3>3. ok \in Statuses /\ ok # 0
      BY DEF Statuses
    <3> HIDE DEF w, q, ok
    <3>4. /\ w \in RequestRecord
          /\ w.status = ok /\ w.wroteResponse = TRUE /\ w.header = ok
          /\ w.panicked = q.panicked /\ w.route = q.route /\ w.documents = q.documents
          /\ w.rows = q.rows /\ w.enriched = q.enriched /\ w.bare = q.bare
          /\ w.left = q.left /\ w.over = q.over /\ w.loaded = q.loaded
      BY <1>1, <3>1, <3>3, SetHeader
    <3> QED
      BY <3>2, <3>3, <3>4
  <2> QED
    BY <2>1, <2>2
<1>4. /\ a \in RequestRecord /\ a.documents = delivered /\ a.wroteResponse = TRUE
      /\ a.header = w.header /\ a.status = w.status
      /\ a.panicked = q.panicked /\ a.route = q.route
      /\ a.rows = q.rows /\ a.enriched = q.enriched /\ a.bare = q.bare /\ a.left = q.left
      /\ a.over = q.over /\ a.loaded = q.loaded
  <2> HIDE DEF w, q
  <2>1. a = [w EXCEPT !.documents = delivered]
    BY <1>3 DEF Write, w
  <2> HIDE DEF a
  <2> QED
    BY <1>3, <2>1, SetDocuments
<1> HIDE DEF a, w
<1>5. Response("observe", a)
  BY <1>3, <1>4 DEF Response, Serving, Leaving
<1>6. Page("observe", a)
  BY <1>1, <1>3, <1>4 DEF Page
<1>7. Moves(r, "observe", a)
  <2>1. req' = [req EXCEPT ![r] = a]
    BY <1>2 DEF a
  <2> QED
    BY <1>4, <1>5, <1>6, <2>1 DEF Moves, SendBody, Go, Places
<1> QED
  BY <1>4, <1>7

LEMMA PanicMoves ==
    ASSUME TypeOK, RequestInv, NEW r \in Request, Panic(r)
    PROVE  Moves(r, "recover", [req[r] EXCEPT !.panicked = TRUE])
<1> DEFINE q == req[r]
           a == [q EXCEPT !.panicked = TRUE]
<1>1. /\ q \in RequestRecord /\ Response(pc[r], q) /\ Page(pc[r], q)
      /\ pc[r] \in {"handler", "list", "enrich", "snapshot", "header", "body"}
  BY DEF TypeOK, RequestInv, Panic
<1>2. a \in RequestRecord
  BY <1>1 DEF RequestRecord
<1>3. q.documents = 0 /\ (q.header = 0 <=> ~q.wroteResponse)
  BY <1>1 DEF Response, Serving
<1>4. Response("recover", a)
  BY <1>1, <1>3 DEF Response, RequestRecord, Serving, Leaving
<1>5. Page("recover", a)
  BY <1>1 DEF Page, RequestRecord
<1> QED
  BY <1>2, <1>4, <1>5 DEF Moves, Panic, Go, Places, TypeOK

LEMMA RecoverMoves ==
    ASSUME TypeOK, RequestInv, NEW r \in Request, Recover(r)
    PROVE  Moves(r, IF req[r].wroteResponse THEN "observe" ELSE "header",
                 [req[r] EXCEPT !.status = 500, !.reply = 500])
<1> DEFINE q == req[r]
           failed == 500
           a == [q EXCEPT !.status = failed, !.reply = failed]
           p == IF q.wroteResponse THEN "observe" ELSE "header"
<1>1. /\ q \in RequestRecord /\ Response("recover", q) /\ Page("recover", q)
      /\ failed \in Statuses /\ failed # 0 /\ failed # 200
  BY DEF TypeOK, RequestInv, Recover, Statuses
<1>2. pc' = [pc EXCEPT ![r] = p] /\ req' = [req EXCEPT ![r] = a] /\ p \in Places
  <2>1. pc' = [pc EXCEPT ![r] = p]
    BY DEF Recover, Go
  <2>2. req' = [req EXCEPT ![r] = a]
    <3>1. req' = [req EXCEPT ![r].status = failed, ![r].reply = failed]
      BY DEF Recover
    <3> HIDE DEF failed
    <3> QED
      BY <3>1 DEF TypeOK
  <2>3. p \in Places
    BY DEF Places
  <2> QED
    BY <2>1, <2>2, <2>3
<1>3. /\ a \in RequestRecord /\ a.status = failed /\ a.reply = failed /\ a.header = q.header
      /\ a.wroteResponse = q.wroteResponse /\ a.panicked = q.panicked
      /\ a.documents = q.documents /\ a.route = q.route /\ a.rows = q.rows
      /\ a.enriched = q.enriched /\ a.bare = q.bare /\ a.left = q.left
  <2> HIDE DEF failed, q
  <2> QED
    BY <1>1 DEF RequestRecord
<1>4. q.panicked /\ q.documents = 0 /\ (q.header = 0 <=> ~q.wroteResponse)
  BY <1>1 DEF Response
<1>5. Response(p, a) /\ Page(p, a)
  <2>1. CASE q.wroteResponse
    <3>1. p = "observe"
      BY <2>1
    <3> HIDE DEF a, p
    <3> QED
      BY <1>1, <1>3, <1>4, <2>1, <3>1 DEF Response, Page, Serving, Leaving
  <2>2. CASE ~q.wroteResponse
    <3>1. p = "header"
      BY <2>2
    <3> HIDE DEF a, p
    <3> QED
      BY <1>1, <1>3, <1>4, <2>2, <3>1 DEF Response, Page, Serving, Leaving
  <2> QED
    BY <2>1, <2>2
<1> HIDE DEF a, p
<1>6. Moves(r, p, a)
  BY <1>2, <1>3, <1>5 DEF Moves
<1> QED
  BY <1>6 DEF a, p

\* ObserveHTTPRequest looks at the status only.
LEMMA CountMoves ==
    ASSUME TypeOK, RequestInv, NEW r \in Request,
           CountRequest(r) \/ CountDuration(r) \/ CountError(r)
    PROVE  /\ CountRequest(r) => Moves(r, "duration", req[r])
           /\ CountDuration(r) => Moves(r, "errors", req[r])
           /\ CountError(r) => Moves(r, "return", req[r])
<1> DEFINE q == req[r]
<1>1. /\ q \in RequestRecord /\ Response(pc[r], q) /\ Page(pc[r], q)
      /\ pc[r] \in {"observe", "duration", "errors"} /\ req' = [req EXCEPT ![r] = q]
  BY DEF TypeOK, RequestInv, CountRequest, CountDuration, CountError
<1>2. \A p \in {"duration", "errors", "return"} : Response(p, q) /\ Page(p, q) /\ p \in Places
  BY <1>1 DEF Response, Page, Serving, Leaving, Places
<1> QED
  BY <1>1, <1>2 DEF Moves, CountRequest, CountDuration, CountError, Go

\* No handler returns without having written.
LEMMA FinishMoves ==
    ASSUME TypeOK, RequestInv, NEW r \in Request, Finish(r)
    PROVE  Moves(r, "done", req[r])
<1> DEFINE q == req[r]
<1>1. q \in RequestRecord /\ Response("return", q) /\ Page("return", q)
  BY DEF TypeOK, RequestInv, Finish
<1>2. Response("done", q) /\ Page("done", q) /\ q.header # 0
  BY <1>1 DEF Response, Page, Serving, Leaving
<1>3. req' = [req EXCEPT ![r] = q]
  <2>1. [q EXCEPT !.header = q.header] = q
    BY <1>1 DEF RequestRecord
  <2>2. req' = [req EXCEPT ![r] = [q EXCEPT !.header = q.header]]
    BY <1>2 DEF Finish
  <2> HIDE DEF q
  <2> QED
    BY <2>1, <2>2
<1> QED
  BY <1>1, <1>2, <1>3 DEF Moves, Finish, Go, Places

-----------------------------------------------------------------------------
\* What is counted.

After == {"duration", "errors", "return", "done"}

LEMMA FiniteRequests ==
    ASSUME NEW S, S \subseteq Request
    PROVE  IsFiniteSet(S) /\ Cardinality(S) \in Nat
BY RequestAssumption, FS_Subset, FS_CardinalityType

LEMMA LargerSet ==
    ASSUME NEW S, NEW T, S \subseteq T, T \subseteq Request
    PROVE  Cardinality(S) <= Cardinality(T)
<1>1. IsFiniteSet(T)
  BY FiniteRequests
<1> QED
  BY <1>1, FS_Subset

LEMMA OneMore ==
    ASSUME NEW S, S \subseteq Request, NEW r \in Request, r \notin S
    PROVE  Cardinality(S \cup {r}) = Cardinality(S) + 1
<1>1. IsFiniteSet(S)
  BY FiniteRequests
<1> QED
  BY <1>1, FS_AddElement

LEMMA CounterNames ==
    {Fields[i] : i \in DOMAIN Fields} =
        {"httpRequests", "httpErrors", "httpDurations", "tokenMetadataErrors"}
<1>1. DOMAIN Fields = 1..4
  BY DEF Fields
<1>2. /\ Fields[1] = "httpRequests" /\ Fields[2] = "httpErrors"
      /\ Fields[3] = "httpDurations" /\ Fields[4] = "tokenMetadataErrors"
  BY DEF Fields
<1>3. \A i \in 1..4 : i = 1 \/ i = 2 \/ i = 3 \/ i = 4
  OBVIOUS
<1>4. 1 \in 1..4 /\ 2 \in 1..4 /\ 3 \in 1..4 /\ 4 \in 1..4
  OBVIOUS
<1> HIDE DEF Fields
<1> QED
  BY <1>1, <1>2, <1>3, <1>4

\* A request on its way to ObserveHTTPRequest changes nothing that is counted.
LEMMA QuietKeeps ==
    ASSUME TypeOK, RequestInv, CounterInv, NEW r \in Request, NEW p, NEW q, Moves(r, p, q),
           UNCHANGED counters, pc[r] \notin After, p \notin After, q.bare = req[r].bare
    PROVE  CounterInv'
<1>1. /\ pc'[r] = p /\ req'[r] = q
      /\ \A o \in Request : o # r => pc'[o] = pc[o] /\ req'[o] = req[o]
  BY MovesKeeps
<1>2. Counted' = Counted
  BY <1>1 DEF Counted, After
<1>3. Timed' = Timed
  BY <1>1 DEF Timed, After
<1>4. Failed(Judged)' = Failed(Judged)
  BY <1>1 DEF Failed, Judged, After
<1>5. BareRows' = BareRows
  <2>1. \A o \in Request : req'[o].bare = req[o].bare
    BY <1>1
  <2> QED
    BY <2>1 DEF BareRows
<1> QED
  BY <1>2, <1>3, <1>4, <1>5 DEF CounterInv

\* The three additions of ObserveHTTPRequest, and the return after them.
LEMMA AfterKeeps ==
    ASSUME TypeOK, RequestInv, CounterInv, NEW r \in Request,
           CountRequest(r) \/ CountDuration(r) \/ CountError(r) \/ Finish(r)
    PROVE  CounterInv'
<1>1. \/ CountRequest(r) /\ Moves(r, "duration", req[r])
      \/ CountDuration(r) /\ Moves(r, "errors", req[r])
      \/ CountError(r) /\ Moves(r, "return", req[r])
      \/ Finish(r) /\ Moves(r, "done", req[r])
  BY CountMoves, FinishMoves
<1>2. PICK p : Moves(r, p, req[r])
  BY <1>1
<1>3. /\ pc'[r] = p /\ req'[r] = req[r]
      /\ \A o \in Request : o # r => pc'[o] = pc[o] /\ req'[o] = req[o]
  BY <1>2, MovesKeeps
<1>4. \A o \in Request : req'[o] = req[o]
  BY <1>3
<1>5. BareRows' = BareRows
  BY <1>4 DEF BareRows
<1>6. \A f \in {"httpRequests", "httpErrors", "httpDurations", "tokenMetadataErrors"} :
         f \in DOMAIN counters /\ counters[f] \in Nat
  BY CounterNames DEF TypeOK
<1>7. /\ Counted \subseteq Request /\ Timed \subseteq Request
      /\ Failed(Judged) \subseteq Request
  BY DEF Counted, Timed, Judged, Failed
<1>8. CASE CountRequest(r)
  <2>1. pc[r] = "observe" /\ pc'[r] = "duration"
    BY <1>8, <1>3, MovesKeeps, CountMoves DEF CountRequest
  <2>2. Counted' = Counted \cup {r} /\ r \notin Counted
    BY <1>3, <2>1 DEF Counted
  <2>3. Timed' = Timed
    BY <1>3, <2>1 DEF Timed
  <2>4. Failed(Judged)' = Failed(Judged)
    BY <1>3, <2>1 DEF Failed, Judged
  <2>5. /\ counters'["httpRequests"] = counters["httpRequests"] + 1
        /\ counters'["httpDurations"] = counters["httpDurations"]
        /\ counters'["httpErrors"] = counters["httpErrors"]
        /\ counters'["tokenMetadataErrors"] = counters["tokenMetadataErrors"]
    BY <1>6, <1>8 DEF CountRequest, Add
  <2>6. Cardinality(Counted') = Cardinality(Counted) + 1
    BY <1>7, <2>2, OneMore
  <2> QED
    BY <1>5, <2>3, <2>4, <2>5, <2>6 DEF CounterInv
<1>9. CASE CountDuration(r)
  <2>1. pc[r] = "duration" /\ pc'[r] = "errors"
    BY <1>9, <1>3, MovesKeeps, CountMoves DEF CountDuration
  <2>2. Timed' = Timed \cup {r} /\ r \notin Timed
    BY <1>3, <2>1 DEF Timed
  <2>3. Counted' = Counted
    BY <1>3, <2>1 DEF Counted
  <2>4. Failed(Judged)' = Failed(Judged)
    BY <1>3, <2>1 DEF Failed, Judged
  <2>5. /\ counters'["httpDurations"] = counters["httpDurations"] + 1
        /\ counters'["httpRequests"] = counters["httpRequests"]
        /\ counters'["httpErrors"] = counters["httpErrors"]
        /\ counters'["tokenMetadataErrors"] = counters["tokenMetadataErrors"]
    BY <1>6, <1>9 DEF CountDuration, Add
  <2>6. Cardinality(Timed') = Cardinality(Timed) + 1
    BY <1>7, <2>2, OneMore
  <2> QED
    BY <1>5, <2>3, <2>4, <2>5, <2>6 DEF CounterInv
<1>10. CASE CountError(r)
  <2>1. pc[r] = "errors" /\ pc'[r] = "return"
    BY <1>10, <1>3, MovesKeeps, CountMoves DEF CountError
  <2>2. Counted' = Counted
    BY <1>3, <2>1 DEF Counted
  <2>3. Timed' = Timed
    BY <1>3, <2>1 DEF Timed
  <2>4. CASE req[r].status >= 500
    <3>1. Failed(Judged)' = Failed(Judged) \cup {r} /\ r \notin Failed(Judged)
      BY <1>3, <2>1, <2>4 DEF Failed, Judged
    <3>2. /\ counters'["httpErrors"] = counters["httpErrors"] + 1
          /\ counters'["httpRequests"] = counters["httpRequests"]
          /\ counters'["httpDurations"] = counters["httpDurations"]
          /\ counters'["tokenMetadataErrors"] = counters["tokenMetadataErrors"]
      BY <1>6, <1>10, <2>4 DEF CountError, Add
    <3>3. Cardinality(Failed(Judged)') = Cardinality(Failed(Judged)) + 1
      BY <1>7, <3>1, OneMore
    <3> QED
      BY <1>5, <2>2, <2>3, <3>2, <3>3 DEF CounterInv
  <2>5. CASE ~(req[r].status >= 500)
    <3>1. Failed(Judged)' = Failed(Judged)
      BY <1>3, <2>1, <2>5 DEF Failed, Judged
    <3>2. UNCHANGED counters
      BY <1>10, <2>5 DEF CountError
    <3> QED
      BY <1>5, <2>2, <2>3, <3>1, <3>2 DEF CounterInv
  <2> QED
    BY <2>4, <2>5
<1>11. CASE Finish(r)
  <2>1. pc[r] = "return" /\ pc'[r] = "done" /\ UNCHANGED counters
    BY <1>11, <1>3, MovesKeeps, FinishMoves DEF Finish
  <2>2. Counted' = Counted
    BY <1>3, <2>1 DEF Counted
  <2>3. Timed' = Timed
    BY <1>3, <2>1 DEF Timed
  <2>4. Failed(Judged)' = Failed(Judged)
    BY <1>3, <2>1 DEF Failed, Judged
  <2> QED
    BY <1>5, <2>1, <2>2, <2>3, <2>4 DEF CounterInv
<1> QED
  BY <1>8, <1>9, <1>10, <1>11

LEMMA FiniteRows == IsFiniteSet(BareRows)
<1>1. IsFiniteSet(1..MaxRows)
  BY MaxRowsAssumption, FS_Interval
<1>2. IsFiniteSet(Request \X (1..MaxRows))
  BY <1>1, RequestAssumption, FS_Product
<1>3. BareRows \in SUBSET (Request \X (1..MaxRows))
  BY DEF BareRows
<1> QED
  BY <1>2, <1>3, FS_Subset

\* A row without metadata is counted when it joins the page.
LEMMA BareKeeps ==
    ASSUME TypeOK, RequestInv, CounterInv, NEW r \in Request, BareRow(r),
           Moves(r, "enrich", [req[r] EXCEPT !.left = @ - 1, !.bare = @ + 1]),
           req[r].bare + 1 \in 0..MaxRows
    PROVE  CounterInv'
<1> DEFINE n == req[r].bare
           q == [req[r] EXCEPT !.left = @ - 1, !.bare = @ + 1]
<1>1. /\ pc'[r] = "enrich" /\ req'[r] = q
      /\ \A o \in Request : o # r => pc'[o] = pc[o] /\ req'[o] = req[o]
  <2> HIDE DEF q
  <2> QED
    BY MovesKeeps DEF q
<1>2. pc[r] = "enrich"
  BY DEF BareRow
<1>3. req[r] \in RequestRecord /\ q.bare = n + 1 /\ n \in Nat
  BY DEF TypeOK, RequestRecord
<1>4. req'[r].bare = n + 1 /\ \A o \in Request : o # r => req'[o].bare = req[o].bare
  BY <1>1, <1>3
<1>5. /\ Counted' = Counted /\ Timed' = Timed
      /\ Failed(Judged)' = Failed(Judged)
  <2>1. Counted' = Counted
    BY <1>1, <1>2 DEF Counted
  <2>2. Timed' = Timed
    BY <1>1, <1>2 DEF Timed
  <2>3. Failed(Judged)' = Failed(Judged)
    BY <1>1, <1>2 DEF Failed, Judged
  <2> QED
    BY <2>1, <2>2, <2>3
<1>6. BareRows' = BareRows \cup {<<r, n + 1>>} /\ <<r, n + 1>> \notin BareRows
  <2> HIDE DEF n, q
  <2>1. n + 1 \in 1..MaxRows
    BY <1>3, MaxRowsAssumption DEF n
  <2>2. \A o \in Request, k \in 1..MaxRows :
           <<o, k>> \in BareRows <=> k <= req[o].bare
    BY DEF BareRows
  <2>3. \A o \in Request, k \in 1..MaxRows :
           <<o, k>> \in BareRows' <=> k <= req'[o].bare
    BY DEF BareRows
  <2>4. <<r, n + 1>> \notin BareRows
    BY <1>3, <2>1, <2>2 DEF n
  <2>5. \A o \in Request, k \in 1..MaxRows :
           <<o, k>> \in BareRows' <=> <<o, k>> \in BareRows \/ <<o, k>> = <<r, n + 1>>
    <3> TAKE o \in Request, k \in 1..MaxRows
    <3>1. CASE o = r
      <4>1. k <= n + 1 <=> k <= n \/ k = n + 1
        BY <1>3
      <4> QED
        BY <3>1, <4>1, <1>4, <2>2, <2>3 DEF n
    <3>2. CASE o # r
      BY <3>2, <1>4, <2>2, <2>3
    <3> QED
      BY <3>1, <3>2
  <2>6. /\ BareRows \subseteq Request \X (1..MaxRows)
        /\ BareRows' \subseteq Request \X (1..MaxRows)
    BY DEF BareRows
  <2> QED
    BY <2>1, <2>4, <2>5, <2>6
<1>7. Cardinality(BareRows') = Cardinality(BareRows) + 1
  BY <1>6, FiniteRows, FS_AddElement
<1>8. \A f \in {"httpRequests", "httpErrors", "httpDurations", "tokenMetadataErrors"} :
         f \in DOMAIN counters /\ counters[f] \in Nat
  BY CounterNames DEF TypeOK
<1>9. /\ counters'["tokenMetadataErrors"] = counters["tokenMetadataErrors"] + 1
      /\ counters'["httpRequests"] = counters["httpRequests"]
      /\ counters'["httpDurations"] = counters["httpDurations"]
      /\ counters'["httpErrors"] = counters["httpErrors"]
  BY <1>8 DEF BareRow, Add
<1> QED
  BY <1>5, <1>7, <1>9 DEF CounterInv

-----------------------------------------------------------------------------
\* What a scrape shows.

\* A request that is over stays over, with its status.
LEMMA OverStays ==
    ASSUME TypeOK, RequestInv, NEW r \in Request, NEW p, NEW q, Moves(r, p, q),
           pc[r] # "done", p # "new"
    PROVE  /\ Done \subseteq Done' /\ r \notin Done
           /\ Cardinality(Arrived) <= Cardinality(Arrived')
           /\ Cardinality(Arrived) \in Nat /\ Cardinality(Arrived') \in Nat
           /\ \A S \in SUBSET Done : {o \in S : req'[o].status >= 500} = Failed(S)
<1>1. /\ pc'[r] = p /\ req'[r] = q
      /\ \A o \in Request : o # r => pc'[o] = pc[o] /\ req'[o] = req[o]
  BY MovesKeeps
<1>2. Done \subseteq Done' /\ r \notin Done
  BY <1>1 DEF Done
<1>3. Arrived \subseteq Arrived' /\ Arrived' \subseteq Request /\ Arrived \subseteq Request
  BY <1>1 DEF Arrived
<1>4. \A o \in Done : req'[o] = req[o]
  BY <1>1 DEF Done
<1> QED
  BY <1>2, <1>3, <1>4, LargerSet, FiniteRequests DEF Failed

LEMMA ScrapeKeeps ==
    ASSUME TypeOK, RequestInv, ScrapeInv, NEW r \in Request, NEW p, NEW q, Moves(r, p, q),
           pc[r] # "done", p # "new",
           \/ q.over = req[r].over /\ q.loaded = req[r].loaded
           \/ q.over = Done /\ q.loaded = <<>>
    PROVE  ScrapeInv'
<1>1. /\ Done \subseteq Done' /\ Cardinality(Arrived) <= Cardinality(Arrived')
      /\ Cardinality(Arrived) \in Nat /\ Cardinality(Arrived') \in Nat
      /\ \A S \in SUBSET Done : {o \in S : req'[o].status >= 500} = Failed(S)
  BY OverStays
<1>2. /\ req' \in [Request -> RequestRecord] /\ req'[r] = q
      /\ \A o \in Request : o # r => req'[o] = req[o]
  BY MovesKeeps
<1>3. SUFFICES ASSUME NEW o \in Request
               PROVE  /\ req'[o].over \subseteq Done'
                      /\ Len(req'[o].loaded) >= 1 =>
                            /\ req'[o].loaded[1] >= Cardinality(req'[o].over)
                            /\ req'[o].loaded[1] < Cardinality(Arrived')
                      /\ Len(req'[o].loaded) >= 2 =>
                            req'[o].loaded[2] >= Cardinality(Failed(req[o].over)')
                      /\ Len(req'[o].loaded) >= 3 =>
                            req'[o].loaded[3] >= Cardinality(req'[o].over)
  BY DEF ScrapeInv
<1>4. CASE req'[o].over = req[o].over /\ req'[o].loaded = req[o].loaded
  <2>1. req[o].over \in SUBSET Done
    BY DEF ScrapeInv
  <2>2. Failed(req[o].over)' = Failed(req[o].over)
    BY <1>1, <1>4, <2>1 DEF Failed
  <2>3. req[o].loaded \in Seq(Nat)
    BY DEF TypeOK, RequestRecord
  <2>4. Len(req[o].loaded) >= 1 => req[o].loaded[1] \in Nat
    BY <2>3
  <2> QED
    BY <1>1, <1>4, <2>1, <2>2, <2>4 DEF ScrapeInv
<1>5. CASE req'[o].over = Done /\ req'[o].loaded = <<>>
  <2>1. Len(req'[o].loaded) = 0
    BY <1>5
  <2> QED
    BY <1>1, <1>5, <2>1
<1> QED
  BY <1>2, <1>4, <1>5

\* Each counter, when it is loaded, has at least the requests that were over when
\* the scrape arrived, and httpRequests not the scrape itself.
LEMMA LoadKeeps ==
    ASSUME TypeOK, RequestInv, CounterInv, ScrapeInv, NEW r \in Request, LoadCounter(r)
    PROVE  ScrapeInv'
<1> DEFINE q == req[r]
           n == Len(q.loaded)
           v == counters[Fields[n + 1]]
           a == [q EXCEPT !.loaded = Append(@, counters[Fields[Len(@) + 1]])]
<1>1. Moves(r, "snapshot", a)
  BY LoadMoves
<1>2. /\ q \in RequestRecord /\ pc[r] = "snapshot" /\ q.loaded \in Seq(Nat)
      /\ n \in Nat /\ n < 4 /\ q.over \subseteq Done
  <2>1. q \in RequestRecord /\ pc[r] = "snapshot" /\ Len(q.loaded) < Len(Fields)
    BY DEF TypeOK, LoadCounter
  <2>2. q.loaded \in Seq(Nat)
    BY <2>1 DEF RequestRecord
  <2>3. q.over \subseteq Done
    BY DEF ScrapeInv
  <2> QED
    BY <2>1, <2>2, <2>3 DEF Fields
<1>3. a.over = q.over /\ a.loaded = Append(q.loaded, v)
  BY <1>2 DEF RequestRecord
<1>4. v \in Nat
  <2>1. n + 1 \in DOMAIN Fields
    BY <1>2 DEF Fields
  <2> QED
    BY <2>1 DEF TypeOK
<1>5. /\ Done \subseteq Done' /\ Cardinality(Arrived) <= Cardinality(Arrived')
      /\ Cardinality(Arrived) \in Nat /\ Cardinality(Arrived') \in Nat
      /\ \A S \in SUBSET Done : {o \in S : req'[o].status >= 500} = Failed(S)
  <2> HIDE DEF a
  <2> QED
    BY <1>1, <1>2, OverStays
<1>6. /\ req'[r] = a
      /\ \A o \in Request : o # r => req'[o] = req[o]
  <2> HIDE DEF a
  <2> QED
    BY <1>1, MovesKeeps
<1>7. /\ n = 0 => v = Cardinality(Counted)
      /\ n = 1 => v = Cardinality(Failed(Judged))
      /\ n = 2 => v = Cardinality(Timed)
  <2>1. /\ Fields[1] = "httpRequests" /\ Fields[2] = "httpErrors"
        /\ Fields[3] = "httpDurations"
    BY DEF Fields
  <2>2. 0 + 1 = 1 /\ 1 + 1 = 2 /\ 2 + 1 = 3
    OBVIOUS
  <2> QED
    BY <2>1, <2>2 DEF CounterInv
<1>8. /\ Cardinality(q.over) <= Cardinality(Counted)
      /\ Cardinality(q.over) <= Cardinality(Timed)
      /\ Cardinality(Failed(q.over)) <= Cardinality(Failed(Judged))
      /\ Cardinality(Counted) < Cardinality(Arrived)
  <2>1. q.over \subseteq Counted /\ q.over \subseteq Timed /\ q.over \subseteq Judged
    BY <1>2 DEF Done, Counted, Timed, Judged
  <2>2. Counted \subseteq Request /\ Timed \subseteq Request /\ Judged \subseteq Request
    BY DEF Counted, Timed, Judged
  <2>3. Failed(q.over) \subseteq Failed(Judged) /\ Failed(Judged) \subseteq Request
    BY <2>1, <2>2 DEF Failed
  <2>4. Counted \cup {r} \subseteq Arrived /\ Arrived \subseteq Request /\ r \notin Counted
    BY <1>2 DEF Counted, Arrived
  <2>5. Cardinality(Counted) + 1 <= Cardinality(Arrived)
    <3>1. Cardinality(Counted \cup {r}) = Cardinality(Counted) + 1
      BY <2>2, <2>4, OneMore
    <3>2. Cardinality(Counted \cup {r}) <= Cardinality(Arrived)
      BY <2>4, LargerSet
    <3> QED
      BY <3>1, <3>2
  <2>6. Cardinality(Counted) \in Nat
    BY <2>2, FiniteRequests
  <2> QED
    BY <1>5, <2>1, <2>2, <2>3, <2>5, <2>6, LargerSet
<1>9. /\ Len(a.loaded) = n + 1 /\ a.loaded[n + 1] = v
      /\ \A i \in 1..n : a.loaded[i] = q.loaded[i]
  <2> HIDE DEF v, a
  <2> QED
    BY <1>2, <1>3, <1>4
<1>10. Failed(q.over)' = Failed(q.over)
  <2>1. req'[r].over = q.over
    BY <1>3, <1>6
  <2> QED
    BY <1>2, <1>5, <2>1 DEF Failed
<1> HIDE DEF a, v
<1>11. /\ Len(a.loaded) >= 1 => /\ a.loaded[1] >= Cardinality(q.over)
                                 /\ a.loaded[1] < Cardinality(Arrived)
       /\ Len(a.loaded) >= 2 => a.loaded[2] >= Cardinality(Failed(q.over))
       /\ Len(a.loaded) >= 3 => a.loaded[3] >= Cardinality(q.over)
  <2>1. /\ n >= 1 => q.loaded[1] >= Cardinality(q.over) /\ q.loaded[1] < Cardinality(Arrived)
        /\ n >= 2 => q.loaded[2] >= Cardinality(Failed(q.over))
        /\ n >= 3 => q.loaded[3] >= Cardinality(q.over)
    BY DEF ScrapeInv
  <2>2. /\ Cardinality(q.over) \in Nat /\ Cardinality(Failed(q.over)) \in Nat
        /\ Cardinality(Counted) \in Nat /\ Cardinality(Timed) \in Nat
        /\ Cardinality(Failed(Judged)) \in Nat
    BY <1>2, FiniteRequests DEF Done, Failed, Counted, Timed, Judged
  <2> HIDE DEF q, n
  <2>3. n = 0 \/ n = 1 \/ n = 2 \/ n = 3
    BY <1>2
  <2>4. CASE n = 0
    BY <1>7, <1>8, <1>9, <2>2, <2>4
  <2>5. CASE n = 1
    BY <1>7, <1>8, <1>9, <2>1, <2>2, <2>5
  <2>6. CASE n = 2
    BY <1>7, <1>8, <1>9, <2>1, <2>2, <2>6
  <2>7. CASE n = 3
    BY <1>9, <2>1, <2>2, <2>7
  <2> QED
    BY <2>3, <2>4, <2>5, <2>6, <2>7
<1>12. Len(a.loaded) >= 1 => a.loaded[1] < Cardinality(Arrived')
  <2>1. Len(a.loaded) >= 1 => a.loaded[1] \in Nat
    BY <1>2, <1>3, <1>4
  <2> QED
    BY <1>5, <1>11, <2>1
<1>13. ASSUME NEW o \in Request
       PROVE  /\ req'[o].over \subseteq Done'
              /\ Len(req'[o].loaded) >= 1 =>
                    /\ req'[o].loaded[1] >= Cardinality(req'[o].over)
                    /\ req'[o].loaded[1] < Cardinality(Arrived')
              /\ Len(req'[o].loaded) >= 2 =>
                    req'[o].loaded[2] >= Cardinality(Failed(req[o].over)')
              /\ Len(req'[o].loaded) >= 3 =>
                    req'[o].loaded[3] >= Cardinality(req'[o].over)
  <2>1. CASE o = r
    BY <1>2, <1>3, <1>5, <1>6, <1>10, <1>11, <1>12, <2>1
  <2>2. CASE o # r
    <3>1. req'[o] = req[o]
      BY <1>6, <2>2
    <3>2. req[o].over \in SUBSET Done
      BY DEF ScrapeInv
    <3>3. Failed(req[o].over)' = Failed(req[o].over)
      BY <1>5, <3>1, <3>2 DEF Failed
    <3>4. req[o].loaded \in Seq(Nat)
      BY DEF TypeOK, RequestRecord
    <3>5. Len(req[o].loaded) >= 1 => req[o].loaded[1] \in Nat
      BY <3>4
    <3> QED
      BY <1>5, <3>1, <3>2, <3>3, <3>5 DEF ScrapeInv
  <2> QED
    BY <2>1, <2>2
<1> QED
  BY <1>13 DEF ScrapeInv

-----------------------------------------------------------------------------
\* The invariant is inductive.

LEMMA InitHTTPInv == Init => HTTPInv
<1> SUFFICES ASSUME Init PROVE HTTPInv
  OBVIOUS
<1>1. Fresh \in RequestRecord
  <2>1. <<>> \in Seq(Nat)
    OBVIOUS
  <2>2. 0 \in 0..MaxRows
    BY MaxRowsAssumption
  <2> QED
    BY <2>1, <2>2 DEF Fresh, RequestRecord, Statuses
<1>2. TypeOK
  BY <1>1 DEF Init, TypeOK, Places
<1>3. Response("new", Fresh) /\ Page("new", Fresh)
  BY DEF Response, Page, Fresh, Serving, Leaving
<1>4. RequestInv
  BY <1>3 DEF Init, RequestInv
<1>5. \A r \in Request : pc[r] = "new" /\ req[r] = Fresh
  BY DEF Init
<1>6. Counted = {} /\ Timed = {} /\ Failed(Judged) = {} /\ BareRows = {}
  <2>1. Counted = {} /\ Timed = {} /\ Judged = {}
    BY <1>5 DEF Counted, Timed, Judged
  <2>2. Failed(Judged) = {}
    BY <2>1 DEF Failed
  <2>3. \A r \in Request : req[r].bare = 0
    BY <1>5 DEF Fresh
  <2>4. \A x \in Request \X (1..MaxRows) : ~(x[2] <= req[x[1]].bare)
    BY <2>3
  <2>5. BareRows = {}
    BY <2>4 DEF BareRows
  <2> QED
    BY <2>1, <2>2, <2>5
<1>7. CounterInv
  <2>1. \A f \in {"httpRequests", "httpErrors", "httpDurations", "tokenMetadataErrors"} :
           counters[f] = 0
    BY CounterNames DEF Init
  <2> QED
    BY <1>6, <2>1, FS_EmptySet DEF CounterInv
<1>8. ScrapeInv
  <2>1. \A r \in Request : req[r].over = {} /\ req[r].loaded = <<>>
    BY <1>5 DEF Fresh
  <2>2. \A r \in Request : Len(req[r].loaded) = 0
    BY <2>1
  <2> QED
    BY <2>1, <2>2 DEF ScrapeInv
<1> QED
  BY <1>2, <1>4, <1>7, <1>8 DEF HTTPInv

\* The counters stay natural numbers.
LEMMA CountersKeep ==
    ASSUME TypeOK,
           \/ UNCHANGED counters
           \/ \E f \in {"httpRequests", "httpErrors", "httpDurations", "tokenMetadataErrors"} :
                 Add(f)
    PROVE  counters' \in [{Fields[i] : i \in DOMAIN Fields} -> Nat]
<1>1. counters \in [{"httpRequests", "httpErrors", "httpDurations", "tokenMetadataErrors"} -> Nat]
  BY CounterNames DEF TypeOK
<1>2. counters' \in [{"httpRequests", "httpErrors", "httpDurations", "tokenMetadataErrors"} -> Nat]
  BY <1>1 DEF Add
<1> QED
  BY <1>2, CounterNames

\* A step before ObserveHTTPRequest that neither meets a row without metadata nor
\* loads a counter.
LEMMA QuietStep ==
    ASSUME HTTPInv, NEW r \in Request, NEW p, NEW q, Moves(r, p, q), UNCHANGED counters,
           pc[r] \notin After, p \notin After \cup {"new"}, q.bare = req[r].bare,
           \/ q.over = req[r].over /\ q.loaded = req[r].loaded
           \/ q.over = Done /\ q.loaded = <<>>
    PROVE  HTTPInv'
<1>1. TypeOK /\ RequestInv /\ CounterInv /\ ScrapeInv
  BY DEF HTTPInv
<1>2. TypeOK' /\ RequestInv'
  BY <1>1, MovesKeeps, CountersKeep DEF TypeOK
<1>3. CounterInv'
  BY <1>1, QuietKeeps
<1>4. ScrapeInv'
  <2>1. pc[r] # "done" /\ p # "new"
    BY DEF After
  <2> QED
    BY <1>1, <2>1, ScrapeKeeps
<1> QED
  BY <1>2, <1>3, <1>4 DEF HTTPInv

LEMMA ArriveKeeps ==
    ASSUME HTTPInv, NEW r \in Request,
           NEW route \in {"health", "transfers", "metrics", "unknown"}, NEW get \in BOOLEAN,
           Arrive(r, route, get)
    PROVE  HTTPInv'
<1> DEFINE q == [Fresh EXCEPT !.route = route, !.get = get, !.over = Done]
<1>1. TypeOK /\ RequestInv /\ Moves(r, "handler", q)
  BY ArriveMoves DEF HTTPInv
<1>2. q.bare = 0 /\ q.over = Done /\ q.loaded = <<>>
  BY DEF Fresh
<1>3. pc[r] = "new" /\ UNCHANGED counters
  BY DEF Arrive
<1>4. req[r].bare = 0
  BY <1>1, <1>3 DEF RequestInv, Page
<1> HIDE DEF q
<1> QED
  BY <1>1, <1>2, <1>3, <1>4, QuietStep DEF After

\* Setting other fields of a request leaves these three alone.
LEMMA KeptFields ==
    ASSUME NEW q \in RequestRecord
    PROVE  /\ \A v : LET a == [q EXCEPT !.reply = v]
                    IN  a.bare = q.bare /\ a.over = q.over /\ a.loaded = q.loaded
           /\ \A n : LET a == [q EXCEPT !.rows = n, !.left = n]
                    IN  a.bare = q.bare /\ a.over = q.over /\ a.loaded = q.loaded
           /\ \A n, m : LET a == [q EXCEPT !.left = n, !.enriched = m]
                       IN  a.bare = q.bare /\ a.over = q.over /\ a.loaded = q.loaded
           /\ \A n, m : LET a == [q EXCEPT !.left = n, !.bare = m]
                       IN  a.over = q.over /\ a.loaded = q.loaded
           /\ \A v : LET a == [q EXCEPT !.status = v, !.wroteResponse = TRUE, !.header = v]
                    IN  a.bare = q.bare /\ a.over = q.over /\ a.loaded = q.loaded
           /\ \A v : LET a == [q EXCEPT !.panicked = v]
                    IN  a.bare = q.bare /\ a.over = q.over /\ a.loaded = q.loaded
           /\ \A v : LET a == [q EXCEPT !.status = v, !.reply = v]
                    IN  a.bare = q.bare /\ a.over = q.over /\ a.loaded = q.loaded
BY DEF RequestRecord

LEMMA Replied ==
    ASSUME NEW q \in RequestRecord, NEW r \in Request,
           \E status \in Statuses : Moves(r, "header", [q EXCEPT !.reply = status])
    PROVE  \E a : /\ Moves(r, "header", a)
                 /\ a.bare = q.bare /\ a.over = q.over /\ a.loaded = q.loaded
<1>1. PICK status : Moves(r, "header", [q EXCEPT !.reply = status])
  OBVIOUS
<1> DEFINE a == [q EXCEPT !.reply = status]
<1>2. a.bare = q.bare /\ a.over = q.over /\ a.loaded = q.loaded
  BY KeptFields
<1>3. Moves(r, "header", a)
  BY <1>1
<1> HIDE DEF a
<1> QED
  BY <1>2, <1>3

LEMMA ServingKeeps ==
    ASSUME HTTPInv, NEW r \in Request,
           Dispatch(r) \/ ListTransfers(r) \/ EnrichRow(r) \/ PageReady(r) \/ SnapshotReady(r)
    PROVE  HTTPInv'
<1> DEFINE q == req[r]
<1>1. TypeOK /\ RequestInv /\ q \in RequestRecord
  BY DEF HTTPInv, TypeOK
<1>2. pc[r] \notin After /\ UNCHANGED counters
  BY DEF Dispatch, ListTransfers, EnrichRow, PageReady, SnapshotReady, After
<1> HIDE DEF q
<1>3. PICK p, a : /\ Moves(r, p, a) /\ p \in {"header", "list", "snapshot", "enrich", "body"}
                  /\ a.bare = q.bare /\ a.over = q.over /\ a.loaded = q.loaded
  <2>1. CASE Dispatch(r)
    <3>1. CASE \E p \in {"list", "snapshot"} : Moves(r, p, q)
      BY <3>1
    <3>2. CASE \E status \in Statuses : Moves(r, "header", [q EXCEPT !.reply = status])
      BY <1>1, <3>2, Replied
    <3> QED
      BY <1>1, <2>1, <3>1, <3>2, DispatchMoves DEF q
  <2>2. CASE ListTransfers(r)
    <3>1. CASE \E n \in 0..MaxRows : Moves(r, "enrich", [q EXCEPT !.rows = n, !.left = n])
      <4>1. PICK n : Moves(r, "enrich", [q EXCEPT !.rows = n, !.left = n])
        BY <3>1
      <4> DEFINE a == [q EXCEPT !.rows = n, !.left = n]
      <4>2. a.bare = q.bare /\ a.over = q.over /\ a.loaded = q.loaded
        BY <1>1, KeptFields
      <4>3. Moves(r, "enrich", a)
        BY <4>1
      <4> HIDE DEF a
      <4> QED
        BY <4>2, <4>3
    <3>2. CASE \E status \in Statuses : Moves(r, "header", [q EXCEPT !.reply = status])
      BY <1>1, <3>2, Replied
    <3> QED
      BY <1>1, <2>2, <3>1, <3>2, ListMoves DEF q
  <2>3. CASE EnrichRow(r)
    <3> DEFINE e == [q EXCEPT !.left = q.left - 1, !.enriched = q.enriched + 1]
    <3>2. Moves(r, "enrich", e)
      BY <1>1, <2>3, RowMoves DEF q
    <3>3. e.bare = q.bare /\ e.over = q.over /\ e.loaded = q.loaded
      BY <1>1, KeptFields
    <3> HIDE DEF e
    <3> QED
      BY <3>2, <3>3
  <2>4. CASE PageReady(r)
    <3> DEFINE ok == 200
               a == [q EXCEPT !.reply = ok]
    <3>1. Moves(r, "header", a)
      BY <1>1, <2>4, PageMoves DEF q
    <3>2. a.bare = q.bare /\ a.over = q.over /\ a.loaded = q.loaded
      <4> HIDE DEF ok
      <4> QED
        BY <1>1, KeptFields
    <3> HIDE DEF a
    <3> QED
      BY <3>1, <3>2
  <2>5. CASE SnapshotReady(r)
    <3>1. Moves(r, "body", q)
      BY <1>1, <2>5, SnapshotMoves DEF q
    <3> QED
      BY <3>1
  <2> QED
    BY <2>1, <2>2, <2>3, <2>4, <2>5
<1>4. p \notin After \cup {"new"}
  BY <1>3 DEF After
<1> QED
  BY <1>2, <1>3, <1>4, QuietStep DEF q

LEMMA SendingKeeps ==
    ASSUME HTTPInv, NEW r \in Request, SendHeader(r) \/ SendBody(r) \/ Panic(r) \/ Recover(r)
    PROVE  HTTPInv'
<1> DEFINE q == req[r]
<1>1. TypeOK /\ RequestInv /\ q \in RequestRecord
  BY DEF HTTPInv, TypeOK
<1>2. pc[r] \notin After /\ UNCHANGED counters
  BY DEF SendHeader, SendBody, Panic, Recover, After
<1> HIDE DEF q
<1>3. PICK p, a : /\ Moves(r, p, a) /\ p \in {"body", "observe", "recover", "header"}
                  /\ a.bare = q.bare /\ a.over = q.over /\ a.loaded = q.loaded
  <2>1. CASE SendHeader(r)
    <3> DEFINE v == q.reply
               a == [q EXCEPT !.status = v, !.wroteResponse = TRUE, !.header = v]
    <3>1. Moves(r, "body", a)
      BY <1>1, <2>1, HeaderMoves DEF q
    <3>2. a.bare = q.bare /\ a.over = q.over /\ a.loaded = q.loaded
      <4> HIDE DEF v
      <4> QED
        BY <1>1, KeptFields
    <3> HIDE DEF a
    <3> QED
      BY <3>1, <3>2
  <2>2. CASE SendBody(r)
    BY <1>1, <2>2, BodyMoves DEF q
  <2>3. CASE Panic(r)
    <3> DEFINE a == [q EXCEPT !.panicked = TRUE]
    <3>1. Moves(r, "recover", a)
      BY <1>1, <2>3, PanicMoves DEF q
    <3>2. a.bare = q.bare /\ a.over = q.over /\ a.loaded = q.loaded
      BY <1>1 DEF RequestRecord
    <3> HIDE DEF a
    <3> QED
      BY <3>1, <3>2
  <2>4. CASE Recover(r)
    <3> DEFINE failed == 500
               a == [q EXCEPT !.status = failed, !.reply = failed]
    <3>1. Moves(r, IF q.wroteResponse THEN "observe" ELSE "header", a)
      BY <1>1, <2>4, RecoverMoves DEF q
    <3>2. a.bare = q.bare /\ a.over = q.over /\ a.loaded = q.loaded
      <4> HIDE DEF failed
      <4> QED
        BY <1>1, KeptFields
    <3> HIDE DEF a
    <3> QED
      BY <3>1, <3>2
  <2> QED
    BY <2>1, <2>2, <2>3, <2>4
<1>4. p \notin After \cup {"new"}
  BY <1>3 DEF After
<1> QED
  BY <1>2, <1>3, <1>4, QuietStep DEF q

LEMMA RowKeeps ==
    ASSUME HTTPInv, NEW r \in Request, BareRow(r)
    PROVE  HTTPInv'
<1>1. TypeOK /\ RequestInv /\ CounterInv /\ ScrapeInv /\ pc[r] = "enrich"
  BY DEF HTTPInv, BareRow
<1> DEFINE q == req[r]
           b == [q EXCEPT !.left = q.left - 1, !.bare = q.bare + 1]
<1>2. q \in RequestRecord /\ req[r].bare + 1 \in 0..MaxRows
  BY <1>1, RowMoves DEF TypeOK
<1>3. Moves(r, "enrich", b)
  BY <1>1, RowMoves
<1>4. CounterInv'
  BY <1>1, <1>2, <1>3, BareKeeps
<1>5. TypeOK' /\ RequestInv'
  <2>1. Add("tokenMetadataErrors")
    BY DEF BareRow
  <2> HIDE DEF b
  <2> QED
    BY <1>1, <1>3, <2>1, MovesKeeps, CountersKeep DEF TypeOK
<1>6. ScrapeInv'
  <2>1. b.over = q.over /\ b.loaded = q.loaded
    BY <1>2, KeptFields
  <2> HIDE DEF b
  <2> QED
    BY <1>1, <1>3, <2>1, ScrapeKeeps
<1> QED
  BY <1>4, <1>5, <1>6 DEF HTTPInv

LEMMA ScrapeStep ==
    ASSUME HTTPInv, NEW r \in Request, LoadCounter(r)
    PROVE  HTTPInv'
<1>1. TypeOK /\ RequestInv /\ CounterInv /\ ScrapeInv
  BY DEF HTTPInv
<1> DEFINE q == req[r]
           a == [q EXCEPT !.loaded = Append(@, counters[Fields[Len(@) + 1]])]
<1>2. Moves(r, "snapshot", a)
  BY <1>1, LoadMoves
<1>3. a.bare = q.bare
  BY <1>1 DEF TypeOK, RequestRecord
<1>4. pc[r] = "snapshot" /\ UNCHANGED counters
  BY DEF LoadCounter
<1> HIDE DEF a
<1>5. TypeOK' /\ RequestInv'
  BY <1>1, <1>2, <1>4, MovesKeeps, CountersKeep DEF TypeOK
<1>6. CounterInv'
  BY <1>1, <1>2, <1>3, <1>4, QuietKeeps DEF After
<1> QED
  BY <1>1, <1>5, <1>6, LoadKeeps DEF HTTPInv

LEMMA ObservingKeeps ==
    ASSUME HTTPInv, NEW r \in Request,
           CountRequest(r) \/ CountDuration(r) \/ CountError(r) \/ Finish(r)
    PROVE  HTTPInv'
<1>1. TypeOK /\ RequestInv /\ CounterInv /\ ScrapeInv
  BY DEF HTTPInv
<1>2. PICK p : Moves(r, p, req[r]) /\ p # "new"
  BY <1>1, CountMoves, FinishMoves
<1>3. pc[r] # "done"
  BY DEF CountRequest, CountDuration, CountError, Finish
<1>4. \/ UNCHANGED counters
      \/ \E f \in {"httpRequests", "httpErrors", "httpDurations", "tokenMetadataErrors"} : Add(f)
  BY DEF CountRequest, CountDuration, CountError, Finish
<1>5. TypeOK' /\ RequestInv'
  BY <1>1, <1>2, <1>4, MovesKeeps, CountersKeep DEF TypeOK
<1>6. CounterInv'
  BY <1>1, AfterKeeps
<1>7. ScrapeInv'
  BY <1>1, <1>2, <1>3, ScrapeKeeps
<1> QED
  BY <1>5, <1>6, <1>7 DEF HTTPInv

LEMMA NextHTTPInv == HTTPInv /\ [Next]_vars => HTTPInv'
<1> SUFFICES ASSUME HTTPInv, [Next]_vars PROVE HTTPInv'
  OBVIOUS
<1>1. CASE UNCHANGED vars
  <2>1. pc' = pc /\ req' = req /\ counters' = counters
    BY <1>1 DEF vars
  <2> QED
    BY <2>1 DEF HTTPInv, TypeOK, RequestInv, CounterInv, ScrapeInv, Counted, Timed, Judged,
                Failed, BareRows, Arrived, Done
<1>2. ASSUME NEW r \in Request,
             \E route \in {"health", "transfers", "metrics", "unknown"}, get \in BOOLEAN :
                 Arrive(r, route, get)
      PROVE  HTTPInv'
  BY <1>2, ArriveKeeps
<1>3. ASSUME NEW r \in Request, Step(r) \/ Panic(r) PROVE HTTPInv'
  BY <1>3, ServingKeeps, SendingKeeps, RowKeeps, ScrapeStep, ObservingKeeps DEF Step
<1> QED
  BY <1>1, <1>2, <1>3 DEF Next, AllDone

LEMMA HTTPInvariant == Spec => []HTTPInv
BY InitHTTPInv, NextHTTPInv, PTL DEF Spec

-----------------------------------------------------------------------------
\* The results.

\* Every field of every request stays within its type, and the counters are
\* natural numbers.
THEOREM HTTPTypeTheorem == Spec => []TypeOK
BY HTTPInvariant, PTL DEF HTTPInv

\* The log line and the counters of observabilityMiddleware say what the client
\* got, wherever a handler panicked: no client has a whole success document from
\* a request recorded as 500, and none has two documents.
THEOREM LogTheorem == Spec => []LogTellsTheTruth
<1>1. HTTPInv => LogTellsTheTruth
  <2> SUFFICES ASSUME HTTPInv, NEW r \in Request
               PROVE  /\ req[r].documents <= 1
                      /\ pc[r] = "done" =>
                            IF req[r].panicked
                            THEN /\ req[r].status = 500
                                 /\ req[r].header = 500 \/ req[r].documents = 0
                            ELSE req[r].status = req[r].header
    BY DEF LogTellsTheTruth
  <2>1. Response(pc[r], req[r]) /\ pc[r] \in Places /\ req[r].documents \in Nat
    BY DEF HTTPInv, RequestInv, TypeOK, RequestRecord
  <2>2. req[r].documents <= 1
    BY <2>1 DEF Response, Places, Serving, Leaving
  <2> QED
    BY <2>1, <2>2 DEF Response, Leaving
<1> QED
  BY HTTPInvariant, <1>1, PTL

\* Token metadata that cannot be had costs no row of a page of GET /transfers,
\* and tokenMetadataErrors counts exactly the rows that went without.
THEOREM RowsTheorem == Spec => []RowsSurviveMetadata
<1>1. HTTPInv => RowsSurviveMetadata
  <2> SUFFICES ASSUME HTTPInv PROVE RowsSurviveMetadata
    OBVIOUS
  <2>1. ASSUME NEW r \in Request, req[r].route = "transfers", req[r].header = 200
        PROVE  req[r].enriched + req[r].bare = req[r].rows
    <3>1. Page(pc[r], req[r]) /\ req[r] \in RequestRecord
      BY DEF HTTPInv, RequestInv, TypeOK
    <3>2. req[r].left = 0 /\ req[r].enriched + req[r].bare + req[r].left = req[r].rows
      BY <2>1, <3>1 DEF Page
    <3>3. req[r].enriched \in Int /\ req[r].bare \in Int
      BY <3>1 DEF RequestRecord
    <3> QED
      BY <3>2, <3>3
  <2> QED
    BY <2>1 DEF RowsSurviveMetadata, HTTPInv, CounterInv
<1> QED
  BY HTTPInvariant, <1>1, PTL

\* A scrape of /metrics shows every request that was over when it began and never
\* itself, although Snapshot loads the counters one by one between the additions
\* of other requests.
THEOREM ScrapeTheorem == Spec => []ScrapeComplete
<1>1. HTTPInv => ScrapeComplete
  <2> SUFFICES ASSUME HTTPInv, NEW r \in Request, Len(req[r].loaded) = Len(Fields)
               PROVE  /\ req[r].loaded[1] >= Cardinality(req[r].over)
                      /\ req[r].loaded[1] < Cardinality({o \in Request : pc[o] # "new"})
                      /\ req[r].loaded[2] >= Cardinality(Failed(req[r].over))
                      /\ req[r].loaded[3] >= Cardinality(req[r].over)
    BY DEF ScrapeComplete
  <2>1. Len(req[r].loaded) = 4
    BY DEF Fields
  <2>2. 4 >= 1 /\ 4 >= 2 /\ 4 >= 3
    OBVIOUS
  <2>3. {o \in Request : pc[o] # "new"} = Arrived
    BY DEF Arrived
  <2>4. ScrapeInv
    BY DEF HTTPInv
  <2> QED
    BY <2>1, <2>2, <2>3, <2>4 DEF ScrapeInv
<1> QED
  BY HTTPInvariant, <1>1, PTL

\* Between requests the counters of observability.Metrics are exact, panics and
\* refused requests included.
THEOREM CountersTheorem == Spec => []CountersExact
<1>1. HTTPInv => CountersExact
  <2> SUFFICES ASSUME HTTPInv, \A r \in Request : pc[r] \in {"new", "done"}
               PROVE  /\ counters["httpRequests"] = Cardinality(Done)
                      /\ counters["httpDurations"] = Cardinality(Done)
                      /\ counters["httpErrors"] = Cardinality(Failed(Done))
    BY DEF CountersExact
  <2>1. Counted = Done /\ Timed = Done /\ Judged = Done
    BY DEF Counted, Timed, Judged, Done
  <2> QED
    BY <2>1 DEF HTTPInv, CounterInv
<1> QED
  BY HTTPInvariant, <1>1, PTL
=============================================================================

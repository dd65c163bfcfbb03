----------------------------- MODULE HTTPServer -----------------------------
(***************************************************************************)
(* The HTTP API of internal/api: requests run concurrently, each through    *)
(* requestIDMiddleware, observabilityMiddleware, recoveryMiddleware and the *)
(* mux to its handler (http_server.go, http_observability.go), and share     *)
(* nothing but the counters of internal/observability/metrics.go, which are  *)
(* added to and read one by one.  A handler may panic at any of its steps.   *)
(* External: net/http, which owns the wire, and the two dependencies, which  *)
(* answer anything.  Paths, queries and rows are abstracted to what decides   *)
(* the control; TransferReader models what a page holds.                      *)
(***************************************************************************)
EXTENDS Integers, Sequences, FiniteSets

CONSTANTS
    Request,   \* the requests that may arrive
    MaxRows    \* bound on the rows of a page

ASSUME MaxRowsAssumption == MaxRows \in Nat

\* Finitely many requests have arrived at any time.
ASSUME RequestAssumption == IsFiniteSet(Request)

VARIABLES
    pc,         \* where each request is
    req,        \* what its goroutine and its client have, see Fresh
    counters    \* the metrics

vars == <<pc, req, counters>>

\* A request before it arrives.  status and wroteResponse are the statusRecorder
\* of observabilityMiddleware; header (0: none yet) and documents are what the
\* client has received; over and loaded belong to a scrape: the requests that were
\* over when it arrived, and the counters it has loaded.
Fresh == [route |-> "unknown", get |-> TRUE, reply |-> 0, panicked |-> FALSE,
          status |-> 200, wroteResponse |-> FALSE, header |-> 0, documents |-> 0,
          rows |-> 0, enriched |-> 0, bare |-> 0, left |-> 0, over |-> {}, loaded |-> <<>>]

\* The counters that requests add to, in the order in which Snapshot loads them.
Fields == <<"httpRequests", "httpErrors", "httpDurations", "tokenMetadataErrors">>

Go(r, to) == pc' = [pc EXCEPT ![r] = to]
Add(field) == counters' = [counters EXCEPT ![field] = @ + 1]

-----------------------------------------------------------------------------
\* The way in

Arrive(r, route, get) ==
    /\ pc[r] = "new"
    /\ Go(r, "handler")
    /\ req' = [req EXCEPT ![r] = [Fresh EXCEPT !.route = route, !.get = get,
                                     !.over = {o \in Request : pc[o] = "done"}]]
    /\ UNCHANGED counters

\* writeJSON marshals; then come header and body.
Answer(r, status) ==
    /\ Go(r, "header")
    /\ req' = [req EXCEPT ![r].reply = status]

\* writeHTTPError: the first mark an error carries decides.
StatusOf(err) ==
    IF "public" \in err THEN 400
    ELSE IF "not found" \in err THEN 404
    ELSE IF "temporary" \in err THEN 503
    ELSE 500

\* The mux, and the handlers up to their first call.  A query that does not parse
\* is a PublicError.
Dispatch(r) ==
    /\ pc[r] = "handler"
    /\ \/ req[r].route = "unknown" /\ Answer(r, 404)
       \/ req[r].route # "unknown" /\ ~req[r].get /\ Answer(r, 405)
       \/ req[r].route = "health" /\ req[r].get /\ Answer(r, 200)
       \/ req[r].route = "transfers" /\ req[r].get /\ Answer(r, StatusOf({"public"}))
       \/ req[r].route = "transfers" /\ req[r].get /\ Go(r, "list") /\ UNCHANGED req
       \/ req[r].route = "metrics" /\ req[r].get /\ Go(r, "snapshot") /\ UNCHANGED req
    /\ UNCHANGED counters

-----------------------------------------------------------------------------
\* handleTransfers after parseTransferQuery

ListTransfers(r) ==
    /\ pc[r] = "list"
    /\ \/ /\ \E n \in 0..MaxRows : req' = [req EXCEPT ![r].rows = n, ![r].left = n]
          /\ Go(r, "enrich")
       \/ \E err \in {{}, {"not found"}, {"temporary"}} : Answer(r, StatusOf(err))
    /\ UNCHANGED counters

EnrichRow(r) ==
    /\ pc[r] = "enrich" /\ req[r].left > 0
    /\ req' = [req EXCEPT ![r].left = @ - 1, ![r].enriched = @ + 1]
    /\ UNCHANGED <<pc, counters>>

\* Mutant of BareRow: a row without metadata is left out.
BareRowDropped(r) ==
    /\ pc[r] = "enrich" /\ req[r].left > 0
    /\ req' = [req EXCEPT ![r].left = @ - 1]
    /\ Add("tokenMetadataErrors")
    /\ UNCHANGED pc

\* The metadata cannot be had: counted, logged, and the row goes out without.
BareRow(r) ==
    /\ pc[r] = "enrich" /\ req[r].left > 0
    /\ req' = [req EXCEPT ![r].left = @ - 1, ![r].bare = @ + 1]
    /\ Add("tokenMetadataErrors")
    /\ UNCHANGED pc

PageReady(r) ==
    /\ pc[r] = "enrich" /\ req[r].left = 0
    /\ Answer(r, 200)
    /\ UNCHANGED counters

-----------------------------------------------------------------------------
\* handleMetrics: Snapshot loads one counter after the other.

LoadCounter(r) ==
    /\ pc[r] = "snapshot" /\ Len(req[r].loaded) < Len(Fields)
    /\ req' = [req EXCEPT ![r].loaded = Append(@, counters[Fields[Len(@) + 1]])]
    /\ UNCHANGED <<pc, counters>>

SnapshotReady(r) ==
    /\ pc[r] = "snapshot" /\ Len(req[r].loaded) = Len(Fields)
    /\ Go(r, "body")
    /\ UNCHANGED <<req, counters>>

-----------------------------------------------------------------------------
\* The way out, through the statusRecorder.

\* statusRecorder.WriteHeader: only the first one counts.
WriteHeader(q, status) ==
    IF q.wroteResponse THEN q
    ELSE [q EXCEPT !.status = status, !.wroteResponse = TRUE, !.header = status]

SendHeader(r) ==
    /\ pc[r] = "header"
    /\ req' = [req EXCEPT ![r] = WriteHeader(@, @.reply)]
    /\ Go(r, "body")
    /\ UNCHANGED counters

\* statusRecorder.Write: the first one sends the header 200 by itself.
Write(q, delivered) == [WriteHeader(q, 200) EXCEPT !.documents = @ + delivered]

\* The client may be gone; then the document is lost and the error only logged.
SendBody(r) ==
    /\ pc[r] = "body"
    /\ \E delivered \in {0, 1} : req' = [req EXCEPT ![r] = Write(@, delivered)]
    /\ Go(r, "observe")
    /\ UNCHANGED counters

\* A panic in the handler or in what it calls.
Panic(r) ==
    /\ pc[r] \in {"handler", "list", "enrich", "snapshot", "header", "body"}
    /\ ~req[r].panicked
    /\ req' = [req EXCEPT ![r].panicked = TRUE]
    /\ Go(r, "recover")
    /\ UNCHANGED counters

\* Mutant of Recover: a response that has begun keeps its status.
RecoverUnmarked(r) ==
    /\ pc[r] = "recover"
    /\ IF req[r].wroteResponse
       THEN Go(r, "observe") /\ UNCHANGED req
       ELSE Answer(r, 500)
    /\ UNCHANGED counters

\* recoveryMiddleware: the request is recorded as 500 in any case; the error
\* document is sent only if the response has not begun.
Recover(r) ==
    /\ pc[r] = "recover"
    /\ req' = [req EXCEPT ![r].status = 500, ![r].reply = 500]
    /\ Go(r, IF req[r].wroteResponse THEN "observe" ELSE "header")
    /\ UNCHANGED counters

\* Mutant of CountRequest: a request that panicked is not counted.
CountUnlessPanicked(r) ==
    /\ pc[r] = "observe"
    /\ IF req[r].panicked THEN UNCHANGED counters ELSE Add("httpRequests")
    /\ Go(r, "duration")
    /\ UNCHANGED req

\* ObserveHTTPRequest: three separate additions.
CountRequest(r) ==
    /\ pc[r] = "observe"
    /\ Add("httpRequests")
    /\ Go(r, "duration")
    /\ UNCHANGED req

CountDuration(r) ==
    /\ pc[r] = "duration"
    /\ Add("httpDurations")
    /\ Go(r, "errors")
    /\ UNCHANGED req

\* Mutant of CountError: off by one, 500 itself is no error.
CountErrorAbove(r) ==
    /\ pc[r] = "errors"
    /\ IF req[r].status > 500 THEN Add("httpErrors") ELSE UNCHANGED counters
    /\ Go(r, "return")
    /\ UNCHANGED req

CountError(r) ==
    /\ pc[r] = "errors"
    /\ IF req[r].status >= 500 THEN Add("httpErrors") ELSE UNCHANGED counters
    /\ Go(r, "return")
    /\ UNCHANGED req

\* net/http ends the response when the outermost handler has returned; without a
\* header it sends 200.
Finish(r) ==
    /\ pc[r] = "return"
    /\ req' = [req EXCEPT ![r].header = IF @ = 0 THEN 200 ELSE @]
    /\ Go(r, "done")
    /\ UNCHANGED counters

-----------------------------------------------------------------------------
Init ==
    /\ pc = [r \in Request |-> "new"]
    /\ req = [r \in Request |-> Fresh]
    /\ counters = [f \in {Fields[i] : i \in DOMAIN Fields} |-> 0]

Step(r) ==
    \/ Dispatch(r) \/ ListTransfers(r) \/ EnrichRow(r) \/ BareRow(r) \/ PageReady(r)
    \/ LoadCounter(r) \/ SnapshotReady(r) \/ SendHeader(r) \/ SendBody(r) \/ Recover(r)
    \/ CountRequest(r) \/ CountDuration(r) \/ CountError(r) \/ Finish(r)

AllDone == (\A r \in Request : pc[r] = "done") /\ UNCHANGED vars

Next ==
    \/ \E r \in Request :
          \/ \E route \in {"health", "transfers", "metrics", "unknown"}, get \in BOOLEAN :
                Arrive(r, route, get)
          \/ Step(r)
          \/ Panic(r)
    \/ AllDone

Spec == Init /\ [][Next]_vars

-----------------------------------------------------------------------------
\* Properties.

Done == {r \in Request : pc[r] = "done"}
Failed(S) == {r \in S : req[r].status >= 500}

Places == {"new", "handler", "list", "enrich", "snapshot", "header", "body",
           "recover", "observe", "duration", "errors", "return", "done"}
Statuses == {200, 400, 404, 405, 500, 503}

RequestRecord ==
    [route : {"health", "transfers", "metrics", "unknown"}, get : BOOLEAN,
     reply : Statuses \cup {0}, panicked : BOOLEAN,
     status : Statuses, wroteResponse : BOOLEAN,
     header : Statuses \cup {0}, documents : Nat,
     rows : 0..MaxRows, enriched : 0..MaxRows, bare : 0..MaxRows, left : 0..MaxRows,
     over : SUBSET Request, loaded : Seq(Nat)]

TypeOK ==
    /\ pc \in [Request -> Places]
    /\ req \in [Request -> RequestRecord]
    /\ counters \in [{Fields[i] : i \in DOMAIN Fields} -> Nat]

\* What is logged and counted is what the client got.  After a panic it is 500,
\* and the client has either the 500 document or no document at all, with the
\* header a panicking handler had sent already and, since the recovered panic
\* lets net/http end the response, an empty body: no client has a document that
\* says success from a handler that panicked, and none has two documents.
LogTellsTheTruth ==
    \A r \in Request :
        /\ req[r].documents <= 1
        /\ pc[r] = "done" =>
              IF req[r].panicked
              THEN /\ req[r].status = 500
                   /\ req[r].header = 500 \/ req[r].documents = 0
              ELSE req[r].status = req[r].header

\* The rows that went, or are to go, out without metadata.
BareRows == {x \in Request \X (1..MaxRows) : x[2] <= req[x[1]].bare}

\* A page is answered whole or not at all: metadata that cannot be had takes no
\* row away, and each row that goes without is counted, over all requests.
RowsSurviveMetadata ==
    /\ counters["tokenMetadataErrors"] = Cardinality(BareRows)
    /\ \A r \in Request :
          req[r].route = "transfers" /\ req[r].header = 200 =>
              req[r].enriched + req[r].bare = req[r].rows

\* A scrape counts every request that was over when it began, with its error,
\* and never itself, although it reads the counters one by one while others add
\* to them.  (It may show an error whose request it does not show.)
ScrapeComplete ==
    \A r \in Request :
        Len(req[r].loaded) = Len(Fields) =>
            /\ req[r].loaded[1] >= Cardinality(req[r].over)
            /\ req[r].loaded[1] < Cardinality({o \in Request : pc[o] # "new"})
            /\ req[r].loaded[2] >= Cardinality(Failed(req[r].over))
            /\ req[r].loaded[3] >= Cardinality(req[r].over)

\* When no request is under way the counters are exact: panics and refused
\* requests included, none twice.
CountersExact ==
    (\A r \in Request : pc[r] \in {"new", "done"}) =>
        /\ counters["httpRequests"] = Cardinality(Done)
        /\ counters["httpDurations"] = Cardinality(Done)
        /\ counters["httpErrors"] = Cardinality(Failed(Done))
=============================================================================

----------------------------- MODULE Lifecycle -----------------------------
(***************************************************************************)
(* lifecycle.Run (internal/lifecycle/group.go): the supervisor of the       *)
(* indexer, the HTTP server and the optional pprof server, from the start of *)
(* the services to the error that decides the exit status of the process.   *)
(***************************************************************************)
EXTENDS Naturals, Sequences, FiniteSets

CONSTANTS
    Service,   \* the supervised services
    Hooked     \* those with a Shutdown function (the HTTP servers)

ASSUME ServiceAssumption ==
    /\ IsFiniteSet(Service) /\ Service # {}
    /\ Hooked \subseteq Service

VARIABLES
    ctxDone,          \* the caller's context ended: SIGINT or SIGTERM
    run,              \* each service's Run: "running" or what it returned
    hook,             \* each Shutdown call: "off", "running" or what it returned
    runResults,       \* channel of Run results, capacity len(services)
    shutdownResults,  \* channel of Shutdown results, capacity len(services)
    expired,          \* shutdownCtx reached its deadline
    supervisor,       \* where lifecycle.Run is
    completed,        \* Run results received
    shutdownsPending, \* Shutdown results still to come
    runErr            \* the joined errors; {} stands for nil

vars == <<ctxDone, run, hook, runResults, shutdownResults, expired, supervisor,
          completed, shutdownsPending, runErr>>

\* What Run can return: nil, a context error, or an error of its own.
RunResult == {"nil", "canceled", "error"}

\* The errors Run joins: <<service, what happened>>.
Cause == Service \X {"stopped unexpectedly", "stopped", "shut down"}
TimedOut == <<"services", "deadline">>

TypeOK ==
    /\ ctxDone \in BOOLEAN
    /\ run \in [Service -> {"running"} \cup RunResult]
    /\ hook \in [Service -> {"off", "running", "nil", "error"}]
    /\ runResults \in Seq(Service) /\ Len(runResults) <= Cardinality(Service)
    /\ shutdownResults \in Seq(Hooked) /\ Len(shutdownResults) <= Cardinality(Hooked)
    /\ expired \in BOOLEAN
    /\ supervisor \in {"select", "drain", "returned"}
    /\ completed \in 0..Cardinality(Service)
    /\ shutdownsPending \in 0..Cardinality(Hooked)
    /\ runErr \subseteq Cause \cup {TimedOut}

Init ==
    /\ ctxDone = FALSE
    /\ run = [s \in Service |-> "running"]
    /\ hook = [s \in Service |-> "off"]
    /\ runResults = <<>>
    /\ shutdownResults = <<>>
    /\ expired = FALSE
    /\ supervisor = "select"
    /\ completed = 0
    /\ shutdownsPending = 0
    /\ runErr = {}

-----------------------------------------------------------------------------
\* The environment and the service goroutines.

Signal ==
    /\ ~ctxDone
    /\ ctxDone' = TRUE
    /\ UNCHANGED <<run, hook, runResults, shutdownResults, expired, supervisor,
                   completed, shutdownsPending, runErr>>

\* service.Run returns and its result is sent; the channel never blocks.
ServiceReturns(s, result) ==
    /\ run[s] = "running"
    /\ run' = [run EXCEPT ![s] = result]
    /\ runResults' = Append(runResults, s)
    /\ UNCHANGED <<ctxDone, hook, shutdownResults, expired, supervisor,
                   completed, shutdownsPending, runErr>>

HookReturns(s, result) ==
    /\ hook[s] = "running"
    /\ hook' = [hook EXCEPT ![s] = result]
    /\ shutdownResults' = Append(shutdownResults, s)
    /\ UNCHANGED <<ctxDone, run, runResults, expired, supervisor, completed,
                   shutdownsPending, runErr>>

\* shutdownTimeout passes.
Expire ==
    /\ supervisor = "drain" /\ ~expired
    /\ expired' = TRUE
    /\ UNCHANGED <<ctxDone, run, hook, runResults, shutdownResults, supervisor,
                   completed, shutdownsPending, runErr>>

-----------------------------------------------------------------------------
\* The supervisor.

\* cancel(), the shutdown context, and one goroutine per Shutdown function.
BeginShutdown ==
    /\ supervisor' = "drain"
    /\ hook' = [s \in Service |-> IF s \in Hooked THEN "running" ELSE "off"]
    /\ shutdownsPending' = Cardinality(Hooked)
    /\ UNCHANGED <<ctxDone, run, shutdownResults, expired>>

\* The first select, case <-ctx.Done().
ContextEnds ==
    /\ supervisor = "select"
    /\ ctxDone
    /\ BeginShutdown
    /\ UNCHANGED <<runResults, completed, runErr>>

\* Mutant of FirstError: a service that returns nil is no error.
NilIsNoError(s) ==
    IF ctxDone \/ run[s] = "nil" THEN {} ELSE {<<s, "stopped">>}

\* What the first select records of the result it receives.
FirstError(s) ==
    IF ctxDone THEN {}
    ELSE IF run[s] = "nil" THEN {<<s, "stopped unexpectedly">>}
    ELSE {<<s, "stopped">>}

\* The first select, case result := <-runResults.
FirstServiceStops ==
    /\ supervisor = "select"
    /\ runResults # <<>>
    /\ completed' = 1
    /\ runErr' = FirstError(Head(runResults))
    /\ runResults' = Tail(runResults)
    /\ BeginShutdown

\* Mutant of Waiting: && for ||.
WaitingForBoth ==
    /\ supervisor = "drain"
    /\ completed < Cardinality(Service) /\ shutdownsPending > 0

\* for completed < len(services) || shutdownsPending > 0
Waiting ==
    /\ supervisor = "drain"
    /\ completed < Cardinality(Service) \/ shutdownsPending > 0

\* Mutant of ReceiveRun: the last error replaces the ones before.
ReceiveLastError ==
    /\ Waiting
    /\ runResults # <<>>
    /\ completed' = completed + 1
    /\ LET s == Head(runResults)
       IN  runErr' = IF run[s] = "error" THEN {<<s, "stopped">>} ELSE runErr
    /\ runResults' = Tail(runResults)
    /\ UNCHANGED <<ctxDone, run, hook, shutdownResults, expired, supervisor,
                   shutdownsPending>>

ReceiveRun ==
    /\ Waiting
    /\ runResults # <<>>
    /\ completed' = completed + 1
    /\ LET s == Head(runResults)
       IN  runErr' = IF run[s] = "error" THEN runErr \cup {<<s, "stopped">>} ELSE runErr
    /\ runResults' = Tail(runResults)
    /\ UNCHANGED <<ctxDone, run, hook, shutdownResults, expired, supervisor,
                   shutdownsPending>>

ReceiveShutdown ==
    /\ Waiting
    /\ shutdownResults # <<>>
    /\ shutdownsPending' = shutdownsPending - 1
    /\ LET s == Head(shutdownResults)
       IN  runErr' = IF hook[s] = "error" THEN runErr \cup {<<s, "shut down">>} ELSE runErr
    /\ shutdownResults' = Tail(shutdownResults)
    /\ UNCHANGED <<ctxDone, run, hook, runResults, expired, supervisor, completed>>

\* Mutant of GiveUp: the deadline bounds the Shutdown functions only.
GiveUpOnHooks ==
    /\ Waiting
    /\ expired /\ shutdownsPending > 0
    /\ runErr' = runErr \cup {TimedOut}
    /\ supervisor' = "returned"
    /\ UNCHANGED <<ctxDone, run, hook, runResults, shutdownResults, expired,
                   completed, shutdownsPending>>

\* case <-shutdownCtx.Done(): it may win over results that are ready.
GiveUp ==
    /\ Waiting
    /\ expired
    /\ runErr' = runErr \cup {TimedOut}
    /\ supervisor' = "returned"
    /\ UNCHANGED <<ctxDone, run, hook, runResults, shutdownResults, expired,
                   completed, shutdownsPending>>

Return ==
    /\ supervisor = "drain" /\ ~Waiting
    /\ supervisor' = "returned"
    /\ UNCHANGED <<ctxDone, run, hook, runResults, shutdownResults, expired,
                   completed, shutdownsPending, runErr>>

Supervisor ==
    \/ ContextEnds
    \/ FirstServiceStops
    \/ ReceiveRun
    \/ ReceiveShutdown
    \/ GiveUp
    \/ Return

\* lifecycle.Run has returned; main ends the process.
Exited == supervisor = "returned" /\ UNCHANGED vars

Next ==
    \/ Signal
    \/ \E s \in Service, result \in RunResult : ServiceReturns(s, result)
    \/ \E s \in Hooked, result \in {"nil", "error"} : HookReturns(s, result)
    \/ Expire
    \/ Supervisor
    \/ Exited

\* The supervisor's goroutine runs and time passes.  Nothing is assumed of
\* the services or their hooks: they may hang.
Spec == Init /\ [][Next]_vars /\ WF_vars(Supervisor) /\ WF_vars(Expire)

-----------------------------------------------------------------------------
\* Properties.

Returned == supervisor = "returned"

\* lifecycle.Run returns nil, and the process exits with status 0, only if it
\* was asked to stop: a service that stops by itself is never taken for a
\* clean shutdown.
NilOnlyWhenAsked == Returned /\ runErr = {} => ctxDone

\* Unless it timed out, every service has returned and every shutdown hook
\* has been called once and has returned before lifecycle.Run does, so that
\* app.Run closes the pool and the client under nobody's feet.
JoinedOrTimedOut ==
    Returned /\ TimedOut \notin runErr =>
        /\ \A s \in Service : run[s] # "running"
        /\ \A s \in Hooked : hook[s] \in {"nil", "error"}
        /\ runResults = <<>> /\ shutdownResults = <<>>

\* Of the services' own errors at most one, the first result received, can be
\* missing from the error returned, unless the shutdown timed out.
AtMostFirstErrorMissing ==
    Returned /\ TimedOut \notin runErr =>
        Cardinality({s \in Service : run[s] = "error" /\ <<s, "stopped">> \notin runErr})
            <= IF ctxDone THEN 1 ELSE 0

\* The shutdown time is bounded: once a service stops or a signal comes,
\* lifecycle.Run returns even if services or hooks hang.
BoundedShutdown ==
    (ctxDone \/ \E s \in Service : run[s] # "running") ~> Returned

\* docs/PRODUCTION_REVIEW.md, invariant 13: a fatal runtime error exits the
\* process non-zero.  A service's own error is part of what Run returns.
FatalErrorReported ==
    Returned /\ runErr = {} => \A s \in Service : run[s] # "error"
=============================================================================

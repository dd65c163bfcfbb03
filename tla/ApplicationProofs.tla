------------------------- MODULE ApplicationProofs -------------------------
(***************************************************************************)
(* lifecycle.Run for any number of services and hooks, and the settings it   *)
(* runs with for every environment: what app.Run may rely on when the        *)
(* supervisor returns, that every setting arrives where it is used, and      *)
(* which of them can still be refused after LoadConfig.                      *)
(***************************************************************************)
EXTENDS Application, FiniteSetTheorems, TLAPS

\* Services whose Run has returned, and Shutdown functions still at work.
Stopped == {s \in Service : run[s] # "running"}
HooksAtWork == {s \in Hooked : hook[s] = "running"}

\* The result of s is still in the channel.
Queued(s) == \E i \in 1..Len(runResults) : runResults[i] = s

\* Own errors whose result was received and that are not in the joined error.
Dropped ==
    {s \in Service : run[s] = "error" /\ ~Queued(s) /\ <<s, "stopped">> \notin runErr}

LifecycleTypes ==
    /\ ctxDone \in BOOLEAN
    /\ run \in [Service -> {"running"} \cup RunResult]
    /\ hook \in [Service -> {"off", "running", "nil", "error"}]
    /\ runResults \in Seq(Service)
    /\ shutdownResults \in Seq(Hooked)
    /\ supervisor \in {"select", "drain", "returned"}
    /\ completed \in Nat
    /\ shutdownsPending \in Nat

\* Before the first select is left nothing was received, joined or shut down.
SelectInv ==
    supervisor = "select" =>
        /\ completed = 0
        /\ runErr = {}
        /\ shutdownResults = <<>>
        /\ hook = [s \in Service |-> "off"]
        /\ shutdownsPending = 0

\* Every result is received or in its channel, once.
CountInv ==
    /\ completed + Len(runResults) = Cardinality(Stopped)
    /\ shutdownsPending = Len(shutdownResults) + Cardinality(HooksAtWork)
    /\ supervisor # "select" => \A s \in Hooked : hook[s] # "off"

\* A return that was not asked for left an error behind, and a result whose
\* error was dropped is the one the first select received after a signal.
ErrorInv ==
    /\ supervisor # "select" => ctxDone \/ runErr # {}
    /\ supervisor = "select" \/ ~ctxDone => Dropped = {}
    /\ \A s, t \in Dropped : s = t

\* The supervisor returns with its loop finished, or with the timeout's error.
ReturnInv == Returned => TimedOut \in runErr \/ ~(completed < Cardinality(Service) \/ shutdownsPending > 0)

LifecycleInv == LifecycleTypes /\ SelectInv /\ CountInv /\ ErrorInv /\ ReturnInv

-----------------------------------------------------------------------------
\* The sets that are counted are finite.
LEMMA CountedSets ==
    /\ IsFiniteSet(Service) /\ IsFiniteSet(Hooked)
    /\ IsFiniteSet(Stopped) /\ IsFiniteSet(HooksAtWork)
    /\ Cardinality(Stopped) \in Nat /\ Cardinality(HooksAtWork) \in Nat
    /\ Cardinality(Service) \in Nat /\ Cardinality(Hooked) \in Nat
    /\ Cardinality(Stopped) <= Cardinality(Service)
    /\ Cardinality(Stopped) = Cardinality(Service) => Stopped = Service
  <1>1. IsFiniteSet(Service) /\ Hooked \in SUBSET Service
    BY ServiceAssumption
  <1>2. IsFiniteSet(Hooked)
    BY <1>1, FS_Subset
  <1>3. Stopped \in SUBSET Service /\ HooksAtWork \in SUBSET Hooked
    BY DEF Stopped, HooksAtWork
  <1>4. /\ IsFiniteSet(Stopped)
        /\ Cardinality(Stopped) <= Cardinality(Service)
        /\ Cardinality(Service) = Cardinality(Stopped) => Service = Stopped
    BY <1>1, <1>3, FS_Subset
  <1>5. IsFiniteSet(HooksAtWork)
    BY <1>2, <1>3, FS_Subset
  <1> QED
    BY <1>1, <1>2, <1>4, <1>5, FS_CardinalityType

\* Every service is started, and nothing else has happened.
LEMMA InitLifecycle == Init => LifecycleInv
  <1> SUFFICES ASSUME Init PROVE LifecycleInv
    OBVIOUS
  <1>0. <<>> \in Seq(Service) /\ <<>> \in Seq(Hooked)
    OBVIOUS
  <1>1. LifecycleTypes
    BY <1>0 DEF Init, LifecycleTypes, RunResult
  <1>2. SelectInv
    BY DEF Init, SelectInv
  <1>3. Stopped = {} /\ HooksAtWork = {}
    BY ServiceAssumption DEF Init, Stopped, HooksAtWork
  <1>4. CountInv
    BY <1>3, FS_EmptySet DEF Init, CountInv
  <1>5. ErrorInv
    BY DEF Init, ErrorInv, Dropped
  <1>6. ReturnInv
    BY DEF Init, ReturnInv, Returned
  <1> QED
    BY <1>1, <1>2, <1>4, <1>5, <1>6 DEF LifecycleInv

\* A service returns: one more has stopped, and its result is queued.
LEMMA ServiceReturnsKeeps ==
    ASSUME LifecycleInv, NEW s \in Service, NEW result \in RunResult, ServiceReturns(s, result)
    PROVE  LifecycleInv'
  <1> USE DEF LifecycleInv, LifecycleTypes, ServiceReturns
  <1>0. result # "running" /\ run[s] = "running"
    BY DEF RunResult
  <1>1. LifecycleTypes'
    OBVIOUS
  <1>2. SelectInv'
    BY DEF SelectInv
  <1>3. Stopped' = Stopped \cup {s} /\ s \notin Stopped /\ HooksAtWork' = HooksAtWork
    BY <1>0 DEF Stopped, HooksAtWork
  <1>4. Cardinality(Stopped') = Cardinality(Stopped) + 1
    BY <1>3, CountedSets, FS_AddElement
  <1>5. Len(runResults') = Len(runResults) + 1
    OBVIOUS
  <1>6. CountInv'
    BY <1>3, <1>4, <1>5, CountedSets DEF CountInv
  <1>7. Dropped' \subseteq Dropped
    <2> SUFFICES ASSUME NEW t \in Dropped' PROVE t \in Dropped
      OBVIOUS
    <2>1. t # s
      <3>1. runResults'[Len(runResults) + 1] = s /\ Len(runResults) + 1 \in 1..Len(runResults')
        BY <1>5
      <3> QED
        BY <3>1 DEF Dropped, Queued
    <2>2. ASSUME Queued(t) PROVE Queued(t)'
      <3>1. PICK i \in 1..Len(runResults) : runResults[i] = t
        BY <2>2 DEF Queued
      <3>2. runResults'[i] = t /\ i \in 1..Len(runResults')
        BY <3>1, <1>5
      <3> QED
        BY <3>2 DEF Queued
    <2> QED
      BY <2>1, <2>2 DEF Dropped
  <1>8. ErrorInv'
    BY <1>7 DEF ErrorInv
  <1>9. ReturnInv'
    BY DEF ReturnInv, Returned
  <1> QED
    BY <1>1, <1>2, <1>6, <1>8, <1>9

\* A Shutdown function returns: one less at work, and its result is queued.
LEMMA HookReturnsKeeps ==
    ASSUME LifecycleInv, NEW s \in Hooked, NEW result \in {"nil", "error"}, HookReturns(s, result)
    PROVE  LifecycleInv'
  <1> USE DEF LifecycleInv, LifecycleTypes, HookReturns
  <1>0. s \in Service /\ hook[s] = "running"
    BY ServiceAssumption
  <1>1. LifecycleTypes'
    BY <1>0
  <1>2. SelectInv'
    BY <1>0 DEF SelectInv
  <1>3. HooksAtWork' = HooksAtWork \ {s} /\ s \in HooksAtWork /\ Stopped' = Stopped
    BY <1>0, ServiceAssumption DEF Stopped, HooksAtWork
  <1>4. Cardinality(HooksAtWork') = Cardinality(HooksAtWork) - 1
    BY <1>3, CountedSets, FS_RemoveElement
  <1>5. Len(shutdownResults') = Len(shutdownResults) + 1
    OBVIOUS
  <1>6. CountInv'
    BY <1>0, <1>3, <1>4, <1>5, CountedSets, ServiceAssumption DEF CountInv
  <1>7. Dropped' = Dropped
    BY DEF Dropped, Queued
  <1>8. ErrorInv'
    BY <1>7 DEF ErrorInv
  <1>9. ReturnInv'
    BY DEF ReturnInv, Returned
  <1> QED
    BY <1>1, <1>2, <1>6, <1>8, <1>9

\* Taking a result from the channel un-queues the first service only.
LEMMA TakeResult ==
    ASSUME LifecycleTypes, runResults # <<>>, runResults' = Tail(runResults)
    PROVE  /\ Head(runResults) \in Service
           /\ runResults' \in Seq(Service)
           /\ Len(runResults') = Len(runResults) - 1
           /\ \A t \in Service : Queued(t) => Queued(t)' \/ t = Head(runResults)
  <1> USE DEF LifecycleTypes
  <1>1. Head(runResults) = runResults[1] /\ Head(runResults) \in Service /\ Len(runResults) >= 1
    OBVIOUS
  <1>2. runResults' \in Seq(Service) /\ Len(runResults') = Len(runResults) - 1
    OBVIOUS
  <1>3. ASSUME NEW t \in Service, Queued(t), t # Head(runResults) PROVE Queued(t)'
    <2>1. PICK i \in 1..Len(runResults) : runResults[i] = t
      BY <1>3 DEF Queued
    <2>2. i - 1 \in 1..Len(runResults') /\ runResults'[i - 1] = t
      BY <1>1, <1>2, <1>3, <2>1
    <2> QED
      BY <2>2 DEF Queued
  <1> QED
    BY <1>1, <1>2, <1>3

\* The shutdown begins: every hook is at work.
LEMMA HooksBegin ==
    ASSUME LifecycleInv, BeginShutdown, supervisor = "select"
    PROVE  /\ shutdownsPending' = Len(shutdownResults') + Cardinality(HooksAtWork')
           /\ \A s \in Hooked : hook'[s] = "running"
           /\ Stopped' = Stopped
           /\ hook' \in [Service -> {"off", "running", "nil", "error"}]
  <1> USE DEF LifecycleInv, BeginShutdown
  <1>1. \A s \in Hooked : hook'[s] = "running"
    BY ServiceAssumption
  <1>2. HooksAtWork' = Hooked
    BY <1>1 DEF HooksAtWork
  <1>3. Len(shutdownResults') = 0
    BY DEF SelectInv
  <1> QED
    BY <1>1, <1>2, <1>3, CountedSets DEF Stopped

\* The context ends: nothing was received, so nothing was dropped.
LEMMA ContextEndsKeeps ==
    ASSUME LifecycleInv, ContextEnds
    PROVE  LifecycleInv'
  <1> USE DEF LifecycleInv, ContextEnds
  <1>1. LifecycleTypes'
    BY HooksBegin, CountedSets DEF LifecycleTypes, BeginShutdown
  <1>2. SelectInv' /\ ReturnInv'
    BY DEF SelectInv, ReturnInv, Returned, BeginShutdown
  <1>3. CountInv'
    BY HooksBegin DEF CountInv
  <1>4. Dropped' = Dropped
    BY DEF Dropped, Queued, BeginShutdown
  <1>5. ErrorInv'
    BY <1>4 DEF ErrorInv, BeginShutdown
  <1> QED
    BY <1>1, <1>2, <1>3, <1>5

\* The first result: only when the context has ended too is its error dropped.
LEMMA FirstServiceStopsKeeps ==
    ASSUME LifecycleInv, FirstServiceStops
    PROVE  LifecycleInv'
  <1> DEFINE first == Head(runResults)
  <1> USE DEF LifecycleInv, FirstServiceStops
  <1>1. LifecycleTypes'
    BY HooksBegin, TakeResult, CountedSets DEF LifecycleTypes, BeginShutdown
  <1>2. SelectInv' /\ ReturnInv'
    BY DEF SelectInv, ReturnInv, Returned, BeginShutdown
  <1>3. completed = 0 /\ runErr = {} /\ Dropped = {}
    BY DEF SelectInv, ErrorInv
  <1>4. CountInv'
    BY <1>3, HooksBegin, TakeResult DEF CountInv, LifecycleTypes
  <1>5. \A t \in Dropped' : t = first /\ ctxDone /\ run[t] = "error"
    <2> SUFFICES ASSUME NEW t \in Dropped' PROVE t = first /\ ctxDone /\ run[t] = "error"
      OBVIOUS
    <2>1. t \in Service /\ run[t] = "error" /\ ~Queued(t)' /\ <<t, "stopped">> \notin runErr'
      BY DEF Dropped, BeginShutdown
    <2>2. Queued(t)
      BY <1>3, <2>1 DEF Dropped
    <2>3. t = first
      BY <2>1, <2>2, TakeResult
    <2>4. ctxDone
      BY <2>1, <2>3 DEF FirstError
    <2> QED
      BY <2>1, <2>3, <2>4
  <1>6. ctxDone' = ctxDone /\ supervisor' = "drain"
    BY DEF BeginShutdown
  <1>7. ctxDone \/ runErr' # {}
    BY DEF FirstError
  <1>8. ErrorInv'
    BY <1>5, <1>6, <1>7 DEF ErrorInv
  <1> QED
    BY <1>1, <1>2, <1>4, <1>8

\* A further result: its error is joined.
LEMMA ReceiveRunKeeps ==
    ASSUME LifecycleInv, ReceiveRun
    PROVE  LifecycleInv'
  <1> USE DEF LifecycleInv, ReceiveRun, Waiting
  <1>1. LifecycleTypes'
    BY TakeResult DEF LifecycleTypes
  <1>2. SelectInv' /\ ReturnInv'
    BY DEF SelectInv, ReturnInv, Returned
  <1>3. Stopped' = Stopped /\ HooksAtWork' = HooksAtWork
    BY DEF Stopped, HooksAtWork
  <1>4. CountInv'
    BY <1>3, TakeResult DEF CountInv, LifecycleTypes
  <1>5. Dropped' \subseteq Dropped
    BY TakeResult DEF Dropped
  <1>6. ErrorInv'
    BY <1>5 DEF ErrorInv
  <1> QED
    BY <1>1, <1>2, <1>4, <1>6

\* Receiving from a channel that holds something shortens it by one.
LEMMA TailShorter ==
    ASSUME NEW S, NEW q \in Seq(S), q # <<>>
    PROVE  /\ Tail(q) \in Seq(S)
           /\ Len(Tail(q)) = Len(q) - 1
           /\ Len(q) \in Nat /\ Len(q) >= 1
  OBVIOUS

\* The result of a Shutdown function: its error is joined.
LEMMA ReceiveShutdownKeeps ==
    ASSUME LifecycleInv, ReceiveShutdown
    PROVE  LifecycleInv'
  <1> USE DEF LifecycleInv, ReceiveShutdown, Waiting
  <1>0. shutdownResults \in Seq(Hooked) /\ shutdownResults # <<>>
    BY DEF LifecycleTypes
  <1>1. /\ Tail(shutdownResults) \in Seq(Hooked)
        /\ Len(Tail(shutdownResults)) = Len(shutdownResults) - 1
        /\ Len(shutdownResults) \in Nat /\ Len(shutdownResults) >= 1
    BY <1>0, TailShorter
  <1>2. /\ shutdownsPending' = Len(Tail(shutdownResults)) + Cardinality(HooksAtWork)
        /\ shutdownsPending' \in Nat
    <2>1. /\ shutdownsPending = Len(shutdownResults) + Cardinality(HooksAtWork)
          /\ shutdownsPending' = shutdownsPending - 1
      BY DEF CountInv
    <2>2. Cardinality(HooksAtWork) \in Nat
      BY CountedSets
    <2> HIDE DEF LifecycleInv, ReceiveShutdown, Waiting
    <2> QED
      BY <1>1, <2>1, <2>2
  <1>3. LifecycleTypes'
    BY <1>1, <1>2 DEF LifecycleTypes
  <1>4. SelectInv' /\ ReturnInv'
    BY DEF SelectInv, ReturnInv, Returned
  <1>5. Stopped' = Stopped /\ HooksAtWork' = HooksAtWork
    BY DEF Stopped, HooksAtWork
  <1>6. CountInv'
    BY <1>2, <1>5 DEF CountInv
  <1>7. Dropped' \subseteq Dropped
    BY DEF Dropped, Queued
  <1>8. ErrorInv'
    BY <1>7 DEF ErrorInv
  <1> QED
    BY <1>3, <1>4, <1>6, <1>8

\* A step that leaves results, services and hooks alone keeps the invariant if
\* it accounts for what it does to the supervisor.
LEMMA OtherStepsKeep ==
    ASSUME LifecycleInv, Signal \/ Expire \/ GiveUp \/ Return \/ UNCHANGED vars
    PROVE  LifecycleInv'
  <1> USE DEF LifecycleInv, Signal, Expire, GiveUp, Return, Waiting, vars
  <1>1. LifecycleTypes'
    BY DEF LifecycleTypes
  <1>2. SelectInv'
    BY DEF SelectInv
  <1>3. Stopped' = Stopped /\ HooksAtWork' = HooksAtWork
    BY DEF Stopped, HooksAtWork
  <1>4. CountInv'
    BY <1>3 DEF CountInv
  <1>5. Dropped' \subseteq Dropped
    BY DEF Dropped, Queued
  <1>6. ErrorInv'
    BY <1>5 DEF ErrorInv, LifecycleTypes
  <1>7. ReturnInv'
    BY DEF ReturnInv, Returned
  <1> QED
    BY <1>1, <1>2, <1>4, <1>6, <1>7

\* Every step of the services, the hooks and the supervisor keeps it.
LEMMA NextLifecycle == LifecycleInv /\ [Next]_vars => LifecycleInv'
  <1> SUFFICES ASSUME LifecycleInv, [Next]_vars PROVE LifecycleInv'
    OBVIOUS
  <1>1. ASSUME NEW s \in Service, NEW result \in RunResult, ServiceReturns(s, result)
        PROVE  LifecycleInv'
    BY <1>1, ServiceReturnsKeeps
  <1>2. ASSUME NEW s \in Hooked, NEW result \in {"nil", "error"}, HookReturns(s, result)
        PROVE  LifecycleInv'
    BY <1>2, HookReturnsKeeps
  <1>3. CASE Supervisor
    BY <1>3, ContextEndsKeeps, FirstServiceStopsKeeps, ReceiveRunKeeps,
       ReceiveShutdownKeeps, OtherStepsKeep DEF Supervisor
  <1>4. CASE Signal \/ Expire \/ Exited \/ UNCHANGED vars
    BY <1>4, OtherStepsKeep DEF Exited
  <1> QED
    BY <1>1, <1>2, <1>3, <1>4 DEF Next

\* lifecycle.Run always satisfies its inductive invariant.
LEMMA LifecycleAlways == Spec => []LifecycleInv
  BY InitLifecycle, NextLifecycle, PTL DEF Spec

-----------------------------------------------------------------------------
\* lifecycle.Run returns nil only if it was asked to stop, whatever services
\* return by themselves and however the shutdown goes.
THEOREM NilTheorem == Spec => []NilOnlyWhenAsked
  <1>1. LifecycleInv => NilOnlyWhenAsked
    BY DEF LifecycleInv, ErrorInv, NilOnlyWhenAsked, Returned
  <1> QED
    BY <1>1, LifecycleAlways, PTL

\* When lifecycle.Run returns without a timeout, every service and every hook
\* has returned and its result was taken, for any set of services.
LEMMA Joined == LifecycleInv => JoinedOrTimedOut
  <1> SUFFICES ASSUME LifecycleInv, Returned, TimedOut \notin runErr
               PROVE  /\ \A s \in Service : run[s] # "running"
                      /\ \A s \in Hooked : hook[s] \in {"nil", "error"}
                      /\ runResults = <<>> /\ shutdownResults = <<>>
    BY DEF JoinedOrTimedOut
  <1> USE DEF LifecycleInv, LifecycleTypes
  <1>1. completed >= Cardinality(Service) /\ shutdownsPending = 0
    BY CountedSets DEF ReturnInv
  <1>2. Len(runResults) \in Nat /\ Len(shutdownResults) \in Nat
    OBVIOUS
  <1>3. Len(runResults) = 0 /\ Cardinality(Stopped) = Cardinality(Service)
    BY <1>1, <1>2, CountedSets DEF CountInv
  <1>4. Len(shutdownResults) = 0 /\ Cardinality(HooksAtWork) = 0
    BY <1>1, <1>2, CountedSets DEF CountInv
  <1>5. Stopped = Service /\ HooksAtWork = {}
    BY <1>3, <1>4, CountedSets, FS_EmptySet
  <1>6. \A s \in Hooked : hook[s] \notin {"off", "running"}
    BY <1>5 DEF CountInv, HooksAtWork, Returned
  <1>7. runResults = <<>> /\ shutdownResults = <<>>
    BY <1>3, <1>4
  <1> QED
    BY <1>5, <1>6, <1>7, ServiceAssumption DEF Stopped

\* app.Run closes the pool and the RPC client only after everything that uses
\* them has returned, or after the shutdown timeout.
THEOREM JoinTheorem == Spec => []JoinedOrTimedOut
  BY Joined, LifecycleAlways, PTL

\* Of the services' own errors only the first result received can be missing
\* from what lifecycle.Run returns, and only after a signal.
THEOREM ErrorTheorem == Spec => []AtMostFirstErrorMissing
  <1>1. LifecycleInv => AtMostFirstErrorMissing
    <2> SUFFICES ASSUME LifecycleInv, Returned, TimedOut \notin runErr
                 PROVE  Cardinality({s \in Service : run[s] = "error" /\ <<s, "stopped">> \notin runErr})
                            <= IF ctxDone THEN 1 ELSE 0
      BY DEF AtMostFirstErrorMissing
    <2>1. runResults = <<>>
      BY Joined DEF JoinedOrTimedOut
    <2>2. Dropped = {s \in Service : run[s] = "error" /\ <<s, "stopped">> \notin runErr}
      BY <2>1 DEF Dropped, Queued
    <2>3. ~ctxDone => Dropped = {}
      BY DEF LifecycleInv, ErrorInv
    <2>4. Dropped = {} \/ \E s : Dropped = {s}
      BY DEF LifecycleInv, ErrorInv
    <2>5. Cardinality(Dropped) <= IF ctxDone THEN 1 ELSE 0
      <3>1. CASE Dropped = {}
        BY <3>1, FS_EmptySet
      <3>2. ASSUME NEW s, Dropped = {s} PROVE Cardinality(Dropped) <= IF ctxDone THEN 1 ELSE 0
        <4>1. Cardinality(Dropped) = 1
          BY <3>2, FS_Singleton
        <4>2. ctxDone
          BY <2>3, <3>2
        <4> QED
          BY <4>1, <4>2
      <3> QED
        BY <2>4, <3>1, <3>2
    <2> QED
      BY <2>2, <2>5
  <1> QED
    BY <1>1, LifecycleAlways, PTL

-----------------------------------------------------------------------------
\* The settings.

\* What each component is handed when config is what was loaded.
Handed(c) ==
    CASE c = "node" -> config.EthereumRPCURL
      [] c = "rpc" -> ethereumRPCConfig(RPCConfig(config))
      [] c = "pool" -> config.DatabaseURL
      [] c = "reorg" -> StartBlockArguments
      [] c = "indexer" -> IndexerSettings
      [] c = "server" -> ServerSettings
      [] c = "pprof" -> ProfilingSettings
      [] c = "supervisor" -> config.ShutdownTimeout

\* A component that refused a setting refused a text, the server's once the
\* services run, the others before the chain is compared with the database.
RefusalInv ==
    /\ endedBy \in {Nobody, "LoadConfig", "unavailable", "node", "pool", "server"}
    /\ endedBy = "node" =>
          config.EthereumRPCURL \notin WellFormed["ETH_RPC_URL"] /\ stage = "loaded"
    /\ endedBy = "pool" =>
          config.DatabaseURL \notin WellFormed["DATABASE_URL"] /\ stage = "client"
    /\ endedBy = "server" =>
          config.HTTPAddress \notin WellFormed["HTTP_ADDRESS"] /\ stage = "running"

\* The components that have their settings when app.Run is at a stage, and the
\* ones that have not.
GivenAt ==
    CASE stage = "dialled" -> {"node"}
      [] stage = "client" -> {"node", "rpc"}
      [] stage = "pool" -> {"node", "rpc", "pool"}
      [] stage = "reconciled" -> {"node", "rpc", "pool", "reorg"}
      [] stage = "running" -> Component \ {"pprof"}
      [] OTHER -> {}
GivenInv ==
    /\ stage = "deploy" => DOMAIN given = {}
    /\ GivenAt \subseteq DOMAIN given
    /\ stage \in {"loaded", "dialled", "client"} => "reorg" \notin DOMAIN given
    /\ "pprof" \in DOMAIN given <=> stage = "running" /\ config.ProfilingAddress # Absent
    /\ \A c \in DOMAIN given : c \in Component /\ given[c] = Handed(c)

\* A loaded configuration is what the environment says, which nothing changes
\* any more; it parsed and passed Config.Validate.
LoadedInv ==
    /\ stage \in {"deploy", "loaded", "dialled", "client", "pool", "reconciled", "running"}
    /\ stage = "deploy" => endedBy \in {Nobody, "LoadConfig"}
    /\ stage # "deploy" =>
          /\ config = Loaded /\ Valid(config)
          /\ config.PollInterval \in Int /\ config.WorkerCount \in Int

ConfigInv == LoadedInv /\ GivenInv /\ RefusalInv

\* A variable that is set is what is read, and what stands for an address or a
\* URL that is not set is not taken for one.
LEMMA ReadPresent ==
    ASSUME NEW n, NEW default
    PROVE  /\ Present(n) => Read(n, default) = env[n] /\ env[n] # Absent
           /\ ~Present(n) => Read(n, default) = default
  BY DEF Read, Present

\* LoadConfig establishes the invariant.
LEMMA LoadStep == ConfigInv /\ LoadConfig => ConfigInv'
  <1> SUFFICES ASSUME ConfigInv, LoadConfig PROVE ConfigInv'
    OBVIOUS
  <1>1. stage = "deploy" /\ endedBy = Nobody /\ DOMAIN given = {}
    BY DEF LoadConfig, ConfigInv, GivenInv
  <1>2. UNCHANGED <<env, given>> /\ Loaded' = Loaded
    BY DEF LoadConfig, Loaded, Read, Present
  <1>3. CASE ReadFails \/ ~Valid(Loaded)
    <2>1. stage' = "deploy" /\ endedBy' = "LoadConfig" /\ UNCHANGED config
      BY <1>1, <1>3 DEF LoadConfig
    <2> QED
      BY <1>1, <1>2, <2>1 DEF ConfigInv, LoadedInv, GivenInv, GivenAt, RefusalInv, Nobody
  <1>4. CASE ~(ReadFails \/ ~Valid(Loaded))
    <2>1. stage' = "loaded" /\ config' = Loaded /\ endedBy' = Nobody
      BY <1>1, <1>4 DEF LoadConfig
    <2>2. Valid(config')
      BY <1>4, <2>1
    <2>3. Loaded.PollInterval \in Int /\ Loaded.WorkerCount \in Int
      <3>1. /\ Present("POLL_INTERVAL") => env["POLL_INTERVAL"] \in Int
            /\ Present("WORKER_COUNT") => env["WORKER_COUNT"] \in Int
        BY <1>4 DEF ReadFails, IntVars, DurationVars
      <3>2. /\ Loaded.PollInterval = Read("POLL_INTERVAL", Default.PollInterval)
            /\ Loaded.WorkerCount = Read("WORKER_COUNT", Default.WorkerCount)
        BY DEF Loaded
      <3> QED
        BY <3>1, <3>2, ReadPresent, DefaultAssumption
    <2>4. LoadedInv'
      BY <1>2, <2>1, <2>2, <2>3 DEF LoadedInv
    <2>5. GivenInv'
      BY <1>1, <1>2, <2>1 DEF GivenInv, GivenAt
    <2> QED
      BY <2>1, <2>4, <2>5 DEF ConfigInv, RefusalInv, Nobody
  <1> QED
    BY <1>3, <1>4

\* A step of app.Run that leaves the environment and the configuration alone
\* keeps what was loaded.
LEMMA LoadedKept ==
    ASSUME ConfigInv, stage # "deploy", UNCHANGED <<env, config>>,
           stage' \in {"loaded", "dialled", "client", "pool", "reconciled", "running"}
    PROVE  LoadedInv' /\ \A c : Handed(c)' = Handed(c)
  <1>1. Loaded' = Loaded
    BY DEF Loaded, Read, Present
  <1>2. \A c : Handed(c)' = Handed(c)
    BY DEF Handed, ethereumRPCConfig, RPCConfig, StartBlockArguments, IndexerSettings,
           ServerSettings, ProfilingSettings
  <1> QED
    BY <1>1, <1>2 DEF ConfigInv, LoadedInv

\* A component that is given its settings has them, and every other component
\* has what it had.
LEMMA GiveStep ==
    ASSUME ConfigInv, stage # "deploy",
           NEW from, NEW to \in {"dialled", "client", "pool", "reconciled"},
           NEW component \in {"node", "rpc", "pool", "reorg"},
           NEW accepted, Give(from, to, component, Handed(component), accepted),
           accepted \in BOOLEAN
    PROVE  /\ LoadedInv'
           /\ DOMAIN given' = DOMAIN given \cup {component}
           /\ \A c \in DOMAIN given' : c \in Component /\ given'[c] = Handed(c)'
           /\ stage = from /\ config' = config
           /\ accepted => stage' = to /\ endedBy' = Nobody
           /\ ~accepted => stage' = from /\ endedBy' = component
  <1>1. UNCHANGED <<env, config>> /\ stage = from
    BY DEF Give
  <1>2. /\ accepted => stage' = to /\ endedBy' = Nobody
        /\ ~accepted => stage' = from /\ endedBy' = component
    BY DEF Give
  <1>3. LoadedInv' /\ \A c : Handed(c)' = Handed(c)
    BY <1>1, <1>2, LoadedKept DEF ConfigInv, LoadedInv
  <1>4. DOMAIN given' = DOMAIN given \cup {component}
    BY DEF Give
  <1>5. \A c \in DOMAIN given' : c \in Component /\ given'[c] = Handed(c)
    BY <1>4 DEF Give, ConfigInv, GivenInv, Component
  <1> QED
    BY <1>1, <1>2, <1>3, <1>4, <1>5

\* Every check a component makes of a number is one that Config.Validate made
\* before, on the same field.
LEMMA NextConfig == ConfigInv /\ [ConfigNext]_configVars => ConfigInv'
  <1> SUFFICES ASSUME ConfigInv, [ConfigNext]_configVars PROVE ConfigInv'
    OBVIOUS
  <1>1. ASSUME NEW n \in Variables, NEW v \in EnvValues(n), SetVariable(n, v) PROVE ConfigInv'
    BY <1>1 DEF SetVariable, ConfigInv, LoadedInv, GivenInv, GivenAt, RefusalInv
  <1>2. ASSUME stage \notin {"deploy"} PROVE config = Loaded /\ Valid(config)
    BY <1>2 DEF ConfigInv, LoadedInv
  <1>3. CASE DialNode
    <2> DEFINE ok == Valid(config) /\ config.EthereumRPCURL \in WellFormed["ETH_RPC_URL"]
    <2>1. stage = "loaded" /\ Give("loaded", "dialled", "node", Handed("node"), ok)
      BY <1>3 DEF DialNode, Give, Handed
    <2>2. ok \in BOOLEAN /\ (ok <=> config.EthereumRPCURL \in WellFormed["ETH_RPC_URL"])
      BY <1>2, <2>1
    <2> HIDE DEF ok
    <2>3. /\ LoadedInv' /\ config' = config
          /\ DOMAIN given' = DOMAIN given \cup {"node"}
          /\ \A c \in DOMAIN given' : c \in Component /\ given'[c] = Handed(c)'
          /\ ok => stage' = "dialled" /\ endedBy' = Nobody
          /\ ~ok => stage' = "loaded" /\ endedBy' = "node"
      BY <2>1, <2>2, GiveStep
    <2>4. GivenInv'
      BY <2>1, <2>3 DEF ConfigInv, GivenInv, GivenAt
    <2> QED
      BY <2>2, <2>3, <2>4 DEF ConfigInv, RefusalInv, Nobody
  <1>4. CASE CreateClient
    <2> DEFINE ok == RPCResilienceValid(ethereumRPCConfig(RPCConfig(config)))
    <2>1. stage = "dialled" /\ Give("dialled", "client", "rpc", Handed("rpc"), ok)
      BY <1>4 DEF CreateClient, Give, Handed
    <2>2. ok = TRUE
      BY <1>2, <2>1 DEF Valid, RPCConfigValid, RPCResilienceValid, ethereumRPCConfig, RPCConfig
    <2> HIDE DEF ok
    <2>3. /\ LoadedInv' /\ config' = config
          /\ DOMAIN given' = DOMAIN given \cup {"rpc"}
          /\ \A c \in DOMAIN given' : c \in Component /\ given'[c] = Handed(c)'
          /\ stage' = "client" /\ endedBy' = Nobody
      BY <2>1, <2>2, GiveStep
    <2>4. GivenInv'
      BY <2>1, <2>3 DEF ConfigInv, GivenInv, GivenAt
    <2> QED
      BY <2>3, <2>4 DEF ConfigInv, RefusalInv, Nobody
  <1>5. CASE OpenPool
    <2> DEFINE ok == config.DatabaseURL \in WellFormed["DATABASE_URL"]
    <2>1. stage = "client" /\ Give("client", "pool", "pool", Handed("pool"), ok)
      BY <1>5 DEF OpenPool, Give, Handed
    <2>2. ok \in BOOLEAN
      OBVIOUS
    <2> HIDE DEF ok
    <2>3. /\ LoadedInv' /\ config' = config
          /\ DOMAIN given' = DOMAIN given \cup {"pool"}
          /\ \A c \in DOMAIN given' : c \in Component /\ given'[c] = Handed(c)'
          /\ ok => stage' = "pool" /\ endedBy' = Nobody
          /\ ~ok => stage' = "client" /\ endedBy' = "pool"
      BY <2>1, <2>2, GiveStep
    <2>4. GivenInv'
      BY <2>1, <2>3 DEF ConfigInv, GivenInv, GivenAt
    <2> QED
      BY <2>3, <2>4 DEF ok, ConfigInv, RefusalInv, Nobody
  <1>6. CASE DetermineStartBlock
    <2> DEFINE ok == StartBlockArguments.maxReorgDepth # 0
    <2>1. stage = "pool" /\ Give("pool", "reconciled", "reorg", Handed("reorg"), ok)
      BY <1>6 DEF DetermineStartBlock, Give, Handed
    <2>2. ok = TRUE
      BY <1>2, <2>1 DEF Valid, StartBlockArguments
    <2> HIDE DEF ok
    <2>3. /\ LoadedInv' /\ config' = config
          /\ DOMAIN given' = DOMAIN given \cup {"reorg"}
          /\ \A c \in DOMAIN given' : c \in Component /\ given'[c] = Handed(c)'
          /\ stage' = "reconciled" /\ endedBy' = Nobody
      BY <2>1, <2>2, GiveStep
    <2>4. GivenInv'
      BY <2>1, <2>3 DEF ConfigInv, GivenInv, GivenAt
    <2> QED
      BY <2>3, <2>4 DEF ConfigInv, RefusalInv, Nobody
  <1>7. CASE RunServices
    <2>1. stage = "reconciled" /\ UNCHANGED <<env, config>>
      BY <1>7 DEF RunServices
    <2>2. config.ShutdownTimeout > 0
      BY <1>2, <2>1 DEF Valid
    <2>3. stage' = "running" /\ endedBy' = Nobody
      BY <1>7, <2>2 DEF RunServices
    <2>4. LoadedInv' /\ \A c : Handed(c)' = Handed(c)
      BY <2>1, <2>3, LoadedKept
    <2>5. DOMAIN given' = DOMAIN given \cup Services
      BY <1>7 DEF RunServices
    <2>6. \A c \in DOMAIN given' : c \in Component /\ given'[c] = Handed(c)
      BY <1>7, <2>5 DEF RunServices, Services, Handed, ConfigInv, GivenInv, Component
    <2>7. GivenInv'
      BY <2>1, <2>3, <2>4, <2>5, <2>6 DEF ConfigInv, GivenInv, GivenAt, Services, Component
    <2> QED
      BY <2>3, <2>4, <2>7 DEF ConfigInv, RefusalInv, Nobody
  <1>8. CASE Unavailable
    <2>1. stage = "pool" /\ endedBy' = "unavailable" /\ UNCHANGED <<env, config, given, stage>>
      BY <1>8 DEF Unavailable
    <2>2. LoadedInv' /\ \A c : Handed(c)' = Handed(c)
      BY <2>1, LoadedKept
    <2> QED
      BY <2>1, <2>2 DEF ConfigInv, GivenInv, GivenAt, RefusalInv, Nobody
  <1>9. ASSUME NEW component \in Component, ServiceRefuses(component) PROVE ConfigInv'
    <2>1. /\ stage = "running" /\ endedBy' = component
          /\ component \in DOMAIN given /\ Unusable(component)
          /\ UNCHANGED <<env, config, given, stage>>
      BY <1>9 DEF ServiceRefuses
    <2>2. given[component] = Handed(component)
      BY <2>1 DEF ConfigInv, GivenInv
    <2>3. component # "indexer"
      <3> SUFFICES ASSUME component = "indexer" PROVE FALSE
        OBVIOUS
      <3>1. given["indexer"].pollInterval <= 0 \/ given["indexer"].workerCount <= 0
        BY <2>1 DEF Unusable
      <3>2. /\ given["indexer"].pollInterval = config.PollInterval
            /\ given["indexer"].workerCount = config.WorkerCount
        BY <2>2 DEF Handed, IndexerSettings
      <3>3. /\ config.PollInterval \in Int /\ config.WorkerCount \in Int
            /\ config.PollInterval > 0 /\ config.WorkerCount > 0
        BY <1>2, <2>1 DEF ConfigInv, LoadedInv, Valid
      <3> QED
        BY <3>1, <3>2, <3>3
    <2>4. component # "pprof"
      <3> SUFFICES ASSUME component = "pprof" PROVE FALSE
        OBVIOUS
      <3> DEFINE a == config.ProfilingAddress
      <3>1. given["pprof"].Addr = a
        BY <2>2 DEF Handed, ProfilingSettings
      <3>2. LocalAddress(a)
        BY <1>2, <2>1 DEF ConfigInv, GivenInv, Valid
      <3>3. a \notin Addresses \/ a.port \notin 0..MaxPort \/ a.host = "other name"
        BY <2>1, <3>1 DEF Unusable
      <3> HIDE DEF a
      <3>4. a \in Addresses /\ a.port \in 1..MaxPort /\ a.host \in {"localhost", "loopback IP"}
        BY <3>2 DEF LocalAddress
      <3>5. \A n \in Nat : 1..n \subseteq 0..n
        OBVIOUS
      <3>6. MaxPort \in Nat
        BY DEF MaxPort
      <3> QED
        BY <3>3, <3>4, <3>5, <3>6
    <2>5. component = "server" /\ config.HTTPAddress \notin WellFormed["HTTP_ADDRESS"]
      <3>1. component = "server" /\ given["server"].Addr \notin WellFormed["HTTP_ADDRESS"]
        BY <2>1, <2>3, <2>4 DEF Unusable
      <3> QED
        BY <2>2, <3>1 DEF Handed, ServerSettings
    <2>6. LoadedInv' /\ \A c : Handed(c)' = Handed(c)
      BY <2>1, LoadedKept
    <2> QED
      BY <2>1, <2>5, <2>6 DEF ConfigInv, GivenInv, GivenAt, RefusalInv, Nobody
  <1>10. CASE UNCHANGED configVars
    <2>1. UNCHANGED <<env, config, given, stage, endedBy>>
      BY <1>10 DEF configVars
    <2>2. CASE stage = "deploy"
      BY <2>1, <2>2 DEF ConfigInv, LoadedInv, GivenInv, GivenAt, RefusalInv
    <2>3. CASE stage # "deploy"
      <3>1. LoadedInv' /\ \A c : Handed(c)' = Handed(c)
        BY <2>1, <2>3, LoadedKept DEF ConfigInv, LoadedInv
      <3> QED
        BY <2>1, <3>1 DEF ConfigInv, GivenInv, GivenAt, RefusalInv
    <2> QED
      BY <2>2, <2>3
  <1> QED
    BY <1>1, LoadStep, <1>3, <1>4, <1>5, <1>6, <1>7, <1>8, <1>9, <1>10 DEF ConfigNext

\* The process never leaves its configuration's invariant.
LEMMA ConfigAlways == ApplicationSpec => []ConfigInv
  <1>1. ApplicationInit => ConfigInv
    BY DEF ApplicationInit, ConfigInit, ConfigInv, LoadedInv, GivenInv, GivenAt, RefusalInv, Nobody
  <1>2. [ApplicationNext]_applicationVars => [ConfigNext]_configVars
    BY DEF ApplicationNext, applicationVars, Over
  <1> QED
    BY <1>1, <1>2, NextConfig, PTL DEF ApplicationSpec

\* What the three texts and the profiling address of a loaded configuration say
\* of the environment.
LEMMA LoadedTexts ==
    ASSUME ConfigInv, stage # "deploy"
    PROVE  /\ Present("ETH_RPC_URL") /\ config.EthereumRPCURL = env["ETH_RPC_URL"]
           /\ Present("DATABASE_URL") /\ config.DatabaseURL = env["DATABASE_URL"]
           /\ config.HTTPAddress = Read("HTTP_ADDRESS", Default.HTTPAddress)
           /\ config.ProfilingAddress # Absent <=> Present("PPROF_ADDRESS")
           /\ Present("PPROF_ADDRESS") => config.ProfilingAddress = env["PPROF_ADDRESS"]
  <1>1. config = Loaded /\ Absent \notin {config.EthereumRPCURL, config.DatabaseURL}
    BY DEF ConfigInv, LoadedInv, Valid
  <1>2. /\ config.EthereumRPCURL = Read("ETH_RPC_URL", Absent)
        /\ config.DatabaseURL = Read("DATABASE_URL", Absent)
        /\ config.HTTPAddress = Read("HTTP_ADDRESS", Default.HTTPAddress)
        /\ config.ProfilingAddress = Read("PPROF_ADDRESS", Absent)
    BY <1>1 DEF Loaded
  <1> QED
    BY <1>1, <1>2, ReadPresent

\* For every environment and every set of defaults, each component is given the
\* value of its own variable, or its own default: through the eighteen reads of
\* loadConfig, the copies RPCConfig and ethereumRPCConfig make, and the argument
\* lists and server literals of app.Run none is lost or exchanged with another.
THEOREM SettingsTheorem == ApplicationSpec => []SettingsArrive
  <1>1. ASSUME ConfigInv PROVE SettingsArrive
    <2>1. CASE stage = "deploy"
      BY <1>1, <2>1 DEF ConfigInv, GivenInv, SettingsArrive
    <2>2. CASE stage # "deploy"
      <3>1. config = Loaded /\ \A c \in DOMAIN given : given[c] = Handed(c)
        BY <1>1, <2>2 DEF ConfigInv, LoadedInv, GivenInv
      <3>2. \A n, default : Asked(n, default) = Read(n, default)
        BY DEF Asked, Read, Present
      <3>3. /\ "node" \in DOMAIN given => given["node"] = env["ETH_RPC_URL"]
            /\ "pool" \in DOMAIN given => given["pool"] = env["DATABASE_URL"]
        BY <1>1, <2>2, <3>1, LoadedTexts DEF Handed
      <3>4. "rpc" \in DOMAIN given =>
              given["rpc"] =
                [MaxAttempts |-> Asked("RPC_MAX_ATTEMPTS", Default.RPCMaxAttempts),
                 InitialBackoff |-> Asked("RPC_INITIAL_BACKOFF", Default.RPCInitialBackoff),
                 MaxBackoff |-> Asked("RPC_MAX_BACKOFF", Default.RPCMaxBackoff),
                 RequestsPerSecond |-> Asked("RPC_REQUESTS_PER_SECOND", Default.RPCRequestsPerSecond),
                 Burst |-> Asked("RPC_BURST", Default.RPCBurst)]
        BY <3>1, <3>2 DEF Handed, ethereumRPCConfig, RPCConfig, Loaded
      <3>5. "reorg" \in DOMAIN given =>
              given["reorg"] =
                [confirmationDepth |-> Asked("CONFIRMATION_DEPTH", Default.ConfirmationDepth),
                 maxReorgDepth |-> Asked("MAX_REORG_DEPTH", Default.MaxReorgDepth)]
        BY <3>1, <3>2 DEF Handed, StartBlockArguments, Loaded
      <3>6. "indexer" \in DOMAIN given =>
              given["indexer"] =
                [workerCount |-> Asked("WORKER_COUNT", Default.WorkerCount),
                 pollInterval |-> Asked("POLL_INTERVAL", Default.PollInterval),
                 confirmationDepth |-> Asked("CONFIRMATION_DEPTH", Default.ConfirmationDepth)]
        BY <3>1, <3>2 DEF Handed, IndexerSettings, Loaded
      <3>7. "server" \in DOMAIN given =>
              given["server"] =
                [Addr |-> Asked("HTTP_ADDRESS", Default.HTTPAddress),
                 ReadHeaderTimeout |-> Asked("READ_HEADER_TIMEOUT", Default.ReadHeaderTimeout),
                 ReadTimeout |-> Asked("READ_TIMEOUT", Default.ReadTimeout),
                 WriteTimeout |-> Asked("WRITE_TIMEOUT", Default.WriteTimeout),
                 IdleTimeout |-> Asked("IDLE_TIMEOUT", Default.IdleTimeout)]
        BY <3>1, <3>2 DEF Handed, ServerSettings, Loaded
      <3>8. "pprof" \in DOMAIN given =>
              given["pprof"] =
                [Addr |-> env["PPROF_ADDRESS"],
                 ReadHeaderTimeout |-> Asked("READ_HEADER_TIMEOUT", Default.ReadHeaderTimeout),
                 ReadTimeout |-> Asked("READ_TIMEOUT", Default.ReadTimeout),
                 IdleTimeout |-> Asked("IDLE_TIMEOUT", Default.IdleTimeout)]
        <4>1. "pprof" \in DOMAIN given => config.ProfilingAddress = env["PPROF_ADDRESS"]
          BY <1>1, <2>2, LoadedTexts DEF ConfigInv, GivenInv
        <4>2. /\ config.ReadHeaderTimeout = Asked("READ_HEADER_TIMEOUT", Default.ReadHeaderTimeout)
              /\ config.ReadTimeout = Asked("READ_TIMEOUT", Default.ReadTimeout)
              /\ config.IdleTimeout = Asked("IDLE_TIMEOUT", Default.IdleTimeout)
          BY <3>1, <3>2 DEF Loaded
        <4> QED
          BY <3>1, <4>1, <4>2 DEF Handed, ProfilingSettings
      <3>9. "supervisor" \in DOMAIN given =>
              given["supervisor"] = Asked("SHUTDOWN_TIMEOUT", Default.ShutdownTimeout)
        BY <3>1, <3>2 DEF Handed, Loaded
      <3>10. stage = "running" =>
               DOMAIN given = IF env["PPROF_ADDRESS"] \in {Absent, Blank}
                              THEN Component \ {"pprof"} ELSE Component
        <4> SUFFICES ASSUME stage = "running"
                     PROVE  DOMAIN given = IF env["PPROF_ADDRESS"] \in {Absent, Blank}
                                           THEN Component \ {"pprof"} ELSE Component
          OBVIOUS
        <4>1. Component \ {"pprof"} \subseteq DOMAIN given /\ DOMAIN given \subseteq Component
          BY <1>1 DEF ConfigInv, GivenInv, GivenAt
        <4>2. "pprof" \in DOMAIN given <=> Present("PPROF_ADDRESS")
          BY <1>1, <2>2, LoadedTexts DEF ConfigInv, GivenInv
        <4> QED
          BY <4>1, <4>2 DEF Present
      <3> QED
        BY <3>3, <3>4, <3>5, <3>6, <3>7, <3>8, <3>9, <3>10 DEF SettingsArrive
    <2> QED
      BY <2>1, <2>2
  <1> QED
    BY <1>1, ConfigAlways, PTL

\* For every environment, a component refuses after LoadConfig only the RPC URL
\* or the connection string, before the chain is compared with the database, or
\* HTTP_ADDRESS, when the services run already; never a number.
THEOREM RefusalTheorem == ApplicationSpec => []OnlyTextsRefusedLate
  <1>1. ASSUME ConfigInv PROVE OnlyTextsRefusedLate
    <2> SUFFICES ASSUME endedBy \in Component
                 PROVE  \/ endedBy = "node" /\ BadText("ETH_RPC_URL") /\ "reorg" \notin DOMAIN given
                        \/ endedBy = "pool" /\ BadText("DATABASE_URL") /\ "reorg" \notin DOMAIN given
                        \/ endedBy = "server" /\ BadText("HTTP_ADDRESS") /\ stage = "running"
      BY DEF OnlyTextsRefusedLate
    <2>1. endedBy \in {"node", "pool", "server"}
      BY <1>1 DEF ConfigInv, RefusalInv, Component, Nobody
    <2>2. CASE endedBy = "node"
      BY <1>1, <2>2, LoadedTexts DEF ConfigInv, GivenInv, RefusalInv, BadText, Present
    <2>3. CASE endedBy = "pool"
      BY <1>1, <2>3, LoadedTexts DEF ConfigInv, GivenInv, RefusalInv, BadText, Present
    <2>4. CASE endedBy = "server"
      <3>1. stage = "running" /\ config.HTTPAddress \notin WellFormed["HTTP_ADDRESS"]
        BY <1>1, <2>4 DEF ConfigInv, RefusalInv
      <3>2. config.HTTPAddress = Read("HTTP_ADDRESS", Default.HTTPAddress)
        BY <1>1, <3>1, LoadedTexts
      <3>3. Present("HTTP_ADDRESS") /\ env["HTTP_ADDRESS"] \notin WellFormed["HTTP_ADDRESS"]
        BY <3>1, <3>2, ReadPresent, DefaultAssumption
      <3> QED
        BY <2>4, <3>1, <3>3 DEF BadText, Present
    <2> QED
      BY <2>1, <2>2, <2>3, <2>4
  <1> QED
    BY <1>1, ConfigAlways, PTL

\* What holds of lifecycle.Run holds of the process around it.
THEOREM ApplicationTheorem ==
    ApplicationSpec => [](NilOnlyWhenAsked /\ JoinedOrTimedOut /\ AtMostFirstErrorMissing)
  <1>1. ApplicationInit => Init
    BY DEF ApplicationInit
  <1>2. [ApplicationNext]_applicationVars => [Next]_vars
    BY DEF ApplicationNext, applicationVars, Over
  <1>3. ApplicationSpec => Spec
    BY <1>1, <1>2, PTL DEF ApplicationSpec, Spec
  <1> QED
    BY <1>3, NilTheorem, JoinTheorem, ErrorTheorem, PTL
=============================================================================

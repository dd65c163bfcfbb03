--------------------------- MODULE Configuration ---------------------------
(***************************************************************************)
(* How ChainWatch gets its settings: LoadConfig reads the environment over   *)
(* the defaults and validates the result (internal/config/config.go), app.Run *)
(* validates it again and copies each setting, some of them several times,    *)
(* into the component that uses it.  Each component checks its own part once  *)
(* more, some only after requests were sent and transactions committed.       *)
(***************************************************************************)
EXTENDS Integers, FiniteSets

CONSTANTS
    Default,         \* Default[f]: the default of field f of Config
    EnvNumber,       \* numbers the environment may hold
    EnvText,         \* EnvText[n]: texts that variable n may hold
    WellFormed,      \* WellFormed[n]: texts that what n is for can use
    Absent, Blank, Malformed,   \* a variable that is not set, holds only
                                \* spaces, does not parse
    MaxOverrides     \* bound: so many optional variables are set at most

IntVars      == {"WORKER_COUNT", "RPC_MAX_ATTEMPTS", "RPC_REQUESTS_PER_SECOND", "RPC_BURST"}
Uint64Vars   == {"CONFIRMATION_DEPTH", "MAX_REORG_DEPTH"}
DurationVars == {"POLL_INTERVAL", "SHUTDOWN_TIMEOUT", "READ_HEADER_TIMEOUT", "READ_TIMEOUT",
                 "WRITE_TIMEOUT", "IDLE_TIMEOUT", "RPC_INITIAL_BACKOFF", "RPC_MAX_BACKOFF"}
NumericVars  == IntVars \cup Uint64Vars \cup DurationVars
RequiredVars == {"ETH_RPC_URL", "DATABASE_URL"}
TextVars     == RequiredVars \cup {"HTTP_ADDRESS"}
Variables    == NumericVars \cup TextVars \cup {"PPROF_ADDRESS"}

\* 65535, the largest port number.
MaxPort == 256 * 256 - 1

\* PPROF_ADDRESS as net.SplitHostPort splits it.
Hosts == {"", "localhost", "loopback IP", "other IP", "other name"}
Addresses == [host : Hosts, port : {0, 1, MaxPort, MaxPort + 1, Malformed}]

ASSUME DefaultAssumption ==
    /\ Default.PollInterval \in Int /\ Default.WorkerCount \in Int
    /\ Default.HTTPAddress \in WellFormed["HTTP_ADDRESS"]

VARIABLES
    env,      \* the process environment
    config,   \* the Config value, once loaded
    given,    \* what app.Run has handed to the components, so far
    stage,    \* how far the process came
    endedBy   \* who refused a setting, if anyone did

configVars == <<env, config, given, stage, endedBy>>

EnvValues(n) ==
    CASE n \in NumericVars -> EnvNumber \cup {Blank, Malformed}
      [] n = "PPROF_ADDRESS" -> Addresses \cup {Blank, Malformed}
      [] OTHER -> EnvText[n] \cup {Blank}

\* The parts of the program that are configured.
Component == {"node", "rpc", "pool", "reorg", "indexer", "server", "pprof", "supervisor"}

Nobody == "nobody"

ConfigInit ==
    /\ env = [n \in Variables |-> Absent]
    /\ config = Absent
    /\ given = [c \in {} |-> Absent]
    /\ stage = "deploy"
    /\ endedBy = Nobody

\* The operator sets a variable.
SetVariable(n, v) ==
    /\ stage = "deploy" /\ endedBy = Nobody
    /\ env[n] = Absent
    /\ n \notin RequiredVars =>
          Cardinality({o \in Variables \ RequiredVars : env[o] # Absent}) < MaxOverrides
    /\ env' = [env EXCEPT ![n] = v]
    /\ UNCHANGED <<config, given, stage, endedBy>>

-----------------------------------------------------------------------------
\* LoadConfig.

\* optionalEnvironment: set to something other than spaces.
Present(n) == env[n] \notin {Absent, Blank}

\* Mutant of Read: a setting of zero counts as unset.
ReadUnlessZero(n, default) ==
    IF Present(n) /\ ~(n \in NumericVars /\ env[n] = 0) THEN env[n] ELSE default

\* intEnvironment, uint64Environment, durationEnvironment and the reads of the
\* addresses, when they return no error.
Read(n, default) == IF Present(n) THEN env[n] ELSE default

\* requiredEnvironment finds nothing; strconv.Atoi, time.ParseDuration or
\* strconv.ParseUint returns an error.  The texts are taken as they are.
ReadFails ==
    \/ \E n \in RequiredVars : ~Present(n)
    \/ \E n \in IntVars \cup DurationVars : Present(n) /\ env[n] \notin Int
    \/ \E n \in Uint64Vars : Present(n) /\ env[n] \notin Nat

\* The composite literal of defaults with the assignments of loadConfig.
Loaded ==
    [EthereumRPCURL       |-> Read("ETH_RPC_URL", Absent),
     DatabaseURL          |-> Read("DATABASE_URL", Absent),
     HTTPAddress          |-> Read("HTTP_ADDRESS", Default.HTTPAddress),
     ProfilingAddress     |-> Read("PPROF_ADDRESS", Absent),
     WorkerCount          |-> Read("WORKER_COUNT", Default.WorkerCount),
     PollInterval         |-> Read("POLL_INTERVAL", Default.PollInterval),
     ShutdownTimeout      |-> Read("SHUTDOWN_TIMEOUT", Default.ShutdownTimeout),
     ReadHeaderTimeout    |-> Read("READ_HEADER_TIMEOUT", Default.ReadHeaderTimeout),
     ReadTimeout          |-> Read("READ_TIMEOUT", Default.ReadTimeout),
     WriteTimeout         |-> Read("WRITE_TIMEOUT", Default.WriteTimeout),
     IdleTimeout          |-> Read("IDLE_TIMEOUT", Default.IdleTimeout),
     ConfirmationDepth    |-> Read("CONFIRMATION_DEPTH", Default.ConfirmationDepth),
     MaxReorgDepth        |-> Read("MAX_REORG_DEPTH", Default.MaxReorgDepth),
     RPCMaxAttempts       |-> Read("RPC_MAX_ATTEMPTS", Default.RPCMaxAttempts),
     RPCInitialBackoff    |-> Read("RPC_INITIAL_BACKOFF", Default.RPCInitialBackoff),
     RPCMaxBackoff        |-> Read("RPC_MAX_BACKOFF", Default.RPCMaxBackoff),
     RPCRequestsPerSecond |-> Read("RPC_REQUESTS_PER_SECOND", Default.RPCRequestsPerSecond),
     RPCBurst             |-> Read("RPC_BURST", Default.RPCBurst)]

\* Config.RPCConfig; the jitter fraction is fixed.
RPCConfig(c) ==
    [MaxAttempts       |-> c.RPCMaxAttempts,
     InitialBackoff    |-> c.RPCInitialBackoff,
     MaxBackoff        |-> c.RPCMaxBackoff,
     RequestsPerSecond |-> c.RPCRequestsPerSecond,
     Burst             |-> c.RPCBurst]

\* Mutant of RPCConfigValid: the two backoffs are not compared.
RPCBackoffsPositive(r) ==
    /\ r.MaxAttempts > 0
    /\ r.InitialBackoff > 0
    /\ r.MaxBackoff > 0
    /\ r.RequestsPerSecond > 0
    /\ r.Burst > 0

\* RPCConfig.Validate
RPCConfigValid(r) ==
    /\ r.MaxAttempts > 0
    /\ r.InitialBackoff > 0
    /\ r.MaxBackoff >= r.InitialBackoff
    /\ r.RequestsPerSecond > 0
    /\ r.Burst > 0

\* validateProfilingAddress
LocalAddress(a) ==
    /\ a \in Addresses
    /\ a.port \in 1..MaxPort
    /\ a.host \in {"localhost", "loopback IP"}

\* Config.Validate; of the three texts only that they are not empty.
Valid(c) ==
    /\ Absent \notin {c.EthereumRPCURL, c.DatabaseURL, c.HTTPAddress}
    /\ c.WorkerCount > 0
    /\ c.PollInterval > 0
    /\ c.ShutdownTimeout > 0
    /\ c.ReadHeaderTimeout > 0
    /\ c.ReadTimeout > 0
    /\ c.WriteTimeout > 0
    /\ c.IdleTimeout > 0
    /\ c.MaxReorgDepth # 0
    /\ c.ProfilingAddress # Absent => LocalAddress(c.ProfilingAddress)
    /\ RPCConfigValid(RPCConfig(c))

LoadConfig ==
    /\ stage = "deploy" /\ endedBy = Nobody
    /\ IF ReadFails \/ ~Valid(Loaded)
       THEN endedBy' = "LoadConfig" /\ UNCHANGED <<config, stage>>
       ELSE config' = Loaded /\ stage' = "loaded" /\ UNCHANGED endedBy
    /\ UNCHANGED <<env, given>>

-----------------------------------------------------------------------------
\* app.Run, and what the components check of the settings they are given.

\* One step of app.Run: a component is given its settings and takes or refuses
\* them.
Give(from, to, component, settings, accepted) ==
    /\ stage = from /\ endedBy = Nobody
    /\ given' = [c \in DOMAIN given \cup {component} |->
                    IF c = component THEN settings ELSE given[c]]
    /\ stage' = IF accepted THEN to ELSE from
    /\ endedBy' = IF accepted THEN Nobody ELSE component
    /\ UNCHANGED <<env, config>>

\* Run's own Validate, and NewEthereumClient, which parses the URL.
DialNode ==
    Give("loaded", "dialled", "node", config.EthereumRPCURL,
         Valid(config) /\ config.EthereumRPCURL \in WellFormed["ETH_RPC_URL"])

\* Mutant of ethereumRPCConfig: two fields of one type are exchanged.
SwappedRPCConfig(r) ==
    [MaxAttempts       |-> r.MaxAttempts,
     InitialBackoff    |-> r.InitialBackoff,
     MaxBackoff        |-> r.MaxBackoff,
     RequestsPerSecond |-> r.Burst,
     Burst             |-> r.RequestsPerSecond]

ethereumRPCConfig(r) ==
    [MaxAttempts       |-> r.MaxAttempts,
     InitialBackoff    |-> r.InitialBackoff,
     MaxBackoff        |-> r.MaxBackoff,
     RequestsPerSecond |-> r.RequestsPerSecond,
     Burst             |-> r.Burst]

\* RPCResilienceConfig.Validate, the client's own copy of the checks.
RPCResilienceValid(r) ==
    /\ r.MaxAttempts > 0
    /\ r.InitialBackoff > 0
    /\ r.MaxBackoff >= r.InitialBackoff
    /\ r.RequestsPerSecond > 0
    /\ r.Burst > 0

\* NewResilientEthereumClient
CreateClient ==
    LET settings == ethereumRPCConfig(RPCConfig(config))
    IN  Give("dialled", "client", "rpc", settings, RPCResilienceValid(settings))

\* pgxpool.New, which parses the connection string.
OpenPool ==
    Give("client", "pool", "pool", config.DatabaseURL,
         config.DatabaseURL \in WellFormed["DATABASE_URL"])

\* Mutant of StartBlockArguments: two arguments of one type are exchanged.
SwappedArguments ==
    [confirmationDepth |-> config.MaxReorgDepth, maxReorgDepth |-> config.ConfirmationDepth]

StartBlockArguments ==
    [confirmationDepth |-> config.ConfirmationDepth, maxReorgDepth |-> config.MaxReorgDepth]

\* determineStartBlock asks the node and may roll the database back; its
\* Reconcile refuses a maximum depth of zero.
DetermineStartBlock ==
    Give("pool", "reconciled", "reorg", StartBlockArguments,
         StartBlockArguments.maxReorgDepth # 0)

\* The database does not answer the ping, or Reconcile fails for what it finds:
\* the process ends, but for no setting.
Unavailable ==
    /\ stage = "pool" /\ endedBy = Nobody
    /\ endedBy' = "unavailable"
    /\ UNCHANGED <<env, config, given, stage>>

\* The arguments of the two indexers, and the literals of the two http.Servers.
IndexerSettings ==
    [workerCount       |-> config.WorkerCount,
     pollInterval      |-> config.PollInterval,
     confirmationDepth |-> config.ConfirmationDepth]
ServerSettings ==
    [Addr              |-> config.HTTPAddress,
     ReadHeaderTimeout |-> config.ReadHeaderTimeout,
     ReadTimeout       |-> config.ReadTimeout,
     WriteTimeout      |-> config.WriteTimeout,
     IdleTimeout       |-> config.IdleTimeout]
ProfilingSettings ==
    [Addr              |-> config.ProfilingAddress,
     ReadHeaderTimeout |-> config.ReadHeaderTimeout,
     ReadTimeout       |-> config.ReadTimeout,
     IdleTimeout       |-> config.IdleTimeout]

\* The profiling server is a service only when it has an address.
Services ==
    {"indexer", "server", "supervisor"}
        \cup (IF config.ProfilingAddress = Absent THEN {} ELSE {"pprof"})

\* The constructors of the services, and lifecycle.Run with its validate.
RunServices ==
    /\ stage = "reconciled" /\ endedBy = Nobody
    /\ given' = [c \in DOMAIN given \cup Services |->
                    CASE c = "indexer" -> IndexerSettings
                      [] c = "server" -> ServerSettings
                      [] c = "pprof" -> ProfilingSettings
                      [] c = "supervisor" -> config.ShutdownTimeout
                      [] OTHER -> given[c]]
    /\ IF config.ShutdownTimeout > 0
       THEN stage' = "running" /\ UNCHANGED endedBy
       ELSE endedBy' = "supervisor" /\ UNCHANGED stage
    /\ UNCHANGED <<env, config>>

\* ContinuousIndexer.Run and IndexRange check the interval and the workers;
\* ListenAndServe of either server parses its address and resolves its host.
Unusable(component) ==
    \/ /\ component = "indexer"
       /\ given["indexer"].pollInterval <= 0 \/ given["indexer"].workerCount <= 0
    \/ component = "server" /\ given["server"].Addr \notin WellFormed["HTTP_ADDRESS"]
    \/ /\ component = "pprof"
       /\ LET a == given["pprof"].Addr
          IN  \/ a \notin Addresses
              \/ a.port \notin 0..MaxPort
              \/ a.host = "other name"

\* A service returns at once for what it was given, while the others run.
ServiceRefuses(component) ==
    /\ stage = "running" /\ endedBy = Nobody
    /\ component \in DOMAIN given /\ Unusable(component)
    /\ endedBy' = component
    /\ UNCHANGED <<env, config, given, stage>>

ConfigNext ==
    \/ \E n \in Variables : \E v \in EnvValues(n) : SetVariable(n, v)
    \/ LoadConfig
    \/ DialNode
    \/ CreateClient
    \/ OpenPool
    \/ DetermineStartBlock
    \/ Unavailable
    \/ RunServices
    \/ \E component \in Component : ServiceRefuses(component)

-----------------------------------------------------------------------------

\* What the operator asked for with variable n.
Asked(n, default) == IF env[n] \in {Absent, Blank} THEN default ELSE env[n]

\* Every component works with the setting of its own variable, or with its own
\* default: no value is dropped, replaced or exchanged with another on the way
\* through loadConfig, Config.RPCConfig, ethereumRPCConfig, the argument lists
\* and the two http.Server literals of app.Run, whichever others are set with
\* it; and when the services run every component has been given its settings.
SettingsArrive ==
    /\ "node" \in DOMAIN given => given["node"] = env["ETH_RPC_URL"]
    /\ "pool" \in DOMAIN given => given["pool"] = env["DATABASE_URL"]
    /\ "rpc" \in DOMAIN given =>
          given["rpc"] =
              [MaxAttempts |-> Asked("RPC_MAX_ATTEMPTS", Default.RPCMaxAttempts),
               InitialBackoff |-> Asked("RPC_INITIAL_BACKOFF", Default.RPCInitialBackoff),
               MaxBackoff |-> Asked("RPC_MAX_BACKOFF", Default.RPCMaxBackoff),
               RequestsPerSecond |-> Asked("RPC_REQUESTS_PER_SECOND", Default.RPCRequestsPerSecond),
               Burst |-> Asked("RPC_BURST", Default.RPCBurst)]
    /\ "reorg" \in DOMAIN given =>
          given["reorg"] =
              [confirmationDepth |-> Asked("CONFIRMATION_DEPTH", Default.ConfirmationDepth),
               maxReorgDepth |-> Asked("MAX_REORG_DEPTH", Default.MaxReorgDepth)]
    /\ "indexer" \in DOMAIN given =>
          given["indexer"] =
              [workerCount |-> Asked("WORKER_COUNT", Default.WorkerCount),
               pollInterval |-> Asked("POLL_INTERVAL", Default.PollInterval),
               confirmationDepth |-> Asked("CONFIRMATION_DEPTH", Default.ConfirmationDepth)]
    /\ "server" \in DOMAIN given =>
          given["server"] =
              [Addr |-> Asked("HTTP_ADDRESS", Default.HTTPAddress),
               ReadHeaderTimeout |-> Asked("READ_HEADER_TIMEOUT", Default.ReadHeaderTimeout),
               ReadTimeout |-> Asked("READ_TIMEOUT", Default.ReadTimeout),
               WriteTimeout |-> Asked("WRITE_TIMEOUT", Default.WriteTimeout),
               IdleTimeout |-> Asked("IDLE_TIMEOUT", Default.IdleTimeout)]
    /\ "pprof" \in DOMAIN given =>
          given["pprof"] =
              [Addr |-> env["PPROF_ADDRESS"],
               ReadHeaderTimeout |-> Asked("READ_HEADER_TIMEOUT", Default.ReadHeaderTimeout),
               ReadTimeout |-> Asked("READ_TIMEOUT", Default.ReadTimeout),
               IdleTimeout |-> Asked("IDLE_TIMEOUT", Default.IdleTimeout)]
    /\ "supervisor" \in DOMAIN given =>
          given["supervisor"] = Asked("SHUTDOWN_TIMEOUT", Default.ShutdownTimeout)
    /\ stage = "running" =>
          DOMAIN given = IF env["PPROF_ADDRESS"] \in {Absent, Blank}
                         THEN Component \ {"pprof"} ELSE Component

\* The operator wrote a text into n that what it is for cannot use.
BadText(n) == env[n] \notin {Absent, Blank} \cup WellFormed[n]

\* What LoadConfig accepted and a component refuses all the same is one of the
\* three texts that LoadConfig does not parse: the RPC URL and the connection
\* string before the node is asked or the database written, and HTTP_ADDRESS
\* only when the indexer runs already.  No number and no profiling address is
\* ever refused late: for every mix of set and default values the checks of
\* LoadConfig cover those of app.Run, the RPC client, Reconcile, the supervisor
\* and the services.  (docs/PRODUCTION_REVIEW.md:84 has malformed configuration
\* refused "before dependencies are created"; a malformed DATABASE_URL is refused
\* when the Ethereum client exists already.)
OnlyTextsRefusedLate ==
    endedBy \in Component =>
        \/ endedBy = "node" /\ BadText("ETH_RPC_URL") /\ "reorg" \notin DOMAIN given
        \/ endedBy = "pool" /\ BadText("DATABASE_URL") /\ "reorg" \notin DOMAIN given
        \/ endedBy = "server" /\ BadText("HTTP_ADDRESS") /\ stage = "running"
=============================================================================

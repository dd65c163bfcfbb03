--------------------------- MODULE MCApplication ---------------------------
(***************************************************************************)
(* Defaults ordered like the real ones (RPCInitialBackoff below              *)
(* RPCMaxBackoff), numbers around them and around zero, and for each text    *)
(* one that can be used and one that cannot.                                 *)
(***************************************************************************)
EXTENDS Application

SmallDefault ==
    [HTTPAddress |-> ":8080", WorkerCount |-> 3, PollInterval |-> 3, ShutdownTimeout |-> 3,
     ReadHeaderTimeout |-> 3, ReadTimeout |-> 3, WriteTimeout |-> 3, IdleTimeout |-> 3,
     ConfirmationDepth |-> 2, MaxReorgDepth |-> 3, RPCMaxAttempts |-> 3,
     RPCInitialBackoff |-> 2, RPCMaxBackoff |-> 3, RPCRequestsPerSecond |-> 3, RPCBurst |-> 2]
SmallNumbers == {-1, 0, 1, 4}
Texts ==
    [n \in TextVars |->
        IF n = "HTTP_ADDRESS" THEN {":9090", "9090"} ELSE {"https://node", "postgres://db"}]
UsableTexts ==
    [n \in TextVars |->
        CASE n = "HTTP_ADDRESS" -> {":8080", ":9090"}
          [] n = "ETH_RPC_URL" -> {"https://node"}
          [] n = "DATABASE_URL" -> {"postgres://db"}]
=============================================================================

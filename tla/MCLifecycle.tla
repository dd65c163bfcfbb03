---------------------------- MODULE MCLifecycle ----------------------------
(* TLC instance of Lifecycle: the indexer, the HTTP server and pprof. *)
EXTENDS Lifecycle
=============================================================================

-------------------------- MODULE MCRPCResilience --------------------------
(* TLC instance of RPCResilience. *)
EXTENDS RPCResilience
=============================================================================

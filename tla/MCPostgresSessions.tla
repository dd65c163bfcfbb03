------------------------- MODULE MCPostgresSessions -------------------------
(* Three sessions: a running process and two dead predecessors. *)
EXTENDS PostgresSessions, MCBlocks
=============================================================================

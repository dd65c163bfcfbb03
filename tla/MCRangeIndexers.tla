-------------------------- MODULE MCRangeIndexers --------------------------
(* TLC instance of RangeIndexers on the trees of MCBlocks. *)
EXTENDS RangeIndexers, MCBlocks
=============================================================================

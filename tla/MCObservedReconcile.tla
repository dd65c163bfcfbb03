------------------------ MODULE MCObservedReconcile ------------------------
(* TLC instance of ChainWatch with its observer on the trees of MCBlocks. *)
EXTENDS ObservedReconcile, MCBlocks
=============================================================================

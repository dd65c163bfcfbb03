---------------------------- MODULE MCChainWatch ----------------------------
(* TLC instance of ChainWatch on the trees of MCBlocks. *)
EXTENDS ChainWatch, MCBlocks
=============================================================================

-------------------------- MODULE TokenEnrichment --------------------------
(***************************************************************************)
(* What internal/metadata does for a handler that enriches a transfer (see   *)
(* enrichAPITransferWithMetadata in internal/api/api_transfer.go): it looks  *)
(* the token up (TokenMetadata) and formats the amount (TokenAmount).        *)
(***************************************************************************)
EXTENDS TokenMetadata, TokenAmount

enrichmentVars == <<vars, amountVars>>

EnrichmentInit == Init /\ AmountInit

\* Bound: formatting reads no shared state, so lookups are explored next to one
\* call of it only, and all others by themselves.
LookupsExplored == value = Nil /\ decimals = 0

Formatted == result # Nil /\ ~LookupsExplored /\ UNCHANGED enrichmentVars

EnrichmentNext ==
    \/ LookupsExplored /\ Next /\ UNCHANGED amountVars
    \/ FormatTokenAmount /\ UNCHANGED vars
    \/ Formatted

EnrichmentSpec == EnrichmentInit /\ [][EnrichmentNext]_enrichmentVars
=============================================================================

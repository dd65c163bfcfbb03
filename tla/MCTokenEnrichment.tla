------------------------- MODULE MCTokenEnrichment -------------------------
(* Amounts of up to four digits, negative ones too, and up to six decimals. *)
EXTENDS TokenEnrichment

SmallAmounts == (-110)..1210
SmallDecimals == 0..6
=============================================================================

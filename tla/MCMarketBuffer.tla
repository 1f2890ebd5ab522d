--------------------------- MODULE MCMarketBuffer ---------------------------
(* Instances of SymbolDetail over MarketBuffer for TLC. *)
EXTENDS SymbolDetail
=============================================================================

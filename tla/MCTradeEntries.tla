---------------------------- MODULE MCTradeEntries ----------------------------
(* An instance of TradeEntries alone, for TLC.                             *)
EXTENDS TradeEntries
=============================================================================

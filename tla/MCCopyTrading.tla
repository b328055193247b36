---------------------------- MODULE MCCopyTrading ----------------------------
(* Instances of CopyTrading for TLC: one trader with two accounts.         *)
EXTENDS CopyTrading, TLC
MCOwner  == "a1" :> "t1" @@ "a2" :> "t1"
MCVenue  == "a1" :> "metatrader" @@ "a2" :> "binance"
=============================================================================

----------------------------- MODULE MCScanCycle -----------------------------
(* Instances of ScanCycle for TLC: two bots that look at the same exchange.*)
EXTENDS ScanCycle, TLC
MCWatched  == "b1" :> {"s1", "s2"} @@ "b2" :> {"s1"}
MCLists    == "x1" :> {"s1"} @@ "x2" :> {"s1", "s2"}
MCFamily   == "b1" :> "f1" @@ "b2" :> "f2"
MCOriginal == "f1" :> "b1" @@ "f2" :> "b2"
=============================================================================

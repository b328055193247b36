------------------------------ MODULE MCTrading ------------------------------
(***************************************************************************)
(* An instance for TLC of the trading core's parts: Sub-Auto Mode, what    *)
(* scans the market, copies a signal, tunes, fetches candles, heeds        *)
(* losses, audits, reads the market and signals.                           *)
(* They share no state with each other: a behaviour is of one part, and    *)
(* the others stay as they began.                                          *)
(***************************************************************************)
EXTENDS SubAuto, ScanCycle, CopyTrading, Tuning, CandleFeed, LossGuard, TradingAudit, MarketStructure,
        RealFill, MCMarket, TLC

VARIABLE part

TwoWatched == "b1" :> {"s1", "s2"} @@ "b2" :> {"s1"}
TwoLists == "x1" :> {"s1"} @@ "x2" :> {"s1", "s2"}
TwoFamilies == "b1" :> "f1" @@ "b2" :> "f2"
TwoOriginals == "f1" :> "b1" @@ "f2" :> "b2"
OneOwner == "a1" :> "t1" @@ "a2" :> "t1"
TwoVenues == "a1" :> "metatrader" @@ "a2" :> "binance"
TwoSources == "scanner" :> {"g1"} @@ "alert" :> {"g2"}
UnequalRisk == "g1" :> 1 @@ "g2" :> 2 @@ "m" :> 1
LossOrGain == {-2, 1}
OneFamily == "b1" :> "f1" @@ "b2" :> "f1"
LossOrMore == {-1, 3}

QuietReading ==
  [family |-> "macro", symbol |-> "BTC", trend |-> "none", bos |-> "none", blocks |-> <<>>,
   low |-> P(-4), high |-> P(6), range |-> R(-4, 12)]

(* One state to stand still in is enough.                                  *)
AtHome ==
  /\ part # "subauto" => before = "human_in_loop"
  /\ part # "scan" => \A b \in Bots : bots[b].auto
  /\ part # "copies" => \A t \in Traders : sub[t] = NoSub
  /\ part # "tuning" => dormant = {}
  /\ part # "feed" => server = "from"

TradingInit ==
  /\ part \in {"subauto", "scan", "copies", "tuning", "feed", "losses", "audit", "shape", "signal"}
  /\ Init /\ ScanInit /\ CopyInit /\ TuneInit /\ FeedInit /\ GuardInit /\ AuditInit /\ MarketInit /\ AtHome
  /\ part = "signal" \/ (reading = QuietReading /\ entry = [risk |-> 0, rr |-> 0])
  /\ StratInit

TradingNext ==
  /\ UNCHANGED part
  /\ \/ part = "subauto" /\ Next
        /\ UNCHANGED <<scanVars, copyVars, tuneVars, feedVars, guardVars, auditVars, tape, stratVars>>
     \/ part = "scan" /\ ScanNext
        /\ UNCHANGED <<vars, copyVars, tuneVars, feedVars, guardVars, auditVars, tape, stratVars>>
     \/ part = "copies" /\ CopyNext
        /\ UNCHANGED <<vars, scanVars, tuneVars, feedVars, guardVars, auditVars, tape, stratVars>>
     \/ part = "tuning" /\ TuneNext
        /\ UNCHANGED <<vars, scanVars, copyVars, feedVars, guardVars, auditVars, tape, stratVars>>
     \/ part = "feed" /\ FeedNext
        /\ UNCHANGED <<vars, scanVars, copyVars, tuneVars, guardVars, auditVars, tape, stratVars>>
     \/ part = "losses" /\ GuardNext
        /\ UNCHANGED <<vars, scanVars, copyVars, tuneVars, feedVars, auditVars, tape, stratVars>>
     \/ part = "audit" /\ AuditNext
        /\ UNCHANGED <<vars, scanVars, copyVars, tuneVars, feedVars, guardVars, tape, stratVars>>
     \/ part = "shape" /\ MarketNext
        /\ UNCHANGED <<vars, scanVars, copyVars, tuneVars, feedVars, guardVars, auditVars, stratVars>>
     \/ part = "signal" /\ StratNext
        /\ UNCHANGED <<vars, scanVars, copyVars, tuneVars, feedVars, guardVars, auditVars, tape>>

TradingSpec == TradingInit /\ [][TradingNext]_<<part, vars, scanVars, copyVars, tuneVars, feedVars, guardVars, auditVars, tape, stratVars>>

=============================================================================

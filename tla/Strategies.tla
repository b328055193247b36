------------------------------ MODULE Strategies ------------------------------
(***************************************************************************)
(* What the strategies do with one reading of the market: the setups they  *)
(* look for, the levels of a signal, its size, the check every signal      *)
(* passes and the pass over all of them (bot_strategies, with the entry,   *)
(* stop, target and risk arithmetic of smc_algorithms).  The readings are  *)
(* what the detectors of MarketStructure return, one shape per family of   *)
(* strategies.  A price is an integer, 20000 to a tick, so that every      *)
(* percentage below is exact; risk is in hundredths of a percent, a lot in *)
(* thousandths; rounding to significant digits is left out.                *)
(***************************************************************************)
EXTENDS Integers, Sequences, FiniteSets

CONSTANTS Readings,   \* [family, ...], see the families
          Entries,    \* settings of a BotConfig: [risk, rr], 0 where unset
          Balance,    \* of the account, in units of price
          Raising     \* strategies that may raise

(* A quote is two ticks at least, a zone is no lower than its bottom, and  *)
(* a range of 4H candles has a height.                                     *)
Tick == 20000
Quotes == {p \in Nat : p >= 2 * Tick}
Directions == {"long", "short"}
Views == Directions \cup {"none"}
PriceZones == {z \in [bull : BOOLEAN, at : Nat, top : Quotes, bottom : Quotes] : z.bottom <= z.top}
Ranges == [low : Quotes, high : Quotes]
QuotedBars == [open : Quotes, high : Quotes, low : Quotes, close : Quotes]
FalseBreaks ==
  {s \in [extreme : Nat, close : Nat, dry : BOOLEAN] : s.extreme > 0 => s.close \in Quotes}
MacroShape ==
  [family : {"macro"}, symbol : STRING, trend : Views, bos : Views, blocks : Seq(PriceZones),
   low : Quotes, high : Quotes, range : Ranges]
ReversalShape ==
  [family : {"reversal"}, symbol : STRING, blocks : Seq(PriceZones), close : Quotes,
   choch : Views, sweep : Nat, swing : Quotes, range : Ranges]
GapShape ==
  [family : {"gaps"}, symbol : STRING, gaps : Seq(PriceZones), bos : Views,
   significantBos : Views, day : Views, blocks : Seq(PriceZones)]
WyckoffShape ==
  {r \in [family : {"wyckoff"}, symbol : STRING, low : Quotes, high : Quotes, close : Quotes,
          blocks : Seq(PriceZones), trend : Views, spring : FalseBreaks, upthrust : FalseBreaks,
          choch : Views, held : BOOLEAN, gapAfterChoch : BOOLEAN, gapAfterSweep : BOOLEAN] :
     r.low < r.high}
SmcShape ==
  [family : {"smc"}, symbol : STRING, blocks : Seq(PriceZones), bos4 : Views, bos1 : Views,
   choch : Views, gapBos : Views, day : Views, sweep : [side : Directions, price : Quotes],
   range : Ranges, m5 : [strong : Seq(QuotedBars), gaps : Seq(PriceZones)],
   h1 : [strong : Seq(QuotedBars), gaps : Seq(PriceZones)]]

ASSUME ReadingsAreQuotes ==
  /\ Readings \subseteq MacroShape \cup ReversalShape \cup GapShape \cup WyckoffShape \cup SmcShape
  /\ Entries \subseteq [risk : Nat, rr : Nat]
  /\ Balance \in Nat /\ Balance >= Tick

VARIABLES reading, entry,
          left,       \* strategies the pass has still to run, in order
          signals,    \* what it collected
          refused     \* what the check of a signal's risk kept out

stratVars == <<reading, entry, left, signals, refused>>

Away(d, p, x) == IF d = "long" THEN p - x ELSE p + x
Least(x, y) == IF x < y THEN x ELSE y
Most(x, y) == IF x > y THEN x ELSE y
Gapped(x, y) == IF x > y THEN x - y ELSE y - x
Width(z) == z.top - z.bottom
Middle(z) == (z.top + z.bottom) \div 2
Holds(z, p) == z.bottom <= p /\ p <= z.top
(* The edge of a zone that a long, or a short, is stopped behind. *)
Edge(d, z) == IF d = "long" THEN z.bottom ELSE z.top
Side(z) == IF z.bull THEN "long" ELSE "short"
(* Of a list, those on a side or around a price, by their places.          *)
OnSide(zones, d) == {i \in DOMAIN zones : Side(zones[i]) = d}
AtPrice(zones, p) == {i \in DOMAIN zones : Holds(zones[i], p)}
FirstOf(list, places) == list[CHOOSE i \in places : \A j \in places : i <= j]
FinalOf(list, places) == list[CHOOSE i \in places : \A j \in places : j <= i]
Deepest(gaps, d) ==   \* select_fvg_by_depth
  gaps[CHOOSE i \in OnSide(gaps, d) :
         \A j \in OnSide(gaps, d) : IF d = "long" THEN gaps[i].bottom <= gaps[j].bottom
                                                  ELSE gaps[i].top >= gaps[j].top]

(***************************************************************************)
(* Levels.                                                                 *)
(***************************************************************************)
(* The floor of a stop's distance, in ten-thousandths of the entry. *)
PlatformFloor == 15
FloorOf(symbol) == IF symbol = "BTC" THEN 23 ELSE PlatformFloor
WrongSide(d, e, stop) == IF d = "long" THEN stop >= e ELSE stop <= e
FloorByDistance(d, e, stop, pct) ==  \* Mutant: the side is not looked at
  LET min == (e \div 10000) * pct
  IN  IF Gapped(e, stop) < min THEN Away(d, e, min) ELSE stop
Floored(d, e, stop, pct) ==
  LET min == (e \div 10000) * pct
  IN  IF WrongSide(d, e, stop) \/ Gapped(e, stop) < min THEN Away(d, e, min) ELSE stop

(* The zone is embedded: the stop goes tenths of its height behind it. *)
Embedded(d, stop, z, tenths) ==
  LET behind == Away(d, Edge(d, z), (Width(z) * tenths) \div 10)
  IN  IF d = "long" THEN Least(stop, behind) ELSE Most(stop, behind)

(* calculate_stop_loss, method structure_swing: behind a swing, floored. *)
BehindSwing(d, e, swing) ==
  Away(d, swing, Most(swing \div 1000, (e \div 10000) * PlatformFloor))
SwingStop(d, e, swing) == Floored(d, e, BehindSwing(d, e, swing), PlatformFloor)

(* Targets at one and two times the distance and at rr (in tenths). *)
Targets(d, e, stop, rr) ==
  LET r == Gapped(e, stop)
  IN  [tp1 |-> Away(d, e, -r), tp2 |-> Away(d, e, -2 * r), tp3 |-> Away(d, e, -((r * rr) \div 10))]

RiskUncapped(base, quality, override) ==  \* Mutant: the override is not capped
  IF override > 0 THEN override ELSE Least(Most((base * Least(quality, 150)) \div 100, 25), 300)
RiskOf(base, quality, override) ==
  IF override > 0 THEN Least(override, 300)
  ELSE Most(Least((base * Least(quality, 150)) \div 100, 300), 25)

LotSize(risk, distance) == ((Balance \div 10000) * risk * 1000) \div distance

(* The signal of a setup: its ratio and the quality of its risk are its    *)
(* defaults, which the settings of a BotConfig override.                   *)
SignalOf(d, e, stop, rr, base, quality) ==
  LET risk == RiskOf(base, quality, entry.risk)
  IN  [side |-> d, entry |-> e, stop |-> stop, risk |-> risk,
       targets |-> Targets(d, e, stop, IF entry.rr > 0 THEN entry.rr ELSE rr),
       lots |-> LotSize(risk, Gapped(e, stop))]

(* classify_premium_discount: a long is not bought above 0.55 of the range *)
(* of the swings, a short not sold below 0.45.                             *)
WrongHalf(d, z, range) ==
  LET size == range.high - range.low
      up == Middle(z) - range.low
  IN  /\ size > 0
      /\ IF d = "long" THEN up > (size \div 100) * 55 ELSE up < (size \div 100) * 45

(***************************************************************************)
(* Each strategy is the set of signals it takes from a reading: none, or   *)
(* one.  Bot 1: the trend of the last four daily swings, the same as the   *)
(* last break on 4H; entered at the mean of the last block of that side.   *)
(***************************************************************************)
MacroSwingStructureBot(r) ==
  LET d == r.trend
      z == FinalOf(r.blocks, OnSide(r.blocks, d))
      e == Middle(z)
      stop == Embedded(d, SwingStop(d, e, IF d = "long" THEN r.low ELSE r.high), z, 1)
  IN  IF d # "none" /\ r.bos = d /\ OnSide(r.blocks, d) # {} /\ ~WrongHalf(d, z, r.range)
      THEN {SignalOf(d, e, stop, 50, 150, 120)} ELSE {}

(* Bots 2 and 11: price inside a block of 4H, or of 1H where 4H has none,  *)
(* turned by the last change of character on 15M.  The side of the sweep   *)
(* is not compared with the direction, nor is the kind of the last swing.  *)
Reversal(r, tenths, floor) ==
  LET d == r.choch
      inside == AtPrice(r.blocks, r.close)
      z == FinalOf(r.blocks, inside)
      e == IF r.sweep > 0 THEN Middle(z) ELSE Edge(d, z)
      behindSweep == Embedded(d, Away(d, r.sweep, (r.sweep \div 10000) * 5), z, tenths)
      behindSwing == Embedded(d, SwingStop(d, e, r.swing), z, tenths)
      stop == IF r.sweep > 0 THEN Floored(d, e, behindSweep, floor)
              ELSE IF tenths = 1 THEN behindSwing ELSE Floored(d, e, behindSwing, floor)
  IN  IF inside # {} /\ d # "none" /\ ~WrongHalf(d, z, r.range)
      THEN {SignalOf(d, e, stop, 30, 100, 110)} ELSE {}
OrderBlockReversalBot(r) == Reversal(r, 1, FloorOf(r.symbol))
OrderBlockReversalWiderStopBot(r) == Reversal(r, 3, 35)

(* Bots 3, 7, 13 and 17: the middle of a partly filled 1H gap, or the edge *)
(* of the oldest fresh 1H block, in the direction of the last 15M break.   *)
GapOrEdge(r, d, z, e) ==
  {SignalOf(d, e, Floored(d, e, Away(d, Edge(d, z), Width(z) \div 10), FloorOf(r.symbol)),
          40, 100, 115)}
FVGExpansionBot(r) ==
  LET z == r.gaps[Len(r.gaps)] IN
  IF r.gaps # <<>> /\ r.bos = Side(z) THEN GapOrEdge(r, r.bos, z, Middle(z)) ELSE {}
FVGExpansionV3Bot(r) ==
  LET d == r.significantBos  z == Deepest(r.gaps, d) IN
  IF OnSide(r.gaps, d) # {} THEN GapOrEdge(r, d, z, Middle(z)) ELSE {}
FVGExpansionHTFGatedBot(r) == IF r.day = r.bos THEN FVGExpansionBot(r) ELSE {}
FVGExpansionOBPOIBot(r) ==
  LET mine == OnSide(r.blocks, r.bos)
      z == r.blocks[CHOOSE i \in mine : \A j \in mine : r.blocks[i].at <= r.blocks[j].at]
  IN  IF mine # {} THEN GapOrEdge(r, r.bos, z, Edge(r.bos, z)) ELSE {}

(* Bots 4, 9 and 10: a false break of the 4H range by a 1H candle, near an *)
(* end of the range, confirmed, with two of four confluences.              *)
Near(r, level, percent) == Gapped(r.close, level) < ((r.high - r.low) \div 100) * percent
Sweep(r, d) == IF d = "long" THEN r.spring ELSE r.upthrust
Confluences(r, d, poi, gap) ==
  Cardinality({i \in 1..4 : <<poi # {}, Sweep(r, d).dry, gap, r.trend = d>>[i]})
Poi(r, percent) ==
  LET p == IF Near(r, r.high, percent) THEN r.high ELSE r.low
  IN  {r.blocks[i] : i \in {x \in DOMAIN r.blocks :
         /\ Holds(r.blocks[x], p) /\ \A y \in 1..(x - 1) : ~Holds(r.blocks[y], p)}}
Wyckoff(r, percent, d, gap, base) ==
  LET poi == Poi(r, percent)
      s == Sweep(r, d)
      behind == Away(d, s.extreme, (r.high - r.low) \div 50)
      stop == Floored(d, s.close,
                      IF poi = {} THEN behind ELSE Embedded(d, behind, CHOOSE z \in poi : TRUE, 1),
                      FloorOf(r.symbol))
  IN  IF /\ Near(r, r.high, percent) \/ Near(r, r.low, percent)
         /\ d # "none" /\ s.extreme > 0 /\ Confluences(r, d, poi, gap) >= 2
      THEN {SignalOf(d, s.close, stop, 30, 100, base)} ELSE {}

CappedAlways(r, s) ==  \* Mutant: the cap is not compared with the entry
  LET cap == Away(s.side, IF s.side = "long" THEN r.high ELSE r.low, (r.high - r.low) \div 20)
  IN  [s EXCEPT !.targets.tp3 = IF s.side = "long" THEN Least(@, cap) ELSE Most(@, cap)]
Capped(r, s) ==
  LET cap == Away(s.side, IF s.side = "long" THEN r.high ELSE r.low, (r.high - r.low) \div 20)
  IN  IF WrongSide(s.side, s.entry, cap) /\ s.entry # cap
      THEN [s EXCEPT !.targets.tp3 = IF s.side = "long" THEN Least(@, cap) ELSE Most(@, cap)]
      ELSE s
VolumeLiquidityBot(r) ==
  LET n == Confluences(r, r.choch, Poi(r, 15), r.gapAfterChoch)
  IN  IF r.choch = "none" THEN {}
      ELSE {Capped(r, s) : s \in Wyckoff(r, 15, r.choch, r.gapAfterChoch, 100 + 10 * n)}
VolumeLiquidityWideRangeBot(r) == Wyckoff(r, 25, r.choch, r.gapAfterChoch, 100)
VolumeLiquidityHeldReclaimBot(r) ==
  Wyckoff(r, 15, IF ~r.held THEN "none" ELSE IF r.spring.extreme > 0 THEN "long" ELSE "short",
          r.gapAfterSweep, 100)

(* Bots 5, 6, 8, 14 and 18 to 22: a 15M sweep inside a fresh 1H block, a   *)
(* strong candle that closes in the block, the deepest gap since.          *)
NoConflict(r, d) == r.choch \in {"none", d} /\ r.gapBos \in {"none", d}
AtLeastOne(r, d) == r.choch = d \/ r.gapBos = d

Purged(r) == AtPrice(r.blocks, r.sweep.price)
Smc(r, d, frame, atEdge) ==
  LET z == FirstOf(r.blocks, Purged(r))
      closes == {i \in DOMAIN frame.strong : Holds(z, frame.strong[i].close)}
      k == FirstOf(frame.strong, closes)
      e == CASE atEdge -> Edge(d, z)
             [] OnSide(frame.gaps, d) # {} /\ ~atEdge -> Middle(Deepest(frame.gaps, d))
             [] OTHER -> (k.open + k.close) \div 2
      behind == Embedded(d, Away(d, r.sweep.price, (k.high - k.low) \div 5), z, 1)
  IN  IF /\ d # "none" /\ r.sweep.side = d /\ Purged(r) # {}
         /\ ~WrongHalf(d, z, r.range) /\ closes # {}
      THEN {SignalOf(d, e, Floored(d, e, behind, FloorOf(r.symbol)), 50, 100, 130)} ELSE {}

JeafxSMCBot(r) == IF NoConflict(r, r.bos4) THEN Smc(r, r.bos4, r.m5, FALSE) ELSE {}
JeafxSMCOneHourEntryBot(r) == IF NoConflict(r, r.bos4) THEN Smc(r, r.bos4, r.h1, FALSE) ELSE {}
JeafxSMCHTFGatedBot(r) == IF r.day = r.bos4 THEN JeafxSMCBot(r) ELSE {}
JeafxSMCHTFGatedOneHourEntryBot(r) == IF r.day = r.bos4 THEN JeafxSMCOneHourEntryBot(r) ELSE {}
JeafxSMCv2Bot(r) == IF AtLeastOne(r, r.bos1) THEN Smc(r, r.bos1, r.m5, FALSE) ELSE {}
JeafxSMCv2OBPOIBot(r) == IF AtLeastOne(r, r.bos1) THEN Smc(r, r.bos1, r.m5, TRUE) ELSE {}
JeafxSMCv2OneHourEntryBot(r) == IF AtLeastOne(r, r.bos1) THEN Smc(r, r.bos1, r.h1, FALSE) ELSE {}
AnchorOn4H(r) == Smc(r, r.bos4, r.m5, FALSE)  \* Mutant: the bias was left on 4H
JeafxSMCv2SingleAnchorBot(r) == Smc(r, r.bos1, r.m5, FALSE)
JeafxSMCv2SingleAnchorOneHourEntryBot(r) == Smc(r, r.bos1, r.h1, FALSE)

(***************************************************************************)
(* The pass: every strategy of BOT_REGISTRY in order, each one for the     *)
(* settings of its BotConfig; one that raises loses its own signal only.   *)
(***************************************************************************)
Family ==
  [macro |-> <<1>>, reversal |-> <<2, 11>>, gaps |-> <<3, 7, 13, 17>>,
   wyckoff |-> <<4, 9, 10>>, smc |-> <<5, 6, 8, 14, 18, 19, 20, 21, 22>>]

Analyze(b, r) ==
  CASE b = 1 -> MacroSwingStructureBot(r)
    [] b = 2 -> OrderBlockReversalBot(r)      [] b = 11 -> OrderBlockReversalWiderStopBot(r)
    [] b = 3 -> FVGExpansionBot(r)            [] b = 7 -> FVGExpansionV3Bot(r)
    [] b = 13 -> FVGExpansionHTFGatedBot(r)   [] b = 17 -> FVGExpansionOBPOIBot(r)
    [] b = 4 -> VolumeLiquidityBot(r)         [] b = 9 -> VolumeLiquidityWideRangeBot(r)
    [] b = 10 -> VolumeLiquidityHeldReclaimBot(r)
    [] b = 5 -> JeafxSMCBot(r)                [] b = 20 -> JeafxSMCOneHourEntryBot(r)
    [] b = 14 -> JeafxSMCHTFGatedBot(r)       [] b = 22 -> JeafxSMCHTFGatedOneHourEntryBot(r)
    [] b = 6 -> JeafxSMCv2Bot(r)              [] b = 18 -> JeafxSMCv2OBPOIBot(r)
    [] b = 19 -> JeafxSMCv2OneHourEntryBot(r) [] b = 8 -> JeafxSMCv2SingleAnchorBot(r)
    [] b = 21 -> JeafxSMCv2SingleAnchorOneHourEntryBot(r)

(* _signal_risk_is_valid: the side of the stop, the risk that the lots     *)
(* imply within one and a half of the target, and a notional of fifty      *)
(* times the balance at most.                                              *)
MaxNotionalLeverage == 50
RiskIsValid(s) ==
  /\ ~WrongSide(s.side, s.entry, s.stop)
  /\ s.lots <= ((Balance \div 10000) * s.risk * 1500) \div Gapped(s.entry, s.stop)
  /\ s.lots * (s.entry \div 20000) <= MaxNotionalLeverage * 1000 * (Balance \div 20000)

StratInit ==
  /\ reading \in Readings /\ entry \in Entries
  /\ left = Family[reading.family]
  /\ signals = {} /\ refused = {}

Taken(b, s) == [bot |-> b, signal |-> s]
RunFamily ==
  LET b == left[1]  found == Analyze(b, reading) IN
  /\ left # <<>> /\ left' = Tail(left)
  /\ signals' = signals \cup {Taken(b, s) : s \in {x \in found : RiskIsValid(x)}}
  /\ refused' = refused \cup {Taken(b, s) : s \in {x \in found : ~RiskIsValid(x)}}
  /\ UNCHANGED <<reading, entry>>
AnalyzeRaises ==
  /\ left # <<>> /\ left[1] \in Raising /\ left' = Tail(left)
  /\ UNCHANGED <<reading, entry, signals, refused>>

StratNext == RunFamily \/ AnalyzeRaises
StratSpec == StratInit /\ [][StratNext]_stratVars

-----------------------------------------------------------------------------
(* Whatever the detectors report and the settings ask for, a strategy puts *)
(* its stop on the losing side of its entry and at the platform's floor at *)
(* least, every target on the winning side, and sizes itself so that the   *)
(* check over all of them never has anything to refuse.                    *)
SignalsAreSound ==
  /\ refused = {}
  /\ \A x \in signals :
       LET s == x.signal IN
       /\ ~WrongSide(s.side, s.entry, s.stop)
       /\ Gapped(s.entry, s.stop) >= (s.entry \div 10000) * PlatformFloor
       /\ s.risk <= 300
       /\ \A t \in {s.targets.tp1, s.targets.tp2, s.targets.tp3} :
            t # s.entry /\ WrongSide(s.side, s.entry, t)

(* The variants differ from the strategy they were made from in the one    *)
(* thing their docstrings name: the gated ones (13, 14, 22 and 6, 19       *)
(* against 8, 21) take a subset of its signals, the wider stop (11) and    *)
(* the wider range (9) keep its entry, the edge entry (18) its setups.     *)
Levels(S) == {[side |-> s.side, entry |-> s.entry] : s \in S}
VariantsChangeOneThing ==
  LET r == reading IN
  CASE r.family = "gaps" -> FVGExpansionHTFGatedBot(r) \subseteq FVGExpansionBot(r)
    [] r.family = "reversal" ->
         /\ Levels(OrderBlockReversalBot(r)) = Levels(OrderBlockReversalWiderStopBot(r))
         /\ \A s \in OrderBlockReversalBot(r), t \in OrderBlockReversalWiderStopBot(r) :
              Gapped(s.entry, s.stop) <= Gapped(t.entry, t.stop)
    [] r.family = "wyckoff" ->
         Levels(VolumeLiquidityBot(r)) \subseteq Levels(VolumeLiquidityWideRangeBot(r))
    [] r.family = "smc" ->
         /\ JeafxSMCHTFGatedBot(r) \subseteq JeafxSMCBot(r)
         /\ JeafxSMCHTFGatedOneHourEntryBot(r) \subseteq JeafxSMCOneHourEntryBot(r)
         /\ JeafxSMCv2Bot(r) \subseteq JeafxSMCv2SingleAnchorBot(r)
         /\ JeafxSMCv2OneHourEntryBot(r) \subseteq JeafxSMCv2SingleAnchorOneHourEntryBot(r)
         /\ {s.side : s \in JeafxSMCv2OBPOIBot(r)} = {s.side : s \in JeafxSMCv2Bot(r)}
    [] OTHER -> TRUE

(* As the comment on the override for BTC has it, a stop of BTC survives   *)
(* the range of a typical candle: 0.23 percent at least.                   *)
BtcKeepsItsFloor ==
  reading.symbol = "BTC" =>
    \A x \in signals : Gapped(x.signal.entry, x.signal.stop) >= (x.signal.entry \div 10000) * 23
=============================================================================

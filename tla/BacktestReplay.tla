----------------------------- MODULE BacktestReplay -----------------------------
(***************************************************************************)
(* The replay engines: one bot over its bars, or every bot of a portfolio  *)
(* over a merged queue of bars against one balance.  A strategy may signal *)
(* at the close of any bar; from the next bar on, the position is walked   *)
(* down its ladder.  Fractions are parts of Whole, gains are parts times   *)
(* price differences (the engine's R times the risk), costs are zero as in *)
(* the runner's spread and slippage.                                       *)
(***************************************************************************)
EXTENDS Naturals, Integers, Sequences, FiniteSets, FiniteSetsExt

CONSTANTS Participants,   \* bot and symbol pairs
          BarShapes,      \* [high, low, close]
          Setups,         \* what a strategy may signal: [long, stop, tps, pct, lot, activation, mode]
          MaxHold,        \* bars a position may be held
          BarsPerRun,     \* bound on the bars of a participant
          StartingBalance, Leverage

ASSUME BarsAreBars ==
  BarShapes \subseteq {b \in [high : Int, low : Int, close : Int] :
                         b.low <= b.close /\ b.close <= b.high}
ASSUME SetupsArePriced ==
  Setups \subseteq [long : BOOLEAN, stop : Int, tps : [1..3 -> Int], pct : [1..3 -> Nat],
                    lot : Nat, activation : 0..3, mode : {"fixed", "step_down"}]

ASSUME RunsHaveBars == BarsPerRun \in Nat

VARIABLES shared,     \* the portfolio engine, or one bot's run
          position,   \* per participant, the open position or NoPosition
          bars,       \* bars seen, per participant; all of them, of one not in the run
          balance,
          closedTrade,     \* the last closed trade
          simulated   \* trades closed so far, per participant

replayVars == <<shared, position, bars, balance, closedTrade, simulated>>

Whole == 100
NoPosition == [open |-> FALSE]
NoTrade == [parts |-> Whole, gain |-> 0, behind |-> 0, tp1 |-> FALSE, cut |-> FALSE]

ReplayInit ==
  /\ shared \in BOOLEAN
  /\ position = [p \in Participants |-> NoPosition]
  /\ \E run \in SUBSET Participants :
       /\ shared \/ \E p \in Participants : run = {p}
       /\ bars = [p \in Participants |-> IF p \in run THEN 0 ELSE BarsPerRun]
  /\ balance = StartingBalance /\ closedTrade = NoTrade
  /\ simulated = [p \in Participants |-> 0]

-----------------------------------------------------------------------------
(* From a signal to a ladder: every target but the last is a leg, closing  *)
(* its share of what the remaining percents leave; the last is the target. *)
Configured(setup) == {l \in 1..3 : setup.tps[l] # 0}
Weights(setup, level, percents) ==
  [l \in 1..3 |-> IF l >= level /\ l \in Configured(setup) THEN percents[l] ELSE 0]
Total(w) == w[1] + w[2] + w[3]
LegPart(setup, level, left) ==
  LET asked == Weights(setup, level, setup.pct)
      w == IF Total(asked) > 0 THEN asked ELSE Weights(setup, level, <<1, 1, 1>>)
  IN (left * w[level]) \div Total(w)

Entered(p, setup, bar) ==
  LET levels == Configured(setup)
      legs == IF levels = {} THEN {} ELSE levels \ {Max(levels)}
  IN [open |-> TRUE, long |-> setup.long, entry |-> bar.close, stop |-> setup.stop,
      first |-> setup.stop, setup |-> setup, legs |-> legs,
      target |-> IF levels = {} THEN setup.stop ELSE setup.tps[Max(levels)],
      trailing |-> FALSE, peak |-> 0, left |-> Whole, parts |-> 0, gain |-> 0,
      behind |-> 0, tp1 |-> 0, lot |-> setup.lot, at |-> bars[p],
      close |-> bar.close, fresh |-> FALSE,              \* the last bar's; TP1 taken on it
      mode |-> IF shared THEN "fixed" ELSE setup.mode]   \* the portfolio does not pass it on

(* The risk is the distance of the fill from the signal's stop; without any,*)
(* an R is none at whatever price.                                         *)
Gain(pos, price) == IF pos.entry = pos.first THEN 0
                    ELSE IF pos.long THEN price - pos.entry ELSE pos.entry - price
Better(pos, a, b) == IF pos.long THEN Max({a, b}) ELSE Min({a, b})
StopHit(pos, level, bar) == IF pos.long THEN bar.low <= level ELSE bar.high >= level
TargetHit(pos, level, bar) == IF pos.long THEN bar.high >= level ELSE bar.low <= level

Distance(a, b) == IF a > b THEN a - b ELSE b - a
(* Fixed: the original risk behind the peak.  Step-down: narrower by three *)
(* tenths per further R, never under four tenths.                          *)
TrailFrom(pos, peak) ==
  LET risk == Distance(pos.entry, pos.first)
      beyond == Max({0, Distance(peak, pos.entry) - risk})
      width == IF pos.mode = "step_down"
               THEN Max({4 * risk, 10 * risk - 3 * beyond}) \div 10 ELSE risk
  IN IF risk = 0 THEN pos.first ELSE IF pos.long THEN peak - width ELSE peak + width

(* cut: forced shut on the very bar that took the first target.  behind:   *)
(* what was lost at targets the fill lies beyond, which count as reached   *)
(* and are taken at their own price.                                       *)
LostAt(pos, part, price) == IF Gain(pos, price) < 0 THEN part * Gain(pos, price) ELSE 0
CloseAt(pos, price, cut) == [parts |-> pos.parts + pos.left, tp1 |-> pos.tp1 # 0, cut |-> cut,
                             gain |-> pos.gain + pos.left * Gain(pos, price),
                             behind |-> pos.behind]

RatchetNone(pos, level) == pos.stop   \* Mutant: the stop stays where it was
Ratchet(pos, level) ==
  IF level = 1 THEN Better(pos, pos.stop, pos.entry)
  ELSE IF level = 2 /\ pos.tp1 # 0 THEN Better(pos, pos.stop, pos.tp1) ELSE pos.stop

TakeLeg(pos, level) ==
  LET price == pos.setup.tps[level]
      part == LegPart(pos.setup, level, pos.left)
      trails == pos.setup.activation = level
  IN [pos EXCEPT !.legs = @ \ {level}, !.left = @ - part, !.parts = @ + part,
                 !.gain = @ + part * Gain(pos, price), !.behind = @ + LostAt(pos, part, price),
                 !.stop = Ratchet(pos, level),
                 !.tp1 = IF level = 1 THEN price ELSE @, !.fresh = level = 1,
                 !.trailing = trails, !.peak = IF trails THEN price ELSE @]

(* What a bar does to a position: [closed, pos, trade].  The stop is looked*)
(* at first; once trailing, the legs left are never taken.                 *)
Stays(pos) == [closed |-> FALSE, pos |-> pos, trade |-> NoTrade]
Closes(pos, price) == [closed |-> TRUE, pos |-> pos, trade |-> CloseAt(pos, price, FALSE)]

Trailed(pos, bar) ==
  LET peak == Better(pos, pos.peak, IF pos.long THEN bar.high ELSE bar.low)
      trail == TrailFrom(pos, peak)
  IN IF StopHit(pos, trail, bar) THEN Closes(pos, trail) ELSE Stays([pos EXCEPT !.peak = peak])

Reached(pos, bar) ==   \* one leg a bar; after the last one, the target
  LET level == Min(pos.legs)
      after == TakeLeg(pos, level)
  IN IF pos.legs = {}
     THEN IF TargetHit(pos, pos.target, bar)
          THEN Closes([pos EXCEPT !.behind = @ + LostAt(pos, pos.left, pos.target)], pos.target)
          ELSE Stays(pos)
     ELSE IF ~TargetHit(pos, pos.setup.tps[level], bar) THEN Stays(pos)
     ELSE IF after.left = 0 THEN Closes(after, 0) ELSE Stays(after)

Walked(before, bar) ==
  LET pos == [before EXCEPT !.close = bar.close, !.fresh = FALSE]
  IN IF StopHit(pos, pos.stop, bar) THEN Closes(pos, pos.stop)
     ELSE IF pos.trailing THEN Trailed(pos, bar) ELSE Reached(pos, bar)

Notional(pos) == pos.lot * pos.entry
Exposure == MapThenSumSet(LAMBDA p : Notional(position[p]), {p \in Participants : position[p].open})
CapitalAdequate(new) == ~shared \/ Exposure + new <= balance * Leverage

Settle(p, trade) ==
  /\ closedTrade' = trade
  /\ balance' = IF shared THEN balance + (trade.gain * position[p].lot) \div Whole ELSE balance
  /\ position' = [position EXCEPT ![p] = NoPosition]
  /\ simulated' = [simulated EXCEPT ![p] = @ + 1]

-----------------------------------------------------------------------------
AdvanceOpen(p, bar) ==
  /\ position[p].open /\ bars[p] < BarsPerRun
  /\ LET step == Walked(position[p], bar)
         held == bars[p] - position[p].at
     IN IF step.closed THEN Settle(p, step.trade)
        ELSE IF held >= MaxHold THEN Settle(p, CloseAt(step.pos, bar.close, step.pos.fresh))
        ELSE /\ position' = [position EXCEPT ![p] = step.pos]
             /\ UNCHANGED <<balance, closedTrade, simulated>>
  /\ bars' = [bars EXCEPT ![p] = @ + 1] /\ UNCHANGED shared

(* The fill is the bar's close, wherever the signal had its own entry: its *)
(* stop and any of its targets may lie on the wrong side of it.            *)
EnterAtClose(p, bar, setup) ==
  /\ ~position[p].open /\ bars[p] < BarsPerRun
  /\ shared => setup.lot > 0 /\ CapitalAdequate(setup.lot * bar.close)
  /\ position' = [position EXCEPT ![p] = Entered(p, setup, bar)]
  /\ bars' = [bars EXCEPT ![p] = @ + 1]
  /\ UNCHANGED <<shared, balance, closedTrade, simulated>>

NoSignal(p) ==   \* none, invalid, or more than the shared balance carries
  /\ ~position[p].open /\ bars[p] < BarsPerRun
  /\ bars' = [bars EXCEPT ![p] = @ + 1]
  /\ UNCHANGED <<shared, position, balance, closedTrade, simulated>>

(* What is still open when the bars have run out, everyone's in a          *)
(* portfolio, is closed at its last bar's close.                           *)
RunOut(p) ==
  /\ position[p].open /\ bars[p] = BarsPerRun
  /\ shared => \A q \in Participants : bars[q] = BarsPerRun
  /\ Settle(p, CloseAt(position[p], position[p].close, position[p].fresh))
  /\ UNCHANGED <<shared, bars>>

ReplayNext == \E p \in Participants :
  \/ NoSignal(p) \/ RunOut(p)
  \/ \E bar \in BarShapes : \/ AdvanceOpen(p, bar)
                            \/ \E setup \in Setups : EnterAtClose(p, bar, setup)

ReplaySpec == ReplayInit /\ [][ReplayNext]_replayVars

-----------------------------------------------------------------------------
(* A closed trade accounts for the whole position once, whichever legs,    *)
(* trail, stop, timeout or end of data closed it; and once its first       *)
(* target was taken, the stop having moved to the entry, it loses no more  *)
(* than its targets did that the fill was beyond, save when it was forced  *)
(* shut at the close of the very bar that took the first, of whose prices  *)
(* the moved stop has seen nothing.                                        *)
LadderKeepsItsWord ==
  /\ closedTrade.parts = Whole
  /\ closedTrade.tp1 => closedTrade.gain >= closedTrade.behind \/ closedTrade.cut
=============================================================================

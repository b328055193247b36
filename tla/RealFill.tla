------------------------------- MODULE RealFill -------------------------------
(***************************************************************************)
(* What becomes of a signal of Strategies when its order fills: the guard  *)
(* that compares its entry with the price at the broker, and the stop, the *)
(* targets and the size that the real fill gives its trade.  An order may  *)
(* fill well away from the entry, above all one approved hours later.      *)
(***************************************************************************)
EXTENDS Strategies

(* price_deviation_adverse_pct: only a move against the signal counts.     *)
Adverse(d, e, price) == Most(0, IF d = "long" THEN price - e ELSE e - price)

(* _check_price_deviation: a quarter of a percent of the live price; one   *)
(* that cannot be read (0) refuses nothing.                                *)
PriceOk(s, live) == live = 0 \/ Adverse(s.side, s.entry, live) * 400 <= live

(* The R-multiple of the third target, in hundredths, read back from the   *)
(* levels alone: half of the way from the stop to the first target is the  *)
(* distance they were drawn with, if the stop is still where it was.       *)
LadderOf(s, stop) ==
  (200 * Gapped(s.targets.tp3, s.targets.tp1)) \div Gapped(s.targets.tp1, stop) + 100

(* calculate_lot_size from the balance that the promised risk implies.     *)
LotsWithin(promised, distance) == promised \div distance

(* _resize_risk_for_real_fill, and what it would do if it sized the trade  *)
(* before it widened the stop.                                             *)
Refilled(s, fill, stop, sized) ==
  LET r == Gapped(fill, stop)
      rr == LadderOf(s, stop)
  IN  [s EXCEPT
        !.entry = fill, !.stop = stop,
        !.targets = [tp1 |-> Away(s.side, fill, -r), tp2 |-> Away(s.side, fill, -2 * r),
                     tp3 |-> Away(s.side, fill, -((r * rr) \div 100))],
        !.lots = Least(@, LotsWithin(s.lots * Gapped(s.entry, s.stop), sized))]
StopAt(s, fill) == Floored(s.side, fill, s.stop, FloorOf(reading.symbol))
ResizedBeforeFloor(s, fill) ==  \* Mutant
  Refilled(s, fill, StopAt(s, fill), Most(1, Gapped(fill, s.stop)))
Resized(s, fill) == Refilled(s, fill, StopAt(s, fill), Gapped(fill, StopAt(s, fill)))

(* Fills at the entry, on either side of it, and beyond the stop.          *)
FillPrices(s) ==
  LET r == Gapped(s.entry, s.stop)
  IN  {Away(s.side, s.entry, x) : x \in {0, r \div 4, -(r \div 4), r, (3 * r) \div 2, -(2 * r)}}
Fills(s) == {p \in FillPrices(s) : p \in Quotes /\ PriceOk(s, p)}

-----------------------------------------------------------------------------
(* Wherever the guard lets an order fill, the trade keeps its stop at the  *)
(* floor on the losing side of the fill and its targets on the winning     *)
(* side, and stands to lose no more than the signal promised.              *)
RiskKept(s, t) ==
  /\ ~WrongSide(t.side, t.entry, t.stop)
  /\ Gapped(t.entry, t.stop) >= (t.entry \div 10000) * PlatformFloor
  /\ t.lots <= s.lots
  /\ t.lots * Gapped(t.entry, t.stop) <= s.lots * Gapped(s.entry, s.stop)
  /\ \A p \in {t.targets.tp1, t.targets.tp2, t.targets.tp3} :
       p # t.entry /\ WrongSide(t.side, t.entry, p)

(* The targets keep their R-multiples, unless the floor moved the stop or  *)
(* the third target lay short of the first: it is then put beyond it.      *)
RatioOf(s) == (100 * Gapped(s.targets.tp3, s.entry)) \div Gapped(s.entry, s.stop)
LadderKept(s, t) ==
  \/ t.stop # s.stop
  \/ Gapped(s.targets.tp3, s.entry) < Gapped(s.targets.tp1, s.entry)
  \/ Gapped(RatioOf(s), RatioOf(t)) <= 2

FillsAreSound ==
  left = <<>> =>
    \A x \in signals : \A p \in Fills(x.signal) :
      LET t == Resized(x.signal, p) IN RiskKept(x.signal, t) /\ LadderKept(x.signal, t)

(* What a strategy signals has its stop and targets on their sides and its *)
(* risk within the caps of the instrument, and so has the trade wherever   *)
(* it fills; each variant differs from the strategy it was made from only  *)
(* as its docstring says.                                                  *)
SignalsSound == SignalsAreSound /\ VariantsChangeOneThing /\ FillsAreSound
=============================================================================

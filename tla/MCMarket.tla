------------------------------- MODULE MCMarket -------------------------------
(* Values for MarketStructure and Strategies: the candles that may print,  *)
(* and what the detectors may have told the strategies.                    *)
EXTENDS Integers

C(o, h, l, c) == [o |-> 1000 + o, h |-> 1000 + h, l |-> 1000 + l, c |-> 1000 + c]
MCShapes == {C(0, 5, 0, 4), C(4, 5, 0, 0), C(6, 10, 6, 9), C(3, 8, 2, 7), C(7, 8, 3, 3), C(2, 3, 1, 2)}

P(k) == (1000 + k) * 20000
Z(bull, at, lo, hi) == [bull |-> bull, at |-> at, top |-> P(hi), bottom |-> P(lo)]
R(lo, hi) == [low |-> P(lo), high |-> P(hi)]
Sides == {"none", "long", "short"}
BlockLists == {<<>>, <<Z(FALSE, 2, 4, 8)>>, <<Z(FALSE, 5, 6, 8), Z(TRUE, 1, 0, 4)>>,
           <<Z(TRUE, 3, 2, 4), Z(TRUE, 2, 3, 5)>>}
MacroReadings ==
  [family : {"macro"}, symbol : {"BTC", "OIL"}, trend : Sides, bos : Sides, blocks : BlockLists,
   low : {P(-4), P(3)}, high : {P(6), P(12)}, range : {R(-4, 12), R(2, 6)}]
ReversalReadings ==
  [family : {"reversal"}, symbol : {"BTC", "OIL"}, blocks : BlockLists, close : {P(3), P(7)},
   choch : Sides, sweep : {0, P(1), P(4), P(9)}, swing : {P(-1), P(4), P(8)},
   range : {R(-4, 12), R(2, 6)}]
GapLists == {<<>>, <<Z(TRUE, 1, 3, 5)>>, <<Z(TRUE, 1, 3, 5), Z(FALSE, 2, 6, 20)>>,
         <<Z(TRUE, 1, 4, 6), Z(TRUE, 2, 1, 3)>>}
GapReadings ==
  [family : {"gaps"}, symbol : {"BTC", "OIL"}, gaps : GapLists, bos : Sides,
   significantBos : Sides, day : Sides, blocks : BlockLists]
Swept(x, c, dry) == [extreme |-> x, close |-> c, dry |-> dry]
NoSweep == Swept(0, 0, FALSE)
WyckoffReadings ==
  {r \in [family : {"wyckoff"}, symbol : {"BTC", "OIL"}, low : {P(0)}, high : {P(5), P(20)},
          close : {P(1), P(3), P(5)}, blocks : BlockLists, trend : Sides,
          spring : {NoSweep} \cup {Swept(P(-2), P(c), dry) : c \in {1, 6}, dry \in BOOLEAN},
          upthrust : {NoSweep, Swept(P(22), P(4), TRUE)},
          choch : Sides, held : BOOLEAN, gapAfterChoch : BOOLEAN, gapAfterSweep : BOOLEAN] :
     /\ r.spring # NoSweep \/ r.upthrust # NoSweep
     /\ r.gapAfterChoch => r.gapAfterSweep}
K(o, h, l, c) == [open |-> P(o), high |-> P(h), low |-> P(l), close |-> P(c)]
Frames == {[strong |-> <<>>, gaps |-> <<>>], [strong |-> <<K(1, 4, 1, 3)>>, gaps |-> <<>>],
           [strong |-> <<K(9, 9, 3, 3), K(8, 8, 6, 7)>>,
            gaps |-> <<Z(TRUE, 1, -6, -4), Z(FALSE, 2, 9, 11)>>]}
SmcReadings ==
  [family : {"smc"}, symbol : {"BTC", "OIL"}, blocks : BlockLists, bos4 : Sides, bos1 : {"long", "short"},
   choch : {"none", "long"}, gapBos : {"none", "short"}, day : {"none", "long"},
   sweep : [side : {"long", "short"}, price : {P(3), P(7)}], range : {R(-4, 12), R(2, 6)},
   m5 : Frames, h1 : Frames]
MCReadings == MacroReadings \cup ReversalReadings \cup GapReadings \cup WyckoffReadings \cup SmcReadings
MCEntries == {[risk |-> 0, rr |-> 0], [risk |-> 1000, rr |-> 5]}
=============================================================================

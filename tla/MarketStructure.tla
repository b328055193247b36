--------------------------- MODULE MarketStructure ---------------------------
(***************************************************************************)
(* The detectors the strategies read the market with (smc_algorithms): the *)
(* fractal swings of a tape of candles, the swings that matter, breaks of  *)
(* structure and changes of character, order blocks, fair value gaps,      *)
(* equal highs and lows and their sweeps.  Prices are integers (ticks), a  *)
(* timestamp is a position on the tape, and the tape is the window a scan  *)
(* fetches: a new candle pushes the oldest one out.                        *)
(***************************************************************************)
EXTENDS Integers, FiniteSets, Sequences, SequencesExt

CONSTANTS Shapes,       \* the candles that may print: [o, h, l, c]
          Window,       \* candles of a fetch
          Bars          \* left_bars and right_bars of the detectors

(* A candle is of prices, and prices are positive.                         *)
ASSUME CandlesHavePrices ==
  /\ Shapes \subseteq [o : Nat \ {0}, h : Nat \ {0}, l : Nat \ {0}, c : Nat \ {0}]
  /\ Window \in Nat \ {0} /\ Bars \in Nat

VARIABLE tape

MarketInit == tape = <<>>
Print1(k) ==
  tape' = IF Len(tape) < Window THEN Append(tape, k) ELSE Append(Tail(tape), k)
MarketNext == \E k \in Shapes : Print1(k)
MarketSpec == MarketInit /\ [][MarketNext]_tape
MarketTypeOK == tape \in Seq(Shapes) /\ Len(tape) <= Window

Dist(x, y) == IF x > y THEN x - y ELSE y - x
Body(k) == Dist(k.o, k.c)
LastOf(s) == s[Len(s)]

(***************************************************************************)
(* Swings: [at, kind, price], in the order of the tape.                    *)
(***************************************************************************)
Around(i) == ((i - Bars)..(i + Bars)) \ {i}
Centered(i) == Bars < i /\ i <= Len(tape) - Bars
SwingHigh(i) == Centered(i) /\ \A j \in Around(i) : tape[i].h >= tape[j].h
SwingLow(i) == Centered(i) /\ \A j \in Around(i) : tape[i].l <= tape[j].l
HighAt(i) == [at |-> i, kind |-> "high", price |-> tape[i].h]
LowAt(i) == [at |-> i, kind |-> "low", price |-> tape[i].l]
AllSwings == {HighAt(i) : i \in {j \in 1..Len(tape) : SwingHigh(j)}}
               \cup {LowAt(i) : i \in {j \in 1..Len(tape) : SwingLow(j)}}
SwingsAt(i) == (IF SwingHigh(i) THEN <<HighAt(i)>> ELSE <<>>)
                 \o (IF SwingLow(i) THEN <<LowAt(i)>> ELSE <<>>)
Swings == FlattenSeq([i \in 1..Len(tape) |-> SwingsAt(i)])

(* filter_significant_swings: one swing per leg.  Of two in a row of a     *)
(* kind the more extreme one stays; one of the other kind is kept when the *)
(* leg to it is at least a quarter of a percent.                           *)
Beyond(s, t) == IF s.kind = "high" THEN s.price > t.price ELSE s.price < t.price
LegCounts(s, t) == Dist(s.price, t.price) * 400 >= t.price
KeepFirst(kept, s) ==  \* Mutant: a more extreme swing does not replace the kept one
  IF kept = <<>> THEN <<s>>
  ELSE IF s.kind # LastOf(kept).kind /\ LegCounts(s, LastOf(kept)) THEN Append(kept, s) ELSE kept
KeepSwing(kept, s) ==
  IF kept = <<>> THEN <<s>>
  ELSE IF s.kind = LastOf(kept).kind
       THEN IF Beyond(s, LastOf(kept)) THEN [kept EXCEPT ![Len(kept)] = s] ELSE kept
       ELSE IF LegCounts(s, LastOf(kept)) THEN Append(kept, s) ELSE kept
KeepAt(kept, i) ==
  LET highKept == IF SwingHigh(i) THEN KeepSwing(kept, HighAt(i)) ELSE kept
  IN  IF SwingLow(i) THEN KeepSwing(highKept, LowAt(i)) ELSE highKept
KeptTo[i \in 0..Len(tape)] == IF i = 0 THEN <<>> ELSE KeepAt(KeptTo[i - 1], i)
Significant == KeptTo[Len(tape)]

OfKind(swings, kind) == SelectSeq(swings, LAMBDA s : s.kind = kind)
LastN(s, n) == IF Len(s) <= n THEN s ELSE SubSeq(s, Len(s) - n + 1, Len(s))

(* Higher highs with higher lows, or the mirror, of a list of swings.      *)
Trend(swings) ==
  LET h == OfKind(swings, "high")
      l == OfKind(swings, "low")
      Up(s) == s[Len(s)].price > s[Len(s) - 1].price
      Down(s) == s[Len(s)].price < s[Len(s) - 1].price
  IN  IF Len(h) < 2 \/ Len(l) < 2 THEN "unclear"
      ELSE IF Up(h) /\ Up(l) THEN "bullish"
      ELSE IF Down(h) /\ Down(l) THEN "bearish" ELSE "unclear"
HtfBias == Trend(LastN(Swings, 10))

(* detect_bos: a body that closes through an earlier swing.                *)
Rises(k, level) == k.o < level /\ level < k.c
Falls(k, level) == k.c < level /\ level < k.o
Breaks(swings) ==
  {b \in [at : 1..Len(tape), up : BOOLEAN, of : 1..Len(swings)] :
     LET s == swings[b.of] IN
     /\ s.at < b.at
     /\ IF b.up THEN s.kind = "high" /\ Rises(tape[b.at], s.price)
                ELSE s.kind = "low" /\ Falls(tape[b.at], s.price)}

(* detect_choch: the last highs and lows of six swings make the trend, and *)
(* a body among the last twenty candles closes through the last swing that *)
(* the trend rests on; a last leg under half of the one before ends it.    *)
LegFades(swings) ==
  LET n == Len(swings)
      last == Dist(swings[n].price, swings[n - 1].price)
      before == Dist(swings[n - 1].price, swings[n - 2].price)
  IN  before > 0 /\ 2 * last < before
ChochAny(swings) ==   \* Mutant: the trend does not choose the side
  {e \in [at : 1..Len(tape), up : BOOLEAN] :
     /\ Len(swings) >= 3 /\ Trend(LastN(swings, 6)) # "unclear" /\ ~LegFades(swings)
     /\ IF e.up THEN Rises(tape[e.at], LastOf(OfKind(swings, "high")).price)
                ELSE Falls(tape[e.at], LastOf(OfKind(swings, "low")).price)}
Chochs(swings) ==
  {e \in [at : 1..Len(tape), up : BOOLEAN] :
     /\ Len(swings) >= 3 /\ ~LegFades(swings) /\ e.at > Len(tape) - 20
     /\ CASE Trend(LastN(swings, 6)) = "bullish" ->
               ~e.up /\ Falls(tape[e.at], LastOf(OfKind(swings, "low")).price)
          [] Trend(LastN(swings, 6)) = "bearish" ->
               e.up /\ Rises(tape[e.at], LastOf(OfKind(swings, "high")).price)
          [] OTHER -> FALSE}

(***************************************************************************)
(* Order blocks: the last candle the other way before a swing, at most     *)
(* nine back and never the first of the window.                            *)
(***************************************************************************)
Opposes(k, s) == IF s.kind = "low" THEN k.c < k.o ELSE k.c > k.o
Origins(s) ==
  {i \in 2..(s.at - 1) : s.at > 3 /\ i > s.at - 10 /\ Opposes(tape[i], s)}
OrderBlock(s) ==
  LET i == CHOOSE x \in Origins(s) : \A y \in Origins(s) : y <= x
      k == tape[i]
  IN  [at |-> i, bull |-> s.kind = "low",
       top |-> IF s.kind = "low" THEN k.o ELSE k.h,
       bottom |-> IF s.kind = "low" THEN k.l ELSE k.c,
       status |-> "ACTIVE", tests |-> 0]
OrderBlocks == {OrderBlock(s) : s \in {x \in AllSwings : Origins(x) # {}}}

(* update_mitigation, which no strategy calls: every candle after the      *)
(* origin that touches the block tests it, up to the one that closes past  *)
(* its mean (mitigated) or out of it the wrong way (invalidated).          *)
Touches(z, i) == tape[i].l <= z.top /\ tape[i].h >= z.bottom
ClosesPastMean(z, k) ==
  IF z.bull THEN 2 * k.c > z.top + z.bottom ELSE 2 * k.c < z.top + z.bottom
ClosesOut(z, k) == IF z.bull THEN k.c < z.bottom ELSE k.c > z.top
Mitigate(z, i) ==
  IF z.status \in {"MITIGATED", "INVALIDATED"} \/ i <= z.at \/ ~Touches(z, i) THEN z
  ELSE [z EXCEPT !.tests = @ + 1,
                 !.status = CASE ClosesPastMean(z, tape[i]) -> "MITIGATED"
                              [] ClosesOut(z, tape[i]) -> "INVALIDATED"
                              [] OTHER -> "TESTED"]
Mitigated(z) == FoldLeft(Mitigate, z, [i \in 1..Len(tape) |-> i])

(* What the strategies take: a block that is ACTIVE and tested once at     *)
(* most, as detect_order_blocks hands it out.                              *)
FreshBlocks == {z \in OrderBlocks : z.status = "ACTIVE" /\ z.tests <= 1}

(***************************************************************************)
(* Fair value gaps between the first and the third of three candles, the   *)
(* middle one with more than half the average body around it.              *)
(***************************************************************************)
BodySum(S) == MapThenSumSet(LAMBDA i : Body(tape[i]), S)
Displaced(i) ==
  LET near == {j \in 1..Len(tape) : i - 5 <= j /\ j <= i + 2}
  IN  2 * Body(tape[i + 1]) * Cardinality(near) > BodySum(near)
GapAt(i, bull) ==
  [at |-> i, bull |-> bull, status |-> "ACTIVE", filled |-> 0,
   top |-> IF bull THEN tape[i + 2].l ELSE tape[i].l,
   bottom |-> IF bull THEN tape[i].h ELSE tape[i + 2].h]
Jumps(i, bull) == IF bull THEN tape[i].h < tape[i + 2].l ELSE tape[i].l > tape[i + 2].h
GapsOf(bull) ==
  {GapAt(i, bull) : i \in {j \in 1..(Len(tape) - 2) : Jumps(j, bull) /\ Displaced(j)}}
Gaps == GapsOf(TRUE) \cup GapsOf(FALSE)

(* track_mitigation: a close in the gap fills it that far (in ticks, the   *)
(* last one counts), a close through it ends it.                           *)
Fill(g, c) == IF g.bull THEN g.top - (IF c > g.bottom THEN c ELSE g.bottom)
                        ELSE (IF c < g.top THEN c ELSE g.top) - g.bottom
FillGapWick(g, i) ==  \* Mutant: the close through the gap is not looked at
  IF g.status # "ACTIVE" \/ i <= g.at + 2 \/ tape[i].l > g.top \/ tape[i].h < g.bottom THEN g
  ELSE IF (IF g.bull THEN tape[i].c <= g.top ELSE tape[i].c >= g.bottom)
       THEN [g EXCEPT !.filled = Fill(g, tape[i].c)] ELSE g
FillGap(g, i) ==
  LET c == tape[i].c IN
  IF g.status # "ACTIVE" \/ i <= g.at + 2 \/ tape[i].l > g.top \/ tape[i].h < g.bottom THEN g
  ELSE IF (IF g.bull THEN c < g.bottom ELSE c > g.top)
       THEN [g EXCEPT !.status = "MITIGATED", !.filled = g.top - g.bottom]
  ELSE IF (IF g.bull THEN c <= g.top ELSE c >= g.bottom)
       THEN [g EXCEPT !.filled = Fill(g, c)]
       ELSE g
Tracked(g) ==
  LET upTo[i \in 0..Len(tape)] == IF i = 0 THEN g ELSE FillGap(upTo[i - 1], i)
  IN  upTo[Len(tape)]
TrackedGaps == {Tracked(g) : g \in Gaps}
(* The gaps bots 3, 7 and 13 trade: three to seven tenths filled. *)
PartialGaps == {g \in TrackedGaps : /\ g.status = "ACTIVE"
                                    /\ 10 * g.filled >= 3 * (g.top - g.bottom)
                                    /\ 10 * g.filled <= 7 * (g.top - g.bottom)}

(***************************************************************************)
(* Liquidity: highs, or lows, of two bars to each side that lie within     *)
(* five hundredths of a percent of their neighbour in price; the pool is   *)
(* at their average and is swept by a wick through it that closes back.    *)
(***************************************************************************)
PriceSum == SumFunctionOnSet([i \in 1..Len(tape) |-> tape[i].h + tape[i].l], 1..Len(tape))
Within(x, y) == Dist(x, y) * 2000 * 2 * Len(tape) <= PriceSum
Five(i) == 2 < i /\ i <= Len(tape) - 2
Peaks(high) ==
  {i \in 1..Len(tape) :
     Five(i) /\ \A j \in (i - 2)..(i + 2) :
                  IF high THEN tape[i].h >= tape[j].h ELSE tape[i].l <= tape[j].l}
Price(i, high) == IF high THEN tape[i].h ELSE tape[i].l
Prices(high) == {Price(i, high) : i \in Peaks(high)}
(* From p up to q in steps the tolerance allows. *)
Joined(p, q, high) ==
  \A x \in Prices(high) : (p <= x /\ x < q) =>
    \E y \in Prices(high) : x < y /\ y <= q /\ Within(y, x)
Clustered(i, j, high) ==
  IF Price(i, high) <= Price(j, high) THEN Joined(Price(i, high), Price(j, high), high)
                                      ELSE Joined(Price(j, high), Price(i, high), high)
Pools(high) ==
  {c \in {{j \in Peaks(high) : Clustered(i, j, high)} : i \in Peaks(high)} : Cardinality(c) >= 2}
(* The average of a cluster, times its size. *)
LevelTimes(c, high) == SumFunctionOnSet([i \in c |-> Price(i, high)], c)
TouchesOf(c, high) ==
  {i \in Peaks(high) : Dist(Price(i, high) * Cardinality(c), LevelTimes(c, high)) * 4000 * Len(tape)
                         <= PriceSum * Cardinality(c)}

(* detect_liquidity_sweeps over the last five candles: the first one after *)
(* the last touch that sweeps the pool.                                    *)
SweepsPoolWick(i, c, high) ==  \* Mutant: the close back is not required
  LET level == LevelTimes(c, high)  n == Cardinality(c) IN
  IF high THEN tape[i].h * n > level ELSE tape[i].l * n < level
SweepsPool(i, c, high) ==
  LET level == LevelTimes(c, high)  n == Cardinality(c) IN
  IF high THEN tape[i].h * n > level /\ tape[i].c * n < level
          ELSE tape[i].l * n < level /\ tape[i].c * n > level
Sweepers(c, high) ==
  {i \in 1..Len(tape) : /\ i > Len(tape) - 5 /\ SweepsPool(i, c, high)
                        /\ \A t \in TouchesOf(c, high) : i > t}
SweepOf(c, high) ==
  LET i == CHOOSE x \in Sweepers(c, high) : \A y \in Sweepers(c, high) : x <= y
  IN  [at |-> i, buySide |-> ~high, price |-> Price(i, high), close |-> tape[i].c]
Sweeps == {SweepOf(c, TRUE) : c \in {x \in Pools(TRUE) : Sweepers(x, TRUE) # {}}}
            \cup {SweepOf(c, FALSE) : c \in {x \in Pools(FALSE) : Sweepers(x, FALSE) # {}}}

-----------------------------------------------------------------------------
(* The swings a break or a change of character is measured from are the    *)
(* ends of legs: highs and lows alternate in the order of the tape, no     *)
(* swing of a leg that is far enough from where the leg began is more      *)
(* extreme than its end, and nothing is beyond the last one yet.  Where    *)
(* every high of a leg up lies over the low it began at, and every low of  *)
(* a leg down under the high, the leg is a quarter of a percent at least   *)
(* and none of its swings is beyond its end.  (The filter measures a leg   *)
(* in either direction, so a high under the last low may end one.)         *)
Sooner(x, y) == x.at < y.at \/ (x.at = y.at /\ x.kind = "high" /\ y.kind = "low")
LegOf(s, i) ==
  {x \in AllSwings : x.kind = s[i].kind /\ Sooner(s[i - 1], x) /\ ~Sooner(s[i], x)}
LegsAreLegs ==
  LET s == Significant IN
  /\ \A i \in 2..Len(s) :
       /\ s[i] \in AllSwings /\ s[i].kind # s[i - 1].kind /\ Sooner(s[i - 1], s[i])
       /\ \A x \in LegOf(s, i) : LegCounts(x, s[i - 1]) => ~Beyond(x, s[i])
       /\ (\A x \in LegOf(s, i) : Beyond(x, s[i - 1])) =>
            LegCounts(s[i], s[i - 1]) /\ \A x \in LegOf(s, i) : ~Beyond(x, s[i])
  /\ s # <<>> => \A x \in AllSwings :
       x.kind = LastOf(s).kind /\ Sooner(LastOf(s), x) => ~Beyond(x, LastOf(s))

(* One reading of the market has one change of character: all events are   *)
(* of one side, and that side is against the trend of the swings.          *)
ChochAgainstTrend ==
  \A e \in Chochs(Significant) :
    Trend(LastN(Significant, 6)) = IF e.up THEN "bearish" ELSE "bullish"

(* A gap that is still tradable was never closed through, is filled by     *)
(* less than all of it, and lies between prices the tape did print.        *)
OpenGapHolds ==
  \A g \in TrackedGaps :
    /\ g.bottom < g.top /\ 0 <= g.filled /\ g.filled <= g.top - g.bottom
    /\ g.status = "ACTIVE" =>
         \A i \in (g.at + 3)..Len(tape) : Touches(g, i) =>
           IF g.bull THEN tape[i].c >= g.bottom ELSE tape[i].c <= g.top
    /\ g.status = "MITIGATED" => g.filled = g.top - g.bottom

(* A sweep is a rejection, so a stop behind it is behind the close: the    *)
(* extreme is beyond the close on the side of the pool, and every pool has *)
(* the touches its sweep is dated by.                                      *)
SweepRejects ==
  /\ \A s \in Sweeps : IF s.buySide THEN s.price < s.close ELSE s.price > s.close
  /\ \A high \in BOOLEAN : \A c \in Pools(high) : TouchesOf(c, high) # {}

(* The detectors' readings hold together: swings kept are ends of legs, a  *)
(* change of character is against the trend, a gap still open was never    *)
(* closed through, and a sweep is a rejection.                             *)
StructureSound == LegsAreLegs /\ ChochAgainstTrend /\ OpenGapHolds /\ SweepRejects

(* As the strategies' comments have it, the blocks they take are fresh:    *)
(* tested by price once at most.                                           *)
FreshMeansUntested == \A z \in FreshBlocks : Mitigated(z).tests <= 1
=============================================================================

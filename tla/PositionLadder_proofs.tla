------------------------ MODULE PositionLadder_proofs ------------------------
(* Proofs about PositionLadder, for any prices, any orders and any number  *)
(* of requests and alerts; and about RestingStops, the stops its positions *)
(* leave with a broker, for any number of trades and replacements.         *)
EXTENDS PositionLadder, RestingStops, FiniteSetTheorems, TLAPS

-----------------------------------------------------------------------------
(* The inductive invariant.                                                *)

(* The columns no request and no alert writes.                             *)
SameBook(a, b) ==
  /\ a.status = b.status /\ a.initial_stop = b.initial_stop
  /\ a.fired = b.fired /\ a.trailing = b.trailing
  /\ a.peak = b.peak /\ a.trail = b.trail
  /\ a.exit_type = b.exit_type /\ a.exit_price = b.exit_price

(* What a row satisfies as long as nobody named another stop or entry.     *)
Held(r) ==
  (Ladder /\ 1 \in r.fired /\ touched = {}) => AsGood(r.stop, r.entry)

Kept(r) ==
  r.exit_type \in {"STOP_LOSS", "TRAILING"} =>
    /\ r.exit_price \in Int
    /\ (Ladder /\ 1 \in r.fired /\ touched = {}) => AsGood(r.exit_price, 10 * r.entry)

Trails(r) ==
  r.trailing =>
    /\ r.peak \in Int
    /\ "entry" \notin touched => r.trail = TrailFromPeak(r, r.peak)

Unbooked(r) == r.status # "CLOSED" => r.exit_type = "none"

Good(r) == Held(r) /\ Kept(r) /\ Trails(r) /\ Unbooked(r)

(* What the monitor knows of the row although requests and alerts cross    *)
(* it, and what it has made of its copy.                                   *)
MonitorKnows ==
  mon.pc # "idle" =>
    /\ row.status = "ACTIVE" /\ SameBook(mon.old, row)
    /\ "entry" \notin touched => mon.old.entry = row.entry
    /\ touched = {} => mon.old.stop = row.stop

MonitorMade ==
  mon.pc \in {"acting", "pushed"} =>
    /\ Good(mon.new)
    /\ mon.new.entry = mon.old.entry
    /\ mon.new.initial_stop = mon.old.initial_stop
    /\ (mon.old.trailing /\ mon.new.trailing) => AsGood(mon.new.peak, mon.old.peak)

(* A request or an alert leaves the monitor's columns alone.               *)
EditKeepsBook == SameBook(ed.old, ed.new)

IInv == TypeOK /\ Good(row) /\ MonitorKnows /\ MonitorMade /\ EditKeepsBook

-----------------------------------------------------------------------------
(* Arithmetic of stops and trails.                                         *)

(* A better price is as good, and comparing in tenths is comparing.        *)
LEMMA Comparing ==
  ASSUME NEW p \in Int, NEW q \in Int, NEW r \in Int
  PROVE  /\ AsGood(p, p)
         /\ ~AsGood(p, q) => AsGood(q, p)
         /\ AsGood(p, q) /\ AsGood(q, r) => AsGood(p, r)
         /\ AsGood(p, q) <=> AsGood(10 * p, 10 * q)
         /\ Best(p, q) \in Int /\ AsGood(Best(p, q), p) /\ AsGood(Best(p, q), q)
  BY DEF AsGood, Best

(* compute_trailing_stop: between 0.4 and 1 initial risk behind the peak,  *)
(* in both modes, for all prices.                                          *)
LEMMA TrailWidth ==
  ASSUME NEW entry \in Int, NEW initial \in Int, NEW peak \in Int
  PROVE  /\ Distance(entry, initial) \in Nat
         /\ Width(entry, initial, peak) \in Int
         /\ 4 * Distance(entry, initial) =< Width(entry, initial, peak)
         /\ Width(entry, initial, peak) =< 10 * Distance(entry, initial)
<1>1. Distance(entry, initial) \in Nat /\ Distance(peak, entry) \in Nat
  BY DEF Distance
<1> DEFINE risk == Distance(entry, initial)
           more == Larger(0, Distance(peak, entry) - risk)
<1>2. more \in Nat
  BY <1>1 DEF Larger
<1>3. /\ Larger(4 * risk, 10 * risk - 3 * more) \in Int
      /\ 4 * risk =< Larger(4 * risk, 10 * risk - 3 * more)
      /\ Larger(4 * risk, 10 * risk - 3 * more) =< 10 * risk
  <2> HIDE DEF more, risk
  <2>1. risk \in Nat
    BY <1>1 DEF risk
  <2> QED
    BY <2>1, <1>2 DEF Larger
<1> QED
  BY <1>1, <1>3 DEF Width

(* A better peak never gives a worse trail, however the width narrows.     *)
LEMMA TrailMonotone ==
  ASSUME NEW entry \in Int, NEW initial \in Int, NEW p \in Int, NEW q \in Int,
         AsGood(p, q)
  PROVE  AsGood(TrailingStop(entry, initial, p), TrailingStop(entry, initial, q))
<1>1. Distance(entry, initial) \in Nat
  BY DEF Distance
<1> DEFINE risk == Distance(entry, initial)
<1> HIDE DEF risk
<1>2. risk \in Nat
  BY <1>1 DEF risk
<1>3. CASE order.mode = "step_down"
  <2> DEFINE W(x) == Larger(4 * risk, 10 * risk - 3 * Larger(0, Distance(x, entry) - risk))
  <2>1. W(p) - W(q) =< 10 * Distance(p, q) /\ W(q) - W(p) =< 10 * Distance(p, q)
        /\ W(p) \in Int /\ W(q) \in Int
    BY <1>2 DEF Larger, Distance
  <2>2. Width(entry, initial, p) = W(p) /\ Width(entry, initial, q) = W(q)
    BY <1>3 DEF Width, risk
  <2> HIDE DEF W
  <2> QED
    BY <2>1, <2>2 DEF TrailingStop, AsGood, Distance
<1>4. CASE order.mode # "step_down"
  BY <1>2, <1>4 DEF TrailingStop, AsGood, Width, risk
<1> QED
  BY <1>3, <1>4

-----------------------------------------------------------------------------
(* Typing.                                                                 *)

LEMMA NoCopyTyped == NoCopy \in Row
  BY DEF NoCopy, Row

LEMMA IdleTyped ==
  /\ Idle \in Session({"idle", "loaded", "acting", "pushed"})
  /\ Idle \in Session({"idle", "loaded", "committed", "decided", "pushed"})
  BY NoCopyTyped DEF Idle, Session

LEMMA SetupTyped ==
  ASSUME NEW s \in Setups, NEW status \in {"PENDING", "ACTIVE"}
  PROVE  Placed(s, status) \in Row
<1>1. /\ s.entry \in Int /\ s.stop \in Int
      /\ s.tp \in [Levels -> Int \cup {Unset}]
  BY SetupsAssumption, PricesAssumption
<1> QED
  BY <1>1 DEF Placed, Row

LEMMA FlushTyped ==
  ASSUME NEW r \in Row, NEW old \in Row, NEW new \in Row
  PROVE  Flush(r, old, new) \in Row
  BY DEF Flush, Column, Row

(* A trail is a price in tenths, or unset.                                 *)
LEMMA TrailTyped ==
  ASSUME NEW c \in Row, NEW peak \in Int
  PROVE  TrailFromPeak(c, peak) \in Int \cup {Unset}
<1>1. c.entry \in Int /\ c.initial_stop \in Int
  BY DEF Row
<1>2. Width(c.entry, c.initial_stop, peak) \in Int
  BY <1>1, TrailWidth
<1>3. TrailingStop(c.entry, c.initial_stop, peak) \in Int
  BY <1>2 DEF TrailingStop
<1> QED
  BY <1>3 DEF TrailFromPeak

LEMMA InitIInv == Init => IInv
<1> SUFFICES ASSUME Init PROVE IInv
  OBVIOUS
<1>1. PICK s \in Setups, status \in {"PENDING", "ACTIVE"} :
        row = Placed(s, status) /\ resting \in {Unset, s.stop}
  BY DEF Init
<1>2. s.entry \in Int /\ s.stop \in Int
  BY SetupsAssumption, PricesAssumption
<1>5. order \in Orders
  BY SetupsAssumption DEF Init, Orders
<1>6. TypeOK
  <2>1. row \in Row
    BY <1>1, SetupTyped
  <2>2. /\ mon = Idle /\ ed = Idle /\ edits = 0
        /\ touched = {} /\ crossed = FALSE /\ pushFailed = FALSE
    BY DEF Init
  <2>3. 0 \in 0..MaxEdits
    BY EditsAssumption
  <2> QED
    BY <1>1, <1>2, <1>5, <2>1, <2>2, <2>3, IdleTyped DEF TypeOK
<1>7. Good(row)
  BY <1>1 DEF Good, Held, Kept, Trails, TrailFromPeak, Unbooked, Placed
<1>8. MonitorKnows /\ MonitorMade /\ EditKeepsBook
  BY DEF Init, Idle, MonitorKnows, MonitorMade, EditKeepsBook, SameBook
<1> QED
  BY <1>6, <1>7, <1>8 DEF IInv

-----------------------------------------------------------------------------
(* Steps that leave the monitor's columns of the row as they are.          *)

(* What is good stays good when more has been touched.                     *)
LEMMA GoodKept ==
  ASSUME IInv, row' \in Row, SameBook(row', row), order' = order,
         touched \subseteq touched',
         "entry" \notin touched' => row'.entry = row.entry,
         touched' = {} => row'.stop = row.stop
  PROVE  Good(row)'
  BY
     DEF IInv, Good, Held, Kept, Trails, TrailFromPeak, Unbooked, SameBook, Ladder, AsGood,
         TrailingStop, Width, Larger, Distance

LEMMA MonitorUndisturbed ==
  ASSUME IInv, row' \in Row, SameBook(row', row), order' = order, mon' = mon,
         touched \subseteq touched',
         "entry" \notin touched' => row'.entry = row.entry,
         touched' = {} => row'.stop = row.stop
  PROVE  MonitorKnows' /\ MonitorMade'
<1>1. MonitorKnows'
  BY DEF IInv, MonitorKnows, SameBook
<1>2. MonitorMade'
  BY
     DEF IInv, MonitorMade, Good, Held, Kept, Trails, TrailFromPeak, Unbooked, Ladder, AsGood,
         TrailingStop, Width, Larger, Distance
<1> QED
  BY <1>1, <1>2

(* The commit of a request or an alert.                                    *)
LEMMA EditFlush ==
  ASSUME IInv, NEW new \in Row, SameBook(ed.old, new),
         row' = Flush(row, ed.old, new),
         touched' = touched \cup Touches(ed.old, new)
  PROVE  /\ row' \in Row /\ SameBook(row', row)
         /\ touched' \subseteq {"entry", "stop"} /\ touched \subseteq touched'
         /\ "entry" \notin touched' => row'.entry = row.entry
         /\ touched' = {} => row'.stop = row.stop
<1>1. row \in Row /\ ed.old \in Row /\ touched \subseteq {"entry", "stop"}
  BY DEF IInv, TypeOK, Session
<1>2. row' \in Row
  BY <1>1, FlushTyped
<1>3. SameBook(row', row)
  BY DEF SameBook, Flush, Column
<1>4. ed.old.entry # new.entry => "entry" \in touched'
  BY DEF Touches
<1>5. ed.old.stop # new.stop => "stop" \in touched'
  BY DEF Touches
<1>6. "entry" \notin touched' => row'.entry = row.entry
  BY <1>4 DEF Flush, Column
<1>7. touched' = {} => row'.stop = row.stop
  BY <1>5 DEF Flush, Column
<1> QED
  BY <1>1, <1>2, <1>3, <1>6, <1>7 DEF Touches

(* What a request or an alert may make of its copy.                        *)
LEMMA EditsTyped ==
  ASSUME NEW c \in Row, NEW n \in Edits(c) \cup Alerted(c)
  PROVE  n \in Row /\ SameBook(c, n)
<1>1. CASE \E p \in Prices : n = [c EXCEPT !.stop = p]
  BY <1>1, PricesAssumption DEF Row, SameBook
<1>2. CASE \E l \in Levels, p \in Prices : n = [c EXCEPT !.tp[l] = p]
  BY <1>2, PricesAssumption DEF Row, SameBook
<1>3. CASE \E p \in Prices : n = [c EXCEPT !.entry = p]
  BY <1>3, PricesAssumption DEF Row, SameBook
<1> QED
  BY <1>1, <1>2, <1>3 DEF Edits, Alerted, Levels

LEMMA QuietIInv ==
  ASSUME IInv, row' = row, order' = order, mon' = mon, touched' = touched,
         resting' \in Int \cup {Unset}, edits' \in 0..MaxEdits,
         ed' \in Session({"idle", "loaded", "committed", "decided", "pushed"}),
         EditKeepsBook', crossed' \in BOOLEAN, pushFailed' \in BOOLEAN
  PROVE  IInv'
<1>1. row' \in Row /\ SameBook(row', row)
  BY DEF IInv, TypeOK, SameBook
<1> QED
  BY <1>1, GoodKept, MonitorUndisturbed DEF IInv, TypeOK

LEMMA EditCommitIInv ==
  ASSUME IInv, NEW new \in Row, SameBook(ed.old, new),
         row' = Flush(row, ed.old, new),
         touched' = touched \cup Touches(ed.old, new),
         ed' \in Session({"idle", "loaded", "committed", "decided", "pushed"}),
         EditKeepsBook',
         UNCHANGED <<order, resting, mon, edits, crossed, pushFailed>>
  PROVE  IInv'
  BY EditFlush, GoodKept, MonitorUndisturbed DEF IInv, TypeOK

LEMMA FillIInv == ASSUME IInv, Fill PROVE IInv'
<1>1. row \in Row /\ row.status = "PENDING" /\ mon.pc = "idle"
  BY DEF IInv, TypeOK, MonitorKnows, Fill
<1>2. /\ row' \in Row /\ row'.status = "ACTIVE" /\ row'.entry = row.entry
      /\ row'.stop = row.stop /\ row'.initial_stop = row.initial_stop
      /\ row'.fired = row.fired /\ row'.trailing = row.trailing
      /\ row'.peak = row.peak /\ row'.trail = row.trail
      /\ row'.exit_type = row.exit_type /\ row'.exit_price = row.exit_price
  BY <1>1 DEF Fill, Row
<1>3. TypeOK'
  BY <1>2 DEF Fill, IInv, TypeOK
<1>4. Good(row)'
  BY <1>2
     DEF Fill, IInv, Good, Held, Kept, Trails, TrailFromPeak, Unbooked, Ladder, AsGood,
              TrailingStop, Width, Larger, Distance
<1>5. MonitorKnows' /\ MonitorMade' /\ EditKeepsBook'
  BY <1>1 DEF Fill, IInv, MonitorKnows, MonitorMade, EditKeepsBook
<1> QED
  BY <1>3, <1>4, <1>5 DEF IInv

-----------------------------------------------------------------------------
(* The monitor.                                                            *)

(* While the monitor runs its copy has the type of the row, and its book   *)
(* is the one of the row.                                                  *)
LEMMA CopyFacts ==
  ASSUME IInv, mon.pc # "idle"
  PROVE  /\ mon.old \in Row /\ mon.new \in Row /\ row \in Row
         /\ row.status = "ACTIVE" /\ SameBook(mon.old, row)
         /\ Good(mon.old)
<1>1. /\ mon.old \in Row /\ mon.new \in Row /\ row \in Row
      /\ row.status = "ACTIVE" /\ SameBook(mon.old, row)
      /\ "entry" \notin touched => mon.old.entry = row.entry
      /\ touched = {} => mon.old.stop = row.stop
      /\ Good(row)
  BY DEF IInv, TypeOK, Session, MonitorKnows
<1>2. Good(mon.old)
  BY <1>1 DEF Good, Held, Kept, Trails, TrailFromPeak, Unbooked, SameBook
<1> QED
  BY <1>1, <1>2

(* What the monitor may make of its copy c.                                *)
Makes(c, new) ==
  /\ new \in Row
  /\ Good(new)
  /\ new.entry = c.entry /\ new.initial_stop = c.initial_stop
  /\ (c.trailing /\ new.trailing) => AsGood(new.peak, c.peak)

(* The stop is hit: the position is booked at the stop.                    *)
LEMMA StopMakes ==
  ASSUME NEW c \in Row, Good(c)
  PROVE  Makes(c, Closed(c, "STOP_LOSS", 10 * c.stop))
<1> DEFINE n == Closed(c, "STOP_LOSS", 10 * c.stop)
<1>1. /\ n \in Row /\ n.exit_price = 10 * c.stop /\ n.exit_type = "STOP_LOSS" /\ n.status = "CLOSED"
      /\ n.entry = c.entry /\ n.stop = c.stop /\ n.initial_stop = c.initial_stop
      /\ n.fired = c.fired /\ n.trailing = c.trailing
      /\ n.peak = c.peak /\ n.trail = c.trail
      /\ c.entry \in Int /\ c.stop \in Int
  <2>1. c.entry \in Int /\ c.stop \in Int
    BY DEF Row
  <2> DEFINE at == 10 * c.stop
  <2>2. at \in Int /\ n = Closed(c, "STOP_LOSS", at)
    BY <2>1
  <2> HIDE DEF at, n
  <2>3. /\ n \in Row /\ n.exit_price = at /\ n.exit_type = "STOP_LOSS" /\ n.status = "CLOSED"
        /\ n.entry = c.entry /\ n.stop = c.stop /\ n.initial_stop = c.initial_stop
        /\ n.fired = c.fired /\ n.trailing = c.trailing
        /\ n.peak = c.peak /\ n.trail = c.trail
    BY <2>2 DEF Closed, Row
  <2> QED
    BY <2>1, <2>3 DEF at
<1> HIDE DEF n
<1>2. AsGood(c.stop, c.entry) <=> AsGood(10 * c.stop, 10 * c.entry)
  BY <1>1, Comparing
<1>3. Good(n)
  BY <1>1, <1>2 DEF Good, Held, Kept, Trails, TrailFromPeak, Unbooked
<1>4. c.trailing => AsGood(n.peak, c.peak)
  BY <1>1, Comparing DEF Good, Trails
<1> QED
  BY <1>1, <1>3, <1>4 DEF Makes, n

(* The last target is reached.                                             *)
LEMMA TargetMakes ==
  ASSUME NEW c \in Row, Good(c), NEW l \in Levels, c.tp[l] \in Int
  PROVE  Makes(c, Closed(c, "TP", 10 * c.tp[l]))
<1> DEFINE n == Closed(c, "TP", 10 * c.tp[l])
<1>1. /\ n \in Row /\ n.exit_type = "TP" /\ n.status = "CLOSED"
      /\ n.entry = c.entry /\ n.stop = c.stop /\ n.initial_stop = c.initial_stop
      /\ n.fired = c.fired /\ n.trailing = c.trailing
      /\ n.peak = c.peak /\ n.trail = c.trail
  <2> DEFINE at == 10 * c.tp[l]
  <2>1. at \in Int /\ n = Closed(c, "TP", at)
    OBVIOUS
  <2> HIDE DEF at, n
  <2> QED
    BY <2>1 DEF Closed, Row
<1> HIDE DEF n
<1>2. Good(n)
  BY <1>1 DEF Good, Held, Kept, Trails, TrailFromPeak, Unbooked
<1>3. c.trailing => AsGood(n.peak, c.peak)
  BY <1>1, Comparing DEF Good, Trails
<1> QED
  BY <1>1, <1>2, <1>3 DEF Makes, n

(* The ratchet only tightens, and level 1 brings the stop to the entry.    *)
LEMMA RatchetFacts ==
  ASSUME NEW c \in Row, NEW l \in Levels
  PROVE  /\ Ratcheted(c, l) \in Int
         /\ AsGood(Ratcheted(c, l), c.stop)
         /\ (Ladder /\ l = 1) => AsGood(Ratcheted(c, l), c.entry)
<1>1. /\ c.stop \in Int /\ c.entry \in Int
      /\ c.tp[1] \in Int \cup {Unset}
  BY DEF Row, Levels
<1>2. AsGood(c.stop, c.stop)
  BY <1>1, Comparing
<1>3. /\ Best(c.stop, c.entry) \in Int
      /\ AsGood(Best(c.stop, c.entry), c.stop)
      /\ AsGood(Best(c.stop, c.entry), c.entry)
  BY <1>1, Comparing
<1>4. c.tp[1] # Unset => /\ Best(c.stop, c.tp[1]) \in Int
                         /\ AsGood(Best(c.stop, c.tp[1]), c.stop)
  BY <1>1, Comparing
<1> QED
  BY <1>1, <1>2, <1>3, <1>4 DEF Ratcheted, Ladder

(* A level that is not the last fires.                                     *)
LEMMA LevelMakes ==
  ASSUME NEW c \in Row, Good(c), NEW l \in {1, 2}, c.tp[l] \in Int,
         ~c.trailing, c.exit_type = "none"
  PROVE  Makes(c, LevelTaken(c, l))
<1> DEFINE n == LevelTaken(c, l)
           s == Ratcheted(c, l)
<1>0. l \in Levels /\ c.stop \in Int /\ c.entry \in Int /\ c.initial_stop \in Int
  BY DEF Levels, Row
<1>1. s \in Int /\ AsGood(s, c.stop) /\ (Ladder /\ l = 1 => AsGood(s, c.entry))
  BY <1>0, RatchetFacts
<1>2. TrailFromPeak(c, c.tp[l]) \in Int \cup {Unset}
  BY TrailTyped
<1> HIDE DEF s
<1>3. /\ n.entry = c.entry /\ n.stop = s /\ n.initial_stop = c.initial_stop
      /\ n.fired = c.fired \cup {l} /\ n.exit_type = c.exit_type
      /\ n.status = c.status
      /\ n.trailing => n.peak = c.tp[l] /\ n.trail = TrailFromPeak(c, c.tp[l])
  BY DEF LevelTaken, Row, s
<1>4. n \in Row
  BY <1>1, <1>2 DEF LevelTaken, Row, s
<1> HIDE DEF n
<1>5. Held(n)
  <2>1. ASSUME Ladder, 1 \in n.fired, touched = {} PROVE AsGood(n.stop, n.entry)
    <3>1. CASE l = 1
      BY <1>1, <1>3, <2>1, <3>1
    <3>2. CASE l # 1
      <4>1. AsGood(c.stop, c.entry)
        BY <1>3, <2>1, <3>2 DEF Good, Held
      <4> QED
        BY <1>0, <1>1, <1>3, <4>1, Comparing
    <3> QED
      BY <3>1, <3>2
  <2> QED
    BY <2>1 DEF Held
<1>6. Kept(n) /\ Unbooked(n)
  BY <1>3 DEF Good, Kept, Unbooked
<1>7. Trails(n)
  BY <1>3 DEF Trails, Good, TrailFromPeak
<1> QED
  BY <1>3, <1>4, <1>5, <1>6, <1>7 DEF Makes, Good, n

(* The peak only rises, the trail follows it, and a price beyond the stop  *)
(* that reaches the trail books an exit beyond the stop.                   *)
LEMMA TrailMakes ==
  ASSUME NEW c \in Row, Good(c), c.trailing, c.exit_type = "none",
         NEW p \in Int, ~StopHit(c, p)
  PROVE  Makes(c, Trailed(c, p))
<1> DEFINE peak  == Best(c.peak, p)
           trail == TrailFromPeak(c, peak)
           t     == [c EXCEPT !.peak = peak, !.trail = trail]
<1>1. /\ c.stop \in Int /\ c.entry \in Int /\ c.initial_stop \in Int
      /\ c.peak \in Int
  BY DEF Row, Good, Trails
<1>2. peak \in Int /\ AsGood(peak, c.peak)
  BY <1>1, Comparing
<1>3. trail \in Int \cup {Unset}
  BY <1>2, TrailTyped
<1> HIDE DEF peak, trail
<1>4. /\ t.entry = c.entry /\ t.stop = c.stop /\ t.initial_stop = c.initial_stop
      /\ t.fired = c.fired /\ t.trailing = c.trailing
      /\ t.peak = peak /\ t.trail = trail /\ t.exit_type = c.exit_type
      /\ t.status = c.status
  BY DEF Row
<1>5. t \in Row
  BY <1>2, <1>3 DEF Row
<1> HIDE DEF t
<1>6. Good(t)
  <2>1. Held(t) /\ Kept(t) /\ Unbooked(t)
    BY <1>4 DEF Good, Held, Kept, Unbooked
  <2>2. Trails(t)
    BY <1>2, <1>4 DEF Trails, Good, TrailFromPeak, trail
  <2> QED
    BY <2>1, <2>2 DEF Good
<1>7. (Ladder /\ 1 \in c.fired /\ touched = {}) => AsGood(10 * p, 10 * c.entry)
  <2>1. AsGood(p, c.stop)
    BY <1>1, Comparing DEF StopHit
  <2> QED
    BY <1>1, <2>1, Comparing DEF Good, Held
<1>8. CASE trail = Unset
  <2> DEFINE n == Closed(c, "TRAILING", 10 * p)
  <2>1. /\ n \in Row /\ n.exit_price = 10 * p /\ n.exit_type = "TRAILING" /\ n.status = "CLOSED"
        /\ n.entry = c.entry /\ n.stop = c.stop /\ n.initial_stop = c.initial_stop
        /\ n.fired = c.fired /\ n.trailing = c.trailing
        /\ n.peak = c.peak /\ n.trail = c.trail
    <3> DEFINE at == 10 * p
    <3>1. at \in Int /\ n = Closed(c, "TRAILING", at)
      OBVIOUS
    <3> HIDE DEF at, n
    <3>2. /\ n \in Row /\ n.exit_price = at /\ n.exit_type = "TRAILING" /\ n.status = "CLOSED"
          /\ n.entry = c.entry /\ n.stop = c.stop /\ n.initial_stop = c.initial_stop
          /\ n.fired = c.fired /\ n.trailing = c.trailing
          /\ n.peak = c.peak /\ n.trail = c.trail
      BY <3>1 DEF Closed, Row
    <3> QED
      BY <3>2 DEF at
  <2>2. Trailed(c, p) = n
    BY <1>8 DEF Trailed, trail, peak
  <2> HIDE DEF n
  <2>3. Good(n)
    BY <1>7, <2>1 DEF Good, Held, Kept, Trails, TrailFromPeak, Unbooked
  <2>4. AsGood(n.peak, c.peak)
    BY <1>1, <2>1, Comparing
  <2> QED
    BY <2>1, <2>2, <2>3, <2>4 DEF Makes
<1>9. CASE trail # Unset /\ AsGood(trail, 10 * p)
  <2> DEFINE n == Closed(t, "TRAILING", trail)
  <2>1. /\ n \in Row /\ n.exit_price = trail /\ n.exit_type = "TRAILING" /\ n.status = "CLOSED"
        /\ n.entry = t.entry /\ n.stop = t.stop /\ n.initial_stop = t.initial_stop
        /\ n.fired = t.fired /\ n.trailing = t.trailing
        /\ n.peak = t.peak /\ n.trail = t.trail
    BY <1>3, <1>5, <1>9 DEF Closed, Row
  <2>2. Trailed(c, p) = n
    BY <1>9 DEF Trailed, trail, peak, t
  <2> HIDE DEF n
  <2>3. (Ladder /\ 1 \in c.fired /\ touched = {}) => AsGood(trail, 10 * c.entry)
    <3>1. 10 * p \in Int /\ 10 * c.entry \in Int /\ trail \in Int
      BY <1>1, <1>3, <1>9
    <3> QED
      BY <1>7, <1>9, <3>1 DEF AsGood
  <2>4. Good(n)
    BY <1>3, <1>4, <1>6, <1>9, <2>1, <2>3
       DEF Good, Held, Kept, Trails, TrailFromPeak, Unbooked
  <2> QED
    BY <1>2, <1>4, <2>1, <2>2, <2>4 DEF Makes
<1>10. CASE trail # Unset /\ ~AsGood(trail, 10 * p)
  <2>1. Trailed(c, p) = t
    BY <1>10 DEF Trailed, trail, peak, t
  <2> QED
    BY <1>2, <1>4, <1>5, <1>6, <2>1 DEF Makes
<1> QED
  BY <1>8, <1>9, <1>10

(* A step in which the monitor moves and the row does not.                 *)
LEMMA MonitorMovesIInv ==
  ASSUME IInv,
         mon' \in Session({"idle", "loaded", "acting", "pushed"}),
         MonitorKnows', MonitorMade',
         resting' \in Int \cup {Unset}, crossed' \in BOOLEAN, pushFailed' \in BOOLEAN,
         UNCHANGED <<order, row, ed, edits, touched>>
  PROVE  IInv'
<1>1. row' \in Row /\ SameBook(row', row)
  BY DEF IInv, TypeOK, SameBook
<1>2. Good(row)'
  BY <1>1, GoodKept DEF IInv
<1> QED
  BY <1>2 DEF IInv, TypeOK, EditKeepsBook

LEMMA MonitorLoadIInv == ASSUME IInv, MonitorLoad PROVE IInv'
<1>1. mon' = [pc |-> "loaded", old |-> row, new |-> row] /\ row \in Row
  BY DEF MonitorLoad, IInv, TypeOK
<1>2. mon' \in Session({"idle", "loaded", "acting", "pushed"})
  BY <1>1 DEF Session
<1>3. MonitorKnows' /\ MonitorMade'
  BY <1>1 DEF MonitorLoad, MonitorKnows, MonitorMade, SameBook
<1>4. crossed' \in BOOLEAN
  BY DEF MonitorLoad, IInv, TypeOK
<1> QED
  BY <1>2, <1>3, <1>4, MonitorMovesIInv DEF MonitorLoad, IInv, TypeOK

(* A step after which no monitor cycle is running.                         *)
LEMMA MonitorIdleIInv ==
  ASSUME IInv, mon' = Idle, crossed' \in BOOLEAN,
         UNCHANGED <<order, row, resting, ed, edits, touched, pushFailed>>
  PROVE  IInv'
<1>1. MonitorKnows' /\ MonitorMade'
  BY DEF MonitorKnows, MonitorMade, Idle
<1> QED
  BY <1>1, IdleTyped, MonitorMovesIInv DEF IInv, TypeOK

LEMMA MonitorActsIInv ==
  ASSUME IInv, mon.pc = "loaded", NEW new, MonitorActs(new), Makes(mon.old, new)
  PROVE  IInv'
<1>1. /\ mon' = [mon EXCEPT !.pc = "acting", !.new = new]
      /\ UNCHANGED <<order, row, resting, ed, edits, touched, crossed, pushFailed>>
  BY DEF MonitorActs
<1>2. /\ mon'.pc = "acting" /\ mon'.old = mon.old /\ mon'.new = new
      /\ mon' \in Session({"idle", "loaded", "acting", "pushed"})
  BY <1>1 DEF IInv, TypeOK, Session, Makes
<1>3. MonitorKnows'
  BY <1>1, <1>2 DEF IInv, MonitorKnows, SameBook
<1>4. MonitorMade'
  BY <1>1, <1>2
     DEF Makes, MonitorMade, Good, Held, Kept, Trails, TrailFromPeak, Unbooked, Ladder,
                    AsGood, TrailingStop, Width, Larger, Distance
<1> QED
  BY <1>1, <1>2, <1>3, <1>4, MonitorMovesIInv DEF IInv, TypeOK

LEMMA MonitorChecksIInv ==
  ASSUME IInv, MonitorStop \/ MonitorTrail \/ MonitorLevel
  PROVE  IInv'
<1> DEFINE c == mon.old
<1>1. /\ mon.pc = "loaded" /\ c \in Row /\ Good(c)
      /\ c.status = "ACTIVE"
  BY CopyFacts DEF MonitorStop, MonitorTrail, MonitorLevel, SameBook
<1>2. CASE MonitorStop
  <2>1. Makes(c, Closed(c, "STOP_LOSS", 10 * c.stop))
    BY <1>1, StopMakes
  <2> QED
    BY <1>1, <1>2, <2>1, MonitorActsIInv DEF MonitorStop
<1>3. CASE MonitorTrail
  <2>1. PICK p \in Prices : ~StopHit(c, p) /\ MonitorActs(Trailed(c, p))
    BY <1>3 DEF MonitorTrail
  <2>2. p \in Int /\ c.trailing /\ c.exit_type = "none"
    BY <1>1, <1>3, PricesAssumption DEF MonitorTrail, Good, Unbooked
  <2>3. Makes(c, Trailed(c, p))
    BY <1>1, <2>1, <2>2, TrailMakes
  <2> QED
    BY <1>1, <2>1, <2>3, MonitorActsIInv
<1>4. CASE MonitorLevel
  <2>1. PICK l \in Levels :
          /\ \E p \in Prices : l \in HitLevels(c, p)
          /\ MonitorActs(IF IsLast(c, l) THEN Closed(c, "TP", 10 * c.tp[l])
                                         ELSE LevelTaken(c, l))
    BY <1>4 DEF MonitorLevel
  <2>2. c.tp[l] \in Int /\ c.tp[l] # Unset /\ l \in Configured(c)
    BY <1>1, <2>1 DEF HitLevels, Configured, Row
  <2>3. CASE IsLast(c, l)
    BY <1>1, <2>1, <2>2, <2>3, TargetMakes, MonitorActsIInv
  <2>4. CASE ~IsLast(c, l)
    <3>1. l \in {1, 2}
      BY <2>4 DEF IsLast, Configured, Levels
    <3>2. ~c.trailing /\ c.exit_type = "none"
      BY <1>1, <1>4 DEF MonitorLevel, Good, Unbooked
    <3>3. Makes(c, LevelTaken(c, l))
      BY <1>1, <2>2, <3>1, <3>2, LevelMakes
    <3> QED
      BY <1>1, <2>1, <2>4, <3>3, MonitorActsIInv
  <2> QED
    BY <2>3, <2>4
<1> QED
  BY <1>2, <1>3, <1>4

LEMMA MonitorPushIInv == ASSUME IInv, MonitorPush PROVE IInv'
<1>1. /\ mon.pc = "acting" /\ mon' = [mon EXCEPT !.pc = "pushed"]
      /\ UNCHANGED <<order, row, ed, edits, touched, crossed>>
      /\ Push(mon.new.stop)
  BY DEF MonitorPush
<1>2. /\ mon'.pc = "pushed" /\ mon'.old = mon.old /\ mon'.new = mon.new
      /\ mon' \in Session({"idle", "loaded", "acting", "pushed"})
      /\ mon.new.stop \in Int
  BY <1>1 DEF IInv, TypeOK, Session, Row
<1>3. resting' \in Int \cup {Unset} /\ pushFailed' \in BOOLEAN
  BY <1>1, <1>2 DEF Push, IInv, TypeOK
<1>4. MonitorKnows'
  BY <1>1, <1>2 DEF IInv, MonitorKnows, SameBook
<1>5. MonitorMade'
  BY <1>1, <1>2
     DEF IInv, MonitorMade, Good, Held, Kept, Trails, TrailFromPeak, Unbooked,
                    Ladder, AsGood, TrailingStop, Width, Larger, Distance
<1> QED
  BY <1>1, <1>2, <1>3, <1>4, <1>5, MonitorMovesIInv DEF IInv, TypeOK

(* The commit: what the monitor made of its copy is what the row becomes,  *)
(* except for the stop, the entry and the targets somebody has touched.    *)
LEMMA CommitFacts ==
  ASSUME IInv, MonitorCommit
  PROVE  /\ row' \in Row /\ SameBook(row', mon.new)
         /\ "entry" \notin touched => row'.entry = mon.new.entry
         /\ touched = {} => row'.stop = mon.new.stop
         /\ row' = Flush(row, mon.old, mon.new) /\ mon.pc \in {"acting", "pushed"}
<1>1. row' = Flush(row, mon.old, mon.new) /\ mon.pc \in {"acting", "pushed"}
  BY DEF MonitorCommit
<1>2. /\ mon.old \in Row /\ mon.new \in Row /\ row \in Row
      /\ SameBook(mon.old, row)
  BY <1>1, CopyFacts
<1>3. /\ mon.new.entry = mon.old.entry /\ mon.new.initial_stop = mon.old.initial_stop
      /\ "entry" \notin touched => mon.old.entry = row.entry
      /\ touched = {} => mon.old.stop = row.stop
  BY <1>1 DEF IInv, MonitorMade, MonitorKnows
<1>4. row' \in Row
  BY <1>1, <1>2, FlushTyped
<1>5. SameBook(row', mon.new)
  BY <1>1, <1>2, <1>3 DEF SameBook, Flush, Column
<1> QED
  BY <1>1, <1>3, <1>4, <1>5 DEF Flush, Column

LEMMA MonitorCommitIInv == ASSUME IInv, MonitorCommit PROVE IInv'
<1>1. /\ mon' = Idle
      /\ UNCHANGED <<order, resting, ed, edits, touched, crossed, pushFailed>>
  BY DEF MonitorCommit, MonitorEnds
<1>2. Good(mon.new)
  BY CommitFacts DEF IInv, MonitorMade
<1>3. Good(row)'
  BY <1>1, <1>2, CommitFacts
     DEF Good, Held, Kept, Trails, TrailFromPeak, Unbooked, SameBook,
     Ladder, AsGood, TrailingStop, Width, Larger, Distance
<1>4. MonitorKnows' /\ MonitorMade'
  BY <1>1 DEF MonitorKnows, MonitorMade, Idle
<1>5. EditKeepsBook'
  BY <1>1 DEF IInv, EditKeepsBook
<1>6. TypeOK'
  BY <1>1, CommitFacts, IdleTyped DEF IInv, TypeOK
<1> QED
  BY <1>3, <1>4, <1>5, <1>6 DEF IInv

LEMMA MonitorGivesUpIInv == ASSUME IInv, MonitorGivesUp PROVE IInv'
  BY MonitorIdleIInv DEF MonitorGivesUp, MonitorEnds, IInv, TypeOK

-----------------------------------------------------------------------------
(* Requests, alerts and restarts.                                          *)

LEMMA EditLoadIInv == ASSUME IInv, EditLoad PROVE IInv'
<1>1. /\ ed' = [pc |-> "loaded", old |-> row, new |-> row] /\ row \in Row
      /\ edits \in 0..MaxEdits /\ edits < MaxEdits /\ edits' = edits + 1
      /\ UNCHANGED <<order, row, resting, mon, touched, pushFailed>>
      /\ crossed' \in BOOLEAN
  BY DEF EditLoad, IInv, TypeOK
<1>2. ed' \in Session({"idle", "loaded", "committed", "decided", "pushed"})
  BY <1>1 DEF Session
<1>3. edits' \in 0..MaxEdits
  BY <1>1, EditsAssumption
<1>4. EditKeepsBook'
  BY <1>1 DEF EditKeepsBook, SameBook
<1> QED
  BY <1>1, <1>2, <1>3, <1>4, QuietIInv DEF IInv, TypeOK

(* The end of a request or an alert that leaves the row.                   *)
LEMMA EditEndsIInv ==
  ASSUME IInv, EditEnds, resting' \in Int \cup {Unset}, pushFailed' \in BOOLEAN,
         UNCHANGED <<order, row, mon, edits, touched, crossed>>
  PROVE  IInv'
<1>1. EditKeepsBook'
  BY DEF EditEnds, Idle, EditKeepsBook, SameBook
<1> QED
  BY <1>1, IdleTyped, QuietIInv DEF EditEnds, IInv, TypeOK

LEMMA PushTyped ==
  ASSUME IInv, NEW stop \in Int, Push(stop)
  PROVE  resting' \in Int \cup {Unset} /\ pushFailed' \in BOOLEAN
  BY DEF Push, IInv, TypeOK

LEMMA RequestCommitsIInv == ASSUME IInv, RequestCommits PROVE IInv'
<1>1. PICK n \in Requested(ed.old) :
        /\ row' = Flush(row, ed.old, n)
        /\ touched' = touched \cup Touches(ed.old, n)
        /\ ed' = [pc |-> "committed", old |-> ed.old, new |-> n] \/ EditEnds
  BY DEF RequestCommits
<1>2. ed.old \in Row
  BY DEF IInv, TypeOK, Session
<1>3. n \in Row /\ SameBook(ed.old, n)
  BY <1>2, EditsTyped DEF Requested
<1>4. /\ ed' \in Session({"idle", "loaded", "committed", "decided", "pushed"})
      /\ EditKeepsBook'
  <2>1. CASE ed' = [pc |-> "committed", old |-> ed.old, new |-> n]
    BY <1>2, <1>3, <2>1 DEF Session, EditKeepsBook
  <2>2. CASE EditEnds
    BY <2>2, IdleTyped DEF EditEnds, Idle, EditKeepsBook, SameBook
  <2> QED
    BY <1>1, <2>1, <2>2
<1>5. UNCHANGED <<order, resting, mon, edits, crossed, pushFailed>>
  BY DEF RequestCommits
<1> QED
  BY <1>1, <1>3, <1>4, <1>5, EditCommitIInv

(* What requests and alerts commit leaves the monitor's columns alone.     *)
LEMMA RequestLeavesBook == ASSUME IInv, RequestCommits PROVE SameBook(row', row)
<1>1. PICK n \in Requested(ed.old) :
        /\ row' = Flush(row, ed.old, n)
        /\ touched' = touched \cup Touches(ed.old, n)
  BY DEF RequestCommits
<1>2. ed.old \in Row
  BY DEF IInv, TypeOK, Session
<1>3. n \in Row /\ SameBook(ed.old, n)
  BY <1>2, EditsTyped DEF Requested
<1> QED
  BY <1>1, <1>3, EditFlush

LEMMA AlertLeavesBook == ASSUME IInv, AlertCommits PROVE SameBook(row', row)
<1>1. /\ row' = Flush(row, ed.old, ed.new)
      /\ touched' = touched \cup Touches(ed.old, ed.new)
      /\ ed.new \in Row /\ SameBook(ed.old, ed.new)
  BY DEF AlertCommits, IInv, TypeOK, Session, EditKeepsBook
<1> QED
  BY <1>1, EditFlush

LEMMA RequestPushesIInv == ASSUME IInv, RequestPushes PROVE IInv'
<1>1. ed.new.stop \in Int
  BY DEF IInv, TypeOK, Session, Row
<1> QED
  BY <1>1, PushTyped, EditEndsIInv DEF RequestPushes

LEMMA AlertDecidesIInv == ASSUME IInv, AlertDecides PROVE IInv'
<1>1. PICK n \in Alerted(ed.old) : ed' = [ed EXCEPT !.pc = "decided", !.new = n]
  BY DEF AlertDecides
<1>2. ed.old \in Row
  BY DEF IInv, TypeOK, Session
<1>3. n \in Row /\ SameBook(ed.old, n)
  BY <1>2, EditsTyped
<1>4. /\ ed' \in Session({"idle", "loaded", "committed", "decided", "pushed"})
      /\ ed'.old = ed.old /\ ed'.new = n
  BY <1>1, <1>3 DEF IInv, TypeOK, Session
<1>5. EditKeepsBook'
  BY <1>3, <1>4 DEF EditKeepsBook
<1> QED
  BY <1>4, <1>5, QuietIInv DEF AlertDecides, IInv, TypeOK

LEMMA AlertPushesIInv == ASSUME IInv, AlertPushes PROVE IInv'
<1>1. /\ ed' = [ed EXCEPT !.pc = "pushed"] /\ Push(ed.new.stop)
      /\ UNCHANGED <<order, row, mon, edits, touched, crossed>>
  BY DEF AlertPushes
<1>2. /\ ed' \in Session({"idle", "loaded", "committed", "decided", "pushed"})
      /\ ed'.old = ed.old /\ ed'.new = ed.new /\ ed.new.stop \in Int
  BY <1>1 DEF IInv, TypeOK, Session, Row
<1>3. EditKeepsBook'
  BY <1>2 DEF IInv, EditKeepsBook
<1> QED
  BY <1>1, <1>2, <1>3, PushTyped, QuietIInv DEF IInv, TypeOK

LEMMA AlertCommitsIInv == ASSUME IInv, AlertCommits PROVE IInv'
<1>1. /\ row' = Flush(row, ed.old, ed.new)
      /\ touched' = touched \cup Touches(ed.old, ed.new)
      /\ EditEnds /\ UNCHANGED <<order, resting, mon, edits, crossed, pushFailed>>
  BY DEF AlertCommits
<1>2. ed.new \in Row /\ SameBook(ed.old, ed.new)
  BY DEF IInv, TypeOK, Session, EditKeepsBook
<1>3. EditKeepsBook'
  BY <1>1 DEF EditEnds, Idle, EditKeepsBook, SameBook
<1> QED
  BY <1>1, <1>2, <1>3, IdleTyped, EditCommitIInv DEF EditEnds

LEMMA RestartIInv == ASSUME IInv, Restart PROVE IInv'
<1>1. /\ mon' = Idle /\ ed' = Idle /\ crossed' = TRUE
      /\ UNCHANGED <<order, row, resting, edits, touched, pushFailed>>
  BY DEF Restart
<1>2. Good(row)'
  <2>1. row' \in Row /\ SameBook(row', row)
    BY <1>1 DEF IInv, TypeOK, SameBook
  <2> QED
    BY <1>1, <2>1, GoodKept
<1>3. MonitorKnows' /\ MonitorMade' /\ EditKeepsBook'
  BY <1>1 DEF MonitorKnows, MonitorMade, EditKeepsBook, Idle, SameBook
<1> QED
  BY <1>1, <1>2, <1>3, IdleTyped DEF IInv, TypeOK

LEMMA StutterIInv == ASSUME IInv, UNCHANGED vars PROVE IInv'
<1>1. EditKeepsBook'
  BY DEF vars, IInv, EditKeepsBook
<1> QED
  BY <1>1, QuietIInv DEF vars, IInv, TypeOK

LEMMA StepIInv == IInv /\ [Next]_vars => IInv'
<1> SUFFICES ASSUME IInv, [Next]_vars PROVE IInv'
  OBVIOUS
<1>1. CASE Fill
  BY <1>1, FillIInv
<1>2. CASE MonitorLoad
  BY <1>2, MonitorLoadIInv
<1>3. CASE MonitorStop \/ MonitorTrail \/ MonitorLevel
  BY <1>3, MonitorChecksIInv
<1>4. CASE MonitorGivesUp
  BY <1>4, MonitorGivesUpIInv
<1>5. CASE MonitorPush
  BY <1>5, MonitorPushIInv
<1>6. CASE MonitorCommit
  BY <1>6, MonitorCommitIInv
<1>7. CASE EditLoad
  BY <1>7, EditLoadIInv
<1>8. CASE RequestCommits
  BY <1>8, RequestCommitsIInv
<1>9. CASE RequestPushes
  BY <1>9, RequestPushesIInv
<1>10. CASE EditRefused
  BY <1>10, EditEndsIInv DEF EditRefused, IInv, TypeOK
<1>11. CASE AlertDecides
  BY <1>11, AlertDecidesIInv
<1>12. CASE AlertPushes
  BY <1>12, AlertPushesIInv
<1>13. CASE AlertCommits
  BY <1>13, AlertCommitsIInv
<1>14. CASE Restart
  BY <1>14, RestartIInv
<1>15. CASE UNCHANGED vars
  BY <1>15, StutterIInv
<1> QED
  BY <1>1, <1>2, <1>3, <1>4, <1>5, <1>6, <1>7, <1>8, <1>9, <1>10, <1>11, <1>12,
     <1>13, <1>14, <1>15 DEF Next

-----------------------------------------------------------------------------
(* The inductive invariant holds in every reachable state: types, what a   *)
(* row satisfies, and what a running monitor cycle knows and has made.     *)
THEOREM Invariance == Spec => []IInv
  BY InitIInv, StepIInv, PTL DEF Spec

(* Type correctness: no crossing of blind writes makes a price of the row  *)
(* or of the exchange anything but a price or NULL.                        *)
THEOREM TypeCorrect == Spec => []TypeOK
<1>1. IInv => TypeOK
  BY DEF IInv
<1> QED
  BY <1>1, Invariance, PTL

(* Once level 1 has fired on a trade with a ladder its stop is at the      *)
(* entry or better, however edits of targets cross the monitor, until      *)
(* somebody names a stop or an entry.                                      *)
THEOREM BreakevenIsHeld == Spec => []BreakevenHeld
<1>1. IInv => BreakevenHeld
  BY DEF IInv, Good, Held, BreakevenHeld
<1> QED
  BY <1>1, Invariance, PTL

(* A stop or a trail then never books less than the entry.                 *)
THEOREM WinnerIsKept == Spec => []WinnerKeepsBreakeven
<1>1. IInv => WinnerKeepsBreakeven
  BY DEF IInv, Good, Kept, WinnerKeepsBreakeven
<1> QED
  BY <1>1, Invariance, PTL

(* A trail is between 0.4 and 1 initial risk behind its peak, for all      *)
(* prices and in both modes.                                               *)
THEOREM CushionIsKept == Spec => []CushionKept
<1>1. ASSUME IInv PROVE CushionKept
  <2>1. SUFFICES ASSUME row.trailing, row.trail # Unset, "entry" \notin touched
        PROVE  LET risk == Distance(row.entry, row.initial_stop)
                   back == IF order.direction = "LONG" THEN 10 * row.peak - row.trail
                                                       ELSE row.trail - 10 * row.peak
               IN  4 * risk =< back /\ back =< 10 * risk
    BY DEF CushionKept
  <2>2. /\ row.entry \in Int /\ row.initial_stop \in Int /\ row.peak \in Int
        /\ row.trail = TrailingStop(row.entry, row.initial_stop, row.peak)
    BY <1>1, <2>1 DEF IInv, TypeOK, Row, Good, Trails, TrailFromPeak
  <2> DEFINE risk == Distance(row.entry, row.initial_stop)
             w    == Width(row.entry, row.initial_stop, row.peak)
  <2>3. risk \in Nat /\ w \in Int /\ 4 * risk =< w /\ w =< 10 * risk
    BY <2>2, TrailWidth
  <2>4. row.trail = IF order.direction = "LONG" THEN 10 * row.peak - w ELSE 10 * row.peak + w
    BY <2>2 DEF TrailingStop
  <2> HIDE DEF risk, w
  <2>5. w = IF order.direction = "LONG" THEN 10 * row.peak - row.trail
                                        ELSE row.trail - 10 * row.peak
    BY <2>2, <2>3, <2>4
  <2> QED
    BY <2>3, <2>5 DEF risk
<1> QED
  BY <1>1, Invariance, PTL

(* A trail only tightens while the entry is the one of the order.          *)
THEOREM TrailTightens == Spec => TrailOnlyTightens
<1>1. ASSUME IInv, [Next]_vars
      PROVE  [(row.trailing /\ row'.trailing /\ row.trail # Unset /\ "entry" \notin touched')
                => AsGood(row'.trail, row.trail)]_vars
  <2>1. SUFFICES ASSUME row.trailing, row'.trailing, row.trail # Unset,
                        "entry" \notin touched'
        PROVE  AsGood(row'.trail, row.trail)
    OBVIOUS
  <2>2. CASE MonitorCommit
    <3> DEFINE old == mon.old
               new == mon.new
    <3>1. /\ old \in Row /\ new \in Row /\ SameBook(old, row) /\ SameBook(row', new)
          /\ Good(old) /\ Good(new)
          /\ new.entry = old.entry /\ new.initial_stop = old.initial_stop
          /\ (old.trailing /\ new.trailing) => AsGood(new.peak, old.peak)
      BY <1>1, <2>2, CopyFacts, CommitFacts DEF IInv, MonitorMade
    <3> HIDE DEF old, new
    <3>2. "entry" \notin touched
      BY <2>1, <2>2 DEF MonitorCommit
    <3>3. /\ old.entry \in Int /\ old.initial_stop \in Int
          /\ old.peak \in Int /\ new.peak \in Int /\ AsGood(new.peak, old.peak)
          /\ row.trail = TrailingStop(old.entry, old.initial_stop, old.peak)
          /\ row'.trail = TrailingStop(old.entry, old.initial_stop, new.peak)
      BY <2>1, <3>1, <3>2 DEF Good, Trails, SameBook, Row, TrailFromPeak
    <3>4. AsGood(TrailingStop(old.entry, old.initial_stop, new.peak),
                 TrailingStop(old.entry, old.initial_stop, old.peak))
      BY <3>3, TrailMonotone
    <3> QED
      BY <3>3, <3>4
  <2>3. CASE ~MonitorCommit
    <3>1. row'.trail = row.trail
      <4>1. CASE Fill
        BY <1>1, <4>1 DEF Fill, IInv, TypeOK, Row
      <4>2. CASE RequestCommits
        BY <1>1, <4>2, RequestLeavesBook DEF SameBook
      <4>3. CASE AlertCommits
        BY <1>1, <4>3, AlertLeavesBook DEF SameBook
      <4>4. CASE ~Fill /\ ~RequestCommits /\ ~AlertCommits
        <5>1. row' = row
          BY <1>1, <2>3, <4>4 DEF Next, vars, MonitorLoad, MonitorStop, MonitorTrail,
             MonitorLevel, MonitorActs, MonitorGivesUp, MonitorPush, EditLoad,
             RequestPushes, EditRefused, AlertDecides, AlertPushes, Restart
        <5> QED
          BY <5>1
      <4> QED
        BY <4>1, <4>2, <4>3, <4>4
    <3>2. "entry" \notin touched
      BY <1>1, <2>1 DEF Next, vars, Fill, MonitorLoad, MonitorStop, MonitorTrail,
         MonitorLevel, MonitorActs, MonitorGivesUp, MonitorPush, MonitorCommit,
         EditLoad, RequestCommits, RequestPushes, EditRefused, AlertDecides,
         AlertPushes, AlertCommits, Restart
    <3>3. /\ row.entry \in Int /\ row.initial_stop \in Int /\ row.peak \in Int
          /\ row.trail = TrailingStop(row.entry, row.initial_stop, row.peak)
      BY <1>1, <2>1, <3>2 DEF IInv, TypeOK, Row, Good, Trails, TrailFromPeak
    <3>4. AsGood(row.peak, row.peak)
      BY <3>3, Comparing
    <3>5. AsGood(row.trail, row.trail)
      BY <3>3, <3>4, TrailMonotone
    <3> QED
      BY <3>1, <3>5
  <2> QED
    BY <2>2, <2>3
<1> QED
  BY <1>1, Invariance, PTL DEF Spec, TrailOnlyTightens

-----------------------------------------------------------------------------
(* The stop at the exchange follows the row as long as handlers do not     *)
(* cross and pushes succeed.  Which of the two is ahead while a handler is *)
(* at work depends on where it is: the monitor and the alert push first,   *)
(* the endpoint commits first.                                             *)

OneAtATime == mon.pc = "idle" \/ ed.pc = "idle"

MonitorInStep ==
  /\ mon.pc # "idle" => mon.old.stop = row.stop
  /\ mon.pc = "acting" /\ mon.new.stop # mon.old.stop => PushDue
  /\ mon.pc = "pushed" => resting = mon.new.stop

EditInStep ==
  /\ ed.pc # "idle" => ed.old.status = "ACTIVE"
  /\ ed.pc \in {"loaded", "decided", "pushed"} => ed.old.stop = row.stop
  /\ ed.pc = "committed" => ed.new.stop = row.stop
  /\ ed.pc = "pushed" => resting = ed.new.stop

(* Nobody has moved the stop on one side only.                             *)
Agreed ==
  (mon.pc # "pushed" /\ ed.pc \notin {"committed", "pushed"})
    => resting = row.stop

StepInv ==
  /\ Synced => row.status # "PENDING"
  /\ mon.pc \in {"acting", "pushed"} => mon.new.status # "PENDING"
  /\ (Synced /\ ~crossed) => OneAtATime
  /\ (Synced /\ ~crossed /\ ~pushFailed /\ row.status = "ACTIVE")
       => MonitorInStep /\ EditInStep /\ Agreed

(* A cycle moves the stop only together with a level it fires, so a push   *)
(* is due.                                                                 *)
LEMMA StopMovesWithLevel ==
  ASSUME IInv, MonitorStop \/ MonitorTrail \/ MonitorLevel
  PROVE  /\ mon.pc = "loaded" /\ mon'.pc = "acting" /\ mon'.old = mon.old
         /\ mon'.new.status # "PENDING"
         /\ mon'.new.stop # mon.old.stop =>
              /\ order.activation # 0
              /\ mon'.new.status # "CLOSED" /\ mon'.new.fired # mon.old.fired
         /\ UNCHANGED <<order, row, resting, ed, edits, touched, crossed, pushFailed>>
<1> DEFINE c == mon.old
<1>1. /\ mon.pc = "loaded" /\ c \in Row /\ c.status = "ACTIVE"
      /\ mon \in Session({"idle", "loaded", "acting", "pushed"})
  BY CopyFacts DEF MonitorStop, MonitorTrail, MonitorLevel, SameBook, IInv, TypeOK
<1>2. ASSUME NEW new, MonitorActs(new), new.status # "PENDING", new.stop = c.stop
             \/ (order.activation # 0 /\ new.status # "CLOSED" /\ new.fired # c.fired)
      PROVE  /\ mon'.pc = "acting" /\ mon'.old = c
             /\ mon'.new.status # "PENDING"
             /\ mon'.new.stop # c.stop =>
                  /\ order.activation # 0
                  /\ mon'.new.status # "CLOSED" /\ mon'.new.fired # c.fired
             /\ UNCHANGED <<order, row, resting, ed, edits, touched, crossed, pushFailed>>
  BY <1>1, <1>2 DEF MonitorActs, Session
<1>3. CASE MonitorStop
  <2> DEFINE n == Closed(c, "STOP_LOSS", 10 * c.stop)
  <2>1. n.stop = c.stop /\ n.status = "CLOSED"
    BY <1>1 DEF Closed, Row
  <2> HIDE DEF n
  <2> QED
    BY <1>1, <1>2, <1>3, <2>1 DEF MonitorStop, n
<1>4. CASE MonitorTrail
  <2>1. PICK p \in Prices : MonitorActs(Trailed(c, p))
    BY <1>4 DEF MonitorTrail
  <2>2. Trailed(c, p).stop = c.stop /\ Trailed(c, p).status \in {"ACTIVE", "CLOSED"}
    BY <1>1 DEF Trailed, Closed, Row
  <2> QED
    BY <1>1, <1>2, <2>1, <2>2
<1>5. CASE MonitorLevel
  <2>1. PICK l \in Levels :
          /\ \E p \in Prices : l \in HitLevels(c, p)
          /\ MonitorActs(IF IsLast(c, l) THEN Closed(c, "TP", 10 * c.tp[l])
                                         ELSE LevelTaken(c, l))
    BY <1>5 DEF MonitorLevel
  <2> DEFINE f == Closed(c, "TP", 10 * c.tp[l])
  <2>2. f.stop = c.stop /\ f.status = "CLOSED"
    BY <1>1 DEF Closed, Row
  <2>3. l \notin c.fired
    BY <2>1 DEF HitLevels
  <2> DEFINE n == LevelTaken(c, l)
  <2>4. n.stop = Ratcheted(c, l) /\ n.status = c.status /\ n.fired = c.fired \cup {l}
    BY <1>1 DEF LevelTaken, Row
  <2>5. order.activation = 0 => n.stop = c.stop
    BY <2>4 DEF Ratcheted
  <2> HIDE DEF n, f
  <2> QED
    BY <1>1, <1>2, <2>1, <2>2, <2>3, <2>4, <2>5 DEF n, f
<1> QED
  BY <1>1, <1>3, <1>4, <1>5

(* A push that succeeds leaves the stop that was pushed.                   *)
LEMMA PushFacts ==
  ASSUME NEW stop, Push(stop), pushFailed \in BOOLEAN
  PROVE  /\ ~pushFailed' => ~pushFailed /\ resting' = stop
  BY DEF Push

LEMMA InitStep == Init => StepInv
<1> SUFFICES ASSUME Init PROVE StepInv
  OBVIOUS
<1>1. PICK s \in Setups, status \in {"PENDING", "ACTIVE"},
           b \in {"paper", "unsynced", "native", "replace"} :
        /\ order.account = b /\ (status = "PENDING" => b = "paper")
        /\ row = Placed(s, status)
        /\ resting = IF b = "paper" THEN Unset ELSE s.stop
  BY DEF Init
<1>2. row.status = status /\ row.stop = s.stop
  BY <1>1 DEF Placed
<1>3. mon.pc = "idle" /\ ed.pc = "idle"
  BY DEF Init, Idle
<1> QED
  BY <1>1, <1>2, <1>3 DEF StepInv, Synced, OneAtATime, MonitorInStep, EditInStep, Agreed

LEMMA MonitorKeepsStep ==
  ASSUME IInv, StepInv,
         \/ Fill \/ MonitorLoad \/ MonitorStop \/ MonitorTrail \/ MonitorLevel
         \/ MonitorGivesUp \/ MonitorPush \/ MonitorCommit
  PROVE  StepInv'
<1>1. CASE Fill
  <2>1. ~Synced
    BY <1>1 DEF Fill, StepInv
  <2>2. order' = order /\ mon' = mon
    BY <1>1 DEF Fill
  <2> QED
    BY <2>1, <2>2 DEF StepInv, Synced
<1>2. CASE MonitorLoad
  <2>1. mon'.pc = "loaded" /\ mon'.old = row
    BY <1>2 DEF MonitorLoad
  <2> QED
    BY <1>2, <2>1
       DEF MonitorLoad, StepInv, Synced, OneAtATime, MonitorInStep, EditInStep, Agreed
<1>3. CASE MonitorStop \/ MonitorTrail \/ MonitorLevel
  <2>1. /\ mon.pc = "loaded" /\ mon'.pc = "acting" /\ mon'.old = mon.old
        /\ mon'.new.status # "PENDING"
        /\ mon'.new.stop # mon.old.stop =>
             /\ order.activation # 0
             /\ mon'.new.status # "CLOSED" /\ mon'.new.fired # mon.old.fired
        /\ UNCHANGED <<order, row, resting, ed, edits, touched, crossed, pushFailed>>
    BY <1>3, StopMovesWithLevel
  <2> QED
    BY <2>1
       DEF StepInv, Synced, OneAtATime, MonitorInStep, EditInStep, Agreed, PushDue
<1>4. CASE MonitorGivesUp
  <2>1. /\ mon'.pc = "idle" /\ mon.pc \in {"loaded", "acting"}
        /\ UNCHANGED <<order, row, resting, ed, edits, touched, crossed, pushFailed>>
    BY <1>4 DEF MonitorGivesUp, MonitorEnds, Idle
  <2> QED
    BY <2>1 DEF StepInv, Synced, OneAtATime, MonitorInStep, EditInStep, Agreed
<1>5. CASE MonitorPush
  <2>1. /\ mon.pc = "acting" /\ mon'.pc = "pushed"
        /\ mon'.old = mon.old /\ mon'.new = mon.new
        /\ UNCHANGED <<order, row, ed, edits, touched, crossed>>
    BY <1>5 DEF MonitorPush, IInv, TypeOK, Session
  <2>2. ~pushFailed' => ~pushFailed /\ resting' = mon.new.stop
    BY <1>5, PushFacts DEF MonitorPush, IInv, TypeOK
  <2> QED
    BY <2>1, <2>2 DEF StepInv, Synced, OneAtATime, MonitorInStep, EditInStep, Agreed
<1>6. CASE MonitorCommit
  <2>1. /\ mon'.pc = "idle" /\ mon.pc \in {"acting", "pushed"}
        /\ mon.pc = "acting" => ~PushDue
        /\ row' = Flush(row, mon.old, mon.new)
        /\ UNCHANGED <<order, resting, ed, edits, touched, crossed, pushFailed>>
    BY <1>6 DEF MonitorCommit, MonitorEnds, Idle
  <2>2. /\ row.status = "ACTIVE" /\ row'.status \in {row.status, mon.new.status}
        /\ mon.new.status # mon.old.status => row'.status = mon.new.status
        /\ row'.stop = Column(mon.old.stop, mon.new.stop, row.stop)
        /\ mon.old.status = "ACTIVE"
    BY <2>1, CopyFacts DEF Flush, Column, SameBook
  <2> QED
    BY <2>1, <2>2
       DEF StepInv, Synced, OneAtATime, MonitorInStep, EditInStep, Agreed, Column
<1> QED
  BY <1>1, <1>2, <1>3, <1>4, <1>5, <1>6

LEMMA EditKeepsStep ==
  ASSUME IInv, StepInv,
         \/ EditLoad \/ RequestCommits \/ RequestPushes \/ EditRefused
         \/ AlertDecides \/ AlertPushes \/ AlertCommits \/ Restart
  PROVE  StepInv'
<1>1. CASE EditLoad
  <2>1. ed.pc = "idle" /\ ed'.pc = "loaded" /\ ed'.old = row
        /\ row.status \in {"PENDING", "ACTIVE"}
    BY <1>1 DEF EditLoad
  <2> QED
    BY <1>1, <2>1
       DEF EditLoad, StepInv, Synced, OneAtATime, MonitorInStep, EditInStep, Agreed, PushDue
<1>2. CASE RequestCommits
  <2>1. PICK n \in Requested(ed.old) :
          /\ row' = Flush(row, ed.old, n)
          /\ LET e == [pc |-> "committed", old |-> ed.old, new |-> n]
             IN  IF StopPushDue(e) THEN ed' = e ELSE EditEnds
    BY <1>2 DEF RequestCommits
  <2>2. n \in Row /\ SameBook(ed.old, n)
    BY EditsTyped DEF Requested, IInv, TypeOK, Session
  <2>3. /\ row'.status = row.status
        /\ row'.stop = Column(ed.old.stop, n.stop, row.stop)
    BY <2>1, <2>2 DEF Flush, Column, SameBook
  <2>4. /\ ed.pc = "loaded"
        /\ UNCHANGED <<order, resting, mon, edits, crossed, pushFailed>>
    BY <1>2 DEF RequestCommits
  <2>5. \/ /\ Synced /\ ed'.pc = "committed" /\ ed'.old = ed.old /\ ed'.new = n
        \/ /\ ed'.pc = "idle"
           /\ (Synced /\ ed.old.status = "ACTIVE") => n.stop = ed.old.stop
    BY <2>1 DEF StopPushDue, EditEnds, Idle
  <2> QED
    BY <2>3, <2>4, <2>5
       DEF StepInv, Synced, OneAtATime, MonitorInStep, EditInStep, Agreed, Column
<1>3. CASE RequestPushes
  <2>1. /\ ed.pc = "committed" /\ ed'.pc = "idle"
        /\ UNCHANGED <<order, row, mon, edits, touched, crossed>>
    BY <1>3 DEF RequestPushes, EditEnds, Idle
  <2>2. ~pushFailed' => ~pushFailed /\ resting' = ed.new.stop
    BY <1>3, PushFacts DEF RequestPushes, IInv, TypeOK
  <2> QED
    BY <2>1, <2>2 DEF StepInv, Synced, OneAtATime, MonitorInStep, EditInStep, Agreed
<1>4. CASE EditRefused
  <2>1. /\ ed.pc = "loaded" /\ ed'.pc = "idle"
        /\ UNCHANGED <<order, row, resting, mon, edits, touched, crossed, pushFailed>>
    BY <1>4 DEF EditRefused, EditEnds, Idle
  <2> QED
    BY <2>1
       DEF StepInv, Synced, OneAtATime, MonitorInStep, EditInStep, Agreed, PushDue
<1>5. CASE AlertDecides
  <2>1. /\ ed.pc = "loaded" /\ ed'.pc = "decided" /\ ed'.old = ed.old
        /\ UNCHANGED <<order, row, resting, mon, edits, touched, crossed, pushFailed>>
    BY <1>5 DEF AlertDecides, IInv, TypeOK, Session
  <2> QED
    BY <2>1
       DEF StepInv, Synced, OneAtATime, MonitorInStep, EditInStep, Agreed, PushDue
<1>6. CASE AlertPushes
  <2>1. /\ ed.pc = "decided" /\ ed'.pc = "pushed"
        /\ ed'.old = ed.old /\ ed'.new = ed.new
        /\ UNCHANGED <<order, row, mon, edits, touched, crossed>>
    BY <1>6 DEF AlertPushes, IInv, TypeOK, Session
  <2>2. ~pushFailed' => ~pushFailed /\ resting' = ed.new.stop
    BY <1>6, PushFacts DEF AlertPushes, IInv, TypeOK
  <2> QED
    BY <2>1, <2>2
       DEF StepInv, Synced, OneAtATime, MonitorInStep, EditInStep, Agreed, PushDue
<1>7. CASE AlertCommits
  <2>1. /\ ed.pc \in {"decided", "pushed"} /\ ed'.pc = "idle"
        /\ ed.pc = "decided" => ~StopPushDue(ed)
        /\ row' = Flush(row, ed.old, ed.new)
        /\ UNCHANGED <<order, resting, mon, edits, crossed, pushFailed>>
    BY <1>7 DEF AlertCommits, EditEnds, Idle
  <2>2. /\ row'.status = row.status
        /\ row'.stop = Column(ed.old.stop, ed.new.stop, row.stop)
    BY <2>1 DEF IInv, EditKeepsBook, Flush, Column, SameBook
  <2> QED
    BY <2>1, <2>2
       DEF StepInv, Synced, OneAtATime, MonitorInStep, EditInStep, Agreed, Column,
           StopPushDue
<1>8. CASE Restart
  BY <1>8 DEF Restart, StepInv, Synced, Idle
<1> QED
  BY <1>1, <1>2, <1>3, <1>4, <1>5, <1>6, <1>7, <1>8

(* Which of row and exchange is ahead is known from where the monitor,    *)
(* the request or the alert is, as long as they do not cross and pushes   *)
(* succeed.                                                               *)
THEOREM StepInvariance == Spec => []StepInv
<1>1. ASSUME IInv, StepInv, [Next]_vars PROVE StepInv'
  <2>1. CASE UNCHANGED vars
    BY <1>1, <2>1
       DEF vars, StepInv, Synced, OneAtATime, MonitorInStep, EditInStep, Agreed, PushDue
  <2> QED
    BY <1>1, <2>1, MonitorKeepsStep, EditKeepsStep DEF Next
<1> QED
  BY <1>1, InitStep, Invariance, PTL DEF Spec

(* The monitor, the endpoint and the alert each keep the stop at the       *)
(* exchange with the row, one at a time and with pushes that succeed, for  *)
(* any number of them and any prices.                                      *)
THEOREM RestingFollows == Spec => []RestingFollowsRow
<1>1. StepInv => RestingFollowsRow
  BY DEF StepInv, RestingFollowsRow, Agreed
<1> QED
  BY <1>1, StepInvariance, PTL

-----------------------------------------------------------------------------
(* The stops at the broker.                                                *)

(* At a broker whose orders carry their stop, nothing else rests and a     *)
(* position has it; where the stop is an order of its own, an active trade *)
(* has one, or its new one is about to be placed, and a closed trade has   *)
(* none, or the monitor is about to delete it; and each closes its trade.  *)
Causes == {"bare", "attach", "cancelled", "misfire", "byHand", "crossed", "failed", "swept", "vain", "wrongSide"}
Sides == {"BUY", "SELL"}
StopOrders == [by : Trades, n : Nat, side : Sides]
TradeRows == [row : {"none", "placing", "active", "closed", "cancelled"}, at : {"none", "resting", "open", "gone"},
              direction : Directions \cup {"none"}, left : SUBSET Causes]
JobStates ==
  {NoJob} \cup [pc : {"cancel", "place", "sweep", "delete"}, t : Trades, found : SUBSET StopOrders]
LiveTrade(t) == trade[t].at \in {"open", "resting"}
StopsShape ==
  /\ broker \in DOMAIN Style /\ held \in 0..LastTrade /\ carried \in BOOLEAN /\ made \in Nat
  /\ trade \in [Trades -> TradeRows]
  /\ stops \subseteq StopOrders
  /\ job \in [Handlers -> JobStates]
  /\ \A t \in Trades : trade[t].at = "open" <=> held = t
  /\ \A t, u \in Trades : LiveTrade(t) /\ LiveTrade(u) => t = u
  /\ This.separate => ~carried
  /\ ~This.separate => /\ stops = {} /\ \A h \in Handlers : job[h] = NoJob
                       /\ \A t \in Trades : trade[t].row # "placing"

Own(t) == {s \in stops : s.by = t}
Swept(t) ==
  LET m == job["monitor"]
  IN  m.t = t /\ (m.pc = "sweep" \/ (m.pc = "delete" /\ Own(t) \subseteq m.found))
OneStopEach == \A s, r \in stops : s.by = r.by => s = r
JobsFit ==
  /\ \A h \in Handlers :
       /\ job[h].pc \in {"cancel", "place"} => trade[job[h].t].row = "active"
       /\ job[h].pc = "cancel" => \E s \in StopOrders : job[h].found = {s} /\ s.by = job[h].t
       /\ job[h].pc = "place" => /\ Own(job[h].t) = {}
                                 /\ \A g \in Handlers : job[g].pc = "place" /\ job[g].t = job[h].t => g = h
  /\ job["monitor"].pc \in {"sweep", "delete"} => trade[job["monitor"].t].row = "closed"
TradesFit ==
  \A t \in Trades :
    /\ ~This.separate /\ LiveTrade(t) => carried
    /\ trade[t].row \in {"none", "placing"} => Own(t) = {}
    /\ trade[t].row = "closed" => Own(t) = {} \/ Swept(t)
    /\ This.separate /\ trade[t].row = "active" /\ LiveTrade(t) =>
         Own(t) # {} \/ \E h \in Handlers : job[h].pc = "place" /\ job[h].t = t
SidesFit == \A s \in stops : s.side = Against(s.by)
StopsFit == OneStopEach /\ JobsFit /\ TradesFit /\ SidesFit
StopsInv == StopsShape /\ (Undisturbed => StopsFit)

LEMMA Styles ==
  ASSUME NEW b \in DOMAIN Style
  PROVE  /\ Style[b].separate \in BOOLEAN
         /\ Style[b].separate => Style[b].move = "replace" /\ Style[b].carries = {}
         /\ ~Style[b].separate => Style[b].move # "replace"
<1>1. DOMAIN Style = {"bingx", "tradelocker", "binance", "bybit", "mexc", "metatrader", "oanda", "paper"}
  BY DEF Style
<1>2. CASE b = "binance"
  <2>1. Style[b] = Binance
    BY <1>2 DEF Style
  <2> QED
    BY <2>1 DEF Binance
<1>3. CASE b = "bingx"
  <2>1. Style[b] = BingX
    BY <1>3 DEF Style
  <2> QED
    BY <2>1 DEF BingX
<1>4. CASE b = "tradelocker"
  <2>1. Style[b] = TradeLocker
    BY <1>4 DEF Style
  <2> QED
    BY <2>1 DEF TradeLocker
<1>5. CASE b = "oanda"
  <2>1. Style[b] = Oanda
    BY <1>5 DEF Style
  <2> QED
    BY <2>1 DEF Oanda
<1>6. CASE b = "bybit"
  <2>1. Style[b] = Bybit
    BY <1>6 DEF Style
  <2> QED
    BY <2>1 DEF Bybit
<1>7. CASE b = "metatrader"
  <2>1. Style[b] = MetaApi
    BY <1>7 DEF Style
  <2> QED
    BY <2>1 DEF MetaApi
<1>8. CASE b = "mexc"
  <2>1. Style[b] = Mexc
    BY <1>8 DEF Style
  <2> QED
    BY <2>1 DEF Mexc
<1>9. CASE b = "paper"
  <2>1. Style[b] = Paper
    BY <1>9 DEF Style
  <2> QED
    BY <2>1 DEF Paper
<1> QED
  BY <1>1, <1>2, <1>3, <1>4, <1>5, <1>6, <1>7, <1>8, <1>9

LEMMA StopsStart == StopsInit => StopsInv
<1> SUFFICES ASSUME StopsInit PROVE StopsInv
  OBVIOUS
<1>1. \A t \in Trades : trade[t] = [row |-> "none", at |-> "none", direction |-> "none", left |-> {}] /\ t # 0
  BY StopBounds DEF StopsInit, Unborn, Trades
<1>2. \A h \in Handlers : job[h] = [pc |-> "idle", t |-> 0, found |-> {}]
  BY DEF StopsInit, NoJob
<1>3. 0 \in 0..LastTrade /\ 0 \in Nat
  BY StopBounds
<1>4. trade = [t \in Trades |-> [row |-> "none", at |-> "none", direction |-> "none", left |-> {}]]
      /\ job = [h \in Handlers |-> [pc |-> "idle", t |-> 0, found |-> {}]]
  BY DEF StopsInit, Unborn, NoJob
<1>5. StopsShape
  <2>1. broker \in DOMAIN Style /\ held = 0 /\ carried = FALSE /\ made = 0 /\ stops = {}
    BY StopBounds DEF StopsInit
  <2>2. trade \in [Trades -> TradeRows]
    BY <1>4 DEF TradeRows
  <2>3. job \in [Handlers -> JobStates]
    BY DEF StopsInit, JobStates
  <2>4. /\ \A t \in Trades : trade[t].at = "open" <=> held = t
        /\ \A t, u \in Trades : LiveTrade(t) /\ LiveTrade(u) => t = u
        /\ \A t \in Trades : trade[t].row # "placing"
    BY <1>1, <2>1 DEF LiveTrade
  <2>5. \A h \in Handlers : job[h] = NoJob
    BY <1>2 DEF NoJob
  <2> QED
    BY <1>3, <2>1, <2>2, <2>3, <2>4, <2>5 DEF StopsShape
<1>6. "monitor" \in Handlers
  BY DEF Handlers
<1>7. StopsFit
  BY <1>1, <1>2, <1>6 DEF StopsInit, StopsFit, OneStopEach, JobsFit, TradesFit, SidesFit, LiveTrade, Own
<1> QED
  BY <1>5, <1>7 DEF StopsInv

LEMMA ThisStyle ==
  ASSUME StopsShape
  PROVE  /\ This.separate \in BOOLEAN
         /\ This.separate => This.move = "replace" /\ This.carries = {}
         /\ ~This.separate => This.move # "replace"
BY Styles DEF StopsShape, This

LEMMA Numbered == \A t \in Trades : t \in Int /\ t # 0 /\ t \in 0..LastTrade
BY StopBounds DEF Trades

LEMMA Jobs ==
  ASSUME StopsShape, NEW h \in Handlers
  PROVE  /\ job[h] \in JobStates
         /\ job[h].pc # "idle" => job[h].t \in Trades /\ job[h].found \in SUBSET StopOrders /\ This.separate
         /\ job[h] = NoJob <=> job[h].pc = "idle"
<1>1. job[h] \in JobStates
  BY DEF StopsShape
<1>2. job[h].pc # "idle" => job[h].t \in Trades /\ job[h].found \in SUBSET StopOrders
  BY <1>1 DEF JobStates, NoJob
<1>3. job[h] = NoJob <=> job[h].pc = "idle"
  BY <1>1 DEF JobStates, NoJob
<1>4. job[h].pc # "idle" => This.separate
  BY <1>3 DEF StopsShape
<1> QED
  BY <1>1, <1>2, <1>3, <1>4

LEMMA JobsOnTrades ==
  ASSUME StopsShape
  PROVE  \A h \in Handlers : job[h].pc \in {"cancel", "place", "sweep", "delete"} => job[h].t \in Trades
BY Jobs

LEMMA FitsBefore ==
  ASSUME StopsInv, \A t \in Trades : trade[t].left \subseteq trade'[t].left, Undisturbed'
  PROVE  StopsFit
BY DEF StopsInv, Undisturbed

(* Sides are right as long as stops only go and directions stay.           *)
LEMMA SidesKept ==
  ASSUME StopsShape, StopsFit, stops' \subseteq stops, \A u \in Trades : trade'[u].direction = trade[u].direction
  PROVE  SidesFit'
BY DEF StopsShape, StopsFit, SidesFit, StopOrders, Against

LEMMA CloseSides == \A side : CloseSide(side) \in Sides
BY DEF CloseSide, Sides

(* A stop that is sent may come to rest; if it does once, it is one more.  *)
LEMMA RestShape ==
  ASSUME StopsShape, NEW t \in Trades, NEW side \in Sides, NEW n \in 0..2, Rest(t, side, n)
  PROVE  /\ made' \in Nat /\ stops' \subseteq StopOrders
         /\ n = 1 => \E s \in StopOrders : s.by = t /\ s.side = side /\ stops' = stops \cup {s}
<1>1. made \in Nat /\ stops \subseteq StopOrders
  BY DEF StopsShape
<1>2. /\ made' = made + n
      /\ stops' = stops \cup {[by |-> t, n |-> made + i, side |-> side] : i \in 1..n}
  BY DEF Rest
<1>3. \A i \in 1..n : made + i \in Nat
  BY <1>1
<1>4. \A i \in 1..n : [by |-> t, n |-> made + i, side |-> side] \in StopOrders
  BY <1>3 DEF StopOrders
<1>5. ASSUME n = 1
      PROVE  \E s \in StopOrders : s.by = t /\ s.side = side /\ stops' = stops \cup {s}
  <2>1. PICK s : s = [by |-> t, n |-> made + 1, side |-> side]
    OBVIOUS
  <2>2. 1..n = {1}
    BY <1>5
  <2>3. {[by |-> t, n |-> made + i, side |-> side] : i \in 1..n} = {s}
    BY <2>1, <2>2
  <2> QED
    BY <1>2, <1>4, <2>1, <2>2, <2>3
<1> QED
  BY <1>1, <1>2, <1>4, <1>5

(* Where orders carry their stop, a live trade that has it is all there is.*)
LEMMA PlainFit ==
  ASSUME StopsShape', ~This.separate', \A t \in Trades : LiveTrade(t)' => carried'
  PROVE  StopsFit'
<1>1. stops' = {} /\ \A h \in Handlers : job'[h] = NoJob
  BY DEF StopsShape
<1>2. "monitor" \in Handlers /\ NoJob.pc = "idle"
  BY DEF Handlers, NoJob
<1>3. \A t \in Trades : Own(t)' = {}
  BY <1>1 DEF Own
<1> QED
  BY <1>1, <1>2, <1>3 DEF StopsFit, OneStopEach, JobsFit, TradesFit, SidesFit

LEMMA PlaceStep ==
  ASSUME StopsInv, NEW t \in Trades, NEW entry \in All, NEW direction \in Directions, Place(t, entry, direction)
  PROVE  StopsInv'
<1> DEFINE now == entry = "market" \/ ~This.rests
           at == IF now THEN "open" ELSE "resting"
           newRow == IF This.separate THEN "placing" ELSE "active"
           left == IF entry \in This.carries \/ This.separate THEN {} ELSE {"bare"}
<1>1. /\ trade[t] = Unborn /\ held = 0 /\ (\A u \in Trades : trade[u].at # "resting")
      /\ trade' = [trade EXCEPT ![t] = [row |-> newRow, at |-> at, direction |-> direction, left |-> left]]
      /\ held' = IF now THEN t ELSE 0
  BY DEF Place
<1>2. carried' = (entry \in This.carries)
  BY DEF Place
<1>3. broker' = broker /\ stops' = stops /\ made' = made /\ job' = job
  BY DEF Place
<1>4. /\ newRow \in {"placing", "active"} /\ at \in {"resting", "open"} /\ left \in SUBSET Causes
      /\ (newRow = "placing" <=> This.separate) /\ (at = "open" <=> now)
  BY DEF Causes
<1>5. StopsShape
  BY DEF StopsInv
<1>6. ~This.separate /\ left = {} => carried'
  BY <1>2
<1>7. This.separate => ~carried'
  BY <1>2, <1>5, ThisStyle
<1>8. carried' \in BOOLEAN
  BY <1>2
<1> HIDE DEF at, newRow, left
<1>9. held' \in 0..LastTrade /\ (held' = t <=> at = "open") /\ (held' # t => held' = 0)
  BY <1>1, <1>4, Numbered, StopBounds
<1>10. trade' \in [Trades -> TradeRows]
  BY <1>1, <1>4, <1>5 DEF StopsShape, TradeRows
<1>11. \A u \in Trades : trade'[u] = IF u = t THEN [row |-> newRow, at |-> at, direction |-> direction, left |-> left] ELSE trade[u]
  BY <1>1, <1>5 DEF StopsShape
<1>12. \A u \in Trades : ~LiveTrade(u)
  BY <1>1, <1>5, Numbered DEF StopsShape, LiveTrade
<1>13. \A u \in Trades : LiveTrade(u)' => u = t
  BY <1>11, <1>12 DEF LiveTrade
<1>14. \A u \in Trades : trade'[u].at = "open" <=> held' = u
  BY <1>1, <1>5, <1>9, <1>11, Numbered DEF StopsShape
<1>15. StopsShape'
  BY <1>3, <1>4, <1>5, <1>7, <1>8, <1>9, <1>10, <1>11, <1>13, <1>14 DEF StopsShape, This
<1>16. \A u \in Trades : trade[u].left \subseteq trade'[u].left
  BY <1>1, <1>11 DEF Unborn
<1>17. ASSUME Undisturbed' PROVE StopsFit'
  <2>1. StopsFit /\ left = {}
    BY <1>11, <1>16, <1>17, FitsBefore DEF Undisturbed
  <2>2. CASE ~This.separate
    BY <1>3, <1>6, <1>13, <1>15, <2>1, <2>2, PlainFit DEF This
  <2>3. CASE This.separate
    <3>1. trade[t].row = "none" /\ newRow = "placing"
      BY <1>1, <1>4, <2>3 DEF Unborn
    <3>2. \A u : Own(u)' = Own(u) /\ Swept(u)' = Swept(u)
      BY <1>3 DEF Own, Swept
    <3>3. OneStopEach'
      BY <1>3, <2>1 DEF StopsFit, OneStopEach
    <3>4. JobsFit'
      BY <1>3, <1>5, <1>11, <2>1, <3>1, <3>2, JobsOnTrades DEF StopsFit, JobsFit, Handlers
    <3>5. TradesFit'
      BY <1>3, <1>11, <1>12, <1>13, <2>1, <2>3, <3>1, <3>2 DEF StopsFit, TradesFit, This
    <3>6. \A s \in stops : s.by \in Trades /\ s.by # t
      BY <1>5, <2>1, <3>1 DEF StopsShape, StopOrders, StopsFit, TradesFit, Own
    <3>7. SidesFit'
      BY <1>3, <1>11, <2>1, <3>6 DEF StopsFit, SidesFit, Against
    <3> QED
      BY <3>3, <3>4, <3>5, <3>7 DEF StopsFit
  <2> QED
    BY <2>2, <2>3, <1>5, ThisStyle
<1> QED
  BY <1>15, <1>17 DEF StopsInv

(* A trade that is blamed keeps its row, and the step is disturbed.        *)
LEMMA BlameRows ==
  ASSUME StopsShape, NEW t \in Trades, NEW why \in Causes, NEW blamed, blamed = Blame(t, why)
  PROVE  /\ blamed \in [Trades -> TradeRows] /\ blamed[t].left # {}
         /\ \A u \in Trades : /\ blamed[u].row = trade[u].row /\ blamed[u].at = trade[u].at
                              /\ trade[u].left \subseteq blamed[u].left
<1>1. blamed = [trade EXCEPT ![t].left = FirstOf(@, why)]
  BY DEF Blame
<1>2. trade \in [Trades -> TradeRows]
  BY DEF StopsShape
<1>3. PICK left : left = FirstOf(trade[t].left, why)
  OBVIOUS
<1>4. left \in SUBSET Causes /\ left # {} /\ trade[t].left \subseteq left
  BY <1>2, <1>3 DEF TradeRows, FirstOf
<1>5. blamed = [trade EXCEPT ![t].left = left]
  BY <1>1, <1>2, <1>3
<1> QED
  BY <1>2, <1>4, <1>5 DEF TradeRows

(* A step that leaves where the trades are.                                *)
LEMMA ShapeKept ==
  ASSUME StopsShape, broker' = broker, held' = held, carried' \in BOOLEAN, This.separate => ~carried',
         made' \in Nat, stops' \subseteq StopOrders, job' \in [Handlers -> JobStates],
         trade' \in [Trades -> TradeRows], \A u \in Trades : trade'[u].at = trade[u].at,
         ~This.separate => /\ stops' = {} /\ \A h \in Handlers : job'[h] = NoJob
                           /\ \A u \in Trades : trade'[u].row # "placing"
  PROVE  StopsShape' /\ \A u \in Trades : LiveTrade(u)' = LiveTrade(u)
<1>1. \A u \in Trades : LiveTrade(u)' = LiveTrade(u)
  BY DEF LiveTrade
<1> QED
  BY <1>1 DEF StopsShape, This

(* A position that is closed was the only live trade.                      *)
LEMMA FlatShape ==
  ASSUME StopsShape, held # 0, Flat, broker' = broker, made' = made, stops' \subseteq stops,
         job' \in [Handlers -> JobStates], trade' \in [Trades -> TradeRows],
         \A u \in Trades : trade'[u].at = IF u = held THEN "gone" ELSE trade[u].at,
         ~This.separate => /\ \A h \in Handlers : job'[h] = NoJob
                           /\ \A u \in Trades : trade'[u].row # "placing"
  PROVE  StopsShape' /\ \A u \in Trades : ~LiveTrade(u)'
<1>1. held \in Trades
  BY StopBounds DEF StopsShape, Trades
<1>2. LiveTrade(held)
  BY <1>1 DEF StopsShape, LiveTrade
<1>3. \A u \in Trades : u # held => ~LiveTrade(u)
  BY <1>1, <1>2 DEF StopsShape
<1>4. \A u \in Trades : ~LiveTrade(u)'
  BY <1>3 DEF LiveTrade
<1>5. \A u \in Trades : trade'[u].at # "open"
  BY <1>4 DEF LiveTrade
<1>6. held' = 0 /\ carried' = FALSE /\ 0 \in 0..LastTrade /\ stops' \subseteq StopOrders
      /\ (~This.separate => stops' = {})
  BY StopBounds DEF Flat, StopsShape
<1> QED
  BY <1>4, <1>5, <1>6, Numbered DEF StopsShape, This

LEMMA AttachStep == ASSUME StopsInv, NEW t \in Trades, AttachStop(t) PROVE StopsInv'
<1>1. StopsShape /\ trade[t].row = "placing" /\ UNCHANGED <<broker, held, carried, job>>
  BY DEF StopsInv, AttachStop
<1>2. This.separate
  BY <1>1 DEF StopsShape
<1>3. trade \in [Trades -> TradeRows] /\ made \in Nat /\ stops \subseteq StopOrders /\ job \in [Handlers -> JobStates]
  BY <1>1 DEF StopsShape
<1>4. PICK n \in 0..2 : /\ Rest(t, Against(t), n)
                        /\ trade' = [IF n = 1 THEN trade ELSE Blame(t, "attach") EXCEPT ![t].row = "active"]
  BY DEF AttachStop
<1>5. Against(t) \in Sides
  BY CloseSides DEF Against
<1>6. /\ made' \in Nat /\ stops' \subseteq StopOrders
      /\ n = 1 => \E s \in StopOrders : s.by = t /\ s.side = Against(t) /\ stops' = stops \cup {s}
  BY <1>1, <1>5, <1>4, RestShape
<1>7. CASE n = 1
  <2>1. PICK s \in StopOrders : s.by = t /\ s.side = Against(t) /\ stops' = stops \cup {s}
    BY <1>7, <1>6
  <2>2. stops' = stops \cup {s} /\ s.by = t /\ s \in StopOrders
    BY <2>1
  <2>3. /\ trade' \in [Trades -> TradeRows]
        /\ \A u \in Trades : /\ trade'[u].at = trade[u].at /\ trade'[u].left = trade[u].left
                             /\ trade'[u].direction = trade[u].direction
                             /\ trade'[u].row = IF u = t THEN "active" ELSE trade[u].row
    BY <1>3, <1>7, <1>4 DEF TradeRows
  <2>4. StopsShape' /\ \A u \in Trades : LiveTrade(u)' = LiveTrade(u)
    BY <1>1, <1>2, <1>3, <1>6, <2>3, ShapeKept DEF StopsShape
  <2>5. ASSUME Undisturbed' PROVE StopsFit'
    <3>1. StopsFit
      BY <2>3, <2>5, FitsBefore
    <3>2. Own(t) = {}
      BY <1>1, <3>1 DEF StopsFit, TradesFit
    <3>3. Own(t)' = {s} /\ \A u \in Trades : u # t => Own(u)' = Own(u) /\ Swept(u)' = Swept(u)
      BY <1>1, <2>2, <3>2 DEF Own, Swept
    <3>4. OneStopEach'
      BY <2>2, <3>1, <3>2 DEF StopsFit, OneStopEach, Own
    <3>5. JobsFit'
      BY <1>1, <2>3, <3>1, <3>3, JobsOnTrades DEF StopsFit, JobsFit, Handlers
    <3>6. TradesFit'
      BY <1>1, <1>2, <2>3, <2>4, <3>1, <3>3 DEF StopsFit, TradesFit, This
    <3>7. SidesFit'
      <4>1. \A u \in Trades : Against(u)' = Against(u)
        BY <2>3 DEF Against
      <4> QED
        BY <1>3, <2>1, <3>1, <4>1 DEF StopsFit, SidesFit, StopOrders
    <3> QED
      BY <3>4, <3>5, <3>6, <3>7 DEF StopsFit
  <2> QED
    BY <2>4, <2>5 DEF StopsInv
<1>8. CASE n # 1
  <2>1. PICK blamed : blamed = Blame(t, "attach")
    OBVIOUS
  <2>2. "attach" \in Causes
    BY DEF Causes
  <2>3. /\ blamed \in [Trades -> TradeRows] /\ blamed[t].left # {}
        /\ \A u \in Trades : blamed[u].at = trade[u].at
    BY <1>1, <2>1, <2>2, BlameRows
  <2>4. /\ trade' \in [Trades -> TradeRows] /\ trade'[t].left # {}
        /\ \A u \in Trades : trade'[u].at = trade[u].at
    BY <1>8, <1>4, <2>1, <2>3 DEF TradeRows
  <2>5. StopsShape'
    BY <1>1, <1>2, <1>3, <1>6, <2>4, ShapeKept DEF StopsShape
  <2> QED
    BY <2>4, <2>5 DEF StopsInv, Undisturbed
<1> QED
  BY <1>7, <1>8

LEMMA FillStep == ASSUME StopsInv, NEW t \in Trades, Fills(t) PROVE StopsInv'
<1>1. /\ StopsShape /\ trade[t].at = "resting" /\ UNCHANGED <<broker, carried, stops, made, job>>
      /\ held' = t /\ trade' = [trade EXCEPT ![t].at = "open"]
  BY DEF StopsInv, Fills
<1>2. trade \in [Trades -> TradeRows]
  BY <1>1 DEF StopsShape
<1>3. /\ trade' \in [Trades -> TradeRows]
      /\ \A u \in Trades : /\ trade'[u].row = trade[u].row /\ trade'[u].left = trade[u].left
                           /\ trade'[u].direction = trade[u].direction
                           /\ trade'[u].at = IF u = t THEN "open" ELSE trade[u].at
  BY <1>1, <1>2 DEF TradeRows
<1>4. \A u \in Trades : LiveTrade(u)' = LiveTrade(u)
  BY <1>1, <1>3 DEF LiveTrade
<1>5. \A u \in Trades : u # t => trade[u].at # "open"
  BY <1>1 DEF StopsShape, LiveTrade
<1>6. \A u \in Trades : trade'[u].at = "open" <=> held' = u
  BY <1>1, <1>3, <1>5
<1>7. StopsShape'
  BY <1>1, <1>3, <1>4, <1>6, Numbered DEF StopsShape, This
<1>8. ASSUME Undisturbed' PROVE StopsFit'
  <2>1. StopsFit
    BY <1>3, <1>8, FitsBefore
  <2>2. \A u : Own(u)' = Own(u) /\ Swept(u)' = Swept(u)
    BY <1>1 DEF Own, Swept
  <2>3. SidesFit'
    BY <1>1, <1>3, <2>1, SidesKept
  <2> QED
    BY <1>1, <1>3, <1>4, <2>1, <2>2, <2>3 DEF StopsFit, OneStopEach, JobsFit, TradesFit, This
<1> QED
  BY <1>7, <1>8 DEF StopsInv

LEMMA CancelStep == ASSUME StopsInv, NEW t \in Trades, CancelEntry(t) PROVE StopsInv'
<1>1. /\ StopsShape /\ trade[t].at = "resting" /\ UNCHANGED <<broker, held, stops, made, job>>
      /\ trade' = [Blame(t, "cancelled") EXCEPT ![t].at = "gone", ![t].row = "cancelled"]
      /\ carried' = FALSE
  BY DEF StopsInv, CancelEntry
<1>2. PICK blamed : blamed = Blame(t, "cancelled")
  OBVIOUS
<1>3. "cancelled" \in Causes
  BY DEF Causes
<1>4. /\ blamed \in [Trades -> TradeRows] /\ blamed[t].left # {}
      /\ \A u \in Trades : blamed[u].at = trade[u].at /\ blamed[u].row = trade[u].row
  BY <1>1, <1>2, <1>3, BlameRows
<1>5. /\ trade' \in [Trades -> TradeRows] /\ trade'[t].left # {}
      /\ \A u \in Trades : /\ trade'[u].at = IF u = t THEN "gone" ELSE trade[u].at
                           /\ trade'[u].row = IF u = t THEN "cancelled" ELSE trade[u].row
  BY <1>1, <1>2, <1>4 DEF TradeRows
<1>6. \A u \in Trades : LiveTrade(u)' => LiveTrade(u)
  BY <1>5 DEF LiveTrade
<1>7. \A u \in Trades : trade'[u].at = "open" <=> held' = u
  BY <1>1, <1>5 DEF StopsShape
<1>8. \A u, v \in Trades : LiveTrade(u)' /\ LiveTrade(v)' => u = v
  BY <1>1, <1>6 DEF StopsShape
<1>9. carried' \in BOOLEAN /\ ~carried'
  BY <1>1
<1>10. ~This.separate => \A u \in Trades : trade'[u].row # "placing"
  BY <1>1, <1>5 DEF StopsShape
<1>11. StopsShape'
  BY <1>1, <1>5, <1>7, <1>8, <1>9, <1>10 DEF StopsShape, This
<1> QED
  BY <1>5, <1>11 DEF StopsInv, Undisturbed

LEMMA HandStep == ASSUME StopsInv, NEW t \in Trades, CloseByHand(t) PROVE StopsInv'
<1>1. /\ StopsShape /\ held # 0 /\ Flat /\ UNCHANGED <<broker, stops, made, job>>
      /\ trade' = [[Blame(t, "byHand") EXCEPT ![held].at = "gone"] EXCEPT ![t].row = "closed"]
  BY DEF StopsInv, CloseByHand
<1>2. PICK blamed : blamed = Blame(t, "byHand")
  OBVIOUS
<1>3. "byHand" \in Causes
  BY DEF Causes
<1>4. /\ blamed \in [Trades -> TradeRows] /\ blamed[t].left # {}
      /\ \A u \in Trades : blamed[u].at = trade[u].at /\ blamed[u].row = trade[u].row
  BY <1>1, <1>2, <1>3, BlameRows
<1>5. PICK gone : gone = [blamed EXCEPT ![held].at = "gone"]
  OBVIOUS
<1>6. held \in Trades
  BY <1>1, StopBounds DEF StopsShape, Trades
<1>7. /\ gone \in [Trades -> TradeRows] /\ gone[t].left # {}
      /\ \A u \in Trades : /\ gone[u].at = IF u = held THEN "gone" ELSE trade[u].at
                           /\ gone[u].row = trade[u].row
  BY <1>4, <1>5, <1>6 DEF TradeRows
<1>8. trade' = [gone EXCEPT ![t].row = "closed"]
  BY <1>1, <1>2, <1>5
<1>9. /\ trade' \in [Trades -> TradeRows] /\ trade'[t].left # {}
      /\ \A u \in Trades : /\ trade'[u].at = IF u = held THEN "gone" ELSE trade[u].at
                           /\ trade'[u].row = IF u = t THEN "closed" ELSE trade[u].row
  BY <1>7, <1>8 DEF TradeRows
<1>10. /\ stops' \subseteq stops /\ job' \in [Handlers -> JobStates]
       /\ ~This.separate => /\ \A h \in Handlers : job'[h] = NoJob
                            /\ \A u \in Trades : trade'[u].row # "placing"
  BY <1>1, <1>9 DEF StopsShape
<1>11. StopsShape'
  BY <1>1, <1>9, <1>10, FlatShape
<1> QED
  BY <1>9, <1>11 DEF StopsInv, Undisturbed

(* With fewer stops, none of them of a trade that is live, what fitted     *)
(* still fits.                                                             *)
LEMMA FewerFit ==
  ASSUME StopsShape, StopsFit, This.separate, stops' \subseteq stops, job' = job, broker' = broker,
         \A u \in Trades : /\ trade'[u].row = trade[u].row /\ trade'[u].direction = trade[u].direction
                           /\ LiveTrade(u)' => LiveTrade(u) /\ Own(u)' = Own(u)
  PROVE  StopsFit'
<1>1. \A u : Own(u)' \subseteq Own(u)
  BY DEF Own
<1>2. \A u : Swept(u) => Swept(u)'
  BY <1>1 DEF Swept
<1>3. OneStopEach'
  BY DEF StopsFit, OneStopEach
<1>4. \A h \in Handlers : job[h].pc \in {"cancel", "place", "sweep", "delete"} => job[h].t \in Trades
  BY Jobs
<1>5. "monitor" \in Handlers
  BY DEF Handlers
<1>6. JobsFit'
  BY <1>1, <1>4, <1>5 DEF StopsFit, JobsFit
<1>7. TradesFit'
  BY <1>1, <1>2 DEF StopsFit, TradesFit, This
<1>8. SidesFit'
  BY SidesKept
<1> QED
  BY <1>3, <1>6, <1>7, <1>8 DEF StopsFit

LEMMA FireStep == ASSUME StopsInv, StopFires PROVE StopsInv'
<1>1. StopsShape /\ held # 0 /\ Flat /\ UNCHANGED <<broker, made, job>>
  BY DEF StopsInv, StopFires
<1>2. held \in Trades /\ trade \in [Trades -> TradeRows]
  BY <1>1, StopBounds DEF StopsShape, Trades
<1>3. ASSUME stops' \subseteq stops, trade' \in [Trades -> TradeRows],
             \A u \in Trades : /\ trade'[u].row = trade[u].row
                               /\ trade'[u].at = IF u = held THEN "gone" ELSE trade[u].at
      PROVE  StopsShape' /\ \A u \in Trades : ~LiveTrade(u)'
  <2>1. /\ job' \in [Handlers -> JobStates]
        /\ ~This.separate => /\ \A h \in Handlers : job'[h] = NoJob
                             /\ \A u \in Trades : trade'[u].row # "placing"
    BY <1>1, <1>3 DEF StopsShape
  <2> QED
    BY <1>1, <1>3, <2>1, FlatShape
<1>4. CASE carried /\ UNCHANGED stops /\ trade' = [trade EXCEPT ![held].at = "gone"]
  <2>1. /\ trade' \in [Trades -> TradeRows]
        /\ \A u \in Trades : /\ trade'[u].row = trade[u].row
                             /\ trade'[u].at = IF u = held THEN "gone" ELSE trade[u].at
    BY <1>2, <1>4 DEF TradeRows
  <2>2. StopsShape' /\ \A u \in Trades : ~LiveTrade(u)'
    BY <1>3, <1>4, <2>1
  <2>3. ~This.separate'
    BY <1>1, <1>4 DEF StopsShape, This
  <2> QED
    BY <2>2, <2>3, PlainFit DEF StopsInv
<1>5. ASSUME NEW s \in stops, stops' = stops \ {s}, s.by = held, trade' = [trade EXCEPT ![held].at = "gone"]
      PROVE  StopsInv'
  <2>1. /\ trade' \in [Trades -> TradeRows]
        /\ \A u \in Trades : /\ trade'[u].row = trade[u].row /\ trade'[u].left = trade[u].left
                             /\ trade'[u].direction = trade[u].direction
                             /\ trade'[u].at = IF u = held THEN "gone" ELSE trade[u].at
    BY <1>2, <1>5 DEF TradeRows
  <2>2. StopsShape' /\ \A u \in Trades : ~LiveTrade(u)'
    BY <1>3, <1>5, <2>1
  <2>3. This.separate
    BY <1>1, <1>5 DEF StopsShape
  <2>4. ASSUME Undisturbed' PROVE StopsFit
    BY <2>1, <2>4, FitsBefore
  <2> QED
    BY <1>1, <1>5, <2>1, <2>2, <2>3, <2>4, FewerFit DEF StopsInv
<1>6. ASSUME NEW s \in stops, stops' = stops \ {s}, trade' = [Blame(held, "misfire") EXCEPT ![held].at = "gone"]
      PROVE  StopsInv'
  <2>1. PICK blamed : blamed = Blame(held, "misfire")
    OBVIOUS
  <2>2. "misfire" \in Causes
    BY DEF Causes
  <2>3. /\ blamed \in [Trades -> TradeRows] /\ blamed[held].left # {}
        /\ \A u \in Trades : blamed[u].at = trade[u].at /\ blamed[u].row = trade[u].row
    BY <1>1, <1>2, <2>1, <2>2, BlameRows
  <2>4. /\ trade' \in [Trades -> TradeRows] /\ trade'[held].left # {}
        /\ \A u \in Trades : /\ trade'[u].row = trade[u].row
                             /\ trade'[u].at = IF u = held THEN "gone" ELSE trade[u].at
    BY <1>2, <1>6, <2>1, <2>3 DEF TradeRows
  <2>5. StopsShape'
    BY <1>3, <1>6, <2>4
  <2> QED
    BY <1>2, <2>4, <2>5 DEF StopsInv, Undisturbed
<1> QED
  BY <1>4, <1>5, <1>6 DEF StopFires

LEMMA MonitorStep == ASSUME StopsInv, NEW t \in Trades, MonitorCloses(t) PROVE StopsInv'
<1>1. /\ StopsShape /\ held # 0 /\ Flat /\ UNCHANGED <<broker, made, stops>>
      /\ trade[t].row = "active" /\ job["monitor"] = NoJob
  BY DEF StopsInv, MonitorCloses
<1>2. held \in Trades /\ trade \in [Trades -> TradeRows] /\ job \in [Handlers -> JobStates] /\ "monitor" \in Handlers
  BY <1>1, StopBounds DEF StopsShape, Trades, Handlers
<1>3. PICK gone : gone = [trade EXCEPT ![held].at = "gone", ![t].row = "closed"]
  OBVIOUS
<1>4. /\ gone \in [Trades -> TradeRows]
      /\ \A u \in Trades : /\ gone[u].at = IF u = held THEN "gone" ELSE trade[u].at
                           /\ gone[u].row = IF u = t THEN "closed" ELSE trade[u].row
                           /\ gone[u].left = trade[u].left /\ gone[u].direction = trade[u].direction
  BY <1>2, <1>3 DEF TradeRows
<1>5. trade' = IF job["edit"].t = t THEN [gone EXCEPT ![t].left = FirstOf(@, "crossed")] ELSE gone
  BY <1>3 DEF MonitorCloses
<1>6. PICK left : left = FirstOf(gone[t].left, "crossed")
  OBVIOUS
<1>7. left \in SUBSET Causes /\ left # {}
  BY <1>4, <1>6 DEF TradeRows, Causes, FirstOf
<1>8. job["edit"].t = t => trade' = [gone EXCEPT ![t].left = left]
  BY <1>4, <1>5, <1>6
<1>9. /\ trade' \in [Trades -> TradeRows]
      /\ \A u \in Trades : /\ trade'[u].at = IF u = held THEN "gone" ELSE trade[u].at
                           /\ trade'[u].row = IF u = t THEN "closed" ELSE trade[u].row
      /\ job["edit"].t = t => trade'[t].left # {}
  <2>1. CASE job["edit"].t = t
    BY <1>4, <1>7, <1>8, <2>1 DEF TradeRows
  <2>2. CASE job["edit"].t # t
    BY <1>4, <1>5, <2>2
  <2> QED
    BY <2>1, <2>2
<1>10. PICK sweep : sweep = [pc |-> "sweep", t |-> t, found |-> {}]
  OBVIOUS
<1>11. sweep \in JobStates
  BY <1>10 DEF JobStates
<1>12. job' = [job EXCEPT !["monitor"] = IF This.separate THEN sweep ELSE NoJob]
  BY <1>10 DEF MonitorCloses
<1>13. /\ job' \in [Handlers -> JobStates]
       /\ \A h \in Handlers : job'[h] = IF h = "monitor" /\ This.separate THEN sweep ELSE job[h]
  BY <1>1, <1>2, <1>11, <1>12
<1>14. ~This.separate => /\ \A h \in Handlers : job'[h] = NoJob
                         /\ \A u \in Trades : trade'[u].row # "placing"
  BY <1>1, <1>9, <1>13 DEF StopsShape
<1>15. StopsShape' /\ \A u \in Trades : ~LiveTrade(u)'
  BY <1>1, <1>9, <1>13, <1>14, FlatShape
<1>16. ASSUME Undisturbed' PROVE StopsFit'
  <2>1. job["edit"].t # t /\ trade' = gone
    BY <1>5, <1>9, <1>16 DEF Undisturbed
  <2>2. StopsFit
    BY <1>4, <1>16, <2>1, FitsBefore
  <2>3. CASE ~This.separate
    <3>1. ~This.separate'
      BY <1>1, <2>3 DEF This
    <3> QED
      BY <1>15, <3>1, PlainFit
  <2>4. CASE This.separate
    <3>1. job'["monitor"] = sweep /\ \A h \in Handlers : h # "monitor" => job'[h] = job[h]
      BY <1>2, <1>13, <2>4
    <3>2. sweep.pc = "sweep" /\ sweep.t = t /\ job["monitor"].pc = "idle"
      BY <1>1, <1>10 DEF NoJob
    <3>3. \A u : Own(u)' = Own(u)
      BY <1>1 DEF Own
    <3>4. Swept(t)' /\ \A u \in Trades : ~Swept(u)
      BY <3>1, <3>2 DEF Swept
    <3>5. OneStopEach'
      BY <1>1, <2>2 DEF StopsFit, OneStopEach
    <3>6. \A h \in Handlers : h # "monitor" => job[h].t # t
      BY <2>1 DEF Handlers
    <3>7. \A h \in Handlers : job[h].pc \in {"cancel", "place"} => job[h].t \in Trades
      BY <1>1, Jobs
    <3>8. JobsFit'
      BY <1>9, <2>2, <3>1, <3>2, <3>3, <3>6, <3>7 DEF StopsFit, JobsFit
    <3>9. TradesFit'
      BY <1>1, <1>9, <1>15, <2>2, <2>4, <3>3, <3>4 DEF StopsFit, TradesFit, This
    <3>10. SidesFit'
      BY <1>1, <1>4, <2>1, <2>2, SidesKept
    <3> QED
      BY <3>5, <3>8, <3>9, <3>10 DEF StopsFit
  <2> QED
    BY <1>1, <2>3, <2>4, ThisStyle
<1> QED
  BY <1>15, <1>16 DEF StopsInv

(* A step that blames a trade is disturbed: only its shape is at stake.    *)
LEMMA BlameStep ==
  ASSUME StopsShape, This.separate, NEW t \in Trades, NEW why \in Causes, trade' = Blame(t, why),
         UNCHANGED <<broker, held, carried>>, made' \in Nat, stops' \subseteq StopOrders,
         job' \in [Handlers -> JobStates]
  PROVE  StopsInv'
<1>1. PICK blamed : blamed = Blame(t, why)
  OBVIOUS
<1>2. /\ blamed \in [Trades -> TradeRows] /\ blamed[t].left # {}
      /\ \A u \in Trades : blamed[u].at = trade[u].at
  BY <1>1, BlameRows
<1>3. carried' \in BOOLEAN /\ (This.separate => ~carried')
  BY DEF StopsShape
<1>4. StopsShape'
  BY <1>1, <1>2, <1>3, ShapeKept
<1> QED
  BY <1>1, <1>2, <1>4 DEF StopsInv, Undisturbed

(* A step of one handler that leaves the rows.                             *)
LEMMA HandlerShape ==
  ASSUME StopsShape, This.separate, NEW h \in Handlers, NEW j \in JobStates, job' = [job EXCEPT ![h] = j],
         UNCHANGED <<broker, held, carried, trade>>, made' \in Nat, stops' \subseteq StopOrders
  PROVE  /\ StopsShape' /\ \A u \in Trades : LiveTrade(u)' = LiveTrade(u)
         /\ \A g \in Handlers : job'[g] = IF g = h THEN j ELSE job[g]
         /\ Undisturbed' => Undisturbed
<1>1. job' \in [Handlers -> JobStates] /\ \A g \in Handlers : job'[g] = IF g = h THEN j ELSE job[g]
  BY DEF StopsShape
<1>2. carried' \in BOOLEAN /\ (This.separate => ~carried') /\ trade' \in [Trades -> TradeRows]
  BY DEF StopsShape
<1> QED
  BY <1>1, <1>2, ShapeKept DEF Undisturbed

LEMMA VainStep == ASSUME StopsInv, StopFiresInVain PROVE StopsInv'
<1>1. /\ StopsShape /\ UNCHANGED <<broker, held, carried, made, job>>
  BY DEF StopsInv, StopFiresInVain
<1>2. PICK s \in stops :
        /\ stops' = stops \ {s}
        /\ trade' = IF trade[s.by].at \in {"resting", "open"} THEN Blame(s.by, "vain") ELSE trade
  BY DEF StopFiresInVain
<1>3. s.by \in Trades /\ This.separate /\ stops' \subseteq StopOrders /\ made' \in Nat /\ job' \in [Handlers -> JobStates]
  BY <1>1, <1>2 DEF StopsShape, StopOrders
<1>4. CASE trade[s.by].at \in {"resting", "open"}
  BY <1>1, <1>2, <1>3, <1>4, BlameStep DEF Causes
<1>5. CASE trade[s.by].at \notin {"resting", "open"}
  <2>1. trade' = trade /\ ~LiveTrade(s.by) /\ carried' \in BOOLEAN /\ trade' \in [Trades -> TradeRows]
        /\ (This.separate => ~carried')
    BY <1>1, <1>2, <1>5 DEF StopsShape, LiveTrade
  <2>2. StopsShape' /\ \A u \in Trades : LiveTrade(u)' = LiveTrade(u)
    BY <1>1, <1>3, <2>1, ShapeKept
  <2>3. \A u : u # s.by => Own(u)' = Own(u)
    BY <1>2 DEF Own
  <2>4. ASSUME Undisturbed' PROVE StopsFit'
    <3>1. StopsFit
      BY <2>1, <2>4 DEF StopsInv, Undisturbed
    <3> QED
      BY <1>1, <1>2, <1>3, <2>1, <2>2, <2>3, <3>1, FewerFit
  <2> QED
    BY <2>2, <2>4 DEF StopsInv
<1> QED
  BY <1>4, <1>5

LEMMA CleanUpStep == ASSUME StopsInv, CleanUp PROVE StopsInv'
<1> PICK m : m = job["monitor"]
  OBVIOUS
<1>1. /\ StopsShape /\ m.pc = "sweep" /\ "monitor" \in Handlers /\ UNCHANGED <<broker, held, carried, stops, made>>
  BY DEF StopsInv, CleanUp, Handlers
<1>2. m \in JobStates /\ m.t \in Trades /\ This.separate
  BY <1>1, Jobs
<1>3. made \in Nat /\ stops \subseteq StopOrders /\ job \in [Handlers -> JobStates] /\ NoJob \in JobStates
  BY <1>1 DEF StopsShape, JobStates
<1>4. CASE job' = [job EXCEPT !["monitor"] = NoJob] /\ trade' = Blame(m.t, "failed")
  <2>1. job' \in [Handlers -> JobStates]
    BY <1>3, <1>4
  <2> QED
    BY <1>1, <1>2, <1>3, <1>4, <2>1, BlameStep DEF Causes
<1>5. CASE job' = [job EXCEPT !["monitor"].pc = "delete", !["monitor"].found = stops] /\ UNCHANGED trade
  <2>1. PICK j : j = [m EXCEPT !.pc = "delete", !.found = stops]
    OBVIOUS
  <2>2. job' = [job EXCEPT !["monitor"] = j]
    BY <1>1, <1>3, <1>5, <2>1
  <2>3. j \in JobStates /\ j.pc = "delete" /\ j.t = m.t /\ j.found = stops
    BY <1>1, <1>2, <1>3, <2>1 DEF JobStates, NoJob
  <2>4. /\ StopsShape' /\ \A u \in Trades : LiveTrade(u)' = LiveTrade(u)
        /\ \A g \in Handlers : job'[g] = IF g = "monitor" THEN j ELSE job[g]
        /\ Undisturbed' => Undisturbed
    BY <1>1, <1>2, <1>3, <1>5, <2>2, <2>3, HandlerShape
  <2>5. ASSUME Undisturbed' PROVE StopsFit'
    <3>1. StopsFit
      BY <2>4, <2>5 DEF StopsInv
    <3>2. \A u : Own(u)' = Own(u) /\ Own(u) \subseteq stops
      BY <1>1 DEF Own
    <3>3. \A u \in Trades : Swept(u) => Swept(u)'
      BY <1>1, <2>3, <2>4, <3>2 DEF Swept
    <3>4. OneStopEach'
      BY <1>1, <3>1 DEF StopsFit, OneStopEach
    <3>5. trade' = trade /\ broker' = broker /\ carried' = carried
      BY <1>1, <1>5
    <3>6. JobsFit'
      BY <1>1, <2>3, <2>4, <3>1, <3>2, <3>5, JobsOnTrades DEF StopsFit, JobsFit
    <3>7. \A g \in Handlers : job[g].pc = "place" => job'[g] = job[g]
      BY <1>1, <2>4
    <3>8. TradesFit'
      BY <2>4, <3>1, <3>2, <3>3, <3>5, <3>7 DEF StopsFit, TradesFit, This
    <3>9. SidesFit'
      BY <1>1, <3>1, <3>5, SidesKept
    <3> QED
      BY <3>4, <3>6, <3>8, <3>9 DEF StopsFit
  <2> QED
    BY <2>4, <2>5 DEF StopsInv
<1> QED
  BY <1>4, <1>5 DEF CleanUp

LEMMA DeleteStep == ASSUME StopsInv, Delete PROVE StopsInv'
<1> PICK m : m = job["monitor"]
  OBVIOUS
<1>1. /\ StopsShape /\ m.pc = "delete" /\ "monitor" \in Handlers /\ UNCHANGED <<broker, held, carried, made>>
  BY DEF StopsInv, Delete, Handlers
<1>2. m \in JobStates /\ m.t \in Trades /\ This.separate /\ m.found \in SUBSET StopOrders
  BY <1>1, Jobs
<1>3. made \in Nat /\ stops \subseteq StopOrders /\ job \in [Handlers -> JobStates] /\ NoJob \in JobStates
  BY <1>1 DEF StopsShape, JobStates
<1>4. CASE m.found = {}
  <2>1. job' = [job EXCEPT !["monitor"] = NoJob] /\ UNCHANGED <<stops, trade>>
    BY <1>4 DEF Delete
  <2>2. /\ StopsShape' /\ \A u \in Trades : LiveTrade(u)' = LiveTrade(u)
        /\ \A g \in Handlers : job'[g] = IF g = "monitor" THEN NoJob ELSE job[g]
        /\ Undisturbed' => Undisturbed
    BY <1>1, <1>2, <1>3, <2>1, HandlerShape
  <2>3. ASSUME Undisturbed' PROVE StopsFit'
    <3>1. StopsFit
      BY <2>2, <2>3 DEF StopsInv
    <3>2. \A u : Own(u)' = Own(u)
      BY <2>1 DEF Own
    <3>3. \A u \in Trades : Swept(u) => Own(u) = {}
      BY <1>1, <1>4 DEF Swept
    <3>4. OneStopEach' /\ NoJob.pc = "idle"
      BY <2>1, <3>1 DEF StopsFit, OneStopEach, NoJob
    <3>5. JobsFit'
      BY <1>1, <2>1, <2>2, <3>1, <3>2, <3>4, JobsOnTrades DEF StopsFit, JobsFit
    <3>6. TradesFit'
      BY <1>1, <2>1, <2>2, <3>1, <3>2, <3>3, <3>4 DEF StopsFit, TradesFit, This
    <3>7. SidesFit'
      BY <1>1, <2>1, <3>1, SidesKept
    <3> QED
      BY <3>4, <3>5, <3>6, <3>7 DEF StopsFit
  <2> QED
    BY <2>2, <2>3 DEF StopsInv
<1>5. ASSUME NEW s \in m.found, job' = [job EXCEPT !["monitor"].found = @ \ {s}],
             \/ stops' = stops \ {s} /\ trade' = IF s.by = m.t THEN trade ELSE Blame(s.by, "swept")
             \/ s \in stops /\ trade' = Blame(s.by, "failed") /\ UNCHANGED stops
      PROVE  StopsInv'
  <2>1. PICK found : found = m.found \ {s}
    OBVIOUS
  <2>2. PICK j : j = [m EXCEPT !.found = found]
    OBVIOUS
  <2>3. job' = [job EXCEPT !["monitor"] = j]
    BY <1>1, <1>3, <1>5, <2>1, <2>2
  <2>4. j \in JobStates /\ j.pc = "delete" /\ j.t = m.t /\ j.found = found
    BY <1>1, <1>2, <2>1, <2>2 DEF JobStates, NoJob
  <2>5. s \in StopOrders /\ s.by \in Trades /\ job' \in [Handlers -> JobStates] /\ stops' \subseteq StopOrders
    BY <1>2, <1>3, <1>5, <2>3, <2>4 DEF StopOrders
  <2>6. CASE trade' = Blame(s.by, "swept") \/ trade' = Blame(s.by, "failed")
    BY <1>1, <1>2, <1>3, <2>5, <2>6, BlameStep DEF Causes
  <2>7. CASE stops' = stops \ {s} /\ trade' = trade /\ s.by = m.t
    <3>1. /\ StopsShape' /\ \A u \in Trades : LiveTrade(u)' = LiveTrade(u)
          /\ \A g \in Handlers : job'[g] = IF g = "monitor" THEN j ELSE job[g]
          /\ Undisturbed' => Undisturbed
      BY <1>1, <1>2, <1>3, <2>3, <2>4, <2>5, <2>7, HandlerShape
    <3>2. ASSUME Undisturbed' PROVE StopsFit'
      <4>1. StopsFit
        BY <3>1, <3>2 DEF StopsInv
      <4>2. trade[m.t].row = "closed"
        BY <1>1, <4>1 DEF StopsFit, JobsFit
      <4>3. \A u : Own(u)' \subseteq Own(u) /\ (u # m.t => Own(u)' = Own(u))
        BY <2>7 DEF Own
      <4>4. \A u \in Trades : Swept(u) => Swept(u)'
        <5>1. s \notin Own(m.t)'
          BY <2>7 DEF Own
        <5> QED
          BY <1>1, <2>1, <2>4, <3>1, <4>3, <5>1 DEF Swept
      <4>5. OneStopEach'
        BY <2>7, <4>1 DEF StopsFit, OneStopEach
      <4>6. JobsFit'
        BY <1>1, <2>4, <2>7, <3>1, <4>1, <4>3, JobsOnTrades DEF StopsFit, JobsFit
      <4>7. TradesFit'
        BY <1>1, <2>4, <2>7, <3>1, <4>1, <4>2, <4>3, <4>4 DEF StopsFit, TradesFit, This
      <4>8. SidesFit'
        BY <1>1, <2>7, <4>1, SidesKept
      <4> QED
        BY <4>5, <4>6, <4>7, <4>8 DEF StopsFit
    <3> QED
      BY <3>1, <3>2 DEF StopsInv
  <2> QED
    BY <1>5, <2>6, <2>7
<1> QED
  BY <1>4, <1>5 DEF Delete

LEMMA MoveStopStep == ASSUME StopsInv, NEW h \in Handlers, NEW t \in Trades, Move(h, t) PROVE StopsInv'
<1>1. /\ StopsShape /\ trade[t].row = "active" /\ job[h] = NoJob /\ UNCHANGED <<broker, held, stops, made>>
  BY DEF StopsInv, Move
<1>2. /\ made \in Nat /\ stops \subseteq StopOrders /\ job \in [Handlers -> JobStates] /\ trade \in [Trades -> TradeRows]
      /\ carried \in BOOLEAN
  BY <1>1 DEF StopsShape
<1>3. CASE This.move = "modify" /\ held # 0 /\ carried' = TRUE /\ UNCHANGED <<job, trade>>
  <2>1. ~This.separate
    BY <1>1, <1>3, ThisStyle
  <2>2. carried' \in BOOLEAN
    BY <1>3
  <2>3. StopsShape'
    BY <1>1, <1>2, <1>3, <2>1, <2>2, ShapeKept DEF StopsShape
  <2>4. ~This.separate'
    BY <1>1, <2>1 DEF This
  <2> QED
    BY <1>3, <2>3, <2>4, PlainFit DEF StopsInv
<1>4. ASSUME NEW found, found \in {{s} : s \in stops} \cup (IF stops = {} THEN {{}} ELSE {}),
             This.move = "replace", UNCHANGED carried,
             job' = [job EXCEPT ![h] = [pc |-> IF found = {} THEN "place" ELSE "cancel", t |-> t, found |-> found]],
             trade' = IF (\E g \in Handlers : job[g].pc = "place") \/ (\E s \in found : s.by # t)
                      THEN Blame(t, "crossed") ELSE trade
      PROVE  StopsInv'
  <2>1. This.separate
    BY <1>1, <1>4, ThisStyle
  <2>2. PICK j : j = [pc |-> IF found = {} THEN "place" ELSE "cancel", t |-> t, found |-> found]
    OBVIOUS
  <2>3. found \in SUBSET StopOrders /\ (found = {} => stops = {}) /\ (found # {} => \E s \in stops : found = {s})
    BY <1>2, <1>4
  <2>4. j \in JobStates /\ j.t = t /\ j.found = found /\ j.pc = IF found = {} THEN "place" ELSE "cancel"
    BY <2>2, <2>3 DEF JobStates
  <2>5. job' = [job EXCEPT ![h] = j] /\ job' \in [Handlers -> JobStates] /\ stops' \subseteq StopOrders
    BY <1>1, <1>2, <1>4, <2>2, <2>4
  <2>6. CASE trade' = Blame(t, "crossed")
    BY <1>1, <1>2, <1>4, <2>1, <2>5, <2>6, BlameStep DEF Causes
  <2>7. CASE trade' = trade /\ (\A g \in Handlers : job[g].pc # "place") /\ (\A s \in found : s.by = t)
    <3>1. /\ StopsShape' /\ \A u \in Trades : LiveTrade(u)' = LiveTrade(u)
          /\ \A g \in Handlers : job'[g] = IF g = h THEN j ELSE job[g]
          /\ Undisturbed' => Undisturbed
      BY <1>1, <1>2, <1>4, <2>1, <2>4, <2>5, <2>7, HandlerShape
    <3>2. ASSUME Undisturbed' PROVE StopsFit'
      <4>1. StopsFit
        BY <3>1, <3>2 DEF StopsInv
      <4>2. \A u : Own(u)' = Own(u)
        BY <1>1 DEF Own
      <4>3. NoJob.pc = "idle" /\ "monitor" \in Handlers
        BY DEF NoJob, Handlers
      <4>4. \A u \in Trades : Swept(u) => Swept(u)'
        BY <1>1, <3>1, <4>2, <4>3 DEF Swept
      <4>5. OneStopEach'
        BY <1>1, <4>1 DEF StopsFit, OneStopEach
      <4>6. j.pc = "cancel" => \E s \in StopOrders : j.found = {s} /\ s.by = j.t
        BY <1>2, <2>3, <2>4, <2>7
      <4>7. j.pc = "place" => Own(t) = {}
        BY <2>3, <2>4 DEF Own
      <4>8. j.pc \in {"cancel", "place"}
        BY <2>4
      <4>9. JobsFit'
        <5>1. \A g \in Handlers : job[g].pc \in {"cancel", "place", "sweep", "delete"} => job[g].t \in Trades
          BY <1>1, JobsOnTrades
        <5>2. job'[h] = j /\ trade' = trade /\ \A g \in Handlers : g # h => job'[g] = job[g]
          BY <2>7, <3>1
        <5>3. trade'[j.t].row = "active" /\ Own(j.t)' = Own(t)
          BY <1>1, <2>4, <4>2, <5>2
        <5>4. \A g \in Handlers : job'[g].pc \in {"cancel", "place"} => trade'[job'[g].t].row = "active"
          BY <4>1, <5>2, <5>3 DEF StopsFit, JobsFit
        <5>5. \A g \in Handlers : job'[g].pc = "cancel" => \E s \in StopOrders : job'[g].found = {s} /\ s.by = job'[g].t
          BY <4>1, <4>6, <5>2 DEF StopsFit, JobsFit
        <5>6. \A g \in Handlers : job'[g].pc = "place" => g = h
          BY <2>7, <5>2
        <5>7. job'[h].pc = "place" => Own(job[h].t)' = {}
          BY <4>7, <5>2, <5>3
        <5>8. job'["monitor"].pc \in {"sweep", "delete"} => trade'[job'["monitor"].t].row = "closed"
          <6>1. CASE h = "monitor"
            BY <4>8, <5>2, <6>1
          <6>2. CASE h # "monitor"
            BY <4>1, <4>3, <5>2, <6>2 DEF StopsFit, JobsFit
          <6> QED
            BY <6>1, <6>2
        <5>9. ASSUME NEW g \in Handlers, job'[g].pc = "place"
              PROVE  Own(job[g].t)' = {} /\ \A i \in Handlers : job'[i].pc = "place" /\ job'[i].t = job'[g].t => i = g
          BY <5>6, <5>7, <5>9
        <5> QED
          BY <5>4, <5>5, <5>8, <5>9 DEF JobsFit
      <4>10. TradesFit'
        <5>1. \A g \in Handlers : job[g].pc # "place"
          BY <2>7
        <5>2. trade' = trade /\ carried' = carried /\ broker' = broker
          BY <1>1, <1>4, <2>7
        <5>3. ASSUME NEW u \in Trades
              PROVE  /\ ~This.separate /\ LiveTrade(u) => carried
                     /\ trade[u].row \in {"none", "placing"} => Own(u) = {}
                     /\ trade[u].row = "closed" => Own(u) = {} \/ Swept(u)
                     /\ This.separate /\ trade[u].row = "active" /\ LiveTrade(u) => Own(u) # {}
          BY <4>1, <5>1 DEF StopsFit, TradesFit
        <5> QED
          BY <3>1, <3>2, <4>2, <4>4, <5>2, <5>3 DEF TradesFit, This
      <4>11. SidesFit'
        BY <1>1, <2>7, <4>1, SidesKept
      <4> QED
        BY <4>5, <4>9, <4>10, <4>11 DEF StopsFit
    <3> QED
      BY <3>1, <3>2 DEF StopsInv
  <2> QED
    BY <1>4, <2>6, <2>7
<1> QED
  BY <1>3, <1>4 DEF Move

LEMMA CancelFoundStep == ASSUME StopsInv, NEW h \in Handlers, CancelFound(h) PROVE StopsInv'
<1>1. StopsShape /\ job[h].pc = "cancel" /\ UNCHANGED <<broker, held, carried, made>>
  BY DEF StopsInv, CancelFound
<1>2. job[h] \in JobStates /\ job[h].t \in Trades /\ This.separate /\ job[h].found \in SUBSET StopOrders
  BY <1>1, Jobs
<1>3. made \in Nat /\ stops \subseteq StopOrders /\ job \in [Handlers -> JobStates] /\ NoJob \in JobStates
      /\ NoJob.pc = "idle" /\ "monitor" \in Handlers
  BY <1>1 DEF StopsShape, JobStates, NoJob, Handlers
<1>4. CASE stops' = stops /\ trade' = trade /\ job' = [job EXCEPT ![h] = NoJob]
  <2>1. /\ StopsShape' /\ \A u \in Trades : LiveTrade(u)' = LiveTrade(u)
        /\ \A g \in Handlers : job'[g] = IF g = h THEN NoJob ELSE job[g]
        /\ Undisturbed' => Undisturbed
    BY <1>1, <1>2, <1>3, <1>4, HandlerShape
  <2>2. ASSUME Undisturbed' PROVE StopsFit'
    <3>1. StopsFit
      BY <2>1, <2>2 DEF StopsInv
    <3>2. \A u : Own(u)' = Own(u)
      BY <1>4 DEF Own
    <3>3. \A u \in Trades : Swept(u) => Swept(u)'
      BY <1>1, <1>3, <2>1, <3>2 DEF Swept
    <3>4. OneStopEach'
      BY <1>4, <3>1 DEF StopsFit, OneStopEach
    <3>5. JobsFit'
      BY <1>1, <1>3, <1>4, <2>1, <3>1, <3>2, JobsOnTrades DEF StopsFit, JobsFit
    <3>6. TradesFit'
      BY <1>1, <1>3, <1>4, <2>1, <3>1, <3>2, <3>3 DEF StopsFit, TradesFit, This
    <3>7. SidesFit'
      BY <1>1, <1>4, <3>1, SidesKept
    <3> QED
      BY <3>4, <3>5, <3>6, <3>7 DEF StopsFit
  <2> QED
    BY <2>1, <2>2 DEF StopsInv
<1>5. CASE /\ job[h].found \subseteq stops /\ stops' = stops \ job[h].found /\ trade' = trade
           /\ job' = [job EXCEPT ![h].pc = "place"]
  <2>1. PICK j : j = [job[h] EXCEPT !.pc = "place"]
    OBVIOUS
  <2>2. job' = [job EXCEPT ![h] = j]
    BY <1>3, <1>5, <2>1
  <2>3. j \in JobStates /\ j.pc = "place" /\ j.t = job[h].t
    BY <1>1, <1>2, <2>1 DEF JobStates, NoJob
  <2>4. stops' \subseteq StopOrders
    BY <1>3, <1>5
  <2>5. /\ StopsShape' /\ \A u \in Trades : LiveTrade(u)' = LiveTrade(u)
        /\ \A g \in Handlers : job'[g] = IF g = h THEN j ELSE job[g]
        /\ Undisturbed' => Undisturbed
    BY <1>1, <1>2, <1>3, <1>5, <2>2, <2>3, <2>4, HandlerShape
  <2>6. ASSUME Undisturbed' PROVE StopsFit'
    <3>1. StopsFit
      BY <2>5, <2>6 DEF StopsInv
    <3>2. PICK s \in StopOrders : job[h].found = {s} /\ s.by = job[h].t
      BY <1>1, <3>1 DEF StopsFit, JobsFit
    <3>3. s \in stops /\ stops' = stops \ {s}
      BY <1>5, <3>2
    <3>4. Own(j.t)' = {} /\ Own(j.t) # {} /\ \A u : u # j.t => Own(u)' = Own(u)
      BY <2>3, <3>1, <3>2, <3>3 DEF Own, StopsFit, OneStopEach
    <3>5. \A u : Own(u)' \subseteq Own(u)
      BY <3>3 DEF Own
    <3>6. \A u \in Trades : Swept(u) => Swept(u)'
      BY <1>1, <1>3, <2>5, <3>5 DEF Swept
    <3>7. OneStopEach'
      BY <3>1, <3>3 DEF StopsFit, OneStopEach
    <3>8. \A g \in Handlers : job[g].pc = "place" => job[g].t # j.t
      BY <3>1, <3>4 DEF StopsFit, JobsFit
    <3>9. trade' = trade
      BY <1>5
    <3>10. JobsFit'
      BY <1>1, <1>3, <2>3, <2>5, <3>1, <3>4, <3>5, <3>8, <3>9, JobsOnTrades DEF StopsFit, JobsFit
    <3>11. TradesFit'
      BY <1>1, <1>3, <2>3, <2>5, <3>1, <3>4, <3>5, <3>6, <3>9 DEF StopsFit, TradesFit, This
    <3>12. SidesFit'
      BY <1>1, <1>5, <3>1, SidesKept
    <3> QED
      BY <3>7, <3>10, <3>11, <3>12 DEF StopsFit
  <2> QED
    BY <2>5, <2>6 DEF StopsInv
<1>6. CASE stops' = stops \ job[h].found /\ trade' = Blame(job[h].t, "failed") /\ job' = [job EXCEPT ![h] = NoJob]
  <2>1. job' \in [Handlers -> JobStates] /\ stops' \subseteq StopOrders /\ made' \in Nat
    BY <1>1, <1>3, <1>6
  <2> QED
    BY <1>1, <1>2, <1>6, <2>1, BlameStep DEF Causes
<1> QED
  <2>1. PICK executed \in BOOLEAN, reported \in BOOLEAN :
          /\ reported => executed
          /\ executed => job[h].found \subseteq stops
          /\ stops' = IF executed THEN stops \ job[h].found ELSE stops
          /\ trade' = IF executed /\ ~reported THEN Blame(job[h].t, "failed") ELSE trade
          /\ job' = [job EXCEPT ![h] = IF reported THEN [@ EXCEPT !.pc = "place"] ELSE NoJob]
    BY DEF CancelFound, GoesOn
  <2>2. CASE reported
    BY <1>5, <2>1, <2>2
  <2>3. CASE executed /\ ~reported
    BY <1>6, <2>1, <2>3
  <2>4. CASE ~executed
    BY <1>4, <2>1, <2>4
  <2> QED
    BY <2>2, <2>3, <2>4

LEMMA PlaceNewStep == ASSUME StopsInv, NEW h \in Handlers, PlaceNew(h) PROVE StopsInv'
<1> PICK t : t = job[h].t
  OBVIOUS
<1>1. StopsShape /\ job[h].pc = "place" /\ UNCHANGED <<broker, held, carried>> /\ job' = [job EXCEPT ![h] = NoJob]
  BY DEF StopsInv, PlaceNew
<1>2. t \in Trades /\ This.separate
  BY <1>1, Jobs
<1>3. made \in Nat /\ stops \subseteq StopOrders /\ job \in [Handlers -> JobStates] /\ NoJob \in JobStates
      /\ NoJob.pc = "idle" /\ "monitor" \in Handlers
  BY <1>1 DEF StopsShape, JobStates, NoJob, Handlers
<1> PICK side : side = CloseSide(trade[t].direction)
  OBVIOUS
<1>4. PICK n \in 0..2 :
        /\ Rest(t, side, n)
        /\ trade' = IF n # 1 THEN Blame(t, "failed")
                    ELSE IF side # Against(t) THEN Blame(t, "wrongSide") ELSE trade
  BY DEF PlaceNew
<1>5. side \in Sides
  BY CloseSides
<1>6. /\ made' \in Nat /\ stops' \subseteq StopOrders
      /\ n = 1 => \E s \in StopOrders : s.by = t /\ s.side = side /\ stops' = stops \cup {s}
  BY <1>1, <1>2, <1>4, <1>5, RestShape
<1>7. CASE n # 1 \/ side # Against(t)
  <2>1. job' \in [Handlers -> JobStates]
    BY <1>1, <1>3
  <2>2. trade' = Blame(t, "failed") \/ trade' = Blame(t, "wrongSide")
    BY <1>7, <1>4
  <2> QED
    BY <1>1, <1>2, <1>6, <2>1, <2>2, BlameStep DEF Causes
<1>8. CASE n = 1 /\ side = Against(t)
  <2>1. PICK s \in StopOrders : s.by = t /\ s.side = side /\ stops' = stops \cup {s}
    BY <1>8, <1>6
  <2>2. /\ stops' = stops \cup {s} /\ s.by = t /\ s.side = Against(t) /\ s \in StopOrders
        /\ trade' = trade /\ made' \in Nat /\ stops' \subseteq StopOrders
    BY <1>8, <1>4, <1>6, <2>1
  <2>3. /\ StopsShape' /\ \A u \in Trades : LiveTrade(u)' = LiveTrade(u)
        /\ \A g \in Handlers : job'[g] = IF g = h THEN NoJob ELSE job[g]
        /\ Undisturbed' => Undisturbed
    BY <1>1, <1>2, <1>3, <1>8, <2>2, HandlerShape
  <2>4. ASSUME Undisturbed' PROVE StopsFit'
    <3>1. StopsFit
      BY <2>3, <2>4 DEF StopsInv
    <3>2. trade[t].row = "active" /\ Own(t) = {} /\ \A g \in Handlers : job[g].pc = "place" /\ job[g].t = t => g = h
      BY <1>1, <3>1 DEF StopsFit, JobsFit
    <3>3. Own(t)' = {s} /\ \A u : u # t => Own(u)' = Own(u)
      BY <2>2, <3>2 DEF Own
    <3>4. \A u \in Trades : u # t /\ Swept(u) => Swept(u)'
      BY <1>1, <1>3, <2>3, <3>3 DEF Swept
    <3>5. OneStopEach'
      BY <2>2, <3>1, <3>2 DEF StopsFit, OneStopEach, Own
    <3>6. JobsFit'
      BY <1>1, <1>3, <2>2, <2>3, <3>1, <3>2, <3>3, JobsOnTrades DEF StopsFit, JobsFit
    <3>7. TradesFit'
      BY <1>1, <1>3, <2>2, <2>3, <3>1, <3>2, <3>3, <3>4 DEF StopsFit, TradesFit, This
    <3>8. SidesFit'
      BY <2>2, <3>1 DEF StopsFit, SidesFit, Against
    <3> QED
      BY <3>5, <3>6, <3>7, <3>8 DEF StopsFit
  <2> QED
    BY <2>3, <2>4 DEF StopsInv
<1> QED
  BY <1>7, <1>8

LEMMA StopsSteps == StopsInv /\ [StopsNext]_stopVars => StopsInv'
<1> SUFFICES ASSUME StopsInv, [StopsNext]_stopVars PROVE StopsInv'
  OBVIOUS
<1>1. CASE UNCHANGED stopVars
  BY <1>1 DEF stopVars, StopsInv, StopsShape, Undisturbed, StopsFit, OneStopEach, JobsFit, TradesFit, SidesFit, LiveTrade, Own, Swept,
              Against, This
<1> QED
  BY <1>1, AttachStep, FillStep, CancelStep, HandStep, MonitorStep, PlaceStep, MoveStopStep, FireStep, VainStep, CleanUpStep,
     DeleteStep, CancelFoundStep, PlaceNewStep DEF StopsNext

LEMMA FitEnough == StopsInv => StopsFitTrades
<1> SUFFICES ASSUME StopsInv, Undisturbed, NEW t \in Trades
             PROVE  /\ held = t /\ trade[t].row = "active" /\ ~Replacing(t) =>
                          carried \/ \E s \in Own(t) : s.side = Against(t)
                    /\ Cardinality(Own(t)) <= 1
                    /\ trade[t].row = "closed" /\ job["monitor"] = NoJob => Own(t) = {}
  BY DEF StopsFitTrades, Own
<1>1. StopsShape /\ StopsFit
  BY DEF StopsInv
<1>2. held = t => LiveTrade(t)
  BY <1>1 DEF StopsShape, LiveTrade
<1>3. held = t /\ trade[t].row = "active" /\ ~Replacing(t) =>
                          carried \/ \E s \in Own(t) : s.side = Against(t)
  BY <1>1, <1>2, ThisStyle DEF StopsFit, TradesFit, SidesFit, Replacing, Own
<1>4. Cardinality(Own(t)) <= 1
  <2>1. CASE Own(t) = {}
    <3>1. Cardinality(Own(t)) = 0
      BY <2>1, FS_EmptySet
    <3> QED
      BY <3>1
  <2>2. CASE Own(t) # {}
    <3>1. PICK s : s \in Own(t)
      BY <2>2
    <3>2. Own(t) = {s}
      BY <1>1, <3>1 DEF StopsFit, OneStopEach, Own
    <3>3. Cardinality({s}) = 1
      BY FS_Singleton
    <3> QED
      BY <3>2, <3>3
  <2> QED
    BY <2>1, <2>2
<1>5. trade[t].row = "closed" /\ job["monitor"] = NoJob => Own(t) = {}
  BY <1>1 DEF StopsFit, TradesFit, Swept, NoJob
<1> QED
  BY <1>3, <1>4, <1>5

(* Undisturbed, an open position has a stop that closes it, a trade has    *)
(* one stop at most, and one the monitor closed leaves none behind,        *)
(* whatever the broker.  What disturbs is named: among it that a cancel    *)
(* which was executed is reported as failed, and a moved long's stop.      *)
THEOREM StopsFitWell == StopsSpec => []StopsFitTrades
BY StopsStart, StopsSteps, FitEnough, PTL DEF StopsSpec
=============================================================================

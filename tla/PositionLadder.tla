--------------------------- MODULE PositionLadder ---------------------------
(***************************************************************************)
(* The prices of an open trade: its stop, its take-profit ladder and its   *)
(* trailing stop.  Three handlers write them: the position monitor         *)
(* (_check_trade and what it calls), which ratchets and trails; the        *)
(* trader's modify_targets endpoint; and the update_sl / update_tp alert   *)
(* of the webhook processor.  A fourth, the pending order monitor, only    *)
(* turns the order into a position.                                        *)
(*                                                                         *)
(* As in PositionExits every handler works on a copy of the row and writes *)
(* back the columns it changed.  The stop resting at the exchange is the   *)
(* second record that has to follow the row; it is pushed before the       *)
(* commit by the monitor and by the alert, after it by the endpoint.       *)
(* How many lots a level takes is the subject of PositionExits.            *)
(***************************************************************************)
EXTENDS Integers

CONSTANTS
  Prices,       \* the prices the market, a trader or an alert may name
  Setups,       \* orders as they are placed: direction, entry, stop, targets
  Unset,        \* NULL
  MaxEdits      \* bound on requests and alerts

Levels == 1..3

ASSUME PricesAssumption == Prices \subseteq Int
ASSUME UnsetAssumption  == Unset \notin Int
ASSUME EditsAssumption  == MaxEdits \in Nat

ASSUME SetupsAssumption ==
  \A s \in Setups :
    /\ s.direction \in {"LONG", "SHORT"}
    /\ s.entry \in Prices /\ s.stop \in Prices
    /\ s.tp \in [Levels -> Prices \cup {Unset}]

(* place_manual_order rejects a stop on the wrong side of the entry, and   *)
(* every signal is filtered the same way.                                  *)
Sided(s) == IF s.direction = "LONG" THEN s.stop < s.entry ELSE s.stop > s.entry

VARIABLES
  order,        \* what never changes: direction, activation, mode, account
  row,          \* the committed row of the trade
  resting,      \* the stop resting at the exchange (Unset: none)
  mon,          \* the position monitor: where it is, the row read, the row made
  ed,           \* the request or alert at work, likewise
  edits,        \* how many of them there have been
  touched,      \* history: columns written by a request or an alert
  crossed,      \* history: handlers ran at the same time, or one was cut off
  pushFailed    \* history: a push to the exchange did not succeed

vars == <<order, row, resting, mon, ed, edits, touched, crossed, pushFailed>>

-----------------------------------------------------------------------------
(* Comparing prices in the direction of the trade.  Every pair of          *)
(* branches on is_long in the source is one of these.                      *)

AsGood(p, q) == IF order.direction = "LONG" THEN p >= q ELSE p =< q
Best(p, q)   == IF AsGood(p, q) THEN p ELSE q

Larger(a, b)   == IF a >= b THEN a ELSE b
Distance(a, b) == IF a >= b THEN a - b ELSE b - a

(* Mutant: the width narrows at twice the rate and knows no floor.         *)
WidthUnfloored(entry, initial, peak) ==
  LET risk == Distance(entry, initial)
  IN  IF order.mode = "step_down"
      THEN 10 * risk - 6 * Larger(0, Distance(peak, entry) - risk)
      ELSE 10 * risk

(* compute_trailing_stop, in tenths of a price unit so that its rates 0.3  *)
(* and 0.4 are exact: one initial risk behind the peak; in step_down mode  *)
(* 0.3 risks less for every risk the peak is beyond the first, but never   *)
(* less than 0.4 risks.                                                    *)
Width(entry, initial, peak) ==
  LET risk == Distance(entry, initial)
  IN  IF order.mode = "step_down"
      THEN Larger(4 * risk, 10 * risk - 3 * Larger(0, Distance(peak, entry) - risk))
      ELSE 10 * risk

TrailingStop(entry, initial, peak) ==
  IF order.direction = "LONG" THEN 10 * peak - Width(entry, initial, peak)
                              ELSE 10 * peak + Width(entry, initial, peak)

(* No trail without a distance.                                            *)
TrailFromPeak(c, peak) ==
  IF c.entry = c.initial_stop THEN Unset
  ELSE TrailingStop(c.entry, c.initial_stop, peak)

-----------------------------------------------------------------------------
(* activation: the level that starts the trail; 0, no ladder (NULL); 3, a  *)
(* multiple that is no level, such as 1.5, so that there is a ratchet and  *)
(* never a trail.  exit_price is in tenths, like trail.                    *)

Orders == [direction : {"LONG", "SHORT"}, activation : 0..3,
           mode : {"fixed", "step_down"},
           account : {"paper", "unsynced", "native", "replace"}]

Row == [status : {"PENDING", "ACTIVE", "CLOSED"},
        entry : Int, stop : Int, initial_stop : Int,
        tp : [Levels -> Int \cup {Unset}], fired : SUBSET {1, 2},
        trailing : BOOLEAN, peak : Int \cup {Unset}, trail : Int \cup {Unset},
        exit_type : {"none", "STOP_LOSS", "TRAILING", "TP"},
        exit_price : Int \cup {Unset}]

Placed(s, status) ==
  [status |-> status, entry |-> s.entry, stop |-> s.stop, initial_stop |-> s.stop,
   tp |-> s.tp, fired |-> {}, trailing |-> FALSE, peak |-> Unset, trail |-> Unset,
   exit_type |-> "none", exit_price |-> Unset]

Live   == order.account # "paper"

(* SL_SYNC_CAPABLE_BROKERS; MetaApi, too, takes the stop of an edit, and   *)
(* its trades have no ladder.                                              *)
Synced == order.account \in {"native", "replace"}

NoCopy ==
  [status |-> "CLOSED", entry |-> 0, stop |-> 0, initial_stop |-> 0,
   tp |-> [l \in Levels |-> Unset], fired |-> {}, trailing |-> FALSE, peak |-> Unset,
   trail |-> Unset, exit_type |-> "none", exit_price |-> Unset]

Idle == [pc |-> "idle", old |-> NoCopy, new |-> NoCopy]

(* A paper market order is entered at the price of its fill, which may be  *)
(* beyond the stop or on it; every other order at the price it named.      *)
Init ==
  /\ \E s \in Setups, a \in 0..3, m \in {"fixed", "step_down"},
        b \in {"paper", "unsynced", "native", "replace"},
        status \in {"PENDING", "ACTIVE"} :
       /\ order = [direction |-> s.direction, activation |-> a, mode |-> m, account |-> b]
       /\ status = "PENDING" => b = "paper"
       /\ Sided(s) \/ (status = "ACTIVE" /\ b = "paper")
       /\ row = Placed(s, status)
       /\ resting = IF b = "paper" THEN Unset ELSE s.stop
  /\ mon = Idle
  /\ ed = Idle
  /\ edits = 0
  /\ touched = {}
  /\ crossed = FALSE
  /\ pushFailed = FALSE

(* COMMIT sends the columns whose value is no longer the loaded one.       *)
Column(old, new, now) == IF new # old THEN new ELSE now

Flush(r, old, new) ==
  [status       |-> Column(old.status, new.status, r.status),
   entry        |-> Column(old.entry, new.entry, r.entry),
   stop         |-> Column(old.stop, new.stop, r.stop),
   initial_stop |-> r.initial_stop,
   tp           |-> [l \in Levels |-> Column(old.tp[l], new.tp[l], r.tp[l])],
   fired        |-> Column(old.fired, new.fired, r.fired),
   trailing     |-> Column(old.trailing, new.trailing, r.trailing),
   peak         |-> Column(old.peak, new.peak, r.peak),
   trail        |-> Column(old.trail, new.trail, r.trail),
   exit_type    |-> Column(old.exit_type, new.exit_type, r.exit_type),
   exit_price   |-> Column(old.exit_price, new.exit_price, r.exit_price)]

(* Moving the stop at the exchange.  "native": one call sets it (Bybit).   *)
(* "replace": the resting order is cancelled and a new one placed          *)
(* (Binance), so a failure in between leaves none.  The side a new order   *)
(* is placed on is the subject of RestingStops, not of this module.        *)
Push(stop) ==
  \/ resting' = stop /\ UNCHANGED pushFailed
  \/ resting' = resting /\ pushFailed' = TRUE
  \/ order.account = "replace" /\ resting' = Unset /\ pushFailed' = TRUE

-----------------------------------------------------------------------------
(* The pending order monitor fills a resting paper order.  It writes the   *)
(* status and nothing else.                                                *)
Fill ==
  /\ row.status = "PENDING"
  /\ row' = [row EXCEPT !.status = "ACTIVE"]
  /\ crossed' = (crossed \/ ed.pc # "idle")
  /\ UNCHANGED <<order, resting, mon, ed, edits, touched, pushFailed>>

-----------------------------------------------------------------------------
(* The position monitor.  A live trade without a ladder is left alone.     *)
MonitorLoad ==
  /\ mon.pc = "idle"
  /\ row.status = "ACTIVE"
  /\ Live => order.activation # 0
  /\ mon' = [pc |-> "loaded", old |-> row, new |-> row]
  /\ crossed' = (crossed \/ ed.pc # "idle")
  /\ UNCHANGED <<order, row, resting, ed, edits, touched, pushFailed>>

StopHit(c, p) == AsGood(c.stop, p)

Closed(c, type, at) ==
  [c EXCEPT !.status = "CLOSED", !.exit_type = type, !.exit_price = at]

Configured(c) == {l \in Levels : c.tp[l] # Unset}
HitLevels(c, p) == {l \in Configured(c) \ c.fired : AsGood(p, c.tp[l])}
IsLastStrictly(c, l) == \A k \in Configured(c) : k < l    \* mutant
IsLast(c, l) == \A k \in Configured(c) : k =< l

(* Mutant: the ratchet to the first target without its max/min guard.      *)
RatchetedToTargetOnly(c, l) ==
  IF order.activation = 0 THEN c.stop
  ELSE IF l = 2 /\ c.tp[1] # Unset THEN c.tp[1]
  ELSE IF l = 1 THEN Best(c.stop, c.entry)
  ELSE c.stop

(* The ratchet: to breakeven at level 1, to the first target at level 2,   *)
(* never looser than it is.                                                *)
Ratcheted(c, l) ==
  IF order.activation = 0 THEN c.stop
  ELSE IF l = 1 THEN Best(c.stop, c.entry)
  ELSE IF c.tp[1] # Unset THEN Best(c.stop, c.tp[1])
  ELSE c.stop

(* _partial_close at level l: level and ratchet, and from the activation   *)
(* level on the rest of the position is trailed.                           *)
LevelTaken(c, l) ==
  LET t == [c EXCEPT !.fired = @ \cup {l}, !.stop = Ratcheted(c, l)]
  IN  IF l # order.activation THEN t
      ELSE [t EXCEPT !.trailing = TRUE, !.peak = c.tp[l],
                     !.trail = TrailFromPeak(c, c.tp[l])]

(* Mutant: the peak follows the price both ways.                           *)
TrailedByPrice(c, p) ==
  LET trail == TrailFromPeak(c, p)
      t     == [c EXCEPT !.peak = p, !.trail = trail]
  IN  IF trail = Unset THEN Closed(c, "TRAILING", 10 * p)
      ELSE IF AsGood(trail, 10 * p) THEN Closed(t, "TRAILING", trail)
      ELSE t

(* _check_trailing: the peak moves in the favourable direction only, and   *)
(* crossing the trail closes the position.                                 *)
Trailed(c, p) ==
  LET peak  == Best(c.peak, p)
      trail == TrailFromPeak(c, peak)
      t     == [c EXCEPT !.peak = peak, !.trail = trail]
  IN  IF trail = Unset THEN Closed(c, "TRAILING", 10 * p)
      ELSE IF AsGood(trail, 10 * p) THEN Closed(t, "TRAILING", trail)
      ELSE t

MonitorActs(new) ==
  /\ mon' = [mon EXCEPT !.pc = "acting", !.new = new]
  /\ UNCHANGED <<order, row, resting, ed, edits, touched, crossed, pushFailed>>

MonitorEnds == mon' = Idle

MonitorStop ==
  /\ mon.pc = "loaded"
  /\ \E p \in Prices : StopHit(mon.old, p)
  /\ MonitorActs(Closed(mon.old, "STOP_LOSS", 10 * mon.old.stop))

(* Mutant: the trail is looked at before the stop.                         *)
MonitorTrailFirst ==
  /\ mon.pc = "loaded"
  /\ mon.old.trailing
  /\ \E p \in Prices : MonitorActs(Trailed(mon.old, p))

MonitorTrail ==
  /\ mon.pc = "loaded"
  /\ mon.old.trailing
  /\ \E p \in Prices : ~StopHit(mon.old, p) /\ MonitorActs(Trailed(mon.old, p))

(* The first level that is hit and has not fired; the last one configured  *)
(* closes the position.                                                    *)
MonitorLevel ==
  /\ mon.pc = "loaded"
  /\ ~mon.old.trailing
  /\ \E p \in Prices, l \in Levels :
       /\ ~StopHit(mon.old, p)
       /\ l \in HitLevels(mon.old, p)
       /\ \A k \in HitLevels(mon.old, p) : l =< k
       /\ MonitorActs(IF IsLast(mon.old, l)
                      THEN Closed(mon.old, "TP", 10 * mon.old.tp[l])
                      ELSE LevelTaken(mon.old, l))

(* Nothing hit, no usable price; or, for a live trade, the broker refused  *)
(* to reduce the position and the session is rolled back.                  *)
MonitorGivesUp ==
  /\ \/ mon.pc = "loaded"
     \/ /\ mon.pc = "acting" /\ Live
        /\ mon.new.status = "CLOSED" \/ mon.new.fired # mon.old.fired
  /\ UNCHANGED <<order, row, resting, ed, edits, touched, crossed, pushFailed>>
  /\ MonitorEnds

PushDue ==
  /\ Synced /\ order.activation # 0
  /\ mon.new.status # "CLOSED"
  /\ mon.new.fired # mon.old.fired

(* Mutant: the stop is pushed as it was before the ratchet.                *)
MonitorPushOld ==
  /\ mon.pc = "acting" /\ PushDue
  /\ Push(mon.old.stop)
  /\ mon' = [mon EXCEPT !.pc = "pushed"]
  /\ UNCHANGED <<order, row, ed, edits, touched, crossed>>

(* After a level: the ratcheted stop, before the commit, best effort.      *)
MonitorPush ==
  /\ mon.pc = "acting" /\ PushDue
  /\ Push(mon.new.stop)
  /\ mon' = [mon EXCEPT !.pc = "pushed"]
  /\ UNCHANGED <<order, row, ed, edits, touched, crossed>>

MonitorCommit ==
  /\ mon.pc = "pushed" \/ (mon.pc = "acting" /\ ~PushDue)
  /\ row' = Flush(row, mon.old, mon.new)
  /\ UNCHANGED <<order, resting, ed, edits, touched, crossed, pushFailed>>
  /\ MonitorEnds

-----------------------------------------------------------------------------
(* A request (modify_targets) or an alert (update_sl, update_tp).          *)
EditLoad ==
  /\ ed.pc = "idle"
  /\ edits < MaxEdits
  /\ row.status \in {"PENDING", "ACTIVE"}
  /\ ed' = [pc |-> "loaded", old |-> row, new |-> row]
  /\ edits' = edits + 1
  /\ crossed' = (crossed \/ mon.pc # "idle")
  /\ UNCHANGED <<order, row, resting, mon, touched, pushFailed>>

EditEnds == ed' = Idle

(* One column to a price; the entry only while the copy says the order is  *)
(* still pending.                                                          *)
Edits(c) ==
  {[c EXCEPT !.stop = p] : p \in Prices}
    \cup {[c EXCEPT !.tp[l] = p] : l \in Levels, p \in Prices}
    \cup {[c EXCEPT !.entry = p] : p \in {q \in Prices : c.status = "PENDING"}}

(* modify_targets requires of the effective entry and stop that the stop   *)
(* is on its side; it refuses every edit, of a target too, when it is not. *)
StopOnItsSide(c) == ~AsGood(c.stop, c.entry)
Requested(c) == {n \in Edits(c) : StopOnItsSide(n)}

(* An alert moves the stop or the first target of an open trade, anywhere. *)
Alerted(c) ==
  {[c EXCEPT !.stop = p] : p \in Prices} \cup {[c EXCEPT !.tp[1] = p] : p \in Prices}

Touches(old, new) ==
  (IF old.stop # new.stop THEN {"stop"} ELSE {})
    \cup (IF old.entry # new.entry THEN {"entry"} ELSE {})

StopPushDue(e) == Synced /\ e.old.status = "ACTIVE" /\ e.new.stop # e.old.stop

(* modify_targets commits first and pushes a changed stop afterwards.      *)
RequestCommits ==
  /\ ed.pc = "loaded"
  /\ \E n \in Requested(ed.old) :
       /\ row' = Flush(row, ed.old, n)
       /\ touched' = touched \cup Touches(ed.old, n)
       /\ LET e == [pc |-> "committed", old |-> ed.old, new |-> n]
          IN  IF StopPushDue(e) THEN ed' = e ELSE EditEnds
  /\ UNCHANGED <<order, resting, mon, edits, crossed, pushFailed>>

RequestPushes ==
  /\ ed.pc = "committed"
  /\ Push(ed.new.stop)
  /\ EditEnds
  /\ UNCHANGED <<order, row, mon, edits, touched, crossed>>

(* An alert pushes first and commits afterwards.                           *)
AlertDecides ==
  /\ ed.pc = "loaded"
  /\ ed.old.status = "ACTIVE"
  /\ \E n \in Alerted(ed.old) : ed' = [ed EXCEPT !.pc = "decided", !.new = n]
  /\ UNCHANGED <<order, row, resting, mon, edits, touched, crossed, pushFailed>>

AlertPushes ==
  /\ ed.pc = "decided" /\ StopPushDue(ed)
  /\ Push(ed.new.stop)
  /\ ed' = [ed EXCEPT !.pc = "pushed"]
  /\ UNCHANGED <<order, row, mon, edits, touched, crossed>>

AlertCommits ==
  /\ ed.pc = "pushed" \/ (ed.pc = "decided" /\ ~StopPushDue(ed))
  /\ row' = Flush(row, ed.old, ed.new)
  /\ touched' = touched \cup Touches(ed.old, ed.new)
  /\ EditEnds
  /\ UNCHANGED <<order, resting, mon, edits, crossed, pushFailed>>

(* Refused (a stop on the wrong side, access expired), or nothing to do.   *)
EditRefused ==
  /\ ed.pc = "loaded"
  /\ UNCHANGED <<order, row, resting, mon, edits, touched, crossed, pushFailed>>
  /\ EditEnds

(* The process is redeployed: the running handlers are gone.               *)
Restart ==
  /\ mon.pc # "idle" \/ ed.pc # "idle"
  /\ mon' = Idle
  /\ ed' = Idle
  /\ crossed' = TRUE
  /\ UNCHANGED <<order, row, resting, edits, touched, pushFailed>>

-----------------------------------------------------------------------------
Next ==
  \/ Fill
  \/ MonitorLoad \/ MonitorStop \/ MonitorTrail \/ MonitorLevel
  \/ MonitorGivesUp \/ MonitorPush \/ MonitorCommit
  \/ EditLoad \/ RequestCommits \/ RequestPushes \/ EditRefused
  \/ AlertDecides \/ AlertPushes \/ AlertCommits
  \/ Restart

Spec == Init /\ [][Next]_vars

-----------------------------------------------------------------------------
Session(pcs) == [pc : pcs, old : Row, new : Row]

(* Every variable holds a value of its type.                               *)
TypeOK ==
  /\ order \in Orders
  /\ row \in Row
  /\ resting \in Int \cup {Unset}
  /\ mon \in Session({"idle", "loaded", "acting", "pushed"})
  /\ ed \in Session({"idle", "loaded", "committed", "decided", "pushed"})
  /\ edits \in 0..MaxEdits
  /\ touched \subseteq {"entry", "stop"}
  /\ crossed \in BOOLEAN
  /\ pushFailed \in BOOLEAN

Ladder == order.activation # 0

(* "Breakeven the moment the trade has proven itself at TP1": once level 1 *)
(* has fired on a trade with a ladder, the stop is at the entry or better, *)
(* and stays there whatever edits of targets cross the monitor's cycle -   *)
(* until a trader or an alert names a stop or an entry.                    *)
BreakevenHeld ==
  (Ladder /\ 1 \in row.fired /\ touched = {}) => AsGood(row.stop, row.entry)

(* Such a trade never gives the entry back: the price its stop or its      *)
(* trail is booked at is no worse than the entry, wherever the targets     *)
(* have been moved, the first one below the entry and its trail below the  *)
(* old stop included (the stop is looked at before the trail).             *)
WinnerKeepsBreakeven ==
  (/\ Ladder /\ 1 \in row.fired /\ touched = {}
   /\ row.exit_type \in {"STOP_LOSS", "TRAILING"})
     => AsGood(row.exit_price, 10 * row.entry)

(* "Advances the peak/trail level only in the favorable direction each     *)
(* cycle": a trail only tightens, in both modes and whatever is edited, as *)
(* long as the entry it is measured from is the one of the fill.           *)
TrailOnlyTightens ==
  [][(row.trailing /\ row'.trailing /\ row.trail # Unset /\ "entry" \notin touched')
       => AsGood(row'.trail, row.trail)]_vars

(* "floored so a very extended run always keeps a real, non-zero cushion": *)
(* a trail is between 0.4 and 1 initial risk behind the peak it was        *)
(* measured from, in both modes and however far the trade ran.  Without a  *)
(* distance between entry and initial stop there is no trail.              *)
CushionKept ==
  (row.trailing /\ row.trail # Unset /\ "entry" \notin touched) =>
    LET risk == Distance(row.entry, row.initial_stop)
        back == IF order.direction = "LONG" THEN 10 * row.peak - row.trail
                                            ELSE row.trail - 10 * row.peak
    IN  4 * risk =< back /\ back =< 10 * risk

(* When handlers did not cross and no push failed, the stop at the         *)
(* exchange is the stop of the row whenever no handler is running, for     *)
(* every order of ratchets, requests and alerts: the monitor and the alert *)
(* push before their commit and the endpoint after it.                     *)
RestingFollowsRow ==
  (/\ Synced /\ row.status = "ACTIVE" /\ ~crossed /\ ~pushFailed
   /\ mon.pc = "idle" /\ ed.pc = "idle")
     => resting = row.stop
=============================================================================

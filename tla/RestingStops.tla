------------------------------ MODULE RestingStops ------------------------------
(***************************************************************************)
(* The stops that rest at the exchange, on one symbol of one account.  Most *)
(* brokers keep a stop with the entry or the position; at Binance it is an *)
(* order of its own, with a side, which closes whatever is held against    *)
(* that side when it fires, is moved by cancelling and placing, and has to *)
(* be cleaned up.  A request may be lost on its way, be executed with its  *)
(* answer lost, or be executed twice: it is resent through a backup proxy. *)
(***************************************************************************)
EXTENDS Naturals, FiniteSets

CONSTANTS Brokers,       \* names in Style
          LastTrade,     \* bound: trades on the symbol, one position after the other
          MaxStops       \* bound: stops ever placed as orders of their own

VARIABLES broker, trade,
          held,      \* the trade whose position is open, or 0
          carried,   \* the entry or position has a stop of its own
          stops,     \* orders that rest: [by, n, side]
          made,
          job        \* the trader's edit and the monitor, at work on a trade

stopVars == <<broker, trade, held, carried, stops, made, job>>

Trades == 1..LastTrade
Handlers == {"edit", "monitor"}
NoJob == [pc |-> "idle", t |-> 0, found |-> {}]
Directions == {"long", "short"}
Unborn == [row |-> "none", at |-> "none", direction |-> "none", left |-> {}]

(* Per class: entries that carry their stop; how a stop is moved; whether  *)
(* an entry may rest; and what a close finds: a position its order's side  *)
(* closes, the trade's own side, or any position.                          *)
All == {"market", "limit", "stop"}
BingX       == [carries |-> All, separate |-> FALSE, move |-> "never", rests |-> TRUE, closes |-> "bySide"]
TradeLocker == [carries |-> All, separate |-> FALSE, move |-> "never", rests |-> TRUE, closes |-> "any"]
Binance     == [carries |-> {}, separate |-> TRUE, move |-> "replace", rests |-> TRUE, closes |-> "bySide"]
Bybit       == [carries |-> All, separate |-> FALSE, move |-> "modify", rests |-> TRUE, closes |-> "bySide"]
Mexc        == [carries |-> {"market", "limit"}, separate |-> FALSE, move |-> "never", rests |-> TRUE,
                closes |-> "bySide"]
MetaApi     == [carries |-> All, separate |-> FALSE, move |-> "modify", rests |-> TRUE, closes |-> "any"]
Oanda       == [carries |-> All, separate |-> FALSE, move |-> "never", rests |-> TRUE, closes |-> "own"]
Paper       == [carries |-> {}, separate |-> FALSE, move |-> "never", rests |-> FALSE, closes |-> "any"]
Style == [bingx |-> BingX, tradelocker |-> TradeLocker, binance |-> Binance, bybit |-> Bybit, mexc |-> Mexc,
          metatrader |-> MetaApi, oanda |-> Oanda, paper |-> Paper]
This == Style[broker]

ASSUME StopBounds == LastTrade \in Nat /\ MaxStops \in Nat /\ Brokers \subseteq DOMAIN Style

StopsInit ==
  /\ broker \in Brokers /\ trade = [t \in Trades |-> Unborn]
  /\ held = 0 /\ carried = FALSE /\ stops = {} /\ made = 0
  /\ job = [h \in Handlers |-> NoJob]

(* The first thing that happened to a trade is what is remembered of it.   *)
FirstOf(causes, why) == IF causes = {} THEN {why} ELSE causes
Blame(t, why) == [trade EXCEPT ![t].left = FirstOf(@, why)]

(* An entry is sent with a side; moving and closing are called with the    *)
(* trade's direction where the broker's class expects a side.              *)
EntrySide(direction) == IF direction = "long" THEN "BUY" ELSE "SELL"
CloseSide(side) == IF side = "BUY" THEN "SELL" ELSE "BUY"
Against(t) == CloseSide(EntrySide(trade[t].direction))

CloseFinds(t) ==
  CASE This.closes = "bySide" -> CloseSide(trade[t].direction) = Against(held)
    [] This.closes = "own"    -> trade[t].direction = trade[held].direction
    [] This.closes = "any"    -> TRUE

(* None, one or two orders come to rest of a stop that is sent: refused or *)
(* lost, placed, or placed again by the backup after the answer was lost.  *)
Rest(t, side, n) ==
  /\ made + n <= MaxStops /\ made' = made + n
  /\ stops' = stops \cup {[by |-> t, n |-> made + i, side |-> side] : i \in 1..n}

-----------------------------------------------------------------------------
(* Entries.  The stop of its own follows the entry, filled or not, and the *)
(* row goes live when the call returns.                                    *)
Place(t, entry, direction) ==
  /\ trade[t] = Unborn /\ held = 0 /\ \A u \in Trades : trade[u].at # "resting" /\ (u < t => trade[u] # Unborn)
  /\ LET now == entry = "market" \/ ~This.rests
     IN  /\ trade' = [trade EXCEPT ![t] = [row |-> IF This.separate THEN "placing" ELSE "active",
                                           at |-> IF now THEN "open" ELSE "resting",
                                           direction |-> direction,
                                           left |-> IF entry \in This.carries \/ This.separate THEN {} ELSE {"bare"}]]
         /\ held' = IF now THEN t ELSE 0
  /\ carried' = (entry \in This.carries)
  /\ UNCHANGED <<broker, stops, made, job>>

AttachStop(t) ==
  /\ trade[t].row = "placing"
  /\ \E n \in 0..2 :
       /\ Rest(t, Against(t), n)
       /\ trade' = [IF n = 1 THEN trade ELSE Blame(t, "attach") EXCEPT ![t].row = "active"]
  /\ UNCHANGED <<broker, held, carried, job>>

Fills(t) ==
  /\ trade[t].at = "resting" /\ trade' = [trade EXCEPT ![t].at = "open"] /\ held' = t
  /\ UNCHANGED <<broker, carried, stops, made, job>>

(* A cancelled entry takes the stop it carries with it, not one of its own.*)
CancelEntry(t) ==
  /\ trade[t].row = "active" /\ trade[t].at = "resting" /\ job["edit"] = NoJob
  /\ trade' = [Blame(t, "cancelled") EXCEPT ![t].at = "gone", ![t].row = "cancelled"]
  /\ carried' = FALSE
  /\ UNCHANGED <<broker, held, stops, made, job>>

-----------------------------------------------------------------------------
(* Exits.                                                                   *)
Flat == /\ held' = 0 /\ carried' = FALSE

Hits(s) == held # 0 /\ s.side = Against(held)

StopFires ==
  /\ held # 0 /\ Flat
  /\ \/ carried /\ UNCHANGED stops /\ trade' = [trade EXCEPT ![held].at = "gone"]
     \/ \E s \in stops : /\ Hits(s) /\ stops' = stops \ {s}
                        /\ trade' = [IF s.by = held THEN trade ELSE Blame(held, "misfire") EXCEPT ![held].at = "gone"]
  /\ UNCHANGED <<broker, made, job>>

(* One that fires with nothing to close is used up.                        *)
StopFiresInVain ==
  /\ \E s \in stops :
       /\ ~Hits(s)
       /\ stops' = stops \ {s}
       /\ trade' = IF trade[s.by].at \in {"resting", "open"} THEN Blame(s.by, "vain") ELSE trade
  /\ UNCHANGED <<broker, held, carried, made, job>>

(* Requests and alerts close the position and leave the orders.  A close   *)
(* that finds nothing is refused, and the row stays.                       *)
CloseByHand(t) ==
  /\ trade[t].row = "active" /\ held # 0 /\ CloseFinds(t) /\ job["edit"] = NoJob /\ Flat
  /\ trade' = [[Blame(t, "byHand") EXCEPT ![held].at = "gone"] EXCEPT ![t].row = "closed"]
  /\ UNCHANGED <<broker, stops, made, job>>

MonitorCloses(t) ==
  /\ trade[t].row = "active" /\ held # 0 /\ CloseFinds(t) /\ job["monitor"] = NoJob /\ Flat
  /\ trade' = LET gone == [trade EXCEPT ![held].at = "gone", ![t].row = "closed"]
              IN  IF job["edit"].t = t THEN [gone EXCEPT ![t].left = FirstOf(@, "crossed")] ELSE gone
  /\ job' = [job EXCEPT !["monitor"] = IF This.separate THEN [pc |-> "sweep", t |-> t, found |-> {}] ELSE NoJob]
  /\ UNCHANGED <<broker, stops, made>>

CleanUp ==
  /\ job["monitor"].pc = "sweep"
  /\ \/ job' = [job EXCEPT !["monitor"].pc = "delete", !["monitor"].found = stops] /\ UNCHANGED trade
     \/ job' = [job EXCEPT !["monitor"] = NoJob] /\ trade' = Blame(job["monitor"].t, "failed")
  /\ UNCHANGED <<broker, held, carried, stops, made>>
Delete ==
  LET m == job["monitor"] IN
  /\ m.pc = "delete" /\ UNCHANGED <<broker, held, carried, made>>
  /\ IF m.found = {} THEN job' = [job EXCEPT !["monitor"] = NoJob] /\ UNCHANGED <<stops, trade>>
     ELSE \E s \in m.found :
            /\ job' = [job EXCEPT !["monitor"].found = @ \ {s}]
            /\ \/ stops' = stops \ {s} /\ trade' = IF s.by = m.t THEN trade ELSE Blame(s.by, "swept")
               \/ s \in stops /\ trade' = Blame(s.by, "failed") /\ UNCHANGED stops

-----------------------------------------------------------------------------
(* Moving the stop: with the position, or list, cancel and place.  The     *)
(* monitor moves it after a partial close that the broker confirmed.       *)
Move(h, t) ==
  /\ trade[t].row = "active" /\ job[h] = NoJob /\ This.move # "never"
  /\ h = "monitor" => held # 0 /\ CloseFinds(t)
  /\ \/ /\ This.move = "modify" /\ held # 0 /\ carried' = TRUE
        /\ UNCHANGED <<job, trade>>
     \/ /\ This.move = "replace"
        /\ \E found \in {{s} : s \in stops} \cup (IF stops = {} THEN {{}} ELSE {}) :
             /\ job' = [job EXCEPT ![h] = [pc |-> IF found = {} THEN "place" ELSE "cancel", t |-> t, found |-> found]]
             /\ trade' = IF (\E g \in Handlers : job[g].pc = "place") \/ (\E s \in found : s.by # t)
                         THEN Blame(t, "crossed") ELSE trade
        /\ UNCHANGED carried
  /\ UNCHANGED <<broker, held, stops, made>>

GoesOnAnyway(reported) == TRUE          \* Mutant: the new stop is placed beside the old one
GoesOn(reported) == reported

(* A cancel that is executed may be reported as failed: its answer is      *)
(* lost, or the resent one finds no such order.                            *)
CancelFound(h) ==
  /\ job[h].pc = "cancel" /\ UNCHANGED <<broker, held, carried, made>>
  /\ \E executed, reported \in BOOLEAN :
       /\ reported => executed
       /\ executed => job[h].found \subseteq stops
       /\ stops' = IF executed THEN stops \ job[h].found ELSE stops
       /\ trade' = IF executed /\ ~reported THEN Blame(job[h].t, "failed") ELSE trade
       /\ job' = [job EXCEPT ![h] = IF GoesOn(reported) THEN [@ EXCEPT !.pc = "place"] ELSE NoJob]

(* The side of the new stop is worked out from the direction's word.       *)
PlaceNew(h) ==
  LET t == job[h].t
      side == CloseSide(trade[t].direction)
  IN  /\ job[h].pc = "place" /\ job' = [job EXCEPT ![h] = NoJob]
      /\ \E n \in 0..2 :
           /\ Rest(t, side, n)
           /\ trade' = IF n # 1 THEN Blame(t, "failed")
                       ELSE IF side # Against(t) THEN Blame(t, "wrongSide") ELSE trade
      /\ UNCHANGED <<broker, held, carried>>

StopsNext ==
  \/ \E t \in Trades : \/ AttachStop(t) \/ Fills(t) \/ CancelEntry(t) \/ CloseByHand(t) \/ MonitorCloses(t)
                       \/ \E entry \in All, direction \in Directions : Place(t, entry, direction)
                       \/ \E h \in Handlers : Move(h, t)
  \/ StopFires \/ StopFiresInVain \/ CleanUp \/ Delete
  \/ \E h \in Handlers : CancelFound(h) \/ PlaceNew(h)

StopsSpec == StopsInit /\ [][StopsNext]_stopVars

-----------------------------------------------------------------------------
(* What rests at the exchange fits the trades.  With none of the causes the *)
(* model names -- a request that failed or was executed twice, one that    *)
(* was executed and reported as failed, a long's stop that was moved and   *)
(* went out on its own side, two updates or an update and a close that     *)
(* cross, an exit that cleans nothing up, another trade's sweep or stop, a *)
(* stop that fired before its entry -- an open position has a stop that    *)
(* closes it, except while that is being replaced; a trade has one stop at *)
(* most; and one the monitor closed leaves none behind.                    *)
Undisturbed == \A t \in Trades : trade[t].left = {}
Replacing(t) == \E h \in Handlers : job[h].pc = "place"
StopsFitTrades ==
  Undisturbed => \A t \in Trades :
    LET own == {s \in stops : s.by = t} IN
      /\ held = t /\ trade[t].row = "active" /\ ~Replacing(t) => carried \/ \E s \in own : s.side = Against(t)
      /\ Cardinality(own) <= 1
      /\ trade[t].row = "closed" /\ job["monitor"] = NoJob => own = {}

(* "Move this position's real resting SL/TP orders": what rests for a      *)
(* trade, moved or not, closes it.                                         *)
RestsAgainstItsTrade == \A s \in stops : s.side = Against(s.by)

(* Stops "that can outlive a position that was closed by any other         *)
(* mechanism and later misfire" are cleaned up: none rests without one.    *)
NoneOutlives == \A s \in stops : trade[s.by].row \notin {"closed", "cancelled"} \/ job["monitor"] # NoJob
=============================================================================

------------------------------ MODULE LossGuard ------------------------------
(***************************************************************************)
(* The gates of process_signal that judge a signal by the trades that      *)
(* closed: the trailing loss guard of a bot and of a pair, and the guard   *)
(* of a repeated setup, with the order a trader places by hand behind the  *)
(* same guard.  Nothing is stored: every signal evaluates the closed       *)
(* trades anew, each gate in a query of its own.                           *)
(*                                                                         *)
(* A setup is the pair of entry and stop within their tolerances, of one   *)
(* direction; it is read back from the row of the trade, where the fill    *)
(* and the ratchet may have moved it (0: out of the tolerance).  Deleting  *)
(* a row, which hides it from every gate, the copies for subscribers and   *)
(* the gates of SignalGate are left out.                                   *)
(***************************************************************************)
EXTENDS Integers, Sequences, FiniteSets, FiniteSetsExt, Bags

CONSTANTS
  GuardedBots, HandTraders,  \* a trader counts as a bot of his own
  Symbols,
  Handlers,    \* sessions that process signals
  Serves,      \* whose signals each of them may get
  StreakCount, \* LOSS_GUARD_STREAK_COUNT
  LossWindow,  \* LOSS_GUARD_WINDOW_HOURS
  Multiple,    \* LOSS_GUARD_CUMULATIVE_MULTIPLE
  Staleness,   \* LOSS_GUARD_STREAK_STALENESS_HOURS
  Lookback,    \* _LOOKBACK_TRADES
  SameSetups,  \* how many closed trades the guard of a setup looks at
  WinCooldown, \* REPEAT_WIN_COOLDOWN
  Losings,     \* realized_pnl of a trade
  Risk,        \* risk_amount of the trades of each bot and trader
  LastHour,    \* bound: of the hour
  TradeLimit   \* bound: of the trades that are open or closed

(* A streak fits into what is looked at, and does not age before the       *)
(* window of the losses has passed.                                        *)
ASSUME GuardSettings ==
  /\ StreakCount \in Nat \ {0} /\ Lookback \in Nat /\ StreakCount <= Lookback
  /\ LossWindow \in Nat /\ Staleness \in Nat /\ LossWindow <= Staleness
  /\ SameSetups \in Nat \ {0}

ASSUME GuardedParties ==
  /\ IsFiniteSet(GuardedBots) /\ IsFiniteSet(Symbols) /\ IsFiniteSet(Handlers)
  /\ Handlers \cap HandTraders = {} /\ GuardedBots \cap HandTraders = {}
  /\ Serves \in [Handlers -> SUBSET GuardedBots]

VARIABLES hour,
          open,    \* the trades PENDING or ACTIVE, a bag
          closed,  \* the trades CLOSED, in order of exit_timestamp
          gate, signal \* where each session is, and with what

guardVars == <<hour, open, closed, gate, signal>>

Deciders == Handlers \cup HandTraders
Blank == [bot |-> "none", symbol |-> "none", setup |-> 0, by |-> "none"]

GuardInit ==
  /\ hour = 0 /\ open = EmptyBag /\ closed = <<>>
  /\ gate = [h \in Deciders |-> "ready"] /\ signal = [h \in Deciders |-> Blank]

-----------------------------------------------------------------------------
(* _evaluate, over closed trades, each known by its position in closed.    *)

NewestOf(T, n) == {i \in T : Cardinality({j \in T : j > i}) < n}
Lost(i) == closed[i].pnl < 0
Age(i) == hour - closed[i].at

(* A streak counts while its last loss is not older than Staleness.        *)
StreakNeverStale(T) ==  \* Mutant: the streak as it was before the deadlock
  Cardinality(T) >= StreakCount /\ \A i \in NewestOf(T, StreakCount) : Lost(i)
OnAStreak(T) ==
  /\ Age(Max(T)) <= Staleness
  /\ Cardinality(T) >= StreakCount /\ \A i \in NewestOf(T, StreakCount) : Lost(i)

(* The trades within the window lost Multiple times what those looked at   *)
(* risk on average.                                                        *)
Recent(T) == {i \in T : Age(i) <= LossWindow}
Bleeding(T) ==
  LET lost == -MapThenSumSet(LAMBDA i : closed[i].pnl, Recent(T))
      risked == MapThenSumSet(LAMBDA i : Risk[closed[i].bot], T)
  IN  Recent(T) # {} /\ risked > 0 /\ lost * Cardinality(T) >= Multiple * risked

Evaluate(T) ==
  LET rows == NewestOf(T, Lookback)
  IN  rows # {} /\ (OnAStreak(rows) \/ Bleeding(rows))

OfBot(b) == {i \in DOMAIN closed : closed[i].bot = b}
OnPair(s) == {i \in DOMAIN closed : closed[i].symbol = s}
CheckBot(b) == Evaluate(OfBot(b))
CheckPair(s) == Evaluate(OnPair(s))

(* The closed trades with the same setup among the last of the bot on the  *)
(* symbol: the newest one decides, by its loss or by its age.              *)
SameSetup(w) ==
  {i \in NewestOf(OfBot(w.bot) \cap OnPair(w.symbol), SameSetups) : closed[i].setup = w.setup}
Repeats(w) ==
  LET past == SameSetup(w) IN
  past # {} /\ (Lost(Max(past)) \/ Age(Max(past)) < WinCooldown)

-----------------------------------------------------------------------------
GoOn(h, label) == gate' = [gate EXCEPT ![h] = label] /\ UNCHANGED <<hour, open, closed, signal>>
Skip(h) ==
  /\ gate' = [gate EXCEPT ![h] = "ready"] /\ signal' = [signal EXCEPT ![h] = Blank]
  /\ UNCHANGED <<hour, open, closed>>

(* A scan finds a setup the bot has traded on the symbol, or has in hand,  *)
(* or another.                                                             *)
Seen(b, s) ==
  {t.setup : t \in {x \in DOMAIN open \cup {closed[i] : i \in DOMAIN closed} \cup {signal[h] : h \in Handlers} :
                      x.bot = b /\ x.symbol = s}} \ {0}
Another(b, s) ==
  CHOOSE k \in 1..(Cardinality(Seen(b, s)) + 1) : k \notin Seen(b, s)

Room == BagCardinality(open) + Len(closed) + Cardinality({h \in Deciders : gate[h] # "ready"}) < TradeLimit

Twin(b, s) == \E t \in DOMAIN open : t.bot = b /\ t.symbol = s

(* A signal of a bot passes deduplication.                                 *)
Arrive(h) ==
  /\ gate[h] = "ready" /\ Room
  /\ \E b \in Serves[h], s \in Symbols : \E k \in Seen(b, s) \cup {Another(b, s)} :
       /\ ~Twin(b, s)
       /\ signal' = [signal EXCEPT ![h] = [bot |-> b, symbol |-> s, setup |-> k, by |-> h]]
  /\ gate' = [gate EXCEPT ![h] = "bot"]
  /\ UNCHANGED <<hour, open, closed>>

GuardBot(h) ==
  /\ gate[h] = "bot"
  /\ IF CheckBot(signal[h].bot) THEN Skip(h) ELSE GoOn(h, "pair")

GuardPair(h) ==
  /\ gate[h] = "pair"
  /\ IF CheckPair(signal[h].symbol) THEN Skip(h)
     ELSE GoOn(h, IF h \in HandTraders THEN "insert" ELSE "setup")

GuardSetup(h) ==
  /\ gate[h] = "setup"
  /\ IF Repeats(signal[h]) THEN Skip(h) ELSE GoOn(h, "insert")

(* Another gate refuses, or the request dies.                              *)
Refuse(h) == gate[h] = "insert" /\ Skip(h)

Insert(h) ==
  /\ gate[h] = "insert"
  /\ open' = open (+) SetToBag({signal[h]})
  /\ gate' = [gate EXCEPT ![h] = "ready"] /\ signal' = [signal EXCEPT ![h] = Blank]
  /\ UNCHANGED <<hour, closed>>

(* place_manual_order: no deduplication and no guard of setups, and the    *)
(* trader may have switched the loss guard off (use_loss_guard).           *)
PlaceManual(m) ==
  /\ gate[m] = "ready" /\ Room
  /\ \E s \in Symbols, guarded \in BOOLEAN :
       /\ signal' = [signal EXCEPT ![m] = [bot |-> m, symbol |-> s, setup |-> 0, by |-> m]]
       /\ gate' = [gate EXCEPT ![m] = IF guarded THEN "bot" ELSE "insert"]
  /\ UNCHANGED <<hour, open, closed>>

CloseOne(t) ==
  /\ \E p \in Losings, k \in {t.setup, 0} :
       closed' = Append(closed, [bot |-> t.bot, symbol |-> t.symbol,
                                 setup |-> k, pnl |-> p, at |-> hour])
  /\ open' = open (-) SetToBag({t})
  /\ UNCHANGED <<hour, gate, signal>>

(* Rejected, cancelled or failed: no trade that closed.                    *)
Drop(t) == open' = open (-) SetToBag({t}) /\ UNCHANGED <<hour, closed, gate, signal>>

Pass == hour < LastHour /\ hour' = hour + 1 /\ UNCHANGED <<open, closed, gate, signal>>

GuardNext ==
  \/ \E h \in Handlers : Arrive(h) \/ GuardSetup(h)
  \/ \E h \in Deciders : GuardBot(h) \/ GuardPair(h) \/ Refuse(h) \/ Insert(h)
  \/ \E m \in HandTraders : PlaceManual(m)
  \/ \E t \in DOMAIN open : CloseOne(t) \/ Drop(t)
  \/ Pass

GuardSpec == GuardInit /\ [][GuardNext]_guardVars

-----------------------------------------------------------------------------
(* The losses of a list from one to another, all in a row, none longer     *)
(* than Staleness after the one before.                                    *)
Between(T, i, j) == {k \in T : i <= k /\ k <= j}
LosingRun(T, i, j) ==
  \A k \in Between(T, i, j) :
    /\ Lost(k)
    /\ \A l \in Between(T, i, j) :
         k < l /\ (\A m \in T : ~(k < m /\ m < l)) => closed[l].at - closed[k].at <= Staleness

(* What a bot may have open at once: on each symbol what passed the check  *)
(* for a twin together, one signal of each session that serves it.         *)
Servants(b) == {h \in Handlers : b \in Serves[h]}
Capacity(b) == Cardinality(Symbols \X Servants(b))

(* However its signals cross, a bot that keeps losing loses no more in a   *)
(* row than one short of the streak and what it may have open at once.     *)
BotRunsEnd ==
  \A b \in GuardedBots : \A i, j \in OfBot(b) :
    LosingRun(OfBot(b), i, j) =>
      Cardinality(Between(OfBot(b), i, j)) <= StreakCount - 1 + Capacity(b)

(* So do all the bots together that trade a pair; what traders lose there  *)
(* counts towards the streak, not towards what the bots may lose.          *)
PairCapacity == Cardinality({x \in GuardedBots \X Handlers : x[1] \in Serves[x[2]]})
PairRunsEnd ==
  \A s \in Symbols : \A i, j \in OnPair(s) :
    LosingRun(OnPair(s), i, j) =>
      Cardinality({k \in Between(OnPair(s), i, j) : closed[k].bot \in GuardedBots})
        <= StreakCount - 1 + PairCapacity

(* No guard is a deadlock: the newest trade being older than Staleness,    *)
(* neither a bot nor a pair is blocked.                                    *)
RestHeals ==
  \A T \in {OfBot(b) : b \in GuardedBots \cup HandTraders} \cup {OnPair(s) : s \in Symbols} :
    T # {} /\ Age(Max(T)) > Staleness => ~Evaluate(T)

(* A setup that lost is not lost on again, but for signals that passed the *)
(* check for a twin together, while the trades that lost are among the     *)
(* last ones of the bot on the symbol and none of that setup has won since. *)
SetupLosesOnce ==
  \A b \in GuardedBots, s \in Symbols :
    LET T == OfBot(b) \cap OnPair(s) IN
    \A i \in T, j \in T :
      LET same == {k \in Between(T, i, j) : closed[k].setup = closed[i].setup} IN
      Cardinality(Between(T, i, j)) <= SameSetups /\ closed[i].setup # 0 /\ (\A k \in same : Lost(k))
        => Cardinality(same) <= Cardinality(Servants(b))

(* The loss guard ends a losing run of a bot and of a pair, blocks neither *)
(* for ever, and no setup goes on losing, though signals of bots and       *)
(* traders cross the queries of each other's gates.                        *)
LossesAreHeeded == BotRunsEnd /\ PairRunsEnd /\ RestHeals /\ SetupLosesOnce
=============================================================================

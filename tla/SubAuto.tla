------------------------------- MODULE SubAuto -------------------------------
(***************************************************************************)
(* Sub-Auto Mode of one bot: the trader approves a number of trades in     *)
(* advance, in all and per day; while that lasts every signal executes     *)
(* without approval, and then the bot goes back to the mode it had.        *)
(*                                                                         *)
(*   Alerts    TradingView alerts: one signal each, a session of its own   *)
(*   Scanner   the market scanner: signal after signal in one session that *)
(*             lasts the whole cycle                                       *)
(*                                                                         *)
(* The counters stand in the bot's row.  A session reads that row once: a  *)
(* later select returns the object it already has, nothing expires it at   *)
(* COMMIT, and COMMIT sends what differs from it.  The trader's settings   *)
(* are requests of their own.                                              *)
(***************************************************************************)
EXTENDS Integers

CONSTANTS
  Alerts,    \* the handlers of alerts
  Scanner,   \* the market scanner task
  TotalCap,  \* BotConfig.sub_auto_total_cap of every engagement
  DailyCap,  \* BotConfig.sub_auto_daily_cap of every engagement
  MaxDays    \* bound: the last day

ASSUME ScannerAssumption == Scanner \notin Alerts

ASSUME CapsAssumption ==
  /\ TotalCap \in Nat \ {0} /\ DailyCap \in Nat \ {0}
  /\ MaxDays \in Nat

Sources == Alerts \cup {Scanner}

VARIABLES
  bot,        \* the committed row of the bot
  day,        \* today
  pc,         \* where each session's handler is
  copy,       \* the bot as each session has it
  taken,      \* history: executions of this engagement
  takenToday, \* history: those of today
  before,     \* history: the bot's mode when the trader engaged it
  crossed     \* history: the row changed under an open session

tally == <<taken, takenToday, before, crossed>>
vars  == <<bot, day, pc, copy, tally>>

-----------------------------------------------------------------------------
Modes == {"human_in_loop", "fully_autonomous"}
Never == -1

Bot == [mode     : Modes,                    \* execution_mode
        pre      : Modes \cup {"none"},      \* pre_sub_auto_execution_mode
        active   : BOOLEAN,                  \* sub_auto_active
        executed : Nat,                      \* sub_auto_trades_executed
        daily    : Nat,                      \* sub_auto_daily_count
        date     : Int]                      \* sub_auto_daily_date

Fresh(mode) == [mode |-> mode, pre |-> "none", active |-> FALSE,
                executed |-> 0, daily |-> 0, date |-> Never]

(* What a session that is not open has: nothing.                           *)
NoCopy == Fresh("human_in_loop")

Holding == {h \in Sources : pc[h] \notin {"idle", "done"}}

Init ==
  /\ before \in Modes
  /\ bot = Fresh(before)
  /\ day = 0
  /\ pc = [h \in Sources |-> "idle"]
  /\ copy = [h \in Sources |-> NoCopy]
  /\ taken = 0 /\ takenToday = 0 /\ crossed = FALSE

-----------------------------------------------------------------------------
(* Signals.                                                                *)

Goto(h, label) == pc' = [pc EXCEPT ![h] = label]

(* After a signal the scanner takes the next one with the bot as it has    *)
(* it, an alert is answered.                                               *)
Rest(h, b) ==
  IF h = Scanner
  THEN Goto(h, "ready") /\ copy' = [copy EXCEPT ![h] = b]
  ELSE Goto(h, "done") /\ copy' = [copy EXCEPT ![h] = NoCopy]

Close(h) == /\ Goto(h, IF h = Scanner THEN "idle" ELSE "done")
            /\ copy' = [copy EXCEPT ![h] = NoCopy]

(* The first select of the bot, of an alert or of a scan cycle.            *)
LoadBot(h) ==
  /\ pc[h] = "idle"
  /\ Goto(h, "ready")
  /\ copy' = [copy EXCEPT ![h] = bot]
  /\ crossed' = (crossed \/ Holding # {})
  /\ UNCHANGED <<bot, day, taken, takenToday, before>>

EndCycle ==
  /\ pc[Scanner] = "ready"
  /\ Close(Scanner)
  /\ UNCHANGED <<bot, day, tally>>

(* Executions of today, as far as the session knows.                       *)
DailySoFar(b) == IF b.date = day THEN b.daily ELSE 0

(* Mutant: one trade a day more.                                           *)
WithinDailyCapLate(h) == copy[h].active => DailySoFar(copy[h]) <= DailyCap

WithinDailyCap(h) == copy[h].active => DailySoFar(copy[h]) < DailyCap

Autonomous(b) == b.active \/ b.mode = "fully_autonomous"

(* A signal passes the gates of SignalGate and is inserted, as a trade to  *)
(* execute.                                                                *)
Proceeds(h) ==
  /\ pc[h] = "ready" /\ WithinDailyCap(h) /\ Autonomous(copy[h])
  /\ Goto(h, "executing")
  /\ UNCHANGED <<bot, day, copy, tally>>

(* It is refused or inserted as a draft, or its capital check or its order *)
(* fails: nothing is counted.                                              *)
Ends(h) ==
  /\ pc[h] \in {"ready", "executing"}
  /\ Rest(h, copy[h])
  /\ UNCHANGED <<bot, day, tally>>

(* ACTIVE is committed; the counters follow in a commit of their own.  The *)
(* history is kept as long as nothing has crossed.                         *)
Executed(h) ==
  /\ pc[h] = "executing"
  /\ IF copy[h].active THEN Goto(h, "counting") /\ UNCHANGED copy
                       ELSE Rest(h, copy[h])
  /\ IF copy[h].active /\ ~crossed
       THEN taken' = taken + 1 /\ takenToday' = takenToday + 1
       ELSE UNCHANGED <<taken, takenToday>>
  /\ UNCHANGED <<bot, day, before, crossed>>

OneMore(b) == [b EXCEPT !.daily = IF b.date = day THEN @ + 1 ELSE 1,
                        !.date = day, !.executed = @ + 1]

(* Mutant: one trade more than the allotment.                              *)
ExhaustedLate(b) == b.executed > TotalCap

Exhausted(b) == b.executed >= TotalCap

(* The last trade of the allotment hands the bot back.                     *)
Counted(b) ==
  LET more == OneMore(b)
  IN IF ~Exhausted(more) THEN more
     ELSE [more EXCEPT !.active = FALSE, !.pre = "none",
             !.mode = IF b.pre = "none" THEN "human_in_loop" ELSE b.pre]

(* COMMIT sends the columns whose value is no longer the loaded one.       *)
Column(old, new, now) == IF new # old THEN new ELSE now

Flush(b, old, new) ==
  [mode     |-> Column(old.mode, new.mode, b.mode),
   pre      |-> Column(old.pre, new.pre, b.pre),
   active   |-> Column(old.active, new.active, b.active),
   executed |-> Column(old.executed, new.executed, b.executed),
   daily    |-> Column(old.daily, new.daily, b.daily),
   date     |-> Column(old.date, new.date, b.date)]

Count(h) ==
  /\ pc[h] = "counting"
  /\ bot' = Flush(bot, copy[h], Counted(copy[h]))
  /\ Rest(h, Counted(copy[h]))
  /\ UNCHANGED <<day, tally>>

(* A restart or an exception: what was executed is never counted.          *)
Dies(h) ==
  /\ pc[h] \in {"executing", "counting"}
  /\ Close(h)
  /\ crossed' = (crossed \/ pc[h] = "counting")
  /\ UNCHANGED <<bot, day, taken, takenToday, before>>

-----------------------------------------------------------------------------
(* The trader.                                                             *)

Settings(new) ==
  /\ bot' = new
  /\ crossed' = (crossed \/ (new # bot /\ Holding # {}))
  /\ UNCHANGED <<day, pc, copy>>

(* Mutant: the endpoint as it once was, with a new snapshot on every edit. *)
EngagedAgain(b) ==
  [b EXCEPT !.active = TRUE, !.mode = "fully_autonomous", !.pre = b.mode,
            !.executed = 0, !.daily = 0, !.date = Never]

(* Only a fresh engagement takes the snapshot and clears the counters.     *)
Engaged(b) ==
  IF b.active THEN [b EXCEPT !.mode = "fully_autonomous"]
  ELSE [b EXCEPT !.active = TRUE, !.mode = "fully_autonomous", !.pre = b.mode,
                 !.executed = 0, !.daily = 0, !.date = Never]

Engage ==
  /\ Settings(Engaged(bot))
  /\ IF bot.active THEN UNCHANGED <<taken, takenToday, before>>
     ELSE taken' = 0 /\ takenToday' = 0 /\ before' = bot.mode

(* Mutant: no fallback for a bot that is not engaged.                      *)
RestoredBlindly(b) == [b EXCEPT !.active = FALSE, !.pre = "none", !.mode = b.pre]

Restored(b) == [b EXCEPT !.active = FALSE, !.pre = "none",
                         !.mode = IF b.pre = "none" THEN @ ELSE b.pre]

Reset ==
  /\ Settings(Restored(bot))
  /\ UNCHANGED <<taken, takenToday, before>>

SetMode(m) ==
  /\ Settings([bot EXCEPT !.mode = m])
  /\ UNCHANGED <<taken, takenToday, before>>

NextDay ==
  /\ day < MaxDays
  /\ day' = day + 1 /\ takenToday' = 0
  /\ UNCHANGED <<bot, pc, copy, taken, before, crossed>>

-----------------------------------------------------------------------------
Next ==
  \/ \E h \in Sources : \/ LoadBot(h) \/ Proceeds(h) \/ Ends(h) \/ Executed(h)
                        \/ Count(h) \/ Dies(h)
  \/ EndCycle
  \/ Engage \/ Reset \/ NextDay
  \/ \E m \in Modes : SetMode(m)

Spec == Init /\ [][Next]_vars

-----------------------------------------------------------------------------
(* Properties.                                                             *)

(* The shape of the state.                                                 *)
TypeOK ==
  /\ bot \in Bot /\ day \in 0..MaxDays
  /\ pc \in [Sources -> {"idle", "ready", "executing", "counting", "done"}]
  /\ copy \in [Sources -> Bot]
  /\ taken \in Nat /\ takenToday \in Nat
  /\ before \in Modes /\ crossed \in BOOLEAN

(* As long as no session was open while the row changed under it, and no   *)
(* execution went uncounted, no more is executed than the trader approved, *)
(* in all and per day, and the bot knows how much that was.                *)
AllotmentKept ==
  ~crossed =>
    /\ taken <= TotalCap /\ takenToday <= DailyCap
    /\ bot.active => \/ bot.executed = taken
                     \/ \E h \in Sources : pc[h] = "counting"

(* Whatever crosses: a bot in Sub-Auto Mode has some of its allotment left *)
(* and remembers the mode to go back to, so no interleaving leaves it      *)
(* executing without end on a counter that has reached the cap.            *)
EngagementCoherent ==
  bot.active => bot.executed < TotalCap /\ bot.pre # "none"

(* However an engagement ends, by the last trade or by the trader, the bot *)
(* is left in the mode it had when the trader engaged it.                  *)
HandsBackMode ==
  [][~crossed' /\ bot.active /\ ~bot'.active => bot'.mode = before]_vars

(* "Reset can also interrupt an engagement early, at any point": a signal  *)
(* is executed as pre-approved only if the bot's settings still say so.    *)
ResetStops ==
  [][\A h \in Sources :
       pc[h] = "ready" /\ pc'[h] = "executing" /\ copy[h].active
         => Autonomous(bot)]_vars

=============================================================================

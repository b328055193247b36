------------------------------ MODULE SignalGate ------------------------------
(***************************************************************************)
(* What process_signal does before a signal becomes a trade, for one bot   *)
(* and its owner: deduplication and caps over the rows of the bot, the     *)
(* insert, the copies for subscribers, the check of the owner's capital    *)
(* and the execution.                                                      *)
(*                                                                         *)
(*   Alerts     TradingView alerts: one signal each, a session of its own  *)
(*   Scanner    the market scanner: one signal after the other             *)
(*   Approvers  approve_trade on a row of the bot's owner                  *)
(*                                                                         *)
(* Every check is a query, every query an await, and nothing is locked, so *)
(* handlers pass each other between a check and what it allows.  Whether a *)
(* signal executes or waits for approval is the subject of SubAuto; here   *)
(* it may be either.                                                       *)
(***************************************************************************)
EXTENDS Integers, FiniteSets, Sequences

CONSTANTS
  Alerts,         \* the handlers of alerts
  Scanner,        \* the market scanner task
  Approvers,      \* the trader's approvals
  Symbols,        \* the symbols of the bot
  Subscribers,    \* how many verified subscriptions the bot has
  MaxDaily,       \* BotConfig.max_daily_trades
  MaxConcurrent,  \* BotConfig.max_concurrent_trades
  Capital,        \* balance x leverage, in trades of equal notional
  MaxSignals,     \* bound: signals that reach the table
  MaxMoves        \* bound: what the trader, the monitors and midnight do

ASSUME ActorsAssumption ==
  /\ Scanner \notin Alerts \cup Approvers
  /\ Alerts \cap Approvers = {}
  /\ IsFiniteSet(Alerts)

ASSUME CapsAssumption ==
  /\ {Subscribers, MaxMoves} \subseteq Nat
  /\ {MaxDaily, MaxConcurrent, Capital, MaxSignals}
       \subseteq Nat \ {0}

Sources  == Alerts \cup {Scanner}
Sessions == Sources \cup Approvers

VARIABLES
  rows,      \* the trades of the bot, in the order of their insertion
  day,       \* today
  pc,        \* where each session's handler is
  work,      \* the signal or row in hand
  moves,     \* how often something else happened
  admitted,  \* history: rows the capital check let through
  revived,   \* history: rows that stand again after they had gone
  peak       \* history: most signals ever between check and insert at once

trades   == <<rows, admitted, revived>>
gateVars == <<trades, day, pc, work, moves, peak>>

-----------------------------------------------------------------------------
Statuses == {"PENDING", "ACTIVE", "CLOSED", "CANCELLED", "ERROR"}

SignalRow == [symbol : Symbols, status : Statuses, deleted : BOOLEAN, day : Nat,
              draft  : BOOLEAN,   \* requires_approval
              copied : BOOLEAN]   \* a subscriber's copy, not the owner's trade

(* The symbol of a signal and the rows it inserted, the owner's first; an  *)
(* approver has the row it loaded and the status it saw there.             *)
Work == [symbol : Symbols \cup {"none"}, ids : Seq(Nat), seen : Statuses]

NoWork == [symbol |-> "none", ids |-> <<>>, seen |-> "PENDING"]

Labels == {"idle", "ready", "gates", "counted", "drafting", "copying",
           "copysent", "capital", "executing", "assessing", "placing", "done"}

Ids         == DOMAIN rows
Own         == {i \in Ids : ~rows[i].copied}
Open(i)     == rows[i].status \in {"PENDING", "ACTIVE"}
Standing(i) == Open(i) /\ ~rows[i].deleted

(* Signals that passed deduplication and have not inserted all their rows. *)
Between == {h \in Sources :
              pc[h] \in {"gates", "counted", "drafting", "copying", "copysent"}}

GateInit ==
  /\ rows = <<>> /\ day = 0
  /\ pc = [h \in Sessions |-> IF h \in Sources THEN "ready" ELSE "idle"]
  /\ work = [h \in Sessions |-> NoWork]
  /\ admitted = {} /\ revived = {} /\ peak = 0 /\ moves = 0

-----------------------------------------------------------------------------
(* Sessions.                                                               *)

Goto(h, label) == pc' = [pc EXCEPT ![h] = label] /\ UNCHANGED work

(* After a signal the scanner takes the next one; the others are answered. *)
Finish(h) ==
  /\ pc' = [pc EXCEPT ![h] = IF h = Scanner THEN "ready" ELSE "done"]
  /\ work' = [work EXCEPT ![h] = NoWork]

(* A restart or an exception: what was committed stays.                    *)
Dies(h) ==
  /\ pc[h] \notin {"idle", "ready", "done"}
  /\ Finish(h)
  /\ UNCHANGED <<trades, day, moves, peak>>

-----------------------------------------------------------------------------
(* The gates, one query each.                                              *)

(* Mutant: a trade already ACTIVE does not count as a twin.                *)
TwinPending(s) ==
  \E i \in Ids : rows[i].symbol = s /\ Standing(i) /\ rows[i].status = "PENDING"

Twin(s) == \E i \in Ids : rows[i].symbol = s /\ Standing(i)

(* Bound: how many signals get past deduplication with a row to insert.    *)
Room == Cardinality(Own)
          + Cardinality({h \in Sources : pc[h] \in {"gates", "counted", "drafting"}})
          < MaxSignals

Duplicate(h, s) ==
  /\ pc[h] = "ready" /\ Twin(s)
  /\ Finish(h)
  /\ UNCHANGED <<trades, day, moves, peak>>

Dedup(h, s) ==
  /\ pc[h] = "ready" /\ Room
  /\ ~Twin(s)
  /\ pc' = [pc EXCEPT ![h] = "gates"]
  /\ work' = [work EXCEPT ![h].symbol = s]
  /\ LET now == Cardinality(Between) + 1
     IN peak' = IF now > peak THEN now ELSE peak
  /\ UNCHANGED <<trades, day, moves>>

Gate(h, from, ok, to) ==
  /\ pc[h] = from
  /\ IF ok THEN Goto(h, to) ELSE Finish(h)
  /\ UNCHANGED <<trades, day, moves, peak>>

(* The loss guards, a setup that just lost or just won, sleep, the         *)
(* schedule and the allotments of SubAuto may refuse any signal; they      *)
(* change nothing.                                                         *)
Refuse(h) == Gate(h, "gates", FALSE, "counted")

Today == {i \in Ids : /\ rows[i].day = day /\ ~rows[i].deleted
                      /\ rows[i].status \notin {"CANCELLED", "ERROR"}}

CountDaily(h) == Gate(h, "gates", Cardinality(Today) < MaxDaily, "counted")

(* Mutant: drafts waiting for approval are not counted.                    *)
BelowCapActive ==
  Cardinality({i \in Ids : Standing(i) /\ rows[i].status = "ACTIVE"})
    < MaxConcurrent

BelowCap == Cardinality({i \in Ids : Standing(i)}) < MaxConcurrent

CountConcurrent(h) == Gate(h, "counted", BelowCap, "drafting")

-----------------------------------------------------------------------------
(* Insert and fan-out.                                                     *)

(* A row is inserted, PENDING.                                             *)
Insert(h, draft, copied) ==
  /\ rows' = Append(rows, [symbol |-> work[h].symbol, status |-> "PENDING",
                           deleted |-> FALSE, day |-> day, draft |-> draft,
                           copied |-> copied])
  /\ UNCHANGED <<admitted, revived, day, moves, peak>>

(* Mutant: the index before the insert.                                    *)
InsertedBefore(w) == [w EXCEPT !.ids = Append(@, Len(rows))]

Inserted(w) == [w EXCEPT !.ids = Append(@, Len(rows) + 1)]

(* With the owner's row and every copy made, a draft is answered and the   *)
(* others go on to the capital check.  A copy that cannot be inserted      *)
(* leaves the session unusable, so the signal ends there, as in Dies.      *)
Proceed(h, w, draft) ==
  IF Len(w.ids) <= Subscribers
    THEN pc' = [pc EXCEPT ![h] = "copying"] /\ work' = [work EXCEPT ![h] = w]
  ELSE IF draft THEN Finish(h)
  ELSE pc' = [pc EXCEPT ![h] = "capital"] /\ work' = [work EXCEPT ![h] = w]

OwnDraft(h) == rows[work[h].ids[1]].draft

(* The mode of the bot, or Sub-Auto Mode, has said whether to execute.     *)
Persist(h, draft) ==
  /\ pc[h] = "drafting"
  /\ Insert(h, draft, FALSE)
  /\ Proceed(h, Inserted(work[h]), draft)

(* A copy that is only drafted for its subscriber.                         *)
DraftCopy(h) ==
  /\ pc[h] = "copying"
  /\ Insert(h, TRUE, TRUE)
  /\ Proceed(h, Inserted(work[h]), OwnDraft(h))

(* With automatic copying, and no fees owed, it is sent at once, whatever  *)
(* the bot's own mode.                                                     *)
SendCopy(h) ==
  /\ pc[h] = "copying"
  /\ Insert(h, FALSE, TRUE)
  /\ pc' = [pc EXCEPT ![h] = "copysent"]
  /\ work' = [work EXCEPT ![h] = Inserted(@)]

-----------------------------------------------------------------------------
(* Outcomes.                                                               *)

SetStatus(i, status) ==
  /\ rows' = [rows EXCEPT ![i].status = status]
  /\ revived' = IF status = "ACTIVE" /\ ~Open(i) THEN revived \cup {i} ELSE revived

(* _mark_trade_error reads the row again and spares one that has ended;    *)
(* _update_trade_after_execution writes ACTIVE over anything.              *)
Record(i, success) ==
  IF ~success /\ rows[i].status \in {"CLOSED", "CANCELLED"}
  THEN UNCHANGED <<rows, revived>>
  ELSE SetStatus(i, IF success THEN "ACTIVE" ELSE "ERROR")

CopyExecuted(h, success) ==
  /\ pc[h] = "copysent"
  /\ Record(work[h].ids[Len(work[h].ids)], success)
  /\ Proceed(h, work[h], OwnDraft(h))
  /\ UNCHANGED <<admitted, day, moves, peak>>

(* Mutant: only what is at a broker counts as committed.                   *)
CommittedActive(i) ==
  Cardinality({j \in Own \ {i} : rows[j].status = "ACTIVE"})

(* Notional already committed: every other open row of the owner, drafts   *)
(* and deleted ones included.  Every trade has the same notional, and the  *)
(* bot an owner: without one nothing is checked.                           *)
Committed(i) == Cardinality({j \in Own \ {i} : Open(j)})

Affordable(i) == Committed(i) + 1 <= Capital

(* check_capital_adequacy finds room, and the order goes out.              *)
Admit(h) ==
  /\ pc[h] = "capital"
  /\ Affordable(work[h].ids[1])
  /\ admitted' = admitted \cup {work[h].ids[1]}
  /\ Goto(h, "executing")
  /\ UNCHANGED <<rows, revived, day, moves, peak>>

Unaffordable(h) ==
  /\ pc[h] = "capital"
  /\ ~Affordable(work[h].ids[1])
  /\ Record(work[h].ids[1], FALSE)
  /\ Finish(h)
  /\ UNCHANGED <<admitted, day, moves, peak>>

Executed(h, success) ==
  /\ pc[h] = "executing"
  /\ Record(work[h].ids[1], success)
  /\ Finish(h)
  /\ UNCHANGED <<admitted, day, moves, peak>>

-----------------------------------------------------------------------------
(* approve_trade: any row of the owner, whatever its status.               *)

LoadTrade(a, i) ==
  /\ pc[a] = "idle" /\ a \in Approvers /\ i \in Own
  /\ pc' = [pc EXCEPT ![a] = "assessing"]
  /\ work' = [work EXCEPT ![a].ids = <<i>>, ![a].seen = rows[i].status]
  /\ UNCHANGED <<trades, day, moves, peak>>

Assess(a) ==
  /\ pc[a] = "assessing"
  /\ IF Affordable(work[a].ids[1])
       THEN admitted' = admitted \cup {work[a].ids[1]} /\ Goto(a, "placing")
       ELSE Finish(a) /\ UNCHANGED admitted
  /\ UNCHANGED <<rows, revived, day, moves, peak>>

(* The outcome goes over whatever the row holds by now, unless the row     *)
(* held it already when it was loaded: then COMMIT has nothing to send.    *)
Approved(a, success) ==
  LET outcome == IF success THEN "ACTIVE" ELSE "ERROR"
  IN /\ pc[a] = "placing"
     /\ IF work[a].seen = outcome THEN UNCHANGED <<rows, revived>>
        ELSE SetStatus(work[a].ids[1], outcome)
     /\ Finish(a)
     /\ UNCHANGED <<admitted, day, moves, peak>>

-----------------------------------------------------------------------------
(* Everybody else who writes these rows.                                   *)

Moved ==
  /\ moves < MaxMoves /\ moves' = moves + 1
  /\ UNCHANGED <<admitted, pc, work, peak>>

Becomes(i, status) == Moved /\ SetStatus(i, status) /\ UNCHANGED day

(* The pending order monitor fills a paper row that needs no approval, or  *)
(* a subscriber approves his copy.                                         *)
FillRow(i) ==
  /\ rows[i].status = "PENDING" /\ (rows[i].copied \/ ~rows[i].draft)
  /\ Becomes(i, "ACTIVE")

(* Any of the exits, and a cancellation or rejection.                      *)
Close(i)   == rows[i].status = "ACTIVE" /\ Becomes(i, "CLOSED")
Decline(i) == rows[i].status # "CANCELLED" /\ Becomes(i, "CANCELLED")

ToggleDeleted(i) ==
  /\ Moved
  /\ rows' = [rows EXCEPT ![i].deleted = ~@]
  /\ revived' = IF rows[i].deleted THEN revived \cup {i} ELSE revived
  /\ UNCHANGED day

NextDay ==
  /\ Moved
  /\ day' = day + 1
  /\ UNCHANGED <<rows, revived>>

-----------------------------------------------------------------------------
Signal(h) ==
  \/ Refuse(h) \/ CountDaily(h) \/ CountConcurrent(h)
  \/ DraftCopy(h) \/ SendCopy(h) \/ Admit(h) \/ Unaffordable(h)
  \/ \E s \in Symbols : Duplicate(h, s) \/ Dedup(h, s)
  \/ \E draft \in BOOLEAN : Persist(h, draft)
  \/ \E success \in BOOLEAN : CopyExecuted(h, success) \/ Executed(h, success)

Approval(a) ==
  \/ \E i \in Ids : LoadTrade(a, i)
  \/ Assess(a)
  \/ \E success \in BOOLEAN : Approved(a, success)

GateNext ==
  \/ \E h \in Sources : Signal(h)
  \/ \E a \in Approvers : Approval(a)
  \/ \E h \in Sessions : Dies(h)
  \/ \E i \in Ids : FillRow(i) \/ Close(i) \/ Decline(i) \/ ToggleDeleted(i)
  \/ NextDay

GateSpec == GateInit /\ [][GateNext]_gateVars

-----------------------------------------------------------------------------
(* Properties.                                                             *)

(* The shape of the state.                                                 *)
GateTypeOK ==
  /\ rows \in Seq(SignalRow) /\ day \in Nat
  /\ pc \in [Sessions -> Labels]
  /\ work \in [Sessions -> Work]
  /\ \A h \in Sessions : \A k \in DOMAIN work[h].ids : work[h].ids[k] \in Ids
  /\ admitted \subseteq Ids /\ revived \subseteq Ids
  /\ moves \in 0..MaxMoves /\ peak \in Nat

(* Deduplication: with signals one at a time, a symbol has one trade; as   *)
(* many more as signals were ever between check and insert at once, and    *)
(* as many as came back after they had gone.                               *)
OneTradePerSymbol ==
  \A s \in Symbols :
    Cardinality({i \in Own : rows[i].symbol = s /\ Standing(i)})
      <= peak + Cardinality(revived)

(* The caps of the bot give way by no more than the same two things, a     *)
(* signal counting with all its copies: never by a signal that looked.     *)
Overshoot == (peak * (1 + Subscribers)) + Cardinality(revived)

CapsHold ==
  /\ Cardinality({i \in Ids : Standing(i)}) <= MaxConcurrent - 1 + Overshoot
  /\ Cardinality(Today) <= MaxDaily - 1 + Overshoot

(* Whatever crosses, the orders sent for an owner are covered by his       *)
(* capital: the row is in the table before its own check, so of two        *)
(* signals that check together neither overlooks the other.  Trades        *)
(* written ACTIVE after they had ended are the exception.                  *)
AdmittedWithinCapital ==
  Cardinality({i \in admitted \ revived : Open(i)}) <= Capital

=============================================================================

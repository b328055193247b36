----------------------------- MODULE TradeEntries -----------------------------
(***************************************************************************)
(* The life of one trade row from the signal or order that creates it to   *)
(* the status it ends in, with everybody who may write that status:        *)
(*                                                                         *)
(*   Engine           the request that inserts the row and, unless it is a *)
(*                    draft or a resting paper order, sends it to a broker *)
(*                    (process_signal, place_manual_order)                 *)
(*   Requests         the trader: approve, reject, cancel, delete, restore *)
(*   FillMonitor      PendingOrderMonitor, fills resting paper orders      *)
(*   PositionMonitor  closes ACTIVE trades                                 *)
(*                                                                         *)
(* As in PositionExits every handler loads a copy of the row, awaits a     *)
(* price or a broker, and writes the columns it changed on that copy; no   *)
(* handler locks the row.  Here the sizes are left out and the status is   *)
(* everything: it must say what really stands at the exchange.             *)
(***************************************************************************)
EXTENDS Naturals

CONSTANTS
  Requests,          \* the trader's requests; each one is made once
  Engine,            \* the request or signal that creates the row
  FillMonitor,       \* the pending order monitor task
  PositionMonitor,   \* the position monitor task
  Disturbances       \* "lost_reply" and "restart", as in PositionExits

ASSUME ActorsAssumption ==
  /\ {Engine, FillMonitor, PositionMonitor} \cap Requests = {}
  /\ Engine # FillMonitor /\ Engine # PositionMonitor
  /\ FillMonitor # PositionMonitor

ASSUME DisturbanceAssumption == Disturbances \subseteq {"lost_reply", "restart"}

Monitors == {FillMonitor, PositionMonitor}
Sessions == Requests \cup {Engine} \cup Monitors

VARIABLES
  row,          \* the committed row
  origin,       \* what created it; fixed
  live,         \* not is_test: orders go to a real exchange; fixed
  routed,       \* a broker is determined for the symbol; fixed
  working,      \* orders accepted by the exchange and not filled yet
  position,     \* orders filled and still open at the exchange
  placed,       \* history: orders the exchange ever accepted
  approved,     \* history: a request to approve was carried out
  pc,           \* where each session's handler is
  copy,         \* the row as each session read it
  goal,         \* the status a session is about to write
  overlapped,   \* history: two handlers ran at the same time
  undue,        \* history: a decision on a row that was not PENDING
  interrupted   \* history: a disturbance happened

exchange == <<working, position, placed>>
fixed    == <<origin, live, routed>>
history  == <<approved, overlapped, undue, interrupted>>
vars     == <<row, fixed, exchange, pc, copy, goal, history>>

-----------------------------------------------------------------------------
Statuses == {"NONE", "PENDING", "ACTIVE", "CLOSED", "CANCELLED", "ERROR"}

Row == [status : Statuses, deleted : BOOLEAN]

NoRow == [status |-> "NONE", deleted |-> FALSE]

(* auto: a fully autonomous bot's signal.  draft: a human in the loop      *)
(* bot's.  market: a manual order sent to a broker at once (every live     *)
(* manual order, and paper market orders).  resting: a manual paper LIMIT  *)
(* or STOP order.                                                          *)
Origins == {"auto", "draft", "market", "resting"}

(* Mutants: the filters that were once missing.                            *)
FillableDrafts ==
  /\ row.status = "PENDING" /\ ~live /\ origin # "market" /\ ~row.deleted

FillableLive ==
  /\ row.status = "PENDING" /\ origin \in {"auto", "resting"} /\ ~row.deleted

(* Bot rows never set entry_type, whose column default is LIMIT, so an     *)
(* autonomous paper row is fillable too while its own request executes it. *)
Fillable ==
  /\ row.status = "PENDING"
  /\ ~live
  /\ origin \in {"auto", "resting"}
  /\ ~row.deleted

Running(s) == pc[s] \notin {"idle", "done", "killed"}

Init ==
  /\ row = NoRow
  /\ origin \in Origins
  /\ live \in BOOLEAN /\ routed \in BOOLEAN
  /\ origin = "resting" => ~live
  /\ ~live => routed
  /\ working = 0 /\ position = 0 /\ placed = 0
  /\ pc = [s \in Sessions |-> "idle"]
  /\ copy = [s \in Sessions |-> NoRow]
  /\ goal = [s \in Sessions |-> "NONE"]
  /\ approved = FALSE /\ overlapped = FALSE
  /\ undue = FALSE /\ interrupted = FALSE

-----------------------------------------------------------------------------
(* Reading.                                                                *)

Goto(s, label) == pc' = [pc EXCEPT ![s] = label]

(* A handler begins: it holds the row as it is now.                        *)
Begin(s, label, status) ==
  /\ pc[s] = "idle"
  /\ row.status # "NONE"
  /\ Goto(s, label)
  /\ copy' = [copy EXCEPT ![s] = row]
  /\ goal' = [goal EXCEPT ![s] = status]
  /\ overlapped' = (overlapped \/ \E o \in Sessions : Running(o))

(* Requests answer once; the monitors go round again.                      *)
Finish(s) == Goto(s, IF s \in Monitors THEN "idle" ELSE "done")

(* The row is inserted and committed.  A draft waits for its approval and  *)
(* a resting paper order for its price: nothing else happens to them here. *)
Persist ==
  /\ pc[Engine] = "idle"
  /\ row.status = "NONE"
  /\ row' = [status |-> "PENDING", deleted |-> FALSE]
  /\ copy' = [copy EXCEPT ![Engine] = row']
  /\ Goto(Engine, IF origin \in {"draft", "resting"} THEN "done" ELSE "ordering")
  /\ UNCHANGED <<fixed, exchange, goal, history>>

(* approve_trade looks the row up by id only, whatever its status.         *)
StartApprove(s) ==
  /\ s \in Requests
  /\ Begin(s, "ordering", "NONE")
  /\ undue' = (undue \/ row.status # "PENDING")
  /\ UNCHANGED <<row, fixed, exchange, approved, interrupted>>

StartReject(s) ==
  /\ s \in Requests
  /\ Begin(s, "writing", "CANCELLED")
  /\ undue' = (undue \/ row.status # "PENDING")
  /\ UNCHANGED <<row, fixed, exchange, approved, interrupted>>

(* cancel_order and partial_close at 100%: a PENDING row is cancelled, an  *)
(* ACTIVE one is closed.                                                   *)
StartCancel(s) ==
  /\ s \in Requests
  /\ \/ row.status = "PENDING" /\ Begin(s, "writing", "CANCELLED")
     \/ row.status = "ACTIVE" /\ Begin(s, "closing", "CLOSED")
  /\ UNCHANGED <<row, fixed, exchange, approved, undue, interrupted>>

(* PendingOrderMonitor: the prices are awaited after the rows were read.   *)
StartFill(s) ==
  /\ s = FillMonitor
  /\ Fillable
  /\ Begin(s, "writing", "ACTIVE")
  /\ UNCHANGED <<row, fixed, exchange, approved, undue, interrupted>>

StartClose(s) ==
  /\ s = PositionMonitor
  /\ row.status = "ACTIVE"
  /\ Begin(s, "closing", "CLOSED")
  /\ UNCHANGED <<row, fixed, exchange, approved, undue, interrupted>>

(* The delete toggle is read and written with no await in between that     *)
(* matters: it touches a column nobody else writes.                        *)
SetDeleted(s) ==
  /\ s \in Requests
  /\ pc[s] = "idle"
  /\ row.status # "NONE"
  /\ row' = [row EXCEPT !.deleted = ~row.deleted]
  /\ Finish(s)
  /\ UNCHANGED <<fixed, exchange, copy, goal, history>>

-----------------------------------------------------------------------------
(* The broker leg of an entry (_execute_broker_order).                     *)

(* The autonomous path reads the row again once it knows the result        *)
(* (_update_trade_after_execution, _mark_trade_error); place_manual_order  *)
(* and approve_trade go on with the copy they have.                        *)
Settle(s, status) ==
  /\ Goto(s, IF s = Engine /\ origin = "auto" THEN "rereading" ELSE "writing")
  /\ goal' = [goal EXCEPT ![s] = status]

(* Only a manual live LIMIT or STOP order rests at the exchange; the       *)
(* orders of bots are market orders.  For a symbol no broker is determined *)
(* for, a live order too is reported as executed and goes nowhere.         *)
AcceptedAtExchange(s) ==
  IF live /\ routed
    THEN /\ placed' = placed + 1
         /\ \/ position' = position + 1 /\ UNCHANGED working
            \/ /\ s = Engine /\ origin = "market"
               /\ working' = working + 1 /\ UNCHANGED position
    ELSE UNCHANGED exchange

OrderAccepted(s) ==
  /\ pc[s] = "ordering"
  /\ AcceptedAtExchange(s)
  /\ Settle(s, "ACTIVE")
  /\ approved' = (approved \/ s \in Requests)
  /\ UNCHANGED <<row, fixed, copy, overlapped, undue, interrupted>>

(* Mutant: the failure is returned and not recorded.                       *)
OrderRefusedUnmarked(s) ==
  /\ pc[s] = "ordering"
  /\ Finish(s)
  /\ UNCHANGED <<row, fixed, exchange, copy, goal, history>>

(* Refused by a guard of the engine or by the broker.                      *)
OrderRefused(s) ==
  /\ pc[s] = "ordering"
  /\ Settle(s, "ERROR")
  /\ UNCHANGED <<row, fixed, exchange, copy, history>>

OrderReplyLost(s) ==
  /\ "lost_reply" \in Disturbances
  /\ pc[s] = "ordering"
  /\ live /\ routed
  /\ AcceptedAtExchange(s)
  /\ Settle(s, "ERROR")
  /\ interrupted' = TRUE
  /\ UNCHANGED <<row, fixed, copy, approved, overlapped, undue>>

(* approve_trade: fees owed or too little capital.                         *)
ApprovalBlocked(s) ==
  /\ pc[s] = "ordering"
  /\ s \in Requests
  /\ Finish(s)
  /\ UNCHANGED <<row, fixed, exchange, copy, goal, history>>

Reread(s) ==
  /\ pc[s] = "rereading"
  /\ copy' = [copy EXCEPT ![s] = row]
  /\ Goto(s, "writing")
  /\ UNCHANGED <<row, fixed, exchange, goal, history>>

-----------------------------------------------------------------------------
(* The broker leg of a close.                                              *)

(* Mutant: the broker confirms although nothing is left to cancel.         *)
CancelWorkingUnchecked(s) ==
  /\ pc[s] = "closing" /\ live
  /\ working' = working - 1
  /\ Goto(s, "writing")
  /\ goal' = [goal EXCEPT ![s] = "CANCELLED"]
  /\ UNCHANGED <<row, fixed, position, placed, copy, history>>

(* cancel_order first tries to cancel the entry order; a broker that still *)
(* holds it unfilled confirms, and the row becomes CANCELLED.              *)
CancelWorking(s) ==
  /\ pc[s] = "closing"
  /\ s \in Requests
  /\ working > 0
  /\ working' = working - 1
  /\ Goto(s, "writing")
  /\ goal' = [goal EXCEPT ![s] = "CANCELLED"]
  /\ UNCHANGED <<row, fixed, position, placed, copy, history>>

(* Mutant: only the row is closed.                                         *)
CloseOnRecord(s) ==
  /\ pc[s] = "closing"
  /\ Goto(s, "writing")
  /\ UNCHANGED <<row, fixed, exchange, copy, goal, history>>

(* A reduce-only order for all of the position; nothing to do on paper.    *)
CloseConfirmed(s) ==
  /\ pc[s] = "closing"
  /\ live => position > 0
  /\ position' = 0
  /\ Goto(s, "writing")
  /\ UNCHANGED <<row, fixed, working, placed, copy, goal, history>>

(* No price, access expired, or refused by the broker.                     *)
CloseAbandoned(s) ==
  /\ pc[s] = "closing"
  /\ Finish(s)
  /\ UNCHANGED <<row, fixed, exchange, copy, goal, history>>

CloseReplyLost(s) ==
  /\ "lost_reply" \in Disturbances
  /\ pc[s] = "closing"
  /\ live /\ position > 0
  /\ position' = 0
  /\ Finish(s)
  /\ interrupted' = TRUE
  /\ UNCHANGED <<row, fixed, working, placed, copy, goal, approved, overlapped, undue>>

-----------------------------------------------------------------------------
(* Writing.                                                                *)

(* A failed entry spares a trade that its handler knows to have ended;     *)
(* approve_trade does not look.                                            *)
Outcome(s) ==
  IF s = Engine /\ goal[s] = "ERROR" /\ copy[s].status \in {"CLOSED", "CANCELLED"}
    THEN copy[s].status
    ELSE goal[s]

(* COMMIT sends the status if it differs from the one that was loaded.     *)
Write(s) ==
  /\ pc[s] = "writing"
  /\ row' = IF Outcome(s) = copy[s].status THEN row
            ELSE [row EXCEPT !.status = Outcome(s)]
  /\ Finish(s)
  /\ UNCHANGED <<fixed, exchange, copy, goal, history>>

-----------------------------------------------------------------------------
ExchangeFills ==
  /\ working > 0
  /\ working' = working - 1
  /\ position' = position + 1
  /\ UNCHANGED <<row, fixed, placed, pc, copy, goal, history>>

(* A redeploy kills every running handler; nothing resumes them.           *)
Restart ==
  /\ "restart" \in Disturbances
  /\ \E s \in Sessions : Running(s)
  /\ pc' = [s \in Sessions |->
              IF ~Running(s) THEN pc[s]
              ELSE IF s \in Monitors THEN "idle" ELSE "killed"]
  /\ interrupted' = TRUE
  /\ UNCHANGED <<row, fixed, exchange, copy, goal, approved, overlapped, undue>>

Start(s) ==
  \/ StartApprove(s) \/ StartReject(s) \/ StartCancel(s)
  \/ StartFill(s) \/ StartClose(s) \/ SetDeleted(s)

(* What a handler that has begun does next, whatever the answers it gets.  *)
Advance(s) ==
  \/ OrderAccepted(s) \/ OrderRefused(s) \/ OrderReplyLost(s) \/ ApprovalBlocked(s)
  \/ Reread(s)
  \/ CancelWorking(s) \/ CloseConfirmed(s) \/ CloseAbandoned(s) \/ CloseReplyLost(s)
  \/ Write(s)

Next ==
  \/ Persist
  \/ \E s \in Sessions : Start(s) \/ Advance(s)
  \/ ExchangeFills
  \/ Restart

(* A handler that runs is an asyncio task: it gets its turn, and every     *)
(* call it awaits has a timeout.  Nobody must ever start one.              *)
Fairness == \A s \in Sessions : WF_vars(Advance(s))

Spec == Init /\ [][Next]_vars /\ Fairness

-----------------------------------------------------------------------------
Quiescent == \A s \in Sessions : ~Running(s)

(* Every variable holds a value of its type.                               *)
TypeOK ==
  /\ row \in Row
  /\ origin \in Origins /\ live \in BOOLEAN /\ routed \in BOOLEAN
  /\ working \in Nat /\ position \in Nat /\ placed \in Nat
  /\ pc \in [Sessions -> {"idle", "ordering", "rereading", "closing", "writing",
                          "done", "killed"}]
  /\ copy \in [Sessions -> Row]
  /\ goal \in [Sessions -> Statuses]
  /\ approved \in BOOLEAN /\ overlapped \in BOOLEAN
  /\ undue \in BOOLEAN /\ interrupted \in BOOLEAN

(* No draft of a human-in-the-loop bot is ever in the market without an    *)
(* approval that was carried out, whatever the monitors and the other      *)
(* requests do meanwhile (the pending order monitor once filled drafts:    *)
(* "completely bypassing approval").                                       *)
ApprovalGate ==
  origin = "draft" /\ row.status \in {"ACTIVE", "CLOSED"} => approved

(* A live trade shown ACTIVE or CLOSED had an order accepted at the        *)
(* exchange, if a broker was determined for it at all; no interleaving     *)
(* makes a live row come alive on paper only.                              *)
LiveRowWasOrdered ==
  live /\ routed /\ row.status \in {"ACTIVE", "CLOSED"} => placed > 0

(* Handlers one at a time, decisions on PENDING rows only, no disturbance: *)
(* the trade sends at most one order, and when nobody is at work the row   *)
(* is ACTIVE exactly while something stands at the exchange.               *)
OneOrderOnePosition ==
  live /\ routed /\ ~overlapped /\ ~undue /\ ~interrupted /\ Quiescent =>
    /\ placed <= 1
    /\ row.status = "ACTIVE" <=> working + position > 0

(* What the row says, an order at the exchange stands for.                 *)
RowsMatchOrders == LiveRowWasOrdered /\ OneOrderOnePosition

(* An autonomous or market order never stays PENDING, unless its request   *)
(* dies with the process: process_signal on the failure path once left it  *)
(* "stuck at PENDING forever".                                             *)
OrderSettles ==
  Running(Engine) ~> row.status # "PENDING" \/ pc[Engine] = "killed"

(* cancel_order: "CANCELLED stays reserved for the PENDING/never-filled    *)
(* case".  Not so for approve_trade, which rejects a trade in any status.  *)
CancelledNeverFilled ==
  live /\ ~overlapped /\ Quiescent /\ row.status = "CANCELLED"
    => working + position = 0
=============================================================================

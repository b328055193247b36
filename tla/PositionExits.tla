---------------------------- MODULE PositionExits ----------------------------
(***************************************************************************)
(* How an ACTIVE trade is taken down, slice by slice, by the four handlers *)
(* that can do it: the position monitor (_partial_close, _close), the      *)
(* trader's partial_close and cancel_order endpoints, and the TradingView  *)
(* close alert (_handle_management_action).                                *)
(*                                                                         *)
(* Each handler runs in a database session of its own: it reads the trade  *)
(* row into a private copy, awaits prices and the broker, then writes back *)
(* the columns of the copy it changed.  No handler locks the row or looks  *)
(* at it again before writing, so every one of these steps interleaves     *)
(* with the steps of the others.  The module keeps the two records that    *)
(* must agree side by side: the row, and the position that is really open  *)
(* at the exchange.                                                        *)
(***************************************************************************)
EXTENDS Naturals

CONSTANTS
  Requests,         \* requests and alerts that act on the trade
  Monitor,          \* the one position monitor task of the process
  Size,             \* the trade's lot size when it was filled
  Disturbances      \* what may go wrong around the handlers, see below

ASSUME MonitorAssumption   == Monitor \notin Requests
ASSUME SizeAssumption      == Size \in Nat \ {0}

(* lost_reply: a call is executed and still reported failed (a timeout);   *)
(* restart: the process is redeployed while handlers run;                  *)
(* exchange_exit: a stop or target resting at the exchange closes the      *)
(* position, and nothing tells the portal.                                 *)
ASSUME DisturbanceAssumption ==
  Disturbances \subseteq {"lost_reply", "restart", "exchange_exit"}

Sessions == Requests \cup {Monitor}

VARIABLES
  tradeRow,          \* the committed row of the trade
  exposure,     \* lots really open at the exchange for this trade
  pc,           \* where each session's handler is
  copy,         \* the row as each session read it
  plan,         \* what each session has had executed but not yet recorded
  feeLots,      \* lots for which a performance fee entry was created
  overlapped,   \* history: a handler started while another one was running
  interrupted   \* history: one of the disturbances happened

exitsVars == <<tradeRow, exposure, pc, copy, plan, feeLots, overlapped, interrupted>>

-----------------------------------------------------------------------------
(* The trade row: the columns an exit reads or writes.                     *)

Statuses == {"ACTIVE", "CLOSED"}

ExitRow == [status : Statuses, lot_size : 0..Size, fired : SUBSET {1, 2},
            is_test : BOOLEAN]

NoLoadedRow == [status |-> "CLOSED", lot_size |-> 0, fired |-> {}, is_test |-> FALSE]

(* A slice: which handler, how many lots, which take-profit level (0 for   *)
(* none), and whether a fee is due on it (a profit on a fee-eligible live  *)
(* trade).                                                                 *)

Kinds == {"monitor_partial", "monitor_close", "partial_close",
          "cancel_order", "webhook_close"}

Slice == [kind : Kinds \cup {"none"}, qty : 0..Size, level : 0..2,
          fee : BOOLEAN]

NoSlice == [kind |-> "none", qty |-> 0, level |-> 0, fee |-> FALSE]

(* Closing the whole remaining position: no quantity is sent.              *)
FullClose(p) == p.kind \in {"monitor_close", "cancel_order", "webhook_close"}

-----------------------------------------------------------------------------
ExitsInit ==
  /\ tradeRow \in [status : {"ACTIVE"}, lot_size : {Size}, fired : {{}},
              is_test : BOOLEAN]
  /\ exposure = IF tradeRow.is_test THEN 0 ELSE Size
  /\ pc   = [s \in Sessions |-> "idle"]
  /\ copy = [s \in Sessions |-> NoLoadedRow]
  /\ plan = [s \in Sessions |-> NoSlice]
  /\ feeLots = 0
  /\ overlapped = FALSE
  /\ interrupted = FALSE

(* Every handler begins by selecting the row while it is ACTIVE.           *)
Load(s) ==
  /\ pc[s] = "idle"
  /\ tradeRow.status = "ACTIVE"
  /\ pc' = [pc EXCEPT ![s] = "loaded"]
  /\ copy' = [copy EXCEPT ![s] = tradeRow]
  /\ overlapped' = (overlapped \/ \E o \in Sessions : pc[o] # "idle")
  /\ UNCHANGED <<tradeRow, exposure, plan, feeLots, interrupted>>

(* The slices a handler may decide on from the copy it holds.  A ladder    *)
(* fraction lies strictly between nothing and everything; the trader's     *)
(* percentage may take all of it.                                          *)
MonitorSlices(c) ==
  [kind : {"monitor_partial"}, qty : {q \in 1..Size : q < c.lot_size},
   level : {1, 2} \ c.fired, fee : BOOLEAN]
    \cup [kind : {"monitor_close"}, qty : {c.lot_size}, level : {0}, fee : BOOLEAN]

RequestSlices(c) ==
  [kind : {"partial_close"}, qty : 1..c.lot_size, level : {0}, fee : BOOLEAN]
    \cup [kind : {"cancel_order", "webhook_close"}, qty : {c.lot_size},
          level : {0}, fee : BOOLEAN]

Slices(s) == IF s = Monitor THEN MonitorSlices(copy[s]) ELSE RequestSlices(copy[s])

(* Mutants: a partial close that forgets its quantity; a cancel_order that *)
(* only books the close, as the endpoint once did.                         *)
ReducedWithoutQuantity(p) == 0
ReducedExceptByCancel(p) ==
  IF p.kind = "cancel_order" THEN exposure
  ELSE IF FullClose(p) \/ p.qty >= exposure THEN 0 ELSE exposure - p.qty

(* The position left by a reduce-only order for slice p.                   *)
Reduced(p) == IF FullClose(p) \/ p.qty >= exposure THEN 0 ELSE exposure - p.qty

Done(s) ==
  /\ pc'   = [pc EXCEPT ![s] = "idle"]
  /\ copy' = [copy EXCEPT ![s] = NoLoadedRow]
  /\ plan' = [plan EXCEPT ![s] = NoSlice]

(* Live trade: the broker leg comes first, and only its success lets the   *)
(* handler go on to change the row.                                        *)
BrokerConfirms(s) ==
  /\ pc[s] = "loaded"
  /\ ~copy[s].is_test
  /\ exposure > 0
  /\ \E p \in Slices(s) :
       /\ exposure' = Reduced(p)
       /\ plan' = [plan EXCEPT ![s] = p]
  /\ pc' = [pc EXCEPT ![s] = "executed"]
  /\ UNCHANGED <<tradeRow, copy, feeLots, overlapped, interrupted>>

(* Mutant: the answer of the broker is not looked at.                      *)
BrokerRefusesUnnoticed(s) ==
  /\ pc[s] = "loaded"
  /\ ~copy[s].is_test
  /\ \E p \in Slices(s) : plan' = [plan EXCEPT ![s] = p]
  /\ pc' = [pc EXCEPT ![s] = "executed"]
  /\ UNCHANGED <<tradeRow, exposure, copy, feeLots, overlapped, interrupted>>

(* Refused, or nothing left to reduce: rollback, 502, or the alert's       *)
(* "failed" list.  The row is not touched.                                 *)
BrokerRefuses(s) ==
  /\ pc[s] = "loaded"
  /\ ~copy[s].is_test
  /\ Done(s)
  /\ UNCHANGED <<tradeRow, exposure, feeLots, overlapped, interrupted>>

(* The order is executed but its answer is lost (a read timeout), and the  *)
(* client reports {"success": False}: the handler takes the refused path.  *)
BrokerReplyLost(s) ==
  /\ "lost_reply" \in Disturbances
  /\ pc[s] = "loaded"
  /\ ~copy[s].is_test
  /\ exposure > 0
  /\ \E p \in Slices(s) : exposure' = Reduced(p)
  /\ Done(s)
  /\ interrupted' = TRUE
  /\ UNCHANGED <<tradeRow, feeLots, overlapped>>

(* Paper trade: there is no broker leg.                                    *)
PaperSlice(s) ==
  /\ pc[s] = "loaded"
  /\ copy[s].is_test
  /\ \E p \in Slices(s) : ~p.fee /\ plan' = [plan EXCEPT ![s] = p]
  /\ pc' = [pc EXCEPT ![s] = "executed"]
  /\ UNCHANGED <<tradeRow, exposure, copy, feeLots, overlapped, interrupted>>

(* No level reached, no usable price, or access expired.                   *)
GiveUp(s) ==
  /\ pc[s] = "loaded"
  /\ Done(s)
  /\ UNCHANGED <<tradeRow, exposure, feeLots, overlapped, interrupted>>

(* The handler's view of the row once it has recorded slice p.             *)
Closes(c, p) == FullClose(p) \/ (p.kind = "partial_close" /\ p.qty = c.lot_size)

(* Mutant: the closed size is added instead of subtracted.                 *)
AfterWrongSign(c, p) ==
  [status   |-> IF Closes(c, p) THEN "CLOSED" ELSE c.status,
   lot_size |-> IF Closes(c, p) THEN 0 ELSE c.lot_size + p.qty,
   fired    |-> c.fired, is_test |-> c.is_test]

After(c, p) ==
  [status   |-> IF Closes(c, p) THEN "CLOSED" ELSE c.status,
   lot_size |-> IF Closes(c, p) THEN 0 ELSE c.lot_size - p.qty,
   fired    |-> IF p.level = 0 THEN c.fired ELSE c.fired \cup {p.level},
   is_test  |-> c.is_test]

(* Mutant: COMMIT sends every column.                                      *)
ColumnAlways(loaded, new, current) == new

(* What COMMIT sends: the columns whose value differs from the one that    *)
(* was loaded, whatever the row holds by now.                              *)
ExitColumn(loaded, new, current) == IF new # loaded THEN new ELSE current

FlushExit(r, c, a) ==
  [status   |-> ExitColumn(c.status, a.status, r.status),
   lot_size |-> ExitColumn(c.lot_size, a.lot_size, r.lot_size),
   fired    |-> ExitColumn(c.fired, a.fired, r.fired),
   is_test  |-> r.is_test]

Written(s) == FlushExit(tradeRow, copy[s], After(copy[s], plan[s]))

(* The commit of a slice.  apply_performance_fee runs after it, in a       *)
(* commit of its own.                                                      *)
CommitSlice(s) ==
  /\ pc[s] = "executed"
  /\ plan[s].kind # "webhook_close"
  /\ tradeRow' = Written(s)
  /\ IF plan[s].fee
       THEN /\ pc' = [pc EXCEPT ![s] = "charging"]
            /\ copy' = [copy EXCEPT ![s] = NoLoadedRow]
            /\ UNCHANGED plan
       ELSE Done(s)
  /\ UNCHANGED <<exposure, feeLots, overlapped, interrupted>>

(* Mutant: the fee is charged again by the next step of the handler.       *)
ChargeFeeAgain(s) ==
  /\ pc[s] = "charging"
  /\ feeLots' = feeLots + plan[s].qty
  /\ UNCHANGED <<tradeRow, exposure, pc, copy, plan, overlapped, interrupted>>

ChargeFee(s) ==
  /\ pc[s] = "charging"
  /\ feeLots' = feeLots + plan[s].qty
  /\ Done(s)
  /\ UNCHANGED <<tradeRow, exposure, overlapped, interrupted>>

(* The alert handler calls apply_performance_fee before its own commit, so *)
(* the fee entry and the still uncommitted row go out together.            *)
CommitAlert(s) ==
  /\ pc[s] = "executed"
  /\ plan[s].kind = "webhook_close"
  /\ tradeRow' = Written(s)
  /\ feeLots' = IF plan[s].fee THEN feeLots + plan[s].qty ELSE feeLots
  /\ Done(s)
  /\ UNCHANGED <<exposure, overlapped, interrupted>>

(* The process is redeployed: every running handler is gone.               *)
ExitsRestart ==
  /\ "restart" \in Disturbances
  /\ \E s \in Sessions : pc[s] # "idle"
  /\ pc'   = [s \in Sessions |-> "idle"]
  /\ copy' = [s \in Sessions |-> NoLoadedRow]
  /\ plan' = [s \in Sessions |-> NoSlice]
  /\ interrupted' = TRUE
  /\ UNCHANGED <<tradeRow, exposure, feeLots, overlapped>>

(* A resting stop or target fills at the exchange.                         *)
ExchangeExit ==
  /\ "exchange_exit" \in Disturbances
  /\ exposure > 0
  /\ exposure' = 0
  /\ interrupted' = TRUE
  /\ UNCHANGED <<tradeRow, pc, copy, plan, feeLots, overlapped>>

ExitsNext ==
  \/ \E s \in Sessions :
       \/ Load(s)
       \/ BrokerConfirms(s) \/ BrokerRefuses(s) \/ BrokerReplyLost(s)
       \/ PaperSlice(s) \/ GiveUp(s)
       \/ CommitSlice(s) \/ ChargeFee(s) \/ CommitAlert(s)
  \/ ExitsRestart
  \/ ExchangeExit

ExitsSpec == ExitsInit /\ [][ExitsNext]_exitsVars

-----------------------------------------------------------------------------
(* Every variable holds a value of its type.                               *)
ExitsTypeOK ==
  /\ tradeRow \in ExitRow
  /\ exposure \in 0..Size
  /\ pc \in [Sessions -> {"idle", "loaded", "executed", "charging"}]
  /\ copy \in [Sessions -> ExitRow]
  /\ plan \in [Sessions -> Slice]
  /\ feeLots \in Nat
  /\ overlapped \in BOOLEAN
  /\ interrupted \in BOOLEAN

(* The row never claims a reduction the exchange did not make: whatever    *)
(* handlers interleave, fail or die, at most row.lot_size lots are really  *)
(* open.  manual_trading.partial_close: "so our record never drifts ahead  *)
(* of what's actually true at the exchange".                               *)
NoUnbackedReduction == exposure <= tradeRow.lot_size

(* A live trade shown as CLOSED has no position left at the exchange, even *)
(* when the slices of several handlers crossed: cancel_order, _close and   *)
(* the close alert all refuse to mark it before the broker confirmed.      *)
ClosedMeansFlat == tradeRow.status = "CLOSED" => exposure = 0

(* One handler at a time, no restart, no lost reply: between handlers the  *)
(* row and the exchange agree to the lot, for every mixture of monitor     *)
(* partials, trader partials and full closes.                              *)
ExactWhenUndisturbed ==
  (/\ ~overlapped /\ ~interrupted /\ ~tradeRow.is_test
   /\ \A s \in Sessions : pc[s] # "executed")
     => exposure = tradeRow.lot_size

(* Fees are charged per slice, by four call sites.  As long as handlers do *)
(* not overlap (restarts and lost replies included) the charged lots never *)
(* exceed the lots the row reports as closed.                              *)
FeesWithinPosition == ~overlapped => feeLots + tradeRow.lot_size <= Size

(* A CLOSED trade stays closed: no stale write of an exit handler brings   *)
(* it back to ACTIVE.                                                      *)
ClosedIsFinal == [][tradeRow.status = "CLOSED" => tradeRow'.status = "CLOSED"]_exitsVars

(* position_monitor._partial_close on a failed broker call: the next cycle *)
(* "re-reads the still-unchanged row and retries - no partial/inconsistent *)
(* state is ever left behind".  Not so when the failure reported is a      *)
(* lost answer; the property is the claim, the run shows it violated.      *)
NoInconsistentStateLeft ==
  (/\ ~overlapped /\ ~tradeRow.is_test
   /\ \A s \in Sessions : pc[s] = "idle")
     => exposure = tradeRow.lot_size
=============================================================================

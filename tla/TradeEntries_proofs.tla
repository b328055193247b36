-------------------------- MODULE TradeEntries_proofs --------------------------
(***************************************************************************)
(* Proofs about TradeEntries, for any set of requests and any subset of    *)
(* the disturbances: no draft trades without an approval, and a live row   *)
(* that came alive was ordered.                                            *)
(***************************************************************************)
EXTENDS TradeEntries, TLAPS

(* Who may be at which point of a handler.                                 *)
Roles ==
  \A s \in Sessions :
    /\ pc[s] = "ordering" => s \in Requests \/ (s = Engine /\ origin # "draft")
    /\ pc[s] = "rereading" => s = Engine
    /\ s = FillMonitor /\ Running(s) => ~live

(* The row is neither ACTIVE nor CLOSED, nor is anybody about to make it so. *)
NotAlive ==
  /\ row.status \notin {"ACTIVE", "CLOSED"}
  /\ \A s \in Sessions :
       /\ pc[s] # "closing"
       /\ pc[s] \in {"rereading", "writing"} => goal[s] \notin {"ACTIVE", "CLOSED"}

(* A row comes alive through an order that was accepted, or on paper.      *)
Alive ==
  /\ origin = "draft" /\ ~approved => NotAlive
  /\ live /\ routed /\ placed = 0 => NotAlive

IInv == TypeOK /\ Roles /\ Alive

(* One handler at a time, nothing disturbed, a broker for the symbol.      *)
Serial == live /\ routed /\ ~overlapped /\ ~undue /\ ~interrupted

Standing == working + position

(* What a row at rest says of the exchange.                                *)
Settled ==
  /\ placed <= 1 /\ Standing <= placed
  /\ row.status \in {"NONE", "PENDING"} => placed = 0
  /\ row.status = "ACTIVE" <=> Standing = 1

(* What the handler at work knows, and what its goal says of the exchange. *)
AtWork(s) ==
  /\ copy[s].status = row.status
  /\ row.status \in {"PENDING", "ACTIVE"}
  /\ pc[s] = "ordering" => row.status = "PENDING" /\ placed = 0 /\ Standing = 0
  /\ pc[s] = "closing" => row.status = "ACTIVE" /\ goal[s] = "CLOSED" /\ placed = 1 /\ Standing = 1
  /\ pc[s] \in {"rereading", "writing"} =>
       /\ goal[s] = "ACTIVE" => row.status = "PENDING" /\ placed = 1 /\ Standing = 1
       /\ goal[s] # "ACTIVE" => placed <= 1 /\ Standing = 0
       /\ goal[s] = "ERROR" => row.status = "PENDING"
       /\ goal[s] \in {"ACTIVE", "ERROR", "CANCELLED", "CLOSED"}

OneAtWork ==
  Serial => /\ \A s, t \in Sessions : Running(s) /\ Running(t) => s = t
            /\ \A s \in Sessions : Running(s) => AtWork(s)
            /\ Quiescent => Settled

-----------------------------------------------------------------------------
(* Every action leads from values of the types to values of the types.     *)
LEMMA InitTyped == Init => TypeOK
<1> SUFFICES ASSUME Init PROVE TypeOK
  OBVIOUS
<1>1. NoRow \in Row /\ "NONE" \in Statuses
  BY DEF NoRow, Row, Statuses
<1>2. /\ pc \in [Sessions -> {"idle", "ordering", "rereading", "closing", "writing",
                             "done", "killed"}]
      /\ copy \in [Sessions -> Row] /\ goal \in [Sessions -> Statuses] /\ row \in Row
  BY <1>1 DEF Init
<1> QED
  BY <1>2 DEF Init, TypeOK

LEMMA StartTyped == ASSUME TypeOK, NEW s \in Sessions, Start(s) PROVE TypeOK'
<1> USE DEF TypeOK, Row, Statuses, Begin, Goto, Finish, Monitors, fixed, exchange, history
<1>1. CASE StartApprove(s)
  BY <1>1 DEF StartApprove
<1>2. CASE StartReject(s)
  BY <1>2 DEF StartReject
<1>3. CASE StartCancel(s)
  BY <1>3 DEF StartCancel
<1>4. CASE StartFill(s)
  BY <1>4 DEF StartFill
<1>5. CASE StartClose(s)
  BY <1>5 DEF StartClose
<1>6. CASE SetDeleted(s)
  BY <1>6 DEF SetDeleted
<1> QED
  BY <1>1, <1>2, <1>3, <1>4, <1>5, <1>6 DEF Start

LEMMA AdvanceTyped == ASSUME TypeOK, NEW s \in Sessions, Advance(s) PROVE TypeOK'
<1> USE DEF TypeOK, Row, Statuses, Goto, Finish, Settle, AcceptedAtExchange, Monitors, fixed,
            exchange, history
<1>1. CASE OrderAccepted(s)
  BY <1>1 DEF OrderAccepted
<1>2. CASE OrderRefused(s)
  BY <1>2 DEF OrderRefused
<1>3. CASE OrderReplyLost(s)
  BY <1>3 DEF OrderReplyLost
<1>4. CASE ApprovalBlocked(s)
  BY <1>4 DEF ApprovalBlocked
<1>5. CASE Reread(s)
  BY <1>5 DEF Reread
<1>6. CASE CancelWorking(s)
  BY <1>6 DEF CancelWorking
<1>7. CASE CloseConfirmed(s)
  BY <1>7 DEF CloseConfirmed
<1>8. CASE CloseAbandoned(s)
  BY <1>8 DEF CloseAbandoned
<1>9. CASE CloseReplyLost(s)
  BY <1>9 DEF CloseReplyLost
<1>10. CASE Write(s)
  BY <1>10 DEF Write, Outcome
<1> QED
  BY <1>1, <1>2, <1>3, <1>4, <1>5, <1>6, <1>7, <1>8, <1>9, <1>10 DEF Advance

LEMMA NextTyped == TypeOK /\ [Next]_vars => TypeOK'
<1> SUFFICES ASSUME TypeOK, [Next]_vars PROVE TypeOK'
  OBVIOUS
<1>1. CASE Persist
  BY <1>1 DEF Persist, TypeOK, Row, Statuses, Goto, fixed, exchange, history, Sessions
<1>2. CASE ExchangeFills
  BY <1>2 DEF ExchangeFills, TypeOK, fixed, history
<1>3. CASE Restart
  BY <1>3 DEF Restart, TypeOK, fixed, exchange, Running
<1>4. CASE UNCHANGED vars
  BY <1>4 DEF vars, TypeOK, fixed, exchange, history
<1> QED
  BY <1>1, <1>2, <1>3, <1>4, StartTyped, AdvanceTyped DEF Next

-----------------------------------------------------------------------------
(* The actors are different.                                               *)
LEMMA ActorsDiffer ==
  /\ Engine \notin Requests /\ FillMonitor \notin Requests /\ PositionMonitor \notin Requests
  /\ Engine # FillMonitor /\ Engine # PositionMonitor /\ FillMonitor # PositionMonitor
BY ActorsAssumption

(* The roles are kept.                                                     *)
LEMMA InitRoles == Init => Roles
BY DEF Init, Roles, Running

LEMMA NextRoles == TypeOK /\ Roles /\ [Next]_vars => Roles'
<1> SUFFICES ASSUME TypeOK, Roles, [Next]_vars PROVE Roles'
  OBVIOUS
<1> USE ActorsDiffer DEF TypeOK, Roles, Running, Sessions, Monitors, Goto, fixed
<1>1. CASE Persist
  BY <1>1 DEF Persist
<1>2. ASSUME NEW s \in Sessions, Start(s) PROVE Roles'
  <2>1. CASE StartApprove(s)
    <3>1. s \in Requests /\ pc' = [pc EXCEPT ![s] = "ordering"] /\ UNCHANGED <<origin, live>>
      BY <2>1 DEF StartApprove, Begin
    <3> QED
      BY <3>1
  <2>2. CASE StartReject(s)
    BY <2>2 DEF StartReject, Begin
  <2>3. CASE StartCancel(s)
    BY <2>3 DEF StartCancel, Begin
  <2>4. CASE StartFill(s) \/ StartClose(s)
    BY <2>4 DEF StartFill, StartClose, Begin, Fillable
  <2>5. CASE SetDeleted(s)
    BY <2>5 DEF SetDeleted, Finish
  <2> QED
    BY <1>2, <2>1, <2>2, <2>3, <2>4, <2>5 DEF Start
<1>3. ASSUME NEW s \in Sessions, Advance(s) PROVE Roles'
  BY <1>3 DEF Advance, Finish, Settle, OrderAccepted, OrderRefused, OrderReplyLost,
              ApprovalBlocked, Reread, CancelWorking, CloseConfirmed, CloseAbandoned,
              CloseReplyLost, Write
<1>4. CASE ExchangeFills
  BY <1>4 DEF ExchangeFills
<1>5. CASE Restart
  BY <1>5 DEF Restart
<1>6. CASE UNCHANGED vars
  BY <1>6 DEF vars
<1> QED
  BY <1>1, <1>2, <1>3, <1>4, <1>5, <1>6 DEF Next

-----------------------------------------------------------------------------
(* Nothing but an accepted order or a fill on paper makes a row come alive. *)
LEMMA StartKeepsNotAlive ==
  ASSUME TypeOK, NotAlive, NEW s \in Sessions, Start(s), ~StartFill(s)
  PROVE  NotAlive'
<1> USE DEF TypeOK, NotAlive, Begin, Goto
<1>1. CASE StartApprove(s) \/ StartReject(s) \/ StartCancel(s)
  BY <1>1 DEF StartApprove, StartReject, StartCancel
<1>2. CASE StartClose(s)
  BY <1>2 DEF StartClose
<1>3. CASE SetDeleted(s)
  BY <1>3 DEF SetDeleted, Row, Finish
<1> QED
  BY <1>1, <1>2, <1>3 DEF Start

LEMMA AdvanceKeepsNotAlive ==
  ASSUME TypeOK, NotAlive, NEW s \in Sessions, Advance(s), ~OrderAccepted(s)
  PROVE  NotAlive'
<1> USE DEF TypeOK, NotAlive, Goto
<1>1. CASE OrderRefused(s) \/ OrderReplyLost(s)
  BY <1>1 DEF OrderRefused, OrderReplyLost, Settle
<1>2. CASE ApprovalBlocked(s) \/ Reread(s)
  BY <1>2 DEF ApprovalBlocked, Reread, Finish
<1>3. CASE Write(s)
  BY <1>3 DEF Write, Outcome, Finish, Row
<1> QED
  BY <1>1, <1>2, <1>3 DEF Advance, CancelWorking, CloseConfirmed, CloseAbandoned, CloseReplyLost

LEMMA OthersKeepNotAlive ==
  TypeOK /\ NotAlive /\ (Persist \/ ExchangeFills \/ Restart \/ UNCHANGED vars) => NotAlive'
<1> SUFFICES ASSUME TypeOK, NotAlive, Persist \/ ExchangeFills \/ Restart \/ UNCHANGED vars
             PROVE  NotAlive'
  OBVIOUS
<1> USE DEF TypeOK, NotAlive
<1>1. CASE Persist
  BY <1>1 DEF Persist, Goto
<1>2. CASE ExchangeFills
  BY <1>2 DEF ExchangeFills
<1>3. CASE Restart
  BY <1>3 DEF Restart
<1> QED
  BY <1>1, <1>2, <1>3 DEF vars

(* What distinguishes the two ways never changes, or the row came alive by *)
(* one of them for good.                                                   *)
LEMMA HistoryGrows ==
  TypeOK /\ [Next]_vars => /\ origin' = origin /\ live' = live /\ routed' = routed
                           /\ approved => approved'
                           /\ placed' >= placed
BY DEF TypeOK, Next, Start, Advance, Persist, StartApprove, StartReject, StartCancel, StartFill,
       StartClose, SetDeleted, OrderAccepted, OrderRefused, OrderReplyLost, ApprovalBlocked,
       Reread, CancelWorking, CloseConfirmed, CloseAbandoned, CloseReplyLost, Write,
       ExchangeFills, Restart, AcceptedAtExchange, vars, fixed, exchange, history

LEMMA InitAlive == Init => Alive
BY DEF Init, Alive, NotAlive, NoRow

LEMMA NextAlive == IInv /\ [Next]_vars => Alive'
<1> SUFFICES ASSUME IInv, [Next]_vars PROVE Alive'
  OBVIOUS
<1> USE DEF IInv
<1>1. \/ NotAlive => NotAlive'
      \/ \E s \in Sessions : OrderAccepted(s) \/ StartFill(s)
  BY StartKeepsNotAlive, AdvanceKeepsNotAlive, OthersKeepNotAlive DEF Next
<1>2. CASE NotAlive => NotAlive'
  BY <1>2, HistoryGrows DEF Alive, TypeOK
<1>3. ASSUME NEW s \in Sessions, OrderAccepted(s) PROVE Alive'
  <2>1. s \in Requests => approved'
    BY <1>3 DEF OrderAccepted
  <2>2. s \notin Requests => origin' # "draft"
    BY <1>3, HistoryGrows DEF OrderAccepted, Roles
  <2>3. live' /\ routed' => placed' > 0
    BY <1>3 DEF OrderAccepted, AcceptedAtExchange, TypeOK, fixed
  <2> QED
    BY <2>1, <2>2, <2>3 DEF Alive
<1>4. ASSUME NEW s \in Sessions, StartFill(s) PROVE Alive'
  BY <1>4, HistoryGrows DEF StartFill, Fillable, Alive
<1> QED
  BY <1>1, <1>2, <1>3, <1>4

(* The invariant of every behaviour.                                       *)
THEOREM Invariance == Spec => []IInv
<1>1. Init => IInv
  BY InitTyped, InitRoles, InitAlive DEF IInv
<1>2. IInv /\ [Next]_vars => IInv'
  BY NextTyped, NextRoles, NextAlive DEF IInv
<1> QED
  BY <1>1, <1>2, PTL DEF Spec

(* Every variable holds a value of its type, whatever the requests and the *)
(* disturbances.                                                           *)
THEOREM TypeCorrect == Spec => []TypeOK
<1>1. IInv => TypeOK
  BY DEF IInv
<1> QED
  BY <1>1, Invariance, PTL

(* No draft is ever in the market without an approval that was carried     *)
(* out.                                                                    *)
THEOREM DraftsAwaitApproval == Spec => []ApprovalGate
<1>1. IInv => ApprovalGate
  BY DEF IInv, Alive, NotAlive, ApprovalGate
<1> QED
  BY <1>1, Invariance, PTL

-----------------------------------------------------------------------------
(* Handlers one at a time.                                                 *)
LEMMA SerialBefore == TypeOK /\ [Next]_vars /\ Serial' => Serial
<1> SUFFICES ASSUME TypeOK, [Next]_vars, Serial' PROVE Serial
  OBVIOUS
<1>1. live /\ routed
  BY HistoryGrows DEF Serial
<1>2. ASSUME NEW s \in Sessions, Start(s)
      PROVE  (overlapped => overlapped') /\ (undue => undue') /\ (interrupted => interrupted')
  <2>1. overlapped => overlapped'
    BY <1>2 DEF Start, Begin, StartApprove, StartReject, StartCancel, StartFill, StartClose,
                SetDeleted, history
  <2>2. CASE StartApprove(s) \/ StartReject(s)
    <3>1. undue' = (undue \/ row.status # "PENDING")
      BY <2>2 DEF StartApprove, StartReject
    <3>2. interrupted' = interrupted
      BY <2>2 DEF StartApprove, StartReject
    <3> QED
      BY <2>1, <3>1, <3>2, Zenon
  <2>3. CASE StartCancel(s) \/ StartFill(s) \/ StartClose(s) \/ SetDeleted(s)
    BY <2>1, <2>3 DEF StartCancel, StartFill, StartClose, SetDeleted, history
  <2> QED
    BY <1>2, <2>1, <2>2, <2>3 DEF Start
<1>3. ASSUME NEW s \in Sessions, Advance(s)
      PROVE  (overlapped => overlapped') /\ (undue => undue') /\ (interrupted => interrupted')
  BY <1>3 DEF Advance, OrderAccepted, OrderRefused, OrderReplyLost, ApprovalBlocked, Reread,
              CancelWorking, CloseConfirmed, CloseAbandoned, CloseReplyLost, Write, history
<1>4. (overlapped => overlapped') /\ (undue => undue') /\ (interrupted => interrupted')
  BY <1>2, <1>3 DEF Next, Persist, ExchangeFills, Restart, vars, history
<1> QED
  BY <1>1, <1>4 DEF Serial

LEMMA InitOneAtWork == Init => OneAtWork
BY DEF Init, OneAtWork, Running, Settled, Standing, NoRow

(* A handler that begins begins alone, on a row at rest.                   *)
LEMMA BeginsAlone ==
  ASSUME TypeOK, OneAtWork, Serial, NEW s \in Sessions, NEW label, NEW status,
         Begin(s, label, status), ~overlapped'
  PROVE  /\ Settled
         /\ \A t \in Sessions : ~Running(t)
         /\ \A t \in Sessions : Running(t)' => t = s
         /\ pc'[s] = label /\ copy'[s] = row /\ goal'[s] = status
<1>1. \A t \in Sessions : ~Running(t)
  BY DEF Begin
<1>2. Settled
  BY <1>1 DEF OneAtWork, Quiescent
<1>3. pc' = [pc EXCEPT ![s] = label]
  BY DEF Begin, Goto
<1>4. \A t \in Sessions : Running(t)' => t = s
  BY <1>1, <1>3 DEF Running, TypeOK
<1>5. pc'[s] = label /\ copy'[s] = row /\ goal'[s] = status
  BY DEF Begin, Goto, TypeOK
<1> QED
  BY <1>1, <1>2, <1>4, <1>5

(* To keep the invariant it is enough to say what becomes of the handler   *)
(* that moves, the others being at rest.                                   *)
LEMMA OneMoves ==
  ASSUME NEW s \in Sessions, \A t \in Sessions : Running(t)' => t = s,
         Running(s)' => AtWork(s)', ~Running(s)' => Settled'
  PROVE  OneAtWork'
BY DEF OneAtWork, Quiescent

LEMMA StartKeepsOne ==
  ASSUME IInv, OneAtWork, Serial, NEW s \in Sessions, Start(s), Serial'
  PROVE  OneAtWork'
<1> USE DEF IInv
<1>1. CASE StartApprove(s)
  <2>1. Begin(s, "ordering", "NONE") /\ UNCHANGED <<row, working, position, placed>>
    BY <1>1 DEF StartApprove, exchange
  <2>2. row.status = "PENDING"
    BY <1>1 DEF StartApprove, Serial
  <2>3. AtWork(s)'
    BY <2>1, <2>2, BeginsAlone DEF AtWork, Settled, Serial, Standing, TypeOK
  <2> QED
    BY <2>1, <2>3, BeginsAlone, OneMoves DEF Serial, Running
<1>2. CASE StartReject(s)
  <2>1. Begin(s, "writing", "CANCELLED") /\ UNCHANGED <<row, working, position, placed>>
    BY <1>2 DEF StartReject, exchange
  <2>2. row.status = "PENDING"
    BY <1>2 DEF StartReject, Serial
  <2>3. AtWork(s)'
    BY <2>1, <2>2, BeginsAlone DEF AtWork, Settled, Serial, Standing, TypeOK
  <2> QED
    BY <2>1, <2>3, BeginsAlone, OneMoves DEF Serial, Running
<1>3. CASE StartCancel(s)
  <2>1. UNCHANGED <<row, working, position, placed>>
    BY <1>3 DEF StartCancel, exchange
  <2>2. CASE row.status = "PENDING" /\ Begin(s, "writing", "CANCELLED")
    <3>1. AtWork(s)'
      BY <2>1, <2>2, BeginsAlone DEF AtWork, Settled, Serial, Standing, TypeOK
    <3> QED
      BY <2>2, <3>1, BeginsAlone, OneMoves DEF Serial, Running
  <2>3. CASE row.status = "ACTIVE" /\ Begin(s, "closing", "CLOSED")
    <3>1. AtWork(s)'
      BY <2>1, <2>3, BeginsAlone DEF AtWork, Settled, Serial, Standing, TypeOK
    <3> QED
      BY <2>3, <3>1, BeginsAlone, OneMoves DEF Serial, Running
  <2> QED
    BY <1>3, <2>2, <2>3 DEF StartCancel
<1>4. CASE StartFill(s)
  BY <1>4 DEF StartFill, Fillable, Serial
<1>5. CASE StartClose(s)
  <2>1. Begin(s, "closing", "CLOSED") /\ row.status = "ACTIVE" /\ UNCHANGED <<row, working, position, placed>>
    BY <1>5 DEF StartClose, exchange
  <2>2. AtWork(s)'
    BY <2>1, BeginsAlone DEF AtWork, Settled, Serial, Standing, TypeOK
  <2> QED
    BY <2>1, <2>2, BeginsAlone, OneMoves DEF Serial, Running
<1>6. CASE SetDeleted(s)
  <2>1. /\ pc' = [pc EXCEPT ![s] = "done"] \/ pc' = [pc EXCEPT ![s] = "idle"]
        /\ pc[s] = "idle"
        /\ UNCHANGED <<copy, goal, working, position, placed>>
    BY <1>6 DEF SetDeleted, Finish, Goto, exchange
  <2>2. row'.status = row.status
    BY <1>6 DEF SetDeleted, TypeOK, Row
  <2>3. \A t \in Sessions : Running(t)' <=> Running(t)
    BY <2>1 DEF Running, TypeOK
  <2>4. \A t \in Sessions : Running(t) => pc'[t] = pc[t]
    BY <2>1 DEF Running, TypeOK
  <2>5. \A t \in Sessions : Running(t) /\ AtWork(t) => AtWork(t)'
    BY <2>1, <2>2, <2>4 DEF AtWork, Standing
  <2>6. Settled => Settled'
    BY <2>1, <2>2 DEF Settled, Standing
  <2> QED
    BY <2>3, <2>5, <2>6 DEF OneAtWork, Quiescent
<1> QED
  BY <1>1, <1>2, <1>3, <1>4, <1>5, <1>6 DEF Start

(* A handler at work is the only one, and its step leaves it at work or    *)
(* the row at rest.                                                        *)
LEMMA WorksAlone ==
  ASSUME TypeOK, OneAtWork, Serial, NEW s \in Sessions, Running(s), NEW label,
         pc' = [pc EXCEPT ![s] = label]
  PROVE  /\ AtWork(s)
         /\ \A t \in Sessions : Running(t)' => t = s
         /\ pc'[s] = label
BY DEF OneAtWork, Running, TypeOK

LEMMA Finishes ==
  ASSUME NEW s \in Sessions, Finish(s)
  PROVE  \E label \in {"idle", "done"} : pc' = [pc EXCEPT ![s] = label]
BY DEF Finish, Goto

LEMMA AdvanceKeepsOne ==
  ASSUME IInv, OneAtWork, Serial, NEW s \in Sessions, Advance(s), Serial'
  PROVE  OneAtWork'
<1> USE DEF IInv
<1>1. Running(s)
  BY DEF Running, Advance, OrderAccepted, OrderRefused, OrderReplyLost, ApprovalBlocked, Reread,
         CancelWorking, CloseConfirmed, CloseAbandoned, CloseReplyLost, Write
<1>2. AtWork(s)
  BY <1>1 DEF OneAtWork
<1>3. CASE OrderAccepted(s)
  <2>1. PICK label \in {"rereading", "writing"} : pc' = [pc EXCEPT ![s] = label]
    BY <1>3 DEF OrderAccepted, Settle, Goto
  <2>2. /\ goal'[s] = "ACTIVE" /\ pc[s] = "ordering" /\ UNCHANGED <<row, copy>>
        /\ placed' = placed + 1 /\ Standing' = Standing + 1
    BY <1>3 DEF OrderAccepted, Settle, AcceptedAtExchange, Serial, TypeOK, Standing
  <2>3. AtWork(s)'
    <3>1. pc'[s] = label
      BY <1>1, <2>1, WorksAlone
    <3> QED
      BY <1>2, <2>2, <3>1 DEF AtWork
  <2> QED
    BY <1>1, <2>1, <2>3, WorksAlone, OneMoves DEF Running
<1>4. CASE OrderRefused(s)
  <2>1. PICK label \in {"rereading", "writing"} : pc' = [pc EXCEPT ![s] = label]
    BY <1>4 DEF OrderRefused, Settle, Goto
  <2>2. /\ goal'[s] = "ERROR" /\ pc[s] = "ordering"
        /\ UNCHANGED <<row, copy, placed, working, position>>
    BY <1>4 DEF OrderRefused, Settle, TypeOK, exchange
  <2>3. AtWork(s)'
    <3>1. pc'[s] = label
      BY <1>1, <2>1, WorksAlone
    <3> QED
      BY <1>2, <2>2, <3>1 DEF AtWork, Standing
  <2> QED
    BY <1>1, <2>1, <2>3, WorksAlone, OneMoves DEF Running
<1>5. CASE OrderReplyLost(s) \/ CloseReplyLost(s)
  BY <1>5 DEF OrderReplyLost, CloseReplyLost, Serial
<1>6. CASE ApprovalBlocked(s) \/ CloseAbandoned(s)
  <2>1. PICK label \in {"idle", "done"} : pc' = [pc EXCEPT ![s] = label]
    BY <1>6, Finishes DEF ApprovalBlocked, CloseAbandoned
  <2>2. pc[s] \in {"ordering", "closing"} /\ UNCHANGED <<row, placed, working, position>>
    BY <1>6 DEF ApprovalBlocked, CloseAbandoned, exchange
  <2>3. Settled'
    BY <1>2, <2>2 DEF AtWork, Settled, Standing
  <2> QED
    BY <1>1, <2>1, <2>3, WorksAlone, OneMoves DEF Running
<1>7. CASE Reread(s)
  <2>1. pc' = [pc EXCEPT ![s] = "writing"]
    BY <1>7 DEF Reread, Goto
  <2>2. copy'[s] = row /\ pc[s] = "rereading" /\ UNCHANGED <<row, goal, placed, working, position>>
    BY <1>7 DEF Reread, exchange, TypeOK
  <2>3. pc'[s] = "writing" /\ \A t \in Sessions : Running(t)' => t = s
    BY <1>1, <2>1, WorksAlone
  <2>4. AtWork(s)'
    BY <1>2, <2>2, <2>3 DEF AtWork, Standing
  <2> QED
    BY <2>3, <2>4, OneMoves DEF Running
<1>8. CASE CancelWorking(s)
  <2>1. pc' = [pc EXCEPT ![s] = "writing"]
    BY <1>8 DEF CancelWorking, Goto
  <2>2. /\ goal'[s] = "CANCELLED" /\ pc[s] = "closing" /\ UNCHANGED <<row, copy, placed>>
        /\ Standing' = Standing - 1
    BY <1>8 DEF CancelWorking, TypeOK, Standing
  <2>3. pc'[s] = "writing" /\ \A t \in Sessions : Running(t)' => t = s
    BY <1>1, <2>1, WorksAlone
  <2>4. AtWork(s)'
    BY <1>2, <2>2, <2>3 DEF AtWork
  <2> QED
    BY <2>3, <2>4, OneMoves DEF Running
<1>9. CASE CloseConfirmed(s)
  <2>1. pc' = [pc EXCEPT ![s] = "writing"]
    BY <1>9 DEF CloseConfirmed, Goto
  <2>2. /\ pc[s] = "closing" /\ UNCHANGED <<row, copy, goal, placed>>
        /\ Standing = 1 => Standing' = 0
    BY <1>9 DEF CloseConfirmed, TypeOK, Standing, Serial
  <2>3. pc'[s] = "writing" /\ \A t \in Sessions : Running(t)' => t = s
    BY <1>1, <2>1, WorksAlone
  <2>4. AtWork(s)'
    BY <1>2, <2>2, <2>3 DEF AtWork
  <2> QED
    BY <2>3, <2>4, OneMoves DEF Running
<1>10. CASE Write(s)
  <2>1. PICK label \in {"idle", "done"} : pc' = [pc EXCEPT ![s] = label]
    BY <1>10, Finishes DEF Write
  <2>2. pc[s] = "writing" /\ UNCHANGED <<placed, working, position>>
    BY <1>10 DEF Write, exchange
  <2>3. Outcome(s) = goal[s]
    BY <1>2 DEF AtWork, Outcome
  <2>4. row'.status = goal[s]
    <3>1. CASE goal[s] = copy[s].status
      BY <1>2, <1>10, <2>3, <3>1 DEF AtWork, Write
    <3>2. CASE goal[s] # copy[s].status
      <4>1. row' = [row EXCEPT !.status = goal[s]]
        BY <1>10, <2>3, <3>2 DEF Write
      <4> QED
        BY <4>1 DEF TypeOK, Row
    <3> QED
      BY <3>1, <3>2
  <2>5. Settled'
    BY <1>2, <2>2, <2>4 DEF AtWork, Settled, Standing, TypeOK
  <2> QED
    BY <1>1, <2>1, <2>5, WorksAlone, OneMoves DEF Running
<1> QED
  BY <1>3, <1>4, <1>5, <1>6, <1>7, <1>8, <1>9, <1>10 DEF Advance

LEMMA NextOneAtWork == IInv /\ OneAtWork /\ [Next]_vars => OneAtWork'
<1> SUFFICES ASSUME IInv, OneAtWork, [Next]_vars, Serial' PROVE OneAtWork'
  BY DEF OneAtWork
<1>1. Serial
  BY SerialBefore DEF IInv
<1>2. CASE Persist
  <2>1. \A s \in Sessions : ~Running(s)
    BY <1>1, <1>2 DEF OneAtWork, AtWork, Persist
  <2>2. Settled /\ Engine \in Sessions
    BY <1>1, <2>1 DEF OneAtWork, Quiescent, Sessions
  <2>3. PICK label \in {"done", "ordering"} : pc' = [pc EXCEPT ![Engine] = label]
    BY <1>2 DEF Persist, Goto
  <2>4. \A t \in Sessions : Running(t)' => t = Engine
    BY <2>1, <2>3 DEF Running, IInv, TypeOK
  <2>5. /\ row'.status = "PENDING" /\ copy'[Engine] = row' /\ row.status = "NONE"
        /\ pc'[Engine] = label
        /\ UNCHANGED <<goal, placed, working, position>>
    BY <1>2, <2>2, <2>3 DEF Persist, IInv, TypeOK, exchange
  <2>6. label = "ordering" => AtWork(Engine)'
    BY <2>2, <2>5 DEF AtWork, Settled, Standing, IInv, TypeOK
  <2>7. label = "done" => Settled'
    BY <2>2, <2>5 DEF Settled, Standing
  <2> QED
    BY <2>2, <2>4, <2>5, <2>6, <2>7, OneMoves DEF Running
<1>3. CASE ExchangeFills
  <2>1. Standing' = Standing /\ UNCHANGED <<row, placed, pc, copy, goal>>
    BY <1>3 DEF ExchangeFills, Standing, IInv, TypeOK
  <2> QED
    BY <1>1, <2>1 DEF OneAtWork, AtWork, Settled, Running, Quiescent
<1>4. CASE Restart
  BY <1>4 DEF Restart, Serial
<1>5. CASE UNCHANGED vars
  BY <1>1, <1>5 DEF OneAtWork, AtWork, Settled, Running, Quiescent, Standing, vars, exchange
<1> QED
  BY <1>1, <1>2, <1>3, <1>4, <1>5, StartKeepsOne, AdvanceKeepsOne DEF Next

(* The invariant of handlers that run one at a time.                       *)
THEOREM SerialInvariance == Spec => []OneAtWork
<1>1. IInv /\ OneAtWork /\ [Next]_vars => OneAtWork'
  BY NextOneAtWork
<1> QED
  BY <1>1, InitOneAtWork, Invariance, PTL DEF Spec

(* What the row says, an order at the exchange stands for: a live row that *)
(* came alive was ordered, and of handlers one at a time at most once, the *)
(* row being ACTIVE exactly while something stands at the exchange.        *)
THEOREM RowsAreBacked == Spec => []RowsMatchOrders
<1>1. IInv /\ OneAtWork => OneOrderOnePosition
  BY DEF IInv, TypeOK, OneAtWork, Serial, Settled, Standing, OneOrderOnePosition
<1>2. IInv => LiveRowWasOrdered
  BY DEF IInv, TypeOK, Alive, NotAlive, LiveRowWasOrdered
<1>3. IInv /\ OneAtWork => RowsMatchOrders
  BY <1>1, <1>2 DEF RowsMatchOrders
<1> QED
  BY <1>3, Invariance, SerialInvariance, PTL
=============================================================================

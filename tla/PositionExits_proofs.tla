------------------------- MODULE PositionExits_proofs -------------------------
(* Proofs about PositionExits, for any set of requests and any lot size.   *)
EXTENDS PositionExits, TLAPS

Holding(s) == pc[s] \in {"loaded", "executed"}

(* What a handler between its read and its write knows, however stale its  *)
(* copy is: the exchange never holds more than the copy says, nor more     *)
(* than the copy will say once the executed slice is recorded.             *)
Backed(s) ==
  /\ Holding(s) => /\ copy[s].status = "ACTIVE"
                   /\ copy[s].is_test => exposure = 0
                   /\ exposure <= copy[s].lot_size
  /\ pc[s] = "executed" => /\ plan[s] \in Slices(s)
                           /\ exposure <= After(copy[s], plan[s]).lot_size

Sound ==
  /\ exposure <= tradeRow.lot_size
  /\ tradeRow.status = "CLOSED" => exposure = 0
  /\ tradeRow.is_test => exposure = 0
  /\ \A s \in Sessions : Backed(s)

IInv == ExitsTypeOK /\ Sound

-----------------------------------------------------------------------------
(* Facts about slices and about the row they leave.                        *)

LEMMA SliceFacts ==
  ASSUME NEW s \in Sessions, copy[s] \in ExitRow, NEW p \in Slices(s)
  PROVE  /\ p \in Slice
         /\ p.qty \in 0..copy[s].lot_size
         /\ FullClose(p) => p.qty = copy[s].lot_size
  BY SizeAssumption DEF Slices, MonitorSlices, RequestSlices, Slice, Kinds, ExitRow, FullClose

LEMMA AfterFacts ==
  ASSUME NEW s \in Sessions, copy[s] \in ExitRow, NEW p \in Slices(s)
  PROVE  /\ After(copy[s], p) \in ExitRow
         /\ After(copy[s], p).lot_size \in 0..(copy[s].lot_size - p.qty)
         /\ After(copy[s], p).status = "CLOSED" \/ After(copy[s], p).status = copy[s].status
         /\ After(copy[s], p).status # copy[s].status => After(copy[s], p).lot_size = 0
<1>1. /\ p \in Slice
      /\ p.qty \in 0..copy[s].lot_size
      /\ FullClose(p) => p.qty = copy[s].lot_size
  BY SliceFacts
<1>2. copy[s].lot_size \in 0..Size /\ copy[s].fired \in SUBSET {1, 2} /\ p.level \in 0..2
  BY <1>1 DEF ExitRow, Slice
<1>3. Closes(copy[s], p) => p.qty = copy[s].lot_size
  BY <1>1 DEF Closes
<1>4. (IF p.level = 0 THEN copy[s].fired ELSE copy[s].fired \cup {p.level}) \in SUBSET {1, 2}
  BY <1>2
<1>5. (IF Closes(copy[s], p) THEN 0 ELSE copy[s].lot_size - p.qty) \in 0..Size
  BY <1>1, <1>2, SizeAssumption
<1>6. copy[s].status \in Statuses /\ copy[s].is_test \in BOOLEAN
  BY DEF ExitRow
<1>7. After(copy[s], p) \in ExitRow
  BY <1>4, <1>5, <1>6 DEF After, ExitRow, Statuses
<1>8. After(copy[s], p).lot_size \in 0..(copy[s].lot_size - p.qty)
  BY <1>1, <1>2, <1>3, SizeAssumption DEF After
<1> QED
  BY <1>7, <1>8 DEF After

(* The order a slice sends leaves no more open than the handler will       *)
(* record, as long as its copy was no smaller than the position.           *)
LEMMA ReducedFacts ==
  ASSUME NEW s \in Sessions, copy[s] \in ExitRow, NEW p \in Slices(s),
         exposure \in 0..Size, exposure <= copy[s].lot_size
  PROVE  /\ Reduced(p) \in 0..exposure
         /\ Reduced(p) <= After(copy[s], p).lot_size
         /\ exposure = copy[s].lot_size => Reduced(p) = After(copy[s], p).lot_size
<1>1. /\ p.qty \in 0..copy[s].lot_size
      /\ FullClose(p) => p.qty = copy[s].lot_size
      /\ copy[s].lot_size \in 0..Size
  BY SliceFacts DEF ExitRow
<1>2. Closes(copy[s], p) => p.qty = copy[s].lot_size
  BY <1>1 DEF Closes
<1>3. FullClose(p) => Closes(copy[s], p)
  BY DEF Closes
<1> QED
  BY <1>1, <1>2, <1>3, SizeAssumption DEF Reduced, After

(* Writing back only the changed columns keeps the row well formed, keeps  *)
(* a closed row closed, and takes lot_size from the copy or from the row.  *)
LEMMA FlushFacts ==
  ASSUME NEW r \in ExitRow, NEW c \in ExitRow, NEW a \in ExitRow
  PROVE  /\ FlushExit(r, c, a) \in ExitRow
         /\ FlushExit(r, c, a).is_test = r.is_test
         /\ FlushExit(r, c, a).lot_size \in {a.lot_size, r.lot_size}
         /\ FlushExit(r, c, a).status \in {a.status, r.status}
         /\ a.status = c.status => FlushExit(r, c, a).status = r.status
         /\ a.status # c.status => FlushExit(r, c, a).status = a.status
  BY DEF FlushExit, ExitColumn, ExitRow

-----------------------------------------------------------------------------
(* The inductive invariant.                                                *)

LEMMA NoCopyTyped == NoLoadedRow \in ExitRow
  BY SizeAssumption DEF NoLoadedRow, ExitRow, Statuses

LEMMA NoSliceTyped == NoSlice \in Slice
  BY SizeAssumption DEF NoSlice, Slice

LEMMA InitIInv == ExitsInit => IInv
<1> SUFFICES ASSUME ExitsInit PROVE IInv
  OBVIOUS
<1>1. tradeRow \in ExitRow
  BY SizeAssumption DEF ExitsInit, ExitRow, Statuses
<1>2. exposure \in 0..Size
  BY SizeAssumption DEF ExitsInit
<1>3. ExitsTypeOK
  BY <1>1, <1>2, NoCopyTyped, NoSliceTyped DEF ExitsInit, ExitsTypeOK
<1>4. Sound
  BY SizeAssumption DEF ExitsInit, Sound, Backed, Holding
<1> QED
  BY <1>3, <1>4 DEF IInv

(* A handler that ends leaves the other handlers' knowledge alone.         *)
LEMMA DoneTyped ==
  ASSUME ExitsTypeOK, NEW s \in Sessions, Done(s)
  PROVE  /\ pc' \in [Sessions -> {"idle", "loaded", "executed", "charging"}]
         /\ copy' \in [Sessions -> ExitRow]
         /\ plan' \in [Sessions -> Slice]
         /\ \A t \in Sessions :
              IF t = s THEN pc'[t] = "idle"
              ELSE pc'[t] = pc[t] /\ copy'[t] = copy[t] /\ plan'[t] = plan[t]
  BY NoCopyTyped, NoSliceTyped DEF ExitsTypeOK, Done

(* A handler that does not move keeps what it knows: the position at the   *)
(* exchange only ever shrinks.                                             *)
LEMMA BystanderBacked ==
  ASSUME IInv, NEW t \in Sessions, exposure' \in 0..exposure,
         pc'[t] = pc[t], copy'[t] = copy[t], plan'[t] = plan[t]
  PROVE  Backed(t)'
<1>1. exposure \in Nat /\ copy[t] \in ExitRow /\ Backed(t)
  BY SizeAssumption DEF IInv, ExitsTypeOK, Sound
<1>2. copy[t].lot_size \in Nat
  BY <1>1, SizeAssumption DEF ExitRow
<1>3. Holding(t)' = Holding(t) /\ Slices(t)' = Slices(t)
  BY DEF Holding, Slices
<1>4. After(copy[t], plan[t])' = After(copy[t], plan[t])
  BY DEF After, Closes, FullClose
<1>5. plan[t] \in Slices(t) => After(copy[t], plan[t]).lot_size \in Nat
  BY <1>1, AfterFacts, SizeAssumption DEF ExitRow
<1> QED
  BY <1>1, <1>2, <1>3, <1>4, <1>5 DEF Backed

(* An ended handler has nothing left to be right about.                    *)
LEMMA IdleBacked ==
  ASSUME NEW t \in Sessions, pc'[t] \in {"idle", "charging"}
  PROVE  Backed(t)'
  BY DEF Backed, Holding

(* The steps that end a handler without touching row or exchange.          *)
LEMMA EndIInv ==
  ASSUME IInv, NEW s \in Sessions, Done(s), UNCHANGED <<tradeRow, exposure>>,
         feeLots' \in Nat, overlapped' \in BOOLEAN, interrupted' \in BOOLEAN
  PROVE  IInv'
<1>1. ExitsTypeOK'
  BY DoneTyped DEF IInv, ExitsTypeOK
<1>2. exposure' \in 0..exposure
  BY SizeAssumption DEF IInv, ExitsTypeOK
<1>3. ASSUME NEW t \in Sessions PROVE Backed(t)'
  BY <1>2, DoneTyped, BystanderBacked, IdleBacked DEF IInv
<1> QED
  BY <1>1, <1>3 DEF IInv, Sound

LEMMA LoadIInv == ASSUME IInv, NEW s \in Sessions, Load(s) PROVE IInv'
<1>1. ExitsTypeOK'
  BY DEF IInv, ExitsTypeOK, Load
<1>2. /\ tradeRow.status = "ACTIVE" /\ exposure <= tradeRow.lot_size
      /\ tradeRow.is_test => exposure = 0
      /\ exposure' \in 0..exposure
  BY SizeAssumption DEF IInv, ExitsTypeOK, Sound, Load
<1>3. ASSUME NEW t \in Sessions PROVE Backed(t)'
  <2>1. CASE t = s
    BY <1>2, <2>1 DEF IInv, ExitsTypeOK, Load, Backed, Holding
  <2>2. CASE t # s
    BY <1>2, <2>2, BystanderBacked DEF IInv, ExitsTypeOK, Load
  <2> QED
    BY <2>1, <2>2
<1> QED
  BY <1>1, <1>3 DEF IInv, Sound, Load

LEMMA BrokerConfirmsIInv ==
  ASSUME IInv, NEW s \in Sessions, BrokerConfirms(s) PROVE IInv'
<1>1. PICK p \in Slices(s) : /\ exposure' = Reduced(p)
                             /\ plan' = [plan EXCEPT ![s] = p]
  BY DEF BrokerConfirms
<1>2. /\ copy[s] \in ExitRow /\ copy[s].status = "ACTIVE" /\ ~copy[s].is_test
      /\ exposure \in 0..Size /\ exposure <= copy[s].lot_size
  BY DEF IInv, ExitsTypeOK, Sound, Backed, Holding, BrokerConfirms
<1>3. p \in Slice
  BY <1>2, SliceFacts
<1>4. exposure' \in 0..exposure /\ exposure' <= After(copy[s], p).lot_size
  BY <1>1, <1>2, ReducedFacts
<1>5. ExitsTypeOK'
  BY <1>1, <1>2, <1>3, <1>4, SizeAssumption DEF IInv, ExitsTypeOK, BrokerConfirms
<1>6. ASSUME NEW t \in Sessions PROVE Backed(t)'
  <2>1. CASE t = s
    <3>1. copy' = copy /\ pc'[s] = "executed" /\ plan'[s] = p
      BY <1>1 DEF IInv, ExitsTypeOK, BrokerConfirms
    <3>2. exposure' <= copy[s].lot_size
      BY <1>2, <1>4, SizeAssumption DEF ExitRow
    <3>3. After(copy[s], plan[s])' = After(copy[s], p) /\ Slices(s)' = Slices(s)
      BY <3>1 DEF After, Closes, FullClose, Slices
    <3> QED
      BY <1>2, <1>4, <2>1, <3>1, <3>2, <3>3 DEF Backed
  <2>2. CASE t # s
    BY <1>1, <1>4, <2>2, BystanderBacked DEF IInv, ExitsTypeOK, BrokerConfirms
  <2> QED
    BY <2>1, <2>2
<1>7. exposure' <= tradeRow.lot_size /\ (tradeRow.status = "CLOSED" => exposure' = 0)
      /\ (tradeRow.is_test => exposure' = 0)
  BY <1>2, <1>4, SizeAssumption DEF IInv, ExitsTypeOK, Sound, ExitRow
<1> QED
  BY <1>5, <1>6, <1>7 DEF IInv, Sound, BrokerConfirms

LEMMA BrokerReplyLostIInv ==
  ASSUME IInv, NEW s \in Sessions, BrokerReplyLost(s) PROVE IInv'
<1>1. PICK p \in Slices(s) : exposure' = Reduced(p)
  BY DEF BrokerReplyLost
<1>2. /\ copy[s] \in ExitRow /\ exposure \in 0..Size /\ exposure <= copy[s].lot_size
  BY DEF IInv, ExitsTypeOK, Sound, Backed, Holding, BrokerReplyLost
<1>3. exposure' \in 0..exposure
  BY <1>1, <1>2, ReducedFacts
<1>4. Done(s) /\ UNCHANGED <<tradeRow, feeLots, overlapped>> /\ interrupted' = TRUE
  BY DEF BrokerReplyLost
<1>5. ExitsTypeOK'
  BY <1>2, <1>3, <1>4, DoneTyped, SizeAssumption DEF IInv, ExitsTypeOK
<1>6. ASSUME NEW t \in Sessions PROVE Backed(t)'
  BY <1>3, <1>4, DoneTyped, BystanderBacked, IdleBacked DEF IInv
<1>7. exposure' <= tradeRow.lot_size /\ (tradeRow.status = "CLOSED" => exposure' = 0)
      /\ (tradeRow.is_test => exposure' = 0)
  BY <1>2, <1>3, SizeAssumption DEF IInv, ExitsTypeOK, Sound, ExitRow
<1> QED
  BY <1>4, <1>5, <1>6, <1>7 DEF IInv, Sound

LEMMA PaperSliceIInv ==
  ASSUME IInv, NEW s \in Sessions, PaperSlice(s) PROVE IInv'
<1>1. PICK p \in Slices(s) : plan' = [plan EXCEPT ![s] = p]
  BY DEF PaperSlice
<1>2. /\ copy[s] \in ExitRow /\ copy[s].status = "ACTIVE" /\ exposure = 0
      /\ pc'[s] = "executed" /\ plan'[s] = p /\ UNCHANGED <<tradeRow, exposure, copy>>
  BY <1>1 DEF IInv, ExitsTypeOK, Sound, Backed, Holding, PaperSlice
<1>3. p \in Slice /\ After(copy[s], p).lot_size \in Nat
  BY <1>2, SliceFacts, AfterFacts, SizeAssumption DEF ExitRow
<1>4. ExitsTypeOK'
  BY <1>1, <1>3 DEF IInv, ExitsTypeOK, PaperSlice
<1>5. ASSUME NEW t \in Sessions PROVE Backed(t)'
  <2>1. CASE t = s
    <3>1. After(copy[s], plan[s])' = After(copy[s], p) /\ Slices(s)' = Slices(s)
      BY <1>2 DEF After, Closes, FullClose, Slices
    <3>2. copy[s].lot_size \in Nat
      BY <1>2 DEF ExitRow
    <3> QED
      BY <1>2, <1>3, <2>1, <3>1, <3>2 DEF Backed
  <2>2. CASE t # s
    BY <1>1, <1>2, <2>2, BystanderBacked DEF IInv, ExitsTypeOK, PaperSlice
  <2> QED
    BY <2>1, <2>2
<1> QED
  BY <1>2, <1>4, <1>5 DEF IInv, Sound

(* The blind write is safe in one direction: both the row and the copy     *)
(* were at least as large as the position.                                 *)
LEMMA WrittenFacts ==
  ASSUME IInv, NEW s \in Sessions, pc[s] = "executed"
  PROVE  /\ Written(s) \in ExitRow
         /\ exposure <= Written(s).lot_size
         /\ Written(s).status = "CLOSED" => exposure = 0
         /\ Written(s).is_test = tradeRow.is_test
         /\ tradeRow.status = "CLOSED" => Written(s).status = "CLOSED"
<1>1. /\ tradeRow \in ExitRow /\ copy[s] \in ExitRow /\ exposure \in Nat
      /\ copy[s].status = "ACTIVE" /\ plan[s] \in Slices(s)
      /\ exposure <= After(copy[s], plan[s]).lot_size
      /\ exposure <= tradeRow.lot_size
      /\ tradeRow.status = "CLOSED" => exposure = 0
  BY DEF IInv, ExitsTypeOK, Sound, Backed, Holding
<1>2. PICK a \in ExitRow : a = After(copy[s], plan[s])
  BY <1>1, AfterFacts
<1>3. Written(s) = FlushExit(tradeRow, copy[s], a)
  BY <1>2 DEF Written
<1>4. exposure <= a.lot_size /\ (a.status # "ACTIVE" => a.status = "CLOSED" /\ exposure = 0)
  <2>1. a.status # "ACTIVE" => a.status = "CLOSED" /\ a.lot_size = 0
    BY <1>1, <1>2, AfterFacts
  <2> QED
    BY <1>1, <1>2, <2>1
<1>5. Written(s) \in ExitRow /\ Written(s).is_test = tradeRow.is_test
  BY <1>1, <1>3, FlushFacts
<1>6. exposure <= Written(s).lot_size
  BY <1>1, <1>3, <1>4, FlushFacts
<1>7. CASE a.status = "ACTIVE"
  <2>1. Written(s).status = tradeRow.status
    BY <1>1, <1>3, <1>7, FlushFacts
  <2> QED
    BY <1>1, <1>5, <1>6, <2>1
<1>8. CASE a.status # "ACTIVE"
  <2>1. Written(s).status = "CLOSED" /\ exposure = 0
    BY <1>1, <1>3, <1>4, <1>8, FlushFacts
  <2> QED
    BY <1>5, <1>6, <2>1
<1> QED
  BY <1>7, <1>8

LEMMA CommitIInv ==
  ASSUME IInv, NEW s \in Sessions, CommitSlice(s) \/ CommitAlert(s) PROVE IInv'
<1>1. /\ pc[s] = "executed" /\ tradeRow' = Written(s)
      /\ UNCHANGED <<exposure, overlapped, interrupted>>
      /\ \/ Done(s)
         \/ /\ pc' = [pc EXCEPT ![s] = "charging"]
            /\ copy' = [copy EXCEPT ![s] = NoLoadedRow]
            /\ UNCHANGED plan
  BY DEF CommitSlice, CommitAlert
<1>2. feeLots' \in Nat
  BY DEF IInv, ExitsTypeOK, Slice, CommitSlice, CommitAlert
<1>3. ExitsTypeOK'
  BY <1>1, <1>2, DoneTyped, NoCopyTyped, WrittenFacts DEF IInv, ExitsTypeOK
<1>4. exposure' \in 0..exposure
  BY <1>1, SizeAssumption DEF IInv, ExitsTypeOK
<1>5. ASSUME NEW t \in Sessions PROVE Backed(t)'
  <2>1. CASE Done(s)
    BY <1>4, <2>1, DoneTyped, BystanderBacked, IdleBacked DEF IInv
  <2>2. CASE ~Done(s)
    BY <1>1, <1>4, <2>2, BystanderBacked, IdleBacked DEF IInv, ExitsTypeOK
  <2> QED
    BY <2>1, <2>2
<1>6. tradeRow.is_test => exposure = 0
  BY DEF IInv, Sound
<1> QED
  BY <1>1, <1>3, <1>5, <1>6, WrittenFacts DEF IInv, Sound

LEMMA RestartIInv == ASSUME IInv, ExitsRestart PROVE IInv'
<1>1. ExitsTypeOK'
  BY NoCopyTyped, NoSliceTyped DEF IInv, ExitsTypeOK, ExitsRestart
<1>2. ASSUME NEW t \in Sessions PROVE Backed(t)'
  BY IdleBacked DEF ExitsRestart
<1> QED
  BY <1>1, <1>2 DEF IInv, Sound, ExitsRestart

LEMMA ExchangeExitIInv == ASSUME IInv, ExchangeExit PROVE IInv'
<1>1. exposure' = 0 /\ exposure' \in 0..exposure
  BY SizeAssumption DEF IInv, ExitsTypeOK, ExchangeExit
<1>2. ExitsTypeOK'
  BY <1>1, SizeAssumption DEF IInv, ExitsTypeOK, ExchangeExit
<1>3. ASSUME NEW t \in Sessions PROVE Backed(t)'
  BY <1>1, BystanderBacked DEF ExchangeExit
<1>4. exposure' <= tradeRow.lot_size
  BY <1>1, SizeAssumption DEF IInv, ExitsTypeOK, ExitRow
<1> QED
  BY <1>1, <1>2, <1>3, <1>4 DEF IInv, Sound, ExchangeExit

LEMMA StepIInv == IInv /\ [ExitsNext]_exitsVars => IInv'
<1> SUFFICES ASSUME IInv, [ExitsNext]_exitsVars PROVE IInv'
  OBVIOUS
<1>1. ASSUME NEW s \in Sessions, Load(s) PROVE IInv'
  BY <1>1, LoadIInv
<1>2. ASSUME NEW s \in Sessions, BrokerConfirms(s) PROVE IInv'
  BY <1>2, BrokerConfirmsIInv
<1>3. ASSUME NEW s \in Sessions, BrokerRefuses(s) \/ GiveUp(s) PROVE IInv'
  BY <1>3, EndIInv DEF BrokerRefuses, GiveUp, IInv, ExitsTypeOK
<1>4. ASSUME NEW s \in Sessions, BrokerReplyLost(s) PROVE IInv'
  BY <1>4, BrokerReplyLostIInv
<1>5. ASSUME NEW s \in Sessions, PaperSlice(s) PROVE IInv'
  BY <1>5, PaperSliceIInv
<1>6. ASSUME NEW s \in Sessions, CommitSlice(s) \/ CommitAlert(s) PROVE IInv'
  BY <1>6, CommitIInv
<1>7. ASSUME NEW s \in Sessions, ChargeFee(s) PROVE IInv'
  <2>1. feeLots' \in Nat
    BY <1>7 DEF ChargeFee, IInv, ExitsTypeOK, Slice
  <2> QED
    BY <1>7, <2>1, EndIInv DEF ChargeFee, IInv, ExitsTypeOK
<1>8. CASE ExitsRestart
  BY <1>8, RestartIInv
<1>9. CASE ExchangeExit
  BY <1>9, ExchangeExitIInv
<1>10. CASE UNCHANGED exitsVars
  <2>1. exposure' \in 0..exposure
    BY <1>10, SizeAssumption DEF exitsVars, IInv, ExitsTypeOK
  <2>2. \A t \in Sessions : Backed(t)'
    BY <1>10, <2>1, BystanderBacked DEF exitsVars
  <2> QED
    BY <1>10, <2>2 DEF exitsVars, IInv, ExitsTypeOK, Sound
<1> QED
  BY <1>1, <1>2, <1>3, <1>4, <1>5, <1>6, <1>7, <1>8, <1>9, <1>10 DEF ExitsNext

(* What every reachable state satisfies, and every property below follows  *)
(* from: types, and copies of the row that never understate the position.  *)
THEOREM Invariance == ExitsSpec => []IInv
  BY InitIInv, StepIInv, PTL DEF ExitsSpec

(* Type correctness.                                                       *)
THEOREM TypeCorrect == ExitsSpec => []ExitsTypeOK
<1>1. IInv => ExitsTypeOK
  BY DEF IInv
<1> QED
  BY <1>1, Invariance, PTL

(* Whatever handlers cross, fail, lose an answer or die, the row never     *)
(* reports fewer lots open than the exchange holds.                        *)
THEOREM RowNeverAhead == ExitsSpec => []NoUnbackedReduction
<1>1. IInv => NoUnbackedReduction
  BY DEF IInv, Sound, NoUnbackedReduction
<1> QED
  BY <1>1, Invariance, PTL

(* A trade shown CLOSED has no position left at the exchange.              *)
THEOREM ClosedTradeIsFlat == ExitsSpec => []ClosedMeansFlat
<1>1. IInv => ClosedMeansFlat
  BY DEF IInv, Sound, ClosedMeansFlat
<1> QED
  BY <1>1, Invariance, PTL

(* No stale write of an exit handler reopens a CLOSED trade.               *)
THEOREM ClosedForGood == ExitsSpec => ClosedIsFinal
<1>1. ASSUME IInv, [ExitsNext]_exitsVars
      PROVE  [tradeRow.status = "CLOSED" => tradeRow'.status = "CLOSED"]_exitsVars
  <2>1. ASSUME NEW s \in Sessions, CommitSlice(s) \/ CommitAlert(s)
        PROVE  tradeRow.status = "CLOSED" => tradeRow'.status = "CLOSED"
    <3>1. pc[s] = "executed" /\ tradeRow' = Written(s)
      BY <2>1 DEF CommitSlice, CommitAlert
    <3> QED
      BY <1>1, <3>1, WrittenFacts
  <2>2. ASSUME ~\E s \in Sessions : CommitSlice(s) \/ CommitAlert(s), ExitsNext
        PROVE  tradeRow' = tradeRow
    BY <2>2 DEF ExitsNext, Load, BrokerConfirms, BrokerRefuses, BrokerReplyLost,
                PaperSlice, GiveUp, ChargeFee, ExitsRestart, ExchangeExit
  <2> QED
    BY <1>1, <2>1, <2>2
<1> QED
  BY <1>1, Invariance, PTL DEF ExitsSpec, ClosedIsFinal
-----------------------------------------------------------------------------
(* What holds while no two handlers have overlapped.                       *)

(* One handler runs at most, its copy is the row, the exchange is where    *)
(* the row is or will be once the executed slice is recorded, and what is  *)
(* charged or about to be fits into what the row has let go.               *)
Alone ==
  /\ \A s, t \in Sessions : pc[s] # "idle" /\ pc[t] # "idle" => s = t
  /\ \A s \in Sessions : Holding(s) => copy[s] = tradeRow
  /\ ~interrupted /\ ~tradeRow.is_test =>
       /\ \A s \in Sessions : pc[s] = "executed" => exposure = After(copy[s], plan[s]).lot_size
       /\ (\A s \in Sessions : pc[s] # "executed") => exposure = tradeRow.lot_size
  /\ feeLots + tradeRow.lot_size <= Size
  /\ \A s \in Sessions : pc[s] = "charging" => feeLots + plan[s].qty + tradeRow.lot_size <= Size

AloneInv == ~overlapped => Alone

(* A slice takes exactly its quantity off the row it was decided on.       *)
LEMMA AfterExact ==
  ASSUME NEW s \in Sessions, copy[s] \in ExitRow, NEW p \in Slices(s)
  PROVE  After(copy[s], p).lot_size = copy[s].lot_size - p.qty
<1>1. /\ p.qty \in 0..copy[s].lot_size /\ copy[s].lot_size \in 0..Size
      /\ FullClose(p) => p.qty = copy[s].lot_size
  BY SliceFacts DEF ExitRow
<1> QED
  BY <1>1, SizeAssumption DEF After, Closes

(* With a fresh copy the blind write is the recorded slice.                *)
LEMMA WrittenFresh ==
  ASSUME NEW s \in Sessions, copy[s] = tradeRow
  PROVE  Written(s).lot_size = After(copy[s], plan[s]).lot_size
  BY DEF Written, FlushExit, ExitColumn

(* When the one handler that runs ends, nobody runs.                       *)
LEMMA NobodyRuns ==
  ASSUME IInv, Alone, NEW s \in Sessions, pc[s] # "idle", Done(s)
  PROVE  \A t \in Sessions : pc'[t] = "idle"
  BY DoneTyped DEF IInv, Alone

LEMMA QuietAlone ==
  ASSUME \A t \in Sessions : pc'[t] = "idle", feeLots' + tradeRow'.lot_size <= Size,
         ~interrupted' /\ ~tradeRow'.is_test => exposure' = tradeRow'.lot_size
  PROVE  Alone'
  BY DEF Alone, Holding

(* The steps that end the handler without recording a slice.               *)
LEMMA EndAlone ==
  ASSUME IInv, Alone, NEW s \in Sessions, BrokerRefuses(s) \/ BrokerReplyLost(s) \/ GiveUp(s)
  PROVE  Alone'
<1>1. pc[s] = "loaded" /\ Done(s) /\ UNCHANGED <<tradeRow, feeLots>>
      /\ (interrupted' \/ UNCHANGED <<exposure, interrupted>>)
  BY DEF BrokerRefuses, BrokerReplyLost, GiveUp
<1>2. \A t \in Sessions : pc'[t] = "idle"
  BY <1>1, NobodyRuns
<1>3. \A t \in Sessions : pc[t] # "executed"
  BY <1>1 DEF Alone
<1>4. ~interrupted' /\ ~tradeRow'.is_test => exposure' = tradeRow'.lot_size
  BY <1>1, <1>3 DEF Alone
<1> QED
  BY <1>1, <1>2, <1>4, QuietAlone DEF Alone

LEMMA LoadAlone ==
  ASSUME IInv, Alone, NEW s \in Sessions, Load(s), ~overlapped'
  PROVE  Alone'
<1>1. /\ \A t \in Sessions : pc[t] = "idle"
      /\ pc' = [pc EXCEPT ![s] = "loaded"] /\ copy' = [copy EXCEPT ![s] = tradeRow]
      /\ UNCHANGED <<tradeRow, exposure, plan, feeLots, interrupted>>
  BY DEF Load
<1>2. \A t \in Sessions : pc'[t] = IF t = s THEN "loaded" ELSE "idle"
  BY <1>1 DEF IInv, ExitsTypeOK
<1>3. copy'[s] = tradeRow
  BY <1>1 DEF IInv, ExitsTypeOK
<1> QED
  BY <1>1, <1>2, <1>3 DEF Alone, Holding

(* An executed slice leaves at the exchange what it will leave in the row. *)
LEMMA ExecuteAlone ==
  ASSUME IInv, Alone, NEW s \in Sessions, BrokerConfirms(s) \/ PaperSlice(s)
  PROVE  Alone'
<1>1. PICK p \in Slices(s) : /\ plan' = [plan EXCEPT ![s] = p]
                             /\ exposure' = Reduced(p) \/ copy[s].is_test
  BY DEF BrokerConfirms, PaperSlice
<1>2. /\ pc[s] = "loaded" /\ pc' = [pc EXCEPT ![s] = "executed"]
      /\ UNCHANGED <<tradeRow, copy, feeLots, interrupted>>
  BY DEF BrokerConfirms, PaperSlice
<1>3. copy[s] = tradeRow /\ copy[s] \in ExitRow /\ exposure \in 0..Size
      /\ \A t \in Sessions : pc[t] # "idle" => t = s
  BY <1>2 DEF Alone, Holding, IInv, ExitsTypeOK
<1>4. \A t \in Sessions : pc'[t] = IF t = s THEN "executed" ELSE "idle"
  BY <1>2, <1>3 DEF IInv, ExitsTypeOK
<1>5. plan'[s] = p
  BY <1>1 DEF IInv, ExitsTypeOK
<1>6. After(copy[s], plan[s])' = After(copy[s], p)
  BY <1>2, <1>5 DEF After, Closes, FullClose
<1>7. ~interrupted /\ ~tradeRow.is_test => exposure' = After(copy[s], p).lot_size
  <2>1. \A t \in Sessions : pc[t] # "executed"
    BY <1>2, <1>3
  <2> SUFFICES ASSUME ~interrupted, ~tradeRow.is_test PROVE exposure' = After(copy[s], p).lot_size
    OBVIOUS
  <2>2. exposure = copy[s].lot_size
    BY <1>3, <2>1 DEF Alone
  <2>3. exposure <= copy[s].lot_size
    BY <1>3, <2>2
  <2> QED
    BY <1>1, <1>3, <2>2, <2>3, ReducedFacts
<1>8. \A t \in Sessions : pc'[t] = "executed" => exposure' = After(copy[t], plan[t])'.lot_size
                                                 \/ interrupted' \/ tradeRow'.is_test
  BY <1>2, <1>4, <1>6, <1>7
<1> QED
  BY <1>2, <1>3, <1>4, <1>8 DEF Alone, Holding

(* The commit takes the slice off the row; what it may charge is that much.*)
LEMMA CommitAlone ==
  ASSUME IInv, IInv', Alone, NEW s \in Sessions, CommitSlice(s) \/ CommitAlert(s)
  PROVE  Alone'
<1>1. /\ pc[s] = "executed" /\ tradeRow' = Written(s)
      /\ UNCHANGED <<exposure, overlapped, interrupted>>
  BY DEF CommitSlice, CommitAlert
<1>2. /\ copy[s] = tradeRow /\ copy[s] \in ExitRow /\ plan[s] \in Slices(s)
      /\ \A t \in Sessions : pc[t] # "idle" => t = s
  BY <1>1 DEF Alone, Holding, IInv, ExitsTypeOK, Sound, Backed
<1>3. /\ tradeRow'.lot_size = tradeRow.lot_size - plan[s].qty
      /\ tradeRow'.lot_size = After(copy[s], plan[s]).lot_size
  BY <1>1, <1>2, WrittenFresh, AfterExact
<1>4. tradeRow.lot_size \in Nat /\ plan[s].qty \in Nat /\ feeLots \in Nat
  BY <1>2, SliceFacts, SizeAssumption DEF IInv, ExitsTypeOK, ExitRow, Slice
<1>5. tradeRow'.is_test = tradeRow.is_test
  BY <1>1, WrittenFacts
<1>6. ~interrupted' /\ ~tradeRow'.is_test => exposure' = tradeRow'.lot_size
  BY <1>1, <1>3, <1>5 DEF Alone
<1>7. feeLots' \in {feeLots, feeLots + plan[s].qty}
  BY DEF CommitSlice, CommitAlert
<1>8. feeLots' + tradeRow'.lot_size <= Size
  BY <1>3, <1>4, <1>7, SizeAssumption DEF Alone
<1>9. CASE Done(s)
  <2>1. \A t \in Sessions : pc'[t] = "idle"
    BY <1>1, <1>9, NobodyRuns
  <2> QED
    BY <1>6, <1>8, <2>1, QuietAlone
<1>10. CASE ~Done(s)
  <2>1. /\ pc' = [pc EXCEPT ![s] = "charging"] /\ plan' = plan /\ feeLots' = feeLots
    BY <1>10 DEF CommitSlice, CommitAlert
  <2>2. \A t \in Sessions : pc'[t] = IF t = s THEN "charging" ELSE "idle"
    BY <1>2, <2>1 DEF IInv, ExitsTypeOK
  <2>3. feeLots' + plan'[s].qty + tradeRow'.lot_size <= Size
    BY <1>3, <1>4, <2>1, SizeAssumption DEF Alone
  <2> QED
    BY <1>6, <1>8, <2>2, <2>3 DEF Alone, Holding
<1> QED
  BY <1>9, <1>10

LEMMA ChargeAlone ==
  ASSUME IInv, Alone, NEW s \in Sessions, ChargeFee(s)
  PROVE  Alone'
<1>1. /\ pc[s] = "charging" /\ Done(s) /\ feeLots' = feeLots + plan[s].qty
      /\ UNCHANGED <<tradeRow, exposure, interrupted>>
  BY DEF ChargeFee
<1>2. \A t \in Sessions : pc'[t] = "idle" /\ pc[t] # "executed"
  BY <1>1, NobodyRuns DEF Alone
<1>3. ~interrupted' /\ ~tradeRow'.is_test => exposure' = tradeRow'.lot_size
  BY <1>1, <1>2 DEF Alone
<1>4. feeLots' + tradeRow'.lot_size <= Size
  BY <1>1 DEF Alone
<1> QED
  BY <1>2, <1>3, <1>4, QuietAlone

(* Without an overlap every step keeps one handler at a time exact.        *)
LEMMA StepAlone == IInv /\ IInv' /\ AloneInv /\ [ExitsNext]_exitsVars => AloneInv'
<1> SUFFICES ASSUME IInv, IInv', Alone, [ExitsNext]_exitsVars, ~overlapped' PROVE Alone'
  <2>1. [ExitsNext]_exitsVars => (overlapped => overlapped')
    BY DEF ExitsNext, exitsVars, Load, BrokerConfirms, BrokerRefuses, BrokerReplyLost, PaperSlice, GiveUp,
           CommitSlice, ChargeFee, CommitAlert, ExitsRestart, ExchangeExit
  <2> QED
    BY <2>1 DEF AloneInv
<1>1. CASE ExitsRestart
  <2>1. /\ \A t \in Sessions : pc'[t] = "idle"
        /\ interrupted' /\ UNCHANGED <<tradeRow, feeLots>>
    BY <1>1 DEF ExitsRestart
  <2> QED
    BY <2>1, QuietAlone DEF Alone
<1>2. CASE ExchangeExit
  <2>1. interrupted' /\ UNCHANGED <<tradeRow, pc, copy, plan, feeLots>>
    BY <1>2 DEF ExchangeExit
  <2> QED
    BY <2>1 DEF Alone, Holding
<1>3. CASE UNCHANGED exitsVars
  BY <1>3 DEF exitsVars, Alone, Holding, After, Closes, FullClose
<1> QED
  BY <1>1, <1>2, <1>3, LoadAlone, EndAlone, ExecuteAlone, CommitAlone, ChargeAlone DEF ExitsNext

(* As long as handlers have not overlapped and nothing was lost, the      *)
(* handler that runs has the row as its copy and row and exchange agree   *)
(* but for its own slice.                                                 *)
THEOREM AloneInvariance == ExitsSpec => []AloneInv
<1>1. ExitsInit => AloneInv
  <2> SUFFICES ASSUME ExitsInit PROVE Alone
    BY DEF AloneInv
  <2>1. tradeRow.lot_size = Size /\ feeLots = 0 /\ \A s \in Sessions : pc[s] = "idle"
    BY DEF ExitsInit
  <2>2. ~tradeRow.is_test => exposure = Size
    BY DEF ExitsInit
  <2> QED
    BY <2>1, <2>2, SizeAssumption DEF Alone, Holding
<1> QED
  BY <1>1, StepAlone, Invariance, PTL DEF ExitsSpec

(* One handler at a time and nothing gone wrong: between handlers the row  *)
(* and the exchange agree to the lot.                                      *)
THEOREM ExactAlone == ExitsSpec => []ExactWhenUndisturbed
<1>1. AloneInv => ExactWhenUndisturbed
  BY DEF AloneInv, Alone, ExactWhenUndisturbed
<1> QED
  BY <1>1, AloneInvariance, PTL

(* As long as handlers do not overlap, no lot is charged that the row does *)
(* not report as closed.                                                   *)
THEOREM FeesFit == ExitsSpec => []FeesWithinPosition
<1>1. AloneInv => FeesWithinPosition
  BY DEF AloneInv, Alone, FeesWithinPosition
<1> QED
  BY <1>1, AloneInvariance, PTL
=============================================================================

---------------------------- MODULE Retries_proofs ----------------------------
(***************************************************************************)
(* Proofs about what is retried: the calls of BrokerGateway, for any       *)
(* calls, lots, styles and modes, and the attempts of IdempotencyGuard,    *)
(* for any number of them.                                                 *)
(***************************************************************************)
EXTENDS BrokerGateway, IdempotencyGuard, TLAPS

-----------------------------------------------------------------------------
(* BrokerGateway: what a call reports is what the exchange has seen of it, *)
(* and closing never grows a position.  The invariant counts the arrivals  *)
(* of a call by where the call is.                                         *)

(* How often a call can have reached the exchange, by where it is: a       *)
(* request is on its way to the backup after at most one arrival, and that *)
(* one went unanswered.                                                    *)
Arrived(c) ==
  /\ callPc[c] \in {"new", "primary"} => arrivals[c] = 0
  /\ callPc[c] = "backup" => arrivals[c] <= 1 /\ (arrivals[c] = 1 => silent[c])
  /\ arrivals[c] <= 2 /\ (arrivals[c] = 2 => silent[c])
  /\ callPc[c] = "success" => arrivals[c] > 0

GatewayInv == CallTypeOK /\ \A c \in Calls : Arrived(c)

-----------------------------------------------------------------------------
(* What cancels out in one-way mode is never more than there is.           *)
LEMMA NettedTyped == \A p \in [Sides -> Nat] : Netted(p) \in [Sides -> Nat]
<1> SUFFICES ASSUME NEW p \in [Sides -> Nat] PROVE Netted(p) \in [Sides -> Nat]
  OBVIOUS
<1> DEFINE common == IF p["long"] < p["short"] THEN p["long"] ELSE p["short"]
<1>1. common \in Nat /\ \A side \in Sides : common <= p[side]
  BY DEF Sides
<1>2. \A side \in Sides : p[side] - common \in Nat
  BY <1>1
<1> QED
  BY <1>2 DEF Netted

(* Executing an order leaves lots of it open on each side, or takes lots   *)
(* away from a side, never below zero.                                     *)
LEMMA ExecuteTyped ==
  ASSUME CallTypeOK, NEW c \in Calls, Execute(c)
  PROVE  openLots' \in [Sides -> Nat] /\ reduced' \in [Calls -> SUBSET Sides]
<1>1. CASE ExecutePlace(c)
  <2>1. request[c].side \in Sides
    BY <1>1 DEF ExecutePlace, CallTypeOK, CallRequests
  <2>2. [openLots EXCEPT ![request[c].side] = @ + lots[c]] \in [Sides -> Nat]
    BY <2>1 DEF CallTypeOK
  <2> QED
    BY <1>1, <2>2, NettedTyped DEF ExecutePlace, CallTypeOK
<1>2. CASE ExecuteClose(c)
  <2>1. \A side \in TargetSides(c) : side \in Sides
    <3>1. broker.style \in {"bingx", "lookup", "units", "by_id"}
      BY StylesAssumption DEF CallTypeOK
    <3>2. request[c].side \in Sides
      BY DEF CallTypeOK, CallRequests
    <3>3. CASE broker.style \in {"bingx", "lookup"}
      BY <3>3 DEF TargetSides, Sides
    <3>4. CASE broker.style = "units"
      BY <3>2, <3>4 DEF TargetSides
    <3>5. CASE broker.style = "by_id"
      BY <3>5 DEF TargetSides
    <3> QED
      BY <3>1, <3>3, <3>4, <3>5
  <2>2. PICK side \in Sides :
          /\ openLots' = [openLots EXCEPT ![side] =
                            IF lots[c] = 0 \/ lots[c] >= @ THEN 0 ELSE @ - lots[c]]
          /\ reduced' = [reduced EXCEPT ![c] = @ \cup {side}]
    BY <1>2, <2>1 DEF ExecuteClose
  <2> QED
    BY <2>2 DEF CallTypeOK
<1> QED
  BY <1>1, <1>2 DEF Execute

(* Initially no call has been sent.                                        *)
LEMMA InitGateway == CallInit => GatewayInv
<1> SUFFICES ASSUME CallInit PROVE GatewayInv
  OBVIOUS
<1>1. request \in [Calls -> CallRequests] /\ \A c \in Calls : request[c].qty \in Nat
  BY MaxLotsAssumption DEF CallInit, CallRequests
<1>2. CallTypeOK
  BY <1>1, MaxLotsAssumption DEF CallInit, CallTypeOK, Sides
<1>3. ASSUME NEW c \in Calls PROVE Arrived(c)
  BY DEF CallInit, Arrived
<1> QED
  BY <1>2, <1>3 DEF GatewayInv

(* A call that moves on without reaching the exchange.                     *)
LEMMA NotArrivedKeeps ==
  ASSUME GatewayInv, NEW c \in Calls, NEW label \in {"primary", "backup", "failure"},
         callPc' = [callPc EXCEPT ![c] = label], lots' \in [Calls -> Nat],
         label = "primary" => callPc[c] = "new", callPc[c] \in {"new", "primary", "backup"},
         label = "backup" => callPc[c] = "primary",
         UNCHANGED <<broker, request, openLots, arrivals, silent, reduced>>
  PROVE  GatewayInv'
<1>1. CallTypeOK'
  BY DEF GatewayInv, CallTypeOK
<1>2. ASSUME NEW d \in Calls PROVE Arrived(d)'
  BY DEF GatewayInv, CallTypeOK, Arrived
<1> QED
  BY <1>1, <1>2 DEF GatewayInv

(* A call that reaches the exchange, once more than before.                *)
LEMMA ArrivedKeeps ==
  ASSUME GatewayInv, NEW c \in Calls, NEW label \in {"success", "backup", "failure"},
         NEW mute \in BOOLEAN, Sending(c), Execute(c) \/ Reject(c), Arrives(c),
         callPc' = [callPc EXCEPT ![c] = label], silent' = [silent EXCEPT ![c] = @ \/ mute],
         label = "backup" => callPc[c] = "primary" /\ mute
  PROVE  GatewayInv'
<1>1. openLots' \in [Sides -> Nat] /\ reduced' \in [Calls -> SUBSET Sides]
  BY ExecuteTyped DEF GatewayInv, CallTypeOK, Reject
<1>2. CallTypeOK'
  <2>1. silent' \in [Calls -> BOOLEAN]
    <3>1. silent \in [Calls -> BOOLEAN] /\ (silent[c] \/ mute) \in BOOLEAN
      BY DEF GatewayInv, CallTypeOK
    <3> QED
      BY <3>1, Zenon
  <2>2. callPc' \in [Calls -> {"new", "primary", "backup", "success", "failure"}]
    BY DEF GatewayInv, CallTypeOK
  <2>3. arrivals' \in [Calls -> Nat] /\ UNCHANGED <<broker, request, lots>>
    BY DEF GatewayInv, CallTypeOK, Arrives
  <2> QED
    BY <1>1, <2>1, <2>2, <2>3 DEF GatewayInv, CallTypeOK
<1>3. arrivals' = [arrivals EXCEPT ![c] = @ + 1]
  BY DEF Arrives
<1>4. ASSUME NEW d \in Calls PROVE Arrived(d)'
  <2>1. CASE d = c
    <3>1. callPc[c] \in {"primary", "backup"} /\ callPc'[c] = label /\ arrivals'[c] = arrivals[c] + 1
      BY <1>3 DEF Sending, GatewayInv, CallTypeOK
    <3>2. arrivals[c] \in Nat /\ arrivals[c] <= 1 /\ (arrivals[c] = 1 => silent[c])
      BY <3>1 DEF GatewayInv, CallTypeOK, Arrived
    <3>3. (silent[c] => silent'[c]) /\ (label = "backup" => arrivals[c] = 0 /\ silent'[c])
      BY DEF GatewayInv, CallTypeOK, Arrived
    <3> QED
      BY <2>1, <3>1, <3>2, <3>3 DEF Arrived
  <2>2. CASE d # c
    BY <1>3, <2>2 DEF GatewayInv, CallTypeOK, Arrived
  <2> QED
    BY <2>1, <2>2
<1> QED
  BY <1>2, <1>4 DEF GatewayInv

(* Every step of every call keeps the count.                               *)
LEMMA NextGateway == GatewayInv /\ [CallNext]_callVars => GatewayInv'
<1> SUFFICES ASSUME GatewayInv, [CallNext]_callVars PROVE GatewayInv'
  OBVIOUS
<1>1. CASE UNCHANGED callVars
  BY <1>1 DEF callVars, GatewayInv, CallTypeOK, Arrived
<1>2. ASSUME NEW c \in Calls, Step(c) PROVE GatewayInv'
  <2>1. lots \in [Calls -> Nat]
    BY DEF GatewayInv, CallTypeOK
  <2>2. CASE NotSent(c) \/ Send(c)
    BY <2>1, <2>2, NotArrivedKeeps DEF NotSent, Send, CallGoto
  <2>3. CASE LookUpSize(c)
    <3>1. lots' \in [Calls -> Nat]
      BY <2>3 DEF LookUpSize, GatewayInv, CallTypeOK
    <3> QED
      BY <2>3, <3>1, NotArrivedKeeps DEF LookUpSize, CallGoto
  <2>4. AfterTransportFailure(c) \in {"backup", "failure"}
        /\ (AfterTransportFailure(c) = "backup" => callPc[c] = "primary")
    BY DEF AfterTransportFailure
  <2>5. CASE Unreachable(c)
    BY <2>1, <2>4, <2>5, NotArrivedKeeps DEF Unreachable, CallGoto, Sending
  <2>6. silent = [silent EXCEPT ![c] = @ \/ FALSE]
        /\ [silent EXCEPT ![c] = TRUE] = [silent EXCEPT ![c] = @ \/ TRUE]
    BY DEF GatewayInv, CallTypeOK
  <2>7. CASE AnsweredYes(c)
    BY <2>6, <2>7, ArrivedKeeps DEF AnsweredYes, CallGoto
  <2>8. CASE AnsweredNo(c)
    BY <2>6, <2>8, ArrivedKeeps DEF AnsweredNo, CallGoto
  <2>9. CASE ReadTimeout(c)
    BY <2>4, <2>6, <2>9, ArrivedKeeps DEF ReadTimeout, CallGoto
  <2> QED
    BY <1>2, <2>2, <2>3, <2>5, <2>7, <2>8, <2>9 DEF Step
<1> QED
  BY <1>1, <1>2 DEF CallNext

(* How often a call has arrived at the exchange is known from the step    *)
(* place_order or close_position is at.                                   *)
THEOREM GatewayInvariant == CallSpec => []GatewayInv
  BY InitGateway, NextGateway, PTL DEF CallSpec

-----------------------------------------------------------------------------
(* A reported success reached the exchange, and a request reaches it again *)
(* only after silence, never a third time.                                 *)
THEOREM ReportsAreTrue == CallSpec => []ReportsArrivals
<1>1. GatewayInv => ReportsArrivals
  BY DEF GatewayInv, Arrived, ReportsArrivals, SuccessIsReal, ResentOnlyAfterSilence
<1> QED
  BY <1>1, GatewayInvariant, PTL

(* A step in which no entry arrives takes lots away, or does nothing.      *)
LEMMA CloseShrinks ==
  ASSUME GatewayInv, CallNext, NEW side \in Sides,
         \A c \in Calls : request[c].op = "place" => arrivals'[c] = arrivals[c]
  PROVE  openLots'[side] <= openLots[side]
<1>1. openLots \in [Sides -> Nat]
  BY DEF GatewayInv, CallTypeOK
<1>2. PICK c \in Calls : Step(c)
  BY DEF CallNext
<1>3. CASE openLots' = openLots
  BY <1>1, <1>3
<1>4. CASE Execute(c) /\ Arrives(c)
  <2>1. arrivals'[c] # arrivals[c]
    BY <1>4 DEF Arrives, GatewayInv, CallTypeOK
  <2>2. ExecuteClose(c)
    BY <1>4, <2>1 DEF Execute, ExecutePlace
  <2>3. PICK target \in TargetSides(c) :
          openLots' = [openLots EXCEPT ![target] =
                         IF lots[c] = 0 \/ lots[c] >= @ THEN 0 ELSE @ - lots[c]]
    BY <2>2 DEF ExecuteClose
  <2>4. lots[c] \in Nat
    BY DEF GatewayInv, CallTypeOK
  <2> QED
    BY <1>1, <2>3, <2>4
<1>5. \/ openLots' = openLots
      \/ Execute(c) /\ Arrives(c)
  BY <1>2 DEF Step, NotSent, Send, LookUpSize, AnsweredYes, AnsweredNo, Unreachable,
              ReadTimeout, Reject
<1> QED
  BY <1>3, <1>4, <1>5

(* Closes that cross, are sized before they are sent or are sent twice     *)
(* never open or enlarge a position.                                       *)
THEOREM CloseOnlyShrinks == CallSpec => CloseNeverGrows
<1> DEFINE NoEntry == \A c \in Calls : request[c].op = "place" => arrivals'[c] = arrivals[c]
           Shrinks == \A side \in Sides : openLots'[side] <= openLots[side]
<1>1. GatewayInv /\ [CallNext]_callVars => [NoEntry => Shrinks]_callVars
  BY CloseShrinks
<1> QED
  BY <1>1, GatewayInvariant, PTL DEF CallSpec, CloseNeverGrows

-----------------------------------------------------------------------------
(* IdempotencyGuard: one body at a time, one effect, one result, and the   *)
(* whole guard implements the promise of OneShot.  The inductive invariant *)
(* says whose reservation the row is while a body runs, and that a         *)
(* recorded answer never goes away.                                        *)

Result(answered) == answered.kind \in {"ok", "http"}

(* The row of an attempt inside the body is its own reservation.           *)
OwnReservation == \A a \in Attempts : InBody(a) => record = Reserved(a)

(* A recorded answer is a result, and without a row nobody owns the key.   *)
RowSound ==
  /\ record.state = "absent" => record = Absent
  /\ record.state = "done" => Result(record.response)

(* An attempt has a result in hand only after it was recorded, and it is   *)
(* the recorded one.                                                       *)
ResultsAreRecorded ==
  \A a \in Attempts :
    /\ Result(answer[a]) =>
         /\ record.state = "done"
         /\ answer[a].by = record.response.by /\ answer[a].kind = record.response.kind
    /\ at[a] = "replying" => Result(answer[a])

(* Unless a body spoiled it, an effect is still to come only where there   *)
(* has been none.                                                          *)
EffectCounted ==
  ~spoiled => /\ effects <= 1
              /\ (record.state = "absent" \/ \E a \in Attempts : at[a] = "working")
                   => effects = 0

GuardInv == KeyTypeOK /\ OwnReservation /\ RowSound /\ ResultsAreRecorded /\ EffectCounted

-----------------------------------------------------------------------------
(* A plain answer, and what Told says, are answers.                        *)
LEMMA AnswersTyped ==
  /\ \A kind \in Kinds : Plain(kind) \in Answers
  /\ \A kind \in Kinds, a \in Attempts, d \in Details : Told(kind, a, d) \in Answers
  BY DEF Plain, Told, Answers, Details

(* Storing an answer wraps its text and leaves who ran it and how alone.   *)
LEMMA StoredKeeps ==
  ASSUME NEW response \in Answers
  PROVE  /\ Stored(response) \in Answers
         /\ Stored(response).kind = response.kind
         /\ Stored(response).by = response.by
  BY DEF Stored, Answers, Details

(* The rows the guard writes are rows.                                     *)
LEMMA RowsTyped ==
  /\ Absent \in Record
  /\ \A a \in Attempts : Reserved(a) \in Record
  /\ \A a \in Attempts, r \in Answers : Completed(a, r) \in Record
  BY AnswersTyped DEF Absent, Reserved, Completed, Record, Kinds

(* Initially there is no row, no effect and no answer.                     *)
LEMMA InitGuard == KeyInit => GuardInv
<1> SUFFICES ASSUME KeyInit PROVE GuardInv
  OBVIOUS
<1>1. KeyTypeOK
  BY AnswersTyped, RowsTyped DEF KeyInit, KeyTypeOK, Kinds
<1>2. OwnReservation
  BY DEF KeyInit, OwnReservation, InBody
<1>3. RowSound
  BY DEF KeyInit, RowSound, Absent
<1>4. ResultsAreRecorded
  BY DEF KeyInit, ResultsAreRecorded, Result, Plain, Told
<1>5. EffectCounted
  BY DEF KeyInit, EffectCounted
<1> QED
  BY <1>1, <1>2, <1>3, <1>4, <1>5 DEF GuardInv

-----------------------------------------------------------------------------
(* An attempt that only learns of the row, or gives up, leaves it alone.   *)
LEMMA RowUntouched ==
  ASSUME GuardInv, NEW a \in Attempts,
         LookupNothing(a) \/ LookupReserved(a) \/ Replay(a) \/ InsertConflict(a)
           \/ RaiseDatabase(a) \/ Reply(a) \/ Crash(a)
  PROVE  GuardInv'
<1> USE DEF GuardInv
<1>1. /\ record' = record /\ effects' = effects /\ spoiled' = spoiled
      /\ \E label \in {"inserting", "answered"} : at' = [at EXCEPT ![a] = label]
  BY DEF LookupNothing, LookupReserved, Replay, InsertConflict, RaiseDatabase, Reply,
         Crash, Move, Say
<1>2. /\ answer' \in [Attempts -> Answers]
      /\ \A b \in Attempts : b # a => answer'[b] = answer[b]
      /\ \/ answer'[a] = answer[a]
         \/ ~Result(answer'[a])
         \/ record.state = "done" /\ answer'[a] = record.response
  <2>1. CASE \E kind \in {"busy", "error", "lost"} :
               answer' = [answer EXCEPT ![a] = Plain(kind)]
    <3>1. \A kind \in {"busy", "error", "lost"} : Plain(kind) \in Answers /\ ~Result(Plain(kind))
      BY AnswersTyped DEF Kinds, Result, Plain, Told
    <3> QED
      BY <2>1, <3>1 DEF KeyTypeOK
  <2>2. CASE Replay(a)
    BY <2>2 DEF Replay, Say, KeyTypeOK, Record
  <2>3. CASE answer' = answer
    BY <2>3 DEF KeyTypeOK
  <2> QED
    BY <2>1, <2>2, <2>3 DEF LookupNothing, LookupReserved, InsertConflict, RaiseDatabase,
                            Reply, Crash, Say
<1>3. KeyTypeOK'
  BY <1>1, <1>2 DEF KeyTypeOK
<1>4. \A b \in Attempts : at'[b] \in {"working", "effected", "replying"} => at[b] = at'[b] /\ b # a
  BY <1>1 DEF KeyTypeOK
<1>5. OwnReservation'
  BY <1>1, <1>4 DEF OwnReservation, InBody, Reserved
<1>6. RowSound'
  BY <1>1 DEF RowSound, Result, Absent
<1>7. ResultsAreRecorded'
  BY <1>1, <1>2, <1>4 DEF ResultsAreRecorded, Result
<1>8. EffectCounted'
  BY <1>1, <1>4 DEF EffectCounted
<1> QED
  BY <1>3, <1>5, <1>6, <1>7, <1>8

(* The insert that succeeds finds no row, so no body runs and no result    *)
(* has been recorded.                                                      *)
LEMMA InsertGuard ==
  ASSUME GuardInv, NEW a \in Attempts, Insert(a)
  PROVE  GuardInv'
<1> USE DEF GuardInv
<1>1. /\ record.state = "absent" /\ record' = Reserved(a) /\ record'.state = "reserved"
      /\ at' = [at EXCEPT ![a] = "working"]
      /\ answer' = answer /\ effects' = effects /\ spoiled' = spoiled
  BY DEF Insert, Move, Reserved
<1>2. \A b \in Attempts : ~InBody(b)
  BY <1>1 DEF OwnReservation, Reserved
<1>3. KeyTypeOK'
  BY <1>1, RowsTyped DEF KeyTypeOK
<1>4. \A b \in Attempts : InBody(b)' => b = a
  BY <1>1, <1>2 DEF KeyTypeOK, InBody
<1>5. OwnReservation'
  BY <1>1, <1>4 DEF OwnReservation, Reserved
<1>6. RowSound'
  BY <1>1 DEF RowSound
<1>7. \A b \in Attempts : ~Result(answer[b])
  BY <1>1 DEF ResultsAreRecorded
<1>8. \A b \in Attempts : at'[b] # "replying"
  BY <1>1, <1>7 DEF ResultsAreRecorded, KeyTypeOK
<1>9. ResultsAreRecorded'
  BY <1>1, <1>7, <1>8 DEF ResultsAreRecorded, Result
<1>10. EffectCounted'
  BY <1>1 DEF EffectCounted, KeyTypeOK
<1> QED
  BY <1>3, <1>5, <1>6, <1>9, <1>10

(* Only the attempt that holds the reservation does the effect.            *)
LEMMA EffectGuard ==
  ASSUME GuardInv, NEW a \in Attempts, DoEffect(a)
  PROVE  GuardInv'
<1> USE DEF GuardInv
<1>1. /\ at[a] = "working" /\ effects' = effects + 1
      /\ at' = [at EXCEPT ![a] = "effected"]
      /\ answer' = answer /\ record' = record /\ spoiled' = spoiled
  BY DEF DoEffect, Move
<1>2. record = Reserved(a) /\ record.state = "reserved" /\ record.owner = a
  BY <1>1 DEF OwnReservation, InBody, Reserved
<1>3. \A b \in Attempts : InBody(b) => b = a
  BY <1>2 DEF OwnReservation, Reserved
<1>4. KeyTypeOK'
  BY <1>1 DEF KeyTypeOK
<1>5. \A b \in Attempts : InBody(b)' => b = a
  BY <1>1, <1>3 DEF KeyTypeOK, InBody
<1>6. OwnReservation'
  BY <1>1, <1>2, <1>5 DEF OwnReservation, Reserved
<1>7. RowSound'
  BY <1>1 DEF RowSound, Result, Absent
<1>8. ResultsAreRecorded'
  BY <1>1 DEF ResultsAreRecorded, Result, KeyTypeOK
<1>9. \A b \in Attempts : at'[b] # "working"
  BY <1>1, <1>3 DEF InBody, KeyTypeOK
<1>10. ~spoiled => effects = 0
  BY <1>1 DEF EffectCounted
<1>11. EffectCounted'
  BY <1>1, <1>2, <1>9, <1>10 DEF EffectCounted
<1> QED
  BY <1>4, <1>6, <1>7, <1>8, <1>11

(* The attempt that holds the reservation turns it into a result.          *)
LEMMA CompleteGuard ==
  ASSUME GuardInv, NEW a \in Attempts, InBody(a), NEW response \in Answers,
         Result(response), response.by = a, Complete(a, response),
         effects' = effects, spoiled' = spoiled
  PROVE  GuardInv'
<1> USE DEF GuardInv
<1>1. record = Reserved(a) /\ record.state = "reserved" /\ record.owner = a
  BY DEF OwnReservation, Reserved
<1>2. /\ record'.state = "done" /\ record'.response = Stored(response)
      /\ record' \in Record
      /\ at' = [at EXCEPT ![a] = "replying"]
      /\ answer' = [answer EXCEPT ![a] = response]
  BY StoredKeeps, RowsTyped DEF Complete, Completed, Move
<1>3. \A b \in Attempts : InBody(b) => b = a
  BY <1>1 DEF OwnReservation, Reserved
<1>4. KeyTypeOK'
  BY <1>2 DEF KeyTypeOK
<1>5. \A b \in Attempts : ~InBody(b)'
  BY <1>2, <1>3 DEF KeyTypeOK, InBody
<1>6. OwnReservation'
  BY <1>5 DEF OwnReservation
<1>7. RowSound'
  BY <1>2, StoredKeeps DEF RowSound, Result
<1>8. \A b \in Attempts : ~Result(answer[b]) /\ at[b] # "replying"
  BY <1>1 DEF ResultsAreRecorded
<1>9. ResultsAreRecorded'
  BY <1>2, <1>8, StoredKeeps DEF ResultsAreRecorded, Result, KeyTypeOK
<1>10. EffectCounted'
  BY <1>2, <1>5 DEF EffectCounted, InBody
<1> QED
  BY <1>4, <1>6, <1>7, <1>9, <1>10

(* A body that fails unexpectedly deletes its own reservation.             *)
LEMMA RaiseGuard ==
  ASSUME GuardInv, NEW a \in Attempts, RaiseOther(a)
  PROVE  GuardInv'
<1> USE DEF GuardInv
<1>1. /\ InBody(a) /\ record' = Absent /\ record'.state = "absent"
      /\ answer' = [answer EXCEPT ![a] = Plain("error")]
      /\ at' = [at EXCEPT ![a] = "answered"]
      /\ spoiled' = (spoiled \/ at[a] = "effected")
      /\ effects' = effects
  BY DEF RaiseOther, Say, Move, Absent
<1>2. record = Reserved(a) /\ record.state = "reserved" /\ record.owner = a
  BY <1>1 DEF OwnReservation, Reserved
<1>3. \A b \in Attempts : InBody(b) => b = a
  BY <1>2 DEF OwnReservation, Reserved
<1>4. KeyTypeOK'
  BY <1>1, AnswersTyped, RowsTyped DEF KeyTypeOK, Kinds
<1>5. \A b \in Attempts : ~InBody(b)'
  BY <1>1, <1>3 DEF KeyTypeOK, InBody
<1>6. OwnReservation'
  BY <1>5 DEF OwnReservation
<1>7. RowSound'
  BY <1>1 DEF RowSound, Absent
<1>8. \A b \in Attempts : ~Result(answer[b]) /\ at[b] # "replying"
  BY <1>2 DEF ResultsAreRecorded
<1>9. ~Result(Plain("error"))
  BY DEF Result, Plain, Told
<1>10. ResultsAreRecorded'
  <2>1. \A b \in Attempts : ~Result(answer'[b]) /\ at'[b] # "replying"
    BY <1>1, <1>8, <1>9 DEF KeyTypeOK
  <2> QED
    BY <2>1 DEF ResultsAreRecorded, Result
<1>11. EffectCounted'
  <2>1. ~spoiled' => ~spoiled /\ at[a] = "working"
    BY <1>1 DEF InBody, KeyTypeOK
  <2>2. ~spoiled' => effects = 0
    BY <2>1 DEF EffectCounted
  <2> QED
    BY <1>1, <2>2 DEF EffectCounted
<1> QED
  BY <1>4, <1>6, <1>7, <1>10, <1>11

(* What a body returns or raises as an HTTPException is a result of it.    *)
LEMMA SettlingGuard ==
  ASSUME GuardInv, NEW a \in Attempts, Succeed(a) \/ RaiseHttp(a)
  PROVE  GuardInv'
<1>1. ASSUME NEW kind \in {"ok", "http"}, NEW d \in Details
      PROVE  LET r == Told(kind, a, d)
             IN  r \in Answers /\ Result(r) /\ r.by = a
  BY AnswersTyped DEF Told, Result, Kinds, Answers
<1>2. CASE Succeed(a)
  <2>1. InBody(a) /\ Complete(a, Told("ok", a, "body"))
        /\ effects' = effects /\ spoiled' = spoiled
    BY <1>2 DEF Succeed, InBody
  <2> QED
    BY <2>1, <1>1, CompleteGuard DEF Details
<1>3. CASE RaiseHttp(a)
  <2>1. PICK d \in {"text", "object"} : Complete(a, Told("http", a, d))
    BY <1>3 DEF RaiseHttp
  <2>2. InBody(a) /\ effects' = effects /\ spoiled' = spoiled
    BY <1>3 DEF RaiseHttp
  <2> QED
    BY <2>1, <2>2, <1>1, CompleteGuard DEF Details
<1> QED
  BY <1>2, <1>3

(* Every step of every attempt keeps the invariant.                        *)
LEMMA NextGuard == GuardInv /\ [KeyNext]_keyVars => GuardInv'
<1> SUFFICES ASSUME GuardInv, [KeyNext]_keyVars PROVE GuardInv'
  OBVIOUS
<1>1. CASE UNCHANGED keyVars
  BY <1>1 DEF keyVars, GuardInv, KeyTypeOK, OwnReservation, InBody, RowSound, Result,
              ResultsAreRecorded, EffectCounted, Absent, Reserved
<1>2. ASSUME NEW a \in Attempts, Progress(a) \/ Crash(a) PROVE GuardInv'
  BY <1>2, RowUntouched, InsertGuard, EffectGuard, SettlingGuard, RaiseGuard DEF Progress
<1> QED
  BY <1>1, <1>2 DEF KeyNext

(* Whoever is inside the body owns the reservation, and a recorded result *)
(* is the one the body had.                                               *)
THEOREM GuardInvariant == KeySpec => []GuardInv
  BY InitGuard, NextGuard, PTL DEF KeySpec

-----------------------------------------------------------------------------
(* One attempt at most is inside the body, and the row is its reservation: *)
(* the unique constraint closes the race of two lookups.                   *)
THEOREM OneBody == KeySpec => []OneBodyAtATime
<1>1. GuardInv => OneBodyAtATime
  BY DEF GuardInv, OwnReservation, OneBodyAtATime, Reserved
<1> QED
  BY <1>1, GuardInvariant, PTL

(* The effect is carried out once, unless a body fails after it.           *)
THEOREM OneEffect == KeySpec => []EffectOnce
<1>1. GuardInv => EffectOnce
  BY DEF GuardInv, EffectCounted, EffectOnce
<1> QED
  BY <1>1, GuardInvariant, PTL

(* Whoever is told a result is told that of the same run of the body.      *)
THEOREM OneResult == KeySpec => []SameResult
<1>1. GuardInv => SameResult
  BY DEF GuardInv, ResultsAreRecorded, SameResult, Result
<1> QED
  BY <1>1, GuardInvariant, PTL

-----------------------------------------------------------------------------
(* The guard implements OneShot.                                           *)

Got == [a \in Attempts |->
          IF at[a] # "answered" THEN "nothing"
          ELSE IF answer[a].kind \in {"ok", "http"} THEN "result"
          ELSE answer[a].kind]

(* An attempt that answers moves from nothing to what it was told; the     *)
(* others know what they knew.                                             *)
LEMMA GotMoves ==
  ASSUME KeyTypeOK, NEW a \in Attempts, at[a] # "answered",
         at' = [at EXCEPT ![a] = "answered"],
         \A b \in Attempts : b # a => answer'[b] = answer[b]
  PROVE  /\ Got[a] = "nothing"
         /\ Got' = [Got EXCEPT ![a] = IF Result(answer'[a]) THEN "result"
                                      ELSE answer'[a].kind]
  BY DEF Got, KeyTypeOK, Result

(* An attempt that does not answer leaves what everybody knows alone.      *)
LEMMA GotStays ==
  ASSUME KeyTypeOK, NEW a \in Attempts, NEW label \in {"inserting", "working", "effected", "replying"},
         at[a] # "answered", at' = [at EXCEPT ![a] = label],
         \A b \in Attempts : b # a => answer'[b] = answer[b]
  PROVE  Got' = Got
  BY DEF Got, KeyTypeOK

(* The abstract initial state.                                             *)
LEMMA InitOneShot == KeyInit => Abstract!Init
  BY DEF KeyInit, Abstract!Init, Absent

(* A step of an attempt is a step of OneShot, or changes nothing there.    *)
LEMMA StepOneShot ==
  ASSUME GuardInv, GuardInv', NEW a \in Attempts, Progress(a) \/ Crash(a)
  PROVE  Abstract!Next \/ UNCHANGED Abstract!vars
<1> USE DEF GuardInv
<1>1. CASE LookupNothing(a) \/ DoEffect(a)
  <2>1. record' = record /\ Got' = Got
    BY <1>1, GotStays DEF LookupNothing, DoEffect, Move, KeyTypeOK
  <2> QED
    BY <2>1 DEF Abstract!vars, Got
<1>2. CASE Insert(a)
  <2>1. Got' = Got
    BY <1>2, GotStays DEF Insert, Move, KeyTypeOK
  <2>2. Abstract!Take(a)
    BY <1>2, <2>1 DEF Insert, Reserved, Abstract!Take, Got
  <2> QED
    BY <2>2 DEF Abstract!Next
<1>3. CASE LookupReserved(a) \/ InsertConflict(a)
  <2>1. /\ at[a] # "answered" /\ at' = [at EXCEPT ![a] = "answered"]
        /\ answer' = [answer EXCEPT ![a] = Plain("busy")] /\ record' = record
        /\ record.state # "absent"
    BY <1>3 DEF LookupReserved, InsertConflict, Say, Move
  <2>2. answer'[a].kind = "busy" /\ ~Result(answer'[a])
    BY <2>1 DEF Plain, Told, Result, KeyTypeOK
  <2>3. Got[a] = "nothing" /\ Got' = [Got EXCEPT ![a] = "busy"]
    BY <2>1, <2>2, GotMoves DEF KeyTypeOK
  <2>4. Abstract!Refuse(a)
    BY <2>1, <2>3 DEF Abstract!Refuse, Abstract!Tell, Got, KeyTypeOK, Record
  <2> QED
    BY <2>4 DEF Abstract!Next
<1>4. CASE Replay(a) \/ Reply(a)
  <2>1. /\ at[a] # "answered" /\ at' = [at EXCEPT ![a] = "answered"]
        /\ \A b \in Attempts : b # a => answer'[b] = answer[b]
        /\ record' = record /\ record.state = "done" /\ Result(answer'[a])
    BY <1>4 DEF Replay, Reply, Say, Move, KeyTypeOK, RowSound, ResultsAreRecorded
  <2>2. Got[a] = "nothing" /\ Got' = [Got EXCEPT ![a] = "result"]
    BY <2>1, GotMoves
  <2>3. Abstract!Result(a)
    BY <2>1, <2>2 DEF Abstract!Result, Abstract!Tell, Got
  <2> QED
    BY <2>3 DEF Abstract!Next
<1>5. CASE Succeed(a) \/ RaiseHttp(a)
  <2>1. PICK response : Complete(a, response)
    BY <1>5 DEF Succeed, RaiseHttp
  <2>2. InBody(a)
    BY <1>5 DEF Succeed, RaiseHttp, InBody
  <2>3. record.state = "reserved" /\ record.owner = a
    BY <2>2 DEF OwnReservation, Reserved
  <2>4. record'.state = "done" /\ record'.owner = a
    BY <2>1 DEF Complete, Completed
  <2>5. Got' = Got
    BY <2>1, <2>2, GotStays DEF Complete, Move, KeyTypeOK, InBody
  <2>6. Abstract!Settle
    BY <2>3, <2>4, <2>5 DEF Abstract!Settle, Got
  <2> QED
    BY <2>6 DEF Abstract!Next
<1>6. CASE RaiseOther(a) \/ RaiseDatabase(a) \/ Crash(a)
  <2>1. PICK kind \in {"error", "lost"} : answer' = [answer EXCEPT ![a] = Plain(kind)]
    BY <1>6 DEF RaiseOther, RaiseDatabase, Crash, Say
  <2>2. at[a] # "answered" /\ at' = [at EXCEPT ![a] = "answered"]
    BY <1>6 DEF RaiseOther, RaiseDatabase, Crash, Say, Move, InBody
  <2>3. answer'[a].kind = kind /\ ~Result(answer'[a])
    BY <2>1 DEF Plain, Told, Result, KeyTypeOK
  <2>4. Got[a] = "nothing" /\ Got' = [Got EXCEPT ![a] = kind]
    BY <2>1, <2>2, <2>3, GotMoves DEF KeyTypeOK
  <2>5. CASE record' = record
    <3>1. Abstract!Fail(a)
      BY <2>4, <2>5 DEF Abstract!Fail, Abstract!Tell, Got
    <3> QED
      BY <3>1 DEF Abstract!Next
  <2>6. CASE RaiseOther(a)
    <3>1. record.state = "reserved" /\ record.owner = a /\ InBody(a)
      BY <2>6 DEF RaiseOther, OwnReservation, Reserved
    <3>2. record'.state = "absent" /\ record'.owner = Nobody
      BY <2>6 DEF RaiseOther, Absent
    <3>3. kind = "error"
      BY <2>6, <2>1 DEF RaiseOther, Say, Plain, Told, KeyTypeOK
    <3>4. Abstract!Release(a)
      BY <2>4, <3>1, <3>2, <3>3 DEF Abstract!Release, Got
    <3> QED
      BY <3>4 DEF Abstract!Next
  <2> QED
    BY <1>6, <2>5, <2>6 DEF RaiseDatabase, Crash
<1> QED
  BY <1>1, <1>2, <1>3, <1>4, <1>5, <1>6 DEF Progress

(* The guard keeps the promise of the Idempotency-Key header: every        *)
(* behaviour of the lookups, inserts, bodies and crashes is one of OneShot.*)
THEOREM Promise == KeySpec => KeepsPromise
<1>1. KeyInit => Abstract!Init
  BY InitOneShot
<1>2. GuardInv /\ GuardInv' /\ [KeyNext]_keyVars => [Abstract!Next]_(Abstract!vars)
  <2> SUFFICES ASSUME GuardInv, GuardInv', [KeyNext]_keyVars
               PROVE  Abstract!Next \/ UNCHANGED Abstract!vars
    OBVIOUS
  <2>1. CASE UNCHANGED keyVars
    BY <2>1 DEF keyVars, Abstract!vars
  <2>2. ASSUME NEW a \in Attempts, Progress(a) \/ Crash(a)
        PROVE  Abstract!Next \/ UNCHANGED Abstract!vars
    BY <2>2, StepOneShot
  <2> QED
    BY <2>1, <2>2 DEF KeyNext
<1> QED
  BY <1>1, <1>2, GuardInvariant, PTL DEF KeySpec, KeepsPromise, Abstract!Spec
=============================================================================

--------------------------- MODULE SignalGate_proofs ---------------------------
(* Proofs about SignalGate, for any number of alerts, approvals, symbols   *)
(* and subscribers, any caps, any capital and any history of the rows.     *)
EXTENDS SignalGate, FiniteSetTheorems, TLAPS

-----------------------------------------------------------------------------
(* The inductive invariant.                                                *)

(* What a session has in hand at each label.                               *)
Formed(h) ==
  /\ pc[h] \in Labels /\ work[h] \in Work
  /\ \A k \in DOMAIN work[h].ids : work[h].ids[k] \in Ids
  /\ work[h].ids # <<>> => work[h].ids[1] \in Own
  /\ pc[h] \in {"idle", "ready", "gates", "counted", "drafting", "done"}
       => work[h].ids = <<>>
  /\ pc[h] \in {"copying", "copysent", "capital", "executing", "assessing", "placing"}
       => work[h].ids # <<>>
  /\ pc[h] \in {"gates", "counted", "drafting", "copying", "copysent"}
       => work[h].symbol \in Symbols

AdmittedOpen == {i \in admitted \ revived : Open(i)}

IInv ==
  /\ GateTypeOK
  /\ \A h \in Sessions : Formed(h)
  /\ admitted \subseteq Own
  /\ Cardinality(AdmittedOpen) <= Capital

-----------------------------------------------------------------------------
(* Finite sets of rows.                                                    *)

LEMMA IdsFinite ==
  ASSUME rows \in Seq(SignalRow), NEW S \in SUBSET Ids
  PROVE  IsFiniteSet(S) /\ Cardinality(S) \in Nat
<1>1. IsFiniteSet(1..Len(rows))
  BY FS_Interval
<1>2. Ids = 1..Len(rows)
  BY DEF Ids
<1>3. IsFiniteSet(S)
  BY <1>1, <1>2, FS_Subset
<1>4. QED
  BY <1>3, FS_CardinalityType

-----------------------------------------------------------------------------
(* What a step may do to the rows: insert some, and reopen none that it    *)
(* does not remember.                                                      *)
RowsKept ==
  /\ rows' \in Seq(SignalRow) /\ Ids \subseteq Ids'
  /\ revived \subseteq revived' /\ revived' \subseteq Ids'
  /\ \A j \in Ids : rows'[j].copied = rows[j].copied
  /\ \A j \in Ids \ revived' : Open(j)' => Open(j)

LEMMA UnchangedKeepsRows ==
  ASSUME GateTypeOK, UNCHANGED <<rows, revived>>
  PROVE  RowsKept
  BY DEF GateTypeOK, RowsKept, Ids, Open

LEMMA SetStatusKeepsRows ==
  ASSUME GateTypeOK, NEW i \in Ids, SetStatus(i, "ACTIVE") \/
           \E status \in {"CLOSED", "CANCELLED", "ERROR"} : SetStatus(i, status)
  PROVE  RowsKept
<1>1. PICK status \in {"ACTIVE", "CLOSED", "CANCELLED", "ERROR"} : SetStatus(i, status)
  OBVIOUS
<1>2. /\ rows' = [rows EXCEPT ![i].status = status]
      /\ revived' = IF status = "ACTIVE" /\ ~Open(i) THEN revived \cup {i} ELSE revived
  BY <1>1 DEF SetStatus
<1>3. rows \in Seq(SignalRow) /\ i \in 1..Len(rows) /\ rows[i] \in SignalRow
  BY DEF GateTypeOK, Ids
<1>4. [rows[i] EXCEPT !.status = status] \in SignalRow
  BY <1>3 DEF SignalRow, Statuses
<1>5. rows' = [rows EXCEPT ![i] = [rows[i] EXCEPT !.status = status]]
  BY <1>2
<1>6. rows' \in Seq(SignalRow) /\ Len(rows') = Len(rows)
  BY <1>3, <1>4, <1>5
<1>7. Ids' = Ids
  BY <1>3, <1>6 DEF Ids
<1>8. \A j \in Ids : /\ rows'[j].copied = rows[j].copied
                     /\ rows'[j].status = IF j = i THEN status ELSE rows[j].status
  BY <1>3, <1>5 DEF Ids, SignalRow
<1>9. revived \subseteq revived' /\ revived' \subseteq Ids
  BY <1>2 DEF GateTypeOK
<1>10. \A j \in Ids \ revived' : Open(j)' => Open(j)
  BY <1>2, <1>8 DEF Open
<1>11. QED
  BY <1>6, <1>7, <1>8, <1>9, <1>10 DEF RowsKept

LEMMA InsertFacts ==
  ASSUME GateTypeOK, NEW h \in Sources, work[h].symbol \in Symbols,
         NEW draft \in BOOLEAN, NEW copied \in BOOLEAN, Insert(h, draft, copied)
  PROVE  /\ RowsKept
         /\ Len(rows) + 1 \in Nat /\ Len(rows) + 1 \in Ids'
         /\ rows'[Len(rows) + 1].copied = copied
<1> DEFINE new == [symbol |-> work[h].symbol, status |-> "PENDING",
                   deleted |-> FALSE, day |-> day, draft |-> draft,
                   copied |-> copied]
<1>1. rows' = Append(rows, new) /\ revived' = revived
  BY DEF Insert
<1>2. new \in SignalRow
  BY DEF GateTypeOK, SignalRow, Statuses
<1>3. rows \in Seq(SignalRow) /\ revived \subseteq Ids
  BY DEF GateTypeOK
<1>4. new.copied = copied
  OBVIOUS
<1> HIDE DEF new
<1>5. /\ rows' \in Seq(SignalRow) /\ Len(rows') = Len(rows) + 1 /\ Len(rows) \in Nat
      /\ \A j \in 1..Len(rows) : rows'[j] = rows[j]
      /\ rows'[Len(rows) + 1] = new
  BY <1>1, <1>2, <1>3
<1>6. Ids = 1..Len(rows) /\ Ids' = 1..(Len(rows) + 1)
  BY <1>3, <1>5 DEF Ids
<1>7. RowsKept
  BY <1>1, <1>3, <1>5, <1>6 DEF RowsKept, Open
<1>8. QED
  BY <1>4, <1>5, <1>6, <1>7

LEMMA RecordKeepsRows ==
  ASSUME GateTypeOK, NEW i \in Ids, NEW success \in BOOLEAN, Record(i, success)
  PROVE  RowsKept
<1>1. CASE UNCHANGED <<rows, revived>>
  BY <1>1, UnchangedKeepsRows
<1>2. CASE SetStatus(i, IF success THEN "ACTIVE" ELSE "ERROR")
  <2>1. CASE success
    BY <1>2, <2>1, SetStatusKeepsRows
  <2>2. CASE ~success
    BY <1>2, <2>2, SetStatusKeepsRows
  <2>3. QED
    BY <2>1, <2>2
<1>3. QED
  BY <1>1, <1>2 DEF Record

(* Of the rows the capital check let through, a step adds none to those    *)
(* that are open.                                                          *)
LEMMA AdmittedKept ==
  ASSUME IInv, RowsKept, UNCHANGED admitted
  PROVE  /\ (admitted \subseteq Own)'
         /\ (Cardinality(AdmittedOpen) <= Capital)'
<1>1. Own \subseteq Own' /\ admitted \subseteq Own /\ Own \subseteq Ids
  BY DEF IInv, RowsKept, Own
<1>2. AdmittedOpen' \subseteq AdmittedOpen /\ AdmittedOpen \subseteq Ids
  BY <1>1 DEF RowsKept, AdmittedOpen
<1>3. IsFiniteSet(AdmittedOpen) /\ Cardinality(AdmittedOpen) \in Nat
  BY <1>2, IdsFinite DEF IInv, GateTypeOK
<1>4. Cardinality(AdmittedOpen') <= Cardinality(AdmittedOpen) /\ IsFiniteSet(AdmittedOpen')
  BY <1>2, <1>3, FS_Subset
<1>5. Cardinality(AdmittedOpen') \in Nat
  BY <1>4, FS_CardinalityType
<1>6. Cardinality(AdmittedOpen) <= Capital /\ Capital \in Nat
  BY CapsAssumption DEF IInv
<1>7. Cardinality(AdmittedOpen') <= Capital
  BY <1>3, <1>4, <1>5, <1>6
<1>8. QED
  BY <1>1, <1>7

-----------------------------------------------------------------------------
(* One session moves and the others stay as they are.                      *)

Moves(h) ==
  /\ \A g \in Sessions \ {h} : pc'[g] = pc[g] /\ work'[g] = work[g]
  /\ pc' = [g \in Sessions |-> pc'[g]]
  /\ work' = [g \in Sessions |-> work'[g]]

LEMMA SessionStep ==
  ASSUME IInv, RowsKept, NEW h \in Sessions, Moves(h), Formed(h)',
         (admitted \subseteq Own)', (Cardinality(AdmittedOpen) <= Capital)',
         UNCHANGED <<day, moves>>, peak' \in Nat
  PROVE  IInv'
<1>1. Own \subseteq Own' /\ Ids \subseteq Ids' /\ Own' \subseteq Ids'
  BY DEF RowsKept, Own
<1>2. ASSUME NEW g \in Sessions PROVE Formed(g)'
  <2>1. CASE g = h
    BY <2>1
  <2>2. CASE g # h
    <3>1. pc'[g] = pc[g] /\ work'[g] = work[g] /\ Formed(g)
      BY <2>2 DEF Moves, IInv
    <3>2. QED
      BY <1>1, <3>1 DEF Formed
  <2>3. QED
    BY <2>1, <2>2
<1>3. GateTypeOK'
  <2>1. pc' \in [Sessions -> Labels] /\ work' \in [Sessions -> Work]
    BY <1>2 DEF Moves, Formed
  <2>2. (\A g \in Sessions : \A k \in DOMAIN work[g].ids : work[g].ids[k] \in Ids)'
    BY <1>2 DEF Formed
  <2>3. admitted' \subseteq Ids'
    BY <1>1
  <2>4. QED
    BY <2>1, <2>2, <2>3 DEF IInv, GateTypeOK, RowsKept
<1>4. QED
  BY <1>2, <1>3 DEF IInv

LEMMA FinishFacts ==
  ASSUME IInv, NEW h \in Sessions, Finish(h)
  PROVE  Moves(h) /\ Formed(h)'
<1>1. /\ pc' = [pc EXCEPT ![h] = IF h = Scanner THEN "ready" ELSE "done"]
      /\ work' = [work EXCEPT ![h] = NoWork]
      /\ pc \in [Sessions -> Labels] /\ work \in [Sessions -> Work]
  BY DEF Finish, IInv, GateTypeOK
<1>2. NoWork \in Work /\ NoWork.ids = <<>>
  BY DEF NoWork, Work, Statuses
<1>3. Moves(h)
  BY <1>1 DEF Moves
<1>4. pc'[h] \in {"ready", "done"} /\ work'[h] = NoWork
  BY <1>1
<1>5. QED
  BY <1>2, <1>3, <1>4 DEF Formed, Labels

LEMMA GotoFacts ==
  ASSUME IInv, NEW h \in Sessions, NEW label \in Labels, Goto(h, label)
  PROVE  Moves(h) /\ pc'[h] = label /\ work'[h] = work[h]
  BY DEF Goto, IInv, GateTypeOK, Moves

(* A handler that ends, or leaves the rows alone.                          *)
LEMMA FinishKeeps ==
  ASSUME IInv, RowsKept, NEW h \in Sessions, Finish(h),
         UNCHANGED <<admitted, day, moves, peak>>
  PROVE  IInv'
  BY FinishFacts, AdmittedKept, SessionStep DEF IInv, GateTypeOK

LEMMA QuietKeeps ==
  ASSUME IInv, NEW h \in Sessions, Moves(h), Formed(h)',
         UNCHANGED <<trades, day, moves>>, peak' \in Nat
  PROVE  IInv'
<1>1. RowsKept /\ UNCHANGED admitted
  BY UnchangedKeepsRows DEF IInv, trades
<1>2. QED
  BY <1>1, AdmittedKept, SessionStep

(* Somebody else writes the rows.                                          *)
LEMMA MovedKeeps ==
  ASSUME IInv, RowsKept, Moved, day' \in Nat
  PROVE  IInv'
<1>1. /\ UNCHANGED <<admitted, pc, work, peak>> /\ moves' \in 0..MaxMoves
  BY CapsAssumption DEF Moved, IInv, GateTypeOK
<1>2. Own \subseteq Own' /\ Ids \subseteq Ids' /\ Own' \subseteq Ids'
  BY DEF RowsKept, Own
<1>3. ASSUME NEW g \in Sessions PROVE Formed(g)'
  <2>1. Formed(g)
    BY DEF IInv
  <2>2. QED
    BY <1>1, <1>2, <2>1 DEF Formed
<1>4. (admitted \subseteq Own)' /\ (Cardinality(AdmittedOpen) <= Capital)'
  BY <1>1, AdmittedKept
<1>5. GateTypeOK'
  BY <1>1, <1>2, <1>3, <1>4 DEF IInv, GateTypeOK, RowsKept, Formed
<1>6. QED
  BY <1>3, <1>4, <1>5 DEF IInv
-----------------------------------------------------------------------------
(* The gates.                                                              *)

LEMMA DiesKeeps ==
  ASSUME IInv, NEW h \in Sessions, Dies(h)
  PROVE  IInv'
  BY FinishKeeps, UnchangedKeepsRows DEF Dies, trades, IInv

LEMMA GateKeeps ==
  ASSUME IInv, NEW h \in Sources, NEW to \in {"counted", "drafting"},
         pc[h] \in {"gates", "counted"}, Goto(h, to) \/ Finish(h),
         UNCHANGED <<trades, day, moves, peak>>
  PROVE  IInv'
<1>1. h \in Sessions
  BY DEF Sessions
<1>2. CASE Finish(h)
  BY <1>1, <1>2, FinishKeeps, UnchangedKeepsRows DEF trades, IInv
<1>3. CASE Goto(h, to)
  <2>1. Moves(h) /\ pc'[h] = to /\ work'[h] = work[h]
    BY <1>1, <1>3, GotoFacts DEF Labels
  <2>2. RowsKept /\ Formed(h)
    BY <1>1, UnchangedKeepsRows DEF trades, IInv
  <2>3. Formed(h)'
    BY <2>1, <2>2 DEF Formed, Labels, RowsKept
  <2>4. QED
    BY <1>1, <2>1, <2>3, QuietKeeps DEF IInv, GateTypeOK
<1>4. QED
  BY <1>2, <1>3

LEMMA DedupKeeps ==
  ASSUME IInv, NEW h \in Sources, NEW s \in Symbols, Dedup(h, s)
  PROVE  IInv'
<1>1. /\ pc[h] = "ready" /\ pc' = [pc EXCEPT ![h] = "gates"]
      /\ work' = [work EXCEPT ![h].symbol = s]
      /\ peak' = IF Cardinality(Between) + 1 > peak THEN Cardinality(Between) + 1 ELSE peak
      /\ UNCHANGED <<trades, day, moves>>
  BY DEF Dedup
<1>2. h \in Sessions /\ pc \in [Sessions -> Labels] /\ work \in [Sessions -> Work]
  BY DEF Sessions, IInv, GateTypeOK
<1>3. Cardinality(Between) \in Nat
  <2>1. IsFiniteSet(Sources)
    BY ActorsAssumption, FS_AddElement DEF Sources
  <2>2. Between \subseteq Sources
    BY DEF Between
  <2>3. QED
    BY <2>1, <2>2, FS_Subset, FS_CardinalityType
<1>4. peak' \in Nat
  BY <1>1, <1>3 DEF IInv, GateTypeOK
<1>5. Moves(h)
  BY <1>1, <1>2 DEF Moves
<1>6. RowsKept /\ Formed(h)
  BY <1>1, <1>2, UnchangedKeepsRows DEF trades, IInv
<1>7. Formed(h)'
  <2>1. pc'[h] = "gates" /\ work'[h] = [work[h] EXCEPT !.symbol = s]
    BY <1>1, <1>2
  <2>2. work'[h] \in Work /\ work'[h].symbol = s /\ work'[h].ids = work[h].ids
    BY <1>2, <2>1 DEF Work
  <2>3. work[h].ids = <<>>
    BY <1>1, <1>6 DEF Formed
  <2>4. QED
    BY <2>1, <2>2, <2>3 DEF Formed, Labels
<1>8. QED
  BY <1>1, <1>2, <1>4, <1>5, <1>7, QuietKeeps

-----------------------------------------------------------------------------
(* Inserts.                                                                *)

(* Another row in hand, the owner's first.                                 *)
LEMMA InsertedFacts ==
  ASSUME IInv, NEW h \in Sources, NEW draft \in BOOLEAN, NEW copied \in BOOLEAN,
         Insert(h, draft, copied), work[h].symbol \in Symbols,
         work[h].ids = <<>> => ~copied
  PROVE  LET w == Inserted(work[h])
         IN  /\ w \in Work /\ w.symbol \in Symbols /\ w.ids # <<>>
             /\ \A k \in DOMAIN w.ids : w.ids[k] \in Ids'
             /\ w.ids[1] \in Own'
<1> DEFINE w == Inserted(work[h])
           n == Len(rows) + 1
           ids == work[h].ids
<1>1. h \in Sessions /\ work[h] \in Work /\ Formed(h)
  BY DEF Sessions, IInv, GateTypeOK
<1>2. RowsKept /\ n \in Nat /\ n \in Ids' /\ rows'[n].copied = copied
  BY InsertFacts DEF IInv
<1>3. w = [work[h] EXCEPT !.ids = Append(ids, n)]
  BY DEF Inserted
<1> HIDE DEF n
<1>4. ids \in Seq(Nat)
  BY <1>1 DEF Work
<1>5. Append(ids, n) \in Seq(Nat)
  BY <1>2, <1>4
<1>6. w \in Work /\ w.symbol = work[h].symbol /\ w.ids = Append(ids, n)
  BY <1>1, <1>3, <1>5 DEF Work
<1> HIDE DEF w
<1>7. /\ Len(w.ids) = Len(ids) + 1 /\ DOMAIN w.ids = 1..(Len(ids) + 1)
      /\ Len(ids) \in Nat /\ DOMAIN ids = 1..Len(ids)
      /\ \A k \in 1..Len(ids) : w.ids[k] = ids[k]
      /\ w.ids[Len(ids) + 1] = n
  BY <1>2, <1>4, <1>6
<1>8. w.ids # <<>>
  BY <1>7
<1>9. ASSUME NEW k \in DOMAIN w.ids PROVE w.ids[k] \in Ids'
  <2>1. k \in 1..Len(ids) \/ k = Len(ids) + 1
    BY <1>7
  <2>2. \A j \in DOMAIN ids : ids[j] \in Ids'
    BY <1>1, <1>2 DEF Formed, RowsKept
  <2>3. QED
    BY <1>2, <1>7, <2>1, <2>2
<1>10. w.ids[1] \in Own'
  <2>1. CASE ids = <<>>
    <3>1. Len(ids) = 0
      BY <2>1
    <3>2. w.ids[1] = n /\ ~copied
      BY <1>7, <2>1, <3>1
    <3>3. QED
      BY <1>2, <3>2 DEF Own
  <2>2. CASE ids # <<>>
    <3>1. Len(ids) >= 1
      BY <1>4, <1>7, <2>2
    <3>2. w.ids[1] = ids[1] /\ ids[1] \in Own
      BY <1>1, <1>7, <2>2, <3>1 DEF Formed
    <3>3. QED
      BY <1>2, <3>2 DEF Own, RowsKept
  <2>3. QED
    BY <2>1, <2>2
<1>11. QED
  BY <1>6, <1>8, <1>9, <1>10 DEF w

(* Wherever the signal goes from here, it goes with what it has in hand.   *)
LEMMA ProceedFacts ==
  ASSUME IInv, NEW h \in Sources, NEW w \in Work, NEW draft, Proceed(h, w, draft),
         w.symbol \in Symbols, w.ids # <<>>,
         \A k \in DOMAIN w.ids : w.ids[k] \in Ids', w.ids[1] \in Own'
  PROVE  Moves(h) /\ Formed(h)'
<1>1. h \in Sessions /\ pc \in [Sessions -> Labels] /\ work \in [Sessions -> Work]
  BY DEF Sessions, IInv, GateTypeOK
<1>2. CASE Finish(h)
  BY <1>1, <1>2, FinishFacts
<1>3. ASSUME NEW label \in {"copying", "capital"}, pc' = [pc EXCEPT ![h] = label],
             work' = [work EXCEPT ![h] = w]
      PROVE  Moves(h) /\ Formed(h)'
  <2>1. Moves(h)
    BY <1>1, <1>3 DEF Moves
  <2>2. pc'[h] = label /\ work'[h] = w
    BY <1>1, <1>3
  <2>3. QED
    BY <2>1, <2>2 DEF Formed, Labels
<1>4. QED
  BY <1>2, <1>3 DEF Proceed

(* An insert with what follows it.                                         *)
LEMMA InsertProceedKeeps ==
  ASSUME IInv, NEW h \in Sources, NEW draft \in BOOLEAN, NEW copied \in BOOLEAN,
         NEW drafted, work[h].symbol \in Symbols, work[h].ids = <<>> => ~copied,
         Insert(h, draft, copied), Proceed(h, Inserted(work[h]), drafted)
  PROVE  IInv'
<1>1. h \in Sessions /\ RowsKept
  BY InsertFacts DEF Sessions, IInv
<1>2. UNCHANGED <<admitted, day, moves, peak>>
  BY DEF Insert
<1>3. Moves(h) /\ Formed(h)'
  BY InsertedFacts, ProceedFacts
<1>4. QED
  BY <1>1, <1>2, <1>3, AdmittedKept, SessionStep DEF IInv, GateTypeOK

LEMMA PersistKeeps ==
  ASSUME IInv, NEW h \in Sources, NEW draft \in BOOLEAN, Persist(h, draft)
  PROVE  IInv'
<1>1. work[h].symbol \in Symbols
  BY DEF Persist, IInv, Formed, Sessions
<1>2. QED
  BY <1>1, InsertProceedKeeps DEF Persist

LEMMA DraftCopyKeeps ==
  ASSUME IInv, NEW h \in Sources, DraftCopy(h)
  PROVE  IInv'
<1>1. work[h].symbol \in Symbols /\ work[h].ids # <<>>
  BY DEF DraftCopy, IInv, Formed, Sessions
<1>2. QED
  BY <1>1, InsertProceedKeeps DEF DraftCopy

LEMMA SendCopyKeeps ==
  ASSUME IInv, NEW h \in Sources, SendCopy(h)
  PROVE  IInv'
<1> DEFINE w == Inserted(work[h])
<1>1. /\ pc[h] = "copying" /\ Insert(h, FALSE, TRUE)
      /\ pc' = [pc EXCEPT ![h] = "copysent"] /\ work' = [work EXCEPT ![h] = w]
  BY DEF SendCopy
<1>2. /\ h \in Sessions /\ pc \in [Sessions -> Labels] /\ work \in [Sessions -> Work]
      /\ work[h].symbol \in Symbols /\ work[h].ids # <<>>
  BY <1>1 DEF Sessions, IInv, GateTypeOK, Formed
<1>3. /\ w \in Work /\ w.symbol \in Symbols /\ w.ids # <<>>
      /\ \A k \in DOMAIN w.ids : w.ids[k] \in Ids'
      /\ w.ids[1] \in Own'
  BY <1>1, <1>2, InsertedFacts
<1> HIDE DEF w
<1>4. RowsKept /\ UNCHANGED <<admitted, day, moves, peak>>
  BY <1>1, <1>2, InsertFacts DEF IInv, Insert
<1>5. Moves(h) /\ pc'[h] = "copysent" /\ work'[h] = w
  BY <1>1, <1>2 DEF Moves
<1>6. Formed(h)'
  BY <1>3, <1>5 DEF Formed, Labels
<1>7. QED
  BY <1>2, <1>4, <1>5, <1>6, AdmittedKept, SessionStep DEF IInv, GateTypeOK

-----------------------------------------------------------------------------
(* Outcomes.                                                               *)

LEMMA CopyExecutedKeeps ==
  ASSUME IInv, NEW h \in Sources, NEW success \in BOOLEAN, CopyExecuted(h, success)
  PROVE  IInv'
<1> DEFINE ids == work[h].ids
           i == ids[Len(ids)]
<1>1. /\ pc[h] = "copysent" /\ Record(i, success)
      /\ Proceed(h, work[h], OwnDraft(h))
      /\ UNCHANGED <<admitted, day, moves, peak>>
  BY DEF CopyExecuted
<1>2. h \in Sessions /\ work[h] \in Work /\ Formed(h)
  BY DEF Sessions, IInv, GateTypeOK
<1>3. ids \in Seq(Nat) /\ ids # <<>>
  BY <1>1, <1>2 DEF Work, Formed
<1>4. Len(ids) \in DOMAIN ids
  BY <1>3
<1>5. i \in Ids
  BY <1>2, <1>4 DEF Formed
<1> HIDE DEF i
<1>6. RowsKept
  BY <1>1, <1>5, RecordKeepsRows DEF IInv
<1>7. /\ work[h].symbol \in Symbols /\ ids[1] \in Own'
      /\ \A k \in DOMAIN ids : ids[k] \in Ids'
  BY <1>1, <1>2, <1>3, <1>6 DEF Formed, RowsKept, Own
<1>8. Moves(h) /\ Formed(h)'
  BY <1>1, <1>2, <1>3, <1>7, ProceedFacts
<1>9. QED
  BY <1>1, <1>2, <1>6, <1>8, AdmittedKept, SessionStep DEF IInv, GateTypeOK

(* The session that has a row to execute has it from its owner.            *)
LEMMA FirstInHand ==
  ASSUME IInv, NEW h \in Sessions,
         pc[h] \in {"capital", "executing", "assessing", "placing"}
  PROVE  work[h].ids[1] \in Own /\ work[h].ids[1] \in Ids
  BY DEF IInv, Formed, Own

LEMMA UnaffordableKeeps ==
  ASSUME IInv, NEW h \in Sources, Unaffordable(h)
  PROVE  IInv'
<1>1. /\ pc[h] = "capital" /\ Record(work[h].ids[1], FALSE) /\ Finish(h)
      /\ UNCHANGED <<admitted, day, moves, peak>>
  BY DEF Unaffordable
<1>2. h \in Sessions
  BY DEF Sessions
<1>3. RowsKept
  BY <1>1, <1>2, FirstInHand, RecordKeepsRows DEF IInv
<1>4. QED
  BY <1>1, <1>2, <1>3, FinishKeeps

LEMMA ExecutedKeeps ==
  ASSUME IInv, NEW h \in Sources, NEW success \in BOOLEAN, Executed(h, success)
  PROVE  IInv'
<1>1. /\ pc[h] = "executing" /\ Record(work[h].ids[1], success) /\ Finish(h)
      /\ UNCHANGED <<admitted, day, moves, peak>>
  BY DEF Executed
<1>2. h \in Sessions
  BY DEF Sessions
<1>3. RowsKept
  BY <1>1, <1>2, FirstInHand, RecordKeepsRows DEF IInv
<1>4. QED
  BY <1>1, <1>2, <1>3, FinishKeeps

(* The check counts every other open row of the owner, so what it lets     *)
(* through fits together with all of them, admitted or not.                *)
LEMMA AdmittingFits ==
  ASSUME IInv, NEW i \in Own, Affordable(i)
  PROVE  Cardinality({j \in (admitted \cup {i}) \ revived : Open(j)}) <= Capital
<1> DEFINE others == {j \in Own \ {i} : Open(j)}
           now == {j \in (admitted \cup {i}) \ revived : Open(j)}
<1>1. others \subseteq Ids /\ now \subseteq others \cup {i}
  BY DEF IInv, Own
<1>2. IsFiniteSet(others) /\ Cardinality(others) \in Nat
  BY <1>1, IdsFinite DEF IInv, GateTypeOK
<1>3. /\ IsFiniteSet(others \cup {i})
      /\ Cardinality(others \cup {i}) = Cardinality(others) + 1
  BY <1>2, FS_AddElement
<1>4. Cardinality(now) <= Cardinality(others) + 1 /\ IsFiniteSet(now)
  BY <1>1, <1>3, FS_Subset
<1>5. Cardinality(now) \in Nat
  BY <1>4, FS_CardinalityType
<1>6. Cardinality(others) + 1 <= Capital
  BY DEF Affordable, Committed
<1>7. Capital \in Nat
  BY CapsAssumption
<1> HIDE DEF now, others
<1>8. Cardinality(now) <= Capital
  BY <1>2, <1>4, <1>5, <1>6, <1>7
<1>9. QED
  BY <1>8 DEF now

(* A row is let through and its order goes out.                            *)
LEMMA AdmissionKeeps ==
  ASSUME IInv, NEW h \in Sessions, NEW label \in {"executing", "placing"},
         pc[h] \in {"capital", "assessing"}, Affordable(work[h].ids[1]),
         admitted' = admitted \cup {work[h].ids[1]}, Goto(h, label),
         UNCHANGED <<rows, revived, day, moves, peak>>
  PROVE  IInv'
<1> DEFINE i == work[h].ids[1]
<1>1. i \in Own /\ Formed(h)
  BY FirstInHand DEF IInv
<1>2. Moves(h) /\ pc'[h] = label /\ work'[h] = work[h]
  BY GotoFacts DEF Labels
<1>3. RowsKept
  BY UnchangedKeepsRows DEF IInv
<1>4. Formed(h)'
  BY <1>1, <1>2, <1>3 DEF Formed, Labels, RowsKept, Own
<1>5. (admitted \subseteq Own)'
  <2>1. Own' = Own
    BY DEF Own, Ids
  <2>2. QED
    BY <1>1, <2>1 DEF IInv
<1>6. (Cardinality(AdmittedOpen) <= Capital)'
  <2>1. AdmittedOpen' = {j \in (admitted \cup {i}) \ revived : Open(j)}
    BY DEF AdmittedOpen, Open
  <2>2. QED
    BY <1>1, <2>1, AdmittingFits
<1>7. QED
  BY <1>2, <1>3, <1>4, <1>5, <1>6, SessionStep DEF IInv, GateTypeOK

LEMMA AdmitKeeps ==
  ASSUME IInv, NEW h \in Sources, Admit(h)
  PROVE  IInv'
  BY AdmissionKeeps DEF Admit, Sessions

-----------------------------------------------------------------------------
(* Approvals.                                                              *)

LEMMA LoadTradeKeeps ==
  ASSUME IInv, NEW a \in Approvers, NEW i \in Ids, LoadTrade(a, i)
  PROVE  IInv'
<1>1. /\ i \in Own /\ pc[a] = "idle" /\ pc' = [pc EXCEPT ![a] = "assessing"]
      /\ work' = [work EXCEPT ![a] = [work[a] EXCEPT !.ids = <<i>>,
                                                   !.seen = rows[i].status]]
      /\ UNCHANGED <<trades, day, moves, peak>>
  BY DEF LoadTrade
<1>2. a \in Sessions /\ pc \in [Sessions -> Labels] /\ work \in [Sessions -> Work]
  BY DEF Sessions, IInv, GateTypeOK
<1>3. Moves(a)
  BY <1>1, <1>2 DEF Moves
<1>4. i \in Nat /\ rows[i].status \in Statuses
  <2>1. rows \in Seq(SignalRow) /\ i \in 1..Len(rows)
    BY DEF IInv, GateTypeOK, Ids
  <2>2. rows[i] \in SignalRow
    BY <2>1
  <2>3. QED
    BY <2>1, <2>2 DEF SignalRow
<1>5. /\ pc'[a] = "assessing" /\ work'[a].ids = <<i>> /\ work'[a] \in Work
  <2>1. /\ pc'[a] = "assessing"
        /\ work'[a] = [work[a] EXCEPT !.ids = <<i>>, !.seen = rows[i].status]
    BY <1>1, <1>2
  <2>2. work[a] \in Work /\ <<i>> \in Seq(Nat)
    BY <1>2, <1>4
  <2>3. QED
    BY <1>4, <2>1, <2>2 DEF Work
<1>6. Own' = Own /\ Ids' = Ids
  BY <1>1 DEF trades, Own, Ids
<1>7. DOMAIN work'[a].ids = {1} /\ work'[a].ids[1] = i /\ work'[a].ids # <<>>
  BY <1>5
<1>8. Formed(a)'
  BY <1>1, <1>5, <1>6, <1>7 DEF Formed, Labels
<1>9. QED
  BY <1>1, <1>2, <1>3, <1>8, QuietKeeps DEF IInv, GateTypeOK

LEMMA AssessKeeps ==
  ASSUME IInv, NEW a \in Approvers, Assess(a)
  PROVE  IInv'
<1>1. a \in Sessions /\ pc[a] = "assessing" /\ UNCHANGED <<rows, revived, day, moves, peak>>
  BY DEF Assess, Sessions
<1>2. CASE Affordable(work[a].ids[1])
  BY <1>1, <1>2, AdmissionKeeps DEF Assess
<1>3. CASE ~Affordable(work[a].ids[1])
  <2>1. Finish(a) /\ UNCHANGED admitted
    BY <1>3 DEF Assess
  <2>2. QED
    BY <1>1, <2>1, FinishKeeps, UnchangedKeepsRows DEF IInv
<1>4. QED
  BY <1>2, <1>3

LEMMA ApprovedKeeps ==
  ASSUME IInv, NEW a \in Approvers, NEW success \in BOOLEAN, Approved(a, success)
  PROVE  IInv'
<1> DEFINE outcome == IF success THEN "ACTIVE" ELSE "ERROR"
           i == work[a].ids[1]
<1>1. /\ pc[a] = "placing" /\ Finish(a) /\ UNCHANGED <<admitted, day, moves, peak>>
      /\ UNCHANGED <<rows, revived>> \/ SetStatus(i, outcome)
  BY DEF Approved
<1>2. a \in Sessions /\ i \in Ids
  BY <1>1, FirstInHand DEF Sessions
<1> HIDE DEF i
<1>3. RowsKept
  <2>1. CASE UNCHANGED <<rows, revived>>
    BY <2>1, UnchangedKeepsRows DEF IInv
  <2>2. CASE SetStatus(i, outcome)
    BY <1>2, <2>2, SetStatusKeepsRows DEF IInv
  <2>3. QED
    BY <1>1, <2>1, <2>2
<1>4. QED
  BY <1>1, <1>2, <1>3, FinishKeeps

-----------------------------------------------------------------------------
(* Everybody else.                                                         *)

LEMMA OthersKeep ==
  ASSUME IInv, NEW i \in Ids,
         FillRow(i) \/ Close(i) \/ Decline(i) \/ ToggleDeleted(i)
  PROVE  IInv'
<1>1. CASE ToggleDeleted(i)
  <2>1. /\ Moved /\ UNCHANGED day
        /\ rows' = [rows EXCEPT ![i] = [rows[i] EXCEPT !.deleted = ~@]]
        /\ revived' = IF rows[i].deleted THEN revived \cup {i} ELSE revived
    BY <1>1 DEF ToggleDeleted
  <2>2. rows \in Seq(SignalRow) /\ i \in 1..Len(rows) /\ rows[i] \in SignalRow
    BY DEF IInv, GateTypeOK, Ids
  <2>3. [rows[i] EXCEPT !.deleted = ~@] \in SignalRow
    BY <2>2 DEF SignalRow
  <2>4. rows' \in Seq(SignalRow) /\ Len(rows') = Len(rows)
    BY <2>1, <2>2, <2>3
  <2>5. \A j \in Ids : /\ rows'[j].copied = rows[j].copied
                       /\ rows'[j].status = rows[j].status
    BY <2>1, <2>2 DEF Ids, SignalRow
  <2>6. Ids' = Ids
    BY <2>2, <2>4 DEF Ids
  <2>7. RowsKept
    BY <2>1, <2>4, <2>5, <2>6 DEF IInv, GateTypeOK, RowsKept, Open
  <2>8. QED
    BY <2>1, <2>7, MovedKeeps DEF IInv, GateTypeOK
<1>2. ASSUME NEW status \in {"ACTIVE", "CLOSED", "CANCELLED"}, Becomes(i, status)
      PROVE  IInv'
  <2>1. Moved /\ SetStatus(i, status) /\ UNCHANGED day
    BY <1>2 DEF Becomes
  <2>2. RowsKept
    BY <2>1, SetStatusKeepsRows DEF IInv
  <2>3. QED
    BY <2>1, <2>2, MovedKeeps DEF IInv, GateTypeOK
<1>3. QED
  BY <1>1, <1>2 DEF FillRow, Close, Decline

LEMMA NextDayKeeps ==
  ASSUME IInv, NextDay
  PROVE  IInv'
<1>1. Moved /\ day' = day + 1 /\ UNCHANGED <<rows, revived>>
  BY DEF NextDay
<1>2. QED
  BY <1>1, UnchangedKeepsRows, MovedKeeps DEF IInv, GateTypeOK

-----------------------------------------------------------------------------
LEMMA InitIInv == GateInit => IInv
<1> SUFFICES ASSUME GateInit PROVE IInv
  OBVIOUS
<1>1. /\ rows = <<>> /\ Ids = {} /\ admitted = {} /\ revived = {}
      /\ day = 0 /\ peak = 0 /\ moves = 0
  BY DEF GateInit, Ids
<1>2. NoWork \in Work /\ NoWork.ids = <<>>
  BY DEF NoWork, Work, Statuses
<1>3. /\ pc \in [Sessions -> Labels] /\ work \in [Sessions -> Work]
      /\ \A h \in Sessions : pc[h] \in {"idle", "ready"} /\ work[h] = NoWork
  BY <1>2 DEF GateInit, Labels
<1>4. \A h \in Sessions : Formed(h)
  BY <1>2, <1>3 DEF Formed
<1>5. GateTypeOK
  BY <1>1, <1>2, <1>3, CapsAssumption DEF GateTypeOK
<1>6. AdmittedOpen = {}
  BY <1>1 DEF AdmittedOpen
<1>7. Cardinality(AdmittedOpen) = 0
  BY <1>6, FS_EmptySet
<1>8. QED
  BY <1>1, <1>4, <1>5, <1>7, CapsAssumption DEF IInv

LEMMA SignalKeeps ==
  ASSUME IInv, NEW h \in Sources, Signal(h)
  PROVE  IInv'
<1>1. CASE Refuse(h) \/ CountDaily(h) \/ CountConcurrent(h)
  <2>1. PICK to \in {"counted", "drafting"} :
          /\ pc[h] \in {"gates", "counted"} /\ (Goto(h, to) \/ Finish(h))
          /\ UNCHANGED <<trades, day, moves, peak>>
    BY <1>1 DEF Refuse, CountDaily, CountConcurrent, Gate
  <2>2. QED
    BY <2>1, GateKeeps
<1>2. CASE DraftCopy(h) \/ SendCopy(h) \/ Admit(h) \/ Unaffordable(h)
  BY <1>2, DraftCopyKeeps, SendCopyKeeps, AdmitKeeps, UnaffordableKeeps
<1>3. ASSUME NEW s \in Symbols, Duplicate(h, s) PROVE IInv'
  BY <1>3, FinishKeeps, UnchangedKeepsRows DEF Duplicate, trades, IInv, Sessions
<1>4. ASSUME NEW s \in Symbols, Dedup(h, s) PROVE IInv'
  BY <1>4, DedupKeeps
<1>5. ASSUME NEW draft \in BOOLEAN, Persist(h, draft) PROVE IInv'
  BY <1>5, PersistKeeps
<1>6. ASSUME NEW success \in BOOLEAN, CopyExecuted(h, success) \/ Executed(h, success)
      PROVE  IInv'
  BY <1>6, CopyExecutedKeeps, ExecutedKeeps
<1>7. QED
  BY <1>1, <1>2, <1>3, <1>4, <1>5, <1>6 DEF Signal

LEMMA StepIInv == IInv /\ [GateNext]_gateVars => IInv'
<1> SUFFICES ASSUME IInv, [GateNext]_gateVars PROVE IInv'
  OBVIOUS
<1>1. ASSUME NEW h \in Sources, Signal(h) PROVE IInv'
  BY <1>1, SignalKeeps
<1>2. ASSUME NEW a \in Approvers, Approval(a) PROVE IInv'
  BY <1>2, LoadTradeKeeps, AssessKeeps, ApprovedKeeps DEF Approval
<1>3. ASSUME NEW h \in Sessions, Dies(h) PROVE IInv'
  BY <1>3, DiesKeeps
<1>4. ASSUME NEW i \in Ids, FillRow(i) \/ Close(i) \/ Decline(i) \/ ToggleDeleted(i)
      PROVE  IInv'
  BY <1>4, OthersKeep
<1>5. CASE NextDay
  BY <1>5, NextDayKeeps
<1>6. CASE UNCHANGED gateVars
  BY <1>6 DEF gateVars, trades, IInv, GateTypeOK, Formed, AdmittedOpen, Open, Own, Ids
<1>7. QED
  BY <1>1, <1>2, <1>3, <1>4, <1>5, <1>6 DEF GateNext

(* What every reachable state satisfies: sessions hold rows that exist,    *)
(* the owner's first, and what was let through fits the capital.           *)
THEOREM Invariance == GateSpec => []IInv
  BY InitIInv, StepIInv, PTL DEF GateSpec

(* The types of rows and sessions.                                         *)
THEOREM TypeCorrect == GateSpec => []GateTypeOK
<1>1. IInv => GateTypeOK
  BY DEF IInv
<1>2. QED
  BY <1>1, Invariance, PTL

(* check_capital_adequacy is not raced: signals and approvals, any number  *)
(* of them, never send orders that together exceed the owner's capital.    *)
THEOREM AdmittedIsCovered == GateSpec => []AdmittedWithinCapital
<1>1. IInv => AdmittedWithinCapital
  BY DEF IInv, AdmittedWithinCapital, AdmittedOpen
<1>2. QED
  BY <1>1, Invariance, PTL

-----------------------------------------------------------------------------
(* How far deduplication and the caps give way.  A signal that has looked  *)
(* owes the table its row, and a signal that was counted has a slot for    *)
(* its row and for each copy; what is owed is added to what is there.      *)

Through    == {"gates", "counted", "drafting", "copying", "copysent"}
Owing      == {"gates", "counted", "drafting"}
AfterCount == {"drafting", "copying", "copysent"}
AfterDaily == {"counted", "drafting", "copying", "copysent"}

Due(s) == {h \in Sources : pc[h] \in Owing /\ work[h].symbol = s}

Slots(labels) ==
  {p \in Sources \X (1..(1 + Subscribers)) :
     pc[p[1]] \in labels /\ p[2] > Len(work[p[1]].ids)}

(* What is there, but for the rows that came back.                         *)
OwnOf(s)    == {i \in Own \ revived : rows[i].symbol = s /\ Standing(i)}
StandingNow == {i \in Ids \ revived : Standing(i)}
TodayNow    == Today \ revived

Allowance == peak * (1 + Subscribers)

CountInv ==
  /\ Cardinality(Between) <= peak
  /\ \A s \in Symbols : Cardinality(OwnOf(s)) + Cardinality(Due(s)) <= peak
  /\ Cardinality(StandingNow) + Cardinality(Slots(AfterCount))
       <= MaxConcurrent - 1 + Allowance
  /\ Cardinality(TodayNow) + Cardinality(Slots(AfterDaily))
       <= MaxDaily - 1 + Allowance
  /\ \A i \in Ids : rows[i].day <= day
  /\ \A h \in Sources : pc[h] = "copying" => Len(work[h].ids) <= Subscribers

-----------------------------------------------------------------------------
(* Counting.                                                               *)

LEMMA Smaller ==
  ASSUME NEW A, IsFiniteSet(A), NEW B, IsFiniteSet(B),
         NEW A1 \in SUBSET A, NEW B1 \in SUBSET B
  PROVE  /\ Cardinality(A) + Cardinality(B) \in Nat
         /\ Cardinality(A1) + Cardinality(B1) \in Nat
         /\ Cardinality(A1) + Cardinality(B1) <= Cardinality(A) + Cardinality(B)
<1>1. /\ IsFiniteSet(A1) /\ Cardinality(A1) <= Cardinality(A)
      /\ IsFiniteSet(B1) /\ Cardinality(B1) <= Cardinality(B)
  BY FS_Subset
<1>2. {Cardinality(A), Cardinality(A1), Cardinality(B), Cardinality(B1)} \subseteq Nat
  BY <1>1, FS_CardinalityType
<1> QED
  BY <1>1, <1>2

(* One that was owed has arrived.                                          *)
LEMMA Arrived ==
  ASSUME NEW A, IsFiniteSet(A), NEW B, IsFiniteSet(B), NEW x, NEW y \in B,
         NEW A1 \in SUBSET (A \cup {x}), NEW B1 \in SUBSET (B \ {y})
  PROVE  /\ Cardinality(A) + Cardinality(B) \in Nat
         /\ Cardinality(A1) + Cardinality(B1) \in Nat
         /\ Cardinality(A1) + Cardinality(B1) <= Cardinality(A) + Cardinality(B)
<1>1. /\ IsFiniteSet(A \cup {x}) /\ Cardinality(A \cup {x}) <= Cardinality(A) + 1
      /\ Cardinality(A) \in Nat /\ Cardinality(A \cup {x}) \in Nat
  <2>1. /\ IsFiniteSet(A \cup {x}) /\ Cardinality(A) \in Nat
        /\ Cardinality(A \cup {x}) \in {Cardinality(A), Cardinality(A) + 1}
    BY FS_AddElement, FS_CardinalityType
  <2> QED
    BY <2>1
<1>2. /\ IsFiniteSet(B \ {y}) /\ Cardinality(B \ {y}) = Cardinality(B) - 1
      /\ Cardinality(B) \in Nat /\ Cardinality(B \ {y}) \in Nat
  BY FS_RemoveElement, FS_CardinalityType
<1>3. /\ Cardinality(A1) + Cardinality(B1) \in Nat
      /\ Cardinality(A1) + Cardinality(B1)
           <= Cardinality(A \cup {x}) + Cardinality(B \ {y})
  BY <1>1, <1>2, Smaller
<1> QED
  BY <1>1, <1>2, <1>3

LEMMA SourcesFinite ==
  ASSUME NEW B \in SUBSET Sources
  PROVE  IsFiniteSet(B) /\ Cardinality(B) \in Nat
<1>1. IsFiniteSet(Sources)
  BY ActorsAssumption, FS_AddElement DEF Sources
<1> QED
  BY <1>1, FS_Subset, FS_CardinalityType

(* What signals between check and insert may still bring.                  *)
LEMMA SlotsBound ==
  ASSUME NEW B \in SUBSET Sources, NEW S \in SUBSET (B \X (1..(1 + Subscribers)))
  PROVE  /\ IsFiniteSet(S) /\ Cardinality(S) \in Nat
         /\ Cardinality(S) <= Cardinality(B) * (1 + Subscribers)
<1> DEFINE I == 1..(1 + Subscribers)
<1>1. IsFiniteSet(B) /\ Cardinality(B) \in Nat
  BY SourcesFinite
<1>2. Subscribers \in Nat
  BY CapsAssumption
<1>3. IsFiniteSet(I) /\ Cardinality(I) = 1 + Subscribers
  BY <1>2, FS_Interval
<1>4. /\ IsFiniteSet(B \X I)
      /\ Cardinality(B \X I) = Cardinality(B) * (1 + Subscribers)
  BY <1>1, <1>3, FS_Product
<1>5. IsFiniteSet(S) /\ Cardinality(S) <= Cardinality(B \X I)
  BY <1>4, FS_Subset
<1> QED
  BY <1>4, <1>5, FS_CardinalityType

LEMMA Monotone ==
  ASSUME NEW a \in Nat, NEW b \in Nat, a <= b
  PROVE  /\ a * (1 + Subscribers) \in Nat /\ b * (1 + Subscribers) \in Nat
         /\ a * (1 + Subscribers) <= b * (1 + Subscribers)
<1>1. Subscribers \in Nat
  BY CapsAssumption
<1>2. PICK d \in Nat : b = a + d
  <2>1. b - a \in Nat /\ b = a + (b - a)
    OBVIOUS
  <2> QED
    BY <2>1
<1>3. (a + d) * (1 + Subscribers) = a * (1 + Subscribers) + d * (1 + Subscribers)
  BY <1>1
<1>4. a * (1 + Subscribers) \in Nat /\ d * (1 + Subscribers) \in Nat
  BY <1>1
<1> QED
  BY <1>2, <1>3, <1>4

LEMMA AllFinite ==
  ASSUME GateTypeOK
  PROVE  /\ \A s \in Symbols : IsFiniteSet(OwnOf(s)) /\ IsFiniteSet(Due(s))
         /\ IsFiniteSet(StandingNow) /\ IsFiniteSet(TodayNow)
         /\ IsFiniteSet(Slots(AfterCount)) /\ IsFiniteSet(Slots(AfterDaily))
<1>1. /\ \A s \in Symbols : OwnOf(s) \subseteq Ids /\ Due(s) \subseteq Sources
      /\ StandingNow \subseteq Ids /\ TodayNow \subseteq Ids
  BY DEF OwnOf, Due, StandingNow, TodayNow, Today, Own
<1>2. \A labels : Slots(labels) \subseteq Sources \X (1..(1 + Subscribers))
  BY DEF Slots
<1> QED
  BY <1>1, <1>2, IdsFinite, SourcesFinite, SlotsBound DEF GateTypeOK

-----------------------------------------------------------------------------
(* A step inserts nothing and brings back nothing it does not remember.    *)
RowsSettle ==
  /\ Ids' = Ids /\ revived \subseteq revived'
  /\ \A j \in Ids : /\ rows'[j].symbol = rows[j].symbol
                    /\ rows'[j].copied = rows[j].copied
                    /\ rows'[j].day = rows[j].day
  /\ \A j \in Ids \ revived' :
       /\ Standing(j)' => Standing(j)
       /\ ~rows'[j].deleted => ~rows[j].deleted
       /\ rows[j].status \in {"CANCELLED", "ERROR"}
            => rows'[j].status \in {"CANCELLED", "ERROR"}

LEMMA StatusSettles ==
  ASSUME GateTypeOK, NEW i \in Ids,
         NEW status \in {"ACTIVE", "CLOSED", "CANCELLED", "ERROR"},
         SetStatus(i, status), status = "CLOSED" => rows[i].status = "ACTIVE"
  PROVE  RowsSettle
<1>1. /\ rows' = [rows EXCEPT ![i] = [rows[i] EXCEPT !.status = status]]
      /\ revived' = IF status = "ACTIVE" /\ ~Open(i) THEN revived \cup {i} ELSE revived
  BY DEF SetStatus
<1>2. rows \in Seq(SignalRow) /\ i \in 1..Len(rows) /\ rows[i] \in SignalRow
  BY DEF GateTypeOK, Ids
<1>3. Ids' = Ids
  BY <1>1, <1>2 DEF Ids
<1>4. \A j \in Ids : /\ rows'[j].symbol = rows[j].symbol
                    /\ rows'[j].copied = rows[j].copied
                    /\ rows'[j].day = rows[j].day
                    /\ rows'[j].deleted = rows[j].deleted
                    /\ rows'[j].status = IF j = i THEN status ELSE rows[j].status
  BY <1>1, <1>2 DEF Ids, SignalRow
<1> QED
  BY <1>1, <1>3, <1>4 DEF RowsSettle, Standing, Open

LEMMA UnchangedSettles ==
  ASSUME UNCHANGED <<rows, revived>>
  PROVE  RowsSettle
  BY DEF RowsSettle, Ids, Standing, Open

LEMMA RecordSettles ==
  ASSUME GateTypeOK, NEW i \in Ids, NEW success \in BOOLEAN, Record(i, success)
  PROVE  RowsSettle
<1>1. CASE UNCHANGED <<rows, revived>>
  BY <1>1, UnchangedSettles
<1>2. CASE SetStatus(i, IF success THEN "ACTIVE" ELSE "ERROR")
  <2>1. CASE success
    BY <1>2, <2>1, StatusSettles
  <2>2. CASE ~success
    BY <1>2, <2>2, StatusSettles
  <2> QED
    BY <2>1, <2>2
<1> QED
  BY <1>1, <1>2 DEF Record

LEMMA SettledLive ==
  ASSUME RowsSettle, UNCHANGED day
  PROVE  /\ \A s \in Symbols : OwnOf(s)' \subseteq OwnOf(s)
         /\ StandingNow' \subseteq StandingNow /\ TodayNow' \subseteq TodayNow
         /\ (\A i \in Ids : rows[i].day <= day) => (\A i \in Ids : rows[i].day <= day)'
<1>1. \A s \in Symbols : OwnOf(s)' \subseteq OwnOf(s)
  BY DEF RowsSettle, OwnOf, Own
<1>2. StandingNow' \subseteq StandingNow
  BY DEF RowsSettle, StandingNow
<1>3. TodayNow' \subseteq TodayNow
  BY DEF RowsSettle, TodayNow, Today
<1> QED
  BY <1>1, <1>2, <1>3 DEF RowsSettle

(* An insert adds one row, of its signal's symbol and of today.            *)
LEMMA InsertedLive ==
  ASSUME IInv, NEW h \in Sources, NEW draft \in BOOLEAN, NEW copied \in BOOLEAN,
         Insert(h, draft, copied), \A i \in Ids : rows[i].day <= day
  PROVE  LET n == Len(rows) + 1
         IN  /\ \A s \in Symbols :
                  OwnOf(s)' \subseteq IF copied \/ s # work[h].symbol THEN OwnOf(s)
                                    ELSE OwnOf(s) \cup {n}
             /\ StandingNow' \subseteq StandingNow \cup {n}
             /\ TodayNow' \subseteq TodayNow \cup {n}
             /\ (\A i \in Ids : rows[i].day <= day)'
<1> DEFINE new == [symbol |-> work[h].symbol, status |-> "PENDING",
                   deleted |-> FALSE, day |-> day, draft |-> draft,
                   copied |-> copied]
           n == Len(rows) + 1
<1>1. rows' = Append(rows, new) /\ UNCHANGED <<revived, day>>
  BY DEF Insert
<1>2. rows \in Seq(SignalRow) /\ revived \subseteq Ids /\ day \in Nat
  BY DEF IInv, GateTypeOK
<1>3. new.symbol = work[h].symbol /\ new.day = day /\ new.copied = copied
  OBVIOUS
<1> HIDE DEF new
<1>4. /\ Len(rows') = n /\ n \in Nat
      /\ \A j \in 1..Len(rows) : rows'[j] = rows[j]
      /\ rows'[n] = new
  BY <1>1, <1>2
<1>5. Ids = 1..Len(rows) /\ Ids' = 1..n
  <2>1. DOMAIN rows' = 1..Len(rows')
    BY <1>1, <1>2
  <2> QED
    BY <1>2, <1>4, <2>1 DEF Ids
<1>6. Ids' = Ids \cup {n}
  BY <1>2, <1>4, <1>5
<1> HIDE DEF n
<1>7. \A j \in Ids : rows'[j] = rows[j] /\ (Standing(j)' <=> Standing(j))
  BY <1>4, <1>5 DEF Standing, Open
<1>8. \A s \in Symbols :
        OwnOf(s)' \subseteq IF copied \/ s # work[h].symbol THEN OwnOf(s)
                          ELSE OwnOf(s) \cup {n}
  BY <1>1, <1>3, <1>4, <1>6, <1>7 DEF OwnOf, Own
<1>9. StandingNow' \subseteq StandingNow \cup {n}
  BY <1>1, <1>6, <1>7 DEF StandingNow
<1>10. TodayNow' \subseteq TodayNow \cup {n}
  BY <1>1, <1>6, <1>7 DEF TodayNow, Today
<1>11. ASSUME NEW i \in Ids' PROVE rows'[i].day <= day'
  <2>1. CASE i \in Ids
    BY <1>1, <1>7, <2>1
  <2>2. CASE i = n
    BY <1>1, <1>2, <1>3, <1>4, <2>2
  <2> QED
    BY <1>6, <2>1, <2>2
<1> QED
  BY <1>8, <1>9, <1>10, <1>11 DEF n

-----------------------------------------------------------------------------
(* A session moves and owes no more than before.                           *)
Calm(h) ==
  h \in Sources =>
    /\ pc'[h] \in Through => pc[h] \in Through
    /\ pc'[h] \in Owing => pc[h] \in Owing /\ work'[h].symbol = work[h].symbol
    /\ pc'[h] \in AfterCount => pc[h] \in AfterCount /\ work'[h].ids = work[h].ids
    /\ pc'[h] \in AfterDaily => pc[h] \in AfterDaily /\ work'[h].ids = work[h].ids
    /\ pc'[h] = "copying" => Len(work'[h].ids) <= Subscribers

LEMMA CalmOwes ==
  ASSUME NEW h \in Sessions, Moves(h), Calm(h)
  PROVE  /\ Between' \subseteq Between
         /\ \A s \in Symbols : Due(s)' \subseteq Due(s)
         /\ Slots(AfterCount)' \subseteq Slots(AfterCount)
         /\ Slots(AfterDaily)' \subseteq Slots(AfterDaily)
<1>1. \A g \in Sources : g # h => pc'[g] = pc[g] /\ work'[g] = work[g]
  BY DEF Moves, Sessions
<1>2. Between' \subseteq Between
  BY <1>1 DEF Between, Calm, Through
<1>3. \A s \in Symbols : Due(s)' \subseteq Due(s)
  BY <1>1 DEF Due, Calm
<1>4. ASSUME NEW p \in Slots(AfterCount)' PROVE p \in Slots(AfterCount)
  <2>1. /\ p \in Sources \X (1..(1 + Subscribers)) /\ p[1] \in Sources
        /\ pc'[p[1]] \in AfterCount /\ p[2] > Len(work'[p[1]].ids)
    BY <1>4 DEF Slots
  <2>2. pc[p[1]] \in AfterCount /\ work'[p[1]].ids = work[p[1]].ids
    BY <1>1, <2>1 DEF Calm
  <2> QED
    BY <2>1, <2>2 DEF Slots
<1>5. ASSUME NEW p \in Slots(AfterDaily)' PROVE p \in Slots(AfterDaily)
  <2>1. /\ p \in Sources \X (1..(1 + Subscribers)) /\ p[1] \in Sources
        /\ pc'[p[1]] \in AfterDaily /\ p[2] > Len(work'[p[1]].ids)
    BY <1>5 DEF Slots
  <2>2. pc[p[1]] \in AfterDaily /\ work'[p[1]].ids = work[p[1]].ids
    BY <1>1, <2>1 DEF Calm
  <2> QED
    BY <2>1, <2>2 DEF Slots
<1> QED
  BY <1>2, <1>3, <1>4, <1>5

(* Less is there and less is owed.                                         *)
LEMMA LessKeeps ==
  ASSUME IInv, CountInv, peak' = peak,
         Between' \subseteq Between,
         \A s \in Symbols : OwnOf(s)' \subseteq OwnOf(s) /\ Due(s)' \subseteq Due(s),
         StandingNow' \subseteq StandingNow,
         Slots(AfterCount)' \subseteq Slots(AfterCount),
         TodayNow' \subseteq TodayNow,
         Slots(AfterDaily)' \subseteq Slots(AfterDaily),
         (\A i \in Ids : rows[i].day <= day)',
         (\A h \in Sources : pc[h] = "copying" => Len(work[h].ids) <= Subscribers)'
  PROVE  CountInv'
<1>1. /\ peak \in Nat /\ Allowance \in Nat /\ Allowance' = Allowance
      /\ MaxConcurrent - 1 \in Nat /\ MaxDaily - 1 \in Nat
  <2>1. peak \in Nat /\ peak <= peak
    BY DEF IInv, GateTypeOK
  <2>2. peak * (1 + Subscribers) \in Nat
    BY <2>1, Monotone
  <2> QED
    BY <2>1, <2>2, CapsAssumption DEF Allowance
<1> HIDE DEF Allowance
<1>2. Cardinality(Between') <= peak
  <2>1. Between \subseteq Sources
    BY DEF Between
  <2>2. IsFiniteSet(Between) /\ Cardinality(Between) \in Nat
    BY <2>1, SourcesFinite
  <2>3. Cardinality(Between') <= Cardinality(Between) /\ IsFiniteSet(Between')
    BY <2>2, FS_Subset
  <2>4. Cardinality(Between') \in Nat
    BY <2>3, FS_CardinalityType
  <2> QED
    BY <1>1, <2>2, <2>3, <2>4 DEF CountInv
<1>3. ASSUME NEW s \in Symbols
      PROVE  Cardinality(OwnOf(s)') + Cardinality(Due(s)') <= peak
  <2>1. /\ Cardinality(OwnOf(s)) + Cardinality(Due(s)) \in Nat
        /\ Cardinality(OwnOf(s)') + Cardinality(Due(s)') \in Nat
        /\ Cardinality(OwnOf(s)') + Cardinality(Due(s)')
             <= Cardinality(OwnOf(s)) + Cardinality(Due(s))
    BY AllFinite, Smaller DEF IInv
  <2>2. Cardinality(OwnOf(s)) + Cardinality(Due(s)) <= peak
    BY DEF CountInv
  <2> QED
    BY <1>1, <2>1, <2>2
<1>4. Cardinality(StandingNow') + Cardinality(Slots(AfterCount)')
        <= MaxConcurrent - 1 + Allowance
  <2>1. /\ Cardinality(StandingNow) + Cardinality(Slots(AfterCount)) \in Nat
        /\ Cardinality(StandingNow') + Cardinality(Slots(AfterCount)') \in Nat
        /\ Cardinality(StandingNow') + Cardinality(Slots(AfterCount)')
             <= Cardinality(StandingNow) + Cardinality(Slots(AfterCount))
    BY AllFinite, Smaller DEF IInv
  <2>2. Cardinality(StandingNow) + Cardinality(Slots(AfterCount)) <= MaxConcurrent - 1 + Allowance
    BY DEF CountInv
  <2> QED
    BY <1>1, <2>1, <2>2
<1>5. Cardinality(TodayNow') + Cardinality(Slots(AfterDaily)')
        <= MaxDaily - 1 + Allowance
  <2>1. /\ Cardinality(TodayNow) + Cardinality(Slots(AfterDaily)) \in Nat
        /\ Cardinality(TodayNow') + Cardinality(Slots(AfterDaily)') \in Nat
        /\ Cardinality(TodayNow') + Cardinality(Slots(AfterDaily)')
             <= Cardinality(TodayNow) + Cardinality(Slots(AfterDaily))
    BY AllFinite, Smaller DEF IInv
  <2>2. Cardinality(TodayNow) + Cardinality(Slots(AfterDaily)) <= MaxDaily - 1 + Allowance
    BY DEF CountInv
  <2> QED
    BY <1>1, <2>1, <2>2
<1> QED
  BY <1>1, <1>2, <1>3, <1>4, <1>5 DEF CountInv

(* Most steps: a session moves on, and rows settle.                        *)
LEMMA CalmKeeps ==
  ASSUME IInv, CountInv, NEW h \in Sessions, Moves(h), Calm(h), RowsSettle,
         UNCHANGED <<day, peak>>
  PROVE  CountInv'
<1>1. (\A g \in Sources : pc[g] = "copying" => Len(work[g].ids) <= Subscribers)'
  BY DEF CountInv, Moves, Calm, Sessions
<1> QED
  BY <1>1, SettledLive, CalmOwes, LessKeeps DEF CountInv

LEMMA FinishCalm ==
  ASSUME IInv, NEW h \in Sessions, Finish(h)
  PROVE  Moves(h) /\ Calm(h)
<1>1. pc' = [pc EXCEPT ![h] = IF h = Scanner THEN "ready" ELSE "done"]
      /\ pc \in [Sessions -> Labels]
  BY DEF Finish, IInv, GateTypeOK
<1>2. pc'[h] \in {"ready", "done"}
  BY <1>1
<1> QED
  BY <1>2, FinishFacts DEF Calm, Through, Owing, AfterCount, AfterDaily

LEMMA GotoCalm ==
  ASSUME IInv, NEW h \in Sessions, NEW label \in {"executing", "placing"}, Goto(h, label)
  PROVE  Moves(h) /\ Calm(h)
<1>1. Moves(h) /\ pc'[h] = label
  BY GotoFacts DEF Labels
<1> QED
  BY <1>1 DEF Calm, Through, Owing, AfterCount, AfterDaily

LEMMA FinishCounts ==
  ASSUME IInv, CountInv, NEW h \in Sessions, Finish(h), RowsSettle,
         UNCHANGED <<day, peak>>
  PROVE  CountInv'
  BY FinishCalm, CalmKeeps

LEMMA ProceedCalm ==
  ASSUME IInv, NEW h \in Sources, pc[h] = "copysent", NEW draft,
         Proceed(h, work[h], draft)
  PROVE  Moves(h) /\ Calm(h)
<1>1. h \in Sessions /\ pc \in [Sessions -> Labels] /\ work \in [Sessions -> Work]
  BY DEF Sessions, IInv, GateTypeOK
<1>2. CASE Finish(h)
  BY <1>1, <1>2, FinishCalm
<1>3. ASSUME NEW label \in {"copying", "capital"},
             pc' = [pc EXCEPT ![h] = label], work' = [work EXCEPT ![h] = work[h]],
             label = "copying" => Len(work[h].ids) <= Subscribers
      PROVE  Moves(h) /\ Calm(h)
  <2>1. Moves(h)
    BY <1>1, <1>3 DEF Moves
  <2>2. pc'[h] = label /\ work'[h] = work[h]
    BY <1>1, <1>3
  <2> QED
    BY <1>3, <2>1, <2>2 DEF Calm, Through, Owing, AfterCount, AfterDaily
<1> QED
  BY <1>2, <1>3 DEF Proceed

-----------------------------------------------------------------------------
(* The steps that let a signal through, and the inserts it then makes.     *)

(* A signal passes deduplication: the symbol has no trade at that moment,  *)
(* and everybody who is through is counted by peak.                        *)
LEMMA DedupCounts ==
  ASSUME IInv, CountInv, NEW h \in Sources, NEW s \in Symbols, Dedup(h, s)
  PROVE  CountInv'
<1>1. /\ pc[h] = "ready" /\ ~Twin(s)
      /\ pc' = [pc EXCEPT ![h] = "gates"]
      /\ work' = [work EXCEPT ![h].symbol = s]
      /\ peak' = IF Cardinality(Between) + 1 > peak THEN Cardinality(Between) + 1 ELSE peak
      /\ UNCHANGED <<rows, revived, day>>
  BY DEF Dedup, trades
<1>2. /\ h \in Sessions /\ pc \in [Sessions -> Labels] /\ work \in [Sessions -> Work]
      /\ peak \in Nat
  BY DEF Sessions, IInv, GateTypeOK
<1>3. /\ pc'[h] = "gates" /\ work'[h].symbol = s
      /\ \A g \in Sources : g # h => pc'[g] = pc[g] /\ work'[g] = work[g]
  <2>1. work[h] \in Work
    BY <1>2
  <2> QED
    BY <1>1, <1>2, <2>1 DEF Work, Sessions
<1>4. /\ Between' = Between \cup {h} /\ h \notin Between /\ Between \subseteq Sources
  BY <1>1, <1>3 DEF Between
<1>5. /\ Cardinality(Between) \in Nat /\ IsFiniteSet(Between')
      /\ Cardinality(Between') = Cardinality(Between) + 1
  BY <1>4, SourcesFinite, FS_AddElement
<1>6. /\ peak' \in Nat /\ peak <= peak' /\ Cardinality(Between') <= peak'
  BY <1>1, <1>2, <1>5
<1>7. /\ \A t \in Symbols : OwnOf(t)' = OwnOf(t)
      /\ StandingNow' = StandingNow /\ TodayNow' = TodayNow
  BY <1>1 DEF OwnOf, Own, StandingNow, TodayNow, Today, Standing, Open, Ids
<1>8. ASSUME NEW t \in Symbols
      PROVE  Cardinality(OwnOf(t)') + Cardinality(Due(t)') <= peak'
  <2>1. CASE t = s
    <3>1. OwnOf(t)' = {}
      BY <1>1, <1>7, <2>1 DEF OwnOf, Own, Twin
    <3>2. Due(t)' \subseteq Between'
      BY DEF Due, Between, Owing
    <3>3. Cardinality(Due(t)') <= Cardinality(Between') /\ IsFiniteSet(Due(t)')
      BY <1>5, <3>2, FS_Subset
    <3>4. Cardinality(Due(t)') \in Nat /\ Cardinality(OwnOf(t)') = 0
      BY <3>1, <3>3, FS_CardinalityType, FS_EmptySet
    <3> QED
      BY <1>5, <1>6, <3>3, <3>4
  <2>2. CASE t # s
    <3>1. Due(t)' \subseteq Due(t)
      BY <1>3, <2>2 DEF Due
    <3>2. /\ Cardinality(OwnOf(t)) + Cardinality(Due(t)) \in Nat
          /\ Cardinality(OwnOf(t)') + Cardinality(Due(t)') \in Nat
          /\ Cardinality(OwnOf(t)') + Cardinality(Due(t)')
                <= Cardinality(OwnOf(t)) + Cardinality(Due(t))
      BY <1>7, <3>1, AllFinite, Smaller DEF IInv
    <3>3. Cardinality(OwnOf(t)) + Cardinality(Due(t)) <= peak
      BY DEF CountInv
    <3> QED
      BY <1>2, <1>6, <3>2, <3>3
  <2> QED
    BY <2>1, <2>2
<1>9. /\ Slots(AfterCount)' \subseteq Slots(AfterCount)
      /\ Slots(AfterDaily)' \subseteq Slots(AfterDaily)
  BY <1>3 DEF Slots, AfterCount, AfterDaily
<1>10. /\ Allowance \in Nat /\ Allowance' \in Nat /\ Allowance <= Allowance'
       /\ MaxConcurrent - 1 \in Nat /\ MaxDaily - 1 \in Nat
  BY <1>2, <1>6, Monotone, CapsAssumption DEF Allowance
<1>11. /\ Cardinality(StandingNow') + Cardinality(Slots(AfterCount)')
            <= MaxConcurrent - 1 + Allowance'
  <2>1. /\ Cardinality(StandingNow) + Cardinality(Slots(AfterCount)) \in Nat
        /\ Cardinality(StandingNow') + Cardinality(Slots(AfterCount)') \in Nat
        /\ Cardinality(StandingNow') + Cardinality(Slots(AfterCount)')
             <= Cardinality(StandingNow) + Cardinality(Slots(AfterCount))
    BY <1>7, <1>9, AllFinite, Smaller DEF IInv
  <2>2. Cardinality(StandingNow) + Cardinality(Slots(AfterCount))
          <= MaxConcurrent - 1 + Allowance
    BY DEF CountInv
  <2> QED
    BY <1>10, <2>1, <2>2
<1>12. /\ Cardinality(TodayNow') + Cardinality(Slots(AfterDaily)')
            <= MaxDaily - 1 + Allowance'
  <2>1. /\ Cardinality(TodayNow) + Cardinality(Slots(AfterDaily)) \in Nat
        /\ Cardinality(TodayNow') + Cardinality(Slots(AfterDaily)') \in Nat
        /\ Cardinality(TodayNow') + Cardinality(Slots(AfterDaily)')
             <= Cardinality(TodayNow) + Cardinality(Slots(AfterDaily))
    BY <1>7, <1>9, AllFinite, Smaller DEF IInv
  <2>2. Cardinality(TodayNow) + Cardinality(Slots(AfterDaily))
          <= MaxDaily - 1 + Allowance
    BY DEF CountInv
  <2> QED
    BY <1>10, <2>1, <2>2
<1>13. (\A i \in Ids : rows[i].day <= day)'
  BY <1>1 DEF CountInv, Ids
<1>14. (\A g \in Sources : pc[g] = "copying" => Len(work[g].ids) <= Subscribers)'
  BY <1>3 DEF CountInv
<1> QED
  BY <1>6, <1>8, <1>11, <1>12, <1>13, <1>14 DEF CountInv

(* A cap is met at the moment it is counted, and everybody who is past the *)
(* count has slots of its own.                                             *)
LEMMA CountedSum ==
  ASSUME IInv, CountInv, NEW S \in SUBSET (Between \X (1..(1 + Subscribers))),
         NEW n \in Nat, NEW cap \in Nat \ {0}, n < cap
  PROVE  n + Cardinality(S) <= cap - 1 + Allowance
<1>1. Between \subseteq Sources
  BY DEF Between
<1>2. /\ Cardinality(Between) \in Nat /\ Cardinality(S) \in Nat
      /\ Cardinality(S) <= Cardinality(Between) * (1 + Subscribers)
  BY <1>1, SourcesFinite, SlotsBound
<1>3. /\ Cardinality(Between) * (1 + Subscribers) \in Nat /\ Allowance \in Nat
      /\ Cardinality(Between) * (1 + Subscribers) <= Allowance
  BY <1>2, Monotone DEF IInv, GateTypeOK, CountInv, Allowance
<1> HIDE DEF Allowance
<1>4. Cardinality(S) <= Allowance
  BY <1>2, <1>3
<1> QED
  BY <1>2, <1>3, <1>4

LEMMA PassedCounts ==
  ASSUME IInv, CountInv, NEW h \in Sources,
         \/ /\ pc[h] = "gates" /\ Goto(h, "counted")
            /\ Cardinality(Today) < MaxDaily
         \/ /\ pc[h] = "counted" /\ Goto(h, "drafting") /\ BelowCap,
         UNCHANGED <<trades, day, moves, peak>>
  PROVE  CountInv'
<1> DEFINE to == IF pc[h] = "gates" THEN "counted" ELSE "drafting"
<1>1. h \in Sessions /\ UNCHANGED <<rows, revived, day, peak>>
  BY DEF Sessions, trades
<1>2. /\ Moves(h) /\ pc'[h] = to /\ work'[h] = work[h]
      /\ pc[h] \in {"gates", "counted"}
  BY <1>1, GotoFacts DEF Labels
<1>3. \A g \in Sources : /\ g # h => pc'[g] = pc[g]
                        /\ work'[g] = work[g]
  BY <1>2 DEF Moves, Sessions
<1>4. /\ Between' = Between /\ \A s \in Symbols : Due(s)' = Due(s)
  BY <1>2, <1>3 DEF Between, Due, Owing
<1>5. /\ \A s \in Symbols : OwnOf(s)' = OwnOf(s)
      /\ StandingNow' = StandingNow /\ TodayNow' = TodayNow
  BY <1>1 DEF OwnOf, Own, StandingNow, TodayNow, Today, Standing, Open, Ids
<1>6. /\ Slots(AfterCount)' \subseteq Between \X (1..(1 + Subscribers))
      /\ Slots(AfterDaily)' \subseteq Between \X (1..(1 + Subscribers))
  <2>1. ASSUME NEW labels \in {AfterCount, AfterDaily}, NEW p \in Slots(labels)'
        PROVE  p \in Between \X (1..(1 + Subscribers))
    <3>1. p \in Sources \X (1..(1 + Subscribers)) /\ pc'[p[1]] \in labels
      BY <2>1 DEF Slots
    <3>2. p[1] \in Between'
      BY <3>1 DEF Between, AfterCount, AfterDaily
    <3> QED
      BY <1>4, <3>1, <3>2
  <2> QED
    BY <2>1
<1>7. MaxConcurrent \in Nat \ {0} /\ MaxDaily \in Nat \ {0} /\ Allowance' = Allowance
  BY <1>1, CapsAssumption DEF Allowance
<1>8. Cardinality(StandingNow') + Cardinality(Slots(AfterCount)')
        <= MaxConcurrent - 1 + Allowance
  <2>1. CASE pc[h] = "gates"
    <3>1. Slots(AfterCount)' = Slots(AfterCount)
      BY <1>2, <1>3, <2>1 DEF Slots, AfterCount
    <3> QED
      BY <1>5, <3>1 DEF CountInv
  <2>2. CASE pc[h] = "counted"
    <3>1. Cardinality({i \in Ids : Standing(i)}) < MaxConcurrent
      BY <2>2 DEF BelowCap
    <3>2. StandingNow \subseteq {i \in Ids : Standing(i)}
      BY DEF StandingNow
    <3>3. /\ IsFiniteSet({i \in Ids : Standing(i)})
          /\ Cardinality({i \in Ids : Standing(i)}) \in Nat
      BY IdsFinite DEF IInv, GateTypeOK
    <3>4. /\ Cardinality(StandingNow) \in Nat
          /\ Cardinality(StandingNow) <= Cardinality({i \in Ids : Standing(i)})
      BY <3>2, <3>3, FS_Subset, FS_CardinalityType
    <3>5. Cardinality(StandingNow) < MaxConcurrent
      BY <1>7, <3>1, <3>3, <3>4
    <3> QED
      BY <1>5, <1>6, <1>7, <3>4, <3>5, CountedSum
  <2> QED
    BY <1>2, <2>1, <2>2
<1>9. Cardinality(TodayNow') + Cardinality(Slots(AfterDaily)')
        <= MaxDaily - 1 + Allowance
  <2>1. CASE pc[h] = "counted"
    <3>1. Slots(AfterDaily)' = Slots(AfterDaily)
      BY <1>2, <1>3, <2>1 DEF Slots, AfterDaily
    <3> QED
      BY <1>5, <3>1 DEF CountInv
  <2>2. CASE pc[h] = "gates"
    <3>1. Cardinality(Today) < MaxDaily
      BY <2>2
    <3>2. TodayNow \subseteq Today /\ Today \subseteq Ids
      BY DEF TodayNow, Today
    <3>3. IsFiniteSet(Today) /\ Cardinality(Today) \in Nat
      BY <3>2, IdsFinite DEF IInv, GateTypeOK
    <3>4. /\ Cardinality(TodayNow) \in Nat
          /\ Cardinality(TodayNow) <= Cardinality(Today)
      BY <3>2, <3>3, FS_Subset, FS_CardinalityType
    <3>5. Cardinality(TodayNow) < MaxDaily
      BY <1>7, <3>1, <3>3, <3>4
    <3> QED
      BY <1>5, <1>6, <1>7, <3>4, <3>5, CountedSum
  <2> QED
    BY <1>2, <2>1, <2>2
<1>10. /\ (\A i \in Ids : rows[i].day <= day)'
       /\ (\A g \in Sources : pc[g] = "copying" => Len(work[g].ids) <= Subscribers)'
  BY <1>1, <1>2, <1>3 DEF CountInv, Ids
<1> QED
  BY <1>1, <1>4, <1>5, <1>7, <1>8, <1>9, <1>10 DEF CountInv

(* An insert of h takes one of its slots, and with the owner's row what it *)
(* owed.                                                                   *)
LEMMA InsertCounts ==
  ASSUME IInv, CountInv, NEW h \in Sources, NEW draft \in BOOLEAN, NEW copied \in BOOLEAN,
         Insert(h, draft, copied), Moves(h),
         pc[h] \in {"drafting", "copying"}, ~copied => pc[h] = "drafting",
         Len(work[h].ids) \in 0..Subscribers,
         pc'[h] \notin Owing,
         pc'[h] \in Through => Len(work'[h].ids) = Len(work[h].ids) + 1,
         pc'[h] = "copying" => Len(work'[h].ids) <= Subscribers
  PROVE  CountInv'
<1> DEFINE n == Len(rows) + 1
           k == Len(work[h].ids) + 1
           s == work[h].symbol
<1>1. h \in Sessions /\ UNCHANGED <<revived, day, peak>> /\ Subscribers \in Nat
  BY CapsAssumption DEF Sessions, Insert
<1>2. \A g \in Sources : g # h => pc'[g] = pc[g] /\ work'[g] = work[g]
  BY DEF Moves, Sessions
<1>3. /\ \A t \in Symbols : OwnOf(t)' \subseteq IF copied \/ t # s THEN OwnOf(t)
                                               ELSE OwnOf(t) \cup {n}
      /\ StandingNow' \subseteq StandingNow \cup {n}
      /\ TodayNow' \subseteq TodayNow \cup {n}
      /\ (\A i \in Ids : rows[i].day <= day)'
  BY InsertedLive DEF CountInv
<1> HIDE DEF n
<1>4. Between' \subseteq Between
  BY <1>2 DEF Between, Through, Owing
<1>5. ASSUME NEW t \in Symbols PROVE Due(t)' \subseteq Due(t) \ {h}
  BY <1>2 DEF Due
<1>6. ASSUME NEW labels \in {AfterCount, AfterDaily}
      PROVE  <<h, k>> \in Slots(labels) /\ Slots(labels)' \subseteq Slots(labels) \ {<<h, k>>}
  <2>1. k \in 1..(1 + Subscribers) /\ k > Len(work[h].ids) /\ pc[h] \in labels
    BY <1>1 DEF AfterCount, AfterDaily
  <2>2. <<h, k>> \in Slots(labels)
    BY <2>1 DEF Slots
  <2>3. ASSUME NEW p \in Slots(labels)' PROVE p \in Slots(labels) \ {<<h, k>>}
    <3>1. /\ p \in Sources \X (1..(1 + Subscribers)) /\ p[1] \in Sources
          /\ pc'[p[1]] \in labels /\ p[2] > Len(work'[p[1]].ids)
          /\ p[2] \in Int
      BY <1>1, <2>3 DEF Slots
    <3>2. CASE p[1] # h
      BY <1>2, <3>1, <3>2 DEF Slots
    <3>3. CASE p[1] = h
      <4>1. pc'[h] \in Through
        BY <3>1, <3>3 DEF AfterCount, AfterDaily, Through
      <4>2. Len(work'[h].ids) = k /\ k \in Nat
        BY <1>1, <4>1, <2>1
      <4>3. p[2] > k /\ p[2] > Len(work[h].ids)
        BY <3>1, <3>3, <4>2
      <4> QED
        BY <2>1, <3>1, <3>3, <4>2, <4>3 DEF Slots
    <3> QED
      BY <3>2, <3>3
  <2> QED
    BY <2>2, <2>3
<1> HIDE DEF k
<1>7. /\ peak \in Nat /\ Allowance \in Nat /\ Allowance' = Allowance
      /\ MaxConcurrent - 1 \in Nat /\ MaxDaily - 1 \in Nat
  <2>1. peak \in Nat /\ peak <= peak
    BY DEF IInv, GateTypeOK
  <2>2. peak * (1 + Subscribers) \in Nat
    BY <2>1, Monotone
  <2> QED
    BY <1>1, <2>1, <2>2, CapsAssumption DEF Allowance
<1> HIDE DEF Allowance
<1>8. Cardinality(Between') <= peak
  <2>1. Between \subseteq Sources
    BY DEF Between
  <2>2. IsFiniteSet(Between) /\ Cardinality(Between) \in Nat
    BY <2>1, SourcesFinite
  <2>3. Cardinality(Between') <= Cardinality(Between) /\ IsFiniteSet(Between')
    BY <1>4, <2>2, FS_Subset
  <2>4. Cardinality(Between') \in Nat
    BY <2>3, FS_CardinalityType
  <2> QED
    BY <1>7, <2>2, <2>3, <2>4 DEF CountInv
<1>9. ASSUME NEW t \in Symbols
      PROVE  Cardinality(OwnOf(t)') + Cardinality(Due(t)') <= peak
  <2>1. /\ Cardinality(OwnOf(t)) + Cardinality(Due(t)) \in Nat
        /\ Cardinality(OwnOf(t)') + Cardinality(Due(t)') \in Nat
        /\ Cardinality(OwnOf(t)') + Cardinality(Due(t)')
             <= Cardinality(OwnOf(t)) + Cardinality(Due(t))
    <3>1. IsFiniteSet(OwnOf(t)) /\ IsFiniteSet(Due(t))
      BY AllFinite DEF IInv
    <3>2. CASE copied \/ t # s
      <4>1. OwnOf(t)' \subseteq OwnOf(t) /\ Due(t)' \subseteq Due(t)
        BY <1>3, <1>5, <3>2
      <4> QED
        BY <3>1, <4>1, Smaller
    <3>3. CASE ~copied /\ t = s
      <4>1. h \in Due(t)
        BY <3>3 DEF Due, Owing
      <4>2. OwnOf(t)' \subseteq OwnOf(t) \cup {n} /\ Due(t)' \subseteq Due(t) \ {h}
        BY <1>3, <1>5, <3>3
      <4> QED
        BY <3>1, <4>1, <4>2, Arrived
    <3> QED
      BY <3>2, <3>3
  <2>2. Cardinality(OwnOf(t)) + Cardinality(Due(t)) <= peak
    BY DEF CountInv
  <2> QED
    BY <1>7, <2>1, <2>2
<1>10. Cardinality(StandingNow') + Cardinality(Slots(AfterCount)')
         <= MaxConcurrent - 1 + Allowance
  <2>1. /\ Cardinality(StandingNow) + Cardinality(Slots(AfterCount)) \in Nat
        /\ Cardinality(StandingNow') + Cardinality(Slots(AfterCount)') \in Nat
        /\ Cardinality(StandingNow') + Cardinality(Slots(AfterCount)')
             <= Cardinality(StandingNow) + Cardinality(Slots(AfterCount))
    BY <1>3, <1>6, AllFinite, Arrived DEF IInv
  <2>2. Cardinality(StandingNow) + Cardinality(Slots(AfterCount))
          <= MaxConcurrent - 1 + Allowance
    BY DEF CountInv
  <2> QED
    BY <1>7, <2>1, <2>2
<1>11. Cardinality(TodayNow') + Cardinality(Slots(AfterDaily)')
         <= MaxDaily - 1 + Allowance
  <2>1. /\ Cardinality(TodayNow) + Cardinality(Slots(AfterDaily)) \in Nat
        /\ Cardinality(TodayNow') + Cardinality(Slots(AfterDaily)') \in Nat
        /\ Cardinality(TodayNow') + Cardinality(Slots(AfterDaily)')
             <= Cardinality(TodayNow) + Cardinality(Slots(AfterDaily))
    BY <1>3, <1>6, AllFinite, Arrived DEF IInv
  <2>2. Cardinality(TodayNow) + Cardinality(Slots(AfterDaily))
          <= MaxDaily - 1 + Allowance
    BY DEF CountInv
  <2> QED
    BY <1>7, <2>1, <2>2
<1>12. (\A g \in Sources : pc[g] = "copying" => Len(work[g].ids) <= Subscribers)'
  BY <1>2 DEF CountInv
<1> QED
  BY <1>1, <1>3, <1>7, <1>8, <1>9, <1>10, <1>11, <1>12 DEF CountInv

(* The rows in hand at an insert, and after it.                            *)
LEMMA InHand ==
  ASSUME IInv, CountInv, NEW h \in Sources, pc[h] \in {"drafting", "copying"}
  PROVE  /\ Len(work[h].ids) \in 0..Subscribers
         /\ Len(Inserted(work[h]).ids) = Len(work[h].ids) + 1
         /\ work[h].symbol \in Symbols
<1>1. h \in Sessions /\ work[h] \in Work /\ Formed(h)
  BY DEF Sessions, IInv, GateTypeOK
<1>2. work[h].ids \in Seq(Nat) /\ Len(work[h].ids) \in Nat
  BY <1>1 DEF Work
<1>3. Inserted(work[h]).ids = Append(work[h].ids, Len(rows) + 1)
  BY <1>1 DEF Inserted, Work
<1>4. Len(rows) + 1 \in Nat
  BY DEF IInv, GateTypeOK
<1>5. Len(Inserted(work[h]).ids) = Len(work[h].ids) + 1
  BY <1>2, <1>3, <1>4
<1>6. Len(work[h].ids) <= Subscribers
  <2>1. CASE pc[h] = "copying"
    BY <2>1 DEF CountInv
  <2>2. CASE pc[h] = "drafting"
    <3>1. work[h].ids = <<>>
      BY <1>1, <2>2 DEF Formed
    <3> QED
      BY <3>1, CapsAssumption
  <2> QED
    BY <2>1, <2>2
<1>7. work[h].symbol \in Symbols
  BY <1>1 DEF Formed
<1> QED
  BY <1>2, <1>5, <1>6, <1>7, CapsAssumption

LEMMA InsertProceedCounts ==
  ASSUME IInv, CountInv, NEW h \in Sources, NEW draft \in BOOLEAN, NEW copied \in BOOLEAN,
         NEW drafted, Insert(h, draft, copied), Proceed(h, Inserted(work[h]), drafted),
         pc[h] = "drafting" \/ (pc[h] = "copying" /\ copied)
  PROVE  CountInv'
<1> DEFINE w == Inserted(work[h])
<1>1. /\ Len(work[h].ids) \in 0..Subscribers /\ Len(w.ids) = Len(work[h].ids) + 1
      /\ h \in Sessions /\ pc \in [Sessions -> Labels] /\ work \in [Sessions -> Work]
  BY InHand DEF Sessions, IInv, GateTypeOK
<1> HIDE DEF w
<1>2. CASE Finish(h)
  <2>1. Moves(h) /\ pc'[h] \in {"ready", "done"}
    BY <1>1, <1>2, FinishFacts DEF Finish
  <2> QED
    BY <1>1, <2>1, InsertCounts DEF Owing, Through
<1>3. ASSUME NEW label \in {"copying", "capital"},
             pc' = [pc EXCEPT ![h] = label], work' = [work EXCEPT ![h] = w],
             label = "copying" => Len(w.ids) <= Subscribers
      PROVE  CountInv'
  <2>1. Moves(h)
    BY <1>1, <1>3 DEF Moves
  <2>2. pc'[h] = label /\ work'[h] = w
    BY <1>1, <1>3
  <2> QED
    BY <1>1, <1>3, <2>1, <2>2, InsertCounts DEF Owing, Through
<1> QED
  BY <1>2, <1>3 DEF Proceed, w

LEMMA SendCopyCounts ==
  ASSUME IInv, CountInv, NEW h \in Sources, SendCopy(h)
  PROVE  CountInv'
<1> DEFINE w == Inserted(work[h])
<1>1. /\ pc[h] = "copying" /\ Insert(h, FALSE, TRUE)
      /\ pc' = [pc EXCEPT ![h] = "copysent"] /\ work' = [work EXCEPT ![h] = w]
  BY DEF SendCopy
<1>2. /\ Len(work[h].ids) \in 0..Subscribers /\ Len(w.ids) = Len(work[h].ids) + 1
      /\ h \in Sessions /\ pc \in [Sessions -> Labels] /\ work \in [Sessions -> Work]
  BY <1>1, InHand DEF Sessions, IInv, GateTypeOK
<1> HIDE DEF w
<1>3. Moves(h) /\ pc'[h] = "copysent" /\ work'[h] = w
  BY <1>1, <1>2 DEF Moves
<1> QED
  BY <1>1, <1>2, <1>3, InsertCounts DEF Owing, Through

-----------------------------------------------------------------------------
LEMMA InitCounts == GateInit => CountInv
<1> SUFFICES ASSUME GateInit PROVE CountInv
  OBVIOUS
<1>1. rows = <<>> /\ Ids = {} /\ revived = {} /\ peak = 0
  BY DEF GateInit, Ids
<1>2. \A h \in Sources : pc[h] = "ready"
  BY DEF GateInit, Sessions
<1>3. /\ Between = {} /\ \A s \in Symbols : OwnOf(s) = {} /\ Due(s) = {}
      /\ StandingNow = {} /\ TodayNow = {}
      /\ Slots(AfterCount) = {} /\ Slots(AfterDaily) = {}
  BY <1>1, <1>2 DEF Between, OwnOf, Own, Due, Owing, StandingNow, TodayNow, Today,
     Slots, AfterCount, AfterDaily
<1>4. Cardinality({}) = 0
  BY FS_EmptySet
<1>5. Allowance = 0 /\ MaxConcurrent - 1 \in Nat /\ MaxDaily - 1 \in Nat
  BY <1>1, CapsAssumption DEF Allowance
<1> HIDE DEF Allowance
<1>6. /\ Cardinality(Between) <= peak
      /\ \A s \in Symbols : Cardinality(OwnOf(s)) + Cardinality(Due(s)) <= peak
  <2>1. Cardinality(Between) = 0
    BY <1>3, <1>4
  <2>2. ASSUME NEW s \in Symbols
        PROVE  Cardinality(OwnOf(s)) = 0 /\ Cardinality(Due(s)) = 0
    BY <1>3, <1>4
  <2> QED
    BY <1>1, <2>1, <2>2
<1>7. /\ Cardinality(StandingNow) + Cardinality(Slots(AfterCount))
           <= MaxConcurrent - 1 + Allowance
      /\ Cardinality(TodayNow) + Cardinality(Slots(AfterDaily))
           <= MaxDaily - 1 + Allowance
  BY <1>3, <1>4, <1>5
<1>8. \A h \in Sources : pc[h] # "copying"
  BY <1>2
<1> QED
  BY <1>1, <1>6, <1>7, <1>8 DEF CountInv

LEMMA SignalCounts ==
  ASSUME IInv, CountInv, NEW h \in Sources, Signal(h)
  PROVE  CountInv'
<1>1. h \in Sessions
  BY DEF Sessions
<1>2. CASE Refuse(h) \/ CountDaily(h) \/ CountConcurrent(h)
  <2>1. UNCHANGED <<trades, day, moves, peak>>
    BY <1>2 DEF Refuse, CountDaily, CountConcurrent, Gate
  <2>2. CASE Finish(h)
    BY <1>1, <2>1, <2>2, FinishCounts, UnchangedSettles DEF trades
  <2>3. CASE ~Finish(h)
    BY <1>2, <2>1, <2>3, PassedCounts DEF Refuse, CountDaily, CountConcurrent, Gate
  <2> QED
    BY <2>2, <2>3
<1>3. CASE DraftCopy(h)
  <2>1. /\ Insert(h, TRUE, TRUE) /\ Proceed(h, Inserted(work[h]), OwnDraft(h))
        /\ pc[h] = "drafting" \/ (pc[h] = "copying" /\ TRUE)
    BY <1>3 DEF DraftCopy
  <2> QED
    BY <2>1, InsertProceedCounts
<1>4. CASE SendCopy(h)
  BY <1>4, SendCopyCounts
<1>5. CASE Admit(h)
  BY <1>1, <1>5, GotoCalm, CalmKeeps, UnchangedSettles DEF Admit
<1>6. CASE Unaffordable(h)
  <2>1. RowsSettle
    BY <1>1, <1>6, FirstInHand, RecordSettles DEF Unaffordable, IInv
  <2> QED
    BY <1>1, <1>6, <2>1, FinishCounts DEF Unaffordable
<1>7. ASSUME NEW s \in Symbols, Duplicate(h, s) PROVE CountInv'
  BY <1>1, <1>7, FinishCounts, UnchangedSettles DEF Duplicate, trades
<1>8. ASSUME NEW s \in Symbols, Dedup(h, s) PROVE CountInv'
  BY <1>8, DedupCounts
<1>9. ASSUME NEW draft \in BOOLEAN, Persist(h, draft) PROVE CountInv'
  <2>1. /\ Insert(h, draft, FALSE) /\ Proceed(h, Inserted(work[h]), draft)
        /\ pc[h] = "drafting" \/ (pc[h] = "copying" /\ FALSE)
    BY <1>9 DEF Persist
  <2> QED
    BY <2>1, InsertProceedCounts
<1>10. ASSUME NEW success \in BOOLEAN, CopyExecuted(h, success) PROVE CountInv'
  <2> DEFINE ids == work[h].ids
             i == ids[Len(ids)]
  <2>1. /\ pc[h] = "copysent" /\ Record(i, success)
        /\ Proceed(h, work[h], OwnDraft(h)) /\ UNCHANGED <<day, peak>>
    BY <1>10 DEF CopyExecuted
  <2>2. work[h] \in Work /\ Formed(h)
    BY <1>1 DEF IInv, GateTypeOK
  <2>3. ids \in Seq(Nat) /\ ids # <<>>
    BY <2>1, <2>2 DEF Work, Formed
  <2>4. Len(ids) \in DOMAIN ids
    BY <2>3
  <2>5. i \in Ids
    BY <2>2, <2>4 DEF Formed
  <2> HIDE DEF i
  <2> QED
    BY <1>1, <2>1, <2>5, RecordSettles, ProceedCalm, CalmKeeps DEF IInv
<1>11. ASSUME NEW success \in BOOLEAN, Executed(h, success) PROVE CountInv'
  <2>1. RowsSettle
    BY <1>1, <1>11, FirstInHand, RecordSettles DEF Executed, IInv
  <2> QED
    BY <1>1, <1>11, <2>1, FinishCounts DEF Executed
<1> QED
  BY <1>2, <1>3, <1>4, <1>5, <1>6, <1>7, <1>8, <1>9, <1>10, <1>11 DEF Signal

LEMMA ApprovalCounts ==
  ASSUME IInv, CountInv, NEW a \in Approvers, Approval(a)
  PROVE  CountInv'
<1>1. a \in Sessions /\ a \notin Sources
  BY ActorsAssumption DEF Sessions, Sources
<1>2. Calm(a)
  BY <1>1 DEF Calm
<1>3. ASSUME NEW i \in Ids, LoadTrade(a, i) PROVE CountInv'
  <2>1. Moves(a) /\ UNCHANGED <<rows, revived, day, peak>>
    BY <1>1, <1>3 DEF LoadTrade, Moves, IInv, GateTypeOK, trades
  <2> QED
    BY <1>1, <1>2, <2>1, CalmKeeps, UnchangedSettles
<1>4. CASE Assess(a)
  <2>1. UNCHANGED <<rows, revived, day, peak>> /\ (Finish(a) \/ Goto(a, "placing"))
    BY <1>4 DEF Assess
  <2>2. Moves(a)
    BY <1>1, <2>1, FinishFacts, GotoFacts DEF Labels
  <2> QED
    BY <1>1, <1>2, <2>1, <2>2, CalmKeeps, UnchangedSettles
<1>5. ASSUME NEW success \in BOOLEAN, Approved(a, success) PROVE CountInv'
  <2> DEFINE outcome == IF success THEN "ACTIVE" ELSE "ERROR"
             i == work[a].ids[1]
  <2>1. /\ Finish(a) /\ UNCHANGED <<day, peak>> /\ pc[a] = "placing"
        /\ UNCHANGED <<rows, revived>> \/ SetStatus(i, outcome)
    BY <1>5 DEF Approved
  <2>2. i \in Ids
    BY <1>1, <2>1, FirstInHand
  <2> HIDE DEF i
  <2>3. RowsSettle
    <3>1. CASE UNCHANGED <<rows, revived>>
      BY <3>1, UnchangedSettles
    <3>2. CASE SetStatus(i, outcome)
      BY <2>2, <3>2, StatusSettles DEF IInv
    <3> QED
      BY <2>1, <3>1, <3>2
  <2> QED
    BY <1>1, <2>1, <2>3, FinishCounts
<1> QED
  BY <1>3, <1>4, <1>5 DEF Approval

(* Sessions stand still.                                                   *)
LEMMA MovedCounts ==
  ASSUME IInv, CountInv, Moved, RowsSettle, UNCHANGED day
  PROVE  CountInv'
<1>1. UNCHANGED <<pc, work, peak>>
  BY DEF Moved
<1>2. /\ Between' = Between /\ \A s \in Symbols : Due(s)' = Due(s)
      /\ Slots(AfterCount)' = Slots(AfterCount)
      /\ Slots(AfterDaily)' = Slots(AfterDaily)
  BY <1>1 DEF Between, Due, Slots
<1>3. (\A g \in Sources : pc[g] = "copying" => Len(work[g].ids) <= Subscribers)'
  BY <1>1 DEF CountInv
<1> QED
  BY <1>1, <1>2, <1>3, SettledLive, LessKeeps DEF CountInv

LEMMA OthersCount ==
  ASSUME IInv, CountInv, NEW i \in Ids,
         FillRow(i) \/ Close(i) \/ Decline(i) \/ ToggleDeleted(i)
  PROVE  CountInv'
<1>1. CASE ToggleDeleted(i)
  <2>1. /\ Moved /\ UNCHANGED day
        /\ rows' = [rows EXCEPT ![i] = [rows[i] EXCEPT !.deleted = ~@]]
        /\ revived' = IF rows[i].deleted THEN revived \cup {i} ELSE revived
    BY <1>1 DEF ToggleDeleted
  <2>2. rows \in Seq(SignalRow) /\ i \in 1..Len(rows) /\ rows[i] \in SignalRow
    BY DEF IInv, GateTypeOK, Ids
  <2>3. Ids' = Ids
    BY <2>1, <2>2 DEF Ids
  <2>4. \A j \in Ids : /\ rows'[j].symbol = rows[j].symbol
                      /\ rows'[j].copied = rows[j].copied
                      /\ rows'[j].day = rows[j].day
                      /\ rows'[j].status = rows[j].status
                      /\ j # i => rows'[j].deleted = rows[j].deleted
    BY <2>1, <2>2 DEF Ids, SignalRow
  <2>5. RowsSettle
    BY <2>1, <2>3, <2>4 DEF RowsSettle, Standing, Open
  <2> QED
    BY <2>1, <2>5, MovedCounts
<1>2. ASSUME NEW status \in {"ACTIVE", "CLOSED", "CANCELLED"}, Becomes(i, status),
             status = "CLOSED" => rows[i].status = "ACTIVE"
      PROVE  CountInv'
  <2>1. Moved /\ SetStatus(i, status) /\ UNCHANGED day
    BY <1>2 DEF Becomes
  <2>2. RowsSettle
    BY <1>2, <2>1, StatusSettles DEF IInv
  <2> QED
    BY <2>1, <2>2, MovedCounts
<1> QED
  BY <1>1, <1>2 DEF FillRow, Close, Decline

(* Midnight: the new day has no rows yet, only the slots of the signals    *)
(* that were counted on the old one.                                       *)
LEMMA NextDayCounts ==
  ASSUME IInv, CountInv, NextDay
  PROVE  CountInv'
<1>1. UNCHANGED <<rows, revived, pc, work, peak>> /\ day' = day + 1
  BY DEF NextDay, Moved
<1>2. rows \in Seq(SignalRow) /\ day \in Nat
  BY DEF IInv, GateTypeOK
<1>3. ASSUME NEW i \in Ids PROVE rows[i].day < day' /\ rows[i].day <= day'
  <2>1. rows[i] \in SignalRow /\ rows[i].day <= day
    BY <1>2 DEF Ids, CountInv
  <2>2. rows[i].day \in Nat
    BY <2>1 DEF SignalRow
  <2> QED
    BY <1>1, <1>2, <2>1, <2>2
<1>4. TodayNow' = {}
  <2>1. \A i \in Ids : rows'[i].day # day'
    <3>1. ASSUME NEW i \in Ids, rows[i].day = day' PROVE FALSE
      BY <1>1, <1>2, <1>3, <3>1
    <3> QED
      BY <1>1, <3>1
  <2> QED
    BY <1>1, <2>1 DEF TodayNow, Today, Ids
<1>5. /\ Between' = Between /\ \A s \in Symbols : Due(s)' = Due(s)
      /\ Slots(AfterCount)' = Slots(AfterCount)
      /\ Slots(AfterDaily)' = Slots(AfterDaily)
      /\ \A s \in Symbols : OwnOf(s)' = OwnOf(s)
      /\ StandingNow' = StandingNow /\ Allowance' = Allowance
  BY <1>1 DEF Between, Due, Slots, OwnOf, Own, StandingNow, Standing, Open, Ids, Allowance
<1>6. Cardinality(TodayNow') + Cardinality(Slots(AfterDaily)')
        <= MaxDaily - 1 + Allowance
  <2>1. Slots(AfterDaily) \subseteq Between \X (1..(1 + Subscribers))
    <3>1. ASSUME NEW p \in Slots(AfterDaily)
          PROVE  p \in Between \X (1..(1 + Subscribers))
      BY DEF Slots, Between, AfterDaily
    <3> QED
      BY <3>1
  <2>2. Cardinality(TodayNow') = 0
    BY <1>4, FS_EmptySet
  <2>3. MaxDaily \in Nat \ {0} /\ 0 < MaxDaily
    BY CapsAssumption
  <2> QED
    BY <1>5, <2>1, <2>2, <2>3, CountedSum
<1>7. (\A i \in Ids : rows[i].day <= day)'
  BY <1>1, <1>3 DEF Ids
<1> QED
  BY <1>1, <1>5, <1>6, <1>7 DEF CountInv

(* What is in the table, together with what the signals past their checks *)
(* may still insert, stays below the cap and the number of signals that   *)
(* crossed.                                                               *)
THEOREM CountInvariance == GateSpec => []CountInv
<1>1. ASSUME IInv, CountInv, [GateNext]_gateVars PROVE CountInv'
  <2>1. ASSUME NEW h \in Sources, Signal(h) PROVE CountInv'
    BY <1>1, <2>1, SignalCounts
  <2>2. ASSUME NEW a \in Approvers, Approval(a) PROVE CountInv'
    BY <1>1, <2>2, ApprovalCounts
  <2>3. ASSUME NEW h \in Sessions, Dies(h) PROVE CountInv'
    BY <1>1, <2>3, FinishCounts, UnchangedSettles DEF Dies, trades
  <2>4. ASSUME NEW i \in Ids, FillRow(i) \/ Close(i) \/ Decline(i) \/ ToggleDeleted(i)
        PROVE  CountInv'
    BY <1>1, <2>4, OthersCount
  <2>5. CASE NextDay
    BY <1>1, <2>5, NextDayCounts
  <2>6. CASE UNCHANGED gateVars
    BY <1>1, <2>6
       DEF gateVars, trades, CountInv, Between, OwnOf, Own, Due, StandingNow, TodayNow, Today,
           Slots, Allowance, Standing, Open, Ids
  <2> QED
    BY <1>1, <2>1, <2>2, <2>3, <2>4, <2>5, <2>6 DEF GateNext
<1> QED
  BY <1>1, InitCounts, Invariance, PTL DEF GateSpec

(* Rows that came back add no more than themselves.                        *)
LEMMA WithRevived ==
  ASSUME GateTypeOK, NEW A \in SUBSET Ids, NEW bound \in Int,
         Cardinality(A \ revived) <= bound
  PROVE  Cardinality(A) <= bound + Cardinality(revived)
<1>1. IsFiniteSet(A \ revived) /\ IsFiniteSet(revived) /\ IsFiniteSet(A)
  BY IdsFinite DEF GateTypeOK
<1>2. /\ IsFiniteSet((A \ revived) \cup revived)
      /\ Cardinality((A \ revived) \cup revived)
           = Cardinality(A \ revived) + Cardinality(revived)
               - Cardinality((A \ revived) \cap revived)
  BY <1>1, FS_Union
<1>3. (A \ revived) \cap revived = {} /\ A \subseteq (A \ revived) \cup revived
  OBVIOUS
<1>4. Cardinality((A \ revived) \cap revived) = 0
  BY <1>3, FS_EmptySet
<1>5. Cardinality(A) <= Cardinality((A \ revived) \cup revived)
  BY <1>2, <1>3, FS_Subset
<1>6. /\ Cardinality(A) \in Nat /\ Cardinality(A \ revived) \in Nat
      /\ Cardinality(revived) \in Nat
  BY <1>1, FS_CardinalityType
<1> QED
  BY <1>2, <1>4, <1>5, <1>6

(* A symbol has no more trades of a bot than signals were ever between     *)
(* check and insert at once, and than came back; for any number of alerts. *)
THEOREM SymbolsApart == GateSpec => []OneTradePerSymbol
<1>1. ASSUME IInv, CountInv PROVE OneTradePerSymbol
  <2>1. ASSUME NEW s \in Symbols
        PROVE  Cardinality({i \in Own : rows[i].symbol = s /\ Standing(i)})
                 <= peak + Cardinality(revived)
    <3> DEFINE A == {i \in Own : rows[i].symbol = s /\ Standing(i)}
    <3>1. A \ revived = OwnOf(s) /\ A \subseteq Ids
      BY DEF OwnOf, Own
    <3>2. /\ Cardinality(OwnOf(s)) \in Nat /\ Cardinality(Due(s)) \in Nat
          /\ peak \in Nat
      BY <1>1, AllFinite, FS_CardinalityType DEF IInv, GateTypeOK
    <3>3. Cardinality(OwnOf(s)) <= peak
      BY <1>1, <3>2 DEF CountInv
    <3> HIDE DEF A
    <3>4. Cardinality(A) <= peak + Cardinality(revived)
      BY <1>1, <3>1, <3>2, <3>3, WithRevived DEF IInv
    <3> QED
      BY <3>4 DEF A
  <2> QED
    BY <2>1 DEF OneTradePerSymbol
<1> QED
  BY <1>1, Invariance, CountInvariance, PTL

(* The caps give way by the signals that crossed, with their copies, and   *)
(* by what came back; for all caps and any number of subscribers.          *)
THEOREM CapsAreHeld == GateSpec => []CapsHold
<1>1. ASSUME IInv, CountInv PROVE CapsHold
  <2>1. /\ Allowance \in Nat /\ MaxConcurrent - 1 \in Nat /\ MaxDaily - 1 \in Nat
        /\ Overshoot = Allowance + Cardinality(revived)
    <3>1. peak \in Nat /\ peak <= peak
      BY <1>1 DEF IInv, GateTypeOK
    <3>2. peak * (1 + Subscribers) \in Nat
      BY <3>1, Monotone
    <3> QED
      BY <3>2, CapsAssumption DEF Allowance, Overshoot
  <2>2. /\ Cardinality(StandingNow) \in Nat /\ Cardinality(Slots(AfterCount)) \in Nat
        /\ Cardinality(TodayNow) \in Nat /\ Cardinality(Slots(AfterDaily)) \in Nat
        /\ IsFiniteSet(revived) /\ Cardinality(revived) \in Nat
    BY <1>1, AllFinite, IdsFinite, FS_CardinalityType DEF IInv, GateTypeOK
  <2>3. /\ Cardinality(StandingNow) <= MaxConcurrent - 1 + Allowance
        /\ Cardinality(TodayNow) <= MaxDaily - 1 + Allowance
    <3> HIDE DEF Allowance
    <3>1. /\ Cardinality(StandingNow) + Cardinality(Slots(AfterCount))
               <= MaxConcurrent - 1 + Allowance
          /\ Cardinality(TodayNow) + Cardinality(Slots(AfterDaily))
               <= MaxDaily - 1 + Allowance
      BY <1>1 DEF CountInv
    <3> QED
      BY <2>1, <2>2, <3>1
  <2> DEFINE A == {i \in Ids : Standing(i)}
  <2>4. A \ revived = StandingNow /\ Today \ revived = TodayNow
        /\ A \subseteq Ids /\ Today \subseteq Ids
    BY DEF StandingNow, TodayNow, Today
  <2> HIDE DEF A, Allowance
  <2>5. Cardinality(A) <= MaxConcurrent - 1 + Allowance + Cardinality(revived)
    BY <1>1, <2>1, <2>3, <2>4, WithRevived DEF IInv
  <2>6. Cardinality(Today) <= MaxDaily - 1 + Allowance + Cardinality(revived)
    BY <1>1, <2>1, <2>3, <2>4, WithRevived DEF IInv
  <2>7. /\ MaxConcurrent - 1 + Allowance + Cardinality(revived)
             = MaxConcurrent - 1 + Overshoot
        /\ MaxDaily - 1 + Allowance + Cardinality(revived) = MaxDaily - 1 + Overshoot
    BY <2>1, <2>2, CapsAssumption
  <2> QED
    BY <2>5, <2>6, <2>7 DEF CapsHold, A
<1> QED
  BY <1>1, Invariance, CountInvariance, PTL
=============================================================================

----------------------------- MODULE Portal_proofs -----------------------------
(***************************************************************************)
(* Proofs about the parts around the trading core, for any number of       *)
(* clerks, learners, entries, requests and runs: what is granted is paid   *)
(* for, what is charged is settled once, a facilitator is never in two     *)
(* places, a lesson is answered from the text it was made of, progress is   *)
(* what was done, a replayed ladder keeps its word and a backtest run does *)
(* not vanish.                                                             *)
(*                                                                         *)
(* Almost everywhere a request holds rows it read earlier.  The invariants *)
(* say what remains true of them while other requests commit, or name, in  *)
(* a history variable, those of which nothing remains true.                *)
(***************************************************************************)
EXTENDS AccessGrants, FeeSettlement, Bookings, Curriculum, LessonTools, BacktestReplay,
        BacktestRuns, FiniteSetTheorems, FunctionTheorems, WellFoundedInduction, TLAPS

(* Access: a clerk holds a row that is still as he read it, unless another *)
(* clerk took it up meanwhile.                                             *)
ClerkRows == [pc : {"idle", "grant", "seats", "redeem", "decline"}, of : Purchases \cup Codes \cup {"none"},
              who : Learners \cup {"none"}, count : Nat]

Granting(d, p) == clerk[d].pc = "grant" /\ clerk[d].of = p
Seating(d, p) == clerk[d].pc = "seats" /\ clerk[d].of = p
Redeeming(d, c) == clerk[d].pc = "redeem" /\ clerk[d].of = c
Succeeded(p) == bought[p].status = "SUCCEEDED"
Unsettled(p) == bought[p].status \in {"none", "PENDING"}

AccessTyped ==
  /\ hour \in 0..LastHour
  /\ bought \in [Purchases -> Payment]
  /\ access \in Seq(UserAccess)
  /\ codes \in [Codes -> AccessCode]
  /\ clerk \in [Clerks -> ClerkRows]
  /\ twice \subseteq Purchases \cup Codes /\ unseated \subseteq Purchases
  /\ \A p \in Purchases : /\ bought[p].charged => bought[p].status # "none"
                          /\ bought[p].status # "none" => bought[p].by \in Learners
                          /\ bought[p].status = "FAILED" => bought[p].simulated
                          /\ bought[p].charged => ~bought[p].simulated
                          /\ bought[p].seats # "some" => bought[p].batches = 0
  /\ \A d \in Clerks : /\ clerk[d].pc \in {"grant", "seats", "decline"} =>
                            clerk[d].of \in Purchases /\ bought[clerk[d].of].status # "none"
                       /\ clerk[d].pc = "seats" => bought[clerk[d].of].seats = "some"
                       /\ clerk[d].pc = "decline" => bought[clerk[d].of].simulated
                       /\ clerk[d].pc = "redeem" => clerk[d].of \in Codes
                       /\ clerk[d].pc # "idle" => clerk[d].who \in Learners

AtMostOne(x) == \A i, j \in GrantsOf(x) : i = j

(* A purchase that one clerk at a time took up.                            *)
PurchaseOnce(p) ==
  /\ AtMostOne(p) /\ bought[p].batches <= 1
  /\ Unsettled(p) \/ (\E d \in Clerks : Granting(d, p)) =>
       /\ GrantsOf(p) = {} /\ bought[p].batches = 0
       /\ \A d \in Clerks : ~Seating(d, p)
  /\ \A d, x \in Clerks : Granting(d, p) /\ Granting(x, p) => x = d
  /\ \A d \in Clerks : Seating(d, p) => /\ bought[p].batches = 0
                                        /\ \A x \in Clerks : Seating(x, p) => x = d

(* And so a code.                                                          *)
CodeOnce(c) ==
  /\ AtMostOne(c)
  /\ codes[c].count = 0 => GrantsOf(c) = {}
  /\ \A d \in Clerks : Redeeming(d, c) => /\ codes[c].count = 0
                                          /\ \A x \in Clerks : Redeeming(x, c) => x = d

(* Seats that were paid for are there, coming or interrupted.              *)
SeatsComing ==
  \A p \in Purchases :
    (Succeeded(p) /\ bought[p].seats = "some") => (bought[p].batches >= 1 \/ SeatsUnderWay(p))

AccessInv ==
  /\ AccessTyped /\ SeatsComing
  /\ \A p \in Purchases \ twice : PurchaseOnce(p)
  /\ \A c \in Codes \ twice : CodeOnce(c)

LEMMA InitAccess == AccessInit => AccessInv
<1> SUFFICES ASSUME AccessInit PROVE AccessInv
  OBVIOUS
<1>1. \A d \in Clerks : clerk[d].pc = "idle"
  BY DEF AccessInit, FreeClerk
<1>2. \A p \in Purchases : /\ bought[p].status = "none" /\ bought[p].batches = 0
                           /\ ~bought[p].charged
  BY DEF AccessInit
<1>3. \A x : GrantsOf(x) = {}
  BY DEF AccessInit, GrantsOf
<1>4. bought \in [Purchases -> Payment]
  BY DEF AccessInit, Payment, Seats
<1>5. codes \in [Codes -> AccessCode]
  BY DEF AccessInit, AccessCode
<1>6. clerk \in [Clerks -> ClerkRows]
  BY DEF AccessInit, ClerkRows, FreeClerk
<1>7. access \in Seq(UserAccess)
  BY DEF AccessInit
<1>8. AccessTyped
  BY <1>1, <1>2, <1>4, <1>5, <1>6, <1>7, GrantBounds DEF AccessInit, AccessTyped
<1>9. \A p \in Purchases : PurchaseOnce(p)
  BY <1>1, <1>2, <1>3 DEF PurchaseOnce, AtMostOne, Granting, Seating
<1>10. \A c \in Codes : CodeOnce(c)
  BY <1>1, <1>3 DEF CodeOnce, AtMostOne, Redeeming
<1>11. SeatsComing
  BY <1>2 DEF SeatsComing, Succeeded
<1> QED
  BY <1>8, <1>9, <1>10, <1>11 DEF AccessInv

(* A grant that is added is one of its source, and of no other.            *)
LEMMA GrantsGrow ==
  ASSUME AccessTyped, NEW l \in Learners, NEW x \in Purchases \cup Codes, access' = Granted(l, x)
  PROVE  /\ access' \in Seq(UserAccess)
         /\ \A y : y # x => GrantsOf(y)' = GrantsOf(y)
         /\ GrantsOf(x)' = GrantsOf(x) \cup {Len(access) + 1}
<1> DEFINE g == [to |-> l, from |-> x, until |-> hour + Window]
<1>1. g \in UserAccess /\ g.from = x
  BY GrantBounds DEF AccessTyped, UserAccess
<1>2. access' = Append(access, g)
  BY DEF Granted
<1> HIDE DEF g
<1>3. access \in Seq(UserAccess) /\ Len(access) \in Nat /\ DOMAIN access = 1..Len(access)
  BY DEF AccessTyped
<1>4. /\ access' \in Seq(UserAccess) /\ DOMAIN access' = 1..(Len(access) + 1)
      /\ access'[Len(access) + 1] = g
      /\ \A i \in 1..Len(access) : access'[i] = access[i]
  BY <1>1, <1>2, <1>3
<1> QED
  BY <1>1, <1>3, <1>4 DEF GrantsOf

(* What was taken up twice, stays so; the rest is untouched by a clerk at  *)
(* other work.                                                             *)
LEMMA PurchaseStays ==
  ASSUME NEW p \in Purchases, PurchaseOnce(p),
         GrantsOf(p)' = GrantsOf(p),
         bought'[p].batches = bought[p].batches, Unsettled(p)' => Unsettled(p),
         \A d \in Clerks : (Granting(d, p)' => Granting(d, p)) /\ (Seating(d, p)' => Seating(d, p))
  PROVE  PurchaseOnce(p)'
  BY DEF PurchaseOnce, AtMostOne

LEMMA CodeStays ==
  ASSUME NEW c \in Codes, CodeOnce(c),
         GrantsOf(c)' = GrantsOf(c), codes'[c].count = codes[c].count,
         \A d \in Clerks : Redeeming(d, c)' => Redeeming(d, c)
  PROVE  CodeOnce(c)'
  BY DEF CodeOnce, AtMostOne

(* A clerk takes up a row.                                                 *)
LEMMA TakeUpTyped ==
  ASSUME AccessTyped, NEW d \in Clerks, NEW pc \in {"grant", "redeem", "decline"},
         NEW of \in Purchases \cup Codes, NEW who \in Learners, NEW count \in Nat,
         TakeUp(d, pc, of, who, count)
  PROVE  /\ clerk' \in [Clerks -> ClerkRows]
         /\ clerk'[d] = [pc |-> pc, of |-> of, who |-> who, count |-> count]
         /\ \A x \in Clerks : x # d => clerk'[x] = clerk[x]
         /\ clerk[d].pc = "idle"
<1> DEFINE new == [pc |-> pc, of |-> of, who |-> who, count |-> count]
<1>1. new \in ClerkRows
  BY DEF ClerkRows
<1>2. /\ clerk' = [clerk EXCEPT ![d] = new] /\ clerk \in [Clerks -> ClerkRows]
      /\ clerk[d].pc = "idle"
  BY DEF TakeUp, AccessTyped
<1> QED
  BY <1>1, <1>2

LEMMA TakeTyped ==
  ASSUME AccessTyped, NEW d \in Clerks, NEW pc \in {"grant", "redeem"},
         NEW of \in Purchases \cup Codes, NEW who \in Learners, NEW count \in Nat,
         Take(d, pc, of, who, count)
  PROVE  /\ clerk' \in [Clerks -> ClerkRows]
         /\ clerk'[d] = [pc |-> pc, of |-> of, who |-> who, count |-> count]
         /\ \A x \in Clerks : x # d => clerk'[x] = clerk[x]
         /\ clerk[d].pc = "idle"
         /\ twice \subseteq twice' /\ twice' \subseteq twice \cup {of}
         /\ of \notin twice' => \A x \in Clerks : ~Granting(x, of) /\ ~Redeeming(x, of)
<1>1. /\ clerk' \in [Clerks -> ClerkRows]
      /\ clerk'[d] = [pc |-> pc, of |-> of, who |-> who, count |-> count]
      /\ \A x \in Clerks : x # d => clerk'[x] = clerk[x]
      /\ clerk[d].pc = "idle"
  <2>1. TakeUp(d, pc, of, who, count) /\ pc \in {"grant", "redeem", "decline"}
    BY DEF Take
  <2> QED
    BY <2>1, TakeUpTyped
<1> QED
  BY <1>1 DEF Take, Granting, Redeeming

LEMMA FreeTyped ==
  ASSUME AccessTyped, NEW d \in Clerks, Free(d)
  PROVE  /\ clerk' \in [Clerks -> ClerkRows] /\ clerk'[d].pc = "idle"
         /\ \A x \in Clerks : x # d => clerk'[x] = clerk[x]
<1>1. FreeClerk \in ClerkRows /\ FreeClerk.pc = "idle"
  BY DEF FreeClerk, ClerkRows
<1>2. clerk' = [clerk EXCEPT ![d] = FreeClerk] /\ clerk \in [Clerks -> ClerkRows]
  BY DEF Free, AccessTyped
<1> QED
  BY <1>1, <1>2

(* Purchases of a learner, and what happens to them before a clerk's work. *)
LEMMA BuyKeeps ==
  ASSUME AccessInv, NEW p \in Purchases, NEW l \in Learners,
         NEW s \in Seats, NEW m \in BOOLEAN, Buy(p, l, s, m)
  PROVE  AccessInv'
<1> DEFINE new == [status |-> "PENDING", by |-> l, seats |-> s, simulated |-> m,
                   charged |-> FALSE, batches |-> 0]
<1>1. new \in Payment
  BY DEF Payment
<1>2. /\ bought' = [bought EXCEPT ![p] = new] /\ bought[p].status = "none"
      /\ UNCHANGED <<hour, access, codes, clerk, twice, unseated>>
  BY DEF Buy
<1>3. /\ bought' \in [Purchases -> Payment] /\ bought'[p] = new
      /\ \A q \in Purchases : q # p => bought'[q] = bought[q]
  BY <1>1, <1>2 DEF AccessInv, AccessTyped
<1>4. AccessTyped'
  BY <1>2, <1>3 DEF AccessInv, AccessTyped
<1>5. \A x : GrantsOf(x)' = GrantsOf(x)
  BY <1>2 DEF GrantsOf
<1>6. ASSUME NEW q \in Purchases \ twice PROVE PurchaseOnce(q)'
  <2>1. PurchaseOnce(q)
    BY DEF AccessInv
  <2>2. Unsettled(q)' => Unsettled(q)
    BY <1>2, <1>3 DEF Unsettled
  <2>3. Unsettled(p)
    BY <1>2 DEF Unsettled
  <2>4. bought'[q].batches = bought[q].batches
    BY <1>3, <2>1, <2>3 DEF PurchaseOnce
  <2> QED
    BY <1>2, <1>5, <2>1, <2>2, <2>4, PurchaseStays DEF Granting, Seating
<1>7. ASSUME NEW c \in Codes \ twice PROVE CodeOnce(c)'
  BY <1>2, <1>5, CodeStays DEF AccessInv, Redeeming
<1>8. SeatsComing'
  BY <1>2, <1>3 DEF AccessInv, SeatsComing, SeatsUnderWay, Succeeded
<1> QED
  BY <1>2, <1>4, <1>6, <1>7, <1>8 DEF AccessInv

(* A charge at the gateway.                                                *)
LEMMA PaymentKeeps ==
  ASSUME AccessInv, NEW p \in Purchases, PaidAtGateway(p)
  PROVE  AccessInv'
<1>1. UNCHANGED <<hour, access, codes, clerk, twice, unseated>>
  BY DEF PaidAtGateway
<1>2. bought \in [Purchases -> Payment] /\ bought[p] \in Payment
  BY DEF AccessInv, AccessTyped
<1>3. /\ bought' = [bought EXCEPT ![p] = [bought[p] EXCEPT !.charged = TRUE]]
      /\ bought[p].status = "PENDING" /\ ~bought[p].simulated
  BY DEF PaidAtGateway
<1>4. [bought[p] EXCEPT !.charged = TRUE] \in Payment
  BY <1>2 DEF Payment
<1>5. /\ bought' \in [Purchases -> Payment]
      /\ \A q \in Purchases : /\ bought'[q].batches = bought[q].batches
                              /\ bought'[q].seats = bought[q].seats
                              /\ bought'[q].by = bought[q].by
                              /\ bought'[q].status = bought[q].status
                              /\ bought'[q].simulated = bought[q].simulated
                              /\ q # p => bought'[q].charged = bought[q].charged
  BY <1>2, <1>3, <1>4 DEF Payment
<1>6. AccessTyped'
  <2>1. \A q \in Purchases : /\ bought'[q].charged => bought'[q].status # "none"
                             /\ bought'[q].charged => ~bought'[q].simulated
    BY <1>3, <1>5 DEF AccessInv, AccessTyped
  <2> QED
    BY <1>1, <1>5, <2>1 DEF AccessInv, AccessTyped
<1>7. \A x : GrantsOf(x)' = GrantsOf(x)
  BY <1>1 DEF GrantsOf
<1>8. ASSUME NEW q \in Purchases \ twice PROVE PurchaseOnce(q)'
  BY <1>1, <1>5, <1>7, PurchaseStays DEF AccessInv, Granting, Seating, Unsettled
<1>9. ASSUME NEW c \in Codes \ twice PROVE CodeOnce(c)'
  BY <1>1, <1>7, CodeStays DEF AccessInv, Redeeming
<1>10. SeatsComing'
  BY <1>1, <1>5 DEF AccessInv, SeatsComing, SeatsUnderWay, Succeeded
<1> QED
  BY <1>1, <1>6, <1>8, <1>9, <1>10 DEF AccessInv

(* A decline is taken up...                                                *)
LEMMA LoadDeclineKeeps ==
  ASSUME AccessInv, NEW d \in Clerks, NEW p \in Purchases, LoadDecline(d, p)
  PROVE  AccessInv'
<1>1. /\ UNCHANGED <<hour, bought, access, codes, twice, unseated>>
      /\ TakeUp(d, "decline", p, bought[p].by, 0)
      /\ bought[p].status # "none" /\ bought[p].simulated
  BY DEF LoadDecline, PageGrants
<1>2. bought[p].by \in Learners /\ AccessTyped
  BY <1>1 DEF AccessInv, AccessTyped
<1>3. /\ clerk' \in [Clerks -> ClerkRows]
      /\ clerk'[d] = [pc |-> "decline", of |-> p, who |-> bought[p].by, count |-> 0]
      /\ \A x \in Clerks : x # d => clerk'[x] = clerk[x]
      /\ clerk[d].pc = "idle"
  BY <1>1, <1>2, TakeUpTyped
<1>4. AccessTyped'
  BY <1>1, <1>2, <1>3 DEF AccessTyped
<1>5. \A x : GrantsOf(x)' = GrantsOf(x)
  BY <1>1 DEF GrantsOf
<1>6. ASSUME NEW q \in Purchases \ twice PROVE PurchaseOnce(q)'
  BY <1>1, <1>3, <1>5, PurchaseStays DEF AccessInv, Granting, Seating, Unsettled
<1>7. ASSUME NEW c \in Codes \ twice PROVE CodeOnce(c)'
  BY <1>1, <1>3, <1>5, CodeStays DEF AccessInv, Redeeming
<1>8. SeatsComing'
  BY <1>1, <1>3 DEF AccessInv, SeatsComing, SeatsUnderWay, Succeeded
<1> QED
  BY <1>1, <1>4, <1>6, <1>7, <1>8 DEF AccessInv

(* ... and written, whatever the status has become.                        *)
LEMMA CommitDeclineKeeps ==
  ASSUME AccessInv, NEW d \in Clerks, CommitDecline(d)
  PROVE  AccessInv'
<1>p. PICK p \in Purchases : p = clerk[d].of
  BY DEF CommitDecline, AccessInv, AccessTyped
<1>1. /\ bought' = [bought EXCEPT ![p] = [bought[p] EXCEPT !.status = "FAILED"]]
      /\ Free(d) /\ UNCHANGED <<hour, access, codes, twice, unseated>>
      /\ clerk[d].pc = "decline" /\ AccessTyped
  BY <1>p DEF CommitDecline, AccessInv
<1>2. bought \in [Purchases -> Payment] /\ bought[p] \in Payment
      /\ bought[p].simulated /\ bought[p].status # "none"
  BY <1>p, <1>1 DEF AccessTyped
<1>3. [bought[p] EXCEPT !.status = "FAILED"] \in Payment
  BY <1>2 DEF Payment
<1>4. /\ bought' \in [Purchases -> Payment] /\ bought'[p].status = "FAILED"
      /\ \A q \in Purchases : /\ bought'[q].batches = bought[q].batches
                              /\ bought'[q].seats = bought[q].seats
                              /\ bought'[q].by = bought[q].by
                              /\ bought'[q].charged = bought[q].charged
                              /\ bought'[q].simulated = bought[q].simulated
                              /\ q # p => bought'[q].status = bought[q].status
  BY <1>1, <1>2, <1>3 DEF Payment
<1>5. /\ clerk' \in [Clerks -> ClerkRows] /\ clerk'[d].pc = "idle"
      /\ \A x \in Clerks : x # d => clerk'[x] = clerk[x]
  BY <1>1, FreeTyped
<1>6. AccessTyped'
  <2>1. \A q \in Purchases : /\ bought'[q].charged => bought'[q].status # "none"
                             /\ bought'[q].status # "none" => bought'[q].by \in Learners
                             /\ bought'[q].status = "FAILED" => bought'[q].simulated
                             /\ bought[q].status # "none" => bought'[q].status # "none"
    BY <1>1, <1>2, <1>4 DEF AccessTyped
  <2>2. \A x \in Clerks : /\ clerk'[x].pc \in {"grant", "seats", "decline"} =>
                                 clerk'[x].of \in Purchases /\ bought'[clerk'[x].of].status # "none"
                          /\ clerk'[x].pc = "seats" => bought'[clerk'[x].of].seats = "some"
                          /\ clerk'[x].pc = "decline" => bought'[clerk'[x].of].simulated
    BY <1>1, <1>4, <1>5, <2>1 DEF AccessTyped
  <2> QED
    BY <1>1, <1>4, <1>5, <2>1, <2>2 DEF AccessTyped
<1>7. \A x : GrantsOf(x)' = GrantsOf(x)
  BY <1>1 DEF GrantsOf
<1>8. ASSUME NEW q \in Purchases \ twice PROVE PurchaseOnce(q)'
  <2>1. Unsettled(q)' => Unsettled(q)
    BY <1>4 DEF Unsettled
  <2> QED
    BY <1>1, <1>4, <1>5, <1>7, <2>1, PurchaseStays DEF AccessInv, Granting, Seating
<1>9. ASSUME NEW c \in Codes \ twice PROVE CodeOnce(c)'
  BY <1>1, <1>5, <1>7, CodeStays DEF AccessInv, Redeeming
<1>10. SeatsComing'
  <2>1. \A q \in Purchases : Succeeded(q)' => Succeeded(q)
    BY <1>4 DEF Succeeded
  <2>2. \A x \in Clerks, q \in Purchases : Seating(x, q) => Seating(x, q)'
    BY <1>1, <1>5 DEF Seating
  <2> QED
    BY <1>1, <1>4, <2>1, <2>2 DEF AccessInv, SeatsComing, SeatsUnderWay, Seating
<1> QED
  BY <1>1, <1>6, <1>8, <1>9, <1>10 DEF AccessInv

LEMMA LoadKeeps ==
  ASSUME AccessInv, NEW d \in Clerks, NEW p \in Purchases, LoadPurchase(d, p)
  PROVE  AccessInv'
<1>1. /\ UNCHANGED <<hour, bought, access, codes, unseated>>
      /\ Take(d, "grant", p, bought[p].by, 0)
      /\ bought[p].status = "PENDING"
  <2>1. bought[p].status \in {"none", "PENDING", "SUCCEEDED", "FAILED"}
    BY DEF AccessInv, AccessTyped, Payment
  <2> QED
    BY <2>1 DEF LoadPurchase, AccessInv, AccessTyped, WebhookGrants, PageGrants
<1>2. bought[p].by \in Learners
  BY <1>1 DEF AccessInv, AccessTyped
<1>3. /\ clerk' \in [Clerks -> ClerkRows]
      /\ clerk'[d] = [pc |-> "grant", of |-> p, who |-> bought[p].by, count |-> 0]
      /\ \A x \in Clerks : x # d => clerk'[x] = clerk[x]
      /\ clerk[d].pc = "idle"
      /\ twice \subseteq twice' /\ twice' \subseteq twice \cup {p}
      /\ p \notin twice' => \A x \in Clerks : ~Granting(x, p)
  BY <1>1, <1>2, TakeTyped DEF AccessInv
<1>4. AccessTyped'
  BY <1>1, <1>2, <1>3 DEF AccessInv, AccessTyped
<1>5. \A x : GrantsOf(x)' = GrantsOf(x)
  BY <1>1 DEF GrantsOf
<1>6. ASSUME NEW q \in Purchases \ twice' PROVE PurchaseOnce(q)'
  <2>1. PurchaseOnce(q)
    BY <1>3 DEF AccessInv
  <2>2. \A x \in Clerks : Seating(x, q)' <=> Seating(x, q)
    BY <1>3 DEF Seating
  <2>3. CASE q # p
    <3>1. \A x \in Clerks : Granting(x, q)' <=> Granting(x, q)
      BY <2>3, <1>3 DEF Granting
    <3> QED
      BY <1>1, <1>5, <2>1, <2>2, <3>1, PurchaseStays DEF Unsettled
  <2>4. CASE q = p
    <3>1. \A x \in Clerks : Granting(x, q)' => x = d
      BY <2>4, <1>3 DEF Granting
    <3> QED
      BY <1>1, <1>5, <2>1, <2>2, <2>4, <3>1 DEF PurchaseOnce, AtMostOne, Unsettled
  <2> QED
    BY <2>3, <2>4
<1>7. ASSUME NEW c \in Codes \ twice' PROVE CodeOnce(c)'
  BY <1>1, <1>3, <1>5, CodeStays DEF AccessInv, Redeeming
<1>8. SeatsComing'
  BY <1>1, <1>3 DEF AccessInv, SeatsComing, SeatsUnderWay, Succeeded
<1> QED
  BY <1>4, <1>6, <1>7, <1>8 DEF AccessInv

(* The first commit.                                                       *)
LEMMA GrantKeeps ==
  ASSUME AccessInv, NEW d \in Clerks, CommitGrant(d)
  PROVE  AccessInv'
<1>p. PICK p \in Purchases : p = clerk[d].of
  BY DEF CommitGrant, AccessInv, AccessTyped
<1>1. /\ clerk[d].who \in Learners /\ Granting(d, p) /\ clerk[d] \in ClerkRows
      /\ bought[p] \in Payment /\ bought[p].status # "none"
  BY <1>p DEF CommitGrant, AccessInv, AccessTyped, Granting
<1>2. /\ bought' = [bought EXCEPT ![p].status = "SUCCEEDED"]
      /\ access' = Granted(clerk[d].who, p)
      /\ clerk' = [clerk EXCEPT ![d] = IF bought[p].seats = "some"
                                        THEN [clerk[d] EXCEPT !.pc = "seats"] ELSE FreeClerk]
      /\ UNCHANGED <<hour, codes, twice, unseated>>
  BY <1>p DEF CommitGrant
<1>3. /\ bought' \in [Purchases -> Payment]
      /\ bought'[p] = [bought[p] EXCEPT !.status = "SUCCEEDED"]
      /\ \A q \in Purchases : q # p => bought'[q] = bought[q]
  BY <1>1, <1>2 DEF AccessInv, AccessTyped, Payment
<1>4. /\ bought'[p].status = "SUCCEEDED" /\ bought'[p].batches = bought[p].batches
      /\ bought'[p].seats = bought[p].seats /\ bought'[p].by = bought[p].by
  BY <1>1, <1>3 DEF Payment
<1>5. /\ clerk' \in [Clerks -> ClerkRows]
      /\ \A x \in Clerks : x # d => clerk'[x] = clerk[x]
      /\ bought[p].seats = "some" => clerk'[d] = [clerk[d] EXCEPT !.pc = "seats"]
      /\ bought[p].seats # "some" => clerk'[d] = FreeClerk
  BY <1>1, <1>2 DEF AccessInv, AccessTyped, ClerkRows, FreeClerk
<1>6. /\ bought[p].seats = "some" => /\ clerk'[d].pc = "seats" /\ clerk'[d].of = p
                                     /\ clerk'[d].who \in Learners
      /\ bought[p].seats # "some" => clerk'[d].pc = "idle"
      /\ clerk'[d].pc \in {"seats", "idle"}
  BY <1>1, <1>5 DEF ClerkRows, FreeClerk, Granting
<1>7. /\ access' \in Seq(UserAccess)
      /\ \A y : y # p => GrantsOf(y)' = GrantsOf(y)
      /\ GrantsOf(p)' = GrantsOf(p) \cup {Len(access) + 1}
  <2>1. AccessTyped /\ p \in Purchases \cup Codes
    BY <1>1 DEF AccessInv
  <2> QED
    BY <1>1, <1>2, <2>1, GrantsGrow
<1>9. AccessTyped'
  <2>1. \A q \in Purchases : /\ bought[q].status # "none" => bought'[q].status # "none"
                             /\ bought'[q].seats = bought[q].seats
                             /\ bought'[q].simulated = bought[q].simulated
                             /\ bought'[q].charged = bought[q].charged
                             /\ bought'[q].batches = bought[q].batches
                             /\ bought'[q].by = bought[q].by
    BY <1>1, <1>3, <1>4 DEF Payment
  <2>2. ASSUME NEW x \in Clerks
        PROVE  /\ clerk'[x].pc \in {"grant", "seats", "decline"} =>
                    clerk'[x].of \in Purchases /\ bought'[clerk'[x].of].status # "none"
               /\ clerk'[x].pc = "seats" => bought'[clerk'[x].of].seats = "some"
               /\ clerk'[x].pc = "decline" => bought'[clerk'[x].of].simulated
               /\ clerk'[x].pc = "redeem" => clerk'[x].of \in Codes
               /\ clerk'[x].pc # "idle" => clerk'[x].who \in Learners
    <3>1. CASE x # d
      BY <1>5, <2>1, <3>1 DEF AccessInv, AccessTyped
    <3>2. CASE x = d
      BY <1>4, <1>6, <3>2
    <3> QED
      BY <3>1, <3>2
  <2>3. \A q \in Purchases : /\ bought'[q].charged => bought'[q].status # "none"
                             /\ bought'[q].status # "none" => bought'[q].by \in Learners
                             /\ bought'[q].status = "FAILED" => bought'[q].simulated
                             /\ bought'[q].charged => ~bought'[q].simulated
                             /\ bought'[q].seats # "some" => bought'[q].batches = 0
    <3>1. bought[p].by \in Learners
      BY <1>1 DEF AccessInv, AccessTyped
    <3>2. \A q \in Purchases : q # p => bought'[q].status = bought[q].status
      BY <1>3
    <3> QED
      BY <1>4, <2>1, <3>1, <3>2 DEF AccessInv, AccessTyped
  <2> QED
    BY <1>2, <1>3, <1>5, <1>7, <2>2, <2>3 DEF AccessInv, AccessTyped
<1>10. ASSUME NEW q \in Purchases \ twice PROVE PurchaseOnce(q)'
  <2>1. PurchaseOnce(q)
    BY DEF AccessInv
  <2>2. \A x \in Clerks : Granting(x, q)' => Granting(x, q) /\ x # d
    BY <1>5, <1>6 DEF Granting
  <2>3. \A x \in Clerks : Seating(x, q)' => (Seating(x, q) /\ x # d) \/ (x = d /\ q = p)
    BY <1>5, <1>6 DEF Seating
  <2>4. CASE q # p
    BY <1>3, <1>7, <2>1, <2>2, <2>3, <2>4, PurchaseStays DEF Unsettled
  <2>5. CASE q = p
    <3>1. /\ GrantsOf(q) = {} /\ bought[q].batches = 0
          /\ \A x \in Clerks : ~Seating(x, q) /\ (Granting(x, q) => x = d)
      BY <1>1, <2>1, <2>5 DEF PurchaseOnce
    <3>2. ~Unsettled(q)' /\ bought'[q].batches = 0
      <4>1. bought'[q].status = "SUCCEEDED" /\ bought'[q].batches = bought[q].batches
        BY <1>4, <2>5
      <4> QED
        BY <4>1, <3>1 DEF Unsettled
    <3>3. AtMostOne(q)'
      BY <1>7, <2>5, <3>1 DEF AtMostOne
    <3>4. \A x \in Clerks : ~Granting(x, q)' /\ (Seating(x, q)' => x = d)
      BY <2>2, <2>3, <3>1
    <3> QED
      BY <3>2, <3>3, <3>4 DEF PurchaseOnce
  <2> QED
    BY <2>4, <2>5
<1>11. ASSUME NEW c \in Codes \ twice PROVE CodeOnce(c)'
  <2>1. c # p
    BY <1>1, RowsAreApart
  <2>2. \A x \in Clerks : Redeeming(x, c)' => Redeeming(x, c)
    BY <1>5, <1>6 DEF Redeeming
  <2> QED
    BY <1>2, <1>7, <2>1, <2>2, CodeStays DEF AccessInv
<1>12. SeatsComing'
  <2> SUFFICES ASSUME NEW q \in Purchases, Succeeded(q)', bought'[q].seats = "some"
               PROVE  bought'[q].batches >= 1 \/ SeatsUnderWay(q)'
    BY DEF SeatsComing
  <2>1. CASE q = p
    BY <1>4, <1>6, <2>1 DEF SeatsUnderWay
  <2>2. CASE q # p
    <3>1. bought[q].batches >= 1 \/ SeatsUnderWay(q)
      BY <1>3, <2>2 DEF AccessInv, SeatsComing, Succeeded
    <3>2. \A x \in Clerks : Seating(x, q) => Seating(x, q)'
      BY <1>1, <1>5 DEF Seating, Granting
    <3> QED
      BY <1>2, <1>3, <2>2, <3>1, <3>2 DEF SeatsUnderWay, Seating
  <2> QED
    BY <2>1, <2>2
<1> QED
  BY <1>2, <1>9, <1>10, <1>11, <1>12 DEF AccessInv

(* What is written on a code beside its count.                             *)
LEMMA CountsKept ==
  ASSUME AccessTyped, NEW c \in Codes, NEW b \in BOOLEAN,
         \/ codes' = [codes EXCEPT ![c].issued = TRUE]
         \/ codes' = [codes EXCEPT ![c].held = b]
         \/ codes' = [codes EXCEPT ![c].expired = TRUE]
  PROVE  /\ codes' \in [Codes -> AccessCode]
         /\ \A q \in Codes : codes'[q].count = codes[q].count
<1>1. codes \in [Codes -> AccessCode] /\ codes[c] \in AccessCode
  BY DEF AccessTyped
<1>2. /\ [codes[c] EXCEPT !.issued = TRUE] \in AccessCode
      /\ [codes[c] EXCEPT !.issued = TRUE].count = codes[c].count
  BY <1>1 DEF AccessCode
<1>3. /\ [codes[c] EXCEPT !.held = b] \in AccessCode
      /\ [codes[c] EXCEPT !.held = b].count = codes[c].count
  BY <1>1 DEF AccessCode
<1>4. /\ [codes[c] EXCEPT !.expired = TRUE] \in AccessCode
      /\ [codes[c] EXCEPT !.expired = TRUE].count = codes[c].count
  BY <1>1 DEF AccessCode
<1> QED
  BY <1>1, <1>2, <1>3, <1>4

(* The second commit.                                                      *)
LEMMA SeatsKeep ==
  ASSUME AccessInv, NEW d \in Clerks, CommitSeats(d)
  PROVE  AccessInv'
<1>p. PICK p \in Purchases : p = clerk[d].of
  BY DEF CommitSeats, AccessInv, AccessTyped
<1>1. /\ Seating(d, p) /\ bought[p] \in Payment /\ bought[p].batches \in Nat
      /\ AccessTyped /\ bought[p].seats = "some"
  BY <1>p DEF CommitSeats, AccessInv, AccessTyped, Seating, Payment
<1>2. /\ bought' = [bought EXCEPT ![p] = [bought[p] EXCEPT !.batches = bought[p].batches + 1]]
      /\ Free(d) /\ UNCHANGED <<hour, access, twice, unseated>>
  BY <1>p DEF CommitSeats, BatchSize, Batch
<1>3. /\ clerk' \in [Clerks -> ClerkRows] /\ clerk'[d].pc = "idle"
      /\ \A x \in Clerks : x # d => clerk'[x] = clerk[x]
  BY <1>1, <1>2, FreeTyped
<1>4. /\ bought' \in [Purchases -> Payment]
      /\ \A q \in Purchases : /\ q # p => bought'[q] = bought[q]
                              /\ bought'[q].status = bought[q].status
                              /\ bought'[q].seats = bought[q].seats
                              /\ bought'[q].by = bought[q].by
                              /\ bought'[q].charged = bought[q].charged
                              /\ bought'[q].simulated = bought[q].simulated
      /\ bought'[p].batches = bought[p].batches + 1
  <2>1. [bought[p] EXCEPT !.batches = bought[p].batches + 1] \in Payment
    BY <1>1 DEF Payment
  <2> QED
    BY <1>1, <1>2, <2>1 DEF AccessTyped, Payment
<1>5. /\ codes' \in [Codes -> AccessCode]
      /\ \A c \in Codes : codes'[c].count = codes[c].count
  <2>1. codes' = codes \/ \E c \in Codes : codes' = [codes EXCEPT ![c].issued = TRUE]
    BY DEF CommitSeats
  <2>2. CASE codes' = codes
    BY <1>1, <2>2 DEF AccessTyped
  <2>3. CASE \E c \in Codes : codes' = [codes EXCEPT ![c].issued = TRUE]
    BY <1>1, <2>3, CountsKept
  <2> QED
    BY <2>1, <2>2, <2>3
<1>6. \A x : GrantsOf(x)' = GrantsOf(x)
  BY <1>2 DEF GrantsOf
<1>7. AccessTyped'
  BY <1>1, <1>2, <1>3, <1>4, <1>5 DEF AccessTyped
<1>8. ASSUME NEW q \in Purchases \ twice PROVE PurchaseOnce(q)'
  <2>1. PurchaseOnce(q)
    BY DEF AccessInv
  <2>2. \A x \in Clerks : /\ Granting(x, q)' => Granting(x, q)
                          /\ Seating(x, q)' => Seating(x, q) /\ x # d
    BY <1>3 DEF Granting, Seating
  <2>3. Unsettled(q)' <=> Unsettled(q)
    BY <1>4 DEF Unsettled
  <2>4. CASE q # p
    BY <1>4, <1>6, <2>1, <2>2, <2>3, <2>4, PurchaseStays
  <2>5. CASE q = p
    <3>1. /\ bought[q].batches = 0 /\ ~Unsettled(q)
          /\ \A x \in Clerks : ~Granting(x, q)
          /\ \A x \in Clerks : Seating(x, q) => x = d
      BY <1>1, <2>1, <2>5 DEF PurchaseOnce
    <3>2. bought'[q].batches = 1
      BY <1>4, <2>5, <3>1
    <3>3. \A x \in Clerks : ~Seating(x, q)'
      BY <2>2, <3>1
    <3> QED
      BY <1>6, <2>1, <2>2, <2>3, <3>1, <3>2, <3>3 DEF PurchaseOnce, AtMostOne
  <2> QED
    BY <2>4, <2>5
<1>9. ASSUME NEW c \in Codes \ twice PROVE CodeOnce(c)'
  BY <1>2, <1>3, <1>5, <1>6, CodeStays DEF AccessInv, Redeeming
<1>10. SeatsComing'
  <2> SUFFICES ASSUME NEW q \in Purchases, Succeeded(q)', bought'[q].seats = "some"
               PROVE  bought'[q].batches >= 1 \/ SeatsUnderWay(q)'
    BY DEF SeatsComing
  <2>1. CASE q = p
    BY <1>1, <1>4, <2>1
  <2>2. CASE q # p
    <3>1. bought[q].batches >= 1 \/ SeatsUnderWay(q)
      BY <1>4 DEF AccessInv, SeatsComing, Succeeded
    <3>2. \A x \in Clerks : Seating(x, q) => Seating(x, q)'
      BY <1>1, <1>3, <2>2 DEF Seating
    <3> QED
      BY <1>2, <1>4, <2>2, <3>1, <3>2 DEF SeatsUnderWay, Seating
  <2> QED
    BY <2>1, <2>2
<1> QED
  BY <1>2, <1>7, <1>8, <1>9, <1>10 DEF AccessInv

(* What staff and the calendar do to codes leaves their counts alone.      *)
LEMMA CodesKeep ==
  ASSUME AccessInv, NEW c \in Codes, NEW h \in BOOLEAN,
         IssueSeat(c) \/ SetHold(c, h) \/ CodeExpires(c)
  PROVE  AccessInv'
<1>1. UNCHANGED <<hour, bought, access, clerk, twice, unseated>>
  BY DEF IssueSeat, SetHold, CodeExpires
<1>2. /\ codes' \in [Codes -> AccessCode]
      /\ \A q \in Codes : codes'[q].count = codes[q].count
  <2>1. AccessTyped
    BY DEF AccessInv
  <2>2. CASE IssueSeat(c)
    BY <2>1, <2>2, CountsKept DEF IssueSeat
  <2>3. CASE SetHold(c, h)
    BY <2>1, <2>3, CountsKept DEF SetHold
  <2>4. CASE CodeExpires(c)
    BY <2>1, <2>4, CountsKept DEF CodeExpires
  <2> QED
    BY <2>2, <2>3, <2>4
<1>3. \A x : GrantsOf(x)' = GrantsOf(x)
  BY <1>1 DEF GrantsOf
<1>4. AccessTyped'
  BY <1>1, <1>2 DEF AccessInv, AccessTyped
<1>5. ASSUME NEW q \in Codes \ twice PROVE CodeOnce(q)'
  BY <1>1, <1>2, <1>3, CodeStays DEF AccessInv, Redeeming
<1>6. ASSUME NEW p \in Purchases \ twice PROVE PurchaseOnce(p)'
  BY <1>1, <1>3, PurchaseStays DEF AccessInv, Granting, Seating, Unsettled
<1>7. SeatsComing'
  BY <1>1 DEF AccessInv, SeatsComing, SeatsUnderWay, Succeeded
<1> QED
  BY <1>1, <1>4, <1>5, <1>6, <1>7 DEF AccessInv

(* A code is read and checked...                                           *)
LEMMA StartRedeemKeeps ==
  ASSUME AccessInv, NEW d \in Clerks, NEW c \in Codes, NEW l \in Learners, StartRedeem(d, c, l)
  PROVE  AccessInv'
<1>1. /\ UNCHANGED <<hour, bought, access, codes, unseated>>
      /\ Take(d, "redeem", c, l, codes[c].count)
      /\ codes[c].count \in Nat /\ codes[c].count < 1 /\ AccessTyped
  BY DEF StartRedeem, Redeemable, AccessInv, AccessTyped, AccessCode
<1>2. codes[c].count = 0
  BY <1>1
<1>3. /\ clerk' \in [Clerks -> ClerkRows]
      /\ clerk'[d] = [pc |-> "redeem", of |-> c, who |-> l, count |-> codes[c].count]
      /\ \A x \in Clerks : x # d => clerk'[x] = clerk[x]
      /\ clerk[d].pc = "idle"
      /\ twice \subseteq twice' /\ twice' \subseteq twice \cup {c}
      /\ c \notin twice' => \A x \in Clerks : ~Redeeming(x, c)
  BY <1>1, TakeTyped
<1>4. AccessTyped'
  BY <1>1, <1>3 DEF AccessTyped
<1>5. \A x : GrantsOf(x)' = GrantsOf(x)
  BY <1>1 DEF GrantsOf
<1>6. ASSUME NEW q \in Codes \ twice' PROVE CodeOnce(q)'
  <2>1. CodeOnce(q)
    BY <1>3 DEF AccessInv
  <2>2. CASE q # c
    <3>1. \A x \in Clerks : Redeeming(x, q)' => Redeeming(x, q)
      BY <2>2, <1>3 DEF Redeeming
    <3> QED
      BY <1>1, <1>5, <2>1, <3>1, CodeStays
  <2>3. CASE q = c
    <3>1. \A x \in Clerks : Redeeming(x, q)' => x = d
      BY <2>3, <1>3 DEF Redeeming
    <3> QED
      BY <1>1, <1>2, <1>5, <2>1, <2>3, <3>1 DEF CodeOnce, AtMostOne
  <2> QED
    BY <2>2, <2>3
<1>7. ASSUME NEW p \in Purchases \ twice' PROVE PurchaseOnce(p)'
  BY <1>1, <1>3, <1>5, PurchaseStays DEF AccessInv, Granting, Seating, Unsettled
<1>8. SeatsComing'
  BY <1>1, <1>3 DEF AccessInv, SeatsComing, SeatsUnderWay, Succeeded
<1> QED
  BY <1>4, <1>6, <1>7, <1>8 DEF AccessInv

(* ... and written with the count that was read.                           *)
LEMMA CommitRedeemKeeps ==
  ASSUME AccessInv, NEW d \in Clerks, CommitRedeem(d)
  PROVE  AccessInv'
<1>p. PICK c \in Codes : c = clerk[d].of
  BY DEF CommitRedeem, AccessInv, AccessTyped
<1>1. /\ Redeeming(d, c) /\ clerk[d].who \in Learners /\ clerk[d].count \in Nat /\ AccessTyped
      /\ codes[c] \in AccessCode
  BY <1>p DEF CommitRedeem, AccessInv, AccessTyped, Redeeming, ClerkRows
<1>2. /\ codes' = [codes EXCEPT ![c] = [codes[c] EXCEPT !.count = clerk[d].count + 1]]
      /\ access' = Granted(clerk[d].who, c) /\ Free(d)
      /\ UNCHANGED <<hour, bought, twice, unseated>>
  BY <1>p DEF CommitRedeem
<1>3. /\ clerk' \in [Clerks -> ClerkRows] /\ clerk'[d].pc = "idle"
      /\ \A x \in Clerks : x # d => clerk'[x] = clerk[x]
  BY <1>1, <1>2, FreeTyped
<1>4. /\ codes' \in [Codes -> AccessCode]
      /\ \A q \in Codes : q # c => codes'[q] = codes[q]
      /\ codes'[c].count = clerk[d].count + 1
  <2>1. [codes[c] EXCEPT !.count = clerk[d].count + 1] \in AccessCode
    BY <1>1 DEF AccessCode
  <2> QED
    BY <1>1, <1>2, <2>1 DEF AccessTyped, AccessCode
<1>5. /\ access' \in Seq(UserAccess)
      /\ \A y : y # c => GrantsOf(y)' = GrantsOf(y)
      /\ GrantsOf(c)' = GrantsOf(c) \cup {Len(access) + 1}
  <2>1. c \in Purchases \cup Codes
    OBVIOUS
  <2> QED
    BY <1>1, <1>2, <2>1, GrantsGrow
<1>6. AccessTyped'
  BY <1>1, <1>2, <1>3, <1>4, <1>5 DEF AccessTyped
<1>7. ASSUME NEW q \in Codes \ twice PROVE CodeOnce(q)'
  <2>1. CodeOnce(q)
    BY DEF AccessInv
  <2>2. \A x \in Clerks : Redeeming(x, q)' => Redeeming(x, q) /\ x # d
    BY <1>3 DEF Redeeming
  <2>3. CASE q # c
    BY <1>4, <1>5, <2>1, <2>2, <2>3, CodeStays
  <2>4. CASE q = c
    <3>1. GrantsOf(q) = {} /\ \A x \in Clerks : ~Redeeming(x, q)'
      BY <1>1, <2>1, <2>2, <2>4 DEF CodeOnce
    <3>2. AtMostOne(q)'
      BY <1>5, <2>4, <3>1 DEF AtMostOne
    <3>3. codes'[q].count # 0
      BY <1>1, <1>4, <2>4
    <3> QED
      BY <3>1, <3>2, <3>3 DEF CodeOnce
  <2> QED
    BY <2>3, <2>4
<1>8. ASSUME NEW p \in Purchases \ twice PROVE PurchaseOnce(p)'
  <2>1. p # c
    BY RowsAreApart
  <2> QED
    BY <1>2, <1>3, <1>5, <2>1, PurchaseStays DEF AccessInv, Granting, Seating, Unsettled
<1>9. SeatsComing'
  <2>1. \A p \in Purchases : Seating(d, p) => FALSE
    BY <1>1 DEF Seating, Redeeming
  <2>2. \A x \in Clerks, p \in Purchases : Seating(x, p) => Seating(x, p)'
    BY <1>3, <2>1 DEF Seating
  <2> QED
    BY <1>2, <2>2 DEF AccessInv, SeatsComing, SeatsUnderWay, Succeeded, Seating
<1> QED
  BY <1>2, <1>6, <1>7, <1>8, <1>9 DEF AccessInv

LEMMA StopKeeps ==
  ASSUME AccessInv, NEW d \in Clerks, ClerkStops(d)
  PROVE  AccessInv'
<1>1. /\ Free(d) /\ UNCHANGED <<hour, bought, access, codes, twice>> /\ AccessTyped
      /\ unseated' = IF clerk[d].pc = "seats" THEN unseated \cup {clerk[d].of} ELSE unseated
  BY DEF ClerkStops, AccessInv
<1>2. /\ clerk' \in [Clerks -> ClerkRows] /\ clerk'[d].pc = "idle"
      /\ \A x \in Clerks : x # d => clerk'[x] = clerk[x]
  BY <1>1, FreeTyped
<1>3. AccessTyped'
  BY <1>1, <1>2 DEF AccessTyped
<1>4. \A x : GrantsOf(x)' = GrantsOf(x)
  BY <1>1 DEF GrantsOf
<1>5. ASSUME NEW q \in Codes \ twice PROVE CodeOnce(q)'
  BY <1>1, <1>2, <1>4, CodeStays DEF AccessInv, Redeeming
<1>6. ASSUME NEW p \in Purchases \ twice PROVE PurchaseOnce(p)'
  BY <1>1, <1>2, <1>4, PurchaseStays DEF AccessInv, Granting, Seating, Unsettled
<1>7. SeatsComing'
  <2>1. \A p \in Purchases : SeatsUnderWay(p) => SeatsUnderWay(p)'
    BY <1>1, <1>2 DEF SeatsUnderWay
  <2> QED
    BY <1>1, <2>1 DEF AccessInv, SeatsComing, Succeeded
<1> QED
  BY <1>1, <1>3, <1>5, <1>6, <1>7 DEF AccessInv

LEMMA NextAccess == AccessInv /\ [AccessNext]_accessVars => AccessInv'
<1> SUFFICES ASSUME AccessInv, [AccessNext]_accessVars PROVE AccessInv'
  OBVIOUS
<1>1. CASE HourPasses
  <2>1. /\ UNCHANGED <<bought, access, codes, clerk, twice, unseated>>
        /\ hour' \in 0..LastHour
    BY <1>1, GrantBounds DEF HourPasses, AccessInv, AccessTyped
  <2>2. \A x : GrantsOf(x)' = GrantsOf(x)
    BY <2>1 DEF GrantsOf
  <2> QED
    BY <2>1, <2>2 DEF AccessInv, AccessTyped, SeatsComing, SeatsUnderWay, Succeeded, Unsettled, PurchaseOnce,
                      CodeOnce, AtMostOne, Granting, Seating, Redeeming
<1>2. CASE UNCHANGED accessVars
  <2>1. \A x : GrantsOf(x)' = GrantsOf(x)
    BY <1>2 DEF accessVars, GrantsOf
  <2> QED
    BY <1>2, <2>1 DEF accessVars, AccessInv, AccessTyped, SeatsComing, SeatsUnderWay, Succeeded, Unsettled,
                      PurchaseOnce, CodeOnce, AtMostOne, Granting, Seating, Redeeming
<1> QED
  BY <1>1, <1>2, BuyKeeps, PaymentKeeps, LoadDeclineKeeps, CommitDeclineKeeps, LoadKeeps, GrantKeeps, SeatsKeep, CodesKeep,
     StartRedeemKeeps, CommitRedeemKeeps, StopKeeps DEF AccessNext

(* Purchases, codes and the clerks at work on them stay as                 *)
(* AccessInv has it.                                                       *)
THEOREM AccessInvariant == AccessSpec => []AccessInv
  BY InitAccess, NextAccess, PTL DEF AccessSpec

LEMMA OneIsOne ==
  ASSUME NEW S, \A i, j \in S : i = j
  PROVE  Cardinality(S) <= 1
<1>1. CASE S = {}
  BY <1>1, FS_EmptySet
<1>2. CASE S # {}
  <2>1. PICK i \in S : S = {i}
    BY <1>2
  <2>2. Cardinality({i}) = 1
    BY FS_Singleton
  <2> QED
    BY <2>1, <2>2
<1> QED
  BY <1>1, <1>2

(* What is paid or redeemed gives access once, unless two requests took it *)
(* up together; the seats of a paid purchase whose codes can be generated  *)
(* come, unless the process stopped in between, and those of a purchase of *)
(* more than 500, or of a duration pass, do not; for any number of         *)
(* purchases, codes, learners and requests.                                *)
THEOREM AccessIsPaidFor == AccessSpec => []AccessFollowsPayment
<1>1. AccessInv => GrantedOnce
  BY OneIsOne DEF AccessInv, GrantedOnce, PurchaseOnce, CodeOnce, AtMostOne
<1>2. AccessInv => SeatsFollowPayment
  BY DEF AccessInv, AccessTyped, SeatsFollowPayment, SeatsComing, PurchaseOnce, Succeeded
<1> QED
  BY <1>1, <1>2, AccessInvariant, PTL DEF AccessFollowsPayment

-----------------------------------------------------------------------------
DeskPcs == {"idle", "checkout", "settle", "pay", "fail", "mark", "waive"}

(* Types, but for the days.                                                *)
LedgerRows == [Entries -> [status : {"none", "OWED", "PAID", "WAIVED"}, day : Nat,
                           marked : BOOLEAN]]
FeesTyped ==
  /\ today \in Nat
  /\ ledger \in LedgerRows
  /\ feePay \in [Checkouts -> FeePayment]
  /\ feeDesk \in [Desks -> [pc : DeskPcs, pay : Checkouts \cup Entries \cup {"none"},
                            rows : SUBSET Entries]]

Started(c) == feePay[c].status # "none"
Backed(c)  == feePay[c].simulated \/ feePay[c].charged

(* What a checkout covers was owed once: it can no longer be new.          *)
CoversKnown ==
  \A c \in Checkouts :
    /\ ~Started(c) => feePay[c].covers = {} /\ ~feePay[c].charged
    /\ \A e \in feePay[c].covers : ledger[e].status # "none"
    /\ feePay[c].status = "SUCCEEDED" => feePay[c].covers \cap Owed = {}

(* An entry is paid because an admin said so or a checkout was backed.     *)
PaidForReason ==
  \A e \in Entries : ledger[e].status = "PAID" =>
    ledger[e].marked \/ \E c \in Checkouts : e \in feePay[c].covers /\ Backed(c)

(* A request that settles or fails a payment has one that is on record; a  *)
(* settlement about to be committed holds every covered entry still owed.  *)
DeskHonest ==
  \A d \in Desks :
    /\ feeDesk[d].pc \in {"checkout", "settle", "pay", "fail"} => feeDesk[d].pay \in Checkouts
    /\ feeDesk[d].pc = "checkout" => /\ ~Started(feeDesk[d].pay)
                                     /\ \A e \in feeDesk[d].rows : ledger[e].status # "none"
    /\ feeDesk[d].pc \in {"settle", "pay"} => Started(feeDesk[d].pay) /\ Backed(feeDesk[d].pay)
    /\ feeDesk[d].pc = "fail" => Started(feeDesk[d].pay)
    /\ feeDesk[d].pc = "pay" => /\ feePay[feeDesk[d].pay].covers \cap Owed \subseteq feeDesk[d].rows
                                /\ feeDesk[d].rows \subseteq feePay[feeDesk[d].pay].covers
    /\ feeDesk[d].pc \in {"mark", "waive"} => \A e \in Entries : e = feeDesk[d].pay =>
                                                ledger[e].status # "none"

(* Two requests never open the same checkout.                              *)
CheckoutsDistinct ==
  \A d1, d2 \in Desks :
    /\ feeDesk[d1].pc = "checkout" /\ feeDesk[d2].pc = "checkout"
    /\ feeDesk[d1].pay = feeDesk[d2].pay
    => d1 = d2

FeeInv == FeesTyped /\ CoversKnown /\ PaidForReason /\ DeskHonest /\ CheckoutsDistinct

-----------------------------------------------------------------------------
(* Initially there is nothing.                                             *)
LEMMA InitFees == FeeInit => FeeInv
<1> SUFFICES ASSUME FeeInit PROVE FeeInv
  OBVIOUS
<1>1. ledger \in LedgerRows
  BY DEF FeeInit, LedgerRows
<1>2. feePay \in [Checkouts -> FeePayment] /\ \A c \in Checkouts : feePay[c] = NoPay
  BY DEF FeeInit, NoPay, FeePayment
<1>3. /\ feeDesk \in [Desks -> [pc : DeskPcs, pay : Checkouts \cup Entries \cup {"none"},
                                rows : SUBSET Entries]]
      /\ \A d \in Desks : feeDesk[d].pc = "idle"
  BY DEF FeeInit, IdleDesk, DeskPcs
<1>4. FeesTyped
  BY <1>1, <1>2, <1>3 DEF FeesTyped, FeeInit
<1>5. CoversKnown
  BY <1>2 DEF CoversKnown, NoPay, Started
<1>6. PaidForReason
  BY DEF FeeInit, PaidForReason
<1>7. DeskHonest /\ CheckoutsDistinct
  BY <1>3 DEF DeskHonest, CheckoutsDistinct
<1> QED
  BY <1>4, <1>5, <1>6, <1>7 DEF FeeInv

(* A row of the ledger that was there stays, and one that is not owed is   *)
(* not owed again.                                                         *)
LedgerForward ==
  \A e \in Entries : /\ ledger[e].status # "none" => ledger'[e].status # "none"
                     /\ ledger'[e].status = "OWED" => ledger[e].status \in {"none", "OWED"}

(* When entries move forward and nothing else changes but their rows and   *)
(* one desk that goes idle.                                                *)
LEMMA LedgerMoves ==
  ASSUME FeeInv, ledger' \in LedgerRows, LedgerForward, UNCHANGED <<today, feePay>>,
         feeDesk' \in [Desks -> [pc : DeskPcs, pay : Checkouts \cup Entries \cup {"none"},
                                 rows : SUBSET Entries]],
         \A d \in Desks : feeDesk'[d] = feeDesk[d] \/ feeDesk'[d].pc = "idle",
         \A e \in Entries : ledger'[e].status = "PAID" =>
           ledger'[e].marked \/ (ledger[e].status = "PAID" /\ ~ledger[e].marked)
  PROVE  FeeInv'
<1>1. FeesTyped'
  BY DEF FeeInv, FeesTyped
<1>2. \A c \in Checkouts : feePay[c].covers \subseteq Entries
  BY DEF FeeInv, FeesTyped, FeePayment
<1>3. \A c \in Checkouts : feePay[c].covers \cap Owed' \subseteq feePay[c].covers \cap Owed
  BY <1>2 DEF FeeInv, CoversKnown, LedgerForward, Owed, FeesTyped, LedgerRows
<1>4. CoversKnown'
  BY <1>2, <1>3 DEF FeeInv, CoversKnown, LedgerForward, Started
<1>5. PaidForReason'
  BY DEF FeeInv, PaidForReason, Backed
<1>6. \A d \in Desks : feeDesk[d].rows \subseteq Entries
  BY DEF FeeInv, FeesTyped
<1>7. DeskHonest'
  <2> SUFFICES ASSUME NEW d \in Desks, feeDesk'[d] = feeDesk[d]
               PROVE  /\ feeDesk[d].pc \in {"checkout", "settle", "pay", "fail"} => feeDesk[d].pay \in Checkouts
                      /\ feeDesk[d].pc = "checkout" => /\ ~Started(feeDesk[d].pay)
                                                       /\ \A e \in feeDesk[d].rows : ledger'[e].status # "none"
                      /\ feeDesk[d].pc \in {"settle", "pay"} => Started(feeDesk[d].pay) /\ Backed(feeDesk[d].pay)
                      /\ feeDesk[d].pc = "fail" => Started(feeDesk[d].pay)
                      /\ feeDesk[d].pc = "pay" => /\ feePay[feeDesk[d].pay].covers \cap Owed' \subseteq feeDesk[d].rows
                                                  /\ feeDesk[d].rows \subseteq feePay[feeDesk[d].pay].covers
                      /\ feeDesk[d].pc \in {"mark", "waive"} => \A e \in Entries : e = feeDesk[d].pay =>
                                                                  ledger'[e].status # "none"
    BY DEF DeskHonest, Started, Backed
  <2> QED
    BY <1>3, <1>6 DEF FeeInv, DeskHonest, LedgerForward
<1>8. CheckoutsDistinct'
  BY DEF FeeInv, CheckoutsDistinct
<1> QED
  BY <1>1, <1>4, <1>5, <1>7, <1>8 DEF FeeInv

(* When a desk takes something on, or lets go of it, and no row changes.   *)
LEMMA DeskMoves ==
  ASSUME FeeInv, NEW d \in Desks,
         NEW record \in [pc : DeskPcs, pay : Checkouts \cup Entries \cup {"none"},
                      rows : SUBSET Entries],
         feeDesk' = [feeDesk EXCEPT ![d] = record], UNCHANGED <<today, ledger, feePay>>,
         record.pc \in {"settle", "pay", "fail"} => record.pay \in Checkouts /\ Started(record.pay),
         record.pc \in {"settle", "pay"} => Backed(record.pay),
         record.pc = "pay" => record.rows = feePay[record.pay].covers \cap Owed,
         record.pc \in {"mark", "waive"} => \A e \in Entries : e = record.pay => ledger[e].status # "none",
         record.pc # "checkout"
  PROVE  FeeInv'
<1>1. feeDesk'[d] = record /\ \A x \in Desks : x # d => feeDesk'[x] = feeDesk[x]
  BY DEF FeeInv, FeesTyped
<1>2. FeesTyped'
  BY DEF FeeInv, FeesTyped
<1>3. CoversKnown' /\ PaidForReason'
  BY DEF FeeInv, CoversKnown, PaidForReason, Started, Backed, Owed
<1>4. DeskHonest'
  BY <1>1 DEF FeeInv, DeskHonest, Started, Backed, Owed
<1>5. CheckoutsDistinct'
  BY <1>1 DEF FeeInv, CheckoutsDistinct
<1> QED
  BY <1>2, <1>3, <1>4, <1>5 DEF FeeInv

(* An idle desk is a desk.                                                 *)
LEMMA IdleTyped == IdleDesk \in [pc : DeskPcs, pay : Checkouts \cup Entries \cup {"none"},
                                 rows : SUBSET Entries] /\ IdleDesk.pc = "idle"
  BY DEF IdleDesk, DeskPcs

-----------------------------------------------------------------------------
(* A profitable close adds an entry nobody covers.                         *)
LEMMA AccrueKeeps ==
  ASSUME FeeInv, NEW e \in Entries, NEW kinds, Accrue(e, kinds)
  PROVE  FeeInv'
<1> DEFINE record == [status |-> "OWED", day |-> today, marked |-> FALSE]
<1>1. /\ ledger[e].status = "none" /\ ledger' = [ledger EXCEPT ![e] = record]
      /\ UNCHANGED <<today, feePay, feeDesk>>
  BY DEF Accrue
<1>2. ledger' \in LedgerRows
  BY <1>1 DEF FeeInv, FeesTyped, LedgerRows
<1>3. ledger'[e].status = "OWED" /\ \A x \in Entries : x # e => ledger'[x] = ledger[x]
  BY <1>1 DEF FeeInv, FeesTyped, LedgerRows
<1>4. LedgerForward
  BY <1>1, <1>3 DEF LedgerForward
<1>5. \A x \in Entries : ledger'[x].status = "PAID" =>
        ledger'[x].marked \/ (ledger[x].status = "PAID" /\ ~ledger[x].marked)
  BY <1>3
<1>6. \A d \in Desks : feeDesk'[d] = feeDesk[d] \/ feeDesk'[d].pc = "idle"
  BY <1>1
<1>7. feeDesk' \in [Desks -> [pc : DeskPcs, pay : Checkouts \cup Entries \cup {"none"},
                              rows : SUBSET Entries]]
  BY <1>1 DEF FeeInv, FeesTyped
<1> QED
  BY <1>1, <1>2, <1>4, <1>5, <1>6, <1>7, LedgerMoves

(* An admin marks an entry, whatever it has become since it was loaded.    *)
LEMMA CommitMarkKeeps ==
  ASSUME FeeInv, NEW d \in Desks, CommitMark(d)
  PROVE  FeeInv'
<1> DEFINE to(e) == IF feeDesk[d].rows = {} THEN ledger[e].status
                    ELSE IF feeDesk[d].pc = "mark" THEN "PAID" ELSE "WAIVED"
           record(e) == [ledger[e] EXCEPT !.marked = TRUE, !.status = to(e)]
<1>1. /\ ledger' = [e \in Entries |-> IF e = feeDesk[d].pay THEN record(e) ELSE ledger[e]]
      /\ feeDesk' = [feeDesk EXCEPT ![d] = IdleDesk] /\ UNCHANGED <<today, feePay>>
      /\ feeDesk[d].pc \in {"mark", "waive"}
  BY DEF CommitMark, DeskDone
<1>2. \A e \in Entries : record(e) \in [status : {"none", "OWED", "PAID", "WAIVED"}, day : Nat,
                                     marked : BOOLEAN]
                         /\ record(e).status = to(e) /\ record(e).marked
  BY DEF FeeInv, FeesTyped, LedgerRows
<1>3. ledger' \in LedgerRows
  BY <1>1, <1>2 DEF FeeInv, FeesTyped, LedgerRows
<1>4. \A e \in Entries : e = feeDesk[d].pay => ledger[e].status # "none"
  BY <1>1 DEF FeeInv, DeskHonest
<1>5. \A e \in Entries : /\ e = feeDesk[d].pay => ledger'[e].status = to(e) /\ ledger'[e].marked
                         /\ e # feeDesk[d].pay => ledger'[e] = ledger[e]
  BY <1>1, <1>2
<1>6. LedgerForward
  BY <1>4, <1>5 DEF LedgerForward
<1>7. \A e \in Entries : ledger'[e].status = "PAID" =>
        ledger'[e].marked \/ (ledger[e].status = "PAID" /\ ~ledger[e].marked)
  BY <1>5
<1>8. feeDesk' \in [Desks -> [pc : DeskPcs, pay : Checkouts \cup Entries \cup {"none"},
                              rows : SUBSET Entries]]
      /\ \A x \in Desks : feeDesk'[x] = feeDesk[x] \/ feeDesk'[x].pc = "idle"
  BY <1>1, IdleTyped DEF FeeInv, FeesTyped
<1> QED
  BY <1>1, <1>3, <1>6, <1>7, <1>8, LedgerMoves

(* A checkout takes its snapshot of what is owed.                          *)
LEMMA StartCheckoutKeeps ==
  ASSUME FeeInv, NEW d \in Desks, NEW c \in Checkouts, StartCheckout(d, c)
  PROVE  FeeInv'
<1> DEFINE record == [pc |-> "checkout", pay |-> c, rows |-> Owed]
<1>1. /\ feePay[c].status = "none" /\ c \notin Open
      /\ feeDesk' = [feeDesk EXCEPT ![d] = record]
      /\ feePay' = [feePay EXCEPT ![c].rivals = Open]
      /\ UNCHANGED <<today, ledger>>
  BY DEF StartCheckout, Goto, StartCovers
<1>2. Open \subseteq Checkouts
  BY DEF FeeInv, DeskHonest, Open
<1>3. record \in [pc : DeskPcs, pay : Checkouts \cup Entries \cup {"none"}, rows : SUBSET Entries]
  BY DEF DeskPcs, Owed
<1>4. feePay' \in [Checkouts -> FeePayment]
      /\ \A x \in Checkouts : /\ feePay'[x].status = feePay[x].status
                              /\ feePay'[x].covers = feePay[x].covers
                              /\ feePay'[x].simulated = feePay[x].simulated
                              /\ feePay'[x].charged = feePay[x].charged
  BY <1>1, <1>2 DEF FeeInv, FeesTyped, FeePayment
<1>5. FeesTyped'
  BY <1>1, <1>3, <1>4 DEF FeeInv, FeesTyped
<1>6. CoversKnown'
  BY <1>1, <1>4 DEF FeeInv, CoversKnown, Started, Owed
<1>7. PaidForReason'
  BY <1>1, <1>4 DEF FeeInv, PaidForReason, Backed
<1>8. feeDesk'[d] = record /\ \A x \in Desks : x # d => feeDesk'[x] = feeDesk[x]
  BY <1>1 DEF FeeInv, FeesTyped
<1>9. DeskHonest'
  <2>1. \A e \in Owed : ledger[e].status # "none"
    BY DEF Owed
  <2>2. \A x \in Checkouts : (Started(x)' <=> Started(x)) /\ (Backed(x)' <=> Backed(x))
    BY <1>4 DEF Started, Backed
  <2>3. Owed' = Owed
    BY <1>1 DEF Owed
  <2>4. ~Started(c)'
    BY <1>1, <1>4 DEF Started
  <2> SUFFICES ASSUME NEW x \in Desks
               PROVE  /\ feeDesk'[x].pc \in {"checkout", "settle", "pay", "fail"} => feeDesk'[x].pay \in Checkouts
                      /\ feeDesk'[x].pc = "checkout" =>
                           /\ feePay'[feeDesk'[x].pay].status = "none"
                           /\ \A e \in feeDesk'[x].rows : ledger[e].status # "none"
                      /\ feeDesk'[x].pc \in {"settle", "pay"} =>
                           /\ feePay'[feeDesk'[x].pay].status # "none"
                           /\ feePay'[feeDesk'[x].pay].simulated \/ feePay'[feeDesk'[x].pay].charged
                      /\ feeDesk'[x].pc = "fail" => feePay'[feeDesk'[x].pay].status # "none"
                      /\ feeDesk'[x].pc = "pay" =>
                           /\ feePay'[feeDesk'[x].pay].covers \cap Owed \subseteq feeDesk'[x].rows
                           /\ feeDesk'[x].rows \subseteq feePay'[feeDesk'[x].pay].covers
                      /\ feeDesk'[x].pc \in {"mark", "waive"} => \A e \in Entries : e = feeDesk'[x].pay =>
                           ledger[e].status # "none"
    BY <1>1, <2>3 DEF DeskHonest, Started, Backed
  <2>5. CASE x = d
    BY <1>1, <1>4, <1>8, <2>1, <2>5
  <2>6. CASE x # d
    BY <1>4, <1>8, <2>6 DEF FeeInv, DeskHonest, Started, Backed
  <2> QED
    BY <2>5, <2>6
<1>10. CheckoutsDistinct'
  <2>1. \A x \in Desks : feeDesk[x].pc = "checkout" => feeDesk[x].pay # c
    BY <1>1 DEF Open
  <2> QED
    BY <1>8, <2>1 DEF FeeInv, CheckoutsDistinct
<1> QED
  BY <1>5, <1>6, <1>7, <1>9, <1>10 DEF FeeInv

(* When one payment changes in a way that keeps what it covers, or is      *)
(* recorded with what its request saw owed, and one desk may go idle.      *)
LEMMA PaymentMoves ==
  ASSUME FeeInv, NEW c \in Checkouts, NEW record \in FeePayment,
         feePay' = [feePay EXCEPT ![c] = record], UNCHANGED <<today, ledger>>,
         feeDesk' \in [Desks -> [pc : DeskPcs, pay : Checkouts \cup Entries \cup {"none"},
                                 rows : SUBSET Entries]],
         \A x \in Desks : feeDesk'[x] = feeDesk[x] \/ feeDesk'[x].pc = "idle",
         record.status \in {"PENDING", "FAILED"},
         \/ Started(c) /\ record.covers = feePay[c].covers
         \/ ~Started(c) /\ \A e \in record.covers : ledger[e].status # "none",
         Backed(c) /\ Started(c) => record.simulated \/ record.charged,
         \A x \in Desks : feeDesk'[x].pc = "checkout" => feeDesk[x].pay # c
  PROVE  FeeInv'
<1>1. feePay'[c] = record /\ \A x \in Checkouts : x # c => feePay'[x] = feePay[x]
  BY DEF FeeInv, FeesTyped
<1>2. FeesTyped'
  BY DEF FeeInv, FeesTyped
<1>3. CoversKnown'
  BY <1>1 DEF FeeInv, CoversKnown, Started, Owed
<1>4. PaidForReason'
  <2>1. feePay[c].covers # {} => Started(c)
    BY DEF FeeInv, CoversKnown
  <2> QED
    BY <1>1, <2>1 DEF FeeInv, PaidForReason, Backed
<1>5. DeskHonest'
  <2>1. Owed' = Owed
    BY DEF Owed
  <2> SUFFICES ASSUME NEW x \in Desks, feeDesk'[x] = feeDesk[x]
               PROVE  /\ feeDesk[x].pc \in {"checkout", "settle", "pay", "fail"} => feeDesk[x].pay \in Checkouts
                      /\ feeDesk[x].pc = "checkout" =>
                           /\ feePay'[feeDesk[x].pay].status = "none"
                           /\ \A e \in feeDesk[x].rows : ledger[e].status # "none"
                      /\ feeDesk[x].pc \in {"settle", "pay"} =>
                           /\ feePay'[feeDesk[x].pay].status # "none"
                           /\ feePay'[feeDesk[x].pay].simulated \/ feePay'[feeDesk[x].pay].charged
                      /\ feeDesk[x].pc = "fail" => feePay'[feeDesk[x].pay].status # "none"
                      /\ feeDesk[x].pc = "pay" =>
                           /\ feePay'[feeDesk[x].pay].covers \cap Owed \subseteq feeDesk[x].rows
                           /\ feeDesk[x].rows \subseteq feePay'[feeDesk[x].pay].covers
                      /\ feeDesk[x].pc \in {"mark", "waive"} => \A e \in Entries : e = feeDesk[x].pay =>
                           ledger[e].status # "none"
    BY <2>1 DEF DeskHonest, Started, Backed
  <2>2. CASE feeDesk[x].pay = c
    BY <1>1, <2>2 DEF FeeInv, DeskHonest, Started, Backed
  <2>3. CASE feeDesk[x].pay # c
    BY <1>1, <2>3 DEF FeeInv, DeskHonest, Started, Backed
  <2> QED
    BY <2>2, <2>3
<1>6. CheckoutsDistinct'
  BY DEF FeeInv, CheckoutsDistinct
<1> QED
  BY <1>2, <1>3, <1>4, <1>5, <1>6 DEF FeeInv

(* The checkout is recorded, paid at the gateway, or reported as failed.   *)
LEMMA FeePaymentKeeps ==
  ASSUME FeeInv,
         (\E d \in Desks : CheckoutOpened(d) \/ CommitFailure(d)) \/ \E c \in Checkouts : CustomerPays(c)
  PROVE  FeeInv'
<1>1. ASSUME NEW d \in Desks, CheckoutOpened(d) PROVE FeeInv'
  <2> DEFINE c == feeDesk[d].pay
             free == ~feesLive
             record == [feePay[c] EXCEPT !.status = "PENDING", !.covers = feeDesk[d].rows,
                                      !.simulated = free]
  <2>1. feeDesk[d].pc = "checkout" /\ feeDesk' = [feeDesk EXCEPT ![d] = IdleDesk]
        /\ UNCHANGED <<today, ledger>>
    BY <1>1 DEF CheckoutOpened, DeskDone
  <2>2. c \in Checkouts /\ ~Started(c) /\ \A e \in feeDesk[d].rows : ledger[e].status # "none"
    BY <2>1 DEF FeeInv, DeskHonest
  <2>3. feePay' = [feePay EXCEPT ![c] = record]
    BY <1>1 DEF CheckoutOpened
  <2>4. record \in FeePayment /\ record.status = "PENDING" /\ record.covers = feeDesk[d].rows
    <3>1. feePay[c] \in FeePayment /\ feeDesk[d].rows \in SUBSET Entries
      BY <2>2 DEF FeeInv, FeesTyped
    <3>2. free \in BOOLEAN
      OBVIOUS
    <3> HIDE DEF free
    <3> QED
      BY <3>1, <3>2 DEF FeePayment
  <2>5. feeDesk' \in [Desks -> [pc : DeskPcs, pay : Checkouts \cup Entries \cup {"none"},
                                rows : SUBSET Entries]]
        /\ feeDesk'[d].pc = "idle" /\ \A x \in Desks : x # d => feeDesk'[x] = feeDesk[x]
    BY <2>1, IdleTyped DEF FeeInv, FeesTyped
  <2>6. \A x \in Desks : feeDesk'[x].pc = "checkout" => feeDesk[x].pay # c
    BY <2>1, <2>5 DEF FeeInv, CheckoutsDistinct
  <2>7. \A x \in Desks : feeDesk'[x] = feeDesk[x] \/ feeDesk'[x].pc = "idle"
    BY <2>5
  <2>8. \A e \in record.covers : ledger[e].status # "none"
    BY <2>2, <2>4
  <2> HIDE DEF c, record
  <2> QED
    BY <2>1, <2>2, <2>3, <2>4, <2>5, <2>6, <2>7, <2>8, PaymentMoves
<1>2. ASSUME NEW d \in Desks, CommitFailure(d) PROVE FeeInv'
  <2> DEFINE c == feeDesk[d].pay
             record == [feePay[c] EXCEPT !.status = "FAILED"]
  <2>1. feeDesk[d].pc = "fail" /\ feeDesk' = [feeDesk EXCEPT ![d] = IdleDesk]
        /\ UNCHANGED <<today, ledger>>
    BY <1>2 DEF CommitFailure, DeskDone
  <2>2. c \in Checkouts /\ Started(c)
    BY <2>1 DEF FeeInv, DeskHonest
  <2>3. feePay' = [feePay EXCEPT ![c] = record]
    BY <1>2, <2>2 DEF CommitFailure, FeeInv, FeesTyped
  <2>4. /\ record \in FeePayment /\ record.status = "FAILED" /\ record.covers = feePay[c].covers
        /\ record.simulated = feePay[c].simulated /\ record.charged = feePay[c].charged
    BY <2>2 DEF FeeInv, FeesTyped, FeePayment
  <2>5. feeDesk' \in [Desks -> [pc : DeskPcs, pay : Checkouts \cup Entries \cup {"none"},
                                rows : SUBSET Entries]]
        /\ feeDesk'[d].pc = "idle" /\ \A x \in Desks : x # d => feeDesk'[x] = feeDesk[x]
    BY <2>1, IdleTyped DEF FeeInv, FeesTyped
  <2>6. \A x \in Desks : feeDesk'[x].pc = "checkout" => feeDesk[x].pay # c
    BY <2>2, <2>5 DEF FeeInv, DeskHonest
  <2>7. Backed(c) => record.simulated \/ record.charged
    BY <2>4 DEF Backed
  <2> HIDE DEF c, record
  <2> QED
    BY <2>1, <2>2, <2>3, <2>4, <2>5, <2>6, <2>7, PaymentMoves
<1>3. ASSUME NEW c \in Checkouts, CustomerPays(c) PROVE FeeInv'
  <2> DEFINE record == [feePay[c] EXCEPT !.charged = TRUE]
  <2>1. feePay[c].status = "PENDING" /\ UNCHANGED <<today, ledger, feeDesk>>
    BY <1>3 DEF CustomerPays
  <2>2. feePay' = [feePay EXCEPT ![c] = record]
    BY <1>3 DEF CustomerPays, FeeInv, FeesTyped
  <2>3. /\ record \in FeePayment /\ record.status = "PENDING" /\ record.covers = feePay[c].covers
        /\ record.charged
    BY <2>1 DEF FeeInv, FeesTyped, FeePayment
  <2>4. Started(c)
    BY <2>1 DEF Started
  <2>5. \A x \in Desks : feeDesk'[x].pc = "checkout" => feeDesk[x].pay # c
    BY <2>1, <2>4 DEF FeeInv, DeskHonest
  <2>6. feeDesk' \in [Desks -> [pc : DeskPcs, pay : Checkouts \cup Entries \cup {"none"},
                                rows : SUBSET Entries]]
    BY <2>1 DEF FeeInv, FeesTyped
  <2> HIDE DEF record
  <2> QED
    BY <2>1, <2>2, <2>3, <2>4, <2>5, <2>6, PaymentMoves
<1> QED
  BY <1>1, <1>2, <1>3

(* The one commit of a settlement: every covered entry that was still owed *)
(* when it was read is paid, and none has been owed anew since.            *)
LEMMA CommitSettlementKeeps ==
  ASSUME FeeInv, NEW d \in Desks, CommitSettlement(d)
  PROVE  FeeInv'
<1> DEFINE c == feeDesk[d].pay
           record == [feePay[c] EXCEPT !.status = "SUCCEEDED"]
<1>1. /\ feeDesk[d].pc = "pay" /\ feeDesk' = [feeDesk EXCEPT ![d] = IdleDesk]
      /\ UNCHANGED today
  BY DEF CommitSettlement, DeskDone
<1>2. /\ c \in Checkouts /\ Started(c) /\ Backed(c)
      /\ feePay[c].covers \cap Owed \subseteq feeDesk[d].rows
      /\ feeDesk[d].rows \subseteq feePay[c].covers
  BY <1>1 DEF FeeInv, DeskHonest
<1>3. feePay' = [feePay EXCEPT ![c] = record]
  <2>1. feePay' = [feePay EXCEPT ![c].status = "SUCCEEDED"]
    BY DEF CommitSettlement
  <2>2. feePay \in [Checkouts -> FeePayment]
    BY DEF FeeInv, FeesTyped
  <2> QED
    BY <1>2, <2>1, <2>2
<1>4. /\ record \in FeePayment /\ record.status = "SUCCEEDED" /\ record.covers = feePay[c].covers
      /\ record.simulated = feePay[c].simulated /\ record.charged = feePay[c].charged
  BY <1>2 DEF FeeInv, FeesTyped, FeePayment
<1>5. feePay' \in [Checkouts -> FeePayment]
      /\ feePay'[c] = record /\ \A x \in Checkouts : x # c => feePay'[x] = feePay[x]
  <2>1. feePay \in [Checkouts -> FeePayment]
    BY DEF FeeInv, FeesTyped
  <2> HIDE DEF c, record
  <2> QED
    BY <1>2, <1>3, <1>4, <2>1
<1>6. \A x \in Checkouts : /\ feePay'[x].covers = feePay[x].covers
                           /\ feePay'[x].simulated = feePay[x].simulated
                           /\ feePay'[x].charged = feePay[x].charged
                           /\ feePay'[x].status # "none" <=> feePay[x].status # "none"
  BY <1>2, <1>4, <1>5 DEF Started
<1>7. /\ ledger' \in LedgerRows
      /\ \A e \in Entries : /\ e \in feeDesk[d].rows => ledger'[e].status = "PAID"
                            /\ e \notin feeDesk[d].rows => ledger'[e] = ledger[e]
  BY DEF CommitSettlement, Settled, FeeInv, FeesTyped, LedgerRows
<1>8. Owed' \subseteq Owed \ feeDesk[d].rows
  BY <1>7 DEF Owed
<1>9. feeDesk' \in [Desks -> [pc : DeskPcs, pay : Checkouts \cup Entries \cup {"none"},
                              rows : SUBSET Entries]]
      /\ feeDesk'[d].pc = "idle" /\ \A x \in Desks : x # d => feeDesk'[x] = feeDesk[x]
  BY <1>1, IdleTyped DEF FeeInv, FeesTyped
<1>10. FeesTyped'
  BY <1>1, <1>5, <1>7, <1>9 DEF FeeInv, FeesTyped
<1>11. \A e \in Entries : ledger[e].status # "none" => ledger'[e].status # "none"
  BY <1>7
<1>12. \A x \in Checkouts : feePay[x].covers \subseteq Entries
  BY DEF FeeInv, FeesTyped, FeePayment
<1>13. CoversKnown'
  <2> SUFFICES ASSUME NEW x \in Checkouts
               PROVE  /\ feePay'[x].status = "none" => feePay'[x].covers = {} /\ ~feePay'[x].charged
                      /\ \A e \in feePay'[x].covers : ledger'[e].status # "none"
                      /\ feePay'[x].status = "SUCCEEDED" => feePay'[x].covers \cap Owed' = {}
    BY DEF CoversKnown, Started
  <2>1. feePay'[x].status = "none" => feePay'[x].covers = {} /\ ~feePay'[x].charged
    BY <1>6 DEF FeeInv, CoversKnown, Started
  <2>2. \A e \in feePay'[x].covers : ledger'[e].status # "none"
    BY <1>6, <1>11, <1>12 DEF FeeInv, CoversKnown
  <2>3. feePay'[x].status = "SUCCEEDED" => feePay'[x].covers \cap Owed' = {}
    <3>1. CASE x = c
      BY <1>2, <1>6, <1>8, <3>1
    <3>2. CASE x # c
      BY <1>5, <1>8, <3>2 DEF FeeInv, CoversKnown
    <3> QED
      BY <3>1, <3>2
  <2> QED
    BY <2>1, <2>2, <2>3
<1>14. PaidForReason'
  <2> SUFFICES ASSUME NEW e \in Entries, ledger'[e].status = "PAID"
               PROVE  ledger'[e].marked
                      \/ \E x \in Checkouts : e \in feePay[x].covers
                                              /\ (feePay[x].simulated \/ feePay[x].charged)
    BY <1>6 DEF PaidForReason, Backed
  <2>1. CASE e \in feeDesk[d].rows
    BY <1>2, <2>1 DEF Backed
  <2>2. CASE e \notin feeDesk[d].rows
    BY <1>7, <2>2 DEF FeeInv, PaidForReason, Backed
  <2> QED
    BY <2>1, <2>2
<1>15. DeskHonest'
  <2> SUFFICES ASSUME NEW x \in Desks, feeDesk'[x] = feeDesk[x]
               PROVE  /\ feeDesk[x].pc \in {"checkout", "settle", "pay", "fail"} => feeDesk[x].pay \in Checkouts
                      /\ feeDesk[x].pc = "checkout" =>
                           /\ feePay'[feeDesk[x].pay].status = "none"
                           /\ \A e \in feeDesk[x].rows : ledger'[e].status # "none"
                      /\ feeDesk[x].pc \in {"settle", "pay"} =>
                           /\ feePay'[feeDesk[x].pay].status # "none"
                           /\ feePay'[feeDesk[x].pay].simulated \/ feePay'[feeDesk[x].pay].charged
                      /\ feeDesk[x].pc = "fail" => feePay'[feeDesk[x].pay].status # "none"
                      /\ feeDesk[x].pc = "pay" =>
                           /\ feePay'[feeDesk[x].pay].covers \cap Owed' \subseteq feeDesk[x].rows
                           /\ feeDesk[x].rows \subseteq feePay'[feeDesk[x].pay].covers
                      /\ feeDesk[x].pc \in {"mark", "waive"} => \A e \in Entries : e = feeDesk[x].pay =>
                           ledger'[e].status # "none"
    BY <1>9 DEF DeskHonest, Started, Backed
  <2>1. feeDesk[x].rows \subseteq Entries
    BY DEF FeeInv, FeesTyped
  <2> QED
    BY <1>6, <1>8, <1>11, <2>1 DEF FeeInv, DeskHonest, Started, Backed
<1>16. CheckoutsDistinct'
  BY <1>9 DEF FeeInv, CheckoutsDistinct
<1> QED
  BY <1>10, <1>13, <1>14, <1>15, <1>16 DEF FeeInv

(* Loading a payment to settle or fail it, reading what it covers, loading *)
(* an entry to mark it, and a request that ends where it is.               *)
LEMMA FeeLoadKeeps ==
  ASSUME FeeInv, NEW d \in Desks,
         \/ ReadCovered(d) \/ RequestEnds(d)
         \/ \E c \in Checkouts : LoadToSettle(d, c) \/ FailSimulated(d, c)
         \/ \E e \in Entries, as \in {"mark", "waive"} : MarkEntry(d, e, as)
  PROVE  FeeInv'
<1>1. UNCHANGED <<today, ledger, feePay>>
  BY DEF ReadCovered, RequestEnds, LoadToSettle, FailSimulated, MarkEntry
<1>2. CASE ReadCovered(d)
  <2> DEFINE c == feeDesk[d].pay
             record == [pc |-> "pay", pay |-> c, rows |-> feePay[c].covers \cap Owed]
  <2>1. feeDesk[d].pc = "settle" /\ feeDesk' = [feeDesk EXCEPT ![d] = record]
    BY <1>2 DEF ReadCovered, Goto
  <2>2. c \in Checkouts /\ Started(c) /\ Backed(c)
    BY <2>1 DEF FeeInv, DeskHonest
  <2>3. record \in [pc : DeskPcs, pay : Checkouts \cup Entries \cup {"none"}, rows : SUBSET Entries]
    BY <2>2 DEF DeskPcs, Owed
  <2> QED
    BY <1>1, <2>1, <2>2, <2>3, DeskMoves
<1>3. CASE RequestEnds(d)
  BY <1>1, <1>3, IdleTyped, DeskMoves DEF RequestEnds, DeskDone
<1>4. ASSUME NEW c \in Checkouts, LoadToSettle(d, c) PROVE FeeInv'
  <2> DEFINE record == [pc |-> "settle", pay |-> c, rows |-> {}]
  <2>1. feeDesk' = [feeDesk EXCEPT ![d] = record]
    BY <1>4 DEF LoadToSettle, Goto
  <2>2. Started(c) /\ Backed(c)
    <3>1. feePay[c].charged => Started(c)
      BY DEF FeeInv, CoversKnown
    <3> QED
      BY <1>4, <3>1 DEF LoadToSettle, WebhookAccepts, VerifyAccepts, PageAccepts, Started, Backed
  <2>3. record \in [pc : DeskPcs, pay : Checkouts \cup Entries \cup {"none"}, rows : SUBSET Entries]
    BY DEF DeskPcs
  <2> QED
    BY <1>1, <2>1, <2>2, <2>3, DeskMoves
<1>5. ASSUME NEW c \in Checkouts, FailSimulated(d, c) PROVE FeeInv'
  <2> DEFINE record == [pc |-> "fail", pay |-> c, rows |-> {}]
  <2>1. feeDesk' = [feeDesk EXCEPT ![d] = record] /\ Started(c)
    BY <1>5 DEF FailSimulated, Goto, PageAccepts, Started
  <2>2. record \in [pc : DeskPcs, pay : Checkouts \cup Entries \cup {"none"}, rows : SUBSET Entries]
    BY DEF DeskPcs
  <2> QED
    BY <1>1, <2>1, <2>2, DeskMoves
<1>6. ASSUME NEW e \in Entries, NEW as \in {"mark", "waive"}, MarkEntry(d, e, as) PROVE FeeInv'
  <2>1. PICK R \in SUBSET Entries : feeDesk' = [feeDesk EXCEPT ![d] = [pc |-> as, pay |-> e, rows |-> R]]
    BY <1>6 DEF MarkEntry, Goto
  <2> DEFINE record == [pc |-> as, pay |-> e, rows |-> R]
  <2>2. ledger[e].status # "none"
    BY <1>6 DEF MarkEntry
  <2>3. record \in [pc : DeskPcs, pay : Checkouts \cup Entries \cup {"none"}, rows : SUBSET Entries]
    BY DEF DeskPcs
  <2> QED
    BY <1>1, <2>1, <2>2, <2>3, DeskMoves
<1> QED
  BY <1>2, <1>3, <1>4, <1>5, <1>6

(* Every step keeps the invariant.                                         *)
LEMMA NextFees == FeeInv /\ [FeeNext]_feeVars => FeeInv'
<1> SUFFICES ASSUME FeeInv, [FeeNext]_feeVars PROVE FeeInv'
  OBVIOUS
<1>1. CASE UNCHANGED <<ledger, feePay, feeDesk>> /\ today' \in Nat
  BY <1>1 DEF FeeInv, FeesTyped, CoversKnown, PaidForReason, DeskHonest, CheckoutsDistinct,
              Started, Backed, Owed
<1>2. CASE \E r \in FeePlans : UpdateSettings(r)
  BY <1>1, <1>2 DEF UpdateSettings, FeeInv, FeesTyped
<1>3. CASE \E m \in BOOLEAN : SetPaymentsMode(m)
  BY <1>1, <1>3 DEF SetPaymentsMode, FeeInv, FeesTyped
<1>4. CASE Midnight
  BY <1>1, <1>4 DEF Midnight, FeeInv, FeesTyped
<1>5. CASE UNCHANGED feeVars
  BY <1>1, <1>5 DEF feeVars, FeeInv, FeesTyped
<1> QED
  BY <1>2, <1>3, <1>4, <1>5, AccrueKeeps, StartCheckoutKeeps, FeePaymentKeeps, CommitSettlementKeeps,
     CommitMarkKeeps, FeeLoadKeeps DEF FeeNext, Handle

(* What a request in flight carries stays true of the ledger while others *)
(* commit, whatever the number of entries, checkouts and requests.        *)
THEOREM FeeInvariant == FeeSpec => []FeeInv
  BY InitFees, NextFees, PTL DEF FeeSpec

(* A payment that has SUCCEEDED leaves nothing owed that it covers, and an *)
(* entry is PAID only for a reason, however confirmations, admins and      *)
(* restarts cross.                                                         *)
THEOREM PaidIsPaid == FeeSpec => []PaidMeansPaid
<1>1. FeeInv => PaidMeansPaid
  BY DEF FeeInv, CoversKnown, PaidForReason, PaidMeansPaid, Backed
<1> QED
  BY <1>1, FeeInvariant, PTL
-----------------------------------------------------------------------------
(* Two checkouts overlap only when one of them noted the other, be they on *)
(* record or still being opened at the gateway.                            *)
Noted(c1, c2) == c1 \in feePay[c2].rivals \/ c2 \in feePay[c1].rivals
Opening(d)    == feeDesk[d].pc = "checkout"

RivalsKnown ==
  /\ \A c1, c2 \in Checkouts :
       c1 # c2 /\ Started(c1) /\ Started(c2) /\ feePay[c1].covers \cap feePay[c2].covers # {}
       => Noted(c1, c2)
  /\ \A d \in Desks, c \in Checkouts :
       Opening(d) /\ Started(c) /\ feePay[c].covers \cap feeDesk[d].rows # {}
       => Noted(c, feeDesk[d].pay)
  /\ \A d1, d2 \in Desks :
       d1 # d2 /\ Opening(d1) /\ Opening(d2) /\ feeDesk[d1].rows \cap feeDesk[d2].rows # {}
       => Noted(feeDesk[d1].pay, feeDesk[d2].pay)

(* Steps that neither open a checkout nor record one.                      *)
Quiet ==
  /\ \A c \in Checkouts : /\ feePay'[c].covers = feePay[c].covers
                          /\ feePay'[c].rivals = feePay[c].rivals
                          /\ feePay'[c].status # "none" <=> feePay[c].status # "none"
  /\ \A d \in Desks : feeDesk'[d].pc = "checkout" => feeDesk'[d] = feeDesk[d]

LEMMA QuietKeeps == FeeInv /\ RivalsKnown /\ Quiet => RivalsKnown'
<1> SUFFICES ASSUME FeeInv, RivalsKnown, Quiet PROVE RivalsKnown'
  OBVIOUS
<1>1. \A d \in Desks : Opening(d) => feeDesk[d].pay \in Checkouts
  BY DEF FeeInv, DeskHonest, Opening
<1>2. \A c1, c2 \in Checkouts : Noted(c1, c2)' <=> Noted(c1, c2)
  BY DEF Quiet, Noted
<1>3. \A c \in Checkouts : Started(c)' <=> Started(c)
  BY DEF Quiet, Started
<1>4. \A d \in Desks : Opening(d)' => Opening(d) /\ feeDesk'[d] = feeDesk[d]
  BY DEF Quiet, Opening
<1>5. ASSUME NEW c1 \in Checkouts, NEW c2 \in Checkouts, c1 # c2, Started(c1)', Started(c2)',
             feePay'[c1].covers \cap feePay'[c2].covers # {}
      PROVE  Noted(c1, c2)'
  BY <1>2, <1>3, <1>5 DEF RivalsKnown, Quiet
<1>6. ASSUME NEW d \in Desks, NEW c \in Checkouts, Opening(d)', Started(c)',
             feePay'[c].covers \cap feeDesk'[d].rows # {}
      PROVE  Noted(c, feeDesk[d].pay)' /\ feeDesk'[d].pay = feeDesk[d].pay
  <2>1. Opening(d) /\ feeDesk'[d] = feeDesk[d] /\ feePay'[c].covers = feePay[c].covers
    BY <1>4, <1>6 DEF Quiet
  <2>2. Noted(c, feeDesk[d].pay) /\ feeDesk[d].pay \in Checkouts
    BY <1>1, <1>3, <1>6, <2>1 DEF RivalsKnown
  <2>3. feePay'[c].rivals = feePay[c].rivals
        /\ feePay'[feeDesk[d].pay].rivals = feePay[feeDesk[d].pay].rivals
    BY <2>2 DEF Quiet
  <2> QED
    BY <2>1, <2>2, <2>3 DEF Noted
<1>7. ASSUME NEW d1 \in Desks, NEW d2 \in Desks, d1 # d2, Opening(d1)', Opening(d2)',
             feeDesk'[d1].rows \cap feeDesk'[d2].rows # {}
      PROVE  Noted(feeDesk[d1].pay, feeDesk[d2].pay)'
  <2>1. /\ Opening(d1) /\ feeDesk'[d1] = feeDesk[d1]
        /\ Opening(d2) /\ feeDesk'[d2] = feeDesk[d2]
    BY <1>4, <1>7
  <2>2. Noted(feeDesk[d1].pay, feeDesk[d2].pay)
    BY <1>7, <2>1 DEF RivalsKnown
  <2>3. feePay'[feeDesk[d1].pay].rivals = feePay[feeDesk[d1].pay].rivals
        /\ feePay'[feeDesk[d2].pay].rivals = feePay[feeDesk[d2].pay].rivals
    BY <1>1, <2>1 DEF Quiet
  <2> QED
    BY <2>1, <2>2, <2>3 DEF Noted
<1> QED
  BY <1>5, <1>6, <1>7 DEF RivalsKnown

(* A checkout that begins notes every open one; a finished one it does not *)
(* note leaves nothing owed, so they cover nothing in common.              *)
LEMMA StartNotes ==
  ASSUME FeeInv, RivalsKnown, NEW d \in Desks, NEW c \in Checkouts, StartCheckout(d, c)
  PROVE  RivalsKnown'
<1>1. /\ ~Started(c) /\ c \notin Open
      /\ feeDesk' = [feeDesk EXCEPT ![d] = [pc |-> "checkout", pay |-> c, rows |-> Owed]]
      /\ feePay' = [feePay EXCEPT ![c].rivals = Open]
  BY DEF StartCheckout, Goto, StartCovers, Started
<1>2. /\ feePay'[c].rivals = Open
      /\ \A x \in Checkouts : /\ feePay'[x].covers = feePay[x].covers
                              /\ feePay'[x].status = feePay[x].status
                              /\ x # c => feePay'[x].rivals = feePay[x].rivals
  BY <1>1 DEF FeeInv, FeesTyped, FeePayment
<1>3. /\ feeDesk'[d].pc = "checkout" /\ feeDesk'[d].pay = c /\ feeDesk'[d].rows = Owed
      /\ \A x \in Desks : x # d => feeDesk'[x] = feeDesk[x]
  BY <1>1 DEF FeeInv, FeesTyped
<1>4. \A x \in Desks : Opening(x) => feeDesk[x].pay \in Checkouts /\ feeDesk[x].pay \in Open
  BY DEF FeeInv, DeskHonest, Opening, Open
<1>5. \A x \in Checkouts : (Started(x)' <=> Started(x)) /\ (Started(x) => x # c)
  BY <1>1, <1>2 DEF Started
<1>6. \A x \in Checkouts : Started(x) /\ feePay[x].covers \cap Owed # {} => x \in Open
  <2>1. \A x \in Checkouts : feePay[x].status \in {"none", "PENDING", "SUCCEEDED", "FAILED"}
    BY DEF FeeInv, FeesTyped, FeePayment
  <2> QED
    BY <2>1 DEF FeeInv, CoversKnown, Started, Open
<1>7. ASSUME NEW c1 \in Checkouts, NEW c2 \in Checkouts, c1 # c2, Started(c1)', Started(c2)',
             feePay'[c1].covers \cap feePay'[c2].covers # {}
      PROVE  Noted(c1, c2)'
  BY <1>2, <1>5, <1>7 DEF RivalsKnown, Noted
<1>8. ASSUME NEW x \in Desks, NEW y \in Checkouts, Opening(x)', Started(y)',
             feePay'[y].covers \cap feeDesk'[x].rows # {}
      PROVE  y \in feePay'[feeDesk'[x].pay].rivals \/ feeDesk'[x].pay \in feePay'[y].rivals
  <2>1. CASE x = d
    BY <1>2, <1>3, <1>5, <1>6, <1>8, <2>1
  <2>2. CASE x # d
    <3>1. Opening(x) /\ feeDesk'[x] = feeDesk[x] /\ feeDesk[x].pay \in Checkouts
          /\ feeDesk[x].pay # c
      BY <1>1, <1>3, <1>4, <1>8, <2>2 DEF Opening
    <3>2. Noted(y, feeDesk[x].pay)
      BY <1>2, <1>5, <1>8, <3>1 DEF RivalsKnown
    <3> QED
      BY <1>2, <1>5, <1>8, <3>1, <3>2 DEF Noted
  <2> QED
    BY <2>1, <2>2
<1>9. ASSUME NEW x \in Desks, NEW y \in Desks, x # y, Opening(x)', Opening(y)',
             feeDesk'[x].rows \cap feeDesk'[y].rows # {}
      PROVE  \/ feeDesk'[x].pay \in feePay'[feeDesk'[y].pay].rivals
             \/ feeDesk'[y].pay \in feePay'[feeDesk'[x].pay].rivals
  <2>1. \A z \in Desks : z # d /\ Opening(z)' =>
          /\ Opening(z) /\ feeDesk'[z] = feeDesk[z]
          /\ feeDesk[z].pay \in Checkouts /\ feeDesk[z].pay \in Open
          /\ feeDesk[z].pay # c
    BY <1>1, <1>3, <1>4 DEF Opening
  <2>2. CASE x = d \/ y = d
    BY <1>2, <1>3, <1>9, <2>1, <2>2
  <2>3. CASE x # d /\ y # d
    <3>1. Noted(feeDesk[x].pay, feeDesk[y].pay)
      BY <1>9, <2>1, <2>3 DEF RivalsKnown
    <3> QED
      BY <1>2, <1>9, <2>1, <2>3, <3>1 DEF Noted
  <2> QED
    BY <2>2, <2>3
<1> QED
  BY <1>7, <1>8, <1>9 DEF RivalsKnown, Noted

(* Recording a checkout turns what its request held into what it covers.   *)
LEMMA OpenedNotes ==
  ASSUME FeeInv, RivalsKnown, NEW d \in Desks, CheckoutOpened(d)
  PROVE  RivalsKnown'
<1> DEFINE c == feeDesk[d].pay
<1>1. /\ Opening(d) /\ c \in Checkouts
      /\ feeDesk' = [feeDesk EXCEPT ![d] = IdleDesk]
      /\ feePay' = [feePay EXCEPT ![c] = [@ EXCEPT !.status = "PENDING",
                                                   !.covers = feeDesk[d].rows,
                                                   !.simulated = ~feesLive]]
  BY DEF CheckoutOpened, DeskDone, Opening, FeeInv, DeskHonest
<1>2. /\ feePay'[c].covers = feeDesk[d].rows
      /\ \A x \in Checkouts : /\ feePay'[x].rivals = feePay[x].rivals
                              /\ x # c => feePay'[x] = feePay[x]
  BY <1>1 DEF FeeInv, FeesTyped, FeePayment
<1>3. \A x \in Desks : Opening(x)' => x # d /\ Opening(x) /\ feeDesk'[x] = feeDesk[x]
  BY <1>1, IdleTyped DEF FeeInv, FeesTyped, Opening
<1>4. \A x \in Desks : Opening(x) => feeDesk[x].pay \in Checkouts
  BY DEF FeeInv, DeskHonest, Opening
<1>5. \A x \in Checkouts : x # c /\ Started(x)' => Started(x)
  BY <1>2 DEF Started
<1> HIDE DEF c
<1>6. c = feeDesk[d].pay
  BY DEF c
<1>7. ASSUME NEW c1 \in Checkouts, NEW c2 \in Checkouts, c1 # c2, Started(c1)', Started(c2)',
             feePay'[c1].covers \cap feePay'[c2].covers # {}
      PROVE  Noted(c1, c2)'
  <2>1. CASE c1 = c
    <3>1. Started(c2) /\ feePay[c2].covers \cap feeDesk[d].rows # {}
      BY <1>2, <1>5, <1>7, <2>1
    <3>2. Noted(c2, c)
      BY <1>1, <1>6, <3>1 DEF RivalsKnown
    <3> QED
      BY <1>2, <2>1, <3>2 DEF Noted
  <2>2. CASE c2 = c
    <3>1. Started(c1) /\ feePay[c1].covers \cap feeDesk[d].rows # {}
      BY <1>2, <1>5, <1>7, <2>2
    <3>2. Noted(c1, c)
      BY <1>1, <1>6, <3>1 DEF RivalsKnown
    <3> QED
      BY <1>2, <2>2, <3>2 DEF Noted
  <2>3. CASE c1 # c /\ c2 # c
    <3>1. Noted(c1, c2)
      BY <1>2, <1>5, <1>7, <2>3 DEF RivalsKnown
    <3> QED
      BY <1>2, <3>1 DEF Noted
  <2> QED
    BY <2>1, <2>2, <2>3
<1>8. ASSUME NEW x \in Desks, NEW y \in Checkouts, Opening(x)', Started(y)',
             feePay'[y].covers \cap feeDesk'[x].rows # {}
      PROVE  y \in feePay'[feeDesk'[x].pay].rivals \/ feeDesk'[x].pay \in feePay'[y].rivals
  <2>1. x # d /\ Opening(x) /\ feeDesk'[x] = feeDesk[x] /\ feeDesk[x].pay \in Checkouts
    BY <1>3, <1>4, <1>8
  <2>2. Noted(y, feeDesk[x].pay)
    <3>1. CASE y = c
      BY <1>1, <1>2, <1>6, <1>8, <2>1, <3>1 DEF RivalsKnown, Noted
    <3>2. CASE y # c
      BY <1>2, <1>5, <1>8, <2>1, <3>2 DEF RivalsKnown
    <3> QED
      BY <3>1, <3>2
  <2> QED
    BY <1>2, <2>1, <2>2 DEF Noted
<1>9. ASSUME NEW x \in Desks, NEW y \in Desks, x # y, Opening(x)', Opening(y)',
             feeDesk'[x].rows \cap feeDesk'[y].rows # {}
      PROVE  \/ feeDesk'[x].pay \in feePay'[feeDesk'[y].pay].rivals
             \/ feeDesk'[y].pay \in feePay'[feeDesk'[x].pay].rivals
  <2>1. /\ Opening(x) /\ feeDesk'[x] = feeDesk[x] /\ feeDesk[x].pay \in Checkouts
        /\ Opening(y) /\ feeDesk'[y] = feeDesk[y] /\ feeDesk[y].pay \in Checkouts
    BY <1>3, <1>4, <1>9
  <2>2. Noted(feeDesk[x].pay, feeDesk[y].pay)
    BY <1>9, <2>1 DEF RivalsKnown
  <2> QED
    BY <1>2, <2>1, <2>2 DEF Noted
<1> QED
  BY <1>7, <1>8, <1>9 DEF RivalsKnown, Noted

(* What a settlement, a payment or a failure writes is a status or a       *)
(* charge; the other steps write no payment.                               *)
LEMMA OthersQuiet ==
  ASSUME FeeInv, [FeeNext]_feeVars,
         ~\E d \in Desks : CheckoutOpened(d) \/ \E c \in Checkouts : StartCheckout(d, c)
  PROVE  Quiet
<1>1. CASE UNCHANGED <<feePay, feeDesk>>
  BY <1>1 DEF Quiet
<1>2. ASSUME NEW c \in Checkouts, CustomerPays(c) PROVE Quiet
  BY <1>2 DEF CustomerPays, Quiet, FeeInv, FeesTyped, FeePayment
<1>3. ASSUME NEW d \in Desks, CommitSettlement(d) \/ CommitFailure(d) PROVE Quiet
  <2>1. feeDesk[d].pay \in Checkouts /\ Started(feeDesk[d].pay)
    BY <1>3 DEF FeeInv, DeskHonest, CommitSettlement, CommitFailure
  <2>2. \E status \in {"SUCCEEDED", "FAILED"} :
          feePay' = [feePay EXCEPT ![feeDesk[d].pay].status = status]
    BY <1>3 DEF CommitSettlement, CommitFailure
  <2>3. feeDesk' = [feeDesk EXCEPT ![d] = IdleDesk]
    BY <1>3 DEF CommitSettlement, CommitFailure, DeskDone
  <2>4. \A x \in Checkouts : /\ feePay'[x].covers = feePay[x].covers
                             /\ feePay'[x].rivals = feePay[x].rivals
                             /\ feePay'[x].status # "none" <=> feePay[x].status # "none"
    BY <2>1, <2>2 DEF FeeInv, FeesTyped, FeePayment, Started
  <2>5. \A x \in Desks : feeDesk'[x].pc = "checkout" => feeDesk'[x] = feeDesk[x]
    BY <2>3, IdleTyped DEF FeeInv, FeesTyped
  <2> QED
    BY <2>4, <2>5 DEF Quiet
<1>4. ASSUME NEW d \in Desks, NEW record, record.pc # "checkout", feePay' = feePay,
             feeDesk' = [feeDesk EXCEPT ![d] = record]
      PROVE  Quiet
  BY <1>4 DEF Quiet, FeeInv, FeesTyped
<1>5. ASSUME NEW d \in Desks,
             \/ ReadCovered(d) \/ CommitMark(d) \/ RequestEnds(d)
             \/ \E c \in Checkouts : LoadToSettle(d, c) \/ FailSimulated(d, c)
             \/ \E e \in Entries, as \in {"mark", "waive"} : MarkEntry(d, e, as)
      PROVE  Quiet
  <2>1. feePay' = feePay
    BY <1>5 DEF ReadCovered, CommitMark, RequestEnds, LoadToSettle, FailSimulated, MarkEntry
  <2>2. \E record : record.pc # "checkout" /\ feeDesk' = [feeDesk EXCEPT ![d] = record]
    <3>1. CASE CommitMark(d) \/ RequestEnds(d)
      BY <3>1, IdleTyped DEF CommitMark, RequestEnds, DeskDone
    <3>2. CASE \E pc \in {"settle", "pay", "fail", "mark", "waive"} :
                 \E pay, rows : Goto(d, pc, pay, rows)
      <4>1. PICK pc \in {"settle", "pay", "fail", "mark", "waive"} :
              \E pay, rows : Goto(d, pc, pay, rows)
        BY <3>2
      <4>2. PICK pay, rows :
              feeDesk' = [feeDesk EXCEPT ![d] = [pc |-> pc, pay |-> pay, rows |-> rows]]
        BY <4>1 DEF Goto
      <4>3. [pc |-> pc, pay |-> pay, rows |-> rows].pc # "checkout"
        OBVIOUS
      <4> QED
        BY <4>2, <4>3
    <3> QED
      BY <1>5, <3>1, <3>2 DEF ReadCovered, LoadToSettle, FailSimulated, MarkEntry
  <2> QED
    BY <2>1, <2>2, <1>4
<1>6. CASE UNCHANGED feeVars
  BY <1>1, <1>6 DEF feeVars
<1>7. CASE \/ \E e \in Entries, kinds \in SUBSET {"copy", "manual"} : Accrue(e, kinds)
           \/ \E r \in FeePlans : UpdateSettings(r)
           \/ \E m \in BOOLEAN : SetPaymentsMode(m)
           \/ Midnight
  BY <1>1, <1>7 DEF Accrue, UpdateSettings, SetPaymentsMode, Midnight
<1> QED
  BY <1>2, <1>3, <1>5, <1>6, <1>7 DEF FeeNext, Handle

(* Every step keeps what checkouts know of one another.                    *)
LEMMA NextNotes == FeeInv /\ RivalsKnown /\ [FeeNext]_feeVars => RivalsKnown'
  BY QuietKeeps, StartNotes, OpenedNotes, OthersQuiet

(* Of two checkouts that cover a common entry, one was started while the  *)
(* other was still open.                                                  *)
THEOREM RivalsInvariant == FeeSpec => []RivalsKnown
<1>1. FeeInit => RivalsKnown
  BY DEF FeeInit, RivalsKnown, Started, Opening, NoPay, IdleDesk
<1> QED
  BY <1>1, NextNotes, FeeInvariant, PTL DEF FeeSpec

(* A trader is charged twice for an entry only by two checkouts of which   *)
(* one was started while the other was open.                               *)
THEOREM ChargedTwice == FeeSpec => []ChargedTwiceOnlyIfOpen
<1>1. FeeInv /\ RivalsKnown => ChargedTwiceOnlyIfOpen
  <2>1. FeeInv => \A c \in Checkouts : feePay[c].charged => Started(c)
    BY DEF FeeInv, CoversKnown
  <2> QED
    BY <2>1 DEF RivalsKnown, ChargedTwiceOnlyIfOpen, Noted
<1> QED
  BY <1>1, RivalsInvariant, FeeInvariant, PTL
(* A settled checkout leaves nothing owed, an entry is paid for a reason,  *)
(* and a double charge takes overlapping checkouts.                        *)
THEOREM FeesAreSettled == FeeSpec => []FeesSettled
  BY PaidIsPaid, ChargedTwice, PTL DEF FeesSettled

-----------------------------------------------------------------------------
(* Bookings: whoever is about to book a day read it as it still is, unless *)
(* another was about to book it at the time.                               *)
BookingsTyped ==
  /\ meetings \in [Bookables -> [who : Trainees \cup {"none"}, day : Days \cup {"none"},
                                 band : Bands \cup {"none"},
                                 status : {"none", "CONFIRMED", "CANCELLED"}]]
  /\ booker \in [Bookers -> [pc : {"idle", "book", "sync"}, who : Trainees \cup {"none"},
                             day : Days \cup {"none"}, band : Bands \cup {"none"}]]

Booking(d, day) == booker[d].pc = "book" /\ booker[d].day = day

(* No two sessions of a day are in one band; bookings end by Saturday.     *)
DayKept(day) ==
  /\ \A b1, b2 \in BookedOn(day) : meetings[b1].band = meetings[b2].band => b1 = b2
  /\ Cardinality(BookedOn(day)) <= MaxBookingsPerDay
  /\ day \in Sundays => BookedOn(day) = {}

(* Whoever is about to book may still.                                     *)
BookerMay(d, day) ==
  /\ \A b \in BookedOn(day) : meetings[b].band # booker[d].band
  /\ Cardinality(BookedOn(day)) < MaxBookingsPerDay
  /\ day \notin Sundays
  /\ \A x \in Bookers : Booking(x, day) => x = d

BookInv ==
  /\ BookingsTyped
  /\ \A day \in Days \ rushed : /\ DayKept(day)
                                /\ \A d \in Bookers : Booking(d, day) => BookerMay(d, day)

LEMMA BookedFinite ==
  ASSUME NEW day
  PROVE  IsFiniteSet(BookedOn(day)) /\ Cardinality(BookedOn(day)) \in Nat
<1>1. BookedOn(day) \in SUBSET Bookables
  BY DEF BookedOn
<1>2. IsFiniteSet(BookedOn(day))
  BY <1>1, BookablesAreFinite, FS_Subset
<1> QED
  BY <1>2, FS_CardinalityType

(* Sets as many as their images when no two members share one.             *)
LEMMA BandsCounted ==
  ASSUME NEW day, \A b1, b2 \in BookedOn(day) : meetings[b1].band = meetings[b2].band => b1 = b2
  PROVE  Cardinality(BandsOn(day)) = Cardinality(BookedOn(day))
<1> DEFINE f == [b \in BookedOn(day) |-> meetings[b].band]
<1>1. f \in [BookedOn(day) -> BandsOn(day)]
  BY DEF BandsOn
<1>2. \A a, b \in BookedOn(day) : f[a] = f[b] => a = b
  OBVIOUS
<1>3. \A t \in BandsOn(day) : \E s \in BookedOn(day) : f[s] = t
  BY DEF BandsOn
<1> HIDE DEF f
<1>4. f \in Bijection(BookedOn(day), BandsOn(day))
  BY <1>1, <1>2, <1>3, Fun_IsBij
<1>5. ExistsBijection(BookedOn(day), BandsOn(day))
  BY <1>4 DEF ExistsBijection
<1> QED
  BY <1>5, BookedFinite, FS_Bijection

LEMMA InitBookings == BookInit => BookInv
<1> SUFFICES ASSUME BookInit PROVE BookInv
  OBVIOUS
<1>1. BookingsTyped
  BY DEF BookInit, BookingsTyped, NoMeeting, AtEase
<1>2. \A d \in Bookers : booker[d].pc = "idle"
  BY DEF BookInit, AtEase
<1>3. \A day : BookedOn(day) = {}
  BY DEF BookInit, BookedOn, NoMeeting
<1>4. Cardinality({}) = 0
  BY FS_EmptySet
<1>5. \A day : DayKept(day)
  BY <1>3, <1>4 DEF DayKept, MaxBookingsPerDay
<1> QED
  BY <1>1, <1>2, <1>5 DEF BookInv, Booking

(* Nothing changes for a day on which no session is added.                 *)
LEMMA DayStays ==
  ASSUME BookInv, NEW day \in Days \ rushed,
         BookedOn(day)' \subseteq BookedOn(day),
         \A b \in BookedOn(day)' : meetings'[b].band = meetings[b].band
  PROVE  /\ DayKept(day)'
         /\ Cardinality(BookedOn(day)') <= Cardinality(BookedOn(day))
         /\ Cardinality(BookedOn(day)') \in Nat
<1>1. Cardinality(BookedOn(day)') <= Cardinality(BookedOn(day)) /\ IsFiniteSet(BookedOn(day)')
  BY BookedFinite, FS_Subset
<1>2. Cardinality(BookedOn(day)') \in Nat /\ Cardinality(BookedOn(day)) \in Nat
  BY <1>1, BookedFinite, FS_CardinalityType
<1>3. DayKept(day)
  BY DEF BookInv
<1> QED
  BY <1>1, <1>2, <1>3 DEF DayKept, MaxBookingsPerDay

LEMMA NextBookings == BookInv /\ [BookNext]_bookVars => BookInv'
<1> SUFFICES ASSUME BookInv, [BookNext]_bookVars PROVE BookInv'
  OBVIOUS
<1> USE DEF MaxBookingsPerDay
<1>t. BookingsTyped
  BY DEF BookInv
<1>1. ASSUME NEW d \in Bookers, NEW l \in Trainees, NEW day \in Days, NEW band \in Bands,
             StartBooking(d, l, day, band)
      PROVE  BookInv'
  <2>1. /\ booker'[d] = [pc |-> "book", who |-> l, day |-> day, band |-> band]
        /\ \A x \in Bookers : x # d => booker'[x] = booker[x]
        /\ meetings' = meetings
        /\ rushed \subseteq rushed'
        /\ day \notin rushed' => \A x \in Bookers : ~Booking(x, day)
    BY <1>1, <1>t DEF StartBooking, BookingsTyped, Booking
  <2>2. BookingsTyped'
    BY <1>1, <1>t DEF StartBooking, BookingsTyped
  <2>3. \A q : BookedOn(q)' = BookedOn(q) /\ BandsOn(q)' = BandsOn(q)
    BY <2>1 DEF BookedOn, BandsOn
  <2>4. ASSUME NEW q \in Days \ rushed'
        PROVE  DayKept(q)' /\ \A x \in Bookers : Booking(x, q)' => BookerMay(x, q)'
    <3>1. q \in Days \ rushed
      BY <2>1
    <3>2. DayKept(q) /\ \A x \in Bookers : Booking(x, q) => BookerMay(x, q)
      BY <3>1 DEF BookInv
    <3>3. DayKept(q)'
      BY <3>2, <2>1, <2>3 DEF DayKept
    <3>4. CASE q = day
      <4>1. \A x \in Bookers : Booking(x, q)' => x = d
        BY <3>4, <2>1 DEF Booking
      <4>2. band \notin BandsOn(day) /\ Cardinality(BookedOn(day)) < 2 /\ day \notin Sundays
        BY <1>1 DEF StartBooking, Eligible
      <4>3. BookerMay(d, q)'
        BY <4>1, <4>2, <3>4, <2>1, <2>3 DEF BookerMay, BandsOn
      <4> QED
        BY <4>1, <4>3, <3>3
    <3>5. CASE q # day
      <4>1. \A x \in Bookers : Booking(x, q)' <=> Booking(x, q) /\ x # d
        BY <3>5, <2>1, <1>1 DEF Booking, StartBooking
      <4> QED
        BY <4>1, <3>2, <3>3, <2>1, <2>3 DEF BookerMay
    <3> QED
      BY <3>4, <3>5
  <2> QED
    BY <2>2, <2>4 DEF BookInv
<1>2. ASSUME NEW d \in Bookers, NEW b \in Bookables, CommitBooking(d, b)
      PROVE  BookInv'
  <2>1. /\ meetings'[b] = [who |-> booker[d].who, day |-> booker[d].day,
                           band |-> booker[d].band, status |-> "CONFIRMED"]
        /\ \A x \in Bookables : x # b => meetings'[x] = meetings[x]
        /\ booker'[d].pc = "sync"
        /\ \A x \in Bookers : x # d => booker'[x] = booker[x]
        /\ rushed' = rushed /\ meetings[b].status = "none" /\ booker[d].pc = "book"
    BY <1>2, <1>t DEF CommitBooking, BookingsTyped
  <2>2. BookingsTyped'
    <3>1. booker[d] \in [pc : {"idle", "book", "sync"}, who : Trainees \cup {"none"},
                         day : Days \cup {"none"}, band : Bands \cup {"none"}]
      BY <1>t DEF BookingsTyped
    <3> QED
      BY <3>1, <1>2, <1>t DEF CommitBooking, BookingsTyped
  <2>3. ASSUME NEW q \in Days \ rushed'
        PROVE  DayKept(q)' /\ \A x \in Bookers : Booking(x, q)' => BookerMay(x, q)'
    <3>1. q \in Days \ rushed
      BY <2>1
    <3>2. DayKept(q) /\ \A x \in Bookers : Booking(x, q) => BookerMay(x, q)
      BY <3>1 DEF BookInv
    <3>3. \A x \in Bookers : Booking(x, q)' <=> Booking(x, q) /\ x # d
      BY <2>1 DEF Booking
    <3>4. CASE q = booker[d].day
      <4>1. Booking(d, q) /\ BookerMay(d, q)
        BY <3>4, <3>2, <2>1 DEF Booking
      <4>2. \A x \in Bookers : ~Booking(x, q)'
        BY <4>1, <3>3 DEF BookerMay
      <4>3. BookedOn(q)' = BookedOn(q) \cup {b} /\ b \notin BookedOn(q)
        BY <2>1, <3>4 DEF BookedOn
      <4>4. Cardinality(BookedOn(q)') = Cardinality(BookedOn(q)) + 1
        BY <4>3, BookedFinite, FS_AddElement
      <4>5. Cardinality(BookedOn(q)) \in Nat
        BY BookedFinite
      <4>6. (Cardinality(BookedOn(q)) <= MaxBookingsPerDay)'
        BY <4>1, <4>4, <4>5 DEF BookerMay
      <4>7. \A b1, b2 \in BookedOn(q)' : meetings'[b1].band = meetings'[b2].band => b1 = b2
        <5>1. \A x \in BookedOn(q) : meetings'[x] = meetings[x]
          BY <4>3, <2>1 DEF BookedOn
        <5>2. \A x \in BookedOn(q) : meetings'[x].band # meetings'[b].band
          BY <5>1, <4>1, <2>1 DEF BookerMay
        <5> QED
          BY <5>1, <5>2, <4>3, <3>2 DEF DayKept
      <4> QED
        BY <4>1, <4>2, <4>6, <4>7 DEF DayKept, BookerMay
    <3>5. CASE q # booker[d].day
      <4>1. BookedOn(q)' = BookedOn(q) /\ b \notin BookedOn(q)
        BY <2>1, <3>5 DEF BookedOn
      <4>2. \A x \in BookedOn(q) : meetings'[x] = meetings[x]
        BY <4>1, <2>1 DEF BookedOn
      <4>3. \A x \in Bookers : Booking(x, q)' => x # d /\ booker'[x] = booker[x]
        BY <3>3, <2>1
      <4>4. DayKept(q)'
        BY <4>1, <4>2, <3>2 DEF DayKept
      <4> QED
        BY <4>1, <4>2, <4>3, <4>4, <3>2, <3>3 DEF BookerMay
    <3> QED
      BY <3>4, <3>5
  <2> QED
    BY <2>2, <2>3 DEF BookInv
<1>3. ASSUME NEW d \in Bookers, BookerEnds(d)
      PROVE  BookInv'
  <2>1. /\ meetings' = meetings /\ rushed' = rushed /\ booker'[d].pc = "idle"
        /\ \A x \in Bookers : x # d => booker'[x] = booker[x]
    BY <1>3, <1>t DEF BookerEnds, BookingsTyped, AtEase
  <2>2. BookingsTyped'
    BY <1>3, <1>t DEF BookerEnds, BookingsTyped, AtEase
  <2>3. \A q : BookedOn(q)' = BookedOn(q)
    BY <2>1 DEF BookedOn
  <2>4. \A q : \A x \in Bookers : Booking(x, q)' <=> Booking(x, q) /\ x # d
    BY <2>1 DEF Booking
  <2>5. \A q : (DayKept(q) => DayKept(q)')
               /\ \A x \in Bookers : x # d /\ BookerMay(x, q) => BookerMay(x, q)'
    BY <2>1, <2>3, <2>4 DEF DayKept, BookerMay
  <2> QED
    BY <2>1, <2>2, <2>4, <2>5 DEF BookInv
<1>4. ASSUME NEW b \in Bookables, NEW l \in Trainees, CancelBooking(b, l)
      PROVE  BookInv'
  <2>1. /\ booker' = booker /\ rushed' = rushed
        /\ \A x \in Bookables : /\ meetings'[x].band = meetings[x].band
                                /\ meetings'[x].day = meetings[x].day
                                /\ meetings'[x].status \in {meetings[x].status, "CANCELLED"}
    BY <1>4, <1>t DEF CancelBooking, BookingsTyped
  <2>2. BookingsTyped'
    BY <1>4, <1>t DEF CancelBooking, BookingsTyped
  <2>3. \A q : BookedOn(q)' \subseteq BookedOn(q)
    BY <2>1 DEF BookedOn
  <2>4. ASSUME NEW q \in Days \ rushed'
        PROVE  DayKept(q)' /\ \A x \in Bookers : Booking(x, q)' => BookerMay(x, q)'
    <3>1. q \in Days \ rushed
      BY <2>1
    <3>2. \A x \in BookedOn(q)' : meetings'[x].band = meetings[x].band
      BY <2>1 DEF BookedOn
    <3>3. /\ DayKept(q)'
          /\ Cardinality(BookedOn(q)') <= Cardinality(BookedOn(q))
          /\ Cardinality(BookedOn(q)') \in Nat
      BY <3>1, <3>2, <2>3, DayStays
    <3>4. \A x \in Bookers : Booking(x, q) => BookerMay(x, q)
      BY <3>1 DEF BookInv
    <3>5. \A x \in Bookers : Booking(x, q)' <=> Booking(x, q)
      BY <2>1 DEF Booking
    <3>6. Cardinality(BookedOn(q)) \in Nat
      BY BookedFinite
    <3>7. ASSUME NEW x \in Bookers, BookerMay(x, q) PROVE BookerMay(x, q)'
      BY <3>2, <3>3, <3>5, <3>6, <3>7, <2>1, <2>3 DEF BookerMay
    <3> QED
      BY <3>3, <3>4, <3>5, <3>7
  <2> QED
    BY <2>2, <2>4 DEF BookInv
<1>5. ASSUME UNCHANGED <<meetings, booker, rushed>>
      PROVE  BookInv'
  <2>1. \A q : BookedOn(q)' = BookedOn(q)
    BY <1>5 DEF BookedOn
  <2> QED
    BY <2>1, <1>5 DEF BookInv, BookingsTyped, DayKept, BookerMay, Booking
<1> QED
  BY <1>1, <1>2, <1>3, <1>4, <1>5 DEF BookNext, TierChanges, bookVars

(* The days' sessions and the requests about to add to them stay           *)
(* as BookInv has it.                                                      *)
THEOREM BookInvariant == BookSpec => []BookInv
  BY InitBookings, NextBookings, PTL DEF BookSpec

(* The facilitator is never in two places on a day that no two requests    *)
(* rushed, for any number of trainees, requests, days and bands.           *)
THEOREM NeverInTwoPlaces == BookSpec => []FacilitatorKept
<1>1. BookInv => FacilitatorKept
  <2> SUFFICES ASSUME BookInv, NEW day \in Days \ rushed
               PROVE  /\ Cardinality(BookedOn(day)) <= MaxBookingsPerDay
                      /\ Cardinality(BandsOn(day)) = Cardinality(BookedOn(day))
                      /\ day \in Sundays => BookedOn(day) = {}
                      /\ Offered(day) # {} => Cardinality(BookedOn(day)) < MaxBookingsPerDay
    BY DEF FacilitatorKept
  <2>1. DayKept(day)
    BY DEF BookInv
  <2>2. Cardinality(BandsOn(day)) = Cardinality(BookedOn(day))
    BY <2>1, BandsCounted DEF DayKept
  <2>3. Cardinality(BookedOn(day)) \in Nat
    BY BookedFinite
  <2> QED
    BY <2>1, <2>2, <2>3 DEF DayKept, Offered, MaxBookingsPerDay
<1> QED
  BY <1>1, BookInvariant, PTL

-----------------------------------------------------------------------------
(* Lessons: a visit that stored its answer still finds it, as long as no   *)
(* two visits were generating one kind at once.                            *)
Generating == [pc : {"generate", "refresh"}, kind : Kinds, from : Nat, had : BOOLEAN]

ToolsTyped ==
  /\ text \in Nat /\ cached \in [Kinds -> Nat]
  /\ visit = [v \in Visits |-> visit[v]]
  /\ \A v \in Visits : visit[v].pc \in {"idle", "mark"} \/ visit[v] \in Generating
  /\ served \in [got : Nat, from : Nat]

AtWork(v) == visit[v].pc \in {"generate", "refresh"}

Undivided ==
  met = {} => \A v, x \in Visits : /\ AtWork(v) /\ AtWork(x) /\ visit[v].kind = visit[x].kind
                                   => v = x
StoredStays ==
  met = {} => \A v \in Visits : visit[v].pc = "refresh" => cached[visit[v].kind] = visit[v].from

ToolInv == ToolsTyped /\ Undivided /\ StoredStays /\ ServedIsCurrent

LEMMA InitTools == ToolInit => ToolInv
<1> SUFFICES ASSUME ToolInit PROVE ToolInv
  OBVIOUS
<1>1. \A v \in Visits : visit[v] = Away /\ visit[v].pc = "idle"
  BY DEF ToolInit, Away
<1>2. visit = [v \in Visits |-> visit[v]]
  BY DEF ToolInit
<1>3. served \in [got : Nat, from : Nat] /\ served.got >= served.from
  BY DEF ToolInit
<1>4. cached \in [Kinds -> Nat] /\ text \in Nat
  BY DEF ToolInit
<1> QED
  BY <1>1, <1>2, <1>3, <1>4
  DEF ToolInv, ToolsTyped, Undivided, StoredStays, ServedIsCurrent, AtWork

(* Visits that write no cache row and serve nothing.                       *)
LEMMA NothingStored ==
  ASSUME ToolInv, ToolsTyped', met \subseteq met', UNCHANGED <<cached, served>>,
         \A v \in Visits : AtWork(v)' => visit'[v] = visit[v]
  PROVE  ToolInv'
<1>1. Undivided' /\ StoredStays'
  BY DEF ToolInv, Undivided, StoredStays, AtWork
<1>2. ServedIsCurrent'
  BY DEF ToolInv, ServedIsCurrent
<1> QED
  BY <1>1, <1>2 DEF ToolInv

LEMMA NextTools == ToolInv /\ [ToolNext]_toolVars => ToolInv'
<1> SUFFICES ASSUME ToolInv, [ToolNext]_toolVars PROVE ToolInv'
  OBVIOUS
<1>t. ToolsTyped
  BY DEF ToolInv
<1>1. ASSUME NEW v \in Visits, NEW k \in Kinds, StartGenerating(v, k) PROVE ToolInv'
  <2> DEFINE new == [pc |-> "generate", kind |-> k, from |-> text, had |-> cached[k] # 0]
  <2>1. new \in Generating
    BY <1>t DEF ToolsTyped, Generating
  <2>2. /\ visit' = [visit EXCEPT ![v] = new] /\ UNCHANGED <<text, cached, served>>
        /\ met \subseteq met'
        /\ met' = {} => \A x \in Visits : ~(AtWork(x) /\ visit[x].kind = k)
    BY <1>1 DEF StartGenerating, AtWork
  <2>3. /\ visit'[v] = new /\ new.pc = "generate" /\ new.kind = k
        /\ \A x \in Visits : x # v => visit'[x] = visit[x]
    BY <2>2, <1>t DEF ToolsTyped
  <2>4. ToolsTyped'
    BY <2>1, <2>2, <1>t DEF ToolsTyped
  <2> HIDE DEF new
  <2>5. Undivided'
    BY <2>2, <2>3 DEF ToolInv, Undivided, AtWork
  <2>6. StoredStays'
    BY <2>2, <2>3 DEF ToolInv, StoredStays
  <2> QED
    BY <2>2, <2>4, <2>5, <2>6 DEF ToolInv, ServedIsCurrent
<1>2. ASSUME NEW v \in Visits, Store(v) PROVE ToolInv'
  <2> DEFINE new == [visit[v] EXCEPT !.pc = "refresh"]
  <2>1. visit[v] \in Generating /\ visit[v].kind \in Kinds /\ visit[v].from \in Nat
    BY <1>2, <1>t DEF Store, ToolsTyped, Generating
  <2>2. new \in Generating /\ new.pc = "refresh" /\ new.kind = visit[v].kind
        /\ new.from = visit[v].from
    BY <2>1 DEF Generating
  <2>3. /\ visit' = [visit EXCEPT ![v] = new] /\ UNCHANGED <<text, served, met>>
        /\ cached' = [cached EXCEPT ![visit[v].kind] = visit[v].from]
    BY <1>2 DEF Store
  <2>4. visit[v].pc = "generate"
    BY <1>2 DEF Store
  <2> HIDE DEF new
  <2>5. ToolsTyped'
    BY <2>1, <2>2, <2>3, <1>t DEF ToolsTyped
  <2>6. /\ visit'[v] = new /\ cached'[visit[v].kind] = visit[v].from
        /\ \A x \in Visits : x # v => visit'[x] = visit[x]
        /\ \A k \in Kinds : k # visit[v].kind => cached'[k] = cached[k]
    BY <2>1, <2>3, <1>t DEF ToolsTyped
  <2>7. Undivided'
    BY <2>2, <2>3, <2>4, <2>6 DEF ToolInv, Undivided, AtWork
  <2>8. ASSUME met = {}, NEW x \in Visits, visit'[x].pc = "refresh"
        PROVE  cached'[visit'[x].kind] = visit'[x].from
    <3>1. CASE x = v
      BY <3>1, <2>2, <2>6
    <3>2. CASE x # v
      <4>1. visit[x].pc = "refresh" /\ visit'[x] = visit[x]
        BY <3>2, <2>6, <2>8
      <4>2. visit[x] \in Generating /\ visit[x].kind \in Kinds
        BY <4>1, <1>t DEF ToolsTyped, Generating
      <4>3. visit[x].kind # visit[v].kind
        BY <3>2, <4>1, <2>4, <2>8 DEF ToolInv, Undivided, AtWork
      <4> QED
        BY <4>1, <4>2, <4>3, <2>6, <2>8 DEF ToolInv, StoredStays
    <3> QED
      BY <3>1, <3>2
  <2> QED
    BY <2>3, <2>5, <2>7, <2>8 DEF ToolInv, StoredStays, ServedIsCurrent
<1>3. ASSUME NEW v \in Visits, ServeStored(v) PROVE ToolInv'
  <2>1. visit[v] \in Generating /\ visit[v].kind \in Kinds /\ visit[v].from \in Nat
    BY <1>3, <1>t DEF ServeStored, ToolsTyped, Generating
  <2>2. /\ visit' = [visit EXCEPT ![v] = Away] /\ UNCHANGED <<text, cached, met>>
        /\ served' = [got |-> cached[visit[v].kind], from |-> visit[v].from]
        /\ visit[v].pc = "refresh"
    BY <1>3 DEF ServeStored
  <2>3. ToolsTyped'
    <3>1. cached[visit[v].kind] \in Nat
      BY <2>1, <1>t DEF ToolsTyped
    <3>2. (served \in [got : Nat, from : Nat])'
      BY <2>1, <2>2, <3>1
    <3>3. /\ visit' = [x \in Visits |-> visit'[x]]
          /\ \A x \in Visits : visit'[x] = IF x = v THEN Away ELSE visit[x]
      BY <2>2, <1>t DEF ToolsTyped
    <3>4. \A x \in Visits : visit'[x].pc \in {"idle", "mark"} \/ visit'[x] \in Generating
      BY <3>3, <1>t DEF ToolsTyped, Away
    <3> QED
      BY <2>2, <3>2, <3>3, <3>4, <1>t DEF ToolsTyped
  <2>4. \A x \in Visits : AtWork(x)' => visit'[x] = visit[x]
    BY <2>2, <1>t DEF ToolsTyped, AtWork, Away
  <2>5. Undivided' /\ StoredStays'
    BY <2>2, <2>4 DEF ToolInv, Undivided, StoredStays, AtWork
  <2>6. ServedIsCurrent'
    BY <2>1, <2>2, <1>t DEF ToolInv, StoredStays, ServedIsCurrent, ToolsTyped
  <2> QED
    BY <2>3, <2>5, <2>6 DEF ToolInv
<1>4. ASSUME NEW k \in Kinds, ServeCached(k) PROVE ToolInv'
  <2>1. /\ UNCHANGED <<text, cached, visit, met>>
        /\ served' = [got |-> text, from |-> text]
    BY <1>4 DEF ServeCached, Fresh
  <2>2. ToolsTyped' /\ Undivided' /\ StoredStays'
    BY <2>1, <1>t DEF ToolInv, ToolsTyped, Undivided, StoredStays, AtWork
  <2>3. ServedIsCurrent'
    BY <2>1, <1>t DEF ServedIsCurrent, ToolsTyped
  <2> QED
    BY <2>2, <2>3 DEF ToolInv
<1>5. ASSUME NEW v \in Visits, VisitFails(v) PROVE ToolInv'
  <2>1. visit' = [visit EXCEPT ![v] = Away] /\ UNCHANGED <<text, cached, served, met>>
    BY <1>5 DEF VisitFails
  <2>2. ToolsTyped' /\ \A x \in Visits : AtWork(x)' => visit'[x] = visit[x]
    BY <2>1, <1>t DEF ToolsTyped, AtWork, Away
  <2> QED
    BY <2>1, <2>2, NothingStored
<1>6. ASSUME NEW v \in Visits, NEW mark, NEW score,
             ReadMark(v, mark, score)
      PROVE  ToolInv'
  <2> DEFINE new == [pc |-> "mark", mark |-> mark, read |-> marks[mark], score |-> score]
  <2>1. new.pc = "mark"
    OBVIOUS
  <2>2. visit' = [visit EXCEPT ![v] = new] /\ UNCHANGED <<text, cached, served, met>>
    BY <1>6 DEF ReadMark
  <2> HIDE DEF new
  <2>3. ToolsTyped' /\ \A x \in Visits : AtWork(x)' => visit'[x] = visit[x]
    BY <2>1, <2>2, <1>t DEF ToolsTyped, AtWork
  <2> QED
    BY <2>2, <2>3, NothingStored
<1>7. ASSUME NEW v \in Visits, WriteMark(v) PROVE ToolInv'
  <2>1. visit' = [visit EXCEPT ![v] = Away] /\ UNCHANGED <<text, cached, served, met>>
    BY <1>7 DEF WriteMark
  <2>2. ToolsTyped' /\ \A x \in Visits : AtWork(x)' => visit'[x] = visit[x]
    BY <2>1, <1>t DEF ToolsTyped, AtWork, Away
  <2> QED
    BY <2>1, <2>2, NothingStored
<1>8. ASSUME \/ EditLesson \/ AnswerQuiz \/ WriteNote \/ DeleteNote
             \/ \E on \in BOOLEAN : Bookmark(on)
      PROVE  ToolInv'
  <2>1. /\ text' \in Nat /\ UNCHANGED <<cached, visit, served, met>>
    BY <1>8, <1>t DEF EditLesson, AnswerQuiz, WriteNote, DeleteNote, Bookmark, ToolsTyped
  <2>2. ToolsTyped'
    BY <2>1, <1>t DEF ToolsTyped
  <2> QED
    BY <2>1, <2>2, NothingStored
<1>9. ASSUME UNCHANGED toolVars PROVE ToolInv'
  BY <1>9
  DEF toolVars, ToolInv, ToolsTyped, Undivided, StoredStays, ServedIsCurrent, AtWork
<1> QED
  BY <1>1, <1>2, <1>3, <1>4, <1>5, <1>6, <1>7, <1>8, <1>9 DEF ToolNext

(* Visits and rows stay as ToolInv has it.                                 *)
THEOREM ToolInvariant == ToolSpec => []ToolInv
  BY InitTools, NextTools, PTL DEF ToolSpec

(* A page is not older than the text it was asked for, for any number of   *)
(* kinds, edits and visits.                                                *)
THEOREM NeverStale == ToolSpec => []ServedIsCurrent
<1>1. ToolInv => ServedIsCurrent
  BY DEF ToolInv
<1> QED
  BY <1>1, ToolInvariant, PTL

-----------------------------------------------------------------------------
Records == [parts : Int, gain : Int, behind : Int, tp1 : BOOLEAN, cut : BOOLEAN]
Positions ==
  [open : {TRUE}, long : BOOLEAN, entry : Int, stop : Int, first : Int, setup : Setups,
   legs : SUBSET {1, 2}, target : Int, trailing : BOOLEAN, peak : Int,
   left : Nat, parts : Nat, gain : Int, behind : Int, tp1 : Int, lot : Nat, at : Nat, close : Int,
   fresh : BOOLEAN, mode : {"fixed", "step_down"}]

(* What the ladder of an open position is worth whenever a bar is over:    *)
(* nothing of it is lost, what was taken has cost no more than targets the *)
(* fill was beyond, and once the first target is taken the stop is in      *)
(* profit, and with it, a bar later, the close.                            *)
InProfit(pos, price) == Gain(pos, price) >= 0
SoundPosition(pos) ==
  /\ pos \in Positions
  /\ pos.parts + pos.left = Whole
  /\ pos.gain >= pos.behind
  /\ pos.legs \subseteq Configured(pos.setup)
  /\ pos.tp1 # 0 => InProfit(pos, pos.stop)
  /\ pos.tp1 # 0 /\ ~pos.fresh => InProfit(pos, pos.close)

ReplayInv ==
  /\ position \in [Participants -> Positions \cup {NoPosition}]
  /\ bars \in [Participants -> Nat]
  /\ \A p \in Participants : position[p].open => SoundPosition(position[p])
  /\ closedTrade \in Records
  /\ LadderKeepsItsWord

GoodTrade(t) == /\ t \in Records /\ t.parts = Whole
                /\ t.tp1 => t.gain >= t.behind \/ t.cut

-----------------------------------------------------------------------------
(* Arithmetic the ladder rests on: a share of what is left is no more than *)
(* what is left, and a product of two amounts is an amount.                *)
LEMMA Products == ASSUME NEW a \in Nat, NEW b \in Int, b >= 0 PROVE a * b \in Nat
  OBVIOUS

LEMMA Shares ==
  ASSUME NEW left \in Nat, NEW w \in Nat, NEW t \in Nat, t > 0, w <= t
  PROVE  (left * w) \div t \in 0..left
  <1> DEFINE q == (left * w) \div t
  <1>1. left * w \in Nat BY Products
  <1>2. left * w <= left * t
    <2>1. left * (t - w) \in Nat BY Products
    <2> QED BY <2>1
  <1>3. q \in Int /\ q * t <= left * w /\ left * w < q * t + t BY <1>1
  <1>4. q >= 0
    <2>1. SUFFICES ASSUME q <= -1 PROVE FALSE BY <1>3
    <2>2. (-1 - q) * t \in Nat BY <2>1, <1>3, Products
    <2>3. q * t <= -t BY <2>2, <1>3
    <2> QED BY <2>3, <1>3, <1>1
  <1>5. q <= left
    <2>1. SUFFICES ASSUME q >= left + 1 PROVE FALSE BY <1>3
    <2>2. t * (q - left - 1) \in Nat BY <2>1, <1>3, Products
    <2>3. q * t >= left * t + t BY <2>2, <1>3
    <2> QED BY <2>3, <1>3, <1>2
  <1> QED BY <1>3, <1>4, <1>5

LEMMA MaxOfTwo == ASSUME NEW a \in Int, NEW b \in Int
                  PROVE  Max({a, b}) \in {a, b} /\ Max({a, b}) >= a /\ Max({a, b}) >= b
  <1>1. \E x \in {a, b} : \A y \in {a, b} : x >= y
    <2>1. CASE a >= b BY <2>1
    <2>2. CASE b >= a BY <2>2
    <2> QED BY <2>1, <2>2
  <1> QED BY <1>1 DEF Max

LEMMA MinOfTwo == ASSUME NEW a \in Int, NEW b \in Int
                  PROVE  Min({a, b}) \in {a, b} /\ Min({a, b}) <= a /\ Min({a, b}) <= b
  <1>1. \E x \in {a, b} : \A y \in {a, b} : x <= y
    <2>1. CASE a <= b BY <2>1
    <2>2. CASE b <= a BY <2>2
    <2> QED BY <2>1, <2>2
  <1> QED BY <1>1 DEF Min

LEMMA BetterOfTwo ==
  ASSUME NEW pos \in Positions, NEW a \in Int, NEW b \in Int
  PROVE  /\ Better(pos, a, b) \in {a, b}
         /\ Gain(pos, Better(pos, a, b)) >= Gain(pos, a)
         /\ Gain(pos, Better(pos, a, b)) >= Gain(pos, b)
  <1> DEFINE higher == Max({a, b})
             lower == Min({a, b})
  <1>1. higher \in {a, b} /\ higher >= a /\ higher >= b /\ higher \in Int BY MaxOfTwo
  <1>2. lower \in {a, b} /\ lower <= a /\ lower <= b /\ lower \in Int BY MinOfTwo
  <1>3. Better(pos, a, b) = IF pos.long THEN higher ELSE lower BY DEF Better
  <1>4. pos.entry \in Int /\ pos.first \in Int /\ pos.long \in BOOLEAN BY DEF Positions
  <1> HIDE DEF higher, lower
  <1>5. CASE pos.long BY <1>1, <1>3, <1>4, <1>5 DEF Gain
  <1>6. CASE ~pos.long BY <1>2, <1>3, <1>4, <1>6 DEF Gain
  <1> QED BY <1>5, <1>6

LEMMA LowestLeg == ASSUME NEW legs \in SUBSET {1, 2}, legs # {} PROVE Min(legs) \in legs
  <1>1. \E x \in legs : \A y \in legs : x <= y
    <2>1. CASE 1 \in legs BY <2>1
    <2>2. CASE 1 \notin legs
      <3>1. legs = {2} BY <2>2
      <3> QED BY <3>1
    <2> QED BY <2>1, <2>2
  <1> QED BY <1>1 DEF Min

LEMMA HighestLevel == ASSUME NEW levels \in SUBSET (1..3), levels # {}
                      PROVE  Max(levels) \in levels /\ \A l \in levels : l <= Max(levels)
  <1>1. \E x \in levels : \A y \in levels : x >= y
    <2>1. CASE 3 \in levels BY <2>1
    <2>2. CASE 3 \notin levels /\ 2 \in levels
      <3>1. levels \subseteq {1, 2} BY <2>2
      <3> QED BY <3>1, <2>2
    <2>3. CASE 3 \notin levels /\ 2 \notin levels
      <3>1. \A l \in levels : l = 1
        <4>1. \A l \in 1..3 : l = 1 \/ l = 2 \/ l = 3 OBVIOUS
        <4> QED BY <4>1, <2>3
      <3>2. PICK x \in levels : x = 1 BY <3>1
      <3>3. \A y \in levels : x >= y BY <3>1, <3>2
      <3> QED BY <3>2, <3>3
    <2> QED BY <2>1, <2>2, <2>3
  <1>2. \A y \in levels : Max(levels) \in levels /\ Max(levels) >= y BY <1>1 DEF Max
  <1> QED BY <1>2

(* A leg closes a part of what is left, whichever percents are configured. *)
LEMMA LegIsPart ==
  ASSUME NEW setup \in Setups, NEW level \in Configured(setup), NEW left \in Nat
  PROVE  LegPart(setup, level, left) \in 0..left
  <1>1. /\ setup.tps \in [1..3 -> Int] /\ setup.pct \in [1..3 -> Nat]
        /\ level \in 1..3 /\ setup.tps[level] # 0
    BY SetupsArePriced DEF Configured
  <1> DEFINE Even == <<1, 1, 1>>
             asked == Weights(setup, level, setup.pct)
             even == Weights(setup, level, Even)
  <1>2. Even[1] = 1 /\ Even[2] = 1 /\ Even[3] = 1 OBVIOUS
  <1>3. asked \in [1..3 -> Nat] BY <1>1 DEF Weights
  <1>4. /\ asked[level] \in Nat /\ Total(asked) \in Nat /\ asked[level] <= Total(asked)
    BY <1>3, <1>1 DEF Total
  <1>5. \A l \in 1..3 : Even[l] = 1
    <2>1. \A l \in 1..3 : l = 1 \/ l = 2 \/ l = 3 OBVIOUS
    <2> QED BY <2>1, <1>2
  <1>6. even \in [1..3 -> Nat] /\ even[level] = 1 BY <1>1, <1>5 DEF Weights
  <1>7. /\ Total(even) \in Nat /\ even[level] <= Total(even) /\ Total(even) > 0
    BY <1>6, <1>1 DEF Total
  <1>8. CASE Total(asked) > 0
    <2>1. LegPart(setup, level, left) = (left * asked[level]) \div Total(asked)
      BY <1>8 DEF LegPart
    <2>2. (left * asked[level]) \div Total(asked) \in 0..left BY <1>4, <1>8, Shares
    <2> QED BY <2>1, <2>2
  <1>9. CASE ~(Total(asked) > 0)
    <2>1. LegPart(setup, level, left) = (left * even[level]) \div Total(even)
      BY <1>9 DEF LegPart
    <2>2. (left * even[level]) \div Total(even) \in 0..left BY <1>6, <1>7, Shares
    <2> QED BY <2>1, <2>2
  <1> QED BY <1>8, <1>9

LEMMA TrailIsPrice == ASSUME NEW pos \in Positions, NEW peak \in Int
                      PROVE  TrailFrom(pos, peak) \in Int
  <1> DEFINE risk == Distance(pos.entry, pos.first)
             far == Distance(peak, pos.entry) - risk
             beyond == Max({0, far})
             narrow == Max({4 * risk, 10 * risk - 3 * beyond})
  <1>1. risk \in Int /\ far \in Int BY DEF Distance, Positions
  <1>2. beyond \in Int
    <2> HIDE DEF risk, far
    <2>1. 0 \in Int /\ far \in Int BY <1>1
    <2>2. Max({0, far}) \in {0, far} BY <2>1, MaxOfTwo
    <2> QED BY <2>1, <2>2
  <1>3. narrow \in Int
    <2> HIDE DEF risk, beyond
    <2> DEFINE x == 4 * risk
               y == 10 * risk - 3 * beyond
    <2>1. x \in Int /\ y \in Int BY <1>1, <1>2
    <2>2. Max({x, y}) \in {x, y} BY <2>1, MaxOfTwo
    <2> QED BY <2>1, <2>2
  <1>4. narrow \div 10 \in Int BY <1>3
  <1> HIDE DEF risk, beyond, narrow
  <1>5. pos.first \in Int BY DEF Positions
  <1>6. TrailFrom(pos, peak) =
          IF risk = 0 THEN pos.first
          ELSE IF pos.long THEN peak - (IF pos.mode = "step_down" THEN narrow \div 10 ELSE risk)
               ELSE peak + (IF pos.mode = "step_down" THEN narrow \div 10 ELSE risk)
    BY DEF TrailFrom, risk, beyond, narrow
  <1> QED BY <1>1, <1>4, <1>5, <1>6

-----------------------------------------------------------------------------
(* The pieces of a bar.  A part taken at a target adds to the gain no less *)
(* than it adds to what targets cost.                                      *)
LEMMA TargetsCost ==
  ASSUME NEW pos \in Positions, NEW price \in Int, NEW part \in Nat
  PROVE  /\ part * Gain(pos, price) \in Int /\ LostAt(pos, part, price) \in Int
         /\ part * Gain(pos, price) >= LostAt(pos, part, price)
  <1>1. Gain(pos, price) \in Int BY DEF Gain, Positions
  <1>2. CASE Gain(pos, price) < 0 BY <1>1, <1>2 DEF LostAt
  <1>3. CASE Gain(pos, price) >= 0
    <2>1. part * Gain(pos, price) \in Nat BY <1>1, <1>3, Products
    <2>2. LostAt(pos, part, price) = 0 BY <1>1, <1>3 DEF LostAt
    <2> QED BY <2>1, <2>2
  <1> QED BY <1>1, <1>2, <1>3

(* What closes in profit closes soundly...                                 *)
LEMMA ClosesSound ==
  ASSUME NEW pos, SoundPosition(pos), NEW price \in Int, NEW cut \in BOOLEAN,
         pos.tp1 # 0 => InProfit(pos, price) \/ pos.left = 0 \/ cut
  PROVE  GoodTrade(CloseAt(pos, price, cut))
  <1>1. /\ pos \in Positions /\ pos.parts + pos.left = Whole /\ pos.gain >= pos.behind
    BY DEF SoundPosition
  <1>2. Gain(pos, price) \in Int BY <1>1 DEF Gain, Positions
  <1> DEFINE more == pos.left * Gain(pos, price)
  <1>3. more \in Int BY <1>1, <1>2 DEF Positions
  <1>4. InProfit(pos, price) \/ pos.left = 0 => more >= 0
    <2>1. CASE InProfit(pos, price)
      BY <2>1, <1>1, <1>2, Products DEF InProfit, Positions
    <2>2. CASE pos.left = 0 BY <2>2, <1>2
    <2> QED BY <2>1, <2>2
  <1> HIDE DEF more
  <1>5. CloseAt(pos, price, cut) = [parts |-> pos.parts + pos.left, tp1 |-> pos.tp1 # 0,
                                    cut |-> cut, gain |-> pos.gain + more, behind |-> pos.behind]
    BY DEF CloseAt, more
  <1>6. pos.tp1 # 0 => pos.gain + more >= pos.behind \/ cut
    BY <1>1, <1>3, <1>4 DEF Positions
  <1>7. (pos.tp1 # 0) \in BOOLEAN OBVIOUS
  <1> QED BY <1>1, <1>3, <1>5, <1>6, <1>7 DEF GoodTrade, Records, Positions

(* ... and so does what closes at its target, wherever that is.            *)
LEMMA TargetClosesSound ==
  ASSUME NEW pos, SoundPosition(pos), NEW price \in Int
  PROVE  GoodTrade(CloseAt([pos EXCEPT !.behind = @ + LostAt(pos, pos.left, price)], price, FALSE))
  <1>1. /\ pos \in Positions /\ pos.parts + pos.left = Whole /\ pos.gain >= pos.behind
        /\ pos.left \in Nat /\ pos.parts \in Nat /\ pos.gain \in Int /\ pos.behind \in Int
    BY DEF SoundPosition, Positions
  <1> DEFINE cost == LostAt(pos, pos.left, price)
             more == pos.left * Gain(pos, price)
             after == [pos EXCEPT !.behind = @ + LostAt(pos, pos.left, price)]
  <1>2. more \in Int /\ cost \in Int /\ more >= cost BY <1>1, TargetsCost
  <1>3. /\ after.parts = pos.parts /\ after.left = pos.left /\ after.gain = pos.gain
        /\ after.tp1 = pos.tp1 /\ after.behind = pos.behind + cost
        /\ after.entry = pos.entry /\ after.first = pos.first /\ after.long = pos.long
    BY <1>1 DEF Positions
  <1>4. after.left * Gain(after, price) = more BY <1>3 DEF Gain
  <1> HIDE DEF cost, more, after
  <1>5. CloseAt(after, price, FALSE) =
          [parts |-> pos.parts + pos.left, tp1 |-> pos.tp1 # 0, cut |-> FALSE,
           gain |-> pos.gain + more, behind |-> pos.behind + cost]
    BY <1>3, <1>4 DEF CloseAt
  <1>6. (pos.tp1 # 0) \in BOOLEAN OBVIOUS
  <1>7. pos.gain + more \in Int /\ pos.behind + cost \in Int /\ pos.parts + pos.left \in Int
        /\ pos.gain + more >= pos.behind + cost
    BY <1>1, <1>2
  <1>8. ASSUME NEW g \in Int, NEW b \in Int, NEW n \in Int, NEW t \in BOOLEAN,
               g >= b, n = Whole
        PROVE  GoodTrade([parts |-> n, tp1 |-> t, cut |-> FALSE, gain |-> g, behind |-> b])
    BY <1>8 DEF GoodTrade, Records
  <1>9. GoodTrade(CloseAt(after, price, FALSE)) BY <1>1, <1>5, <1>6, <1>7, <1>8
  <1> QED BY <1>9 DEF after

LEMMA LegKeepsSound ==
  ASSUME NEW pos, SoundPosition(pos), NEW level \in pos.legs, ~pos.fresh
  PROVE  SoundPosition(TakeLeg(pos, level))
  <1> DEFINE setup == pos.setup
             price == setup.tps[level]
             part == LegPart(setup, level, pos.left)
             trails == setup.activation = level
             earned == part * Gain(pos, price)
             cost == LostAt(pos, part, price)
             ratchet == Ratchet(pos, level)
             after == TakeLeg(pos, level)
  <1>1. /\ pos \in Positions /\ pos.parts + pos.left = Whole /\ pos.gain >= pos.behind
        /\ level \in Configured(setup) /\ level \in {1, 2} /\ setup \in Setups
        /\ pos.tp1 # 0 => InProfit(pos, pos.stop)
    BY DEF SoundPosition, Positions
  <1>2. /\ price \in Int /\ price # 0 BY <1>1, SetupsArePriced DEF Configured
  <1>3. part \in 0..pos.left BY <1>1, LegIsPart DEF Positions
  <1>5. earned \in Int /\ cost \in Int /\ earned >= cost
    <2>1. part \in Nat BY <1>3, <1>1 DEF Positions
    <2> QED BY <2>1, <1>1, <1>2, TargetsCost
  <1>6. /\ ratchet \in Int
        /\ level = 1 \/ pos.tp1 # 0 => InProfit(pos, ratchet)
    <2>1. CASE level = 1
      <3>1. pos.stop \in Int /\ pos.entry \in Int BY <1>1 DEF Positions
      <3>2. ratchet = Better(pos, pos.stop, pos.entry) BY <2>1 DEF Ratchet
      <3>3. Gain(pos, pos.entry) = 0 BY <3>1 DEF Gain
      <3>4. Better(pos, pos.stop, pos.entry) \in {pos.stop, pos.entry}
            /\ Gain(pos, Better(pos, pos.stop, pos.entry)) >= Gain(pos, pos.entry)
        BY <3>1, <1>1, BetterOfTwo
      <3> QED BY <3>1, <3>2, <3>3, <3>4 DEF InProfit
    <2>2. CASE level # 1
      <3>1. pos.stop \in Int /\ pos.tp1 \in Int BY <1>1 DEF Positions
      <3>2. CASE pos.tp1 # 0
        <4>1. ratchet = Better(pos, pos.stop, pos.tp1) BY <2>2, <3>2, <1>1 DEF Ratchet
        <4>2. Better(pos, pos.stop, pos.tp1) \in {pos.stop, pos.tp1}
              /\ Gain(pos, Better(pos, pos.stop, pos.tp1)) >= Gain(pos, pos.stop)
          BY <3>1, <1>1, BetterOfTwo
        <4>3. ratchet \in Int BY <4>1, <4>2, <3>1
        <4>4. Gain(pos, ratchet) \in Int /\ Gain(pos, pos.stop) \in Int
          BY <4>3, <3>1, <1>1 DEF Gain, Positions
        <4> QED BY <4>1, <4>2, <4>3, <4>4, <3>2, <1>1 DEF InProfit
      <3>3. CASE pos.tp1 = 0 BY <2>2, <3>3, <3>1 DEF Ratchet
      <3> QED BY <3>2, <3>3
    <2> QED BY <2>1, <2>2
  <1> HIDE DEF part, earned, cost, ratchet, price, trails
  <1>7. after = [pos EXCEPT !.legs = @ \ {level}, !.left = @ - part, !.parts = @ + part,
                 !.gain = @ + earned, !.behind = @ + cost, !.stop = ratchet,
                 !.tp1 = IF level = 1 THEN price ELSE @, !.fresh = level = 1,
                 !.trailing = trails, !.peak = IF trails THEN price ELSE @]
    BY DEF TakeLeg, part, earned, cost, ratchet, price, trails
  <1>8. trails \in BOOLEAN /\ (level = 1) \in BOOLEAN BY DEF trails
  <1>9. after \in Positions
    <2> DEFINE legs == pos.legs \ {level}
               left == pos.left - part
               parts == pos.parts + part
               gain == pos.gain + earned
               behind == pos.behind + cost
               tp1 == IF level = 1 THEN price ELSE pos.tp1
               fresh == level = 1
               peak == IF trails THEN price ELSE pos.peak
    <2>1. legs \in SUBSET {1, 2} /\ left \in Nat /\ parts \in Nat
      BY <1>1, <1>3 DEF Positions
    <2>2. gain \in Int /\ behind \in Int /\ tp1 \in Int /\ peak \in Int /\ fresh \in BOOLEAN
      BY <1>1, <1>2, <1>5 DEF Positions
    <2>3. after = [pos EXCEPT !.legs = legs, !.left = left, !.parts = parts, !.gain = gain,
                              !.behind = behind, !.stop = ratchet, !.tp1 = tp1, !.fresh = fresh,
                              !.trailing = trails, !.peak = peak]
      BY <1>7, <1>1 DEF Positions
    <2> HIDE DEF legs, left, parts, gain, behind, tp1, fresh, peak, after
    <2> QED BY <2>1, <2>2, <2>3, <1>1, <1>6, <1>8 DEF Positions
  <1>10. /\ after.parts = pos.parts + part /\ after.left = pos.left - part
         /\ after.gain = pos.gain + earned /\ after.behind = pos.behind + cost
         /\ after.stop = ratchet /\ after.legs = pos.legs \ {level}
         /\ after.tp1 = (IF level = 1 THEN price ELSE pos.tp1) /\ after.fresh = (level = 1)
         /\ after.close = pos.close /\ after.setup = setup
         /\ after.entry = pos.entry /\ after.first = pos.first /\ after.long = pos.long
    BY <1>1, <1>7 DEF Positions
  <1>11. \A x : Gain(after, x) = Gain(pos, x) BY <1>10 DEF Gain
  <1> HIDE DEF after
  <1>12. after.parts + after.left = Whole /\ after.gain >= after.behind
    BY <1>1, <1>3, <1>5, <1>10 DEF Positions
  <1>13. after.legs \subseteq Configured(after.setup) BY <1>10 DEF SoundPosition
  <1>15. after.tp1 # 0 => InProfit(after, after.stop)
    BY <1>2, <1>6, <1>10, <1>11 DEF InProfit
  <1>16. after.tp1 # 0 /\ ~after.fresh => InProfit(after, after.close)
    <2>1. pos.tp1 # 0 => InProfit(pos, pos.close) BY DEF SoundPosition
    <2>2. Gain(after, after.close) = Gain(pos, pos.close) BY <1>10, <1>11
    <2>3. ~after.fresh => after.tp1 = pos.tp1 BY <1>10
    <2> QED BY <2>1, <2>2, <2>3 DEF InProfit
  <1> QED BY <1>9, <1>12, <1>13, <1>15, <1>16 DEF SoundPosition, after

(* A bar whose unfavourable extreme spared the stop closed beyond it.      *)
LEMMA BarKeepsSound ==
  ASSUME NEW before, SoundPosition(before), NEW bar \in BarShapes,
         ~StopHit(before, before.stop, bar)
  PROVE  SoundPosition([before EXCEPT !.close = bar.close, !.fresh = FALSE])
  <1> DEFINE pos == [before EXCEPT !.close = bar.close, !.fresh = FALSE]
  <1>1. before \in Positions BY DEF SoundPosition
  <1>2. /\ bar.low \in Int /\ bar.high \in Int /\ bar.close \in Int
        /\ bar.low <= bar.close /\ bar.close <= bar.high
    BY BarsAreBars
  <1>3. pos \in Positions BY <1>1, <1>2 DEF Positions
  <1>4. /\ pos.parts = before.parts /\ pos.left = before.left /\ pos.gain = before.gain
        /\ pos.behind = before.behind /\ pos.legs = before.legs /\ pos.setup = before.setup
        /\ pos.tp1 = before.tp1 /\ pos.stop = before.stop /\ pos.close = bar.close
        /\ pos.entry = before.entry /\ pos.first = before.first /\ pos.long = before.long
    BY <1>1 DEF Positions
  <1>5. \A x : Gain(pos, x) = Gain(before, x) BY <1>4 DEF Gain
  <1>6. InProfit(before, before.stop) => InProfit(before, bar.close)
    <2>1. before.stop \in Int /\ before.entry \in Int /\ before.first \in Int
      BY <1>1 DEF Positions
    <2> QED BY <2>1, <1>2 DEF InProfit, Gain, StopHit
  <1> HIDE DEF pos
  <1> QED BY <1>3, <1>4, <1>5, <1>6 DEF SoundPosition, InProfit, pos

LEMMA WalkKeepsSound ==
  ASSUME NEW before, SoundPosition(before), NEW bar \in BarShapes
  PROVE  LET step == Walked(before, bar)
         IN \/ step.closed /\ GoodTrade(step.trade)
            \/ ~step.closed /\ SoundPosition(step.pos) /\ step.pos.close = bar.close
  <1> DEFINE pos == [before EXCEPT !.close = bar.close, !.fresh = FALSE]
             step == Walked(before, bar)
             Walks(s) == \/ s.closed /\ GoodTrade(s.trade)
                         \/ ~s.closed /\ SoundPosition(s.pos) /\ s.pos.close = bar.close
  <1> SUFFICES Walks(step) OBVIOUS
  <1>1. /\ before \in Positions /\ before.stop \in Int
        /\ before.tp1 # 0 => InProfit(before, before.stop)
    BY DEF SoundPosition, Positions
  <1>2. /\ bar.low \in Int /\ bar.high \in Int /\ bar.close \in Int BY BarsAreBars
  <1>3. /\ pos.stop = before.stop /\ pos.entry = before.entry /\ pos.long = before.long
        /\ pos.first = before.first /\ pos.behind = before.behind
        /\ pos.parts = before.parts /\ pos.left = before.left /\ pos.gain = before.gain
        /\ pos.tp1 = before.tp1 /\ pos.close = bar.close /\ pos.fresh = FALSE
    BY <1>1 DEF Positions
  <1>4. \A p, x : Closes(p, x).closed /\ Closes(p, x).trade = CloseAt(p, x, FALSE)
    BY DEF Closes
  <1>5. \A p : ~Stays(p).closed /\ Stays(p).pos = p BY DEF Stays
  <1>6. CASE StopHit(before, before.stop, bar)
    <2>1. StopHit(pos, pos.stop, bar) BY <1>3, <1>6 DEF StopHit
    <2>2. step = Closes(pos, pos.stop) BY <2>1 DEF Walked
    <2>3. CloseAt(pos, pos.stop, FALSE) = CloseAt(before, before.stop, FALSE)
      BY <1>3 DEF CloseAt, Gain
    <2>4. GoodTrade(CloseAt(before, before.stop, FALSE)) BY <1>1, ClosesSound
    <2> QED BY <2>2, <2>3, <2>4, <1>4
  <1>7. CASE ~StopHit(before, before.stop, bar)
    <2>1. SoundPosition(pos) BY <1>7, BarKeepsSound
    <2>2. ~StopHit(pos, pos.stop, bar) BY <1>3, <1>7 DEF StopHit
    <2>3. pos \in Positions /\ (pos.tp1 # 0 => InProfit(pos, pos.stop))
      BY <2>1 DEF SoundPosition
    <2> HIDE DEF pos
    <2>4. CASE pos.trailing
      <3> DEFINE peak == Better(pos, pos.peak, IF pos.long THEN bar.high ELSE bar.low)
                 trail == TrailFrom(pos, peak)
      <3>1. peak \in Int
        <4>1. pos.peak \in Int /\ (IF pos.long THEN bar.high ELSE bar.low) \in Int
          BY <2>3, <1>2 DEF Positions
        <4>2. peak \in {pos.peak, IF pos.long THEN bar.high ELSE bar.low}
          BY <4>1, <2>3, BetterOfTwo
        <4> QED BY <4>1, <4>2
      <3>2. trail \in Int BY <3>1, <2>3, TrailIsPrice
      <3> HIDE DEF peak, trail
      <3>3. step = IF StopHit(pos, trail, bar) THEN Closes(pos, trail)
                   ELSE Stays([pos EXCEPT !.peak = peak])
        BY <2>2, <2>4 DEF Walked, Trailed, pos, peak, trail
      <3>4. CASE StopHit(pos, trail, bar)
        <4>1. Gain(pos, trail) >= Gain(pos, pos.stop)
          <5>1. pos.stop \in Int /\ pos.entry \in Int /\ pos.first \in Int
            BY <2>3 DEF Positions
          <5> QED BY <5>1, <3>4, <2>2, <3>2, <1>2 DEF Gain, StopHit
        <4>2. Gain(pos, trail) \in Int /\ Gain(pos, pos.stop) \in Int
          BY <3>2, <2>3 DEF Gain, Positions
        <4>3. pos.tp1 # 0 => InProfit(pos, trail) BY <4>1, <4>2, <2>3 DEF InProfit
        <4>4. GoodTrade(CloseAt(pos, trail, FALSE)) BY <4>3, <2>1, <3>2, ClosesSound
        <4> QED BY <4>4, <3>3, <3>4, <1>4
      <3>5. CASE ~StopHit(pos, trail, bar)
        <4> DEFINE new == [pos EXCEPT !.peak = peak]
        <4>1. new \in Positions BY <3>1, <2>3 DEF Positions
        <4>2. /\ new.parts = pos.parts /\ new.left = pos.left /\ new.gain = pos.gain
              /\ new.legs = pos.legs /\ new.setup = pos.setup /\ new.behind = pos.behind
              /\ new.tp1 = pos.tp1 /\ new.stop = pos.stop /\ new.close = pos.close
              /\ new.entry = pos.entry /\ new.first = pos.first
              /\ new.long = pos.long /\ new.fresh = pos.fresh
          BY <2>3 DEF Positions
        <4>3. \A x : Gain(new, x) = Gain(pos, x) BY <4>2 DEF Gain
        <4>4. step = Stays(new) BY <3>3, <3>5
        <4> HIDE DEF new
        <4>5. SoundPosition(new) BY <4>1, <4>2, <4>3, <2>1 DEF SoundPosition, InProfit
        <4> QED BY <4>4, <4>5, <4>2, <1>3, <1>5 DEF pos
      <3> QED BY <3>4, <3>5
    <2>5. CASE ~pos.trailing /\ pos.legs = {}
      <3> DEFINE after == [pos EXCEPT !.behind = @ + LostAt(pos, pos.left, pos.target)]
      <3>1. step = IF TargetHit(pos, pos.target, bar) THEN Closes(after, pos.target) ELSE Stays(pos)
        BY <2>2, <2>5 DEF Walked, Reached, pos
      <3>2. pos.target \in Int BY <2>3 DEF Positions
      <3>3. GoodTrade(CloseAt(after, pos.target, FALSE)) BY <3>2, <2>1, TargetClosesSound
      <3>4. pos.close = bar.close BY <1>3
      <3> HIDE DEF after
      <3>5. CASE TargetHit(pos, pos.target, bar) BY <3>1, <3>3, <3>5, <1>4
      <3>6. CASE ~TargetHit(pos, pos.target, bar) BY <3>1, <3>4, <3>6, <2>1, <1>5
      <3> QED BY <3>5, <3>6
    <2>6. CASE ~pos.trailing /\ pos.legs # {}
      <3> DEFINE level == Min(pos.legs)
                 after == TakeLeg(pos, level)
      <3>1. level \in pos.legs BY <2>3, <2>6, LowestLeg DEF Positions
      <3>2. pos.fresh = FALSE /\ pos.close = bar.close BY <1>3 DEF pos
      <3> HIDE DEF level
      <3>3. SoundPosition(after) BY <3>1, <3>2, <2>1, LegKeepsSound
      <3>4. after.close = bar.close BY <2>3, <3>2 DEF TakeLeg, Positions
      <3>5. step = IF ~TargetHit(pos, pos.setup.tps[level], bar) THEN Stays(pos)
                   ELSE IF after.left = 0 THEN Closes(after, 0) ELSE Stays(after)
        BY <2>2, <2>6 DEF Walked, Reached, pos, level
      <3> HIDE DEF after
      <3>6. ASSUME after.left = 0 PROVE GoodTrade(CloseAt(after, 0, FALSE))
        <4>1. 0 \in Int /\ FALSE \in BOOLEAN OBVIOUS
        <4> QED BY <4>1, <3>3, <3>6, ClosesSound
      <3> QED BY <3>2, <3>3, <3>4, <3>5, <3>6, <2>1, <1>4, <1>5
    <2> QED BY <2>4, <2>5, <2>6
  <1> QED BY <1>6, <1>7

-----------------------------------------------------------------------------
LEMMA ReplayStarts == ReplayInit => ReplayInv
  BY RunsHaveBars DEF ReplayInit, ReplayInv, NoPosition, NoTrade, Records, LadderKeepsItsWord, Whole

LEMMA SettleKeeps ==
  ASSUME ReplayInv, NEW p \in Participants, NEW trade, GoodTrade(trade), Settle(p, trade),
         bars' \in [Participants -> Nat]
  PROVE  ReplayInv'
  BY DEF ReplayInv, GoodTrade, Settle, NoPosition, LadderKeepsItsWord

LEMMA AdvanceKeeps ==
  ASSUME ReplayInv, NEW p \in Participants, NEW bar \in BarShapes, AdvanceOpen(p, bar)
  PROVE  ReplayInv'
  <1> DEFINE step == Walked(position[p], bar)
             held == bars[p] - position[p].at
  <1>1. SoundPosition(position[p]) BY DEF ReplayInv, AdvanceOpen
  <1>2. \/ step.closed /\ GoodTrade(step.trade)
        \/ ~step.closed /\ SoundPosition(step.pos) /\ step.pos.close = bar.close
    BY <1>1, WalkKeepsSound
  <1>3. bars' \in [Participants -> Nat] BY DEF ReplayInv, AdvanceOpen
  <1>4. CASE step.closed
    <2>1. Settle(p, step.trade) BY <1>4 DEF AdvanceOpen
    <2> QED BY <1>2, <1>3, <1>4, <2>1, SettleKeeps
  <1>5. CASE ~step.closed /\ held >= MaxHold
    <2>1. Settle(p, CloseAt(step.pos, bar.close, step.pos.fresh)) BY <1>5 DEF AdvanceOpen
    <2>2. SoundPosition(step.pos) /\ step.pos.close = bar.close BY <1>2, <1>5
    <2> HIDE DEF step
    <2>3. bar.close \in Int /\ step.pos.fresh \in BOOLEAN
      BY <2>2, BarsAreBars DEF SoundPosition, Positions
    <2>4. step.pos.tp1 # 0 => InProfit(step.pos, bar.close) \/ step.pos.fresh
      BY <2>2, <2>3 DEF SoundPosition
    <2>5. GoodTrade(CloseAt(step.pos, bar.close, step.pos.fresh))
      BY <2>2, <2>3, <2>4, ClosesSound
    <2> QED BY <2>1, <2>5, <1>3, SettleKeeps
  <1>6. CASE ~step.closed /\ ~(held >= MaxHold)
    <2>1. /\ position' = [position EXCEPT ![p] = step.pos] /\ UNCHANGED closedTrade
      BY <1>6 DEF AdvanceOpen
    <2>2. SoundPosition(step.pos) BY <1>2, <1>6
    <2> HIDE DEF step
    <2>3. step.pos \in Positions BY <2>2 DEF SoundPosition
    <2> QED BY <2>1, <2>2, <2>3, <1>3 DEF ReplayInv, LadderKeepsItsWord
  <1> QED BY <1>4, <1>5, <1>6

LEMMA EntryIsSound ==
  ASSUME ReplayInv, NEW p \in Participants, NEW bar \in BarShapes, NEW setup \in Setups,
         EnterAtClose(p, bar, setup)
  PROVE  SoundPosition(Entered(p, setup, bar))
  <1> DEFINE levels == Configured(setup)
             legs == IF levels = {} THEN {} ELSE levels \ {Max(levels)}
             target == IF levels = {} THEN setup.stop ELSE setup.tps[Max(levels)]
             mode == IF shared THEN "fixed" ELSE setup.mode
             pos == Entered(p, setup, bar)
  <1>1. /\ setup.long \in BOOLEAN /\ setup.stop \in Int /\ setup.tps \in [1..3 -> Int]
        /\ setup.lot \in Nat /\ setup.mode \in {"fixed", "step_down"}
    BY SetupsArePriced
  <1>2. bar.close \in Int BY BarsAreBars
  <1>3. bars[p] \in Nat BY DEF ReplayInv
  <1>4. levels \in SUBSET (1..3) BY DEF Configured
  <1>5. legs \in SUBSET {1, 2} /\ legs \subseteq levels
    <2>1. CASE levels = {} BY <2>1
    <2>2. CASE levels # {}
      <3>1. Max(levels) \in levels /\ \A l \in levels : l <= Max(levels)
        BY <1>4, <2>2, HighestLevel
      <3>2. \A l \in 1..3 : l = 1 \/ l = 2 \/ l = 3 OBVIOUS
      <3>3. \A l \in levels \ {Max(levels)} : l # 3 BY <3>1, <1>4
      <3>4. levels \ {Max(levels)} \subseteq {1, 2} BY <3>2, <3>3, <1>4
      <3> QED BY <2>2, <3>4
    <2> QED BY <2>1, <2>2
  <1>6. target \in Int
    <2>1. CASE levels = {} BY <2>1, <1>1
    <2>2. CASE levels # {}
      <3>1. Max(levels) \in levels BY <1>4, <2>2, HighestLevel
      <3> QED BY <2>2, <3>1, <1>4, <1>1
    <2> QED BY <2>1, <2>2
  <1>7. mode \in {"fixed", "step_down"} BY <1>1
  <1> HIDE DEF levels, legs, target, mode
  <1>9. pos = [open |-> TRUE, long |-> setup.long, entry |-> bar.close, stop |-> setup.stop,
               first |-> setup.stop, setup |-> setup, legs |-> legs,
               target |-> target, trailing |-> FALSE, peak |-> 0, left |-> Whole, parts |-> 0,
               gain |-> 0, behind |-> 0, tp1 |-> 0, lot |-> setup.lot, at |-> bars[p], close |-> bar.close,
               fresh |-> FALSE, mode |-> mode]
    BY DEF Entered, levels, legs, target, mode
  <1>10. Whole \in Nat BY DEF Whole
  <1> HIDE DEF pos
  <1>11. pos \in Positions BY <1>1, <1>2, <1>3, <1>5, <1>6, <1>7, <1>9, <1>10 DEF Positions
  <1>12. pos.parts + pos.left = Whole /\ pos.gain >= pos.behind /\ pos.tp1 = 0 BY <1>9, <1>10
  <1>13. pos.legs \subseteq Configured(pos.setup) BY <1>5, <1>9 DEF levels
  <1> QED BY <1>11, <1>12, <1>13 DEF SoundPosition, pos

LEMMA ReplaySteps == ReplayInv /\ [ReplayNext]_replayVars => ReplayInv'
  <1> SUFFICES ASSUME ReplayInv, [ReplayNext]_replayVars PROVE ReplayInv' OBVIOUS
  <1>1. CASE UNCHANGED replayVars BY <1>1 DEF ReplayInv, replayVars, LadderKeepsItsWord
  <1>2. ASSUME NEW p \in Participants, NoSignal(p) PROVE ReplayInv'
    BY <1>2 DEF ReplayInv, NoSignal, LadderKeepsItsWord
  <1>3. ASSUME NEW p \in Participants, RunOut(p) PROVE ReplayInv'
    <2> DEFINE pos == position[p]
    <2>1. SoundPosition(pos) /\ Settle(p, CloseAt(pos, pos.close, pos.fresh))
      BY <1>3 DEF RunOut, ReplayInv
    <2>2. pos.close \in Int /\ pos.fresh \in BOOLEAN BY <2>1 DEF SoundPosition, Positions
    <2>3. pos.tp1 # 0 => InProfit(pos, pos.close) \/ pos.fresh BY <2>1, <2>2 DEF SoundPosition
    <2>4. GoodTrade(CloseAt(pos, pos.close, pos.fresh))
      <3> HIDE DEF pos
      <3> QED BY <2>1, <2>2, <2>3, ClosesSound
    <2>5. bars' \in [Participants -> Nat] BY <1>3 DEF RunOut, ReplayInv
    <2> QED BY <2>1, <2>4, <2>5, SettleKeeps
  <1>4. ASSUME NEW p \in Participants, NEW bar \in BarShapes, AdvanceOpen(p, bar)
        PROVE  ReplayInv'
    BY <1>4, AdvanceKeeps
  <1>5. ASSUME NEW p \in Participants, NEW bar \in BarShapes, NEW setup \in Setups,
               EnterAtClose(p, bar, setup)
        PROVE  ReplayInv'
    <2>1. SoundPosition(Entered(p, setup, bar)) BY <1>5, EntryIsSound
    <2>2. Entered(p, setup, bar) \in Positions BY <2>1 DEF SoundPosition
    <2> QED BY <2>1, <2>2, <1>5 DEF ReplayInv, EnterAtClose, LadderKeepsItsWord
  <1> QED BY <1>1, <1>2, <1>3, <1>4, <1>5 DEF ReplayNext

(* A replayed trade closes each part of itself once and loses nothing      *)
(* after its first target beyond what targets on the wrong side of the     *)
(* fill cost, but when forced shut on that very bar; for all bars and all  *)
(* setups, wherever their stops and targets lie.                           *)
THEOREM LadderIsHonest == ReplaySpec => []LadderKeepsItsWord
  <1>1. ReplayInv => LadderKeepsItsWord BY DEF ReplayInv
  <1> QED BY <1>1, ReplayStarts, ReplaySteps, PTL DEF ReplaySpec

-----------------------------------------------------------------------------
LEMMA Least == ASSUME NEW S \in SUBSET Nat, S # {} PROVE \E n \in S : \A m \in S : n <= m
<1>1. IsWellFoundedOn(OpToRel(<, Nat), Nat)
  BY NatLessThanWellFounded
<1>2. PICK R : R = {ss \in Nat \X Nat : ss[1] < ss[2]}
  OBVIOUS
<1>3. R = OpToRel(<, Nat)
  BY <1>2 DEF OpToRel
<1>4. IsWellFoundedOn(R, Nat)
  BY <1>1, <1>3
<1> HIDE <1>2
<1>5. S \subseteq Nat
  OBVIOUS
<1>6. \E x \in S : \A y \in S : ~(<<y, x>> \in R)
  BY <1>4, <1>5, WFMin, Zenon
<1>7. PICK n \in S : \A m \in S : ~(<<m, n>> \in R)
  BY <1>6
<1>8. \A m \in S : ~(m < n)
  BY <1>2, <1>5, <1>7
<1> QED
  BY <1>5, <1>8

LEMMA MinIsLeast ==
  ASSUME NEW S \in SUBSET Nat, S # {}
  PROVE  Min(S) \in S /\ \A m \in S : Min(S) <= m
<1>1. \E n \in S : \A m \in S : n <= m
  BY Least
<1> QED
  BY <1>1 DEF Min

LEMMA MaxIsHighest ==
  ASSUME NEW N \in Nat, NEW S \in SUBSET (0..N), S # {}
  PROVE  Max(S) \in S /\ \A u \in S : u <= Max(S)
<1>1. PICK U : U = {n \in Nat : \A u \in S : u <= n}
  OBVIOUS
<1>2. N \in U /\ U \in SUBSET Nat
  BY <1>1
<1>3. PICK top \in U : \A n \in U : top <= n
  BY <1>2, Least
<1>4. top \in S
  <2> SUFFICES ASSUME top \notin S PROVE FALSE
    OBVIOUS
  <2>1. \A u \in S : u <= top /\ u # top /\ u \in 0..N
    BY <1>1
  <2>2. PICK u \in S : u \in 0..N
    OBVIOUS
  <2>3. top - 1 \in Nat
    BY <1>1, <2>1, <2>2
  <2>4. top - 1 \in U
    BY <1>1, <2>1, <2>3
  <2> QED
    BY <1>1, <1>3, <2>3, <2>4
<1>5. \E t \in S : \A u \in S : t >= u
  BY <1>1, <1>4
<1>6. Max(S) \in S /\ \A u \in S : Max(S) >= u
  BY <1>5 DEF Max
<1> QED
  BY <1>6

LEMMA MaxKnown ==
  ASSUME NEW N \in Nat, NEW S \in SUBSET (0..N), NEW m \in S, \A u \in S : u <= m
  PROVE  Max(S) = m
<1>1. PICK top : top = Max(S)
  OBVIOUS
<1>2. top \in S /\ \A u \in S : u <= top
  BY <1>1, MaxIsHighest
<1>3. top \in 0..N /\ m \in 0..N /\ top <= m /\ m <= top
  BY <1>2
<1> QED
  BY <1>1, <1>3

(* The run of days of A that ends with d: all its days are in A, and it    *)
(* cannot be continued backwards.                                          *)
RunIn(A, d) == Max({n \in 0..d : \A k \in (d - n + 1)..d : k \in A})
IsRun(A, d, n) ==
  n \in 0..d /\ (\A k \in (d - n + 1)..d : k \in A) /\ (n = d \/ d - n \notin A)

LEMMA RunKnown ==
  ASSUME NEW A, NEW d \in Nat, NEW n, IsRun(A, d, n)
  PROVE  RunIn(A, d) = n
<1> DEFINE S == {m \in 0..d : \A k \in (d - m + 1)..d : k \in A}
<1>1. n \in S /\ S \in SUBSET (0..d)
  BY DEF IsRun
<1>2. \A u \in S : u <= n
  <2> SUFFICES ASSUME NEW u \in S, u > n PROVE FALSE
    BY <1>1
  <2>1. d - n \in (d - u + 1)..d /\ n < d
    BY <1>1
  <2>2. d - n \in A
    BY <2>1
  <2> QED
    BY <2>1, <2>2 DEF IsRun
<1> HIDE DEF S
<1>3. Max(S) = n
  BY <1>1, <1>2, MaxKnown
<1> QED
  BY <1>3 DEF RunIn, S

LEMMA RunIs ==
  ASSUME NEW A, NEW d \in Nat
  PROVE  IsRun(A, d, RunIn(A, d)) /\ RunIn(A, d) \in 0..d
<1> DEFINE S == {m \in 0..d : \A k \in (d - m + 1)..d : k \in A}
<1>1. 0 \in S /\ S \in SUBSET (0..d)
  OBVIOUS
<1>2. PICK m : m = Max(S)
  OBVIOUS
<1>3. m \in S /\ \A u \in S : u <= m
  <2> HIDE DEF S
  <2> QED
    BY <1>1, <1>2, MaxIsHighest
<1>4. m = d \/ d - m \notin A
  <2> SUFFICES ASSUME m # d, d - m \in A PROVE FALSE
    OBVIOUS
  <2>1. m + 1 \in 0..d
    BY <1>3
  <2>2. \A k \in (d - (m + 1) + 1)..d : k = d - m \/ k \in (d - m + 1)..d
    BY <1>3
  <2>3. \A k \in (d - (m + 1) + 1)..d : k \in A
    BY <1>3, <2>2
  <2>4. m + 1 \in S
    BY <2>1, <2>3
  <2> QED
    BY <1>3, <2>1, <2>4
<1>5. m \in 0..d /\ \A k \in (d - m + 1)..d : k \in A
  BY <1>3
<1>6. RunIn(A, d) = m
  BY <1>2 DEF RunIn
<1> QED
  BY <1>4, <1>5, <1>6 DEF IsRun

(* A day after all of A adds one to the run that ended the day before it,  *)
(* and changes no other run that was not empty.                            *)
LEMMA DayAdded ==
  ASSUME NEW e \in Nat \ {0}, NEW A \in SUBSET (1..(e - 1))
  PROVE  /\ RunIn(A \cup {e}, e) = RunIn(A, e - 1) + 1
         /\ \A d \in Nat : d # e => RunIn(A \cup {e}, d) = RunIn(A, d)
         /\ RunIn(A, e) = 0
         /\ e - 1 \notin A => RunIn(A, e - 1) = 0
<1>0. PICK B : B = A \cup {e}
  OBVIOUS
<1>1. RunIn(B, e) = RunIn(A, e - 1) + 1
  <2>1. PICK n : n = RunIn(A, e - 1)
    OBVIOUS
  <2>2. IsRun(A, e - 1, n)
    BY <2>1, RunIs
  <2>3. n + 1 \in 0..e /\ (n + 1 = e \/ e - (n + 1) \notin B)
    BY <1>0, <2>2 DEF IsRun
  <2>4. \A k \in (e - (n + 1) + 1)..e : k \in B
    BY <1>0, <2>2 DEF IsRun
  <2>5. IsRun(B, e, n + 1)
    BY <2>3, <2>4 DEF IsRun
  <2> QED
    BY <2>1, <2>5, RunKnown
<1>2. \A d \in Nat : d # e => RunIn(B, d) = RunIn(A, d)
  <2> SUFFICES ASSUME NEW d \in Nat, d # e PROVE RunIn(B, d) = RunIn(A, d)
    OBVIOUS
  <2>1. PICK n : n = RunIn(A, d)
    OBVIOUS
  <2>2. IsRun(A, d, n)
    BY <2>1, RunIs
  <2>3. n \in 0..d /\ \A k \in (d - n + 1)..d : k \in B
    BY <1>0, <2>2 DEF IsRun
  <2>4. n = d \/ d - n \notin B
    <3>1. CASE d < e
      BY <1>0, <2>2, <3>1 DEF IsRun
    <3>2. CASE d > e
      <4>1. n = 0
        <5> SUFFICES ASSUME n # 0 PROVE FALSE
          OBVIOUS
        <5>1. d \in (d - n + 1)..d
          BY <2>3
        <5>2. d \in A
          BY <2>2, <5>1 DEF IsRun
        <5> QED
          BY <3>2, <5>2
      <4> QED
        BY <1>0, <3>2, <4>1
    <3> QED
      BY <3>1, <3>2
  <2>5. IsRun(B, d, n)
    BY <2>3, <2>4 DEF IsRun
  <2> QED
    BY <2>1, <2>5, RunKnown
<1>3. IsRun(A, e, 0)
  BY DEF IsRun
<1>4. e - 1 \notin A => IsRun(A, e - 1, 0)
  BY DEF IsRun
<1>5. RunIn(A, e) = 0
  BY <1>3, RunKnown
<1>6. e - 1 \notin A => RunIn(A, e - 1) = 0
  BY <1>4, RunKnown
<1> QED
  BY <1>0, <1>1, <1>2, <1>5, <1>6

StatsRows == [exists : BOOLEAN, last : 0..LastActivityDay, streak : Nat, longest : Nat, xp : Nat]
StreaksOf(kept, A) ==
  /\ kept.last = Max(A \cup {0}) /\ kept.streak = RunIn(A, kept.last)
  /\ kept.longest = Max({RunIn(A, d) : d \in 0..LastActivityDay})
  /\ kept.xp = Cardinality(A)

LEMMA LongestRun ==
  ASSUME NEW A
  PROVE  LET S == {RunIn(A, d) : d \in 0..LastActivityDay}
         IN  S \in SUBSET (0..LastActivityDay) /\ S # {} /\ Max(S) \in S /\ \A u \in S : u <= Max(S)
<1>1. PICK S : S = {RunIn(A, d) : d \in 0..LastActivityDay}
  OBVIOUS
<1>2. LastActivityDay \in Nat /\ 0 \in 0..LastActivityDay
  BY TracksHaveStages
<1>3. \A d \in 0..LastActivityDay : RunIn(A, d) \in 0..LastActivityDay
  <2> TAKE d \in 0..LastActivityDay
  <2>1. d \in Nat /\ d <= LastActivityDay
    BY <1>2
  <2>2. RunIn(A, d) \in 0..d
    BY <2>1, RunIs
  <2> QED
    BY <1>2, <2>1, <2>2
<1>4. S \in SUBSET (0..LastActivityDay) /\ S # {}
  BY <1>1, <1>2, <1>3
<1>5. Max(S) \in S /\ \A u \in S : u <= Max(S)
  BY <1>2, <1>4, MaxIsHighest
<1> QED
  BY <1>1, <1>4, <1>5

(* An activity on a day: the streak goes on if it was the day before that  *)
(* it last did, and begins anew otherwise.                                 *)
LEMMA StreakGrows ==
  ASSUME NEW kept \in StatsRows, NEW day \in 1..LastActivityDay, NEW A \in SUBSET (1..LastActivityDay),
         StreaksOf(kept, A), kept.last <= day
  PROVE  LET new == UpdateStreak(kept, day)
         IN  /\ new \in StatsRows /\ new.exists = kept.exists
             /\ StreaksOf(new, A \cup {day})
<1>1. LastActivityDay \in Nat /\ day \in Nat \ {0} /\ kept.last \in Nat /\ kept.streak \in Nat
        /\ kept.longest \in Nat /\ kept.xp \in Nat /\ kept.last \in 0..LastActivityDay
  BY TracksHaveStages DEF StatsRows
<1>2. kept.last \in A \cup {0} /\ \A u \in A : u <= kept.last
  <2>1. A \cup {0} \in SUBSET (0..LastActivityDay) /\ A \cup {0} # {}
    BY <1>1
  <2>2. Max(A \cup {0}) \in A \cup {0} /\ \A u \in A \cup {0} : u <= Max(A \cup {0})
    BY <1>1, <2>1, MaxIsHighest
  <2> QED
    BY <2>2 DEF StreaksOf
<1>3. CASE kept.last = day
  <2>1. A \cup {day} = A
    BY <1>1, <1>2, <1>3
  <2>2. UpdateStreak(kept, day) = kept
    BY <1>3 DEF UpdateStreak
  <2> QED
    BY <2>1, <2>2
<1>4. CASE kept.last # day
  <2>1. kept.last < day /\ A \in SUBSET (1..(day - 1)) /\ day \notin A
    BY <1>1, <1>2, <1>4
  <2>2. PICK B : B = A \cup {day}
    OBVIOUS
  <2>3. /\ RunIn(B, day) = RunIn(A, day - 1) + 1
        /\ \A d \in Nat : d # day => RunIn(B, d) = RunIn(A, d)
        /\ RunIn(A, day) = 0
        /\ day - 1 \notin A => RunIn(A, day - 1) = 0
    <3>1. day \in Nat \ {0} /\ A \in SUBSET (1..(day - 1))
      BY <1>1, <2>1
    <3>2. /\ RunIn(A \cup {day}, day) = RunIn(A, day - 1) + 1
          /\ \A d \in Nat : d # day => RunIn(A \cup {day}, d) = RunIn(A, d)
          /\ RunIn(A, day) = 0
          /\ day - 1 \notin A => RunIn(A, day - 1) = 0
      BY <3>1, DayAdded, Zenon
    <3> QED
      BY <2>2, <3>2, Zenon
  <2>4. PICK n : n = IF kept.last > 0 /\ day = kept.last + 1 THEN kept.streak + 1 ELSE 1
    OBVIOUS
  <2>5. n = RunIn(B, day) /\ n \in Nat
    <3>1. CASE kept.last > 0 /\ day = kept.last + 1
      <4>1. kept.streak = RunIn(A, kept.last) /\ day - 1 = kept.last
        BY <1>1, <3>1 DEF StreaksOf
      <4> QED
        BY <1>1, <2>3, <2>4, <3>1, <4>1
    <3>2. CASE ~(kept.last > 0 /\ day = kept.last + 1)
      <4>1. day - 1 \notin A
        BY <1>1, <1>2, <2>1, <3>2
      <4> QED
        BY <2>3, <2>4, <3>2, <4>1
    <3> QED
      BY <3>1, <3>2
  <2>6. PICK m : m = Max({kept.longest, n})
    OBVIOUS
  <2>7. m \in {kept.longest, n} /\ m >= kept.longest /\ m >= n /\ m \in Nat
    <3>1. PICK l : l = kept.longest
      OBVIOUS
    <3>2. l \in Int /\ n \in Int
      BY <1>1, <2>5, <3>1
    <3>3. Max({l, n}) \in {l, n} /\ Max({l, n}) >= l /\ Max({l, n}) >= n
      BY <3>2, MaxOfTwo, Zenon
    <3>4. m = Max({l, n})
      BY <2>6, <3>1
    <3> QED
      BY <1>1, <2>5, <3>1, <3>3, <3>4
  <2>8. UpdateStreak(kept, day) =
          [kept EXCEPT !.last = day, !.streak = n, !.longest = m, !.xp = kept.xp + 1]
    BY <1>4, <2>4, <2>6, Zenon DEF UpdateStreak
  <2>9. PICK new : new = [kept EXCEPT !.last = day, !.streak = n, !.longest = m, !.xp = kept.xp + 1]
    OBVIOUS
  <2>10. new \in StatsRows
    <3>1. day \in 0..LastActivityDay /\ kept.xp + 1 \in Nat
      BY <1>1
    <3> QED
      BY <2>5, <2>7, <2>9, <3>1 DEF StatsRows
  <2>11. new.exists = kept.exists /\ new.last = day /\ new.streak = n /\ new.longest = m
           /\ new.xp = kept.xp + 1
    BY <2>9 DEF StatsRows
  <2>12. day = Max(B \cup {0})
    <3>1. B \cup {0} \in SUBSET (0..day) /\ day \in B \cup {0} /\ \A u \in B \cup {0} : u <= day
      BY <1>1, <2>1, <2>2
    <3> QED
      BY <1>1, <3>1, MaxKnown
  <2>13. m = Max({RunIn(B, d) : d \in 0..LastActivityDay})
    <3>1. PICK S : S = {RunIn(A, d) : d \in 0..LastActivityDay}
      OBVIOUS
    <3>2. PICK T : T = {RunIn(B, d) : d \in 0..LastActivityDay}
      OBVIOUS
    <3>3. S \in SUBSET (0..LastActivityDay) /\ kept.longest \in S /\ \A u \in S : u <= kept.longest
      BY <3>1, LongestRun DEF StreaksOf
    <3>4. T \in SUBSET (0..LastActivityDay)
      BY <3>2, LongestRun
    <3>5. n \in T
      BY <1>1, <2>5, <3>2
    <3>6. PICK d \in 0..LastActivityDay : RunIn(A, d) = kept.longest
      BY <3>1, <3>3
    <3>7. d # day => kept.longest \in T
      BY <1>1, <2>3, <3>2, <3>6
    <3>8. d = day => kept.longest = 0
      BY <2>3, <3>6
    <3>9. m \in T
      BY <1>1, <2>5, <2>7, <3>5, <3>7, <3>8
    <3>10. \A u \in T : u <= m
      <4> SUFFICES ASSUME NEW k \in 0..LastActivityDay PROVE RunIn(B, k) <= m
        BY <3>2
      <4>1. CASE k = day
        BY <2>5, <2>7, <4>1
      <4>2. CASE k # day
        <5>1. RunIn(B, k) = RunIn(A, k) /\ RunIn(A, k) \in S
          BY <1>1, <2>3, <3>1, <4>2
        <5>2. PICK u \in S : u = RunIn(B, k)
          BY <5>1
        <5>3. u <= kept.longest /\ u \in Nat
          BY <3>3, <5>2
        <5> QED
          BY <1>1, <2>7, <5>2, <5>3
      <4> QED
        BY <4>1, <4>2
    <3> QED
      BY <1>1, <3>2, <3>4, <3>9, <3>10, MaxKnown
  <2>14. Cardinality(B) = Cardinality(A) + 1
    <3>1. IsFiniteSet(1..LastActivityDay)
      BY <1>1, FS_Interval
    <3>2. IsFiniteSet(A)
      BY <3>1, FS_Subset
    <3> QED
      BY <2>1, <2>2, <3>2, FS_AddElement
  <2>15. new.xp = Cardinality(B)
    BY <2>11, <2>14 DEF StreaksOf
  <2>16. StreaksOf(new, B)
    BY <2>5, <2>11, <2>12, <2>13, <2>15 DEF StreaksOf
  <2> QED
    BY <2>2, <2>8, <2>9, <2>10, <2>11, <2>16
<1> QED
  BY <1>3, <1>4

LEMMA StageIs ==
  /\ \A t \in Tracks : Lengths[t] \in Nat \ {0} /\ t \in Nat
  /\ \A t \in Tracks : \A n \in 1..Lengths[t] : <<t, n>> \in Stages
  /\ \A s \in Stages : s = <<s[1], s[2]>> /\ s[1] \in Tracks /\ s[2] \in 1..Lengths[s[1]]
<1>1. \A t \in Tracks : Lengths[t] \in Nat \ {0} /\ t \in Nat
  BY TracksHaveStages DEF Tracks
<1>2. \A t \in Tracks : \A n \in 1..Lengths[t] : <<t, n>> \in Stages
  BY DEF Stages
<1>3. \A s \in Stages : s = <<s[1], s[2]>> /\ s[1] \in Tracks /\ s[2] \in 1..Lengths[s[1]]
  BY DEF Stages
<1> QED
  BY <1>1, <1>2, <1>3

RowSet(t) == UNION {{n} \X (1..done[<<t, n>>]) : n \in 1..Lengths[t]}

LEMMA RowsFinite ==
  ASSUME done \in [Stages -> Nat], NEW t \in Tracks
  PROVE  /\ IsFiniteSet(RowSet(t)) /\ Rows(t) = Cardinality(RowSet(t)) /\ Rows(t) \in Nat
         /\ \A n \in 1..Lengths[t] : \A k \in 1..done[<<t, n>>] : <<n, k>> \in RowSet(t)
         /\ \A p \in RowSet(t) : p[1] \in 1..Lengths[t] /\ p[2] \in 1..done[<<t, p[1]>>] /\ p = <<p[1], p[2]>>
<1>1. Lengths[t] \in Nat /\ \A n \in 1..Lengths[t] : <<t, n>> \in Stages /\ done[<<t, n>>] \in Nat
  BY StageIs
<1>2. PICK f : f = [n \in 1..Lengths[t] |-> {n} \X (1..done[<<t, n>>])]
  OBVIOUS
<1>3. PICK S : S = {{n} \X (1..done[<<t, n>>]) : n \in 1..Lengths[t]}
  OBVIOUS
<1>4. f \in Surjection(1..Lengths[t], S)
  <2>1. f \in [1..Lengths[t] -> S]
    BY <1>2, <1>3
  <2>2. \A p \in S : \E n \in 1..Lengths[t] : f[n] = p
    BY <1>2, <1>3
  <2> QED
    BY <2>1, <2>2, Fun_IsSurj
<1>5. IsFiniteSet(S)
  <2>1. IsFiniteSet(1..Lengths[t])
    BY <1>1, FS_Interval
  <2> QED
    BY <1>4, <2>1, FS_Surjection
<1>6. \A p \in S : IsFiniteSet(p)
  <2> SUFFICES ASSUME NEW n \in 1..Lengths[t] PROVE IsFiniteSet({n} \X (1..done[<<t, n>>]))
    BY <1>3
  <2>1. IsFiniteSet({n})
    BY FS_Singleton
  <2>2. done[<<t, n>>] \in Int /\ 1 \in Int
    BY <1>1
  <2>3. IsFiniteSet(1..done[<<t, n>>])
    BY <2>2, FS_Interval
  <2> QED
    BY <2>1, <2>3, FS_Product
<1>7. RowSet(t) = UNION S
  BY <1>3 DEF RowSet
<1>8. IsFiniteSet(RowSet(t))
  BY <1>5, <1>6, <1>7, FS_UNION
<1>9. Rows(t) = Cardinality(RowSet(t))
  BY DEF Rows, RowSet
<1>10. Rows(t) \in Nat
  BY <1>8, <1>9, FS_CardinalityType
<1>11. \A n \in 1..Lengths[t] : \A k \in 1..done[<<t, n>>] : <<n, k>> \in RowSet(t)
  BY DEF RowSet
<1>12. \A p \in RowSet(t) : p[1] \in 1..Lengths[t] /\ p[2] \in 1..done[<<t, p[1]>>] /\ p = <<p[1], p[2]>>
  <2> TAKE p \in RowSet(t)
  <2>1. PICK n \in 1..Lengths[t] : p \in {n} \X (1..done[<<t, n>>])
    BY DEF RowSet
  <2>2. p[1] = n /\ p[2] \in 1..done[<<t, n>>] /\ p = <<p[1], p[2]>>
    BY <2>1
  <2> QED
    BY <2>1, <2>2
<1> QED
  BY <1>8, <1>9, <1>10, <1>11, <1>12

(* There is a row at least for every stage that is finished.               *)
LEMMA RowsAtLeast ==
  ASSUME done \in [Stages -> Nat], NEW t \in Tracks, NEW m \in 0..Lengths[t],
         1..m \subseteq Finished(t)
  PROVE  m <= Rows(t)
<1>1. m \in Nat /\ \A n \in 1..m : n \in 1..Lengths[t] /\ 1 \in 1..done[<<t, n>>]
  <2>1. m \in Nat
    BY StageIs
  <2>2. \A n \in 1..m : n \in 1..Lengths[t] /\ done[<<t, n>>] > 0
    BY DEF Finished
  <2>3. \A n \in 1..m : done[<<t, n>>] \in Nat
    BY <2>2, StageIs
  <2>4. \A n \in 1..m : 1 \in 1..done[<<t, n>>]
    BY <2>2, <2>3
  <2> QED
    BY <2>1, <2>2, <2>4
<1>2. PICK f : f = [n \in 1..m |-> <<n, 1>>]
  OBVIOUS
<1>3. f \in Injection(1..m, RowSet(t))
  <2>1. f \in [1..m -> RowSet(t)]
    BY <1>1, <1>2, RowsFinite
  <2>2. \A a, b \in 1..m : f[a] = f[b] => a = b
    BY <1>2
  <2> QED
    BY <2>1, <2>2, Fun_IsInj
<1>4. Cardinality(1..m) <= Cardinality(RowSet(t))
  BY <1>3, RowsFinite, FS_Injection
<1>5. Cardinality(1..m) = m
  BY <1>1, FS_Interval
<1> QED
  BY <1>4, <1>5, RowsFinite

(* Just one when none was completed twice.                                 *)
LEMMA RowsExact ==
  ASSUME done \in [Stages -> Nat], \A s \in Stages : done[s] <= 1, NEW t \in Tracks,
         NEW m \in 0..Lengths[t], Finished(t) = 1..m
  PROVE  Rows(t) = m
<1>1. m \in Nat /\ \A n \in 1..Lengths[t] : <<t, n>> \in Stages /\ done[<<t, n>>] \in 0..1
  <2>1. Lengths[t] \in Nat /\ \A n \in 1..Lengths[t] : <<t, n>> \in Stages
    BY StageIs
  <2> QED
    BY <2>1
<1>2. PICK f : f = [n \in 1..m |-> <<n, 1>>]
  OBVIOUS
<1>3. \A n \in 1..m : n \in 1..Lengths[t] /\ done[<<t, n>>] = 1
  BY <1>1 DEF Finished
<1>4. \A n \in 1..Lengths[t] : done[<<t, n>>] > 0 => n \in 1..m
  BY DEF Finished
<1>5. f \in Bijection(1..m, RowSet(t))
  <2>1. f \in [1..m -> RowSet(t)]
    <3>1. \A n \in 1..m : n \in 1..Lengths[t] /\ 1 \in 1..done[<<t, n>>]
      BY <1>3
    <3>2. \A n \in 1..m : <<n, 1>> \in RowSet(t)
      BY <3>1, RowsFinite
    <3> QED
      BY <1>2, <3>2
  <2>2. \A a, b \in 1..m : f[a] = f[b] => a = b
    BY <1>2
  <2>3. \A p \in RowSet(t) : \E n \in 1..m : f[n] = p
    <3> SUFFICES ASSUME NEW p \in RowSet(t) PROVE \E n \in 1..m : f[n] = p
      OBVIOUS
    <3>1. p[1] \in 1..Lengths[t] /\ p[2] \in 1..done[<<t, p[1]>>] /\ p = <<p[1], p[2]>>
      BY RowsFinite
    <3>2. p[1] \in 1..m /\ p[2] = 1
      BY <1>1, <1>4, <3>1
    <3> QED
      BY <1>2, <3>1, <3>2
  <2> QED
    BY <2>1, <2>2, <2>3, Fun_IsBij
<1>6. ExistsBijection(1..m, RowSet(t))
  BY <1>5 DEF ExistsBijection
<1>7. IsFiniteSet(1..m) /\ Cardinality(1..m) = m
  BY <1>1, FS_Interval
<1>8. Cardinality(RowSet(t)) = m
  BY <1>6, <1>7, FS_Bijection
<1> QED
  BY <1>8, RowsFinite

InOrder == \A t \in Tracks : \A n \in Finished(t) : 1..n \subseteq Finished(t)

(* Stages completed in order are the first ones of their track.            *)
LEMMA FinishedFirst ==
  ASSUME NEW t \in Tracks, InOrder
  PROVE  \E m \in 0..Lengths[t] : /\ Finished(t) = 1..m
                                  /\ Unfinished(t) = {} <=> m = Lengths[t]
<1>1. Lengths[t] \in Nat /\ Finished(t) \in SUBSET (1..Lengths[t])
  BY StageIs DEF Finished
<1>2. CASE Finished(t) = {}
  <2>1. Finished(t) = 1..0 /\ 0 \in 0..Lengths[t] /\ Lengths[t] # 0 /\ 1 \in 1..Lengths[t]
    BY <1>1, <1>2, StageIs
  <2> QED
    BY <1>2, <2>1 DEF Unfinished
<1>3. CASE Finished(t) # {}
  <2>1. Finished(t) \in SUBSET (0..Lengths[t])
    BY <1>1
  <2>2. PICK m : m = Max(Finished(t))
    OBVIOUS
  <2>3. m \in Finished(t) /\ \A u \in Finished(t) : u <= m
    BY <1>1, <1>3, <2>1, <2>2, MaxIsHighest
  <2>4. m \in 1..Lengths[t] /\ 1..m \subseteq Finished(t) /\ \A u \in Finished(t) : u \in 1..m
    BY <1>1, <2>3 DEF InOrder
  <2>5. Finished(t) = 1..m
    BY <2>4
  <2>6. Unfinished(t) = {} => m = Lengths[t]
    BY <1>1, <2>4, <2>5 DEF Unfinished
  <2>7. m = Lengths[t] => Unfinished(t) = {}
    BY <1>1, <2>4, <2>5 DEF Unfinished
  <2> QED
    BY <2>4, <2>5, <2>6, <2>7
<1> QED
  BY <1>2, <1>3

(* Stages are completed in order, a certificate is there or on its way     *)
(* when a track is complete, and what was completed stays in the recall,   *)
(* whatever crosses.                                                       *)
CheckRows == [stage : Stages, index : Nat, open : BOOLEAN]
AskStates ==
  {Resting}
    \cup [pc : {"stage"}, stage : Stages, day : 1..LastActivityDay, before : Nat, row : StatsRows]
    \cup [pc : {"award"}, stage : Stages, day : 1..LastActivityDay, row : StatsRows, issue : BOOLEAN]
    \cup [pc : {"game"}, day : 1..LastActivityDay, row : StatsRows]
    \cup [pc : {"recall"}, check : Nat]
Completing(a) == a.pc \in {"stage", "award"}
Awarding(a) == a.pc \in {"stage", "award", "game"}

AskTyped(a) == /\ a.pc = "recall" => a.check \in DOMAIN checks
               /\ Awarding(a) => a.day <= studyDay
LearnTyped ==
  /\ done \in [Stages -> Nat] /\ stats \in StatsRows /\ checks \in Seq(CheckRows)
  /\ certs \in [Tracks -> Nat] /\ asking \in [LearnerRequests -> AskStates]
  /\ studyDay \in 1..LastActivityDay /\ activeOn \subseteq 1..studyDay /\ crossed \in BOOLEAN
  /\ \A r \in LearnerRequests : AskTyped(asking[r])
MayComplete(a) ==
  Completing(a) =>
    /\ CanAttempt(a.stage)
    /\ a.pc = "stage" => a.before >= a.stage[2] - 1
    /\ a.pc = "award" /\ a.stage[2] = Lengths[a.stage[1]] => a.issue \/ certs[a.stage[1]] > 0
Certified == \A t \in Tracks : Unfinished(t) = {} => certs[t] > 0

(* As long as no two requests crossed, the one at work has read what is    *)
(* still there, and a stage or a track is completed once.                  *)
SameStats(a, b) == a.last = b.last /\ a.streak = b.streak /\ a.longest = b.longest /\ a.xp = b.xp
OneAsks ==
  \A r, q \in LearnerRequests : asking[r].pc # "idle" /\ asking[q].pc # "idle" => r = q
ReadStats(a) == Awarding(a) => SameStats(a.row, stats) /\ stats.last <= a.day
DoneOnce == \A s \in Stages : done[s] <= 1
CertifiedOnce == \A t \in Tracks : certs[t] = (IF Unfinished(t) = {} THEN 1 ELSE 0)
CompletesOnce(a) ==
  Completing(a) =>
    /\ done[a.stage] = 0
    /\ a.pc = "stage" => a.before = a.stage[2] - 1
    /\ a.pc = "award" => (a.issue <=> a.stage[2] = Lengths[a.stage[1]])
OneByOne ==
  /\ OneAsks /\ DoneOnce /\ CertifiedOnce /\ StreaksOf(stats, activeOn)
  /\ \A r \in LearnerRequests : ReadStats(asking[r]) /\ CompletesOnce(asking[r])

LearnInv ==
  /\ LearnTyped /\ InOrder /\ Certified /\ RecallGoesOn
  /\ \A r \in LearnerRequests : MayComplete(asking[r])
  /\ ~crossed => OneByOne

LEMMA InitLearn == LearnInit => LearnInv
<1> SUFFICES ASSUME LearnInit PROVE LearnInv
  OBVIOUS
<1>1. LearnTyped
  <2>1. LastActivityDay \in Nat \ {0}
    BY TracksHaveStages
  <2>2. NoRow \in StatsRows /\ Resting \in AskStates
    BY <2>1 DEF NoRow, StatsRows, AskStates
  <2>3. checks \in Seq(CheckRows)
    BY DEF LearnInit
  <2>4. \A r \in LearnerRequests : AskTyped(asking[r])
    BY DEF LearnInit, AskTyped, Awarding, Resting
  <2>5. done \in [Stages -> Nat] /\ certs \in [Tracks -> Nat]
    BY DEF LearnInit
  <2>6. asking \in [LearnerRequests -> AskStates] /\ stats \in StatsRows
    <3>1. asking = [r \in LearnerRequests |-> Resting] /\ stats = NoRow
      BY DEF LearnInit
    <3> QED
      BY <2>2, <3>1
  <2>7. studyDay \in 1..LastActivityDay /\ activeOn \subseteq 1..studyDay /\ crossed \in BOOLEAN
    <3>1. studyDay = 1 /\ activeOn = {} /\ crossed = FALSE
      BY DEF LearnInit
    <3>2. 1 \in 1..LastActivityDay
      BY <2>1
    <3> QED
      BY <3>1, <3>2
  <2> QED
    BY <2>3, <2>4, <2>5, <2>6, <2>7 DEF LearnTyped
<1>2. \A t \in Tracks : Finished(t) = {} /\ Unfinished(t) # {}
  BY StageIs DEF LearnInit, Finished, Unfinished
<1>3. InOrder /\ Certified /\ CertifiedOnce
  BY <1>2 DEF InOrder, Certified, CertifiedOnce, LearnInit
<1>4. RecallGoesOn /\ DoneOnce
  BY DEF RecallGoesOn, DoneOnce, LearnInit
<1>5. \A r \in LearnerRequests : MayComplete(asking[r]) /\ ReadStats(asking[r]) /\ CompletesOnce(asking[r])
  BY DEF LearnInit, MayComplete, ReadStats, CompletesOnce, Completing, Awarding, Resting
<1>6. OneAsks
  BY DEF OneAsks, LearnInit, Resting
<1>7. StreaksOf(stats, activeOn)
  <2>1. LastActivityDay \in Nat
    BY TracksHaveStages
  <2>2. \A d \in Nat : IsRun({}, d, 0)
    BY DEF IsRun
  <2>3. \A d \in 0..LastActivityDay : RunIn({}, d) = 0
    BY <2>1, <2>2, RunKnown
  <2>4. {RunIn({}, d) : d \in 0..LastActivityDay} = {0}
    BY <2>1, <2>3
  <2>5. 0 \in {0} /\ {0} \in SUBSET (0..LastActivityDay) /\ \A u \in {0} : u <= 0
    BY <2>1
  <2>6. Max({0}) = 0
    BY <2>1, <2>5, MaxKnown
  <2>7. Cardinality({}) = 0 /\ ({} \cup {0}) = {0} /\ 0 \in 0..LastActivityDay
    BY <2>1, FS_EmptySet
  <2> QED
    BY <2>3, <2>4, <2>6, <2>7 DEF StreaksOf, LearnInit, NoRow
<1> QED
  BY <1>1, <1>3, <1>4, <1>5, <1>6, <1>7 DEF LearnInv, OneByOne

LEMMA AskKinds ==
  ASSUME NEW a \in AskStates
  PROVE  /\ a.pc \in {"idle", "stage", "award", "game", "recall"}
         /\ Completing(a) => Awarding(a) /\ a.stage \in Stages
         /\ Awarding(a) => a.day \in 1..LastActivityDay /\ a.row \in StatsRows
         /\ a.pc = "stage" => a.before \in Nat
         /\ a.pc = "award" => a.issue \in BOOLEAN
         /\ a.pc = "recall" => a.check \in Nat
  BY DEF AskStates, Completing, Awarding, Resting

(* What is said of a request's rows depends on no other request.           *)
LEMMA DoneStays ==
  ASSUME UNCHANGED <<done, certs>>
  PROVE  /\ InOrder => InOrder'
         /\ Certified => Certified'
         /\ DoneOnce => DoneOnce'
         /\ CertifiedOnce => CertifiedOnce'
         /\ \A a \in AskStates : MayComplete(a)' <=> MayComplete(a)
         /\ \A a \in AskStates : CompletesOnce(a)' <=> CompletesOnce(a)
<1>1. \A t \in Tracks : Finished(t)' = Finished(t) /\ Unfinished(t)' = Unfinished(t)
  BY DEF Finished, Unfinished
<1>2. InOrder => InOrder'
  BY <1>1 DEF InOrder
<1>3. (Certified => Certified') /\ (CertifiedOnce => CertifiedOnce')
  BY <1>1 DEF Certified, CertifiedOnce
<1>4. DoneOnce => DoneOnce'
  BY DEF DoneOnce
<1>5. \A a \in AskStates : MayComplete(a)' <=> MayComplete(a)
  BY DEF MayComplete, CanAttempt, Finished
<1>6. \A a \in AskStates : CompletesOnce(a)' <=> CompletesOnce(a)
  BY DEF CompletesOnce
<1> QED
  BY <1>2, <1>3, <1>4, <1>5, <1>6

(* A request goes on, or another begins.                                   *)
LEMMA AskMoves ==
  ASSUME LearnInv, NEW r \in LearnerRequests, NEW x \in AskStates,
         asking' = [asking EXCEPT ![r] = x],
         UNCHANGED <<done, stats, checks, certs, studyDay, activeOn>>,
         crossed' \in BOOLEAN, crossed => crossed',
         AskTyped(x), MayComplete(x),
         ~crossed' => /\ x.pc = "idle" \/ \A q \in LearnerRequests : q # r => asking[q].pc = "idle"
                      /\ ReadStats(x) /\ CompletesOnce(x)
  PROVE  LearnInv'
<1>1. \A q \in LearnerRequests : asking'[q] = IF q = r THEN x ELSE asking[q]
  BY DEF LearnInv, LearnTyped
<1>2. asking' \in [LearnerRequests -> AskStates] /\ asking \in [LearnerRequests -> AskStates]
  BY DEF LearnInv, LearnTyped
<1>3. \A a \in AskStates : /\ AskTyped(a)' <=> AskTyped(a)
                           /\ ReadStats(a)' <=> ReadStats(a)
  BY DEF AskTyped, ReadStats, Awarding
<1>4. LearnTyped'
  <2>1. \A q \in LearnerRequests : AskTyped(asking[q])
    BY DEF LearnInv, LearnTyped
  <2>2. \A q \in LearnerRequests : AskTyped(asking'[q])
    BY <1>1, <2>1
  <2>3. (\A q \in LearnerRequests : AskTyped(asking[q]))'
    BY <1>2, <1>3, <2>2
  <2> QED
    BY <1>2, <2>3 DEF LearnInv, LearnTyped
<1>5. InOrder' /\ Certified' /\ RecallGoesOn'
  BY DoneStays DEF LearnInv, RecallGoesOn
<1>6. (\A q \in LearnerRequests : MayComplete(asking[q]))'
  <2>1. \A q \in LearnerRequests : MayComplete(asking'[q])
    BY <1>1 DEF LearnInv
  <2> QED
    BY <1>2, <2>1, DoneStays
<1>7. ~crossed' => OneByOne'
  <2> SUFFICES ASSUME ~crossed' PROVE OneByOne'
    OBVIOUS
  <2>1. OneByOne
    BY DEF LearnInv
  <2>2. OneAsks'
    BY <1>1, <2>1 DEF OneByOne, OneAsks
  <2>3. DoneOnce' /\ CertifiedOnce'
    BY <2>1, DoneStays DEF OneByOne
  <2>4. StreaksOf(stats, activeOn)'
    BY <2>1 DEF OneByOne
  <2>5. \A q \in LearnerRequests : ReadStats(asking'[q]) /\ CompletesOnce(asking'[q])
    BY <1>1, <2>1 DEF OneByOne
  <2>6. (\A q \in LearnerRequests : ReadStats(asking[q]) /\ CompletesOnce(asking[q]))'
    BY <1>2, <1>3, <2>5, DoneStays
  <2> QED
    BY <2>2, <2>3, <2>4, <2>6 DEF OneByOne
<1> QED
  BY <1>4, <1>5, <1>6, <1>7 DEF LearnInv

LEMMA IdleIsSound ==
  /\ Resting \in AskStates /\ Resting.pc = "idle"
  /\ AskTyped(Resting) /\ MayComplete(Resting) /\ ReadStats(Resting) /\ CompletesOnce(Resting)
  BY DEF Resting, AskStates, AskTyped, MayComplete, ReadStats, CompletesOnce, Completing, Awarding

LEMMA FailureKeeps ==
  ASSUME LearnInv, NEW r \in LearnerRequests, RequestFails(r)
  PROVE  LearnInv'
<1>1. /\ asking' = [asking EXCEPT ![r] = Resting]
      /\ UNCHANGED <<done, stats, checks, certs, studyDay, activeOn, crossed>>
      /\ crossed \in BOOLEAN
  BY DEF RequestFails, LearnInv, LearnTyped
<1> QED
  BY <1>1, AskMoves, IdleIsSound

LEMMA OverlapIs ==
  ASSUME NEW r \in LearnerRequests, asking[r].pc = "idle", crossed \in BOOLEAN,
         crossed' = (crossed \/ Overlap)
  PROVE  /\ crossed' \in BOOLEAN /\ (crossed => crossed')
         /\ ~crossed' => ~crossed /\ \A q \in LearnerRequests : asking[q].pc = "idle"
  BY DEF Overlap

LEMMA LastIsPast ==
  ASSUME LearnTyped, OneByOne
  PROVE  stats.last <= studyDay
<1>1. stats.last = Max(activeOn \cup {0}) /\ studyDay \in Nat
  BY TracksHaveStages DEF LearnTyped, OneByOne, StreaksOf
<1>2. activeOn \cup {0} \in SUBSET (0..studyDay) /\ activeOn \cup {0} # {}
  BY <1>1 DEF LearnTyped
<1>3. Max(activeOn \cup {0}) \in activeOn \cup {0}
  BY <1>1, <1>2, MaxIsHighest
<1> QED
  BY <1>1, <1>2, <1>3

LEMMA StartStageKeeps ==
  ASSUME LearnInv, NEW r \in LearnerRequests, NEW s \in Stages, StartStage(r, s)
  PROVE  LearnInv'
<1>1. PICK x : x = [pc |-> "stage", stage |-> s, day |-> studyDay, before |-> Rows(s[1]), row |-> stats]
  OBVIOUS
<1>2. /\ asking' = [asking EXCEPT ![r] = x]
      /\ asking[r].pc = "idle" /\ done[s] = 0 /\ CanAttempt(s) /\ crossed' = (crossed \/ Overlap)
      /\ UNCHANGED <<done, stats, checks, certs, studyDay, activeOn>>
  BY <1>1 DEF StartStage
<1>3. done \in [Stages -> Nat] /\ stats \in StatsRows /\ studyDay \in 1..LastActivityDay
        /\ crossed \in BOOLEAN /\ InOrder
  BY DEF LearnInv, LearnTyped
<1>4. s[1] \in Tracks /\ s[2] \in 1..Lengths[s[1]] /\ Rows(s[1]) \in Nat
        /\ s[2] \in Nat \ {0} /\ Lengths[s[1]] \in Nat
  BY <1>3, StageIs, RowsFinite
<1>5. s[2] - 1 \in 0..Lengths[s[1]] /\ 1..(s[2] - 1) \subseteq Finished(s[1])
  <2>1. s[2] - 1 \in 0..Lengths[s[1]]
    BY <1>4
  <2>2. s[2] - 1 \in Finished(s[1]) \/ s[2] - 1 = 0
    BY <1>2 DEF CanAttempt
  <2>3. CASE s[2] - 1 = 0
    BY <2>1, <2>3
  <2>4. CASE s[2] - 1 \in Finished(s[1])
    BY <1>3, <1>4, <2>1, <2>4 DEF InOrder
  <2> QED
    BY <2>1, <2>2, <2>3, <2>4
<1>6. Rows(s[1]) >= s[2] - 1
  BY <1>3, <1>4, <1>5, RowsAtLeast
<1>7. /\ x \in AskStates
      /\ x.pc = "stage" /\ x.stage = s /\ x.day = studyDay /\ x.before = Rows(s[1]) /\ x.row = stats
  BY <1>1, <1>3, <1>4 DEF AskStates
<1>8. AskTyped(x)
  BY <1>3, <1>7 DEF AskTyped, Awarding
<1>9. MayComplete(x)
  BY <1>2, <1>6, <1>7 DEF MayComplete, Completing
<1>10. crossed' \in BOOLEAN /\ (crossed => crossed')
         /\ (~crossed' => ~crossed /\ \A q \in LearnerRequests : asking[q].pc = "idle")
  BY <1>2, <1>3, OverlapIs
<1>11. ASSUME ~crossed' PROVE ReadStats(x) /\ CompletesOnce(x)
  <2>1. OneByOne
    BY <1>10, <1>11 DEF LearnInv
  <2>2. stats.last <= studyDay
    BY <2>1, LastIsPast DEF LearnInv
  <2>3. ReadStats(x)
    BY <1>7, <2>2 DEF ReadStats, SameStats
  <2>4. Rows(s[1]) = s[2] - 1
    <3>1. PICK m \in 0..Lengths[s[1]] : Finished(s[1]) = 1..m
      BY <1>3, <1>4, FinishedFirst
    <3>2. s[2] \notin Finished(s[1])
      BY <1>2, StageIs DEF Finished
    <3>3. m = s[2] - 1
      BY <1>4, <1>5, <3>1, <3>2
    <3>4. \A u \in Stages : done[u] <= 1
      BY <2>1 DEF OneByOne, DoneOnce
    <3> QED
      BY <1>3, <1>4, <3>1, <3>3, <3>4, RowsExact
  <2>5. CompletesOnce(x)
    BY <1>2, <1>7, <2>4 DEF CompletesOnce
  <2> QED
    BY <2>3, <2>5
<1> QED
  BY <1>2, <1>7, <1>8, <1>9, <1>10, <1>11, AskMoves

LEMMA ReadCertificateKeeps ==
  ASSUME LearnInv, NEW r \in LearnerRequests, ReadCertificate(r)
  PROVE  LearnInv'
<1>1. PICK a : a = asking[r]
  OBVIOUS
<1>2. PICK i : i = (a.before + 1 >= Lengths[a.stage[1]] /\ certs[a.stage[1]] = 0)
  OBVIOUS
<1>3. PICK x : x = [pc |-> "award", stage |-> a.stage, day |-> a.day, row |-> a.row, issue |-> i]
  OBVIOUS
<1>4. /\ a.pc = "stage" /\ asking' = [asking EXCEPT ![r] = x]
      /\ UNCHANGED <<done, stats, checks, certs, studyDay, activeOn, crossed>>
  BY <1>1, <1>2, <1>3, Zenon DEF ReadCertificate, Certifies
<1>5. a \in AskStates /\ AskTyped(a) /\ MayComplete(a) /\ crossed \in BOOLEAN
        /\ certs \in [Tracks -> Nat]
  BY <1>1 DEF LearnInv, LearnTyped
<1>6. a.stage \in Stages /\ a.day \in 1..LastActivityDay /\ a.row \in StatsRows /\ a.before \in Nat
  BY <1>4, <1>5, AskKinds DEF Awarding, Completing
<1>7. /\ x \in AskStates
      /\ x.pc = "award" /\ x.stage = a.stage /\ x.day = a.day /\ x.row = a.row /\ x.issue = i
  <2>1. i \in BOOLEAN
    BY <1>2
  <2> QED
    BY <1>3, <1>6, <2>1 DEF AskStates
<1>8. AskTyped(x)
  BY <1>4, <1>5, <1>7 DEF AskTyped, Awarding
<1>9. a.stage[1] \in Tracks /\ a.stage[2] \in 1..Lengths[a.stage[1]] /\ Lengths[a.stage[1]] \in Nat
        /\ certs[a.stage[1]] \in Nat
  BY <1>5, <1>6, StageIs
<1>10. MayComplete(x)
  <2>1. CanAttempt(a.stage) /\ a.before >= a.stage[2] - 1
    BY <1>4, <1>5 DEF MayComplete, Completing
  <2>2. ASSUME a.stage[2] = Lengths[a.stage[1]] PROVE i \/ certs[a.stage[1]] > 0
    <3>1. a.before + 1 >= Lengths[a.stage[1]]
      BY <1>6, <1>9, <2>1, <2>2
    <3>2. certs[a.stage[1]] = 0 => i
      BY <1>2, <3>1, Zenon
    <3> QED
      BY <1>9, <3>2
  <2> QED
    BY <1>7, <2>1, <2>2 DEF MayComplete
<1>11. ASSUME ~crossed PROVE ReadStats(x) /\ CompletesOnce(x)
                              /\ \A q \in LearnerRequests : q # r => asking[q].pc = "idle"
  <2>1. OneByOne
    BY <1>11 DEF LearnInv
  <2>2. ReadStats(a) /\ CompletesOnce(a)
    BY <1>1, <2>1 DEF OneByOne
  <2>3. ReadStats(x)
    BY <1>4, <1>7, <2>2 DEF ReadStats, Awarding
  <2>4. done[a.stage] = 0 /\ a.before = a.stage[2] - 1
    BY <1>4, <2>2 DEF CompletesOnce, Completing
  <2>5. certs[a.stage[1]] = 0
    <3>1. a.stage[2] \in Unfinished(a.stage[1])
      BY <1>6, <1>9, <2>4, StageIs DEF Unfinished, Finished
    <3>2. CertifiedOnce /\ Unfinished(a.stage[1]) # {}
      BY <2>1, <3>1 DEF OneByOne
    <3>3. certs[a.stage[1]] = (IF Unfinished(a.stage[1]) = {} THEN 1 ELSE 0)
      BY <1>9, <3>2, Zenon DEF CertifiedOnce
    <3> QED
      BY <3>2, <3>3
  <2>6. i <=> a.stage[2] = Lengths[a.stage[1]]
    <3>1. a.before + 1 >= Lengths[a.stage[1]] <=> a.stage[2] = Lengths[a.stage[1]]
      BY <1>6, <1>9, <2>4
    <3> QED
      BY <1>2, <2>5, <3>1, Zenon
  <2>7. CompletesOnce(x)
    BY <1>7, <2>4, <2>6 DEF CompletesOnce
  <2>8. \A q \in LearnerRequests : q # r => asking[q].pc = "idle"
    BY <1>1, <1>4, <2>1 DEF OneByOne, OneAsks
  <2> QED
    BY <2>3, <2>7, <2>8
<1> QED
  BY <1>4, <1>5, <1>7, <1>8, <1>10, <1>11, AskMoves

LEMMA StartGameKeeps ==
  ASSUME LearnInv, NEW r \in LearnerRequests, StartGame(r)
  PROVE  LearnInv'
<1>1. PICK x : x = [pc |-> "game", day |-> studyDay, row |-> stats]
  OBVIOUS
<1>2. /\ asking' = [asking EXCEPT ![r] = x] /\ asking[r].pc = "idle"
      /\ crossed' = (crossed \/ Overlap)
      /\ UNCHANGED <<done, stats, checks, certs, studyDay, activeOn>>
  BY <1>1 DEF StartGame
<1>3. stats \in StatsRows /\ studyDay \in 1..LastActivityDay /\ crossed \in BOOLEAN
  BY DEF LearnInv, LearnTyped
<1>4. x \in AskStates /\ x.pc = "game" /\ x.day = studyDay /\ x.row = stats
  BY <1>1, <1>3 DEF AskStates
<1>5. AskTyped(x) /\ MayComplete(x) /\ CompletesOnce(x)
  BY <1>3, <1>4 DEF AskTyped, Awarding, MayComplete, CompletesOnce, Completing
<1>6. crossed' \in BOOLEAN /\ (crossed => crossed')
         /\ (~crossed' => ~crossed /\ \A q \in LearnerRequests : asking[q].pc = "idle")
  BY <1>2, <1>3, OverlapIs
<1>7. ASSUME ~crossed' PROVE ReadStats(x)
  <2>1. stats.last <= studyDay
    BY <1>6, <1>7, LastIsPast DEF LearnInv
  <2> QED
    BY <1>4, <2>1 DEF ReadStats, SameStats
<1> QED
  BY <1>2, <1>4, <1>5, <1>6, <1>7, AskMoves

LEMMA StartRecallKeeps ==
  ASSUME LearnInv, NEW r \in LearnerRequests, NEW i \in DOMAIN checks, StartRecall(r, i)
  PROVE  LearnInv'
<1>1. PICK x : x = [pc |-> "recall", check |-> i]
  OBVIOUS
<1>2. /\ asking' = [asking EXCEPT ![r] = x] /\ asking[r].pc = "idle"
      /\ crossed' = (crossed \/ Overlap)
      /\ UNCHANGED <<done, stats, checks, certs, studyDay, activeOn>>
  BY <1>1 DEF StartRecall
<1>3. checks \in Seq(CheckRows) /\ crossed \in BOOLEAN
  BY DEF LearnInv, LearnTyped
<1>4. x \in AskStates /\ x.pc = "recall" /\ x.check = i
  BY <1>1, <1>3 DEF AskStates
<1>5. AskTyped(x) /\ MayComplete(x) /\ CompletesOnce(x) /\ ReadStats(x)
  BY <1>4 DEF AskTyped, Awarding, MayComplete, CompletesOnce, Completing, ReadStats
<1>6. crossed' \in BOOLEAN /\ (crossed => crossed')
         /\ (~crossed' => ~crossed /\ \A q \in LearnerRequests : asking[q].pc = "idle")
  BY <1>2, <1>3, OverlapIs
<1> QED
  BY <1>2, <1>4, <1>5, <1>6, AskMoves

(* What happens beside the requests.                                       *)
LEMMA BesideRequests ==
  ASSUME LearnInv, UNCHANGED <<done, certs, asking, activeOn, crossed>>,
         stats' \in StatsRows, SameStats(stats', stats),
         checks' \in Seq(CheckRows), Len(checks) <= Len(checks'),
         \A i \in DOMAIN checks : checks'[i] = checks[i],
         studyDay' \in 1..LastActivityDay, studyDay <= studyDay'
  PROVE  LearnInv'
<1>1. LearnTyped /\ InOrder /\ Certified /\ RecallGoesOn
  BY DEF LearnInv
<1>2. asking \in [LearnerRequests -> AskStates] /\ checks \in Seq(CheckRows)
        /\ studyDay \in Nat /\ studyDay' \in Nat
  BY <1>1, TracksHaveStages DEF LearnTyped
<1>3. DOMAIN checks \subseteq DOMAIN checks'
  BY <1>2
<1>4. ASSUME NEW a \in AskStates, AskTyped(a) PROVE AskTyped(a)'
  <2>1. a.pc = "recall" => a.check \in DOMAIN checks'
    BY <1>3, <1>4 DEF AskTyped
  <2>2. Awarding(a) => a.day <= studyDay'
    <3>1. ASSUME Awarding(a) PROVE a.day <= studyDay /\ a.day \in Nat
      BY <1>4, <3>1, AskKinds, TracksHaveStages DEF AskTyped
    <3> QED
      BY <1>2, <3>1
  <2> QED
    BY <2>1, <2>2 DEF AskTyped, Awarding
<1>5. LearnTyped'
  <2>1. \A r \in LearnerRequests : AskTyped(asking[r])
    BY <1>1 DEF LearnTyped
  <2>2. \A r \in LearnerRequests : AskTyped(asking[r])'
    BY <1>2, <1>4, <2>1
  <2>3. (\A r \in LearnerRequests : AskTyped(asking[r]))'
    BY <2>2
  <2>4. activeOn' \subseteq 1..studyDay'
    BY <1>1, <1>2 DEF LearnTyped
  <2> QED
    BY <1>1, <2>3, <2>4 DEF LearnTyped
<1>6. RecallGoesOn'
  <2>1. \A s \in Stages : done[s] > 0 =>
          \E i \in DOMAIN checks' : checks'[i].stage = s /\ checks'[i].open
    BY <1>1, <1>3 DEF RecallGoesOn
  <2> QED
    BY <2>1 DEF RecallGoesOn
<1>7. InOrder' /\ Certified'
  BY <1>1, DoneStays
<1>8. (\A r \in LearnerRequests : MayComplete(asking[r]))'
  BY <1>2, DoneStays DEF LearnInv
<1>9. ASSUME OneByOne PROVE OneByOne'
  <2>1. OneAsks' /\ DoneOnce' /\ CertifiedOnce'
    BY <1>9, DoneStays DEF OneByOne, OneAsks
  <2>2. StreaksOf(stats, activeOn)'
    BY <1>9 DEF OneByOne, StreaksOf, SameStats
  <2>3. \A r \in LearnerRequests : ReadStats(asking[r])'
    <3>1. \A r \in LearnerRequests : ReadStats(asking[r])
      BY <1>9 DEF OneByOne
    <3> QED
      BY <3>1 DEF ReadStats, SameStats, Awarding
  <2>4. \A r \in LearnerRequests : CompletesOnce(asking[r])'
    BY <1>2, <1>9, DoneStays DEF OneByOne
  <2> QED
    BY <2>1, <2>2, <2>3, <2>4 DEF OneByOne
<1> QED
  BY <1>1, <1>5, <1>6, <1>7, <1>8, <1>9 DEF LearnInv

LEMMA StaysKeeps == LearnInv /\ UNCHANGED <<done, stats, checks, certs, studyDay, asking, activeOn, crossed>> => LearnInv'
<1> SUFFICES ASSUME LearnInv, UNCHANGED <<done, stats, checks, certs, studyDay, asking, activeOn, crossed>>
             PROVE  LearnInv'
  OBVIOUS
<1>1. stats \in StatsRows /\ checks \in Seq(CheckRows) /\ studyDay \in 1..LastActivityDay
  BY DEF LearnInv, LearnTyped
<1>2. SameStats(stats', stats) /\ Len(checks) <= Len(checks') /\ studyDay <= studyDay'
  BY <1>1 DEF SameStats
<1> QED
  BY <1>1, <1>2, BesideRequests

LEMMA OverviewKeeps == LearnInv /\ OpenOverview => LearnInv'
<1> SUFFICES ASSUME LearnInv, OpenOverview PROVE LearnInv'
  OBVIOUS
<1>1. stats \in StatsRows /\ checks \in Seq(CheckRows) /\ studyDay \in 1..LastActivityDay
  BY DEF LearnInv, LearnTyped
<1>2. stats' = [stats EXCEPT !.exists = TRUE]
        /\ UNCHANGED <<done, checks, certs, studyDay, asking, activeOn, crossed>>
  BY DEF OpenOverview
<1>3. stats' \in StatsRows /\ SameStats(stats', stats)
  BY <1>1, <1>2 DEF StatsRows, SameStats
<1>4. Len(checks) <= Len(checks') /\ studyDay <= studyDay'
  BY <1>1, <1>2
<1> QED
  BY <1>1, <1>2, <1>3, <1>4, BesideRequests

LEMMA NextDayKeeps == LearnInv /\ NextDay => LearnInv'
<1> SUFFICES ASSUME LearnInv, NextDay PROVE LearnInv'
  OBVIOUS
<1>1. stats \in StatsRows /\ checks \in Seq(CheckRows) /\ studyDay \in 1..LastActivityDay
        /\ LastActivityDay \in Nat
  BY TracksHaveStages DEF LearnInv, LearnTyped
<1>2. studyDay' = studyDay + 1 /\ studyDay < LastActivityDay
        /\ UNCHANGED <<done, stats, checks, certs, asking, activeOn, crossed>>
  BY DEF NextDay
<1>3. SameStats(stats', stats) /\ Len(checks) <= Len(checks') /\ studyDay <= studyDay'
        /\ studyDay' \in 1..LastActivityDay
  BY <1>1, <1>2 DEF SameStats
<1> QED
  BY <1>1, <1>2, <1>3, BesideRequests

LEMMA FlashcardKeeps ==
  ASSUME LearnInv, NEW s \in Stages, ReviewFlashcard(s)
  PROVE  LearnInv'
<1>1. stats \in StatsRows /\ checks \in Seq(CheckRows) /\ studyDay \in 1..LastActivityDay
  BY DEF LearnInv, LearnTyped
<1>2. checks' = Append(checks, FirstCheck(s))
        /\ UNCHANGED <<done, stats, certs, studyDay, asking, activeOn, crossed>>
  BY DEF ReviewFlashcard
<1>3. FirstCheck(s) \in CheckRows
  BY DEF FirstCheck, CheckRows
<1>4. checks' \in Seq(CheckRows) /\ Len(checks) <= Len(checks')
        /\ \A i \in DOMAIN checks : checks'[i] = checks[i]
  BY <1>1, <1>2, <1>3
<1>5. SameStats(stats', stats) /\ studyDay <= studyDay'
  BY <1>1, <1>2 DEF SameStats
<1> QED
  BY <1>1, <1>2, <1>4, <1>5, BesideRequests

LEMMA UpdateTyped ==
  ASSUME NEW kept \in StatsRows, NEW day \in 1..LastActivityDay
  PROVE  UpdateStreak(kept, day) \in StatsRows
<1>1. LastActivityDay \in Nat /\ kept.streak \in Nat /\ kept.longest \in Nat /\ kept.xp \in Nat
        /\ day \in 0..LastActivityDay
  BY TracksHaveStages DEF StatsRows
<1>2. PICK n : n = IF kept.last > 0 /\ day = kept.last + 1 THEN kept.streak + 1 ELSE 1
  OBVIOUS
<1>3. PICK l : l = kept.longest
  OBVIOUS
<1>4. PICK m : m = Max({l, n})
  OBVIOUS
<1>5. n \in Nat
  BY <1>1, <1>2
<1>6. l \in Int /\ n \in Int
  BY <1>1, <1>3, <1>5
<1>7. m \in {l, n}
  BY <1>4, <1>6, MaxOfTwo, Zenon
<1>8. m \in Nat /\ kept.xp + 1 \in Nat
  BY <1>1, <1>3, <1>5, <1>7
<1>9. [kept EXCEPT !.last = day, !.streak = n, !.longest = m, !.xp = kept.xp + 1] \in StatsRows
  BY <1>1, <1>5, <1>8 DEF StatsRows
<1>10. kept.last # day => UpdateStreak(kept, day) =
          [kept EXCEPT !.last = day, !.streak = n, !.longest = m, !.xp = kept.xp + 1]
  BY <1>2, <1>3, <1>4, Zenon DEF UpdateStreak
<1>11. kept.last = day => UpdateStreak(kept, day) = kept
  BY DEF UpdateStreak
<1> QED
  BY <1>9, <1>10, <1>11

LEMMA FlushedTyped ==
  ASSUME NEW kept \in StatsRows, NEW copy \in StatsRows, NEW new \in StatsRows
  PROVE  LET f == [Flushed(kept, copy, new) EXCEPT !.exists = TRUE]
         IN  f \in StatsRows /\ (SameStats(copy, kept) => SameStats(f, new))
<1>1. DOMAIN kept = {"exists", "last", "streak", "longest", "xp"}
  BY DEF StatsRows
<1>2. PICK f : f = [Flushed(kept, copy, new) EXCEPT !.exists = TRUE]
  OBVIOUS
<1>3. f = [exists |-> TRUE,
           last |-> IF new.last # copy.last THEN new.last ELSE kept.last,
           streak |-> IF new.streak # copy.streak THEN new.streak ELSE kept.streak,
           longest |-> IF new.longest # copy.longest THEN new.longest ELSE kept.longest,
           xp |-> IF new.xp # copy.xp THEN new.xp ELSE kept.xp]
  BY <1>1, <1>2 DEF Flushed
<1>4. f \in StatsRows
  BY <1>3 DEF StatsRows
<1>5. SameStats(copy, kept) => SameStats(f, new)
  BY <1>3 DEF SameStats
<1> QED
  BY <1>2, <1>4, <1>5

(* A check that is answered closes, and the next one takes its place.      *)
LEMMA RecallKeeps ==
  ASSUME LearnInv, NEW r \in LearnerRequests, NEW passed \in BOOLEAN, CompleteRecall(r, passed)
  PROVE  LearnInv'
<1>1. LearnTyped /\ InOrder /\ Certified /\ RecallGoesOn
  BY DEF LearnInv
<1>2. PICK i : i = asking[r].check
  OBVIOUS
<1>3. PICK old : old = [checks EXCEPT ![i].open = FALSE]
  OBVIOUS
<1>4. PICK now : now = [checks[i] EXCEPT !.open = TRUE, !.index = NextIndex(checks[i].index, passed)]
  OBVIOUS
<1>5. /\ asking[r].pc = "recall" /\ asking' = [asking EXCEPT ![r] = Resting]
      /\ UNCHANGED <<done, stats, certs, studyDay, activeOn, crossed>>
      /\ checks' = old \o <<now>>
  BY <1>2, <1>3, <1>4, Zenon DEF CompleteRecall, Successor
<1>6. i \in DOMAIN checks /\ checks \in Seq(CheckRows) /\ checks[i] \in CheckRows
        /\ asking \in [LearnerRequests -> AskStates]
  <2>1. AskTyped(asking[r]) /\ checks \in Seq(CheckRows) /\ asking \in [LearnerRequests -> AskStates]
    BY <1>1 DEF LearnTyped
  <2>2. i \in DOMAIN checks
    BY <1>2, <1>5, <2>1 DEF AskTyped
  <2> QED
    BY <2>1, <2>2
<1>7. old \in Seq(CheckRows) /\ Len(old) = Len(checks)
        /\ \A k \in DOMAIN checks : old[k].stage = checks[k].stage /\ (k # i => old[k] = checks[k])
  <2>1. [checks[i] EXCEPT !.open = FALSE] \in CheckRows
    BY <1>6 DEF CheckRows
  <2>2. old \in Seq(CheckRows) /\ Len(old) = Len(checks) /\ DOMAIN old = DOMAIN checks
    BY <1>3, <1>6, <2>1
  <2>3. \A k \in DOMAIN checks : old[k] = IF k = i THEN [checks[i] EXCEPT !.open = FALSE] ELSE checks[k]
    BY <1>3, <1>6
  <2>4. [checks[i] EXCEPT !.open = FALSE].stage = checks[i].stage
    BY <1>6 DEF CheckRows
  <2> QED
    BY <2>2, <2>3, <2>4
<1>8. now \in CheckRows /\ now.stage = checks[i].stage /\ now.open
  <2>1. NextIndex(checks[i].index, passed) \in Nat
    <3>1. PICK n : n = checks[i].index + 1
      OBVIOUS
    <3>2. n \in Nat
      BY <1>6, <3>1 DEF CheckRows
    <3>3. n \in Int /\ 4 \in Int
      BY <3>2
    <3>4. Min({n, 4}) \in {n, 4}
      BY <3>3, MinOfTwo, Zenon
    <3>5. NextIndex(checks[i].index, passed) = IF passed THEN Min({n, 4}) ELSE 0
      BY <3>1 DEF NextIndex, LastInterval
    <3> QED
      BY <3>2, <3>4, <3>5
  <2> QED
    BY <1>4, <1>6, <2>1 DEF CheckRows
<1>9. /\ checks' \in Seq(CheckRows) /\ DOMAIN checks \subseteq DOMAIN checks'
      /\ Len(checks) + 1 \in DOMAIN checks' /\ checks'[Len(checks) + 1] = now
      /\ \A k \in DOMAIN checks : checks'[k] = old[k]
  BY <1>5, <1>6, <1>7, <1>8
<1>10. \A q \in LearnerRequests : asking'[q] = IF q = r THEN Resting ELSE asking[q]
  BY <1>5, <1>6
<1>11. asking' \in [LearnerRequests -> AskStates]
  BY <1>5, <1>6, IdleIsSound
<1>12. LearnTyped'
  <2>1. \A q \in LearnerRequests : AskTyped(asking[q])
    BY <1>1 DEF LearnTyped
  <2>2. \A a \in AskStates : AskTyped(a) => AskTyped(a)'
    BY <1>5, <1>9 DEF AskTyped, Awarding
  <2>3. \A q \in LearnerRequests : AskTyped(asking'[q])
    BY <1>10, <2>1, IdleIsSound
  <2>4. (\A q \in LearnerRequests : AskTyped(asking[q]))'
    BY <1>11, <2>2, <2>3
  <2> QED
    BY <1>1, <1>5, <1>9, <1>11, <2>4 DEF LearnTyped
<1>13. RecallGoesOn'
  <2> SUFFICES ASSUME NEW s \in Stages, done[s] > 0
               PROVE  \E k \in DOMAIN checks' : checks'[k].stage = s /\ checks'[k].open
    BY <1>5 DEF RecallGoesOn
  <2>1. PICK k \in DOMAIN checks : checks[k].stage = s /\ checks[k].open
    BY <1>1 DEF RecallGoesOn
  <2>2. CASE k = i
    BY <1>8, <1>9, <2>1, <2>2
  <2>3. CASE k # i
    BY <1>7, <1>9, <2>1, <2>3
  <2> QED
    BY <2>2, <2>3
<1>14. InOrder' /\ Certified'
  BY <1>1, <1>5, DoneStays
<1>15. (\A q \in LearnerRequests : MayComplete(asking[q]))'
  <2>1. \A q \in LearnerRequests : MayComplete(asking'[q])
    BY <1>10, IdleIsSound DEF LearnInv
  <2> QED
    BY <1>5, <1>11, <2>1, DoneStays
<1>16. ASSUME OneByOne PROVE OneByOne'
  <2>1. OneAsks'
    BY <1>10, <1>16, IdleIsSound DEF OneByOne, OneAsks
  <2>2. DoneOnce' /\ CertifiedOnce'
    BY <1>5, <1>16, DoneStays DEF OneByOne
  <2>3. StreaksOf(stats, activeOn)'
    BY <1>5, <1>16 DEF OneByOne
  <2>4. \A q \in LearnerRequests : ReadStats(asking'[q]) /\ CompletesOnce(asking'[q])
    BY <1>10, <1>16, IdleIsSound DEF OneByOne
  <2>5. \A a \in AskStates : ReadStats(a) => ReadStats(a)'
    BY <1>5 DEF ReadStats, Awarding
  <2>6. (\A q \in LearnerRequests : ReadStats(asking[q]) /\ CompletesOnce(asking[q]))'
    BY <1>5, <1>11, <2>4, <2>5, DoneStays
  <2> QED
    BY <2>1, <2>2, <2>3, <2>6 DEF OneByOne
<1> QED
  BY <1>5, <1>12, <1>13, <1>14, <1>15, <1>16 DEF LearnInv

(* The commit of an activity: who is alone writes the streak that follows  *)
(* from the row he read.                                                   *)
ActivityOf(a) ==
  /\ stats' = [Flushed(stats, a.row, UpdateStreak(a.row, a.day)) EXCEPT !.exists = TRUE]
  /\ activeOn' = activeOn \cup {a.day}

LEMMA ActivityTyped ==
  ASSUME LearnTyped, NEW r \in LearnerRequests, Awarding(asking[r]), ActivityOf(asking[r])
  PROVE  stats' \in StatsRows /\ activeOn' \subseteq 1..studyDay
<1>1. PICK a : a = asking[r]
  OBVIOUS
<1>2. a \in AskStates /\ AskTyped(a) /\ stats \in StatsRows /\ studyDay \in Nat
  BY <1>1, TracksHaveStages DEF LearnTyped
<1>3. a.day \in 1..LastActivityDay /\ a.row \in StatsRows /\ a.day <= studyDay
  BY <1>1, <1>2, AskKinds DEF AskTyped
<1>4. UpdateStreak(a.row, a.day) \in StatsRows
  BY <1>3, UpdateTyped
<1>5. stats' \in StatsRows
  BY <1>1, <1>2, <1>3, <1>4, FlushedTyped DEF ActivityOf
<1>6. activeOn' \subseteq 1..studyDay
  BY <1>1, <1>2, <1>3, TracksHaveStages DEF ActivityOf, LearnTyped
<1> QED
  BY <1>5, <1>6

LEMMA ActivityCounts ==
  ASSUME LearnTyped, OneByOne, NEW r \in LearnerRequests, Awarding(asking[r]), ActivityOf(asking[r])
  PROVE  StreaksOf(stats, activeOn)'
<1>1. PICK a : a = asking[r]
  OBVIOUS
<1>2. PICK new : new = UpdateStreak(a.row, a.day)
  OBVIOUS
<1>3. a \in AskStates /\ Awarding(a) /\ ReadStats(a) /\ stats \in StatsRows
  BY <1>1 DEF LearnTyped, OneByOne
<1>4. a.day \in 1..LastActivityDay /\ a.row \in StatsRows
  BY <1>3, AskKinds
<1>5. SameStats(a.row, stats) /\ a.row.last <= a.day
  BY <1>3 DEF ReadStats, SameStats
<1>6. activeOn \in SUBSET (1..LastActivityDay)
  BY TracksHaveStages DEF LearnTyped
<1>7. StreaksOf(a.row, activeOn)
  BY <1>5 DEF OneByOne, StreaksOf, SameStats
<1>8. new \in StatsRows /\ StreaksOf(new, activeOn \cup {a.day})
  BY <1>2, <1>4, <1>5, <1>6, <1>7, StreakGrows
<1>9. stats' = [Flushed(stats, a.row, new) EXCEPT !.exists = TRUE]
        /\ activeOn' = activeOn \cup {a.day}
  BY <1>1, <1>2 DEF ActivityOf
<1>10. SameStats(stats', new)
  BY <1>3, <1>4, <1>5, <1>8, <1>9, FlushedTyped
<1> QED
  BY <1>8, <1>9, <1>10 DEF StreaksOf, SameStats

LEMMA GameKeeps ==
  ASSUME LearnInv, NEW r \in LearnerRequests, CompleteGame(r)
  PROVE  LearnInv'
<1>1. LearnTyped /\ InOrder /\ Certified /\ RecallGoesOn
  BY DEF LearnInv
<1>2. /\ asking[r].pc = "game" /\ asking' = [asking EXCEPT ![r] = Resting]
      /\ UNCHANGED <<done, checks, certs, studyDay, crossed>>
      /\ ActivityOf(asking[r]) /\ Awarding(asking[r])
  BY DEF CompleteGame, ActivityOf, Awarding
<1>3. asking \in [LearnerRequests -> AskStates]
  BY <1>1 DEF LearnTyped
<1>4. \A q \in LearnerRequests : asking'[q] = IF q = r THEN Resting ELSE asking[q]
  BY <1>2, <1>3
<1>5. asking' \in [LearnerRequests -> AskStates]
  BY <1>2, <1>3, IdleIsSound
<1>6. LearnTyped'
  <2>1. stats' \in StatsRows /\ activeOn' \subseteq 1..studyDay
    BY <1>1, <1>2, ActivityTyped
  <2>2. \A q \in LearnerRequests : AskTyped(asking'[q])
    BY <1>1, <1>4, IdleIsSound DEF LearnTyped
  <2>3. (\A q \in LearnerRequests : AskTyped(asking[q]))'
    BY <1>2, <2>2 DEF AskTyped, Awarding
  <2> QED
    BY <1>1, <1>2, <1>5, <2>1, <2>3 DEF LearnTyped
<1>7. InOrder' /\ Certified' /\ RecallGoesOn'
  BY <1>1, <1>2, DoneStays DEF RecallGoesOn
<1>8. (\A q \in LearnerRequests : MayComplete(asking[q]))'
  <2>1. \A q \in LearnerRequests : MayComplete(asking'[q])
    BY <1>4, IdleIsSound DEF LearnInv
  <2> QED
    BY <1>2, <1>5, <2>1, DoneStays
<1>9. ASSUME OneByOne PROVE OneByOne'
  <2>1. \A q \in LearnerRequests : asking'[q].pc = "idle"
    BY <1>2, <1>4, <1>9, IdleIsSound DEF OneByOne, OneAsks
  <2>2. OneAsks' /\ (\A q \in LearnerRequests : ReadStats(asking[q]) /\ CompletesOnce(asking[q]))'
    BY <2>1 DEF OneAsks, ReadStats, CompletesOnce, Awarding, Completing
  <2>3. DoneOnce' /\ CertifiedOnce'
    BY <1>2, <1>9, DoneStays DEF OneByOne
  <2>4. StreaksOf(stats, activeOn)'
    BY <1>1, <1>2, <1>9, ActivityCounts
  <2> QED
    BY <2>2, <2>3, <2>4 DEF OneByOne
<1> QED
  BY <1>2, <1>6, <1>7, <1>8, <1>9 DEF LearnInv

(* A stage is completed after the one before it, so the last one is the    *)
(* last to come, and the request that completes it has found a certificate *)
(* or brings one.                                                          *)
LEMMA StageAdds ==
  ASSUME LearnInv, NEW s \in Stages, CanAttempt(s), done' = [done EXCEPT ![s] = done[s] + 1]
  PROVE  /\ done' \in [Stages -> Nat]
         /\ \A t \in Tracks : Finished(t)' = IF t = s[1] THEN Finished(t) \cup {s[2]} ELSE Finished(t)
         /\ InOrder'
         /\ Unfinished(s[1])' = {} /\ Unfinished(s[1]) # {} => s[2] = Lengths[s[1]]
         /\ done[s] = 0 => (Unfinished(s[1])' = {} <=> s[2] = Lengths[s[1]]) /\ Unfinished(s[1]) # {}
<1>1. done \in [Stages -> Nat] /\ InOrder
  BY DEF LearnInv, LearnTyped
<1>2. s[1] \in Tracks /\ s[2] \in 1..Lengths[s[1]] /\ s = <<s[1], s[2]>>
        /\ Lengths[s[1]] \in Nat \ {0} /\ s[2] \in Nat \ {0}
  BY StageIs
<1>3. done' \in [Stages -> Nat] /\ \A u \in Stages : done'[u] = IF u = s THEN done[s] + 1 ELSE done[u]
  BY <1>1
<1>4. \A t \in Tracks : \A n \in 1..Lengths[t] :
        done'[<<t, n>>] > 0 <=> done[<<t, n>>] > 0 \/ (t = s[1] /\ n = s[2])
  <2> SUFFICES ASSUME NEW t \in Tracks, NEW n \in 1..Lengths[t]
               PROVE  done'[<<t, n>>] > 0 <=> done[<<t, n>>] > 0 \/ (t = s[1] /\ n = s[2])
    OBVIOUS
  <2>1. <<t, n>> \in Stages /\ (<<t, n>> = s <=> t = s[1] /\ n = s[2])
    BY <1>2, StageIs
  <2>2. done[<<t, n>>] \in Nat /\ done[s] \in Nat
    BY <1>1, <2>1
  <2> QED
    BY <1>3, <2>1, <2>2
<1>5. \A t \in Tracks : Finished(t)' = IF t = s[1] THEN Finished(t) \cup {s[2]} ELSE Finished(t)
  <2> SUFFICES ASSUME NEW t \in Tracks
               PROVE  Finished(t)' = IF t = s[1] THEN Finished(t) \cup {s[2]} ELSE Finished(t)
    OBVIOUS
  <2>1. Finished(t)' = {n \in 1..Lengths[t] : done'[<<t, n>>] > 0}
    BY DEF Finished
  <2>2. Finished(t) = {n \in 1..Lengths[t] : done[<<t, n>>] > 0}
    BY DEF Finished
  <2> QED
    BY <1>2, <1>4, <2>1, <2>2
<1>6. Finished(s[1])' = Finished(s[1]) \cup {s[2]}
  BY <1>2, <1>5
<1>7. 1..s[2] \subseteq Finished(s[1])'
  <2>1. s[2] - 1 \in Finished(s[1]) \/ s[2] - 1 = 0
    BY DEF CanAttempt
  <2>2. CASE s[2] - 1 = 0
    BY <1>2, <1>6, <2>2
  <2>3. CASE s[2] - 1 \in Finished(s[1])
    <3>1. 1..(s[2] - 1) \subseteq Finished(s[1])
      BY <1>1, <1>2, <2>3 DEF InOrder
    <3> QED
      BY <1>2, <1>6, <3>1
  <2> QED
    BY <2>1, <2>2, <2>3
<1>8. InOrder'
  <2> SUFFICES ASSUME NEW t \in Tracks, NEW n \in Finished(t)' PROVE 1..n \subseteq Finished(t)'
    BY DEF InOrder
  <2>1. CASE n \in Finished(t)
    <3>1. 1..n \subseteq Finished(t)
      BY <1>1, <2>1 DEF InOrder
    <3> QED
      BY <1>5, <3>1
  <2>2. CASE n \notin Finished(t)
    <3>1. t = s[1] /\ n = s[2]
      BY <1>5, <2>2
    <3> QED
      BY <1>7, <3>1
  <2> QED
    BY <2>1, <2>2
<1>9. PICK m \in 0..Lengths[s[1]] : /\ Finished(s[1]) = 1..m
                                    /\ Unfinished(s[1]) = {} <=> m = Lengths[s[1]]
  BY <1>1, <1>2, FinishedFirst
<1>10. Unfinished(s[1])' = (1..Lengths[s[1]]) \ (Finished(s[1]) \cup {s[2]})
  BY <1>6 DEF Unfinished
<1>11. ASSUME Unfinished(s[1])' = {}, Unfinished(s[1]) # {} PROVE s[2] = Lengths[s[1]]
  <2>1. Lengths[s[1]] \in 1..Lengths[s[1]] /\ Lengths[s[1]] \notin 1..m
    BY <1>2, <1>9, <1>11
  <2> QED
    BY <1>9, <1>10, <1>11, <2>1
<1>12. ASSUME done[s] = 0
       PROVE  (Unfinished(s[1])' = {} <=> s[2] = Lengths[s[1]]) /\ Unfinished(s[1]) # {}
  <2>1. s[2] \notin Finished(s[1])
    BY <1>2, <1>12 DEF Finished
  <2>2. m < s[2]
    BY <1>2, <1>9, <2>1
  <2>3. Unfinished(s[1]) # {}
    BY <1>2, <1>9, <2>2
  <2>4. ASSUME s[2] = Lengths[s[1]] PROVE Unfinished(s[1])' = {}
    BY <1>6, <1>7, <1>10, <2>4
  <2> QED
    BY <1>11, <2>3, <2>4
<1> QED
  BY <1>3, <1>5, <1>8, <1>11, <1>12

LEMMA StageKeeps ==
  ASSUME LearnInv, NEW r \in LearnerRequests, CompleteStage(r)
  PROVE  LearnInv'
<1>1. LearnTyped /\ InOrder /\ Certified /\ RecallGoesOn /\ MayComplete(asking[r])
  BY DEF LearnInv
<1>2. PICK a : a = asking[r]
  OBVIOUS
<1>3. PICK s : s = a.stage
  OBVIOUS
<1>4. /\ a.pc = "award" /\ asking' = [asking EXCEPT ![r] = Resting]
      /\ done' = [done EXCEPT ![s] = done[s] + 1]
      /\ checks' = Append(checks, FirstCheck(s))
      /\ certs' = IF a.issue THEN [certs EXCEPT ![s[1]] = certs[s[1]] + 1] ELSE certs
      /\ UNCHANGED <<studyDay, crossed>>
      /\ ActivityOf(a) /\ Awarding(a)
  BY <1>2, <1>3 DEF CompleteStage, ActivityOf, Awarding
<1>5. asking \in [LearnerRequests -> AskStates] /\ checks \in Seq(CheckRows)
        /\ certs \in [Tracks -> Nat] /\ done \in [Stages -> Nat]
  BY <1>1 DEF LearnTyped
<1>6. a \in AskStates /\ s \in Stages /\ a.issue \in BOOLEAN /\ MayComplete(a)
        /\ CanAttempt(s) /\ (s[2] = Lengths[s[1]] => a.issue \/ certs[s[1]] > 0)
  <2>1. a \in AskStates /\ MayComplete(a)
    BY <1>1, <1>2, <1>5
  <2>2. Completing(a)
    BY <1>4 DEF Completing
  <2> QED
    BY <1>3, <1>4, <2>1, <2>2, AskKinds DEF MayComplete
<1>7. s[1] \in Tracks /\ certs[s[1]] \in Nat
  BY <1>5, <1>6, StageIs
<1>8. /\ done' \in [Stages -> Nat] /\ InOrder'
      /\ \A t \in Tracks : Finished(t)' = IF t = s[1] THEN Finished(t) \cup {s[2]} ELSE Finished(t)
      /\ Unfinished(s[1])' = {} /\ Unfinished(s[1]) # {} => s[2] = Lengths[s[1]]
      /\ done[s] = 0 => (Unfinished(s[1])' = {} <=> s[2] = Lengths[s[1]]) /\ Unfinished(s[1]) # {}
  BY <1>4, <1>6, StageAdds
<1>9. \A t \in Tracks : t # s[1] => Unfinished(t)' = Unfinished(t)
  BY <1>8 DEF Unfinished
<1>10. /\ certs' \in [Tracks -> Nat] /\ \A t \in Tracks : t # s[1] => certs'[t] = certs[t]
       /\ certs'[s[1]] = IF a.issue THEN certs[s[1]] + 1 ELSE certs[s[1]]
  <2>1. CASE a.issue
    BY <1>4, <1>5, <1>7, <2>1
  <2>2. CASE ~a.issue
    BY <1>4, <1>5, <1>7, <2>2
  <2> QED
    BY <1>6, <2>1, <2>2
<1>11. \A q \in LearnerRequests : asking'[q] = IF q = r THEN Resting ELSE asking[q]
  BY <1>4, <1>5
<1>12. asking' \in [LearnerRequests -> AskStates]
  BY <1>4, <1>5, IdleIsSound
<1>13. /\ checks' \in Seq(CheckRows) /\ DOMAIN checks \subseteq DOMAIN checks'
       /\ \A i \in DOMAIN checks : checks'[i] = checks[i]
       /\ Len(checks) + 1 \in DOMAIN checks' /\ checks'[Len(checks) + 1].stage = s
       /\ checks'[Len(checks) + 1].open
  <2>1. FirstCheck(s) \in CheckRows /\ FirstCheck(s).stage = s /\ FirstCheck(s).open
    BY <1>6 DEF FirstCheck, CheckRows
  <2>2. PICK new : new = FirstCheck(s)
    OBVIOUS
  <2>3. new \in CheckRows /\ checks' = Append(checks, new) /\ new.stage = s /\ new.open
    BY <1>4, <2>1, <2>2
  <2>4. /\ checks' \in Seq(CheckRows) /\ Len(checks') = Len(checks) + 1 /\ Len(checks) \in Nat
        /\ \A i \in DOMAIN checks : checks'[i] = checks[i]
        /\ checks'[Len(checks) + 1] = new
    BY <1>5, <2>3
  <2> QED
    BY <1>5, <2>3, <2>4
<1>14. LearnTyped'
  <2>1. stats' \in StatsRows /\ activeOn' \subseteq 1..studyDay
    BY <1>1, <1>2, <1>4, ActivityTyped
  <2>2. \A q \in LearnerRequests : AskTyped(asking'[q])
    BY <1>1, <1>11, IdleIsSound DEF LearnTyped
  <2>3. (\A q \in LearnerRequests : AskTyped(asking[q]))'
    BY <1>4, <1>13, <2>2 DEF AskTyped, Awarding
  <2> QED
    BY <1>1, <1>4, <1>8, <1>10, <1>12, <1>13, <2>1, <2>3 DEF LearnTyped
<1>15. RecallGoesOn'
  <2> SUFFICES ASSUME NEW u \in Stages, done'[u] > 0
               PROVE  \E i \in DOMAIN checks' : checks'[i].stage = u /\ checks'[i].open
    BY DEF RecallGoesOn
  <2>1. CASE u = s
    BY <1>13, <2>1
  <2>2. CASE u # s
    <3>1. done[u] > 0
      BY <1>4, <1>5, <2>2
    <3> QED
      BY <1>1, <1>13, <3>1 DEF RecallGoesOn
  <2> QED
    BY <2>1, <2>2
<1>16. Certified'
  <2> SUFFICES ASSUME NEW t \in Tracks, Unfinished(t)' = {} PROVE certs'[t] > 0
    BY DEF Certified
  <2>1. CASE t # s[1]
    BY <1>1, <1>9, <1>10, <2>1 DEF Certified
  <2>2. CASE t = s[1] /\ Unfinished(t) = {}
    BY <1>1, <1>7, <1>10, <2>2 DEF Certified
  <2>3. CASE t = s[1] /\ Unfinished(t) # {}
    BY <1>6, <1>7, <1>8, <1>10, <2>3
  <2> QED
    BY <2>1, <2>2, <2>3
<1>17. (\A q \in LearnerRequests : MayComplete(asking[q]))'
  <2> SUFFICES ASSUME NEW q \in LearnerRequests PROVE MayComplete(asking[q])'
    OBVIOUS
  <2>1. PICK b : b = asking'[q]
    OBVIOUS
  <2>2. b \in AskStates /\ MayComplete(b)
    BY <1>11, <1>12, <2>1, IdleIsSound DEF LearnInv
  <2>3. ASSUME Completing(b) PROVE /\ CanAttempt(b.stage)'
                                   /\ b.stage[1] \in Tracks /\ certs'[b.stage[1]] >= certs[b.stage[1]]
                                   /\ certs[b.stage[1]] \in Nat /\ certs'[b.stage[1]] \in Nat
    <3>1. b.stage[1] \in Tracks /\ CanAttempt(b.stage)
      BY <2>2, <2>3, AskKinds, StageIs DEF MayComplete
    <3>2. Finished(b.stage[1]) \subseteq Finished(b.stage[1])'
      BY <1>8, <3>1
    <3>3. CanAttempt(b.stage)'
      BY <3>1, <3>2 DEF CanAttempt
    <3>4. certs[b.stage[1]] \in Nat /\ certs'[b.stage[1]] \in Nat
      BY <1>5, <1>10, <3>1
    <3>5. certs'[b.stage[1]] >= certs[b.stage[1]]
      BY <1>7, <1>10, <3>1, <3>4
    <3> QED
      BY <3>1, <3>3, <3>4, <3>5
  <2>4. MayComplete(b)'
    BY <2>2, <2>3 DEF MayComplete, Completing
  <2> QED
    BY <2>1, <2>4 DEF MayComplete, Completing, CanAttempt, Finished
<1>18. ASSUME OneByOne PROVE OneByOne'
  <2>1. \A q \in LearnerRequests : asking'[q].pc = "idle"
    BY <1>2, <1>4, <1>11, <1>18, IdleIsSound DEF OneByOne, OneAsks
  <2>2. OneAsks' /\ (\A q \in LearnerRequests : ReadStats(asking[q]) /\ CompletesOnce(asking[q]))'
    BY <2>1 DEF OneAsks, ReadStats, CompletesOnce, Awarding, Completing
  <2>3. done[s] = 0 /\ (a.issue <=> s[2] = Lengths[s[1]])
    <3>1. CompletesOnce(a)
      BY <1>2, <1>18 DEF OneByOne
    <3> QED
      BY <1>3, <1>4, <3>1 DEF CompletesOnce, Completing
  <2>4. DoneOnce'
    BY <1>4, <1>5, <1>18, <2>3 DEF OneByOne, DoneOnce
  <2>5. CertifiedOnce'
    <3>1. CertifiedOnce
      BY <1>18 DEF OneByOne
    <3> SUFFICES ASSUME NEW t \in Tracks
                 PROVE  certs'[t] = (IF Unfinished(t)' = {} THEN 1 ELSE 0)
      BY DEF CertifiedOnce
    <3>2. certs[t] = (IF Unfinished(t) = {} THEN 1 ELSE 0)
      BY <3>1, Zenon DEF CertifiedOnce
    <3>3. CASE t # s[1]
      BY <1>9, <1>10, <3>2, <3>3
    <3>4. CASE t = s[1]
      <4>1. certs[s[1]] = 0
        BY <1>8, <2>3, <3>2, <3>4
      <4> QED
        BY <1>6, <1>8, <1>10, <2>3, <3>4, <4>1
    <3> QED
      BY <3>3, <3>4
  <2>6. StreaksOf(stats, activeOn)'
    BY <1>1, <1>2, <1>4, <1>18, ActivityCounts
  <2> QED
    BY <2>2, <2>4, <2>5, <2>6 DEF OneByOne
<1> QED
  BY <1>4, <1>8, <1>14, <1>15, <1>16, <1>17, <1>18 DEF LearnInv

LEMMA NextLearn == LearnInv /\ [LearnNext]_learnVars => LearnInv'
<1> SUFFICES ASSUME LearnInv, [LearnNext]_learnVars PROVE LearnInv'
  OBVIOUS
<1>1. ASSUME NEW s \in Stages, SubmitQuiz(s) PROVE LearnInv'
  BY <1>1, StaysKeeps DEF SubmitQuiz
<1>2. ASSUME NEW s \in Stages, ReviewFlashcard(s) PROVE LearnInv'
  BY <1>2, FlashcardKeeps
<1>3. ASSUME NEW t \in Tracks, SubmitPractice(t) PROVE LearnInv'
  BY <1>3, StaysKeeps DEF SubmitPractice
<1>4. CASE OpenOverview
  BY <1>4, OverviewKeeps
<1>5. CASE NextDay
  BY <1>5, NextDayKeeps
<1>6. ASSUME NEW r \in LearnerRequests, NEW s \in Stages, StartStage(r, s) PROVE LearnInv'
  BY <1>6, StartStageKeeps
<1>7. ASSUME NEW r \in LearnerRequests, ReadCertificate(r) PROVE LearnInv'
  BY <1>7, ReadCertificateKeeps
<1>8. ASSUME NEW r \in LearnerRequests, CompleteStage(r) PROVE LearnInv'
  BY <1>8, StageKeeps
<1>9. ASSUME NEW r \in LearnerRequests, StartGame(r) PROVE LearnInv'
  BY <1>9, StartGameKeeps
<1>10. ASSUME NEW r \in LearnerRequests, CompleteGame(r) PROVE LearnInv'
  BY <1>10, GameKeeps
<1>11. ASSUME NEW r \in LearnerRequests, RequestFails(r) PROVE LearnInv'
  BY <1>11, FailureKeeps
<1>12. ASSUME NEW r \in LearnerRequests, NEW i \in DOMAIN checks, StartRecall(r, i) PROVE LearnInv'
  BY <1>12, StartRecallKeeps
<1>13. ASSUME NEW r \in LearnerRequests, NEW passed \in BOOLEAN, CompleteRecall(r, passed) PROVE LearnInv'
  BY <1>13, RecallKeeps
<1>14. CASE UNCHANGED learnVars
  BY <1>14, StaysKeeps DEF learnVars
<1> QED
  BY <1>1, <1>2, <1>3, <1>4, <1>5, <1>6, <1>7, <1>8, <1>9, <1>10, <1>11, <1>12, <1>13, <1>14 DEF LearnNext

(* What a learner did stays in order, certified and in the recall, and as  *)
(* long as requests come one by one each of it is counted once.            *)
THEOREM LearnInvariant == LearnSpec => []LearnInv
  BY InitLearn, NextLearn, PTL DEF LearnSpec

(* The certificate, the streak, the next stage and the recall follow what  *)
(* the learner did, for any tracks, requests and days.                     *)
THEOREM ProgressIsKept == LearnSpec => []ProgressKept
<1>1. LearnInv => ProgressKept
  <2> SUFFICES ASSUME LearnInv PROVE ProgressKept
    OBVIOUS
  <2>1. LearnTyped /\ InOrder /\ Certified /\ RecallGoesOn /\ (~crossed => OneByOne)
    BY DEF LearnInv
  <2>2. done \in [Stages -> Nat]
    BY <2>1 DEF LearnTyped
  <2>3. ASSUME ~crossed, NEW t \in Tracks PROVE Rows(t) >= Lengths[t] <=> Unfinished(t) = {}
    <3>1. PICK m \in 0..Lengths[t] : /\ Finished(t) = 1..m
                                     /\ Unfinished(t) = {} <=> m = Lengths[t]
      BY <2>1, FinishedFirst
    <3>2. \A s \in Stages : done[s] <= 1
      BY <2>1, <2>3 DEF OneByOne, DoneOnce
    <3>3. Rows(t) = m
      BY <2>2, <3>1, <3>2, RowsExact
    <3> QED
      BY <3>1, <3>3, StageIs
  <2>4. CertificateWhenDone
    <3>1. \A t \in Tracks : Unfinished(t) = {} => certs[t] > 0
      BY <2>1 DEF Certified
    <3>2. ASSUME ~crossed, NEW t \in Tracks PROVE certs[t] = (IF Unfinished(t) = {} THEN 1 ELSE 0)
      BY <2>1, <3>2, Zenon DEF OneByOne, CertifiedOnce
    <3>3. ASSUME ~crossed, NEW t \in Tracks PROVE Locked(t) <=> t > 1 /\ Unfinished(t - 1) # {}
      <4>1. CASE t > 1
        <5>1. t - 1 \in Tracks
          BY <4>1, TracksHaveStages DEF Tracks
        <5>2. Rows(t - 1) \in Nat /\ Lengths[t - 1] \in Nat
          BY <2>2, <5>1, RowsFinite, StageIs
        <5> QED
          BY <2>3, <3>3, <4>1, <5>1, <5>2 DEF Locked
      <4>2. CASE ~(t > 1)
        BY <4>2 DEF Locked
      <4> QED
        BY <4>1, <4>2
    <3>4. ASSUME ~crossed PROVE AllTracksComplete <=> \A t \in Tracks : Unfinished(t) = {}
      BY <2>3, <3>4 DEF AllTracksComplete
    <3> QED
      BY <3>1, <3>2, <3>3, <3>4 DEF CertificateWhenDone
  <2>5. StreakCountsDays
    <3>1. \A d : RunEndingAt(d) = RunIn(activeOn, d)
      BY DEF RunEndingAt, RunIn
    <3>2. {RunEndingAt(d) : d \in 0..LastActivityDay} = {RunIn(activeOn, d) : d \in 0..LastActivityDay}
      BY <3>1
    <3> QED
      BY <2>1, <3>1, <3>2 DEF StreakCountsDays, OneByOne, StreaksOf
  <2>6. NextIsOpen
    <3> SUFFICES ASSUME NEW t \in Tracks, Unfinished(t) # {}
                 PROVE  CanAttempt(ContinueAt(t))
      BY DEF NextIsOpen, Readable
    <3>1. Unfinished(t) \in SUBSET Nat
      BY StageIs DEF Unfinished
    <3>2. PICK n : n = Min(Unfinished(t))
      OBVIOUS
    <3>3. n \in Unfinished(t) /\ \A u \in Unfinished(t) : n <= u
      BY <3>1, <3>2, MinIsLeast
    <3>4. n \in 1..Lengths[t] /\ Lengths[t] \in Nat
      BY <3>3, StageIs DEF Unfinished
    <3>5. n - 1 \in Finished(t) \cup {0}
      <4>1. n - 1 \notin Unfinished(t)
        BY <3>1, <3>3, <3>4
      <4> QED
        BY <3>4, <4>1 DEF Unfinished
    <3> QED
      BY <3>2, <3>5 DEF CanAttempt, ContinueAt
  <2> QED
    BY <2>1, <2>4, <2>5, <2>6 DEF ProgressKept
<1> QED
  BY <1>1, LearnInvariant, PTL

-----------------------------------------------------------------------------
RunRows == [status : {"none", "QUEUED", "RUNNING"} \cup Final,
            scope : {"isolated", "portfolio"}, curve : {"none", "list", "record"}]
RunTasks == [pc : {"none", "requested", "queued", "running", "saved"}, on : Instances \cup {"none"}]

(* Runs: as the property has it, and whoever completes a run has saved.    *)
RunsInv ==
  /\ row \in [BacktestIds -> RunRows] /\ task \in [BacktestIds -> RunTasks]
  /\ up \subseteq Instances
  /\ \A r \in BacktestIds : task[r].pc = "saved" => r \in onFile
  /\ RunsAreAccountedFor

LEMMA InitRuns == RunsInit => RunsInv
  BY DEF RunsInit, RunsInv, RunRows, RunTasks, Final, NoRun, NoTask, RunsAreAccountedFor

LEMMA NextRuns == RunsInv /\ [RunsNext]_runVars => RunsInv'
<1> SUFFICES ASSUME RunsInv, [RunsNext]_runVars PROVE RunsInv'
  OBVIOUS
<1> USE DEF RunsInv, RunRows, RunTasks, Final, NoTask, RunsAreAccountedFor
<1>1. ASSUME NEW r \in BacktestIds, NEW b \in Instances, NEW scope \in {"isolated", "portfolio"},
             CreateRun(r, b, scope)
      PROVE  RunsInv'
  BY <1>1 DEF CreateRun
<1>2. ASSUME NEW r \in BacktestIds, Begin(r) PROVE RunsInv'
  BY <1>2 DEF Begin
<1>3. ASSUME NEW r \in BacktestIds, FailRun(r) PROVE RunsInv'
  BY <1>3 DEF FailRun
<1>4. ASSUME NEW r \in BacktestIds, LoseRun(r) PROVE RunsInv'
  BY <1>4 DEF LoseRun
<1>5. ASSUME NEW r \in BacktestIds, SaveTrades(r) PROVE RunsInv'
  BY <1>5 DEF SaveTrades
<1>6. ASSUME NEW r \in BacktestIds, CompleteRun(r) PROVE RunsInv'
  <2>1. /\ row' = [row EXCEPT ![r] = [@ EXCEPT !.status = "COMPLETED", !.curve = row'[r].curve]]
        /\ row'[r].curve \in {"record", "list"}
    BY <1>6 DEF CompleteRun
  <2>2. /\ row'[r].status = "COMPLETED" /\ row'[r] \in RunRows
        /\ \A q \in BacktestIds : q # r => row'[q] = row[q]
    BY <2>1
  <2>3. row' \in [BacktestIds -> RunRows]
    BY <2>1, <2>2
  <2> QED
    BY <1>6, <2>2, <2>3 DEF CompleteRun, Completes
<1>7. ASSUME NEW b \in Instances, InstanceStops(b) PROVE RunsInv'
  BY <1>7 DEF InstanceStops
<1>8. ASSUME NEW b \in Instances, InstanceStarts(b) PROVE RunsInv'
  BY <1>8 DEF InstanceStarts, Orphans
<1>9. ASSUME UNCHANGED <<row, task, up, onFile, disowned, lost>> PROVE RunsInv'
  BY <1>9
<1>10. ASSUME NEW r \in BacktestIds, StartTask(r) PROVE RunsInv'
  BY <1>10 DEF StartTask
<1> QED
  BY <1>1, <1>2, <1>3, <1>4, <1>5, <1>6, <1>7, <1>8, <1>9, <1>10
  DEF RunsNext, TunerSavesVariants, Attest, EvaluateGate, runVars

(* Every backtest run is at work or over, for any number of runs and of    *)
(* backends that come and go.                                              *)
THEOREM RunsAccounted == RunsSpec => []RunsAreAccountedFor
<1>1. RunsInv => RunsAreAccountedFor
  BY DEF RunsInv
<1> QED
  BY <1>1, InitRuns, NextRuns, PTL DEF RunsSpec
=============================================================================

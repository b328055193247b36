---------------------------- MODULE AccessGrants ----------------------------
(***************************************************************************)
(* Access to the academy: a purchase that is paid becomes a grant and, for *)
(* a corporate purchase, a batch of seat codes in a second commit; a code  *)
(* that is redeemed becomes a grant of whoever redeems it; the gate looks  *)
(* for a grant that is running.  A clerk is a request in flight.  Prices,  *)
(* currencies and tiers are left out, and one code stands for a batch.     *)
(***************************************************************************)
EXTENDS Naturals, FiniteSets, Sequences

CONSTANTS Learners, Purchases, Codes,
          Clerks,      \* requests in flight
          MaxGrants,   \* bound on the rows of user_access
          LastHour,    \* bound on the clock
          Window       \* hours a grant runs

ASSUME GrantBounds == LastHour \in Nat /\ Window \in Nat
(* Purchases and codes are rows of two tables.                             *)
ASSUME RowsAreApart == Purchases \cap Codes = {}

VARIABLES hour,
          bought,      \* [status, by, seats, simulated, charged, batches]
          access,      \* the rows of user_access: [to, from, until]
          codes,       \* [issued, count, held, expired]
          clerk,       \* [pc, of, who, count]
          twice,       \* what was confirmed or redeemed by two requests at once
          unseated     \* purchases whose seats were interrupted

accessVars == <<hour, bought, access, codes, clerk, twice, unseated>>

FreeClerk == [pc |-> "idle", of |-> "none", who |-> "none", count |-> 0]

(* One seat; several, for which codes can be generated; and several for    *)
(* which the generation raises: more than 500, or of a duration pass,      *)
(* which has no tier to read.  The checkout sells all three.               *)
Seats == {"one", "some", "raises"}

Payment == [status : {"none", "PENDING", "SUCCEEDED", "FAILED"}, by : Learners \cup {"none"},
            seats : Seats, simulated : BOOLEAN, charged : BOOLEAN, batches : Nat]
UserAccess == [to : Learners, from : Purchases \cup Codes, until : 0..(LastHour + Window)]
AccessCode == [issued : BOOLEAN, count : Nat, held : BOOLEAN, expired : BOOLEAN]

AccessTypeOK ==
  /\ hour \in 0..LastHour
  /\ bought \in [Purchases -> Payment]
  /\ \A i \in DOMAIN access : access[i] \in UserAccess
  /\ codes \in [Codes -> AccessCode]
  /\ twice \subseteq Purchases \cup Codes /\ unseated \subseteq Purchases

AccessInit ==
  /\ hour = 0
  /\ bought = [p \in Purchases |-> [status |-> "none", by |-> "none", seats |-> "one",
                                    simulated |-> FALSE, charged |-> FALSE, batches |-> 0]]
  /\ access = <<>>
  /\ codes = [c \in Codes |-> [issued |-> FALSE, count |-> 0, held |-> FALSE, expired |-> FALSE]]
  /\ clerk = [d \in Clerks |-> FreeClerk]
  /\ twice = {} /\ unseated = {}

GrantsOf(x) == {i \in DOMAIN access : access[i].from = x}
Running(l) == {i \in DOMAIN access : access[i].to = l /\ access[i].until > hour}

(* has_active_access selects with scalar_one_or_none: no row is a refusal, *)
(* two rows are an exception.                                              *)
Gate(l) == CASE Cardinality(Running(l)) = 0 -> "closed"
             [] Cardinality(Running(l)) = 1 -> "open"
             [] OTHER -> "error"

TakeUp(d, pc, of, who, count) ==
  /\ clerk[d].pc = "idle"
  /\ clerk' = [clerk EXCEPT ![d] = [pc |-> pc, of |-> of, who |-> who, count |-> count]]
Take(d, pc, of, who, count) ==
  /\ TakeUp(d, pc, of, who, count)
  /\ twice' = IF \E x \in Clerks : clerk[x].pc \in {"grant", "redeem"} /\ clerk[x].of = of
              THEN twice \cup {of} ELSE twice
Free(d) == clerk' = [clerk EXCEPT ![d] = FreeClerk]

(* A checkout, in either mode; nothing asks whether access still runs. *)
Buy(p, l, seats, simulated) ==
  /\ bought[p].status = "none"
  /\ bought' = [bought EXCEPT ![p] = [status |-> "PENDING", by |-> l, seats |-> seats,
                                      simulated |-> simulated, charged |-> FALSE, batches |-> 0]]
  /\ UNCHANGED <<hour, access, codes, clerk, twice, unseated>>

PaidAtGateway(p) ==
  /\ bought[p].status = "PENDING" /\ ~bought[p].simulated
  /\ bought' = [bought EXCEPT ![p].charged = TRUE]
  /\ UNCHANGED <<hour, access, codes, clerk, twice, unseated>>

(* The webhook of the gateway, delivered any number of times, or the       *)
(* simulated page.                                                         *)
WebhookGrantsAny(p) == bought[p].charged  \* Mutant: SUCCEEDED is not checked
WebhookGrants(p) == bought[p].charged /\ bought[p].status # "SUCCEEDED"
PageGrants(p) == bought[p].simulated /\ bought[p].status = "PENDING"
LoadPurchase(d, p) ==
  /\ WebhookGrants(p) \/ PageGrants(p)
  /\ Take(d, "grant", p, bought[p].by, 0)
  /\ UNCHANGED <<hour, bought, access, codes, unseated>>

(* The page's other button: FAILED is written over whatever the status is  *)
(* by then.                                                                *)
LoadDecline(d, p) ==
  /\ PageGrants(p) /\ TakeUp(d, "decline", p, bought[p].by, 0)
  /\ UNCHANGED <<hour, bought, access, codes, twice, unseated>>
CommitDecline(d) ==
  /\ clerk[d].pc = "decline" /\ Free(d)
  /\ bought' = [bought EXCEPT ![clerk[d].of].status = "FAILED"]
  /\ UNCHANGED <<hour, access, codes, twice, unseated>>

Granted(l, x) == Append(access, [to |-> l, from |-> x, until |-> hour + Window])

(* First commit: SUCCEEDED and the grant.  A purchase of several seats     *)
(* goes on to its codes, and ends where their generation raises.           *)
CommitGrant(d) ==
  LET p == clerk[d].of IN
  /\ clerk[d].pc = "grant" /\ Len(access) < MaxGrants
  /\ bought' = [bought EXCEPT ![p].status = "SUCCEEDED"]
  /\ access' = Granted(clerk[d].who, p)
  /\ clerk' = [clerk EXCEPT ![d] = IF bought[p].seats = "some" THEN [@ EXCEPT !.pc = "seats"]
                                   ELSE FreeClerk]
  /\ UNCHANGED <<hour, codes, twice, unseated>>

(* Second commit: the batch of codes. *)
Batch == 1
BatchLost == 0  \* Mutant: the rows are built and not added
BatchSize == Batch
CommitSeats(d) ==
  LET p == clerk[d].of IN
  /\ clerk[d].pc = "seats"
  /\ bought' = [bought EXCEPT ![p].batches = @ + BatchSize]
  /\ codes' = LET new == {c \in Codes : ~codes[c].issued}
              IN  IF new = {} THEN codes
                  ELSE [codes EXCEPT ![CHOOSE c \in new : TRUE].issued = TRUE]
  /\ Free(d)
  /\ UNCHANGED <<hour, access, twice, unseated>>

(* Staff issue seats without a payment, and hold, resume or outlive them. *)
IssueSeat(c) ==
  /\ ~codes[c].issued
  /\ codes' = [codes EXCEPT ![c].issued = TRUE]
  /\ UNCHANGED <<hour, bought, access, clerk, twice, unseated>>
SetHold(c, h) ==
  /\ codes[c].issued /\ codes[c].held # h
  /\ codes' = [codes EXCEPT ![c].held = h]
  /\ UNCHANGED <<hour, bought, access, clerk, twice, unseated>>
CodeExpires(c) ==
  /\ codes[c].issued
  /\ codes' = [codes EXCEPT ![c].expired = TRUE]
  /\ UNCHANGED <<hour, bought, access, clerk, twice, unseated>>

(* Redemption: the row is read, checked, and written with the count read;  *)
(* a code is good for one redemption.                                      *)
RedeemableUnlessHeld(c) == codes[c].issued /\ ~codes[c].held /\ ~codes[c].expired
  \* Mutant: max_redemptions is not checked
Redeemable(c) == /\ codes[c].issued /\ ~codes[c].held /\ ~codes[c].expired
                 /\ codes[c].count < 1
StartRedeem(d, c, l) ==
  /\ Redeemable(c) /\ Take(d, "redeem", c, l, codes[c].count)
  /\ UNCHANGED <<hour, bought, access, codes, unseated>>
CommitRedeem(d) ==
  LET c == clerk[d].of IN
  /\ clerk[d].pc = "redeem" /\ Len(access) < MaxGrants
  /\ access' = Granted(clerk[d].who, c)
  /\ codes' = [codes EXCEPT ![c].count = clerk[d].count + 1]
  /\ Free(d)
  /\ UNCHANGED <<hour, bought, twice, unseated>>

(* A restart, or an error: the request is gone, its commits stay. *)
ClerkStops(d) ==
  /\ clerk[d].pc # "idle" /\ Free(d)
  /\ unseated' = IF clerk[d].pc = "seats" THEN unseated \cup {clerk[d].of} ELSE unseated
  /\ UNCHANGED <<hour, bought, access, codes, twice>>

HourPasses ==
  /\ hour < LastHour /\ hour' = hour + 1
  /\ UNCHANGED <<bought, access, codes, clerk, twice, unseated>>

AccessNext ==
  \/ \E p \in Purchases, l \in Learners, s \in Seats, m \in BOOLEAN :
       Buy(p, l, s, m)
  \/ \E p \in Purchases : PaidAtGateway(p)
  \/ \E d \in Clerks, p \in Purchases : LoadPurchase(d, p) \/ LoadDecline(d, p)
  \/ \E d \in Clerks, c \in Codes, l \in Learners : StartRedeem(d, c, l)
  \/ \E d \in Clerks : CommitGrant(d) \/ CommitDecline(d) \/ CommitSeats(d) \/ CommitRedeem(d) \/ ClerkStops(d)
  \/ \E c \in Codes : IssueSeat(c) \/ CodeExpires(c) \/ \E h \in BOOLEAN : SetHold(c, h)
  \/ HourPasses

AccessSpec == AccessInit /\ [][AccessNext]_accessVars

-----------------------------------------------------------------------------
(* A payment or a code gives access once, unless two requests had read it  *)
(* before either wrote: the webhook delivered twice in a row, a code used  *)
(* up, held or expired give nothing.                                       *)
GrantedOnce ==
  \A x \in (Purchases \cup Codes) \ twice : Cardinality(GrantsOf(x)) <= 1

(* An organisation that paid for several seats whose codes can be          *)
(* generated has them, or the request that was about to issue them is      *)
(* still running or was interrupted; what was paid once is not issued      *)
(* twice.  The other purchases of several seats are paid and get none:     *)
(* PaidSeatsCome is what they break.                                       *)
SeatsUnderWay(p) == p \in unseated \/ \E d \in Clerks : clerk[d].pc = "seats" /\ clerk[d].of = p
SeatsFollowPayment ==
  \A p \in Purchases :
    /\ (bought[p].status = "SUCCEEDED" /\ bought[p].seats = "some")
         => (bought[p].batches >= 1 \/ SeatsUnderWay(p))
    /\ bought[p].seats # "some" => bought[p].batches = 0
    /\ p \notin twice => bought[p].batches <= 1

(* A payment or a code gives access once, whatever confirmations, declines *)
(* and redemptions cross it, and the seats that can be issued for a        *)
(* payment are.                                                            *)
AccessFollowsPayment == GrantedOnce /\ SeatsFollowPayment

(* "For corporate purchases (seat_count > 1), this ALSO triggers seat-code *)
(* generation automatically": whoever paid for several seats at the        *)
(* gateway, and was told so by its webhook, gets them.                     *)
PaidSeatsCome ==
  \A p \in Purchases :
    (bought[p].charged /\ bought[p].status = "SUCCEEDED" /\ bought[p].seats # "one")
      => (bought[p].batches >= 1 \/ SeatsUnderWay(p))

(* As the docstring of has_active_access has it, a learner whose access    *)
(* runs is told so, without an exception.                                  *)
LearnerGetsIn == \A l \in Learners : Running(l) # {} => Gate(l) = "open"
=============================================================================

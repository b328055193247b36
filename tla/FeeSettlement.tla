---------------------------- MODULE FeeSettlement ----------------------------
(***************************************************************************)
(* The performance fees of one trader: what a profitable close adds to the *)
(* ledger, the checkouts that cover it, and the ways a checkout is         *)
(* confirmed (gateway webhook, verification by the trader, the simulated   *)
(* page of the test mode) or an entry is settled by an admin.  Every       *)
(* request has a database session of its own; a desk is a request in       *)
(* flight.  Amounts are left out: every entry is worth something, which is *)
(* all the gate asks.                                                      *)
(***************************************************************************)
EXTENDS Naturals, FiniteSets

CONSTANTS Entries,    \* rows of the ledger there is room for
          Checkouts,  \* rows of fee_payments there is room for
          Desks,      \* requests in flight
          FeePlans,   \* the settings an admin tries: sets of Switches
          LastDay     \* bound on the calendar, a natural number

Switches == {"copy", "manual", "percent"}

VARIABLES today,      \* the UTC day
          rates,      \* the switches an admin has turned on
          feesLive,   \* checkouts go to a real gateway
          ledger,     \* [status, day, marked] of each entry
          feePay,     \* [status, covers, simulated, charged, rivals] of a checkout
          feeDesk     \* [pc, pay, rows] of each request

feeVars == <<today, rates, feesLive, ledger, feePay, feeDesk>>

IdleDesk == [pc |-> "idle", pay |-> "none", rows |-> {}]
NoPay == [status |-> "none", covers |-> {}, simulated |-> FALSE,
          charged |-> FALSE, rivals |-> {}]

LedgerEntry == [status : {"none", "OWED", "PAID", "WAIVED"}, day : 0..LastDay, marked : BOOLEAN]
FeePayment == [status : {"none", "PENDING", "SUCCEEDED", "FAILED"}, covers : SUBSET Entries,
               simulated : BOOLEAN, charged : BOOLEAN, rivals : SUBSET Checkouts]

FeeTypeOK ==
  /\ today \in 0..LastDay /\ rates \subseteq Switches /\ feesLive \in BOOLEAN
  /\ ledger \in [Entries -> LedgerEntry] /\ feePay \in [Checkouts -> FeePayment]
  /\ feeDesk \in [Desks -> [pc : {"idle", "checkout", "settle", "pay", "fail",
                                  "mark", "waive"},
                            pay : Checkouts \cup Entries \cup {"none"},
                            rows : SUBSET Entries]]

FeeInit ==
  /\ today = 0 /\ rates = {} /\ feesLive = FALSE
  /\ ledger = [e \in Entries |-> [status |-> "none", day |-> 0, marked |-> FALSE]]
  /\ feePay = [c \in Checkouts |-> NoPay]
  /\ feeDesk = [d \in Desks |-> IdleDesk]

Owed == {e \in Entries : ledger[e].status = "OWED"}
OwedAndSettled == {e \in Entries : ledger[e].status \in {"OWED", "PAID"}}  \* Mutant: no filter
StartCovers == Owed

(* The gate on new trades: fees of earlier days are still owed. *)
FeesOwed == \E e \in Owed : ledger[e].day < today

(* What makes a close chargeable: real money, a profit, and the switch of  *)
(* every kind of trade it is (a copy, a manual trade); the platform's own  *)
(* trades are neither.                                                     *)
Chargeable(kinds) == kinds # {} /\ kinds \cup {"percent"} \subseteq rates

Accrue(e, kinds) ==
  /\ ledger[e].status = "none" /\ Chargeable(kinds)
  /\ ledger' = [ledger EXCEPT ![e] = [status |-> "OWED", day |-> today, marked |-> FALSE]]
  /\ UNCHANGED <<today, rates, feesLive, feePay, feeDesk>>

UpdateSettings(r) ==
  /\ rates' = r
  /\ UNCHANGED <<today, feesLive, ledger, feePay, feeDesk>>

SetPaymentsMode(m) ==
  /\ feesLive' = m
  /\ UNCHANGED <<today, rates, ledger, feePay, feeDesk>>

Midnight ==
  /\ today < LastDay /\ today' = today + 1
  /\ UNCHANGED <<rates, feesLive, ledger, feePay, feeDesk>>

Goto(d, pc, pay, rows) ==
  feeDesk' = [feeDesk EXCEPT ![d] = [pc |-> pc, pay |-> pay, rows |-> rows]]
DeskIdle(d) == feeDesk[d].pc = "idle"
DeskDone(d) == feeDesk' = [feeDesk EXCEPT ![d] = IdleDesk]

(* Checkouts that are not over when another one takes its snapshot. *)
Open == {c \in Checkouts : feePay[c].status \in {"PENDING", "FAILED"}}
          \cup {feeDesk[d].pay : d \in {x \in Desks : feeDesk[x].pc = "checkout"}}

(* A checkout takes the owed entries, opens a session at the gateway, and  *)
(* is a row only afterwards.                                               *)
StartCheckout(d, c) ==
  /\ DeskIdle(d) /\ feePay[c].status = "none" /\ c \notin Open
  /\ StartCovers # {}
  /\ Goto(d, "checkout", c, StartCovers)
  /\ feePay' = [feePay EXCEPT ![c].rivals = Open]
  /\ UNCHANGED <<today, rates, feesLive, ledger>>

CheckoutOpened(d) ==
  /\ feeDesk[d].pc = "checkout"
  /\ feePay' = [feePay EXCEPT ![feeDesk[d].pay] =
                  [@ EXCEPT !.status = "PENDING", !.covers = feeDesk[d].rows,
                            !.simulated = ~feesLive]]
  /\ DeskDone(d)
  /\ UNCHANGED <<today, rates, feesLive, ledger>>

(* The gateway refuses or is not configured, or the process is restarted:  *)
(* a request ends where it is and its session is rolled back.              *)
RequestEnds(d) ==
  /\ ~DeskIdle(d) /\ DeskDone(d)
  /\ UNCHANGED <<today, rates, feesLive, ledger, feePay>>

(* The trader pays at the gateway. *)
CustomerPays(c) ==
  /\ feePay[c].status = "PENDING" /\ ~feePay[c].simulated
  /\ feePay' = [feePay EXCEPT ![c].charged = TRUE]
  /\ UNCHANGED <<today, rates, feesLive, ledger, feeDesk>>

(* Whoever confirms a payment loads it first: the webhook of the gateway   *)
(* refuses only what has SUCCEEDED, the trader's verification and the      *)
(* simulated page want PENDING.                                            *)
WebhookAccepts(c) == feePay[c].charged /\ feePay[c].status # "SUCCEEDED"
VerifyUnpaid(c) == ~feePay[c].simulated /\ feePay[c].status = "PENDING"
  \* Mutant: the answer of the gateway is ignored
VerifyAccepts(c) == ~feePay[c].simulated /\ feePay[c].status = "PENDING" /\ feePay[c].charged
PageAccepts(c) == feePay[c].simulated /\ feePay[c].status = "PENDING"

LoadToSettle(d, c) ==
  /\ DeskIdle(d)
  /\ WebhookAccepts(c) \/ VerifyAccepts(c) \/ PageAccepts(c)
  /\ Goto(d, "settle", c, {})
  /\ UNCHANGED <<today, rates, feesLive, ledger, feePay>>

(* settle_fee_payment: the covered entries that are still owed... *)
ReadCovered(d) ==
  /\ feeDesk[d].pc = "settle"
  /\ Goto(d, "pay", feeDesk[d].pay, feePay[feeDesk[d].pay].covers \cap Owed)
  /\ UNCHANGED <<today, rates, feesLive, ledger, feePay>>

(* ... and one commit: the payment has SUCCEEDED, the entries are PAID. *)
SettledNothing(rows) == ledger  \* Mutant: only the payment is written
Settled(rows) == [e \in Entries |-> IF e \in rows THEN [ledger[e] EXCEPT !.status = "PAID"]
                                                   ELSE ledger[e]]
CommitSettlement(d) ==
  /\ feeDesk[d].pc = "pay"
  /\ feePay' = [feePay EXCEPT ![feeDesk[d].pay].status = "SUCCEEDED"]
  /\ ledger' = Settled(feeDesk[d].rows)
  /\ DeskDone(d)
  /\ UNCHANGED <<today, rates, feesLive>>

(* "Simulate failed payment". *)
FailSimulated(d, c) ==
  /\ DeskIdle(d) /\ PageAccepts(c)
  /\ Goto(d, "fail", c, {})
  /\ UNCHANGED <<today, rates, feesLive, ledger, feePay>>
CommitFailure(d) ==
  /\ feeDesk[d].pc = "fail"
  /\ feePay' = [feePay EXCEPT ![feeDesk[d].pay].status = "FAILED"]
  /\ DeskDone(d)
  /\ UNCHANGED <<today, rates, feesLive, ledger>>

(* An admin marks an entry paid or waives it, whatever its status.  COMMIT *)
(* sends the status only when it differs from the one loaded.              *)
MarkEntry(d, e, as) ==
  /\ DeskIdle(d) /\ ledger[e].status # "none"
  /\ Goto(d, as, e, IF ledger[e].status = (IF as = "mark" THEN "PAID" ELSE "WAIVED")
                    THEN {} ELSE {e})
  /\ UNCHANGED <<today, rates, feesLive, ledger, feePay>>
CommitMark(d) ==
  /\ feeDesk[d].pc \in {"mark", "waive"}
  /\ ledger' = [e \in Entries |->
                  IF e = feeDesk[d].pay
                  THEN [ledger[e] EXCEPT !.marked = TRUE,
                          !.status = IF feeDesk[d].rows = {} THEN @
                                     ELSE IF feeDesk[d].pc = "mark" THEN "PAID" ELSE "WAIVED"]
                  ELSE ledger[e]]
  /\ DeskDone(d)
  /\ UNCHANGED <<today, rates, feesLive, feePay>>

Handle(d) ==
  \/ CheckoutOpened(d) \/ ReadCovered(d) \/ CommitSettlement(d)
  \/ CommitFailure(d) \/ CommitMark(d)

FeeNext ==
  \/ \E e \in Entries, kinds \in SUBSET {"copy", "manual"} : Accrue(e, kinds)
  \/ \E r \in FeePlans : UpdateSettings(r)
  \/ \E m \in BOOLEAN : SetPaymentsMode(m)
  \/ Midnight
  \/ \E c \in Checkouts : CustomerPays(c)
  \/ \E d \in Desks : Handle(d) \/ RequestEnds(d)
  \/ \E d \in Desks, c \in Checkouts :
       StartCheckout(d, c) \/ LoadToSettle(d, c) \/ FailSimulated(d, c)
  \/ \E d \in Desks, e \in Entries, as \in {"mark", "waive"} : MarkEntry(d, e, as)

FeeSpec == FeeInit /\ [][FeeNext]_feeVars

-----------------------------------------------------------------------------
(* A payment that has SUCCEEDED leaves nothing owed that it covers, and an *)
(* entry is PAID only because an admin said so or because a checkout that  *)
(* covers it was simulated or charged, however webhook, verification,      *)
(* simulated page and admins cross.                                        *)
PaidMeansPaid ==
  /\ \A c \in Checkouts : feePay[c].status = "SUCCEEDED" => feePay[c].covers \cap Owed = {}
  /\ \A e \in Entries : ledger[e].status = "PAID" =>
       ledger[e].marked \/ \E c \in Checkouts : /\ e \in feePay[c].covers
                                                /\ feePay[c].simulated \/ feePay[c].charged

(* A trader is charged twice for an entry only when the second checkout    *)
(* was started while the first was still open.                             *)
ChargedTwiceOnlyIfOpen ==
  \A c1, c2 \in Checkouts :
    /\ c1 # c2 /\ feePay[c1].charged /\ feePay[c2].charged
    /\ feePay[c1].covers \cap feePay[c2].covers # {}
    => c1 \in feePay[c2].rivals \/ c2 \in feePay[c1].rivals

FeesSettled == PaidMeansPaid /\ ChargedTwiceOnlyIfOpen

(* As the docstring of total_owed has it: whoever pays is not gated        *)
(* afterwards.                                                             *)
PayerNotGated ==
  [][\A c \in Checkouts : feePay'[c].status = "SUCCEEDED" /\ feePay[c].status = "PENDING"
                            => ~FeesOwed']_feeVars
=============================================================================

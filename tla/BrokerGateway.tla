---------------------------- MODULE BrokerGateway ----------------------------
(***************************************************************************)
(* The way of an order from execution_engine to one account at one         *)
(* exchange through a class of broker_integrations.py: the client lookup,  *)
(* the signed request sent through a primary proxy and, on a transport     *)
(* failure, once more through a backup proxy, and the answer that comes    *)
(* back or does not.  Several calls on the same symbol of the account run  *)
(* at the same time: entries, partial closes and full closes, of trades in *)
(* both directions.                                                        *)
(*                                                                         *)
(* The exchange itself is external: it executes an order it receives or    *)
(* rejects it, and a reduce-only order never takes a position below zero.  *)
(***************************************************************************)
EXTENDS Integers

CONSTANTS
  Calls,      \* place_order and close_position calls
  MaxLots,    \* bound: the lots of one order
  Styles,     \* the families of close_position implementations, see below
  Modes       \* of the account: a position per side, or one net position

ASSUME MaxLotsAssumption == MaxLots \in Nat \ {0}

(* bingx: closePosition, side by comparison with "BUY".                    *)
(* lookup: Binance, Bybit, MEXC: the size of a full close is read first.   *)
(* units: OANDA, longUnits or shortUnits.                                  *)
(* by_id: MetaApi, TradeLocker: the first position found on the symbol.    *)
ASSUME StylesAssumption == Styles \subseteq {"bingx", "lookup", "units", "by_id"}
ASSUME ModesAssumption == Modes \subseteq {"hedge", "one_way"}

VARIABLES
  broker,     \* style, account mode and whether a backup proxy is configured
  request,    \* what each call asks for
  callPc,     \* where each call is
  lots,       \* the quantity each call sends; 0 sends "all of it"
  openLots,   \* lots open at the exchange on each side
  arrivals,   \* history: how often each call reached the exchange
  silent,     \* history: an attempt of the call ended without an answer
  reduced     \* history: the sides each call reduced

callVars == <<broker, request, callPc, lots, openLots, arrivals, silent, reduced>>

-----------------------------------------------------------------------------
Sides == {"long", "short"}

(* A close without a quantity (0 or None) closes the whole position.       *)
CallRequests ==
  [op : {"place"}, side : Sides, qty : 1..MaxLots]
    \cup [op : {"close"}, side : Sides, qty : 0..MaxLots]

CallInit ==
  /\ broker \in [style : Styles, mode : Modes, backup : BOOLEAN]
  /\ broker.backup => broker.style \in {"bingx", "lookup"}
  /\ request \in [Calls -> CallRequests]
  /\ callPc = [c \in Calls |-> "new"]
  /\ lots = [c \in Calls |-> request[c].qty]
  /\ openLots \in [Sides -> 0..MaxLots]
  /\ broker.mode = "one_way" => \E side \in Sides : openLots[side] = 0
  /\ arrivals = [c \in Calls |-> 0]
  /\ silent = [c \in Calls |-> FALSE]
  /\ reduced = [c \in Calls |-> {}]

(* Callers pass the trade's direction, "long" or "short"; bingx, lookup    *)
(* compare the upper-cased word with "BUY".                                *)
Word(side) == IF side = "long" THEN "LONG" ELSE "SHORT"

TargetSides(c) ==
  CASE broker.style \in {"bingx", "lookup"} ->
         {IF Word(request[c].side) = "BUY" THEN "long" ELSE "short"}
    [] broker.style = "units" -> {request[c].side}
    [] broker.style = "by_id" -> {side \in Sides : openLots[side] > 0}

-----------------------------------------------------------------------------
CallGoto(c, label) == callPc' = [callPc EXCEPT ![c] = label]

(* Mutant: without a client the order is reported as a paper fill.         *)
NotSentButFilled(c) ==
  /\ callPc[c] = "new"
  /\ CallGoto(c, "success")
  /\ UNCHANGED <<broker, request, lots, openLots, arrivals, silent, reduced>>

(* No credentials anywhere, or the price deviation guard: not sent.        *)
NotSent(c) ==
  /\ callPc[c] = "new"
  /\ CallGoto(c, "failure")
  /\ UNCHANGED <<broker, request, lots, openLots, arrivals, silent, reduced>>

NeedsSizing(c) ==
  /\ broker.style = "lookup"
  /\ request[c].op = "close" /\ request[c].qty = 0

Send(c) ==
  /\ callPc[c] = "new"
  /\ ~NeedsSizing(c)
  /\ CallGoto(c, "primary")
  /\ UNCHANGED <<broker, request, lots, openLots, arrivals, silent, reduced>>

(* Mutant: the size that was found is not kept.                            *)
LookUpSizeLost(c) ==
  /\ callPc[c] = "new"
  /\ NeedsSizing(c)
  /\ lots' = [lots EXCEPT ![c] = -1]
  /\ CallGoto(c, "primary")
  /\ UNCHANGED <<broker, request, openLots, arrivals, silent, reduced>>

(* get_position first; the order goes out later with the size it saw.  The *)
(* entry of the symbol that is found need not be of the trade's side.      *)
LookUpSize(c) ==
  /\ callPc[c] = "new"
  /\ NeedsSizing(c)
  /\ \E side \in Sides :
       /\ openLots[side] > 0
       /\ lots' = [lots EXCEPT ![c] = openLots[side]]
  /\ CallGoto(c, "primary")
  /\ UNCHANGED <<broker, request, openLots, arrivals, silent, reduced>>

-----------------------------------------------------------------------------
(* The exchange (external).                                                *)

(* In one-way mode the two sides cancel out.                               *)
Netted(p) ==
  IF broker.mode = "hedge" THEN p
  ELSE LET common == IF p["long"] < p["short"] THEN p["long"] ELSE p["short"]
       IN  [side \in Sides |-> p[side] - common]

ExecutePlace(c) ==
  /\ request[c].op = "place"
  /\ openLots' = Netted([openLots EXCEPT ![request[c].side] = @ + lots[c]])
  /\ UNCHANGED reduced

(* Mutant: the order of a close is not marked reduce-only.                 *)
ExecuteClosePlain(c) ==
  /\ request[c].op = "close"
  /\ \E side \in TargetSides(c) :
       /\ openLots' = Netted([openLots EXCEPT ![CHOOSE o \in Sides : o # side] = @ + lots[c]])
       /\ reduced' = [reduced EXCEPT ![c] = @ \cup {side}]

ExecuteClose(c) ==
  /\ request[c].op = "close"
  /\ \E side \in TargetSides(c) :
       /\ openLots[side] > 0
       /\ openLots' = [openLots EXCEPT ![side] =
                         IF lots[c] = 0 \/ lots[c] >= @ THEN 0 ELSE @ - lots[c]]
       /\ reduced' = [reduced EXCEPT ![c] = @ \cup {side}]

Execute(c) == ExecutePlace(c) \/ ExecuteClose(c)

Reject(c) == UNCHANGED <<openLots, reduced>>

Arrives(c) ==
  /\ arrivals' = [arrivals EXCEPT ![c] = @ + 1]
  /\ UNCHANGED <<broker, request, lots>>

Sending(c) == callPc[c] \in {"primary", "backup"}

(* The exchange answers, and the answer is final either way.               *)
AnsweredYes(c) ==
  /\ Sending(c)
  /\ Execute(c)
  /\ Arrives(c)
  /\ CallGoto(c, "success")
  /\ UNCHANGED silent

(* Mutant: a rejection, too, is tried again through the backup.            *)
AnsweredNoAndResent(c) ==
  /\ Sending(c)
  /\ Reject(c)
  /\ Arrives(c)
  /\ CallGoto(c, IF callPc[c] = "primary" /\ broker.backup THEN "backup" ELSE "failure")
  /\ UNCHANGED silent

AnsweredNo(c) ==
  /\ Sending(c)
  /\ Reject(c)
  /\ Arrives(c)
  /\ CallGoto(c, "failure")
  /\ UNCHANGED silent

(* _send_with_failover: any of the transport exceptions on the primary     *)
(* sends the same request through the backup; without one, or on the       *)
(* backup, the class answers {"success": False}.                           *)
AfterTransportFailure(c) ==
  IF callPc[c] = "primary" /\ broker.backup THEN "backup" ELSE "failure"

(* Mutant: the two proxies are tried in turn until one can be reached.     *)
UnreachableInTurn(c) ==
  /\ Sending(c)
  /\ CallGoto(c, IF callPc[c] = "primary" /\ broker.backup THEN "backup" ELSE "primary")
  /\ UNCHANGED <<broker, request, lots, openLots, arrivals, silent, reduced>>

Unreachable(c) ==
  /\ Sending(c)
  /\ CallGoto(c, AfterTransportFailure(c))
  /\ UNCHANGED <<broker, request, lots, openLots, arrivals, silent, reduced>>

(* ReadTimeout is one of them: the request was sent, and was executed, or  *)
(* rejected, before the answer failed to come.                             *)
ReadTimeout(c) ==
  /\ Sending(c)
  /\ Execute(c) \/ Reject(c)
  /\ Arrives(c)
  /\ silent' = [silent EXCEPT ![c] = TRUE]
  /\ CallGoto(c, AfterTransportFailure(c))

-----------------------------------------------------------------------------
Step(c) ==
  \/ NotSent(c) \/ Send(c) \/ LookUpSize(c)
  \/ AnsweredYes(c) \/ AnsweredNo(c) \/ Unreachable(c) \/ ReadTimeout(c)

CallNext == \E c \in Calls : Step(c)

(* Every request has a timeout of 30 seconds.                              *)
CallFairness == \A c \in Calls : WF_callVars(Step(c))

CallSpec == CallInit /\ [][CallNext]_callVars /\ CallFairness

-----------------------------------------------------------------------------
(* Every variable holds a value of its type.                               *)
CallTypeOK ==
  /\ broker \in [style : Styles, mode : Modes, backup : BOOLEAN]
  /\ request \in [Calls -> CallRequests]
  /\ callPc \in [Calls -> {"new", "primary", "backup", "success", "failure"}]
  /\ lots \in [Calls -> Nat]
  /\ openLots \in [Sides -> Nat]
  /\ arrivals \in [Calls -> Nat]
  /\ silent \in [Calls -> BOOLEAN]
  /\ reduced \in [Calls -> SUBSET Sides]

(* A call that reports success reached the exchange: no "success on a      *)
(* trade that was never placed anywhere" when there is no client.          *)
SuccessIsReal == \A c \in Calls : callPc[c] = "success" => arrivals[c] > 0

(* A request reaches the exchange a second time only when the first time   *)
(* went unanswered, and never a third: a rejection is not tried again.     *)
ResentOnlyAfterSilence ==
  \A c \in Calls : arrivals[c] <= 2 /\ (arrivals[c] = 2 => silent[c])

(* What a call reports is what the exchange has seen of it.                *)
ReportsArrivals == SuccessIsReal /\ ResentOnlyAfterSilence

(* With calls crossing, sizes read before they are used and requests sent  *)
(* twice, a close never opens or enlarges a position on either side.       *)
CloseNeverGrows ==
  [][(\A c \in Calls : request[c].op = "place" => arrivals'[c] = arrivals[c])
       => \A side \in Sides : openLots'[side] <= openLots[side]]_callVars

(* Every call is answered, on a transport that may fail at every attempt.  *)
EveryCallAnswered == \A c \in Calls : <>(callPc[c] \in {"success", "failure"})

(* "opposite side to the position, so a LONG closes with a SELL and a      *)
(* SHORT with a BUY": a close reduces the side of its own trade.           *)
ClosesOwnSide == \A c \in Calls : reduced[c] \subseteq {request[c].side}

(* _send_with_failover sends again "only on a connection-level failure     *)
(* (the proxy itself unreachable)": the exchange sees each order once.     *)
SeenOnce == \A c \in Calls : arrivals[c] <= 1
=============================================================================

------------------------------ MODULE CopyTrading ------------------------------
(***************************************************************************)
(* Traders connect accounts of their own, subscribe one of them to a bot,  *)
(* and have its signals copied there: at once, or after their approval.    *)
(* The account an order goes to is looked up again for every order but the *)
(* first of an automatic copy.  Accounts at MetaApi are hosted for a fee   *)
(* while deployed, and a sweep undeploys the idle ones.                    *)
(***************************************************************************)
EXTENDS Naturals, FiniteSets

CONSTANTS Traders, Accounts,
          Owner, Venue,    \* of each account
          Dedicated,       \* venues at which the bot has an account of its own
          MaxEdits       \* bound: edits by traders and the administrator

VARIABLES conn,     \* the rows of the accounts
          sub,      \* per trader: the subscription to the bot
          copied,    \* per trader: the copy of the signal
          owes,     \* traders with performance fees of an earlier day
          testing,  \* accounts whose credentials are being tried
          fan,      \* subscriptions the signal has yet to be copied to
          sweep,    \* accounts the sweep has read as idle, and has found free
          orders,   \* what went to which account
          edits

copyVars == <<conn, sub, copied, owes, testing, fan, sweep, orders, edits>>

Hosted == "metatrader"
BotAccount == "bot"
PooledAccount == "pool"
NoAccount == "none"
NoTrade == [status |-> "none", to |-> NoAccount, at |-> NoAccount, meant |-> NoAccount]
NoSub == [account |-> NoAccount, on |-> FALSE, copy |-> "manual"]
Absent == [known |-> FALSE, on |-> FALSE, status |-> "pending", mode |-> "manual", deployed |-> FALSE, idle |-> FALSE]
AtRest == [pc |-> "idle", idle |-> {}, free |-> {}, open |-> {}]

CopyInit ==
  /\ conn = [a \in Accounts |-> [Absent EXCEPT !.known = TRUE, !.on = TRUE, !.status = "verified", !.mode = "both",
                                               !.deployed = Venue[a] = Hosted]]
  /\ sub \in [Traders -> {NoSub} \cup [account : Accounts, on : {TRUE}, copy : {"auto", "manual"}]]
  /\ \A t \in Traders : sub[t] # NoSub => Owner[sub[t].account] = t
  /\ copied = [t \in Traders |-> NoTrade] /\ owes = {} /\ testing = {} /\ fan = {}
  /\ sweep = AtRest /\ orders = {} /\ edits = 0

-----------------------------------------------------------------------------
(* What traders and the administrator change.                               *)
SetConn(a, row) == conn' = [conn EXCEPT ![a] = row] /\ UNCHANGED <<sub, owes, testing>>

Connect(a) == /\ ~conn[a].known
              /\ \E m \in {"manual", "both"} : SetConn(a, [Absent EXCEPT !.known = TRUE, !.on = TRUE, !.mode = m])
UpdateConnection(a) ==
  /\ conn[a].known
  /\ \/ \E m \in {"manual", "both"} \ {conn[a].mode} : SetConn(a, [conn[a] EXCEPT !.mode = m])
     \/ SetConn(a, [conn[a] EXCEPT !.on = ~@])
     \/ conn[a].status # "pending" /\ SetConn(a, [conn[a] EXCEPT !.status = "pending"])
DeleteConnection(a) ==                       \* a subscription's foreign key holds it
  conn[a].known /\ (\A t \in Traders : sub[t].account # a) /\ SetConn(a, Absent)
SuspendConnection(a) ==
  conn[a].known /\ \E s \in {"suspended", "pending"} \ {conn[a].status} : SetConn(a, [conn[a] EXCEPT !.status = s])
DeployByHand(a) == Venue[a] = Hosted /\ conn[a].known /\ ~conn[a].deployed
                   /\ SetConn(a, [conn[a] EXCEPT !.deployed = TRUE, !.idle = FALSE])
UndeployByHand(a) == Venue[a] = Hosted /\ conn[a].known /\ conn[a].deployed /\ SetConn(a, [conn[a] EXCEPT !.deployed = FALSE])

StartTest(a) == conn[a].known /\ a \notin testing /\ testing' = testing \cup {a} /\ UNCHANGED <<conn, sub, owes>>

Subscribe(t, a) ==
  /\ Owner[a] = t /\ conn[a].known /\ conn[a].mode # "manual" /\ t \notin owes
  /\ \E c \in {"auto", "manual"} : sub' = [sub EXCEPT ![t] = [account |-> a, on |-> TRUE, copy |-> c]]
  /\ UNCHANGED <<conn, owes, testing>>
UpdateSubscription(t) ==
  /\ sub[t] # NoSub /\ UNCHANGED <<conn, owes, testing>>
  /\ \/ sub' = [sub EXCEPT ![t].on = ~@]
     \/ \E c \in {"auto", "manual"} \ {sub[t].copy} : sub' = [sub EXCEPT ![t].copy = c]
Unsubscribe(t) == sub[t] # NoSub /\ sub' = [sub EXCEPT ![t] = NoSub] /\ UNCHANGED <<conn, owes, testing>>

DayEnds(t) == owes' = (IF t \in owes THEN owes \ {t} ELSE owes \cup {t}) /\ UNCHANGED <<conn, sub, testing>>
IdlePasses == /\ conn' = [a \in Accounts |-> [conn[a] EXCEPT !.idle = conn[a].known]]
              /\ UNCHANGED <<sub, owes, testing>>

Change ==
  /\ edits < MaxEdits /\ edits' = edits + 1
  /\ \/ \E a \in Accounts : \/ Connect(a) \/ UpdateConnection(a) \/ DeleteConnection(a) \/ SuspendConnection(a)
                            \/ DeployByHand(a) \/ UndeployByHand(a) \/ StartTest(a)
     \/ \E t \in Traders : \/ \E a \in Accounts : Subscribe(t, a)
                           \/ UpdateSubscription(t) \/ Unsubscribe(t) \/ DayEnds(t)
     \/ IdlePasses
  /\ UNCHANGED <<copied, fan, sweep, orders>>

(* The answer of the exchange becomes the status, whatever it is by now.   *)
FinishTest(a) ==
  /\ a \in testing /\ testing' = testing \ {a}
  /\ conn' = IF conn[a].known THEN [conn EXCEPT ![a].status = IF Venue[a] = Hosted /\ ~conn[a].deployed THEN "failed" ELSE "verified"]
             ELSE conn
  /\ UNCHANGED <<sub, copied, owes, fan, sweep, orders, edits>>

-----------------------------------------------------------------------------
(* The signal and its copies.                                               *)
Signal ==
  /\ fan = {} /\ \A t \in Traders : copied[t] = NoTrade
  /\ fan' = {t \in Traders : /\ sub[t].on
                             /\ conn[sub[t].account].on /\ conn[sub[t].account].status = "verified"} \X {sub}
  /\ fan' # {}
  /\ UNCHANGED <<conn, sub, copied, owes, testing, sweep, orders, edits>>

(* Client of an order: the bot's own account there, else an account of the *)
(* trader there that is on and not suspended, else the shared one.         *)
Usable(t, v) == {a \in Accounts : Owner[a] = t /\ Venue[a] = v /\ conn[a].known /\ conn[a].on /\ conn[a].status # "suspended"}
Resolved(t, v) == IF v \in Dedicated THEN {BotAccount}
                  ELSE IF Usable(t, v) # {} THEN Usable(t, v) ELSE {PooledAccount}
MarkActivity(to) == conn' = IF to \in Accounts THEN [conn EXCEPT ![to].idle = FALSE] ELSE conn

Sent(t, kind, to, meant) == orders' = orders \cup {[trader |-> t, kind |-> kind, to |-> to, meant |-> meant]}

Draft(t, a) == /\ copied' = [copied EXCEPT ![t] = [NoTrade EXCEPT !.status = "pending", !.meant = a]]
               /\ UNCHANGED orders
SendAtOnce(t, a) == /\ copied' = [copied EXCEPT ![t] = [status |-> "sending", to |-> a, at |-> NoAccount, meant |-> a]]
                    /\ Sent(t, "open", a, a)
CopyTo(t) ==
  /\ \E f \in fan :
       /\ f[1] = t /\ fan' = fan \ {f}
       /\ LET s == f[2][t]
          IN  IF s.copy = "auto" /\ t \notin owes THEN SendAtOnce(t, s.account) ELSE Draft(t, s.account)
  /\ UNCHANGED <<conn, sub, owes, testing, sweep, edits>>

Approve(t) ==
  /\ copied[t].status = "pending" /\ t \notin owes
  /\ \E to \in Resolved(t, Venue[copied[t].meant]) :
       /\ copied' = [copied EXCEPT ![t].status = "sending", ![t].to = to]
       /\ MarkActivity(to) /\ Sent(t, "open", to, copied[t].meant)
  /\ UNCHANGED <<sub, owes, testing, fan, sweep, edits>>
Decline(t) ==
  /\ copied[t].status = "pending" /\ copied' = [copied EXCEPT ![t].status = "cancelled"]
  /\ UNCHANGED <<conn, sub, owes, testing, fan, sweep, orders, edits>>

Reachable(to) == to \in Accounts /\ Venue[to] = Hosted => conn[to].deployed
OrderAnswered(t) ==
  /\ copied[t].status = "sending"
  /\ \/ Reachable(copied[t].to) /\ copied' = [copied EXCEPT ![t].status = "active", ![t].at = copied[t].to]
     \/ copied' = [copied EXCEPT ![t].status = "error"]
  /\ UNCHANGED <<conn, sub, owes, testing, fan, sweep, orders, edits>>

(* A target, a stop or an alert closes it; the account the close goes to   *)
(* may hold a position too, and then says it is done.                      *)
CloseCopy(t) ==
  /\ copied[t].status = "active"
  /\ \E to \in Resolved(t, Venue[copied[t].meant]) :
       /\ MarkActivity(to) /\ Sent(t, "close", to, copied[t].at)
       /\ \/ Reachable(to) /\ copied' = [copied EXCEPT ![t].status = "closed"]
          \/ (to # copied[t].at \/ ~Reachable(to)) /\ UNCHANGED copied
  /\ UNCHANGED <<sub, owes, testing, fan, sweep, edits>>

-----------------------------------------------------------------------------
(* The sweep.                                                               *)
OpenHosted == {t \in Traders : copied[t].status = "active" /\ Venue[copied[t].meant] = Hosted}
StartSweep ==
  /\ sweep.pc = "idle"
  /\ sweep' = [pc |-> "check", free |-> {}, open |-> OpenHosted,
               idle |-> {a \in Accounts : Venue[a] = Hosted /\ conn[a].known /\ conn[a].on /\ conn[a].idle}]
  /\ sweep'.idle # {}
  /\ UNCHANGED <<conn, sub, copied, owes, testing, fan, orders, edits>>

FreeIfNotDrafted(a) == copied[Owner[a]].status # "pending"  \* Mutant: only orders that wait hold it back
Free(a) == Owner[a] \notin OpenHosted
CheckTrades(a) ==
  /\ sweep.pc = "check" /\ a \in sweep.idle
  /\ sweep' = [sweep EXCEPT !.idle = @ \ {a}, !.free = IF Free(a) THEN {a} ELSE {}, !.pc = IF Free(a) THEN "undeploy" ELSE @]
  /\ UNCHANGED <<conn, sub, copied, owes, testing, fan, orders, edits>>
UndeployIdle ==
  /\ sweep.pc = "undeploy"
  /\ \E a \in sweep.free : conn' = [conn EXCEPT ![a].deployed = FALSE]
  /\ sweep' = [sweep EXCEPT !.free = {}, !.pc = "check"]
  /\ UNCHANGED <<sub, copied, owes, testing, fan, orders, edits>>
EndSweep ==
  /\ sweep.pc = "check" /\ sweep.idle = {} /\ sweep' = AtRest
  /\ UNCHANGED <<conn, sub, copied, owes, testing, fan, orders, edits>>

CopyNext ==
  \/ Change \/ Signal \/ StartSweep \/ UndeployIdle \/ EndSweep
  \/ \E a \in Accounts : FinishTest(a) \/ CheckTrades(a)
  \/ \E t \in Traders : CopyTo(t) \/ Approve(t) \/ Decline(t) \/ OrderAnswered(t) \/ CloseCopy(t)

CopySpec == CopyInit /\ [][CopyNext]_copyVars

-----------------------------------------------------------------------------
(* The sweep leaves an account with open exposure alone: whoever had a     *)
(* position there when the sweep began, and still has, keeps it deployed.  *)
SparesOpen == sweep.pc = "undeploy" /\ sweep'.pc = "check" =>
                \A a \in sweep.free : Owner[a] \notin sweep.open \cap OpenHosted
SweepSparesOpenTrades == [][SparesOpen]_copyVars

(* "Never undeploys a connection with an ACTIVE trade on it."              *)
NeverUndeployedOpen == [][sweep.pc = "undeploy" /\ sweep'.pc = "check" => \A a \in sweep.free : Free(a)]_copyVars

(* A copied trade is opened, changed and closed on the account it was      *)
(* subscribed for: it never lands on the platform's own money.             *)
CopyStaysOnItsAccount == \A o \in orders : o.to = o.meant
=============================================================================

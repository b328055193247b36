------------------------------- MODULE ScanCycle -------------------------------
(***************************************************************************)
(* The market scanner: one cycle reads the active bots, decides on which   *)
(* exchange each of their symbols is watched, fetches every pair of the    *)
(* two once, runs the strategies over it and hands the signals on.  All of *)
(* it happens in one session, whose rows are as the cycle first read them. *)
(* Traders change their bots meanwhile, exchanges fail and run dry, and    *)
(* the memory watchdog slows the scanner down.                             *)
(***************************************************************************)
EXTENDS Integers, Sequences, FiniteSets

CONSTANTS Bots, Exchanges,
          Default,        \* the exchange of a bot that picks none
          Watched,        \* per bot: the symbols it trades
          Lists,          \* per exchange: the symbols it has
          StrategyOf,     \* per bot: the strategy it runs
          Original,       \* per family: the bot its own instance is named for
          Balances,
          HealthWindow,   \* outcomes remembered per exchange
          MaxChanges      \* bound: changes of bots, exchanges and settings

VARIABLES bots,      \* the rows
          exchanges, \* funds there, and whether candles come
          results,   \* per exchange: outcomes of the latest fetches
          settings,  \* the administrator's switches and master balance
          scan,      \* the cycle, with the rows as its session holds them
          watchdog,
          changes

scanVars == <<bots, exchanges, results, settings, scan, watchdog, changes>>

Nowhere == "none"
NoBalance == 0
NoCycle == [pc |-> "idle", copy |-> <<>>, todo |-> {}, groups |-> {}, group |-> <<>>, sizes |-> {},
            signals |-> {}, size |-> NoBalance, seen |-> {}, orders |-> {}, end |-> "none"]

ScanInit ==
  /\ bots \in [Bots -> [active : {TRUE}, asleep : {FALSE}, auto : BOOLEAN, pick : {Nowhere}, age : {"never"},
                        balance : {CHOOSE n \in Balances : TRUE}]]
  /\ exchanges = [x \in Exchanges |-> [funds |-> "funded", up |-> TRUE]]
  /\ results = [x \in Exchanges |-> <<>>]
  /\ settings = [enabled |-> TRUE, switching |-> TRUE, balance |-> NoBalance]
  /\ scan = NoCycle /\ changes = 0
  /\ watchdog = [critical |-> 0, degraded |-> FALSE, zone |-> "ok"]

-----------------------------------------------------------------------------
(* Which exchange.                                                          *)
Successes(x) == Len(SelectSeq(results[x], LAMBDA ok : ok))
MoreReliable(x, y) ==
  IF results[x] = <<>> THEN results[y] # <<>> /\ Successes(y) < Len(results[y])
  ELSE IF results[y] = <<>> THEN FALSE
  ELSE Successes(x) * Len(results[y]) > Successes(y) * Len(results[x])
Richer(x, y) == exchanges[x].funds = "funded" /\ exchanges[y].funds = "unknown"
Better(x, y) == \/ MoreReliable(x, y)
                \/ ~MoreReliable(y, x) /\ Richer(x, y)

(* An exchange whose markets do not load is taken to have the symbol, an   *)
(* account whose balance cannot be read to have some.                      *)
Tradeable(s, unloaded) == {x \in Exchanges : s \in Lists[x] \/ x \in unloaded}
MayBeFunded == {x \in Exchanges : exchanges[x].funds # "empty"}
Candidates(s, unloaded) == Tradeable(s, unloaded) \cap MayBeFunded
BestOf(C) == {x \in C : \A y \in C : ~Better(y, x)}

StartCycle ==
  /\ scan.pc = "idle" /\ settings.enabled
  /\ LET awake == {b \in Bots : bots[b].active /\ ~bots[b].asleep}
     IN  /\ awake # {}
         /\ scan' = [NoCycle EXCEPT !.pc = "resolve", !.copy = bots,
                                    !.todo = UNION {{<<b, s>> : s \in Watched[b]} : b \in awake}]
  /\ UNCHANGED <<bots, exchanges, results, settings, watchdog, changes>>

Join(b, s, x) ==
  LET same == {g \in scan.groups : g.exchange = x /\ g.symbol = s}
      joined == (UNION {g.bots : g \in same}) \cup {b}
  IN  [scan EXCEPT !.todo = @ \ {<<b, s>>},
                   !.groups = (@ \ same) \cup {[exchange |-> x, symbol |-> s, bots |-> joined]}]
Automatic(b) == scan.copy[b].auto /\ settings.switching

StaysFixed(b, s) ==
  /\ ~Automatic(b) /\ scan' = Join(b, s, Default) /\ UNCHANGED bots

StaysOnPick(b, s, C) ==
  /\ Automatic(b) /\ scan.copy[b].age = "fresh" /\ scan.copy[b].pick \in C
  /\ scan' = Join(b, s, scan.copy[b].pick) /\ UNCHANGED bots

Picks(b, s, C) ==
  /\ Automatic(b)
  /\ \/ scan.copy[b].age = "never"
     \/ scan.copy[b].age = "fresh" /\ scan.copy[b].pick \notin C
  /\ \/ C = {} /\ scan' = Join(b, s, Default) /\ UNCHANGED bots
     \/ \E x \in BestOf(C) :
          /\ scan' = [Join(b, s, x) EXCEPT !.copy[b].pick = x, !.copy[b].age = "fresh"]
          /\ bots' = [bots EXCEPT ![b].pick = x, ![b].age = "fresh"]

(* A pick past its six hours: no branch gathers candidates for it, the name *)
(* is unbound when it is read, and the exception ends the cycle.            *)
FailsOnAgedPick(b) ==
  /\ Automatic(b) /\ scan.copy[b].age = "old"
  /\ scan' = [NoCycle EXCEPT !.end = "failed"] /\ UNCHANGED bots

Resolve(b, s) ==
  /\ scan.pc = "resolve" /\ <<b, s>> \in scan.todo
  /\ \/ StaysFixed(b, s)
     \/ \E unloaded \in SUBSET {x \in Exchanges : ~exchanges[x].up} :
          StaysOnPick(b, s, Candidates(s, unloaded)) \/ Picks(b, s, Candidates(s, unloaded))
     \/ FailsOnAgedPick(b)
  /\ UNCHANGED <<exchanges, results, settings, watchdog, changes>>

-----------------------------------------------------------------------------
(* Candles, strategies, signals.                                            *)
Remember(x, ok) ==
  results' = [results EXCEPT ![x] = LET all == Append(@, ok)
                                    IN  IF Len(all) > HealthWindow THEN Tail(all) ELSE all]

EffectiveBalance(b) == IF settings.balance # NoBalance THEN settings.balance ELSE scan.copy[b].balance
BySize(here) == {[balance |-> n, bots |-> {b \in here : EffectiveBalance(b) = n}] : n \in {EffectiveBalance(b) : b \in here}}

FetchGroup(g) ==
  /\ scan.pc \in {"resolve", "fetch"} /\ scan.todo = {} /\ g \in scan.groups
  /\ Remember(g.exchange, exchanges[g.exchange].up)
  /\ scan' = [scan EXCEPT !.groups = @ \ {g}, !.seen = @ \cup {<<b, g.symbol, g.exchange>> : b \in g.bots},
                          !.pc = IF exchanges[g.exchange].up THEN "size" ELSE "fetch",
                          !.group = g, !.sizes = BySize(g.bots)]
  /\ UNCHANGED <<bots, exchanges, settings, watchdog, changes>>

(* run_all: a family none of these bots runs still runs once, under the    *)
(* name of its own instance.                                               *)
Emitters(here) == here \cup {Original[f] : f \in DOMAIN Original \ {StrategyOf[b] : b \in here}}
WantedAll(signals, here) == signals                     \* Mutant: nothing is discarded
Wanted(signals, here) == signals \cap here

RunAll(part) ==
  /\ scan.pc = "size" /\ part \in scan.sizes
  /\ \E found \in SUBSET Emitters(part.bots) :
       scan' = [scan EXCEPT !.pc = "trade", !.sizes = @ \ {part}, !.size = part.balance,
                            !.signals = Wanted(found, part.bots)]
  /\ UNCHANGED <<bots, exchanges, results, settings, watchdog, changes>>

(* The order goes where the candles came from, unless that account is      *)
(* short and the bot may use another of its accounts.                      *)
Routed(b, x) ==
  LET others == {y \in Exchanges \ {x} : exchanges[y].funds = "funded"}
  IN  IF scan.copy[b].auto /\ settings.switching /\ exchanges[x].funds = "empty" /\ others # {} THEN others
      ELSE {x}

(* A signal whose price the candles have already left is dropped.          *)
Dropped(b) == scan' = [scan EXCEPT !.signals = @ \ {b}]

(* Asleep is judged on the row the session holds.                          *)
ProcessSignal(b) ==
  /\ scan.pc = "trade" /\ b \in scan.signals
  /\ \/ Dropped(b)
     \/ /\ ~scan.copy[b].asleep
        /\ \E x \in Routed(b, scan.group.exchange) :
             scan' = [scan EXCEPT !.signals = @ \ {b},
                                  !.orders = @ \cup {[bot |-> b, symbol |-> scan.group.symbol, exchange |-> scan.group.exchange,
                                                      placed |-> x, size |-> scan.size, asleep |-> bots[b].asleep,
                                                      short |-> exchanges[scan.group.exchange].funds = "empty"]}]
  /\ UNCHANGED <<bots, exchanges, results, settings, watchdog, changes>>

Proceed ==
  /\ scan.pc = "trade" /\ scan.signals = {}
  /\ scan' = [scan EXCEPT !.pc = IF scan.sizes # {} THEN "size" ELSE "fetch"]
  /\ UNCHANGED <<bots, exchanges, results, settings, watchdog, changes>>

EndScan ==
  /\ scan.pc = "fetch" /\ scan.groups = {}
  /\ scan' = [scan EXCEPT !.pc = "idle", !.end = "complete"]
  /\ UNCHANGED <<bots, exchanges, results, settings, watchdog, changes>>

-----------------------------------------------------------------------------
(* Traders, the administrator, exchanges and time.                          *)
Changes(row) == /\ changes < MaxChanges /\ changes' = changes + 1
                /\ UNCHANGED <<results, scan, watchdog>>
                /\ row

SetExchangeMode(b) ==
  \/ bots' = [bots EXCEPT ![b].auto = FALSE, ![b].pick = Nowhere, ![b].age = "never"]
  \/ bots' = [bots EXCEPT ![b].auto = TRUE, ![b].age = "never"]
SetSleep(b) == bots' = [bots EXCEPT ![b].asleep = ~@]
SetStatus(b) == bots' = [bots EXCEPT ![b].active = ~@]
SetBalance(b) == \E n \in Balances : bots' = [bots EXCEPT ![b].balance = n]
SixHoursPass == bots' = [b \in Bots |-> [bots[b] EXCEPT !.age = IF @ = "fresh" THEN "old" ELSE @]]

EditBot == Changes(/\ \/ \E b \in Bots : SetExchangeMode(b) \/ SetSleep(b) \/ SetStatus(b) \/ SetBalance(b)
                      \/ SixHoursPass
                   /\ bots' # bots /\ UNCHANGED <<exchanges, settings>>)
ExchangeChanges ==
  Changes(/\ \E x \in Exchanges :
               \/ exchanges' = [exchanges EXCEPT ![x].up = ~@]
               \/ \E f \in {"funded", "empty", "unknown"} : exchanges' = [exchanges EXCEPT ![x].funds = f]
          /\ UNCHANGED <<bots, settings>>)
AdminChanges ==
  Changes(/\ \/ settings' = [settings EXCEPT !.enabled = ~@]
             \/ settings' = [settings EXCEPT !.switching = ~@]
             \/ \E n \in Balances \cup {NoBalance} : settings' = [settings EXCEPT !.balance = n]
          /\ UNCHANGED <<bots, exchanges>>)

-----------------------------------------------------------------------------
(* The watchdog: two critical readings in a row slow the scanner down, and *)
(* only a calm one lets it go; one in between merely starts the count over. *)
CriticalEver(zone) == IF zone = "ok" THEN 0                \* Mutant: a warning does not start it over
                      ELSE watchdog.critical + (IF zone = "critical" THEN 1 ELSE 0)
Critical(zone) == IF zone = "critical" THEN watchdog.critical + 1 ELSE 0
CheckOnce(zone) ==
  LET count == Critical(zone)
  IN  /\ watchdog' = [critical |-> IF count > 2 THEN 2 ELSE count,
                      degraded |-> CASE zone = "critical" -> watchdog.degraded \/ count >= 2
                                     [] zone = "warn" -> watchdog.degraded
                                     [] zone = "ok" -> FALSE,
                      zone |-> zone]
      /\ UNCHANGED <<bots, exchanges, results, settings, scan, changes>>

ScanNext ==
  \/ StartCycle \/ Proceed \/ EndScan
  \/ \E b \in Bots : ProcessSignal(b) \/ \E s \in Watched[b] : Resolve(b, s)
  \/ \E g \in scan.groups : FetchGroup(g)
  \/ \E part \in scan.sizes : RunAll(part)
  \/ EditBot \/ ExchangeChanges \/ AdminChanges
  \/ \E zone \in {"ok", "warn", "critical"} : CheckOnce(zone)

ScanSpec == ScanInit /\ [][ScanNext]_scanVars

-----------------------------------------------------------------------------
(* A bot trades a symbol at most once in a cycle, with its own balance or  *)
(* the master's, and on the exchange whose candles gave the signal unless  *)
(* the money there was short -- although one run of the strategies serves  *)
(* many bots, and every family also runs under a name of its own.          *)
TradedOnce ==
  \A o \in scan.orders :
    /\ \A p \in scan.orders : (p.bot = o.bot /\ p.symbol = o.symbol) => p = o
    /\ <<o.bot, o.symbol, o.exchange>> \in scan.seen
    /\ o.placed # o.exchange => o.short

(* The scanner is slowed by two critical readings in a row, and released   *)
(* by a calm one: neither by one bad moment, nor by one that is half good. *)
SlowsForCause ==
  watchdog'.degraded # watchdog.degraded =>
    IF watchdog'.degraded THEN watchdog.zone = "critical" /\ watchdog'.zone = "critical"
    ELSE watchdog'.zone = "ok"
SlowedForCause == [][SlowsForCause]_scanVars

(* Sleep is enforced where signals are processed, "the real enforcement    *)
(* point": no order is placed for a bot that is asleep.                    *)
SleepIsObeyed == \A o \in scan.orders : ~o.asleep

(* A pick is reconsidered after its six hours, and no bot's pick keeps the *)
(* others from being scanned: no cycle ends before its groups are fetched. *)
CyclesComplete == scan.end # "failed"
=============================================================================

------------------------------ MODULE MCRetries ------------------------------
(***************************************************************************)
(* Orders and what is retried: an instance of TradeEntries, the life of a  *)
(* trade row; one of BrokerGateway, whose requests are sent again by the   *)
(* failover; and one of IdempotencyGuard, whose attempts are the client's. *)
(* They share no state: a behaviour is of one part.                        *)
(***************************************************************************)
EXTENDS BrokerGateway, IdempotencyGuard, TradeEntries

VARIABLE part

(* One state to stand still in is enough.                                  *)
NoCalls ==
  /\ broker = [style |-> "bingx", mode |-> "hedge", backup |-> FALSE]
  /\ request = [c \in Calls |-> [op |-> "place", side |-> "long", qty |-> 1]]
  /\ callPc = [c \in Calls |-> "new"] /\ lots = [c \in Calls |-> 1]
  /\ openLots = [side \in Sides |-> 0]
  /\ arrivals = [c \in Calls |-> 0] /\ silent = [c \in Calls |-> FALSE]
  /\ reduced = [c \in Calls |-> {}]
NoEntry == Init /\ origin = "auto" /\ ~live /\ routed

RetriesInit ==
  \/ part = "gateway" /\ CallInit /\ KeyInit /\ NoEntry
  \/ part = "guard" /\ NoCalls /\ KeyInit /\ NoEntry
  \/ part = "entries" /\ NoCalls /\ KeyInit /\ Init

CallStep(c) == part = "gateway" /\ Step(c) /\ UNCHANGED <<part, keyVars, vars>>
AttemptStep(a) == part = "guard" /\ Progress(a) /\ UNCHANGED <<part, callVars, vars>>
AttemptCrash(a) == part = "guard" /\ Crash(a) /\ UNCHANGED <<part, callVars, vars>>
EntryAdvance(s) == part = "entries" /\ Advance(s) /\ UNCHANGED <<part, callVars, keyVars>>
EntryStep == part = "entries" /\ Next /\ UNCHANGED <<part, callVars, keyVars>>

RetriesNext == \/ \E c \in Calls : CallStep(c)
               \/ \E a \in Attempts : AttemptStep(a) \/ AttemptCrash(a)
               \/ EntryStep

RetriesVars == <<part, callVars, keyVars, vars>>
RetriesSpec ==
  /\ RetriesInit /\ [][RetriesNext]_RetriesVars
  /\ \A c \in Calls : WF_RetriesVars(CallStep(c))
  /\ \A a \in Attempts : WF_RetriesVars(AttemptStep(a))
  /\ \A s \in Sessions : WF_RetriesVars(EntryAdvance(s))

-----------------------------------------------------------------------------
(* Whoever calls is answered: every order sent to a broker, though the     *)
(* transport may fail at every attempt, and every attempt with a key, none *)
(* of which waits for a reservation whose request may be dead.             *)
EverybodyAnswered ==
  /\ part = "gateway" => EveryCallAnswered
  /\ part = "guard" => EveryAttemptAnswered
=============================================================================

-------------------------------- MODULE Tuning --------------------------------
(***************************************************************************)
(* The intelligent tuning worker of each backend, on two sibling bots whose*)
(* strategies differ only in the kind of zone they trade.  A worker may    *)
(* step a bot's parameter and may move a symbol to the sibling, after      *)
(* replays that take minutes; traders edit, revert and trade meanwhile.    *)
(* Gains are in hundredths of R.                                           *)
(***************************************************************************)
EXTENDS Integers

CONSTANTS Workers, TunedSymbols,
          Improvements,                  \* what the replays may find
          MinImprovement, MaxSpread,     \* what the settings and the gate allow
          MaxMoves                       \* bound: moves and reverts in a behaviour

ASSUME GainsAreGains ==
  Improvements \subseteq Int /\ MinImprovement \in Int /\ MaxSpread \in Int

VARIABLES tuned,      \* per bot: [mode, home], home counts a symbol in its list
          dormant,    \* siblings that are not active
          holding,    \* <<bot, symbol>> with a position or a resting order
          dead,       \* <<bot, symbol>> with a cancelled or failed trade on record
          trail,      \* per bot: its latest audit row, [kind, ...]
          work,       \* per worker: where it is, with the copies it holds
          revert,     \* a trader's request to revert, with the copies it holds
          moves,      \* moves and reverts so far
          overtaken,    \* a commit was computed from rows that had changed since
          gains,      \* improvements on which something was changed
          uprooted    \* <<bot, symbol>> moved while its bot had a position in it

tuneVars == <<tuned, dormant, holding, dead, trail, work, revert, moves, overtaken, gains, uprooted>>

Zones == {"gaps", "blocks"}
Sibling(b) == CHOOSE c \in Zones : c # b
NoAdjustment == [kind |-> "none"]
NotAtWork == [pc |-> "idle", stale |-> FALSE]

TuneInit ==
  /\ tuned = [b \in Zones |-> [mode |-> "basic",
                               home |-> [s \in TunedSymbols |-> IF b = "gaps" THEN 1 ELSE 0]]]
  /\ dormant \in {{}, {"blocks"}}
  /\ holding = {} /\ dead = {} /\ trail = [b \in Zones |-> NoAdjustment]
  /\ work = [w \in Workers |-> NotAtWork] /\ revert = NotAtWork
  /\ moves = 0 /\ overtaken = FALSE /\ gains = {} /\ uprooted = {}

WorkAt(w, at) == work' = [work EXCEPT ![w].pc = at]
GoHome(w) == work' = [work EXCEPT ![w] = NotAtWork]

-----------------------------------------------------------------------------
(* Traders switch the mode; signals open positions, and something ends them*)
SetTuningMode(b, m) ==
  /\ tuned' = [tuned EXCEPT ![b].mode = m]
  /\ UNCHANGED <<dormant, holding, dead, trail, work, revert, moves, overtaken, gains, uprooted>>
Opens(b, s) ==
  /\ b \notin dormant /\ tuned[b].home[s] > 0
  /\ holding' = holding \cup {<<b, s>>}
  /\ UNCHANGED <<tuned, dormant, dead, trail, work, revert, moves, overtaken, gains, uprooted>>

TradeEnds(b, s, outcome) ==
  /\ <<b, s>> \in holding
  /\ holding' = holding \ {<<b, s>>}
  /\ dead' = IF outcome = "closed" THEN dead ELSE dead \cup {<<b, s>>}
  /\ UNCHANGED <<tuned, dormant, trail, work, revert, moves, overtaken, gains, uprooted>>

-----------------------------------------------------------------------------
(* A bot with an audited adjustment and bad trades since goes back to Basic*)
KillSwitch(w, b) ==
  /\ work[w].pc = "idle" /\ tuned[b].mode = "intelligent" /\ trail[b] # NoAdjustment
  /\ tuned' = [tuned EXCEPT ![b].mode = "basic"]
  /\ UNCHANGED <<dormant, holding, dead, trail, work, revert, moves, overtaken, gains, uprooted>>

(* Otherwise the values next to its parameter are replayed; which value the*)
(* parameter has is not kept.                                              *)
StartTuning(w, b) ==
  /\ work[w].pc = "idle" /\ tuned[b].mode = "intelligent"
  /\ work' = [work EXCEPT ![w] = [pc |-> "tune", stale |-> FALSE, bot |-> b]]
  /\ UNCHANGED <<tuned, dormant, holding, dead, trail, revert, moves, overtaken, gains, uprooted>>

(* The gate looks at how far the variants lie apart: with two variants that*)
(* is the improvement itself.                                              *)
WorthwhileUnstable(gain) == gain >= MinImprovement   \* Mutant: the stability check is not among the relevant ones
Worthwhile(gain) == gain >= MinImprovement /\ gain <= MaxSpread

AdjustParam(w, gain) ==
  /\ work[w].pc = "tune" /\ Worthwhile(gain) /\ tuned[work[w].bot].mode = "intelligent"
  /\ work' = [work EXCEPT ![w] = [pc |-> "audit", stale |-> FALSE, bot |-> work[w].bot, row |-> [kind |-> "param"]]]
  /\ gains' = gains \cup {gain}
  /\ UNCHANGED <<tuned, dormant, holding, dead, trail, revert, moves, overtaken, uprooted>>

(* No trades, no improvement, a failed check, or no longer Intelligent; the*)
(* zones come next.                                                        *)
LeaveParam(w) ==
  /\ work[w].pc = "tune" /\ WorkAt(w, "zones")
  /\ UNCHANGED <<tuned, dormant, holding, dead, trail, revert, moves, overtaken, gains, uprooted>>

(* Nothing of the symbol may be on record as other than closed.            *)
CheckZone(w, s) ==
  LET b == work[w].bot IN
  /\ work[w].pc = "zones" /\ tuned[b].mode = "intelligent" /\ Sibling(b) \notin dormant
  /\ tuned[b].home[s] > 0 /\ <<b, s>> \notin holding \cup dead
  /\ work' = [work EXCEPT ![w] = [pc |-> "replay", stale |-> FALSE, bot |-> b, symbol |-> s]]
  /\ UNCHANGED <<tuned, dormant, holding, dead, trail, revert, moves, overtaken, gains, uprooted>>

(* Minutes later both bots are read again, one after the other.            *)
StillThere(list, s) == list[s] > 0
ReadFrom(w, gain) ==
  LET from == tuned[work[w].bot] IN
  /\ work[w].pc = "replay" /\ Worthwhile(gain) /\ moves < MaxMoves
  /\ from.mode = "intelligent" /\ StillThere(from.home, work[w].symbol)
  /\ work' = [work EXCEPT ![w] = [pc |-> "readTo", stale |-> FALSE, bot |-> work[w].bot,
                                  symbol |-> work[w].symbol, gain |-> gain, from |-> from.home]]
  /\ UNCHANGED <<tuned, dormant, holding, dead, trail, revert, moves, overtaken, gains, uprooted>>
ReadTo(w) ==
  /\ work[w].pc = "readTo"
  /\ work' = [work EXCEPT ![w] = [pc |-> "move", stale |-> work[w].stale, bot |-> work[w].bot,
                                  symbol |-> work[w].symbol, gain |-> work[w].gain, from |-> work[w].from,
                                  to |-> tuned[Sibling(work[w].bot)].home]]
  /\ UNCHANGED <<tuned, dormant, holding, dead, trail, revert, moves, overtaken, gains, uprooted>>

Outdated(sessions) == [w \in Workers |-> [sessions[w] EXCEPT !.stale = TRUE]]
MoveSymbol(w) ==
  LET b == work[w].bot  s == work[w].symbol IN
  /\ work[w].pc = "move"
  /\ tuned' = [tuned EXCEPT ![b].home = [work[w].from EXCEPT ![s] = 0],
                            ![Sibling(b)].home = [work[w].to EXCEPT ![s] = @ + 1]]
  /\ work' = [Outdated(work) EXCEPT ![w] = [pc |-> "audit", stale |-> FALSE, bot |-> b,
                                            row |-> [kind |-> "move", symbol |-> s]]]
  /\ revert' = [revert EXCEPT !.stale = TRUE]
  /\ overtaken' = (overtaken \/ work[w].stale) /\ moves' = moves + 1
  /\ gains' = gains \cup {work[w].gain}
  /\ uprooted' = IF <<b, s>> \in holding THEN uprooted \cup {<<b, s>>} ELSE uprooted
  /\ UNCHANGED <<dormant, holding, dead, trail>>

(* The audit row is a commit of its own, after the change it records.      *)
Audit(w) ==
  /\ work[w].pc = "audit"
  /\ trail' = [trail EXCEPT ![work[w].bot] = work[w].row]
  /\ work' = [work EXCEPT ![w] = [pc |-> "zones", stale |-> FALSE, bot |-> work[w].bot]]
  /\ UNCHANGED <<tuned, dormant, holding, dead, revert, moves, overtaken, gains, uprooted>>

(* A worker gives up wherever it is: an exception, a restart, a sibling not*)
(* active, a symbol that is gone.                                          *)
GiveUp(w) ==
  /\ work[w].pc # "idle" /\ GoHome(w)
  /\ UNCHANGED <<tuned, dormant, holding, dead, trail, revert, moves, overtaken, gains, uprooted>>

-----------------------------------------------------------------------------
(* A trader reverts the latest audited adjustment of a bot, if it was a    *)
(* move.  Its row stays.                                                   *)
RevertReads(b) ==
  /\ revert.pc = "idle" /\ trail[b].kind = "move" /\ moves < MaxMoves
  /\ revert' = [pc |-> "readTo", stale |-> FALSE, bot |-> b, symbol |-> trail[b].symbol, from |-> tuned[b].home]
  /\ UNCHANGED <<tuned, dormant, holding, dead, trail, work, moves, overtaken, gains, uprooted>>

RevertibleAnyway(list, s) == list \in [TunedSymbols -> Nat]   \* Mutant: the symbol may have moved on since
Revertible(list, s) == list[s] > 0
RevertMove ==
  LET c == Sibling(revert.bot) IN
  /\ revert.pc = "readTo"
  /\ IF Revertible(tuned[c].home, revert.symbol)
     THEN revert' = [pc |-> "move", stale |-> revert.stale, bot |-> revert.bot, symbol |-> revert.symbol,
                     from |-> revert.from, to |-> tuned[c].home]
     ELSE revert' = NotAtWork
  /\ UNCHANGED <<tuned, dormant, holding, dead, trail, work, moves, overtaken, gains, uprooted>>
RevertCommits ==
  LET s == revert.symbol IN
  /\ revert.pc = "move"
  /\ tuned' = [tuned EXCEPT ![revert.bot].home = [revert.from EXCEPT ![s] = @ + 1],
                            ![Sibling(revert.bot)].home = [revert.to EXCEPT ![s] = 0]]
  /\ work' = Outdated(work) /\ revert' = NotAtWork
  /\ overtaken' = (overtaken \/ revert.stale) /\ moves' = moves + 1
  /\ UNCHANGED <<dormant, holding, dead, trail, gains, uprooted>>

TuneNext ==
  \/ \E b \in Zones :
       \/ RevertReads(b)
       \/ \E m \in {"basic", "intelligent"} : SetTuningMode(b, m)
       \/ \E s \in TunedSymbols : Opens(b, s) \/ \E outcome \in {"closed", "cancelled"} : TradeEnds(b, s, outcome)
  \/ \E w \in Workers :
       \/ LeaveParam(w) \/ ReadTo(w) \/ MoveSymbol(w) \/ Audit(w) \/ GiveUp(w)
       \/ \E b \in Zones : KillSwitch(w, b) \/ StartTuning(w, b)
       \/ \E s \in TunedSymbols : CheckZone(w, s)
       \/ \E gain \in Improvements : ReadFrom(w, gain) \/ AdjustParam(w, gain)
  \/ RevertMove \/ RevertCommits

TuneSpec == TuneInit /\ [][TuneNext]_tuneVars

-----------------------------------------------------------------------------
(* Nothing is changed for less than the margin, and nothing for more than  *)
(* the stability check allows between the two variants: the largest gains  *)
(* are never taken.  As long as no commit overtook the reads of another, a *)
(* symbol is in the list of exactly one of the two siblings, once, however *)
(* workers, reverts and settings cross.                                    *)
TuningIsSound ==
  /\ \A gain \in gains : gain \in MinImprovement..MaxSpread
  /\ ~overtaken => \A s \in TunedSymbols : tuned["gaps"].home[s] + tuned["blocks"].home[s] = 1

(* A symbol is never reassigned out from under a position.                 *)
MovedWhenFlat == uprooted = {}
=============================================================================

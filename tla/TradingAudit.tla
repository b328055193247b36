------------------------------ MODULE TradingAudit ------------------------------
(***************************************************************************)
(* The audit of the trade record: it reads bots and trades in several      *)
(* statements while trading goes on, judges families of bots, finds what   *)
(* was traded twice at once, what keeps failing and who is silent, and     *)
(* recommends pausing the families that lose.  An administrator applies a  *)
(* recommendation or dismisses it.                                         *)
(***************************************************************************)
EXTENDS Integers, FiniteSets, Functions

CONSTANTS AuditedBots, FamilyOf,
          TradedSetups,  \* direction, entry and stop
          Outcomes,      \* of a trade
          MinTrades,     \* closed trades before a family is judged
          MinErrors,     \* equal errors that make a cluster
          SilentBelow,   \* trades below which a bot is silent
          AuditedTrades, LastTime, MaxRuns   \* bounds

ASSUME AuditSettings ==
  MinTrades \in Nat \ {0} /\ IsFiniteSet(AuditedBots) /\ Outcomes \subseteq Int

VARIABLES clock,
          trades,    \* rows, each with the times it was made, entered and left
          paused,    \* bots
          audit,     \* the run in progress
          findings,  \* of the runs: [kind, about, status, run]
          runs,
          earned,    \* families that deserved a pause at some time
          pauses     \* bots an applied recommendation has paused

auditVars == <<clock, trades, paused, audit, findings, runs, earned, pauses>>

NoAudit == [pc |-> "idle", until |-> 0, families |-> <<>>, losses |-> 0, twice |-> {}, broken |-> {}]
Families == {FamilyOf[b] : b \in AuditedBots}
Open == 0      \* as an exit: none yet

AuditInit ==
  /\ clock = 1 /\ trades = {} /\ paused = {} /\ audit = NoAudit
  /\ findings = {} /\ runs = 0 /\ earned = {} /\ pauses = {}

-----------------------------------------------------------------------------
(* Arithmetic of the record.  A closed trade has a result and an exit; one *)
(* that is cancelled unfilled keeps the entry time of its order.           *)
Closed(T) == {t \in T : t.status = "closed"}
Of(T, b) == {t \in T : t.bot = b}
Total(T) == SumFunctionOnSet([t \in T |-> t.result], T)

(* Per instance, then rolled up: families are never read from the table.   *)
InstanceRow(T, b) == [n |-> Cardinality(Of(T, b)), total |-> Total(Of(T, b))]
InstanceRows(T) == [b \in {t.bot : t \in T} |-> InstanceRow(T, b)]
RollupOfLast(rows, f) ==               \* Mutant: the last instance stands for the family
  LET b == CHOOSE b \in DOMAIN rows : FamilyOf[b] = f IN rows[b]
Rollup(rows, f) ==
  LET own == {b \in DOMAIN rows : FamilyOf[b] = f}
  IN  [n |-> SumFunctionOnSet([b \in own |-> rows[b].n], own),
       total |-> SumFunctionOnSet([b \in own |-> rows[b].total], own)]
Expectancy(T) == LET rows == InstanceRows(Closed(T))
                 IN  [f \in {FamilyOf[b] : b \in DOMAIN rows} |-> Rollup(rows, f)]
Loses(row) == row.n >= MinTrades /\ row.total < 0

(* The same setup of the same bot, in the order of entry: only neighbours  *)
(* are compared.                                                           *)
Setups(T) == {{u \in T : u.bot = t.bot /\ u.setup = t.setup} : t \in {u \in T : u.entered # Open}}
Entered(S) == {t \in S : t.entered # Open}
Neighbours(S) ==
  {p \in Entered(S) \X Entered(S) :
     p[1].entered < p[2].entered /\ ~\E t \in Entered(S) : p[1].entered < t.entered /\ t.entered < p[2].entered}
Overlap(a, b) == a.left = Open \/ b.entered < a.left
TradedTwice(S) == \E p \in Neighbours(S) : Overlap(p[1], p[2])
Clusters(T) == LET failed == {t \in T : t.status = "error"}
               IN  {t.setup : t \in {u \in failed : Cardinality({v \in failed : v.setup = u.setup}) >= MinErrors}}
Silent(T) == {b \in AuditedBots \ paused : Cardinality(Of(T, b)) < SilentBelow}

-----------------------------------------------------------------------------
(* Trading.                                                                 *)
Keep == UNCHANGED <<paused, audit, findings, runs, pauses>>
Earned(T) ==                          \* judged on the trades themselves, up to some time
  earned' = earned \cup {f \in Families : \E end \in {t.made : t \in T} :
                           LET own == {t \in Closed(T) : FamilyOf[t.bot] = f /\ t.made <= end}
                           IN  Cardinality(own) >= MinTrades /\ Total(own) < 0}
Ticks == clock < LastTime /\ clock' = clock + 1

Trade(b, setup) ==                    \* one entry at a time on the clock
  /\ Ticks /\ b \notin paused /\ Cardinality(trades) < AuditedTrades
  /\ \E s \in {"active", "error"} :
       trades' = trades \cup {[bot |-> b, setup |-> setup, status |-> s, result |-> 0, left |-> Open,
                               entered |-> IF s = "error" THEN Open ELSE clock, made |-> clock]}
  /\ Keep /\ UNCHANGED earned
Leaves(t) ==
  /\ t.status = "active" /\ Ticks
  /\ \E u \in {[t EXCEPT !.status = "closed", !.result = r, !.left = clock] : r \in Outcomes} \cup {[t EXCEPT !.status = "cancelled"]} :
       trades' = (trades \ {t}) \cup {u} /\ Earned(trades')
  /\ Keep

-----------------------------------------------------------------------------
(* The run, statement by statement, on the trades made before it began; a  *)
(* failure leaves it FAILED and empty.                                     *)
Known == {t \in trades : t.made < audit.until}
Reads == UNCHANGED <<clock, trades, paused, findings, runs, earned, pauses>>
StartAudit == /\ audit.pc = "idle" /\ runs < MaxRuns /\ audit' = [NoAudit EXCEPT !.pc = "expectancy", !.until = clock] /\ Reads
ReadExpectancy == /\ audit.pc = "expectancy" /\ Reads
                  /\ audit' = [audit EXCEPT !.pc = "register", !.families = Expectancy(Known)]
ReadRegister == /\ audit.pc = "register" /\ Reads
                /\ audit' = [audit EXCEPT !.pc = "setups", !.losses = Cardinality({t \in Closed(Known) : t.result < 0})]
ReadSetups == /\ audit.pc = "setups" /\ Reads
              /\ audit' = [audit EXCEPT !.pc = "errors", !.twice = {S \in Setups(Known) : TradedTwice(S)}]
ReadErrors == /\ audit.pc = "errors" /\ Reads
              /\ audit' = [audit EXCEPT !.pc = "findings", !.broken = Clusters(Known)]

Found(kind, about, status) == {[kind |-> kind, about |-> a, status |-> status, run |-> runs + 1] : a \in about}
Concluded ==
  LET F == audit.families  judged == {f \in DOMAIN F : F[f].n >= MinTrades}
  IN  Found("pause", {f \in judged : Loses(F[f])}, "pending")
        \cup Found("works", {f \in judged : ~Loses(F[f])}, "none")
        \cup Found("twice", {"setups" : S \in audit.twice}, "none")
        \cup Found("errors", audit.broken, "none") \cup Found("silent", {"bots" : b \in Silent(Known)}, "none")
CompleteAudit ==
  /\ audit.pc = "findings" /\ audit' = NoAudit /\ runs' = runs + 1 /\ findings' = findings \cup Concluded
  /\ UNCHANGED <<clock, trades, paused, earned, pauses>>
FailAudit ==
  /\ audit.pc # "idle" /\ audit' = NoAudit /\ runs' = runs + 1
  /\ UNCHANGED <<clock, trades, paused, findings, earned, pauses>>

-----------------------------------------------------------------------------
(* The administrator: a finding is applied whatever has become of it.      *)
Settle(f, s) == findings' = (findings \ {f}) \cup {[f EXCEPT !.status = s]}
ApplyFinding(f) ==
  /\ f.kind = "pause" /\ Settle(f, "applied")
  /\ LET hit == {b \in AuditedBots \ paused : FamilyOf[b] = f.about} IN paused' = paused \cup hit /\ pauses' = pauses \cup hit
  /\ UNCHANGED <<clock, trades, audit, runs, earned>>
DismissFinding(f) == Settle(f, "dismissed") /\ UNCHANGED <<clock, trades, paused, audit, runs, earned, pauses>>
DeleteRun(r) ==
  /\ findings' = {f \in findings : f.run # r} /\ findings' # findings
  /\ UNCHANGED <<clock, trades, paused, audit, runs, earned, pauses>>
Resume(b) == b \in paused /\ Ticks /\ paused' = paused \ {b} /\ UNCHANGED <<trades, audit, findings, runs, earned, pauses>>

AuditNext ==
  \/ \E b \in AuditedBots : Resume(b) \/ \E setup \in TradedSetups : Trade(b, setup)
  \/ \E t \in trades : Leaves(t)
  \/ StartAudit \/ ReadExpectancy \/ ReadRegister \/ ReadSetups \/ ReadErrors \/ CompleteAudit \/ FailAudit
  \/ \E f \in findings : ApplyFinding(f) \/ DismissFinding(f)
  \/ \E r \in 1..MaxRuns : DeleteRun(r)

AuditSpec == AuditInit /\ [][AuditNext]_auditVars

-----------------------------------------------------------------------------
(* Whom an applied recommendation pauses had earned it, as a family, on    *)
(* enough closed trades; what the register lists covers what the judgement *)
(* counted, though trades close between the two statements; and comparing  *)
(* neighbours finds every pair of a setup that was open at one time.       *)
PausesEarned == \A b \in pauses : FamilyOf[b] \in earned
RegisterCovers ==
  audit.pc = "setups" => \A f \in DOMAIN audit.families : Loses(audit.families[f]) => audit.losses > 0
NeighboursSuffice ==
  \A S \in audit.twice \cup Setups(trades) :
    TradedTwice(S) <=> \E a, b \in Entered(S) : a.entered < b.entered /\ Overlap(a, b)
AuditIsSound == PausesEarned /\ RegisterCovers /\ NeighboursSuffice

(* "Whether any pair within a group genuinely overlapped in time".         *)
OverlapIsGenuine ==
  \A S \in Setups(trades) : TradedTwice(S) => \E a, b \in S : a # b /\ a.status # "cancelled" /\ a.entered # Open /\ Overlap(a, b)

(* A dismissed recommendation is not applied any more.                     *)
DismissedStays == [][\A f \in findings : f.status = "dismissed" => [f EXCEPT !.status = "applied"] \notin findings']_auditVars
=============================================================================

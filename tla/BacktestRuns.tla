------------------------------ MODULE BacktestRuns ------------------------------
(***************************************************************************)
(* Backtest runs as background tasks of a backend, and the go-live gate    *)
(* that reads what they saved.  A run is a row that its task advances with *)
(* blind updates; a backend that starts fails every row left queued or     *)
(* running, its own or, while two instances overlap, another's.            *)
(***************************************************************************)
EXTENDS Naturals, FiniteSets

CONSTANTS BacktestIds, Instances,
          PerRun, MinTrades   \* trades a run yields, trades the gate asks for

VARIABLES row,       \* per run: [status, scope, curve]
          task,      \* per run: [pc, on], the task and the backend it runs on
          up,        \* backends running
          onFile,    \* runs whose trades are in closed_trades
          variants,  \* the tuning worker saved parameter variants
          signed,    \* latest attestation per manual check
          approved,  \* a gate evaluation passed overall
          disowned,  \* runs failed by another instance while their task was alive
          lost       \* runs that ended with nothing written

runVars == <<row, task, up, onFile, variants, signed, approved, disowned, lost>>

Final == {"COMPLETED", "FAILED"}
NoRun == [status |-> "none", scope |-> "isolated", curve |-> "none"]
NoTask == [pc |-> "none", on |-> "none"]
ManualChecks == {"paper_trading_reconciliation", "kill_switch_test", "manual_emergency_close_test"}

RunsInit ==
  /\ row = [r \in BacktestIds |-> NoRun] /\ task = [r \in BacktestIds |-> NoTask]
  /\ up = {}
  /\ onFile = {} /\ variants = FALSE /\ signed = [c \in ManualChecks |-> "none"]
  /\ approved = FALSE /\ disowned = {} /\ lost = {}

(* The request checks its dates, scope and bots and queues the row; with   *)
(* the row read back, it leaves the rest to a task of this process.        *)
CreateRun(r, b, scope) ==
  /\ row[r].status = "none" /\ b \in up
  /\ row' = [row EXCEPT ![r] = [status |-> "QUEUED", scope |-> scope, curve |-> "none"]]
  /\ task' = [task EXCEPT ![r] = [pc |-> "requested", on |-> b]]
  /\ UNCHANGED <<up, onFile, variants, signed, approved, disowned, lost>>
StartTask(r) ==
  /\ task[r].pc = "requested"
  /\ task' = [task EXCEPT ![r].pc = "queued"]
  /\ UNCHANGED <<row, up, onFile, variants, signed, approved, disowned, lost>>

Begin(r) ==
  /\ task[r].pc = "queued"
  /\ row' = [row EXCEPT ![r].status = "RUNNING"]
  /\ task' = [task EXCEPT ![r].pc = "running"]
  /\ UNCHANGED <<up, onFile, variants, signed, approved, disowned, lost>>

(* No such bot, no strategy, no symbol, no candles, or an exception.       *)
FailRun(r) ==
  /\ task[r].pc \notin {"none", "requested"}
  /\ row' = [row EXCEPT ![r].status = "FAILED"]
  /\ task' = [task EXCEPT ![r] = NoTask]
  /\ UNCHANGED <<up, onFile, variants, signed, approved, disowned, lost>>

(* The database refuses even that, or the request its row before there is  *)
(* a task: the work ends, the row says nothing.                            *)
LoseRun(r) ==
  /\ task[r].pc # "none"
  /\ task' = [task EXCEPT ![r] = NoTask] /\ lost' = lost \cup {r}
  /\ UNCHANGED <<row, up, onFile, variants, signed, approved, disowned>>

SaveTrades(r) ==
  /\ task[r].pc = "running"
  /\ onFile' = onFile \cup {r}
  /\ task' = [task EXCEPT ![r].pc = "saved"]
  /\ UNCHANGED <<row, up, variants, signed, approved, disowned, lost>>

(* One bot's run keeps a list of points, a portfolio a record of its own.  *)
CompletesUnsaved(r) == task[r].pc \in {"running", "saved"}   \* Mutant: trades need not be saved first
Completes(r) == task[r].pc = "saved"
CompleteRun(r) ==
  /\ Completes(r)
  /\ row' = [row EXCEPT ![r].status = "COMPLETED",
                        ![r].curve = IF row[r].scope = "portfolio" THEN "record" ELSE "list"]
  /\ task' = [task EXCEPT ![r] = NoTask]
  /\ UNCHANGED <<up, onFile, variants, signed, approved, disowned, lost>>

(* A process that stops takes its tasks with it.                           *)
InstanceStops(b) ==
  /\ b \in up
  /\ up' = up \ {b}
  /\ task' = [r \in BacktestIds |-> IF task[r].on = b THEN NoTask ELSE task[r]]
  /\ UNCHANGED <<row, onFile, variants, signed, approved, disowned, lost>>

OrphansRunning == {r \in BacktestIds : row[r].status = "RUNNING"}   \* Mutant: queued runs are left
Orphans == {r \in BacktestIds : row[r].status \in {"QUEUED", "RUNNING"}}
InstanceStarts(b) ==
  /\ b \notin up
  /\ up' = up \cup {b}
  /\ row' = [r \in BacktestIds |-> IF r \in Orphans THEN [row[r] EXCEPT !.status = "FAILED"] ELSE row[r]]
  /\ disowned' = disowned \cup {r \in Orphans : task[r].pc # "none"}
  /\ UNCHANGED <<task, onFile, variants, signed, approved, lost>>

TunerSavesVariants ==
  /\ variants' = TRUE
  /\ UNCHANGED <<row, task, up, onFile, signed, approved, disowned, lost>>

Attest(c, verdict) ==
  /\ signed' = [signed EXCEPT ![c] = verdict]
  /\ UNCHANGED <<row, task, up, onFile, variants, approved, disowned, lost>>

(* The gate counts the trades of every run on file, and nothing in the     *)
(* system saves a backtest under raised costs.                             *)
BlockingFailed(c) == c = "fail"   \* Mutant: only failed checks block, not missing ones
Blocking(c) == c # "pass"
Checks(statistics) ==
  {IF Cardinality(onFile) * PerRun >= MinTrades THEN "pass" ELSE "fail", statistics,
   "missing", IF variants THEN statistics ELSE "missing"}
  \cup {IF signed[c] = "none" THEN "missing" ELSE signed[c] : c \in ManualChecks}
EvaluateGate(statistics) ==
  /\ approved' = \A c \in Checks(statistics) : ~Blocking(c)
  /\ UNCHANGED <<row, task, up, onFile, variants, signed, disowned, lost>>

RunsNext ==
  \/ \E r \in BacktestIds : \/ StartTask(r) \/ Begin(r) \/ FailRun(r) \/ LoseRun(r)
                            \/ SaveTrades(r) \/ CompleteRun(r)
                            \/ \E b \in Instances, scope \in {"isolated", "portfolio"} : CreateRun(r, b, scope)
  \/ \E b \in Instances : InstanceStops(b) \/ InstanceStarts(b)
  \/ TunerSavesVariants
  \/ \E c \in ManualChecks, verdict \in {"pass", "fail"} : Attest(c, verdict)
  \/ \E statistics \in {"pass", "fail"} : EvaluateGate(statistics)

RunsSpec == RunsInit /\ [][RunsNext]_runVars

-----------------------------------------------------------------------------
(* A run still open has a request or a task at work on it, unless one that *)
(* failed could not write it or an instance has yet to start again; a      *)
(* completed run has its trades on file; only a run that another instance  *)
(* failed is still at work after its final status.                         *)
RunsAreAccountedFor ==
  \A r \in BacktestIds :
    /\ row[r].status \in {"QUEUED", "RUNNING"} =>
         task[r].pc # "none" \/ r \in lost \/ up # Instances
    /\ row[r].status = "COMPLETED" => r \in onFile
    /\ task[r].pc # "none" /\ row[r].status \in Final => r \in disowned

(* No bot is ever approved to go live: the gate waits for a cost-stress    *)
(* backtest that nothing in the platform runs.                             *)
NothingGoesLive == ~approved

(* A completed run can be read through the API, whose schema is a list.    *)
RunsCanBeRead == \A r \in BacktestIds : row[r].curve \in {"none", "list"}
=============================================================================

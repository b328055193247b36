------------------------------ MODULE Curriculum ------------------------------
(***************************************************************************)
(* One learner on the tracks: quizzes and practice open a stage, completing*)
(* it earns XP, a streak, a first retention check and, at the end of the   *)
(* track, a certificate.  Completion checks rows and adds one with nothing *)
(* unique behind it: two requests with keys of their own may both pass.    *)
(* A day's XP stands for one award, a passing quiz for any score over the  *)
(* stage's minimum; the idempotency guard is a module of its own.          *)
(***************************************************************************)
EXTENDS Naturals, Sequences, FiniteSets, FiniteSetsExt

CONSTANTS Lengths,          \* stages of each track, tracks in their order
          MinReps,          \* correct practice attempts a track asks for
          LearnerRequests,  \* requests in flight
          LastActivityDay,  \* bound on the calendar
          MaxChecks         \* bound on retention checks

(* A track without stages would be complete before anything was done.      *)
ASSUME TracksHaveStages ==
  Lengths \in Seq(Nat \ {0}) /\ MinReps \in Nat /\ LastActivityDay \in Nat \ {0} /\ MaxChecks \in Nat

VARIABLES done,     \* rows of stage_completions, per stage
          quizzed,  \* stages whose lesson has a quiz attempt over the minimum
          reps,     \* correct practice attempts, per track
          stats,    \* the row of user_learning_stats
          checks,   \* rows of retention_checks, in the order of their insertion
          certs,    \* certificates, per track
          studyDay,    \* the calendar
          asking,   \* per request: the step it is at and what it read
          activeOn, \* days on which an activity was committed
          crossed   \* some request read while another was between read and write

learnVars == <<done, quizzed, reps, stats, checks, certs, studyDay, asking, activeOn, crossed>>

Tracks == 1..Len(Lengths)
Stages == UNION {{t} \X (1..Lengths[t]) : t \in Tracks}
LastInterval == 4   \* RETENTION_INTERVALS_DAYS = 1, 3, 7, 14, 30
NoRow == [exists |-> FALSE, last |-> 0, streak |-> 0, longest |-> 0, xp |-> 0]
Resting == [pc |-> "idle"]

LearnTypeOK ==
  /\ \A s \in Stages : done[s] \in Nat
  /\ quizzed \subseteq Stages /\ reps \in [Tracks -> 0..MinReps]
  /\ DOMAIN stats = DOMAIN NoRow /\ stats.last \in 0..LastActivityDay
  /\ \A i \in DOMAIN checks : checks[i].stage \in Stages /\ checks[i].index \in 0..LastInterval
  /\ certs \in [Tracks -> Nat] /\ activeOn \subseteq 1..LastActivityDay
  /\ \A r \in LearnerRequests : asking[r].pc \in {"idle", "stage", "award", "game", "recall"}

LearnInit ==
  /\ done = [s \in Stages |-> 0] /\ quizzed = {} /\ reps = [t \in Tracks |-> 0]
  /\ stats = NoRow /\ checks = <<>> /\ certs = [t \in Tracks |-> 0]
  /\ studyDay = 1 /\ asking = [r \in LearnerRequests |-> Resting]
  /\ activeOn = {} /\ crossed = FALSE

(* What the reading endpoints say of a track.  They count rows, not stages: *)
(* a row is a stage with its number among the rows of that stage.           *)
Rows(t) == Cardinality(UNION {{n} \X (1..done[<<t, n>>]) : n \in 1..Lengths[t]})
Locked(t) == t > 1 /\ Rows(t - 1) < Lengths[t - 1]
CanAttemptAny(s) == TRUE   \* Mutant: stages open in any order
Finished(t) == {n \in 1..Lengths[t] : done[<<t, n>>] > 0}
CanAttempt(s) == s[2] - 1 \in Finished(s[1]) \cup {0}
Readable(s) == CanAttempt(s) \/ done[s] > 0
Unfinished(t) == (1..Lengths[t]) \ Finished(t)
ContinueByCount(t) == <<t, Rows(t) + 1>>   \* Mutant: the stage after as many as there are rows
ContinueAt(t) == <<t, Min(Unfinished(t))>>
(* Every badge counts the same rows; the whole curriculum asks it of all tracks. *)
AllTracksComplete == \A t \in Tracks : Rows(t) >= Lengths[t]

MeetsRequirements(s) == s \in quizzed /\ reps[s[1]] >= MinReps

UpdateStreakLoose(row, day) ==  \* Mutant: any gap continues the streak
  IF row.last = day THEN row
  ELSE LET n == row.streak + 1
       IN [row EXCEPT !.last = day, !.streak = n, !.longest = Max({@, n}), !.xp = @ + 1]
UpdateStreak(row, day) ==
  IF row.last = day THEN row
  ELSE LET n == IF row.last > 0 /\ day = row.last + 1 THEN row.streak + 1 ELSE 1
       IN [row EXCEPT !.last = day, !.streak = n, !.longest = Max({@, n}), !.xp = @ + 1]

(* Only the columns whose value changed are in the UPDATE. *)
Flushed(row, copy, new) == [c \in DOMAIN row |-> IF new[c] # copy[c] THEN new[c] ELSE row[c]]

Overlap == \E x \in LearnerRequests : asking[x].pc # "idle"
FirstCheck(s) == [stage |-> s, index |-> 0, open |-> TRUE]
NextIndex(index, passed) == IF passed THEN Min({index + 1, LastInterval}) ELSE 0
SuccessorOnFail(check, passed) ==   \* Mutant: what was recalled is not asked again
  IF passed THEN <<>> ELSE <<[check EXCEPT !.index = 0]>>
Successor(check, passed) == <<[check EXCEPT !.index = NextIndex(@, passed)]>>

SubmitQuiz(s) ==
  /\ quizzed' = quizzed \cup {s}
  /\ UNCHANGED <<done, reps, stats, checks, certs, studyDay, asking, activeOn, crossed>>

SubmitPractice(t) ==
  /\ reps[t] < MinReps
  /\ reps' = [reps EXCEPT ![t] = @ + 1]
  /\ UNCHANGED <<done, quizzed, stats, checks, certs, studyDay, asking, activeOn, crossed>>

(* The stats, mastery and awards pages insert the row when it is missing.  *)
OpenOverview ==
  /\ ~stats.exists
  /\ stats' = [stats EXCEPT !.exists = TRUE]
  /\ UNCHANGED <<done, quizzed, reps, checks, certs, studyDay, asking, activeOn, crossed>>

StartStage(r, s) ==
  /\ asking[r].pc = "idle"
  /\ done[s] = 0 /\ CanAttempt(s) /\ MeetsRequirements(s)
  /\ asking' = [asking EXCEPT ![r] = [pc |-> "stage", stage |-> s, day |-> studyDay,
                                      before |-> Rows(s[1]), row |-> stats]]
  /\ crossed' = (crossed \/ Overlap)
  /\ UNCHANGED <<done, quizzed, reps, stats, checks, certs, studyDay, activeOn>>

CertifiesAny(r, t) == TRUE   \* Mutant: a certificate with every stage, while there is none
Certifies(r, t) == asking[r].before + 1 >= Lengths[t]

(* The track's count of stages, then the look for a certificate.            *)
ReadCertificate(r) ==
  /\ asking[r].pc = "stage"
  /\ LET t == asking[r].stage[1]
     IN asking' = [asking EXCEPT ![r] =
          [pc |-> "award", stage |-> @.stage, day |-> @.day, row |-> @.row,
           issue |-> Certifies(r, t) /\ certs[t] = 0]]
  /\ UNCHANGED <<done, quizzed, reps, stats, checks, certs, studyDay, activeOn, crossed>>

(* Two requests that both found no stats row: the second insert fails, and *)
(* with it the whole request.                                              *)
LosesInsert(r) == ~asking[r].row.exists /\ stats.exists

CompleteStage(r) ==
  /\ asking[r].pc = "award" /\ ~LosesInsert(r) /\ Len(checks) < MaxChecks
  /\ LET a == asking[r] IN
       /\ done' = [done EXCEPT ![a.stage] = @ + 1]
       /\ stats' = [Flushed(stats, a.row, UpdateStreak(a.row, a.day)) EXCEPT !.exists = TRUE]
       /\ checks' = Append(checks, FirstCheck(a.stage))
       /\ certs' = IF a.issue THEN [certs EXCEPT ![a.stage[1]] = @ + 1] ELSE certs
       /\ activeOn' = activeOn \cup {a.day}
  /\ asking' = [asking EXCEPT ![r] = Resting]
  /\ UNCHANGED <<quizzed, reps, studyDay, crossed>>

StartGame(r) ==
  /\ asking[r].pc = "idle"
  /\ asking' = [asking EXCEPT ![r] = [pc |-> "game", day |-> studyDay, row |-> stats]]
  /\ crossed' = (crossed \/ Overlap)
  /\ UNCHANGED <<done, quizzed, reps, stats, checks, certs, studyDay, activeOn>>

CompleteGame(r) ==
  /\ asking[r].pc = "game" /\ ~LosesInsert(r)
  /\ stats' = [Flushed(stats, asking[r].row, UpdateStreak(asking[r].row, asking[r].day))
                 EXCEPT !.exists = TRUE]
  /\ activeOn' = activeOn \cup {asking[r].day}
  /\ asking' = [asking EXCEPT ![r] = Resting]
  /\ UNCHANGED <<done, quizzed, reps, checks, certs, studyDay, crossed>>

(* A request that loses the insert, or whose process stops, leaves no trace. *)
RequestFails(r) ==
  /\ asking[r].pc # "idle"
  /\ asking' = [asking EXCEPT ![r] = Resting]
  /\ UNCHANGED <<done, quizzed, reps, stats, checks, certs, studyDay, activeOn, crossed>>

ReviewFlashcard(s) ==   \* "still learning" schedules a check from the start
  /\ Len(checks) < MaxChecks
  /\ checks' = Append(checks, FirstCheck(s))
  /\ UNCHANGED <<done, quizzed, reps, stats, certs, studyDay, asking, activeOn, crossed>>

StartRecall(r, i) ==
  /\ asking[r].pc = "idle" /\ checks[i].open
  /\ asking' = [asking EXCEPT ![r] = [pc |-> "recall", check |-> i]]
  /\ crossed' = (crossed \/ Overlap)
  /\ UNCHANGED <<done, quizzed, reps, stats, checks, certs, studyDay, activeOn>>

(* A check answered is closed and the next one scheduled, in one commit.   *)
CompleteRecall(r, passed) ==
  /\ asking[r].pc = "recall" /\ Len(checks) < MaxChecks
  /\ LET i == asking[r].check IN
       checks' = [checks EXCEPT ![i].open = FALSE]
                 \o Successor([checks[i] EXCEPT !.open = TRUE], passed)
  /\ asking' = [asking EXCEPT ![r] = Resting]
  /\ UNCHANGED <<done, quizzed, reps, stats, certs, studyDay, activeOn, crossed>>

NextDay ==
  /\ studyDay < LastActivityDay
  /\ studyDay' = studyDay + 1
  /\ UNCHANGED <<done, quizzed, reps, stats, checks, certs, asking, activeOn, crossed>>

LearnNext ==
  \/ \E s \in Stages : SubmitQuiz(s) \/ ReviewFlashcard(s)
  \/ \E t \in Tracks : SubmitPractice(t)
  \/ OpenOverview \/ NextDay
  \/ \E r \in LearnerRequests :
       \/ \E s \in Stages : StartStage(r, s)
       \/ ReadCertificate(r) \/ CompleteStage(r) \/ StartGame(r) \/ CompleteGame(r)
       \/ RequestFails(r)
       \/ \E i \in DOMAIN checks : StartRecall(r, i)
       \/ \E passed \in BOOLEAN : CompleteRecall(r, passed)

LearnSpec == LearnInit /\ [][LearnNext]_learnVars

-----------------------------------------------------------------------------
(* A track whose stages are all complete has its certificate, and unless   *)
(* two requests crossed there is just one, none before the last stage, and *)
(* the pages that count rows open tracks and grant badges when they should.*)
CertificateWhenDone ==
  /\ \A t \in Tracks :
       /\ Unfinished(t) = {} => certs[t] > 0
       /\ crossed \/ certs[t] = (IF Unfinished(t) = {} THEN 1 ELSE 0)
       /\ crossed \/ (Locked(t) <=> t > 1 /\ Unfinished(t - 1) # {})
  /\ crossed \/ (AllTracksComplete <=> \A t \in Tracks : Unfinished(t) = {})

(* The streak is the run of days ending with the last active one, the      *)
(* longest the longest such run, and XP is awarded once per active day,    *)
(* as long as no two requests crossed.                                     *)
RunEndingAt(d) == Max({n \in 0..d : \A k \in (d - n + 1)..d : k \in activeOn})
StreakCountsDays ==
  crossed \/ /\ stats.streak = RunEndingAt(stats.last)
             /\ stats.last = Max(activeOn \cup {0})
             /\ stats.longest = Max({RunEndingAt(d) : d \in 0..LastActivityDay})
             /\ stats.xp = Cardinality(activeOn)

(* The stage the learner is sent to next can be read and attempted.        *)
NextIsOpen ==
  \A t \in Tracks : Rows(t) > 0 /\ Unfinished(t) # {} =>
    CanAttempt(ContinueAt(t)) /\ Readable(ContinueAt(t))

(* What was completed stays in the spaced recall: a stage's lesson always  *)
(* has a check still to come, however its checks were answered or raced.   *)
RecallGoesOn ==
  \A s \in Stages : done[s] > 0 =>
    \E i \in DOMAIN checks : checks[i].stage = s /\ checks[i].open

ProgressKept == CertificateWhenDone /\ StreakCountsDays /\ NextIsOpen /\ RecallGoesOn

(* A certificate is issued when every stage of the track is complete.      *)
CertificateMeansAll == \A t \in Tracks : certs[t] > 0 => Unfinished(t) = {}
=============================================================================

------------------------------ MODULE LessonTools ------------------------------
(***************************************************************************)
(* What a lesson page keeps: AI-made recaps, quizzes and flashcards cached *)
(* per lesson and dated by a hash of its text, and the learner's own marks:*)
(* bookmarks, notes, answers and the best run in the quiz game.  A cache   *)
(* row is looked up, the text sent to the AI, and the answer stored later; *)
(* by then the lesson may have been edited or the row written by another.  *)
(***************************************************************************)
EXTENDS Naturals, FiniteSets, FiniteSetsExt

CONSTANTS Kinds,        \* what is cached: "quiz" among them, recaps, flashcards
          Visits,       \* requests in flight
          LastVersion,  \* bound on the edits of the lesson's text
          MaxNotes, BestPossible, MaxOpens, MaxAnswers   \* bounds on what is counted

VARIABLES text,      \* version of the lesson's text, as its content hash tells it
          cached,    \* per kind, the version its row was made from, 0 when there is no row
          visit,     \* per request, its step and what it read
          answers,   \* graded wrong by the learner while very sure
          marks,     \* [bookmarked, notes, opens, best]
          served,    \* the last page served: [got, from, alone]
          met        \* kinds two requests were generating at once

toolVars == <<text, cached, visit, answers, marks, served, met>>

Away == [pc |-> "idle"]

ToolInit ==
  /\ text = 1 /\ cached = [k \in Kinds |-> 0] /\ visit = [v \in Visits |-> Away]
  /\ answers = 0 /\ marks = [bookmarked |-> FALSE, notes |-> 0, opens |-> 0, best |-> 0]
  /\ served = [got |-> 1, from |-> 1] /\ met = {}

EditLesson ==   \* the content scripts rewrite content_body
  /\ text < LastVersion
  /\ text' = text + 1
  /\ UNCHANGED <<cached, visit, answers, marks, served, met>>

FreshAny(k) == cached[k] # 0   \* Mutant: a row is served whatever text it was made from
Fresh(k) == cached[k] = text

(* A row made from this very text is served; otherwise the AI is asked.    *)
ServeCached(k) ==
  /\ Fresh(k)
  /\ served' = [got |-> cached[k], from |-> text]
  /\ UNCHANGED <<text, cached, visit, answers, marks, met>>

StartGenerating(v, k) ==
  /\ visit[v].pc = "idle" /\ ~Fresh(k)
  /\ visit' = [visit EXCEPT ![v] = [pc |-> "generate", kind |-> k, from |-> text, had |-> cached[k] # 0]]
  /\ met' = IF \E x \in Visits : visit[x].pc \in {"generate", "refresh"} /\ visit[x].kind = k
            THEN met \cup {k} ELSE met
  /\ UNCHANGED <<text, cached, answers, marks, served>>

(* The answer is stored over the row that was read; where none was read it *)
(* is inserted, and the lesson is the primary key.                         *)
Store(v) ==
  /\ visit[v].pc = "generate"
  /\ visit[v].had \/ cached[visit[v].kind] = 0
  /\ cached' = [cached EXCEPT ![visit[v].kind] = visit[v].from]
  /\ visit' = [visit EXCEPT ![v].pc = "refresh"]
  /\ UNCHANGED <<text, answers, marks, served, met>>

(* The row is read again before it is served.                              *)
ServeStored(v) ==
  /\ visit[v].pc = "refresh"
  /\ served' = [got |-> cached[visit[v].kind], from |-> visit[v].from]
  /\ visit' = [visit EXCEPT ![v] = Away]
  /\ UNCHANGED <<text, cached, answers, marks, met>>

(* No provider answers, the insert conflicts, or the process stops.        *)
VisitFails(v) ==
  /\ visit[v].pc # "idle"
  /\ visit' = [visit EXCEPT ![v] = Away]
  /\ UNCHANGED <<text, cached, answers, marks, served, met>>

(* A sure answer to a cached question, graded wrong by the learner later.  *)
AnswerQuiz ==
  /\ cached["quiz"] # 0 /\ answers < MaxAnswers
  /\ answers' = answers + 1
  /\ UNCHANGED <<text, cached, visit, marks, served, met>>
Revisit == answers >= 2

Bookmark(on) ==
  /\ marks.bookmarked # on
  /\ marks' = [marks EXCEPT !.bookmarked = on]
  /\ UNCHANGED <<text, cached, visit, answers, served, met>>

WriteNote ==
  /\ marks.notes < MaxNotes
  /\ marks' = [marks EXCEPT !.notes = @ + 1]
  /\ UNCHANGED <<text, cached, visit, answers, served, met>>

DeleteNote ==
  /\ marks.notes > 0
  /\ marks' = [marks EXCEPT !.notes = @ - 1]
  /\ UNCHANGED <<text, cached, visit, answers, served, met>>

(* Counter and record are read, changed in memory and written back.        *)
ReadMark(v, mark, score) ==
  /\ visit[v].pc = "idle"
  /\ visit' = [visit EXCEPT ![v] = [pc |-> "mark", mark |-> mark, read |-> marks[mark], score |-> score]]
  /\ UNCHANGED <<text, cached, answers, marks, served, met>>

NewBestLast(read, score) == score   \* Mutant: the last run replaces the best
NewBest(read, score) == Max({read, score})

WriteMark(v) ==
  /\ visit[v].pc = "mark"
  /\ LET new == IF visit[v].mark = "opens" THEN Min({visit[v].read + 1, MaxOpens})
                ELSE NewBest(visit[v].read, visit[v].score)
     IN marks' = IF new = visit[v].read THEN marks
                 ELSE [marks EXCEPT ![visit[v].mark] = new]
  /\ visit' = [visit EXCEPT ![v] = Away]
  /\ UNCHANGED <<text, cached, answers, served, met>>

ToolNext ==
  \/ EditLesson \/ AnswerQuiz \/ WriteNote \/ DeleteNote
  \/ \E k \in Kinds : ServeCached(k)
  \/ \E on \in BOOLEAN : Bookmark(on)
  \/ \E v \in Visits :
       \/ \E k \in Kinds : StartGenerating(v, k)
       \/ Store(v) \/ ServeStored(v) \/ VisitFails(v) \/ WriteMark(v)
       \/ ReadMark(v, "opens", 0)
       \/ \E score \in 1..BestPossible : ReadMark(v, "best", score)

ToolSpec == ToolInit /\ [][ToolNext]_toolVars

-----------------------------------------------------------------------------
(* A page shows what was made from the text it read, or from a later one,  *)
(* unless two requests were generating the same kind of it at once.        *)
ServedIsCurrent == met = {} => served.got >= served.from

(* The best run in the quiz game never decreases.                          *)
BestNeverDecreases == [][marks'.best >= marks.best]_toolVars
=============================================================================

------------------------------ MODULE MCPortal ------------------------------
(***************************************************************************)
(* An instance for TLC of the parts around the trading core that share no  *)
(* state with it or with one another: a behaviour is of one part, and the  *)
(* others stay as they began.                                              *)
(***************************************************************************)
EXTENDS AccessGrants, Bookings, Curriculum, LessonTools, BacktestReplay, BacktestRuns, TLC

VARIABLE part

OneTrack == <<2>>

Bar(h, l, c) == [high |-> h, low |-> l, close |-> c]
Setup(long, stop, tps, pct, activation, mode) ==
  [long |-> long, stop |-> stop, tps |-> tps, pct |-> pct, lot |-> 1,
   activation |-> activation, mode |-> mode]
SomeBars == {Bar(110, 85, 100), Bar(150, 110, 130), Bar(170, 130, 160),
             Bar(100, 30, 80),
             Bar(120, 91, 91)}   \* the first target is reached, and lost again
SomeSetups == {Setup(TRUE, 90, <<120, 130, 160>>, <<30, 30, 40>>, 2, "step_down"),
               Setup(TRUE, 80, <<120, 0, 0>>, <<0, 0, 0>>, 0, "fixed"),
               Setup(FALSE, 110, <<90, 0, 40>>, <<0, 0, 0>>, 0, "fixed")}

Symmetric == Permutations(Visits) \cup Permutations(BacktestIds) \cup Permutations(Instances)

PortalInit ==
  /\ part \in {"access", "booking", "learning", "lessons", "replay", "runs"}
  /\ AccessInit /\ BookInit /\ LearnInit /\ ToolInit /\ ReplayInit /\ RunsInit
  /\ shared => part = "replay"

PortalNext ==
  /\ UNCHANGED part
  /\ \/ part = "access" /\ AccessNext
        /\ UNCHANGED <<bookVars, learnVars, toolVars, replayVars, runVars>>
     \/ part = "booking" /\ BookNext
        /\ UNCHANGED <<accessVars, learnVars, toolVars, replayVars, runVars>>
     \/ part = "learning" /\ LearnNext
        /\ UNCHANGED <<accessVars, bookVars, toolVars, replayVars, runVars>>
     \/ part = "lessons" /\ ToolNext
        /\ UNCHANGED <<accessVars, bookVars, learnVars, replayVars, runVars>>
     \/ part = "replay" /\ ReplayNext
        /\ UNCHANGED <<accessVars, bookVars, learnVars, toolVars, runVars>>
     \/ part = "runs" /\ RunsNext
        /\ UNCHANGED <<accessVars, bookVars, learnVars, toolVars, replayVars>>

PortalSpec ==
  PortalInit /\ [][PortalNext]_<<part, accessVars, bookVars, learnVars, toolVars, replayVars,
                                 runVars>>
=============================================================================

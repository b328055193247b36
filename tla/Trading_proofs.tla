---------------------------- MODULE Trading_proofs ----------------------------
(***************************************************************************)
(* Proofs about the automatic trading of the portal: Sub-Auto Mode, the    *)
(* copies of a signal, the scanner's watchdog and its cycle, the tuning    *)
(* workers, the downloads of candles and the loss guards; for any traders, *)
(* bots, symbols, candles and any number of steps that cross each other.   *)
(***************************************************************************)
EXTENDS SubAuto, CopyTrading, ScanCycle, Tuning, CandleFeed, LossGuard,
        FiniteSetTheorems, WellFoundedInduction, TLAPS

-----------------------------------------------------------------------------
(* Sub-Auto Mode: the inductive invariant.                                 *)

Counting == \E h \in Sources : pc[h] = "counting"

Pending == IF Counting THEN 1 ELSE 0

(* Only trades of an engagement are counted.                               *)
CountsEngaged == \A h \in Sources : pc[h] = "counting" => copy[h].active

(* While nothing has crossed, one session is open and has the row as it is. *)
OneSession == \A g, h \in Holding : g = h

Current == \A h \in Holding : copy[h] = bot

(* The row knows what was executed, but for the trade being counted, and   *)
(* the mode to go back to.                                                 *)
Books ==
  /\ bot.date <= day
  /\ taken <= TotalCap /\ takenToday <= DailyCap
  /\ bot.active =>
       /\ bot.pre = before
       /\ taken = bot.executed + Pending
       /\ takenToday <= DailySoFar(bot) + Pending

(* What is about to execute has passed the daily cap.                      *)
Allowed ==
  \A h \in Sources :
    pc[h] = "executing" /\ copy[h].active => DailySoFar(copy[h]) < DailyCap

Serial == ~crossed => OneSession /\ Current /\ Books /\ Allowed

IInv == TypeOK /\ EngagementCoherent /\ CountsEngaged /\ Serial

-----------------------------------------------------------------------------
(* Types of what the actions compute.                                      *)

LEMMA FreshTyped ==
  ASSUME NEW mode \in Modes
  PROVE  Fresh(mode) \in Bot
  BY DEF Fresh, Bot, Modes, Never

LEMMA FlushTyped ==
  ASSUME NEW b \in Bot, NEW old \in Bot, NEW new \in Bot
  PROVE  Flush(b, old, new) \in Bot
  BY DEF Flush, Column, Bot

(* A copy that was current leaves the row as the session has it.           *)
LEMMA FlushCurrent ==
  ASSUME NEW b \in Bot, NEW new \in Bot
  PROVE  Flush(b, b, new) = new
  BY DEF Flush, Column, Bot

LEMMA CountedFacts ==
  ASSUME NEW b \in Bot, day \in Nat
  PROVE  /\ Counted(b) \in Bot
         /\ Counted(b).executed = b.executed + 1
         /\ Counted(b).date = day
         /\ Counted(b).daily = DailySoFar(b) + 1
         /\ b.executed + 1 < TotalCap =>
              /\ Counted(b).active = b.active
              /\ Counted(b).pre = b.pre /\ Counted(b).mode = b.mode
         /\ ~(b.executed + 1 < TotalCap) =>
              /\ Counted(b).active = FALSE
              /\ b.pre # "none" => Counted(b).mode = b.pre
<1> DEFINE more == OneMore(b)
           last == [more EXCEPT !.active = FALSE, !.pre = "none",
                      !.mode = IF b.pre = "none" THEN "human_in_loop" ELSE b.pre]
<1>1. /\ more \in Bot /\ more.executed = b.executed + 1 /\ more.date = day
      /\ more.daily = DailySoFar(b) + 1
      /\ more.active = b.active /\ more.pre = b.pre /\ more.mode = b.mode
  <2>1. b.daily \in Nat /\ b.executed \in Nat
    BY DEF Bot
  <2>2. (IF b.date = day THEN b.daily + 1 ELSE 1) = DailySoFar(b) + 1
    BY <2>1 DEF DailySoFar
  <2>3. DailySoFar(b) + 1 \in Nat /\ b.executed + 1 \in Nat
    BY <2>1 DEF DailySoFar
  <2>4. more = [b EXCEPT !.daily = DailySoFar(b) + 1, !.date = day,
                         !.executed = b.executed + 1]
    BY <2>2 DEF OneMore
  <2>5. more \in Bot
    <3>1. more = [mode |-> b.mode, pre |-> b.pre, active |-> b.active,
                  executed |-> b.executed + 1, daily |-> DailySoFar(b) + 1,
                  date |-> day]
      BY <2>4 DEF Bot
    <3>2. day \in Int
      OBVIOUS
    <3>3. QED
      BY <2>3, <3>1, <3>2 DEF Bot
  <2>6. QED
    BY <2>4, <2>5 DEF Bot
<1> HIDE DEF more
<1>2. /\ last \in Bot /\ last.executed = more.executed /\ last.date = more.date
      /\ last.daily = more.daily /\ last.active = FALSE
      /\ b.pre # "none" => last.mode = b.pre
  BY <1>1 DEF Bot, Modes
<1> HIDE DEF last
<1>3. Exhausted(more) <=> ~(b.executed + 1 < TotalCap)
  BY <1>1, CapsAssumption DEF Exhausted, Bot
<1>4. Counted(b) = IF ~Exhausted(more) THEN more ELSE last
  BY DEF Counted, more, last
<1>5. QED
  BY <1>1, <1>2, <1>3, <1>4

LEMMA EngagedFacts ==
  ASSUME NEW b \in Bot
  PROVE  /\ Engaged(b) \in Bot /\ Engaged(b).active
         /\ b.active => /\ Engaged(b).pre = b.pre /\ Engaged(b).executed = b.executed
                        /\ Engaged(b).daily = b.daily /\ Engaged(b).date = b.date
         /\ ~b.active => /\ Engaged(b).pre = b.mode /\ Engaged(b).executed = 0
                         /\ Engaged(b).date = Never
<1>1. CASE b.active
  BY <1>1 DEF Engaged, Bot, Modes
<1>2. CASE ~b.active
  <2>1. Engaged(b) = [mode |-> "fully_autonomous", pre |-> b.mode, active |-> TRUE,
                      executed |-> 0, daily |-> 0, date |-> -1]
    BY <1>2 DEF Engaged, Bot, Never
  <2>2. QED
    BY <1>2, <2>1 DEF Bot, Modes, Never
<1>3. QED
  BY <1>1, <1>2

LEMMA RestoredFacts ==
  ASSUME NEW b \in Bot
  PROVE  /\ Restored(b) \in Bot /\ Restored(b).active = FALSE
         /\ Restored(b).date = b.date
         /\ b.pre # "none" => Restored(b).mode = b.pre
  BY DEF Restored, Bot, Modes
-----------------------------------------------------------------------------
(* Initial states.                                                         *)

LEMMA InitIInv == Init => IInv
<1> SUFFICES ASSUME Init PROVE IInv
  OBVIOUS
<1>1. bot = Fresh(before) /\ before \in Modes /\ bot \in Bot /\ NoCopy \in Bot
  BY FreshTyped DEF Init, NoCopy, Modes
<1>2. bot.active = FALSE /\ bot.date = -1
  BY <1>1 DEF Fresh, Never
<1>3. TypeOK
  <2>1. pc \in [Sources -> {"idle", "ready", "executing", "counting", "done"}]
    BY DEF Init
  <2>2. copy \in [Sources -> Bot]
    BY <1>1 DEF Init
  <2>3. day \in 0..MaxDays
    BY CapsAssumption DEF Init
  <2>4. QED
    BY <1>1, <2>1, <2>2, <2>3 DEF Init, TypeOK
<1>4. Holding = {}
  BY DEF Init, Holding
<1>5. EngagementCoherent /\ CountsEngaged
  BY <1>2 DEF Init, EngagementCoherent, CountsEngaged
<1>6. OneSession /\ Current
  BY <1>4 DEF OneSession, Current
<1>7. Books /\ Allowed
  BY <1>2, CapsAssumption DEF Init, Books, Allowed
<1>8. QED
  BY <1>3, <1>5, <1>6, <1>7 DEF IInv, Serial

-----------------------------------------------------------------------------
(* One session moves and the others stay as they are.                      *)

Labels == {"idle", "ready", "executing", "counting", "done"}

Moves(h) ==
  /\ \A g \in Sources \ {h} : pc'[g] = pc[g] /\ copy'[g] = copy[g]
  /\ pc' \in [Sources -> Labels] /\ copy' \in [Sources -> Bot]

LEMMA GotoFacts ==
  ASSUME TypeOK, NEW h \in Sources, NEW label \in Labels,
         Goto(h, label), UNCHANGED copy
  PROVE  Moves(h) /\ pc'[h] = label
  BY DEF TypeOK, Goto, Moves, Labels

LEMMA RestFacts ==
  ASSUME TypeOK, NEW h \in Sources, NEW b \in Bot, Rest(h, b)
  PROVE  /\ Moves(h) /\ pc'[h] \in {"ready", "done"}
         /\ pc'[h] = "ready" => copy'[h] = b
<1>1. NoCopy \in Bot
  BY FreshTyped DEF NoCopy, Modes
<1>2. CASE h = Scanner
  BY <1>1, <1>2 DEF TypeOK, Rest, Goto, Moves, Labels
<1>3. CASE h # Scanner
  BY <1>1, <1>3 DEF TypeOK, Rest, Goto, Moves, Labels
<1>4. QED
  BY <1>2, <1>3

LEMMA CloseFacts ==
  ASSUME TypeOK, NEW h \in Sources, Close(h)
  PROVE  Moves(h) /\ pc'[h] \in {"idle", "done"}
<1>1. NoCopy \in Bot
  BY FreshTyped DEF NoCopy, Modes
<1>2. QED
  BY <1>1 DEF TypeOK, Close, Goto, Moves, Labels

(* While nothing has crossed, an open session is the only one.             *)
LEMMA Alone ==
  ASSUME IInv, ~crossed, NEW h \in Sources, h \in Holding
  PROVE  /\ copy[h] = bot
         /\ \A g \in Sources \ {h} : pc[g] \in {"idle", "done"}
         /\ Counting <=> pc[h] = "counting"
  BY DEF IInv, Serial, OneSession, Current, Holding, Counting

LEMMA AloneAfter ==
  ASSUME IInv, ~crossed, NEW h \in Sources, h \in Holding, Moves(h)
  PROVE  /\ OneSession'
         /\ (pc'[h] \in {"ready", "executing", "counting"} => copy'[h] = bot')
              => Current'
         /\ Counting' <=> pc'[h] = "counting"
         /\ pc'[h] # "executing" => Allowed'
<1>1. \A g \in Sources \ {h} : pc'[g] \in {"idle", "done"}
  BY Alone DEF Moves
<1>2. QED
  BY <1>1 DEF OneSession, Current, Holding, Counting, Allowed, Moves, Labels

-----------------------------------------------------------------------------
(* Signals.                                                                *)

LEMMA LoadBotKeeps ==
  ASSUME IInv, NEW h \in Sources, LoadBot(h)
  PROVE  IInv'
<1>1. /\ pc[h] = "idle" /\ pc' = [pc EXCEPT ![h] = "ready"]
      /\ copy' = [copy EXCEPT ![h] = bot]
      /\ crossed' = (crossed \/ Holding # {})
      /\ UNCHANGED <<bot, day, taken, takenToday, before>>
  BY DEF LoadBot, Goto
<1>2. TypeOK'
  BY <1>1 DEF IInv, TypeOK
<1>3. \A g \in Sources : pc'[g] = IF g = h THEN "ready" ELSE pc[g]
  BY <1>1 DEF IInv, TypeOK
<1>4. \A g \in Sources : copy'[g] = IF g = h THEN bot ELSE copy[g]
  BY <1>1 DEF IInv, TypeOK
<1>5. EngagementCoherent' /\ CountsEngaged'
  BY <1>1, <1>3, <1>4 DEF IInv, EngagementCoherent, CountsEngaged
<1>6. ASSUME ~crossed' PROVE (OneSession /\ Current /\ Books /\ Allowed)'
  <2>1. ~crossed /\ Holding = {} /\ ~Counting
    BY <1>1, <1>6 DEF Holding, Counting
  <2>2. ~Counting' /\ Pending' = Pending
    BY <1>3, <2>1 DEF Counting, Pending
  <2>3. OneSession' /\ Current' /\ Allowed'
    BY <1>1, <1>3, <1>4, <2>1 DEF Holding, OneSession, Current, Allowed
  <2>4. Books'
    BY <1>1, <2>1, <2>2 DEF IInv, Serial, Books, DailySoFar
  <2>5. QED
    BY <2>3, <2>4
<1>7. QED
  BY <1>2, <1>5, <1>6 DEF IInv, Serial

(* A step that neither counts nor begins or ends counting.                 *)
LEMMA QuietMove ==
  ASSUME IInv, NEW h \in Sources, h \in Holding, Moves(h),
         pc[h] # "counting", pc'[h] # "counting",
         pc'[h] \in {"ready", "executing"} => copy'[h] = copy[h],
         pc'[h] = "executing" => WithinDailyCap(h),
         UNCHANGED <<bot, day, tally>>
  PROVE  IInv'
<1>1. TypeOK'
  BY DEF IInv, TypeOK, Moves, Labels, tally
<1>2. EngagementCoherent' /\ CountsEngaged'
  BY DEF IInv, EngagementCoherent, CountsEngaged, Moves
<1>3. ASSUME ~crossed' PROVE (OneSession /\ Current /\ Books /\ Allowed)'
  <2>1. ~crossed
    BY <1>3 DEF tally
  <2>2. copy[h] = bot /\ ~Counting /\ ~Counting'
    BY <2>1, Alone, AloneAfter
  <2>3. OneSession' /\ Current'
    BY <2>1, <2>2, AloneAfter
  <2>4. Books'
    BY <2>1, <2>2 DEF IInv, Serial, Books, DailySoFar, Pending, tally
  <2>5. Allowed'
    <3>1. CASE pc'[h] # "executing"
      BY <2>1, <3>1, AloneAfter
    <3>2. CASE pc'[h] = "executing"
      BY <2>1, <3>2 DEF IInv, Serial, Allowed, WithinDailyCap, DailySoFar, Moves
    <3>3. QED
      BY <3>1, <3>2
  <2>6. QED
    BY <2>3, <2>4, <2>5
<1>4. QED
  BY <1>1, <1>2, <1>3 DEF IInv, Serial

LEMMA ProceedsKeeps ==
  ASSUME IInv, NEW h \in Sources, Proceeds(h)
  PROVE  IInv'
<1>1. /\ pc[h] = "ready" /\ WithinDailyCap(h) /\ Goto(h, "executing")
      /\ UNCHANGED <<bot, day, copy, tally>>
  BY DEF Proceeds
<1>2. Moves(h) /\ pc'[h] = "executing"
  BY <1>1, GotoFacts DEF IInv, Labels
<1>3. h \in Holding
  BY <1>1 DEF Holding
<1>4. QED
  BY <1>1, <1>2, <1>3, QuietMove

LEMMA EndsKeeps ==
  ASSUME IInv, NEW h \in Sources, Ends(h)
  PROVE  IInv'
<1>1. pc[h] \in {"ready", "executing"} /\ Rest(h, copy[h]) /\ UNCHANGED <<bot, day, tally>>
  BY DEF Ends
<1>2. copy[h] \in Bot
  BY DEF IInv, TypeOK
<1>3. Moves(h) /\ pc'[h] \in {"ready", "done"} /\ (pc'[h] = "ready" => copy'[h] = copy[h])
  BY <1>1, <1>2, RestFacts DEF IInv
<1>4. h \in Holding
  BY <1>1 DEF Holding
<1>5. QED
  BY <1>1, <1>3, <1>4, QuietMove

LEMMA EndCycleKeeps ==
  ASSUME IInv, EndCycle
  PROVE  IInv'
<1>1. Scanner \in Sources
  BY DEF Sources
<1>2. pc[Scanner] = "ready" /\ Close(Scanner) /\ UNCHANGED <<bot, day, tally>>
  BY DEF EndCycle
<1>3. Moves(Scanner) /\ pc'[Scanner] \in {"idle", "done"}
  BY <1>1, <1>2, CloseFacts DEF IInv
<1>4. Scanner \in Holding
  BY <1>1, <1>2 DEF Holding
<1>5. QED
  BY <1>1, <1>2, <1>3, <1>4, QuietMove

LEMMA DiesKeeps ==
  ASSUME IInv, NEW h \in Sources, Dies(h)
  PROVE  IInv'
<1>1. /\ pc[h] \in {"executing", "counting"} /\ Close(h)
      /\ crossed' = (crossed \/ pc[h] = "counting")
      /\ UNCHANGED <<bot, day, taken, takenToday, before>>
  BY DEF Dies
<1>2. Moves(h) /\ pc'[h] \in {"idle", "done"}
  BY <1>1, CloseFacts DEF IInv
<1>3. h \in Holding
  BY <1>1 DEF Holding
<1>4. CASE pc[h] = "executing"
  <2>1. crossed' = crossed
    BY <1>1, <1>4 DEF IInv, TypeOK
  <2>2. QED
    BY <1>1, <1>2, <1>3, <1>4, <2>1, QuietMove DEF tally
<1>5. CASE pc[h] = "counting"
  <2>1. crossed'
    BY <1>1, <1>5
  <2>2. TypeOK'
    BY <1>1, <1>2, <2>1 DEF IInv, TypeOK, Moves, Labels
  <2>3. EngagementCoherent' /\ CountsEngaged'
    BY <1>1, <1>2 DEF IInv, EngagementCoherent, CountsEngaged, Moves
  <2>4. QED
    BY <2>1, <2>2, <2>3 DEF IInv, Serial
<1>6. QED
  BY <1>1, <1>4, <1>5

(* What the history says of an execution: it was within both caps.         *)
LEMMA ExecutedKeeps ==
  ASSUME IInv, NEW h \in Sources, Executed(h)
  PROVE  IInv'
<1>1. /\ pc[h] = "executing" /\ UNCHANGED <<bot, day, before, crossed>>
      /\ IF copy[h].active THEN Goto(h, "counting") /\ UNCHANGED copy
                           ELSE Rest(h, copy[h])
      /\ IF copy[h].active /\ ~crossed
           THEN taken' = taken + 1 /\ takenToday' = takenToday + 1
           ELSE UNCHANGED <<taken, takenToday>>
  BY DEF Executed
<1>2. copy[h] \in Bot /\ h \in Holding
  BY <1>1 DEF IInv, TypeOK, Holding
<1>3. CASE ~copy[h].active
  <2>1. Moves(h) /\ pc'[h] \in {"ready", "done"} /\ (pc'[h] = "ready" => copy'[h] = copy[h])
    BY <1>1, <1>2, <1>3, RestFacts DEF IInv
  <2>2. QED
    BY <1>1, <1>2, <1>3, <2>1, QuietMove DEF tally
<1>4. CASE copy[h].active
  <2>1. Moves(h) /\ pc'[h] = "counting" /\ copy' = copy
    BY <1>1, <1>4, GotoFacts DEF IInv, Labels
  <2>2. TypeOK'
    <3>1. taken' \in Nat /\ takenToday' \in Nat
      BY <1>1 DEF IInv, TypeOK
    <3>2. QED
      BY <1>1, <2>1, <3>1 DEF IInv, TypeOK, Moves, Labels
  <2>3. EngagementCoherent' /\ CountsEngaged'
    BY <1>1, <1>4, <2>1 DEF IInv, EngagementCoherent, CountsEngaged, Moves
  <2>4. ASSUME ~crossed' PROVE (OneSession /\ Current /\ Books /\ Allowed)'
    <3>1. ~crossed /\ copy[h] = bot /\ ~Counting /\ Counting'
      BY <1>1, <1>2, <2>1, <2>4, Alone, AloneAfter
    <3>2. OneSession' /\ Current' /\ Allowed'
      BY <1>1, <1>2, <2>1, <3>1, AloneAfter
    <3>3. /\ bot.executed < TotalCap /\ DailySoFar(bot) < DailyCap
          /\ taken = bot.executed /\ takenToday <= DailySoFar(bot)
          /\ bot.pre = before /\ bot.date <= day
      <4>1. DailySoFar(bot) \in Nat
        BY DEF IInv, TypeOK, DailySoFar, Bot
      <4>2. bot.executed \in Nat /\ taken \in Nat /\ takenToday \in Nat
        BY DEF IInv, TypeOK, Bot
      <4>3. QED
        BY <1>1, <1>4, <3>1, <4>1, <4>2
           DEF IInv, EngagementCoherent, Serial, Books, Allowed, Pending
    <3>4. taken' = taken + 1 /\ takenToday' = takenToday + 1
      BY <1>1, <1>4, <3>1
    <3>5. Books'
      <4>1. DailySoFar(bot) \in Nat /\ DailySoFar(bot)' = DailySoFar(bot)
        BY <1>1 DEF IInv, TypeOK, DailySoFar, Bot
      <4>2. bot.executed \in Nat /\ taken \in Nat /\ takenToday \in Nat
        BY DEF IInv, TypeOK, Bot
      <4>3. QED
        BY <1>1, <3>1, <3>3, <3>4, <4>1, <4>2, CapsAssumption DEF Books, Pending
    <3>6. QED
      BY <3>2, <3>5
  <2>5. QED
    BY <2>2, <2>3, <2>4 DEF IInv, Serial
<1>5. QED
  BY <1>3, <1>4

(* A stale copy may set the counters back, but it cannot extend or revive  *)
(* an engagement, and the trade that reaches the total ends it.            *)
LEMMA CountKeeps ==
  ASSUME IInv, NEW h \in Sources, Count(h)
  PROVE  IInv'
<1> DEFINE new == Counted(copy[h])
<1>1. /\ pc[h] = "counting" /\ bot' = Flush(bot, copy[h], new)
      /\ Rest(h, new) /\ UNCHANGED <<day, tally>>
  BY DEF Count
<1>2. copy[h] \in Bot /\ copy[h].active /\ bot \in Bot /\ day \in Nat
  BY <1>1, CapsAssumption DEF IInv, TypeOK, CountsEngaged
<1>3. /\ new \in Bot /\ new.executed = copy[h].executed + 1
      /\ new.date = day /\ new.daily = DailySoFar(copy[h]) + 1
      /\ copy[h].executed + 1 < TotalCap =>
           new.active = copy[h].active /\ new.pre = copy[h].pre
      /\ ~(copy[h].executed + 1 < TotalCap) => new.active = FALSE
  BY <1>2, CountedFacts
<1> HIDE DEF new
<1>4. Moves(h) /\ pc'[h] \in {"ready", "done"} /\ (pc'[h] = "ready" => copy'[h] = new)
  BY <1>1, <1>3, RestFacts DEF IInv
<1>5. bot' \in Bot
  BY <1>1, <1>2, <1>3, FlushTyped
<1>6. TypeOK'
  BY <1>1, <1>4, <1>5 DEF IInv, TypeOK, Moves, Labels, tally
<1>7. CountsEngaged'
  BY <1>4 DEF IInv, CountsEngaged, Moves
<1>8. EngagementCoherent'
  <2>1. copy[h].executed \in Nat /\ copy[h].executed # new.executed
    BY <1>2, <1>3 DEF Bot
  <2>2. bot'.executed = new.executed
    BY <1>1, <2>1 DEF Flush, Column
  <2>3. CASE copy[h].executed + 1 < TotalCap
    <3>1. bot'.active = bot.active /\ bot'.pre = bot.pre
      BY <1>1, <1>3, <2>3 DEF Flush, Column
    <3>2. QED
      BY <1>3, <2>2, <2>3, <3>1 DEF IInv, EngagementCoherent
  <2>4. CASE ~(copy[h].executed + 1 < TotalCap)
    <3>1. bot'.active = FALSE
      BY <1>1, <1>2, <1>3, <2>4 DEF Flush, Column
    <3>2. QED
      BY <3>1 DEF EngagementCoherent
  <2>5. QED
    BY <2>3, <2>4
<1>9. ASSUME ~crossed' PROVE (OneSession /\ Current /\ Books /\ Allowed)'
  <2>1. ~crossed /\ h \in Holding
    BY <1>1, <1>9 DEF tally, Holding
  <2>2. copy[h] = bot /\ Counting
    BY <1>1, <2>1, Alone
  <2>3. bot' = new
    BY <1>1, <1>2, <1>3, <2>2, FlushCurrent
  <2>4. OneSession' /\ Current' /\ Allowed' /\ ~Counting'
    BY <1>4, <2>1, <2>3, AloneAfter
  <2>5. /\ taken <= TotalCap /\ takenToday <= DailyCap /\ bot.pre = before
        /\ taken = bot.executed + 1 /\ takenToday <= DailySoFar(bot) + 1
    BY <1>2, <2>1, <2>2 DEF IInv, Serial, Books, Pending
  <2>6. DailySoFar(bot)' = new.daily /\ new.daily \in Nat
    BY <1>1, <1>3, <2>3 DEF DailySoFar, Bot
  <2>7. Books'
    <3>1. bot'.date = day' /\ day \in Nat
      BY <1>1, <1>2, <1>3, <2>3
    <3>2. new.active => new.pre = before /\ taken = new.executed
      BY <1>3, <2>2, <2>5
    <3>3. takenToday <= new.daily
      BY <1>3, <2>2, <2>5
    <3>4. Pending' = 0
      BY <2>4 DEF Pending
    <3>5. new.executed \in Nat /\ takenToday \in Nat
      BY <1>3 DEF IInv, TypeOK, Bot
    <3>6. QED
      BY <1>1, <2>3, <2>5, <2>6, <3>1, <3>2, <3>3, <3>4, <3>5 DEF Books, tally
  <2>8. QED
    BY <2>4, <2>7
<1>10. QED
  BY <1>6, <1>7, <1>8, <1>9 DEF IInv, Serial

-----------------------------------------------------------------------------
(* The trader.                                                             *)

(* While nothing has crossed, a change of settings meets no open session.  *)
LEMMA SettingsFacts ==
  ASSUME IInv, NEW new \in Bot, Settings(new)
  PROVE  /\ bot' = new /\ day' = day /\ CountsEngaged'
         /\ Counting' <=> Counting
         /\ ~crossed' =>
              /\ ~crossed /\ OneSession' /\ Current' /\ Allowed'
              /\ new # bot => ~Counting
<1>1. /\ bot' = new /\ UNCHANGED <<day, pc, copy>>
      /\ crossed' = (crossed \/ (new # bot /\ Holding # {}))
  BY DEF Settings
<1>2. CountsEngaged' /\ (Counting' <=> Counting) /\ Holding' = Holding
  BY <1>1 DEF IInv, CountsEngaged, Counting, Holding
<1>3. Holding = {} => ~Counting
  BY DEF Holding, Counting
<1>4. ASSUME ~crossed' PROVE ~crossed /\ (OneSession /\ Current /\ Allowed)'
  <2>1. ~crossed /\ (new # bot => Holding = {})
    BY <1>1, <1>4
  <2>2. QED
    BY <1>1, <1>2, <2>1
       DEF IInv, Serial, OneSession, Current, Allowed, DailySoFar
<1>5. QED
  BY <1>1, <1>2, <1>3, <1>4

LEMMA EngageKeeps ==
  ASSUME IInv, Engage
  PROVE  IInv'
<1> DEFINE new == Engaged(bot)
<1>1. /\ Settings(new)
      /\ IF bot.active THEN UNCHANGED <<taken, takenToday, before>>
         ELSE taken' = 0 /\ takenToday' = 0 /\ before' = bot.mode
  BY DEF Engage
<1>2. bot \in Bot /\ bot.mode \in Modes /\ bot.active \in BOOLEAN /\ day \in Nat
  BY CapsAssumption DEF IInv, TypeOK, Bot
<1>3. /\ new \in Bot /\ new.active
      /\ bot.active => /\ new.pre = bot.pre /\ new.executed = bot.executed
                      /\ new.daily = bot.daily /\ new.date = bot.date
      /\ ~bot.active => new.pre = bot.mode /\ new.executed = 0 /\ new.date = -1
  BY <1>2, EngagedFacts DEF Never
<1> HIDE DEF new
<1>4. /\ bot' = new /\ day' = day /\ CountsEngaged'
      /\ Counting' <=> Counting
      /\ ~crossed' => /\ ~crossed /\ OneSession' /\ Current' /\ Allowed'
                      /\ new # bot => ~Counting
  BY <1>1, <1>3, SettingsFacts
<1>5. TypeOK'
  <2>1. taken' \in Nat /\ takenToday' \in Nat /\ before' \in Modes
    BY <1>1, <1>2 DEF IInv, TypeOK
  <2>2. crossed' \in BOOLEAN
    BY <1>1 DEF Settings, IInv, TypeOK
  <2>3. QED
    BY <1>1, <1>3, <1>4, <2>1, <2>2 DEF Settings, IInv, TypeOK
<1>6. EngagementCoherent'
  <2>1. CASE bot.active
    BY <1>3, <1>4, <2>1 DEF IInv, EngagementCoherent
  <2>2. CASE ~bot.active
    BY <1>2, <1>3, <1>4, <2>2, CapsAssumption DEF EngagementCoherent, Modes
  <2>3. QED
    BY <2>1, <2>2
<1>7. ASSUME ~crossed' PROVE Books'
  <2>1. Pending' = Pending
    BY <1>4 DEF Pending
  <2>2. CASE bot.active
    <3>1. DailySoFar(bot)' = DailySoFar(bot)
      BY <1>3, <1>4, <2>2 DEF DailySoFar
    <3>2. QED
      BY <1>1, <1>3, <1>4, <1>7, <2>1, <2>2, <3>1 DEF IInv, Serial, Books
  <2>3. CASE ~bot.active
    <3>1. new # bot /\ Pending' = 0
      BY <1>3, <1>4, <1>7, <2>1, <2>3 DEF Pending
    <3>2. DailySoFar(bot)' \in Nat
      BY <1>2, <1>3, <1>4 DEF DailySoFar, Bot
    <3>3. QED
      BY <1>1, <1>2, <1>3, <1>4, <2>3, <3>1, <3>2, CapsAssumption DEF Books
  <2>4. QED
    BY <2>2, <2>3
<1>8. QED
  BY <1>4, <1>5, <1>6, <1>7 DEF IInv, Serial

LEMMA ResetKeeps ==
  ASSUME IInv, Reset
  PROVE  IInv'
<1> DEFINE new == Restored(bot)
<1>1. Settings(new) /\ UNCHANGED <<taken, takenToday, before>>
  BY DEF Reset
<1>2. new \in Bot /\ new.active = FALSE /\ new.date = bot.date
  BY RestoredFacts DEF IInv, TypeOK
<1> HIDE DEF new
<1>3. /\ bot' = new /\ day' = day /\ CountsEngaged'
      /\ ~crossed' => ~crossed /\ OneSession' /\ Current' /\ Allowed'
  BY <1>1, <1>2, SettingsFacts
<1>4. TypeOK'
  BY <1>1, <1>2 DEF Settings, IInv, TypeOK
<1>5. EngagementCoherent'
  BY <1>2, <1>3 DEF EngagementCoherent
<1>6. ASSUME ~crossed' PROVE Books'
  BY <1>1, <1>2, <1>3, <1>6 DEF IInv, Serial, Books
<1>7. QED
  BY <1>3, <1>4, <1>5, <1>6 DEF IInv, Serial

LEMMA SetModeKeeps ==
  ASSUME IInv, NEW m \in Modes, SetMode(m)
  PROVE  IInv'
<1> DEFINE new == [bot EXCEPT !.mode = m]
<1>1. Settings(new) /\ UNCHANGED <<taken, takenToday, before>>
  BY DEF SetMode
<1>2. /\ new \in Bot /\ new.active = bot.active /\ new.date = bot.date
      /\ new.pre = bot.pre /\ new.executed = bot.executed /\ new.daily = bot.daily
  BY DEF IInv, TypeOK, Bot
<1> HIDE DEF new
<1>3. /\ bot' = new /\ day' = day /\ CountsEngaged'
      /\ Counting' <=> Counting
      /\ ~crossed' => ~crossed /\ OneSession' /\ Current' /\ Allowed'
  BY <1>1, <1>2, SettingsFacts
<1>4. TypeOK'
  BY <1>1, <1>2 DEF Settings, IInv, TypeOK
<1>5. EngagementCoherent'
  BY <1>2, <1>3 DEF IInv, EngagementCoherent
<1>6. ASSUME ~crossed' PROVE Books'
  <2>1. Pending' = Pending
    BY <1>3 DEF Pending
  <2>2. DailySoFar(bot)' = DailySoFar(bot)
    BY <1>2, <1>3 DEF DailySoFar
  <2>3. QED
    BY <1>1, <1>2, <1>3, <1>6, <2>1, <2>2 DEF IInv, Serial, Books
<1>7. QED
  BY <1>3, <1>4, <1>5, <1>6 DEF IInv, Serial

(* Midnight: nobody resets the daily count, its date makes it old.         *)
LEMMA NextDayKeeps ==
  ASSUME IInv, NextDay
  PROVE  IInv'
<1>1. /\ day < MaxDays /\ day' = day + 1 /\ takenToday' = 0
      /\ UNCHANGED <<bot, pc, copy, taken, before, crossed>>
  BY DEF NextDay
<1>2. day \in 0..MaxDays /\ bot.date \in Int
  BY DEF IInv, TypeOK, Bot
<1>3. day' \in 0..MaxDays /\ day' \in Int /\ day < day'
  BY <1>1, <1>2, CapsAssumption
<1>4. TypeOK'
  BY <1>1, <1>3 DEF IInv, TypeOK
<1>5. EngagementCoherent' /\ CountsEngaged'
  BY <1>1 DEF IInv, EngagementCoherent, CountsEngaged
<1>6. ASSUME ~crossed' PROVE (OneSession /\ Current /\ Books /\ Allowed)'
  <2>1. ~crossed
    BY <1>1, <1>6
  <2>2. OneSession' /\ Current'
    BY <1>1, <2>1 DEF IInv, Serial, OneSession, Current, Holding
  <2>3. bot.date <= day /\ bot.date # day'
    BY <1>2, <1>3, <2>1 DEF IInv, Serial, Books
  <2>4. DailySoFar(bot)' = 0
    BY <1>1, <2>3 DEF DailySoFar
  <2>5. Pending' = Pending
    BY <1>1 DEF Pending, Counting
  <2>6. Books'
    BY <1>1, <1>2, <1>3, <2>1, <2>3, <2>4, <2>5, CapsAssumption
       DEF IInv, Serial, Books, Pending
  <2>7. Allowed'
    <3> SUFFICES ASSUME NEW h \in Sources, pc'[h] = "executing"
                 PROVE  (DailySoFar(copy[h]) < DailyCap)'
      BY DEF Allowed
    <3>1. h \in Holding
      BY <1>1 DEF Holding
    <3>2. copy'[h] = bot'
      BY <1>1, <2>1, <3>1 DEF IInv, Serial, Current
    <3>3. QED
      BY <2>4, <3>2, CapsAssumption DEF DailySoFar
  <2>8. QED
    BY <2>2, <2>6, <2>7
<1>7. QED
  BY <1>4, <1>5, <1>6 DEF IInv, Serial

-----------------------------------------------------------------------------
LEMMA StepIInv == IInv /\ [Next]_vars => IInv'
<1> SUFFICES ASSUME IInv, [Next]_vars PROVE IInv'
  OBVIOUS
<1>1. ASSUME NEW h \in Sources, LoadBot(h) PROVE IInv'
  BY <1>1, LoadBotKeeps
<1>2. ASSUME NEW h \in Sources, Proceeds(h) PROVE IInv'
  BY <1>2, ProceedsKeeps
<1>3. ASSUME NEW h \in Sources, Ends(h) PROVE IInv'
  BY <1>3, EndsKeeps
<1>4. ASSUME NEW h \in Sources, Executed(h) PROVE IInv'
  BY <1>4, ExecutedKeeps
<1>5. ASSUME NEW h \in Sources, Count(h) PROVE IInv'
  BY <1>5, CountKeeps
<1>6. ASSUME NEW h \in Sources, Dies(h) PROVE IInv'
  BY <1>6, DiesKeeps
<1>7. CASE EndCycle
  BY <1>7, EndCycleKeeps
<1>8. CASE Engage
  BY <1>8, EngageKeeps
<1>9. CASE Reset
  BY <1>9, ResetKeeps
<1>10. CASE NextDay
  BY <1>10, NextDayKeeps
<1>11. ASSUME NEW m \in Modes, SetMode(m) PROVE IInv'
  BY <1>11, SetModeKeeps
<1>12. CASE UNCHANGED vars
  BY <1>12 DEF vars, tally, IInv, TypeOK, EngagementCoherent, CountsEngaged, Serial,
               OneSession, Current, Books, Allowed, Holding, Counting, Pending,
               DailySoFar
<1>13. QED
  BY <1>1, <1>2, <1>3, <1>4, <1>5, <1>6, <1>7, <1>8, <1>9, <1>10, <1>11, <1>12
     DEF Next

(* What every reachable state satisfies; the part about sessions that did  *)
(* not cross is what makes the counters of process_signal mean something.  *)
THEOREM Invariance == Spec => []IInv
  BY InitIInv, StepIInv, PTL DEF Spec

(* The types of the row, whatever mixture of copies is written to it.      *)
THEOREM TypeCorrect == Spec => []TypeOK
<1>1. IInv => TypeOK
  BY DEF IInv
<1>2. QED
  BY <1>1, Invariance, PTL

(* Under every interleaving a bot in Sub-Auto Mode is short of its total   *)
(* and knows its way back: set_bot_sub_auto and process_signal together    *)
(* leave no bot executing on an exhausted allotment.                       *)
THEOREM EngagementIsCoherent == Spec => []EngagementCoherent
<1>1. IInv => EngagementCoherent
  BY DEF IInv
<1>2. QED
  BY <1>1, Invariance, PTL

(* Sessions that do not cross execute no more than the trader approved, in *)
(* all and per day, for any caps and any number of days.                   *)
THEOREM AllotmentIsKept == Spec => []AllotmentKept
<1>1. IInv => AllotmentKept
  <2> SUFFICES ASSUME IInv, ~crossed
               PROVE  /\ taken <= TotalCap /\ takenToday <= DailyCap
                      /\ bot.active => \/ bot.executed = taken
                                       \/ \E h \in Sources : pc[h] = "counting"
    BY DEF AllotmentKept
  <2>1. Books
    BY DEF IInv, Serial
  <2>2. bot.executed \in Nat
    BY DEF IInv, TypeOK, Bot
  <2>3. QED
    BY <2>1, <2>2 DEF Books, Pending, Counting
<1>2. QED
  BY <1>1, Invariance, PTL

(* The last trade and the trader's Reset alike leave the bot in the mode   *)
(* it had before it was engaged.                                           *)
THEOREM ModeIsHandedBack == Spec => HandsBackMode
<1> DEFINE Back == ~crossed' /\ bot.active /\ ~bot'.active => bot'.mode = before
<1>1. IInv /\ [Next]_vars => [Back]_vars
  <2> SUFFICES ASSUME IInv, Next, ~crossed', bot.active, ~bot'.active
               PROVE  bot'.mode = before
    OBVIOUS
  <2>1. bot \in Bot /\ day \in Nat
    BY CapsAssumption DEF IInv, TypeOK
  <2>2. ASSUME ~crossed PROVE bot.pre = before /\ bot.pre # "none"
    BY <2>2 DEF IInv, Serial, Books, TypeOK, Modes
  <2>3. ASSUME NEW h \in Sources, Count(h) PROVE bot'.mode = before
    <3>1. /\ pc[h] = "counting" /\ ~crossed
          /\ bot' = Flush(bot, copy[h], Counted(copy[h]))
      BY <2>3 DEF Count, tally
    <3>2. copy[h] = bot
      BY <3>1, Alone DEF Holding
    <3>3. bot' = Counted(bot)
      <4>1. Counted(bot) \in Bot
        BY <2>1, CountedFacts
      <4>2. bot' = Flush(bot, bot, Counted(bot))
        BY <3>1, <3>2
      <4>3. QED
        BY <2>1, <4>1, <4>2, FlushCurrent
    <3>4. QED
      BY <2>1, <2>2, <3>1, <3>3, CountedFacts
  <2>4. CASE Reset
    <3>1. ~crossed /\ bot' = Restored(bot)
      BY <2>4 DEF Reset, Settings
    <3>2. QED
      BY <2>1, <2>2, <3>1, RestoredFacts
  <2>5. CASE Engage
    BY <2>1, <2>5, EngagedFacts DEF Engage, Settings
  <2>6. ASSUME NEW m \in Modes, SetMode(m) PROVE FALSE
    <3>1. bot' = [bot EXCEPT !.mode = m]
      BY <2>6 DEF SetMode, Settings
    <3>2. QED
      BY <2>1, <3>1 DEF Bot
  <2>7. CASE bot' = bot
    BY <2>7
  <2>8. QED
    BY <2>3, <2>4, <2>5, <2>6, <2>7
       DEF Next, LoadBot, Proceeds, Ends, Executed, Dies, EndCycle, NextDay
<1>2. QED
  BY <1>1, Invariance, PTL DEF Spec, HandsBackMode

-----------------------------------------------------------------------------
(* The copies.  The sweep of idle MetaApi accounts spares the positions it *)
(* saw: a copy of a signal is made once and its status only moves forward, *)
(* so a trade the sweep saw open, and found no longer open when it looked  *)
(* again, is closed for good.                                              *)

Statuses == {"none", "pending", "sending", "active", "closed", "cancelled", "error"}
Targets  == Accounts \cup {NoAccount, BotAccount, PooledAccount}
Trades   == [status : Statuses, to : Targets, at : Targets, meant : Targets]
Subs     == [account : Accounts \cup {NoAccount}, on : BOOLEAN, copy : {"auto", "manual"}]
Sweeps   == [pc : {"idle", "check", "undeploy"}, idle : SUBSET Accounts, free : SUBSET Accounts,
             open : SUBSET Traders]

(* What the copies, the subscriptions and the sweep may hold.              *)
CopiesTyped ==
  /\ copied \in [Traders -> Trades]
  /\ sub \in [Traders -> Subs]
  /\ fan \subseteq Traders \X [Traders -> Subs]
  /\ sweep \in Sweeps

(* A trader is copied to once, before anything else happens to the copy.   *)
FanFresh ==
  /\ \A f \in fan : copied[f[1]].status = "none"
  /\ \A f, g \in fan : f[1] = g[1] => f = g

(* What the sweep saw open has at most been closed since, and what it saw  *)
(* open and found free is closed.                                          *)
SweepInformed ==
  /\ \A t \in sweep.open : /\ copied[t].status \in {"active", "closed"}
                           /\ Venue[copied[t].meant] = Hosted
  /\ \A a \in sweep.free : Owner[a] \in sweep.open => copied[Owner[a]].status = "closed"

CopyInv == CopiesTyped /\ FanFresh /\ SweepInformed

-----------------------------------------------------------------------------
(* Initially nothing is copied and no sweep runs.                          *)
LEMMA InitCopies == CopyInit => CopyInv
<1> SUFFICES ASSUME CopyInit PROVE CopyInv
  OBVIOUS
<1>1. copied \in [Traders -> Trades]
  BY DEF CopyInit, NoTrade, Trades, Statuses, Targets
<1>2. sub \in [Traders -> Subs]
  <2>1. NoSub \in Subs
    BY DEF NoSub, Subs
  <2>2. [account : Accounts, on : {TRUE}, copy : {"auto", "manual"}] \subseteq Subs
    BY DEF Subs
  <2> QED
    BY <2>1, <2>2 DEF CopyInit
<1>3. fan = {}
  BY DEF CopyInit
<1>4. sweep = AtRest /\ sweep \in Sweeps
  BY DEF CopyInit, AtRest, Sweeps
<1>5. sweep.open = {} /\ sweep.free = {}
  BY <1>4 DEF AtRest
<1> QED
  BY <1>1, <1>2, <1>3, <1>4, <1>5 DEF CopyInv, CopiesTyped, FanFresh, SweepInformed

(* What traders and the administrator change are rows of accounts and      *)
(* subscriptions: no copy and no sweep.                                    *)
LEMMA ChangeKeeps == CopyInv /\ Change => CopyInv'
<1> SUFFICES ASSUME CopyInv, Change PROVE CopyInv'
  OBVIOUS
<1>1. copied' = copied /\ fan' = fan /\ sweep' = sweep
  BY DEF Change
<1>2. ASSUME NEW t \in Traders, NEW a \in Accounts, Subscribe(t, a)
      PROVE  sub' \in [Traders -> Subs]
  <2>1. PICK c \in {"auto", "manual"} :
          sub' = [sub EXCEPT ![t] = [account |-> a, on |-> TRUE, copy |-> c]]
    BY <1>2 DEF Subscribe
  <2>2. [account |-> a, on |-> TRUE, copy |-> c] \in Subs
    BY DEF Subs
  <2> QED
    BY <2>1, <2>2 DEF CopyInv, CopiesTyped
<1>3. ASSUME NEW t \in Traders, UpdateSubscription(t)
      PROVE  sub' \in [Traders -> Subs]
  <2>1. CASE sub' = [sub EXCEPT ![t].on = ~@]
    BY <2>1 DEF CopyInv, CopiesTyped, Subs
  <2>2. CASE \E c \in {"auto", "manual"} : sub' = [sub EXCEPT ![t].copy = c]
    BY <2>2 DEF CopyInv, CopiesTyped, Subs
  <2> QED
    BY <1>3, <2>1, <2>2 DEF UpdateSubscription
<1>4. ASSUME NEW t \in Traders, Unsubscribe(t)
      PROVE  sub' \in [Traders -> Subs]
  <2>1. NoSub \in Subs
    BY DEF NoSub, Subs
  <2> QED
    BY <1>4, <2>1 DEF Unsubscribe, CopyInv, CopiesTyped
<1>5. CASE sub' = sub
  BY <1>1, <1>5 DEF CopyInv, CopiesTyped, FanFresh, SweepInformed
<1>6. sub' = sub \/ \E t \in Traders : \/ \E a \in Accounts : Subscribe(t, a)
                                       \/ UpdateSubscription(t) \/ Unsubscribe(t)
  BY DEF Change, Connect, UpdateConnection, DeleteConnection, SuspendConnection, DeployByHand,
         UndeployByHand, SetConn, StartTest, DayEnds, IdlePasses
<1>7. sub' \in [Traders -> Subs]
  BY <1>2, <1>3, <1>4, <1>6 DEF CopyInv, CopiesTyped
<1> QED
  BY <1>1, <1>7 DEF CopyInv, CopiesTyped, FanFresh, SweepInformed

(* A signal goes out only while nobody has a copy.                         *)
LEMMA SignalKeeps == CopyInv /\ Signal => CopyInv'
<1> SUFFICES ASSUME CopyInv, Signal PROVE CopyInv'
  OBVIOUS
<1>1. /\ \A t \in Traders : copied[t].status = "none"
      /\ copied' = copied /\ sub' = sub /\ sweep' = sweep
  BY DEF Signal, NoTrade
<1>2. PICK S \in SUBSET Traders : fan' = S \X {sub}
  BY DEF Signal
<1>3. fan' \subseteq Traders \X [Traders -> Subs]
  BY <1>2 DEF CopyInv, CopiesTyped
<1>4. FanFresh'
  BY <1>1, <1>2 DEF FanFresh
<1> QED
  BY <1>1, <1>3, <1>4 DEF CopyInv, CopiesTyped, SweepInformed

(* A copy is made where there was none: it is not one the sweep saw.       *)
LEMMA CopyToKeeps == ASSUME CopyInv, NEW t \in Traders, CopyTo(t) PROVE CopyInv'
<1>1. PICK f \in fan : /\ f[1] = t /\ fan' = fan \ {f}
                       /\ \/ SendAtOnce(t, f[2][t].account)
                          \/ Draft(t, f[2][t].account)
  BY DEF CopyTo
<1>2. sub' = sub /\ sweep' = sweep
  BY DEF CopyTo
<1>3. f[2][t].account \in Targets
  BY <1>1 DEF CopyInv, CopiesTyped, Subs, Targets
<1>4. PICK row \in Trades : copied' = [copied EXCEPT ![t] = row]
  <2>1. CASE SendAtOnce(t, f[2][t].account)
    BY <2>1, <1>3 DEF SendAtOnce, Trades, Statuses, Targets
  <2>2. CASE Draft(t, f[2][t].account)
    <3>1. [NoTrade EXCEPT !.status = "pending", !.meant = f[2][t].account] \in Trades
      BY <1>3 DEF NoTrade, Trades, Statuses, Targets
    <3> QED
      BY <2>2, <3>1 DEF Draft
  <2> QED
    BY <1>1, <2>1, <2>2
<1>5. copied[t].status = "none"
  BY <1>1 DEF CopyInv, FanFresh
<1>6. t \notin sweep.open
  BY <1>5 DEF CopyInv, SweepInformed
<1>7. \A u \in Traders : u # t => copied'[u] = copied[u]
  BY <1>4 DEF CopyInv, CopiesTyped
<1>8. CopiesTyped'
  BY <1>1, <1>2, <1>4 DEF CopyInv, CopiesTyped
<1>9. FanFresh'
  BY <1>1, <1>7 DEF CopyInv, CopiesTyped, FanFresh
<1>10. SweepInformed'
  <2>1. sweep.open \subseteq Traders
    BY DEF CopyInv, CopiesTyped, Sweeps
  <2> QED
    BY <1>2, <1>6, <1>7, <2>1 DEF CopyInv, SweepInformed
<1> QED
  BY <1>8, <1>9, <1>10 DEF CopyInv

(* Whatever else happens to a copy leaves what it is a copy of alone, and  *)
(* neither reopens it nor forgets it.                                      *)
LEMMA ForwardKeeps ==
  ASSUME CopyInv, NEW t \in Traders, NEW row \in Trades,
         copied' = [copied EXCEPT ![t] = row], row.meant = copied[t].meant,
         copied[t].status # "none",
         copied[t].status = "active" => row.status \in {"active", "closed"},
         copied[t].status # "closed",
         UNCHANGED <<sub, fan, sweep>>
  PROVE  CopyInv'
<1>1. \A u \in Traders : u # t => copied'[u] = copied[u]
  BY DEF CopyInv, CopiesTyped
<1>2. copied'[t] = row
  BY DEF CopyInv, CopiesTyped
<1>3. CopiesTyped'
  BY DEF CopyInv, CopiesTyped
<1>4. FanFresh'
  BY <1>1 DEF CopyInv, CopiesTyped, FanFresh
<1>5. SweepInformed'
  <2>1. sweep.open \subseteq Traders
    BY DEF CopyInv, CopiesTyped, Sweeps
  <2> QED
    BY <1>1, <1>2, <2>1 DEF CopyInv, SweepInformed
<1> QED
  BY <1>3, <1>4, <1>5 DEF CopyInv

(* The account an order goes to is one of the known ones.                  *)
LEMMA ResolvedTyped == \A t, v : Resolved(t, v) \subseteq Targets
  BY DEF Resolved, Usable, Targets

(* Approval, refusal, the answer of the exchange and the close.            *)
LEMMA TradeKeeps ==
  ASSUME CopyInv, NEW t \in Traders,
         Approve(t) \/ Decline(t) \/ OrderAnswered(t) \/ CloseCopy(t)
  PROVE  CopyInv'
<1>1. copied[t] \in Trades
  BY DEF CopyInv, CopiesTyped
<1>2. UNCHANGED <<sub, fan, sweep>>
  BY DEF Approve, Decline, OrderAnswered, CloseCopy
<1>3. CASE Approve(t)
  <2>1. PICK to \in Targets : copied' = [copied EXCEPT ![t].status = "sending", ![t].to = to]
    BY <1>3, ResolvedTyped DEF Approve
  <2> DEFINE row == [copied[t] EXCEPT !.status = "sending", !.to = to]
  <2>2. row \in Trades /\ row.meant = copied[t].meant
    BY <1>1 DEF Trades, Statuses
  <2>3. copied' = [copied EXCEPT ![t] = row]
    BY <2>1 DEF CopyInv, CopiesTyped
  <2>4. copied[t].status = "pending"
    BY <1>3 DEF Approve
  <2> QED
    BY <1>2, <2>2, <2>3, <2>4, ForwardKeeps
<1>4. CASE Decline(t)
  <2> DEFINE row == [copied[t] EXCEPT !.status = "cancelled"]
  <2>1. row \in Trades /\ row.meant = copied[t].meant
    BY <1>1 DEF Trades, Statuses
  <2>2. copied[t].status = "pending" /\ copied' = [copied EXCEPT ![t] = row]
    BY <1>4 DEF Decline, CopyInv, CopiesTyped
  <2> QED
    BY <1>2, <2>1, <2>2, ForwardKeeps
<1>5. CASE OrderAnswered(t)
  <2>1. copied[t].status = "sending"
    BY <1>5 DEF OrderAnswered
  <2>2. PICK row \in Trades : copied' = [copied EXCEPT ![t] = row] /\ row.meant = copied[t].meant
    <3>1. CASE copied' = [copied EXCEPT ![t].status = "error"]
      <4>1. [copied[t] EXCEPT !.status = "error"] \in Trades
        BY <1>1 DEF Trades, Statuses
      <4> QED
        BY <3>1, <4>1, <1>1 DEF CopyInv, CopiesTyped, Trades
    <3>2. CASE copied' = [copied EXCEPT ![t].status = "active", ![t].at = copied[t].to]
      <4>1. [copied[t] EXCEPT !.status = "active", !.at = copied[t].to] \in Trades
        BY <1>1 DEF Trades, Statuses
      <4> QED
        BY <3>2, <4>1, <1>1 DEF CopyInv, CopiesTyped, Trades
    <3> QED
      BY <1>5, <3>1, <3>2 DEF OrderAnswered
  <2> QED
    BY <1>2, <2>1, <2>2, ForwardKeeps
<1>6. CASE CloseCopy(t)
  <2>1. copied[t].status = "active"
    BY <1>6 DEF CloseCopy
  <2>2. CASE copied' = copied
    BY <1>2, <2>2 DEF CopyInv, CopiesTyped, FanFresh, SweepInformed
  <2>3. CASE copied' = [copied EXCEPT ![t].status = "closed"]
    <3> DEFINE row == [copied[t] EXCEPT !.status = "closed"]
    <3>1. row \in Trades /\ row.meant = copied[t].meant /\ row.status = "closed"
      BY <1>1 DEF Trades, Statuses
    <3>2. copied' = [copied EXCEPT ![t] = row]
      BY <2>3 DEF CopyInv, CopiesTyped
    <3> QED
      BY <1>2, <2>1, <3>1, <3>2, ForwardKeeps
  <2> QED
    BY <1>6, <2>2, <2>3 DEF CloseCopy
<1> QED
  BY <1>3, <1>4, <1>5, <1>6

(* The sweep notes what is open, looks once more before each account, and  *)
(* forgets both at its end.                                                *)
LEMMA SweepKeeps ==
  ASSUME CopyInv, StartSweep \/ UndeployIdle \/ EndSweep \/ \E a \in Accounts : CheckTrades(a)
  PROVE  CopyInv'
<1>1. UNCHANGED <<sub, copied, fan>>
  BY DEF StartSweep, UndeployIdle, EndSweep, CheckTrades
<1>2. sweep \in Sweeps
  BY DEF CopyInv, CopiesTyped
<1>3. CASE StartSweep
  <2>1. PICK I \in SUBSET Accounts :
          sweep' = [pc |-> "check", free |-> {}, open |-> OpenHosted, idle |-> I]
    BY <1>3 DEF StartSweep
  <2>2. sweep' \in Sweeps /\ sweep'.open = OpenHosted /\ sweep'.free = {}
    BY <2>1 DEF Sweeps, OpenHosted
  <2>3. SweepInformed'
    BY <1>1, <2>2 DEF SweepInformed, OpenHosted
  <2> QED
    BY <1>1, <2>2, <2>3 DEF CopyInv, CopiesTyped, FanFresh
<1>4. CASE UndeployIdle
  <2>1. sweep' = [sweep EXCEPT !.free = {}, !.pc = "check"]
    BY <1>4 DEF UndeployIdle
  <2>2. sweep' \in Sweeps /\ sweep'.open = sweep.open /\ sweep'.free = {}
    BY <1>2, <2>1 DEF Sweeps
  <2>3. SweepInformed'
    BY <1>1, <2>2 DEF CopyInv, SweepInformed
  <2> QED
    BY <1>1, <2>2, <2>3 DEF CopyInv, CopiesTyped, FanFresh
<1>5. CASE EndSweep
  <2>1. sweep' = AtRest
    BY <1>5 DEF EndSweep
  <2>2. sweep' \in Sweeps /\ sweep'.open = {} /\ sweep'.free = {}
    BY <2>1 DEF Sweeps, AtRest
  <2>3. SweepInformed'
    BY <2>2 DEF SweepInformed
  <2> QED
    BY <1>1, <2>2, <2>3 DEF CopyInv, CopiesTyped, FanFresh
<1>6. ASSUME NEW a \in Accounts, CheckTrades(a) PROVE CopyInv'
  <2>1. sweep' = [sweep EXCEPT !.idle = @ \ {a}, !.free = IF Free(a) THEN {a} ELSE {},
                               !.pc = IF Free(a) THEN "undeploy" ELSE @]
    BY <1>6 DEF CheckTrades
  <2>2. /\ sweep' \in Sweeps /\ sweep'.open = sweep.open
        /\ sweep'.free = IF Free(a) THEN {a} ELSE {}
    BY <1>2, <2>1 DEF Sweeps
  <2>3. ASSUME Free(a), Owner[a] \in sweep.open PROVE copied[Owner[a]].status = "closed"
    <3>1. Owner[a] \in Traders
      BY <2>3, <1>2 DEF Sweeps
    <3> QED
      BY <2>3, <3>1 DEF Free, OpenHosted, CopyInv, SweepInformed
  <2>4. SweepInformed'
    BY <1>1, <2>2, <2>3 DEF CopyInv, SweepInformed
  <2> QED
    BY <1>1, <2>2, <2>4 DEF CopyInv, CopiesTyped, FanFresh
<1> QED
  BY <1>3, <1>4, <1>5, <1>6

(* Every step keeps the invariant.                                         *)
LEMMA NextKeepsCopies == CopyInv /\ [CopyNext]_copyVars => CopyInv'
<1> SUFFICES ASSUME CopyInv, [CopyNext]_copyVars PROVE CopyInv'
  OBVIOUS
<1>1. CASE UNCHANGED copyVars
  BY <1>1 DEF copyVars, CopyInv, CopiesTyped, FanFresh, SweepInformed
<1>2. ASSUME NEW a \in Accounts, FinishTest(a) PROVE CopyInv'
  BY <1>2 DEF FinishTest, CopyInv, CopiesTyped, FanFresh, SweepInformed
<1> QED
  BY <1>1, <1>2, ChangeKeeps, SignalKeeps, CopyToKeeps, TradeKeeps, SweepKeeps DEF CopyNext

(* A signal is copied to a trader once, and what a sweep saw open has at  *)
(* most been closed since.                                                *)
THEOREM CopyInvariant == CopySpec => []CopyInv
  BY InitCopies, NextKeepsCopies, PTL DEF CopySpec

(* The sweep never undeploys the account of somebody whose position it saw *)
(* open and that is open still.                                            *)
THEOREM SweepSpares == CopySpec => SweepSparesOpenTrades
<1>1. CopyInv => SparesOpen
  <2> SUFFICES ASSUME CopyInv, NEW a \in sweep.free, Owner[a] \in sweep.open, Owner[a] \in OpenHosted
               PROVE  FALSE
    BY DEF SparesOpen
  <2>1. copied[Owner[a]].status = "closed"
    BY DEF CopyInv, SweepInformed
  <2>2. copied[Owner[a]].status = "active"
    BY DEF OpenHosted
  <2> QED
    BY <2>1, <2>2
<1>2. CopyInv /\ [CopyNext]_copyVars => [SparesOpen]_copyVars
  BY <1>1
<1> QED
  BY <1>2, CopyInvariant, PTL DEF CopySpec, SweepSparesOpenTrades

-----------------------------------------------------------------------------
(* The watchdog: it slows the scans down only for cause.                   *)

(* The watchdog counts critical readings that follow each other.           *)
WatchdogInv ==
  /\ watchdog \in [critical : 0..2, degraded : BOOLEAN, zone : {"ok", "warn", "critical"}]
  /\ watchdog.critical > 0 => watchdog.zone = "critical"

LEMMA WatchdogSteps == WatchdogInv /\ [ScanNext]_scanVars => WatchdogInv'
<1> SUFFICES ASSUME WatchdogInv, [ScanNext]_scanVars PROVE WatchdogInv'
  OBVIOUS
<1>1. CASE UNCHANGED watchdog
  BY <1>1 DEF WatchdogInv
<1>2. ASSUME NEW zone \in {"ok", "warn", "critical"}, CheckOnce(zone) PROVE WatchdogInv'
  <2> DEFINE count == Critical(zone)
             kept == IF count > 2 THEN 2 ELSE count
             slow == CASE zone = "critical" -> watchdog.degraded \/ count >= 2
                       [] zone = "warn" -> watchdog.degraded
                       [] zone = "ok" -> FALSE
  <2>1. count \in 0..3 /\ (count > 0 => zone = "critical")
    BY DEF WatchdogInv, Critical
  <2>2. slow \in BOOLEAN
    BY DEF WatchdogInv
  <2>3. watchdog' = [critical |-> kept, degraded |-> slow, zone |-> zone]
    BY <1>2 DEF CheckOnce
  <2>4. kept \in 0..2 /\ (kept > 0 => zone = "critical")
    BY <2>1
  <2> HIDE DEF count, kept, slow
  <2> QED
    BY <2>2, <2>3, <2>4 DEF WatchdogInv
<1> QED
  BY <1>1, <1>2 DEF ScanNext, scanVars, StartCycle, Proceed, EndScan, ProcessSignal, Resolve,
     FetchGroup, RunAll, EditBot, ExchangeChanges, AdminChanges, Changes

LEMMA SlowsOnlyForCause == WatchdogInv /\ [ScanNext]_scanVars => [SlowsForCause]_scanVars
<1> SUFFICES ASSUME WatchdogInv, [ScanNext]_scanVars, ~UNCHANGED watchdog PROVE SlowsForCause
  BY DEF SlowsForCause, scanVars
<1>1. PICK zone \in {"ok", "warn", "critical"} : CheckOnce(zone)
  BY DEF ScanNext, scanVars, StartCycle, Proceed, EndScan, ProcessSignal, Resolve,
     FetchGroup, RunAll, EditBot, ExchangeChanges, AdminChanges, Changes
<1> DEFINE count == Critical(zone)
           slow == CASE zone = "critical" -> watchdog.degraded \/ count >= 2
                     [] zone = "warn" -> watchdog.degraded
                     [] zone = "ok" -> FALSE
<1>2. watchdog'.zone = zone /\ watchdog'.degraded = slow
  BY <1>1 DEF CheckOnce
<1>3. CASE zone = "critical"
  <2>1. count >= 2 => watchdog.zone = "critical"
    BY <1>3 DEF WatchdogInv, Critical
  <2>2. slow = (watchdog.degraded \/ count >= 2)
    BY <1>3
  <2>3. watchdog.degraded \in BOOLEAN
    BY DEF WatchdogInv
  <2> HIDE DEF count, slow
  <2> QED
    BY <1>2, <1>3, <2>1, <2>2, <2>3 DEF SlowsForCause
<1>4. CASE zone = "warn"
  BY <1>2, <1>4 DEF SlowsForCause
<1>5. CASE zone = "ok"
  <2>1. slow = FALSE
    BY <1>5
  <2> HIDE DEF slow
  <2> QED
    BY <1>2, <1>5, <2>1 DEF SlowsForCause
<1> QED
  BY <1>3, <1>4, <1>5

(* The watchdog slows the scanner for two critical readings in a row, and  *)
(* releases it for a calm one.                                             *)
THEOREM SlowedWithCause == ScanSpec => SlowedForCause
<1>1. ScanInit => WatchdogInv
  BY DEF ScanInit, WatchdogInv
<1> QED
  BY <1>1, WatchdogSteps, SlowsOnlyForCause, PTL DEF ScanSpec, SlowedForCause

-----------------------------------------------------------------------------
(* The scan cycle: a bot trades a candle of a symbol once.  The pairs of a *)
(* cycle are parted between its stages, each pair in one of them, and an   *)
(* order of a pair puts it behind them all.                                *)

(* A pair of a bot and a symbol is to be resolved, in one group to be      *)
(* fetched, or fetched; of a group, a bot is to be run, to be served, or   *)
(* served; and only a bot served has an order.                             *)
ScanShape ==
  scan \in [pc : {"idle", "resolve", "fetch", "size", "trade"}, copy : {scan.copy}, todo : {scan.todo},
            groups : {scan.groups}, group : {scan.group}, sizes : {scan.sizes}, signals : {scan.signals},
            size : {scan.size}, seen : {scan.seen}, orders : {scan.orders}, end : {scan.end}]
Placed(b, s) == \E o \in scan.orders : o.bot = b /\ o.symbol = s
Looked(b, s) == \E q \in scan.seen : q[1] = b /\ q[2] = s
GroupsApart ==
  \A g \in scan.groups : \A b \in g.bots :
    /\ <<b, g.symbol>> \notin scan.todo /\ ~Looked(b, g.symbol)
    /\ \A h \in scan.groups : h.symbol = g.symbol /\ b \in h.bots => h = g
SeenIsDone == \A q \in scan.seen : <<q[1], q[2]>> \notin scan.todo
ToServe(b) == <<b, scan.group.symbol, scan.group.exchange>> \in scan.seen /\ ~Placed(b, scan.group.symbol)
PartsApart ==
  /\ \A p \in scan.sizes : \A b \in p.bots :
       ToServe(b) /\ b \notin scan.signals /\ \A r \in scan.sizes : b \in r.bots => r = p
  /\ \A b \in scan.signals : ToServe(b)
  /\ scan.pc # "trade" => scan.signals = {}
ScanInv == ScanShape /\ GroupsApart /\ SeenIsDone /\ PartsApart /\ TradedOnce

LEMMA ScanStarts == ScanInit => ScanInv
BY DEF ScanInit, ScanInv, NoCycle, ScanShape, GroupsApart, SeenIsDone, PartsApart, TradedOnce

(* A new cycle has nothing yet, and a failed one nothing left.             *)
LEMMA NothingYet ==
  ASSUME NEW step \in {"idle", "resolve", "fetch", "size", "trade"}, NEW rows, NEW todo, NEW end,
         scan' = [pc |-> step, copy |-> rows, todo |-> todo, groups |-> {}, group |-> <<>>, sizes |-> {},
                  signals |-> {}, size |-> NoBalance, seen |-> {}, orders |-> {}, end |-> end]
  PROVE  ScanInv'
<1>1. ScanShape'
  BY DEF ScanShape
<1>2. (GroupsApart /\ SeenIsDone /\ PartsApart /\ TradedOnce)'
  BY DEF GroupsApart, SeenIsDone, PartsApart, TradedOnce
<1> QED
  BY <1>1, <1>2 DEF ScanInv

(* Resolving a pair moves it into one group.                               *)
LEMMA JoinStep ==
  ASSUME ScanInv, NEW b, NEW s, NEW x, <<b, s>> \in scan.todo, ScanShape',
         scan'.todo = Join(b, s, x).todo, scan'.groups = Join(b, s, x).groups,
         scan'.pc = scan.pc, scan'.group = scan.group, scan'.sizes = scan.sizes, scan'.signals = scan.signals,
         scan'.seen = scan.seen, scan'.orders = scan.orders
  PROVE  ScanInv'
<1> DEFINE same == {g \in scan.groups : g.exchange = x /\ g.symbol = s}
           joined == (UNION {g.bots : g \in same}) \cup {b}
           new == [exchange |-> x, symbol |-> s, bots |-> joined]
<1>1. scan'.todo = scan.todo \ {<<b, s>>} /\ scan'.groups = (scan.groups \ same) \cup {new}
  <2>1. Join(b, s, x) = [scan EXCEPT !.todo = @ \ {<<b, s>>}, !.groups = (@ \ same) \cup {new}]
    BY DEF Join
  <2> HIDE DEF same, joined, new
  <2> QED
    BY <2>1 DEF ScanInv, ScanShape
<1>2. \A c \in new.bots : c = b \/ \E g \in same : c \in g.bots
  OBVIOUS
<1>3. \A g \in same : g \in scan.groups /\ g.symbol = s
  OBVIOUS
<1>4. new.symbol = s
  OBVIOUS
<1> HIDE DEF same, joined, new
<1>5. \A c \in new.bots : <<c, s>> \notin scan'.todo /\ ~Looked(c, s)
  <2> SUFFICES ASSUME NEW c \in new.bots PROVE <<c, s>> \notin scan'.todo /\ ~Looked(c, s)
    OBVIOUS
  <2>1. CASE c = b
    BY <2>1, <1>1 DEF ScanInv, SeenIsDone, Looked
  <2>2. CASE \E g \in same : c \in g.bots
    BY <2>2, <1>1, <1>3 DEF ScanInv, GroupsApart
  <2> QED
    BY <2>1, <2>2, <1>2
<1>6. \A c \in new.bots, h \in scan.groups \ same : h.symbol = s => c \notin h.bots
  <2> SUFFICES ASSUME NEW c \in new.bots, NEW h \in scan.groups, h \notin same, h.symbol = s, c \in h.bots
               PROVE FALSE
    OBVIOUS
  <2>1. CASE c = b
    BY <2>1 DEF ScanInv, GroupsApart
  <2>2. CASE \E g \in same : c \in g.bots
    BY <2>2, <1>3 DEF ScanInv, GroupsApart
  <2> QED
    BY <2>1, <2>2, <1>2
<1>7. GroupsApart'
  <2> SUFFICES ASSUME NEW g \in scan'.groups, NEW c \in g.bots
               PROVE /\ <<c, g.symbol>> \notin scan'.todo /\ ~Looked(c, g.symbol)'
                     /\ \A h \in scan'.groups : h.symbol = g.symbol /\ c \in h.bots => h = g
    BY DEF GroupsApart
  <2>1. Looked(c, g.symbol)' = Looked(c, g.symbol)
    BY DEF Looked
  <2>2. CASE g = new
    BY <2>1, <2>2, <1>1, <1>4, <1>5, <1>6
  <2>3. CASE g # new
    <3>1. g \in scan.groups /\ g \notin same
      BY <1>1, <2>3
    <3> QED
      BY <2>1, <3>1, <1>1, <1>4, <1>6 DEF ScanInv, GroupsApart
  <2> QED
    BY <2>2, <2>3
<1>8. SeenIsDone'
  BY <1>1 DEF ScanInv, SeenIsDone
<1>9. PartsApart' /\ TradedOnce'
  BY DEF ScanInv, PartsApart, ToServe, Placed, TradedOnce
<1> QED
  BY <1>7, <1>8, <1>9 DEF ScanInv

LEMMA ResolveStep == ASSUME ScanInv, NEW b, NEW s, Resolve(b, s) PROVE ScanInv'
<1>1. <<b, s>> \in scan.todo
  BY DEF Resolve
<1>2. CASE FailsOnAgedPick(b)
  <2>1. scan' = [pc |-> "idle", copy |-> <<>>, todo |-> {}, groups |-> {}, group |-> <<>>, sizes |-> {},
                 signals |-> {}, size |-> NoBalance, seen |-> {}, orders |-> {}, end |-> "failed"]
    BY <1>2 DEF FailsOnAgedPick, NoCycle
  <2> QED
    BY <2>1, NothingYet
<1>3. ASSUME NEW x, scan' = Join(b, s, x) PROVE ScanInv'
  <2>1. /\ ScanShape'
        /\ scan'.pc = scan.pc /\ scan'.group = scan.group /\ scan'.sizes = scan.sizes /\ scan'.signals = scan.signals
        /\ scan'.seen = scan.seen /\ scan'.orders = scan.orders
    BY <1>3 DEF Join, ScanInv, ScanShape
  <2> QED
    BY <1>1, <1>3, <2>1, JoinStep
<1>4. ASSUME NEW x, scan' = [Join(b, s, x) EXCEPT !.copy[b].pick = x, !.copy[b].age = "fresh"] PROVE ScanInv'
  <2>1. /\ ScanShape'
        /\ scan'.pc = scan.pc /\ scan'.group = scan.group /\ scan'.sizes = scan.sizes /\ scan'.signals = scan.signals
        /\ scan'.seen = scan.seen /\ scan'.orders = scan.orders
        /\ scan'.todo = Join(b, s, x).todo /\ scan'.groups = Join(b, s, x).groups
    BY <1>4 DEF Join, ScanInv, ScanShape
  <2> QED
    BY <1>1, <2>1, JoinStep
<1>5. \/ FailsOnAgedPick(b)
      \/ \E x : scan' = Join(b, s, x)
      \/ \E x : scan' = [Join(b, s, x) EXCEPT !.copy[b].pick = x, !.copy[b].age = "fresh"]
  BY DEF Resolve, StaysFixed, StaysOnPick, Picks
<1> QED
  BY <1>2, <1>3, <1>4, <1>5

LEMMA StartCycleStep == ASSUME StartCycle PROVE ScanInv'
<1> DEFINE awake == {b \in Bots : bots[b].active /\ ~bots[b].asleep}
           todo == UNION {{<<b, s>> : s \in Watched[b]} : b \in awake}
<1>1. scan' = [NoCycle EXCEPT !.pc = "resolve", !.copy = bots, !.todo = todo]
  BY DEF StartCycle
<1> HIDE DEF todo
<1>2. scan' = [pc |-> "resolve", copy |-> bots, todo |-> todo, groups |-> {}, group |-> <<>>, sizes |-> {},
               signals |-> {}, size |-> NoBalance, seen |-> {}, orders |-> {}, end |-> "none"]
  BY <1>1 DEF NoCycle
<1> QED
  BY <1>2, NothingYet

LEMMA FetchStep == ASSUME ScanInv, NEW g \in scan.groups, FetchGroup(g) PROVE ScanInv'
<1> DEFINE new == {<<b, g.symbol, g.exchange>> : b \in g.bots}
           up == exchanges[g.exchange].up
<1>1. scan' = [scan EXCEPT !.groups = @ \ {g}, !.seen = @ \cup new, !.pc = IF up THEN "size" ELSE "fetch",
                           !.group = g, !.sizes = BySize(g.bots)]
  BY DEF FetchGroup
<1>2. scan.pc # "trade" /\ scan.todo = {} /\ scan.signals = {}
  BY DEF FetchGroup, ScanInv, PartsApart
<1>3. \A q \in new : q[1] \in g.bots /\ q[2] = g.symbol
  OBVIOUS
<1>4. \A b \in g.bots : <<b, g.symbol, g.exchange>> \in new
  OBVIOUS
<1> HIDE DEF new, up
<1>5. /\ scan'.groups = scan.groups \ {g} /\ scan'.seen = scan.seen \cup new /\ scan'.group = g
      /\ scan'.sizes = BySize(g.bots) /\ scan'.todo = {} /\ scan'.signals = {} /\ scan'.orders = scan.orders
      /\ scan'.pc # "trade"
  BY <1>1, <1>2 DEF ScanInv, ScanShape
<1>6. ScanShape'
  BY <1>1 DEF ScanInv, ScanShape
<1>7. GroupsApart'
  <2> SUFFICES ASSUME NEW h \in scan'.groups, NEW b \in h.bots
               PROVE /\ <<b, h.symbol>> \notin scan'.todo /\ ~Looked(b, h.symbol)'
                     /\ \A i \in scan'.groups : i.symbol = h.symbol /\ b \in i.bots => i = h
    BY DEF GroupsApart
  <2>1. h \in scan.groups /\ h # g
    BY <1>5
  <2>2. ~Looked(b, h.symbol) /\ (b \in g.bots => h.symbol # g.symbol)
    BY <2>1 DEF ScanInv, GroupsApart
  <2>3. ~Looked(b, h.symbol)'
    BY <2>2, <1>3, <1>5 DEF Looked
  <2> QED
    BY <2>1, <2>3, <1>5 DEF ScanInv, GroupsApart
<1>8. SeenIsDone'
  BY <1>5 DEF SeenIsDone
<1>9. TradedOnce'
  BY <1>5 DEF ScanInv, TradedOnce
<1>10. \A b \in g.bots : ToServe(b)'
  <2> SUFFICES ASSUME NEW b \in g.bots PROVE ToServe(b)'
    OBVIOUS
  <2>1. ~Looked(b, g.symbol)
    BY DEF ScanInv, GroupsApart
  <2>2. ~Placed(b, g.symbol)
    BY <2>1 DEF ScanInv, TradedOnce, Placed, Looked
  <2> QED
    BY <1>4, <1>5, <2>2 DEF ToServe, Placed
<1>11. PartsApart'
  <2>1. \A p \in scan'.sizes : \A b \in p.bots : b \in g.bots
    BY <1>5 DEF BySize
  <2>2. ASSUME NEW p \in scan'.sizes, NEW b \in p.bots, NEW r \in scan'.sizes, b \in r.bots PROVE r = p
    <3> DEFINE sized(n) == [balance |-> n, bots |-> {c \in g.bots : EffectiveBalance(c) = n}]
    <3>1. PICK n : p = sized(n)
      BY <1>5 DEF BySize
    <3>2. PICK m : r = sized(m)
      BY <1>5 DEF BySize
    <3>3. b \in sized(n).bots /\ b \in sized(m).bots
      BY <2>2, <3>1, <3>2
    <3>4. EffectiveBalance(b) = n /\ EffectiveBalance(b) = m
      BY <3>3
    <3> QED
      BY <3>1, <3>2, <3>4
  <2> QED
    BY <1>5, <1>10, <2>1, <2>2 DEF PartsApart
<1> QED
  BY <1>6, <1>7, <1>8, <1>9, <1>11 DEF ScanInv

LEMMA RunAllStep == ASSUME ScanInv, NEW part \in scan.sizes, RunAll(part) PROVE ScanInv'
<1>1. PICK found : scan' = [scan EXCEPT !.pc = "trade", !.sizes = @ \ {part}, !.size = part.balance,
                                        !.signals = Wanted(found, part.bots)]
  BY DEF RunAll
<1>2. Wanted(found, part.bots) \subseteq part.bots
  BY DEF Wanted
<1>3. /\ scan'.sizes = scan.sizes \ {part} /\ scan'.signals \subseteq part.bots /\ scan'.pc = "trade"
      /\ scan'.groups = scan.groups /\ scan'.todo = scan.todo /\ scan'.seen = scan.seen
      /\ scan'.orders = scan.orders /\ scan'.group = scan.group /\ ScanShape'
  BY <1>1, <1>2 DEF ScanInv, ScanShape
<1>4. GroupsApart' /\ SeenIsDone' /\ TradedOnce'
  BY <1>3 DEF ScanInv, GroupsApart, SeenIsDone, TradedOnce, Looked
<1>5. \A b : ToServe(b)' = ToServe(b)
  BY <1>3 DEF ToServe, Placed
<1>6. PartsApart'
  BY <1>3, <1>5 DEF ScanInv, PartsApart
<1> QED
  BY <1>3, <1>4, <1>6 DEF ScanInv

LEMMA SignalStep == ASSUME ScanInv, NEW b, ProcessSignal(b) PROVE ScanInv'
<1> DEFINE here == scan.group.exchange
           order(x) == [bot |-> b, symbol |-> scan.group.symbol, exchange |-> here, placed |-> x, size |-> scan.size,
                        asleep |-> bots[b].asleep, short |-> exchanges[here].funds = "empty"]
<1>1. b \in scan.signals /\ scan.pc = "trade" /\ ToServe(b)
  BY DEF ProcessSignal, ScanInv, PartsApart
<1>2. CASE Dropped(b)
  <2>1. /\ scan'.signals = scan.signals \ {b} /\ scan'.pc = "trade" /\ ScanShape' /\ scan'.sizes = scan.sizes
        /\ scan'.groups = scan.groups /\ scan'.todo = scan.todo /\ scan'.seen = scan.seen
        /\ scan'.orders = scan.orders /\ scan'.group = scan.group
    BY <1>1, <1>2 DEF Dropped, ScanInv, ScanShape
  <2>2. GroupsApart' /\ SeenIsDone' /\ TradedOnce'
    BY <2>1 DEF ScanInv, GroupsApart, SeenIsDone, TradedOnce, Looked
  <2>3. \A c : ToServe(c)' = ToServe(c)
    BY <2>1 DEF ToServe, Placed
  <2> QED
    BY <2>1, <2>2, <2>3 DEF ScanInv, PartsApart
<1>3. ASSUME NEW x \in Routed(b, here), scan' = [scan EXCEPT !.signals = @ \ {b}, !.orders = @ \cup {order(x)}]
      PROVE  ScanInv'
  <2>1. x # here => exchanges[here].funds = "empty"
    BY <1>3 DEF Routed
  <2>2. PICK o : o = order(x)
    OBVIOUS
  <2>3. /\ o.bot = b /\ o.symbol = scan.group.symbol /\ o.exchange = here /\ o.placed = x
        /\ o.short = (exchanges[here].funds = "empty")
    BY <2>2
  <2>4. scan' = [scan EXCEPT !.signals = @ \ {b}, !.orders = @ \cup {o}]
    BY <1>3, <2>2
  <2> HIDE DEF order
  <2>5. /\ scan'.signals = scan.signals \ {b} /\ scan'.pc = "trade" /\ ScanShape' /\ scan'.sizes = scan.sizes
        /\ scan'.groups = scan.groups /\ scan'.todo = scan.todo /\ scan'.seen = scan.seen
        /\ scan'.orders = scan.orders \cup {o} /\ scan'.group = scan.group
    BY <1>1, <2>4 DEF ScanInv, ScanShape
  <2>6. GroupsApart' /\ SeenIsDone'
    BY <2>5 DEF ScanInv, GroupsApart, SeenIsDone, Looked
  <2>7. o.placed # o.exchange => o.short
    BY <2>1, <2>3
  <2>8. TradedOnce'
    <3> SUFFICES ASSUME NEW p \in scan'.orders
                 PROVE /\ \A r \in scan'.orders : r.bot = p.bot /\ r.symbol = p.symbol => r = p
                       /\ <<p.bot, p.symbol, p.exchange>> \in scan'.seen
                       /\ p.placed # p.exchange => p.short
      BY DEF TradedOnce
    <3>1. \A r \in scan.orders : ~(r.bot = o.bot /\ r.symbol = o.symbol)
      BY <1>1, <2>3 DEF ToServe, Placed
    <3>2. <<o.bot, o.symbol, o.exchange>> \in scan.seen
      BY <1>1, <2>3 DEF ToServe
    <3>3. CASE p = o
      BY <2>5, <2>7, <3>1, <3>2, <3>3
    <3>4. CASE p # o
      BY <2>5, <3>1, <3>4 DEF ScanInv, TradedOnce
    <3> QED
      BY <3>3, <3>4
  <2>9. \A c : c # b /\ ToServe(c) => ToServe(c)'
    BY <2>3, <2>5 DEF ToServe, Placed
  <2>10. PartsApart'
    BY <1>1, <2>5, <2>9 DEF ScanInv, PartsApart
  <2> QED
    BY <2>5, <2>6, <2>8, <2>10 DEF ScanInv
<1> QED
  BY <1>2, <1>3 DEF ProcessSignal

LEMMA ScanSteps == ScanInv /\ [ScanNext]_scanVars => ScanInv'
<1> SUFFICES ASSUME ScanInv, [ScanNext]_scanVars PROVE ScanInv'
  OBVIOUS
<1>1. CASE UNCHANGED scan
  BY <1>1 DEF ScanInv, ScanShape, GroupsApart, SeenIsDone, PartsApart, ToServe, Placed, Looked, TradedOnce
<1>2. ASSUME NEW step \in {"idle", "fetch", "size"}, NEW end, scan.signals = {},
             scan' = [scan EXCEPT !.pc = step, !.end = end]
      PROVE  ScanInv'
  <2>1. /\ scan'.signals = scan.signals /\ scan'.pc = step /\ ScanShape' /\ scan'.sizes = scan.sizes
        /\ scan'.groups = scan.groups /\ scan'.todo = scan.todo /\ scan'.seen = scan.seen
        /\ scan'.orders = scan.orders /\ scan'.group = scan.group
    BY <1>2 DEF ScanInv, ScanShape
  <2> QED
    BY <1>2, <2>1 DEF ScanInv, GroupsApart, SeenIsDone, PartsApart, ToServe, Placed, Looked, TradedOnce
<1>3. CASE StartCycle
  BY <1>3, StartCycleStep
<1>4. CASE Proceed
  <2>1. scan' = [scan EXCEPT !.pc = IF scan.sizes # {} THEN "size" ELSE "fetch", !.end = scan.end]
    BY <1>4 DEF Proceed, ScanInv, ScanShape
  <2>2. scan.signals = {} /\ (IF scan.sizes # {} THEN "size" ELSE "fetch") \in {"idle", "fetch", "size"}
    BY <1>4 DEF Proceed
  <2> QED
    BY <1>2, <2>1, <2>2
<1>5. CASE EndScan
  BY <1>2, <1>5 DEF EndScan, ScanInv, PartsApart
<1>6. ASSUME NEW b \in Bots, NEW s \in Watched[b], Resolve(b, s) PROVE ScanInv'
  BY <1>6, ResolveStep
<1>7. ASSUME NEW b \in Bots, ProcessSignal(b) PROVE ScanInv'
  BY <1>7, SignalStep
<1>8. ASSUME NEW g \in scan.groups, FetchGroup(g) PROVE ScanInv'
  BY <1>8, FetchStep
<1>9. ASSUME NEW part \in scan.sizes, RunAll(part) PROVE ScanInv'
  BY <1>9, RunAllStep
<1> QED
  BY <1>1, <1>3, <1>4, <1>5, <1>6, <1>7, <1>8, <1>9 DEF ScanNext, scanVars, EditBot, ExchangeChanges,
     AdminChanges, Changes, CheckOnce

(* A bot trades a symbol at most once in a cycle, where it was seen, or    *)
(* elsewhere when the money there was short.                               *)
THEOREM EachSignalOnce == ScanSpec => []TradedOnce
<1>1. ScanInv => TradedOnce
  BY DEF ScanInv
<1> QED
  BY <1>1, ScanStarts, ScanSteps, PTL DEF ScanSpec

-----------------------------------------------------------------------------
(* The tuning workers: what a worker read is what the list still holds,    *)
(* unless a commit that crossed it is on record.                           *)

(* What a worker and a request hold is what they read, unless a commit has *)
(* come in between; and then they know.                                    *)
Homes == [TunedSymbols -> Nat]
AuditRows == [kind : {"none", "param"}] \cup [kind : {"move"}, symbol : TunedSymbols]
WorkStates ==
  [pc : {"idle"}, stale : BOOLEAN]
    \cup [pc : {"tune", "zones"}, stale : BOOLEAN, bot : Zones]
    \cup [pc : {"audit"}, stale : BOOLEAN, bot : Zones, row : AuditRows]
    \cup [pc : {"replay"}, stale : BOOLEAN, bot : Zones, symbol : TunedSymbols]
    \cup [pc : {"readTo"}, stale : BOOLEAN, bot : Zones, symbol : TunedSymbols,
          gain : MinImprovement..MaxSpread, from : Homes]
    \cup [pc : {"move"}, stale : BOOLEAN, bot : Zones, symbol : TunedSymbols,
          gain : MinImprovement..MaxSpread, from : Homes, to : Homes]
RevertStates ==
  [pc : {"idle"}, stale : BOOLEAN]
    \cup [pc : {"readTo"}, stale : BOOLEAN, bot : Zones, symbol : TunedSymbols, from : Homes]
    \cup [pc : {"move"}, stale : BOOLEAN, bot : Zones, symbol : TunedSymbols, from : Homes, to : Homes]
TuneTyped ==
  /\ tuned \in [Zones -> [mode : {"basic", "intelligent"}, home : Homes]]
  /\ trail \in [Zones -> AuditRows] /\ work \in [Workers -> WorkStates] /\ revert \in RevertStates
  /\ overtaken \in BOOLEAN

UpToDate(r) ==
  /\ r.pc \in {"readTo", "move"} /\ ~r.stale => r.from = tuned[r.bot].home
  /\ r.pc = "move" /\ ~r.stale => r.to = tuned[Sibling(r.bot)].home
FromHome(r) == r.pc \in {"readTo", "move"} => r.from[r.symbol] > 0
ToHome(r) == r.pc = "move" => r.to[r.symbol] > 0
InOneList == \A s \in TunedSymbols : tuned["gaps"].home[s] + tuned["blocks"].home[s] = 1
TuneInv ==
  /\ TuneTyped
  /\ \A w \in Workers : UpToDate(work[w]) /\ FromHome(work[w])
  /\ UpToDate(revert) /\ ToHome(revert)
  /\ \A gain \in gains : gain \in MinImprovement..MaxSpread
  /\ ~overtaken => InOneList

LEMMA Siblings ==
  ASSUME NEW b \in Zones
  PROVE  Sibling(b) \in Zones /\ Sibling(b) # b /\ {b, Sibling(b)} = {"gaps", "blocks"}
<1>1. \E c \in Zones : c # b
  BY DEF Zones
<1>2. Sibling(b) \in Zones /\ Sibling(b) # b
  BY <1>1 DEF Sibling
<1> QED
  BY <1>2 DEF Zones

LEMMA TuneStarts == TuneInit => TuneInv
<1> SUFFICES ASSUME TuneInit PROVE TuneInv
  OBVIOUS
<1>1. [s \in TunedSymbols |-> 1] \in Homes /\ [s \in TunedSymbols |-> 0] \in Homes
  BY DEF Homes
<1>2. NotAtWork \in WorkStates /\ NotAtWork \in RevertStates /\ NotAtWork.pc = "idle" /\ NoAdjustment \in AuditRows
  BY DEF NotAtWork, WorkStates, RevertStates, NoAdjustment, AuditRows
<1>3. \A b \in Zones : [s \in TunedSymbols |-> IF b = "gaps" THEN 1 ELSE 0] \in Homes
  BY DEF Homes
<1>4. TuneTyped
  BY <1>2, <1>3 DEF TuneInit, TuneTyped
<1>5. InOneList
  BY DEF TuneInit, InOneList, Zones
<1> QED
  BY <1>2, <1>4, <1>5 DEF TuneInit, TuneInv, UpToDate, FromHome, ToHome

(* Once a commit is known to have come in between, nothing else changes.   *)
LEMMA OutdatedRecord ==
  ASSUME NEW r \in WorkStates \cup RevertStates, NEW o, o = [r EXCEPT !.stale = TRUE]
  PROVE  /\ r \in WorkStates => o \in WorkStates
         /\ r \in RevertStates => o \in RevertStates
         /\ o.stale = TRUE /\ o.pc = r.pc
         /\ r.pc \in {"readTo", "move"} => o.from = r.from /\ o.symbol = r.symbol
         /\ r.pc = "move" => o.to = r.to
<1>1. r \in WorkStates => o \in WorkStates
  BY DEF WorkStates
<1>2. r \in RevertStates => o \in RevertStates
  BY DEF RevertStates
<1>3. o.stale = TRUE /\ o.pc = r.pc
  BY DEF WorkStates, RevertStates
<1>4. r.pc \in {"readTo", "move"} => o.from = r.from /\ o.symbol = r.symbol
  BY DEF WorkStates, RevertStates
<1>5. r.pc = "move" => o.to = r.to
  BY DEF WorkStates, RevertStates
<1> QED
  BY <1>1, <1>2, <1>3, <1>4, <1>5

(* A step of one worker that changes no list.                              *)
LEMMA WorkerStep ==
  ASSUME TuneInv, NEW w \in Workers, NEW r \in WorkStates, work' = [work EXCEPT ![w] = r],
         UpToDate(r), FromHome(r), UNCHANGED <<tuned, revert, overtaken>>,
         trail' \in [Zones -> AuditRows], \A gain \in gains' : gain \in MinImprovement..MaxSpread
  PROVE  TuneInv'
<1>1. TuneTyped'
  BY DEF TuneInv, TuneTyped
<1>2. \A v \in Workers : work'[v] = IF v = w THEN r ELSE work[v]
  BY DEF TuneInv, TuneTyped
<1> QED
  BY <1>1, <1>2 DEF TuneInv, UpToDate, FromHome, ToHome, InOneList

(* A commit of two lists: all who hold copies know, and the sums are kept. *)
LEMMA CommitStep ==
  ASSUME TuneInv, NEW b \in Zones, NEW one \in Homes, NEW two \in Homes,
         tuned' = [tuned EXCEPT ![b].home = one, ![Sibling(b)].home = two],
         trail' = trail, work' \in [Workers -> WorkStates], revert' \in RevertStates, overtaken' \in BOOLEAN,
         \A w \in Workers : work'[w].pc \notin {"readTo", "move"} \/ (work'[w].stale /\ FromHome(work'[w])),
         revert'.pc = "idle" \/ (revert'.stale /\ ToHome(revert')),
         \A gain \in gains' : gain \in MinImprovement..MaxSpread,
         ~overtaken' => \A s \in TunedSymbols : one[s] + two[s] = 1
  PROVE  TuneInv'
<1>1. Sibling(b) \in Zones /\ Sibling(b) # b /\ {b, Sibling(b)} = {"gaps", "blocks"}
  BY Siblings
<1>2. tuned \in [Zones -> [mode : {"basic", "intelligent"}, home : Homes]]
  BY DEF TuneInv, TuneTyped
<1>3. PICK c \in Zones : c = Sibling(b)
  BY <1>1
<1>4. /\ tuned' \in [Zones -> [mode : {"basic", "intelligent"}, home : Homes]]
      /\ tuned'[b].home = one /\ tuned'[c].home = two
  BY <1>1, <1>2, <1>3
<1>5. TuneTyped'
  BY <1>4 DEF TuneInv, TuneTyped
<1>6. ~overtaken' => InOneList'
  <2> SUFFICES ASSUME ~overtaken', NEW s \in TunedSymbols
               PROVE  tuned'["gaps"].home[s] + tuned'["blocks"].home[s] = 1
    BY DEF InOneList
  <2>1. one[s] + two[s] = 1 /\ one[s] \in Nat /\ two[s] \in Nat
    BY DEF Homes
  <2>2. CASE b = "gaps"
    BY <1>1, <1>3, <1>4, <2>1, <2>2
  <2>3. CASE b = "blocks"
    BY <1>1, <1>3, <1>4, <2>1, <2>3
  <2> QED
    BY <2>2, <2>3 DEF Zones
<1> QED
  BY <1>5, <1>6 DEF TuneInv, UpToDate, FromHome, ToHome

(* What one kind of a worker's record holds.                               *)
LEMMA WorkKinds ==
  ASSUME NEW r \in WorkStates
  PROVE  /\ r.pc # "idle" => r.bot \in Zones
         /\ r.pc = "audit" => r.row \in AuditRows
         /\ r.pc = "replay" => r.symbol \in TunedSymbols
         /\ r.pc \in {"readTo", "move"} =>
              r.symbol \in TunedSymbols /\ r.gain \in MinImprovement..MaxSpread /\ r.from \in Homes
         /\ r.pc = "move" => r.to \in Homes
         /\ r.stale \in BOOLEAN
<1>1. r.pc # "idle" => r.bot \in Zones
  BY DEF WorkStates
<1>2. r.pc = "audit" => r.row \in AuditRows
  BY DEF WorkStates
<1>3. r.pc \in {"replay", "readTo", "move"} => r.symbol \in TunedSymbols
  BY DEF WorkStates
<1>4. r.pc \in {"readTo", "move"} => r.gain \in MinImprovement..MaxSpread /\ r.from \in Homes
  BY DEF WorkStates
<1>5. r.pc = "move" => r.to \in Homes
  BY DEF WorkStates
<1>6. r.stale \in BOOLEAN
  BY DEF WorkStates
<1> QED
  BY <1>1, <1>2, <1>3, <1>4, <1>5, <1>6

LEMMA RevertKinds ==
  ASSUME NEW r \in RevertStates
  PROVE  /\ r.pc # "idle" => r.bot \in Zones /\ r.symbol \in TunedSymbols /\ r.from \in Homes
         /\ r.pc = "move" => r.to \in Homes
         /\ r.stale \in BOOLEAN
<1>1. r.pc # "idle" => r.bot \in Zones /\ r.symbol \in TunedSymbols /\ r.from \in Homes
  BY DEF RevertStates
<1>2. r.pc = "move" => r.to \in Homes
  BY DEF RevertStates
<1>3. r.stale \in BOOLEAN
  BY DEF RevertStates
<1> QED
  BY <1>1, <1>2, <1>3

LEMMA HomesAreLists == ASSUME TuneInv, NEW b \in Zones PROVE tuned[b].home \in Homes
BY DEF TuneInv, TuneTyped

(* One worker's steps that change no list.                                 *)
LEMMA WorkersKeep ==
  ASSUME TuneInv, NEW w \in Workers,
         \/ LeaveParam(w) \/ ReadTo(w) \/ Audit(w) \/ GiveUp(w)
         \/ \E b \in Zones : StartTuning(w, b)
         \/ \E s \in TunedSymbols : CheckZone(w, s)
         \/ \E gain \in Improvements : ReadFrom(w, gain) \/ AdjustParam(w, gain)
  PROVE  TuneInv'
<1> DEFINE r == work[w]
<1>1. r \in WorkStates /\ UpToDate(r) /\ FromHome(r)
  BY DEF TuneInv, TuneTyped
<1>2. trail \in [Zones -> AuditRows] /\ \A gain \in gains : gain \in MinImprovement..MaxSpread
  BY DEF TuneInv, TuneTyped
<1>3. CASE LeaveParam(w)
  <2>1. PICK n : n = [r EXCEPT !.pc = "zones"]
    OBVIOUS
  <2>2. work' = [work EXCEPT ![w] = n]
    BY <1>3, <2>1 DEF LeaveParam, WorkAt, TuneInv, TuneTyped
  <2>3. n \in WorkStates /\ n.pc = "zones"
    BY <1>1, <1>3, <2>1 DEF LeaveParam, WorkStates
  <2>4. UpToDate(n) /\ FromHome(n)
    BY <2>3 DEF UpToDate, FromHome
  <2> QED
    BY <1>2, <1>3, <2>2, <2>3, <2>4, WorkerStep DEF LeaveParam
<1>4. CASE ReadTo(w)
  <2>1. r.pc = "readTo"
    BY <1>4 DEF ReadTo
  <2>2. r.bot \in Zones /\ Sibling(r.bot) \in Zones
    BY <1>1, <2>1, WorkKinds, Siblings
  <2>3. tuned[Sibling(r.bot)].home \in Homes
    BY <2>2, HomesAreLists
  <2>4. PICK n : n = [pc |-> "move", stale |-> r.stale, bot |-> r.bot, symbol |-> r.symbol, gain |-> r.gain,
                      from |-> r.from, to |-> tuned[Sibling(r.bot)].home]
    OBVIOUS
  <2>5. work' = [work EXCEPT ![w] = n]
    BY <1>4, <2>4 DEF ReadTo
  <2>6. n \in WorkStates
    BY <1>1, <2>1, <2>2, <2>3, <2>4, WorkKinds DEF WorkStates
  <2>7. UpToDate(n) /\ FromHome(n)
    BY <1>1, <2>1, <2>4 DEF UpToDate, FromHome
  <2> QED
    BY <1>2, <1>4, <2>5, <2>6, <2>7, WorkerStep DEF ReadTo
<1>5. CASE Audit(w)
  <2>1. r.pc = "audit" /\ r.bot \in Zones /\ r.row \in AuditRows
    BY <1>1, <1>5, WorkKinds DEF Audit
  <2>2. PICK n : n = [pc |-> "zones", stale |-> FALSE, bot |-> r.bot]
    OBVIOUS
  <2>3. work' = [work EXCEPT ![w] = n]
    BY <1>5, <2>2 DEF Audit
  <2>4. n \in WorkStates /\ n.pc = "zones"
    BY <2>1, <2>2 DEF WorkStates
  <2>5. UpToDate(n) /\ FromHome(n)
    BY <2>4 DEF UpToDate, FromHome
  <2>6. trail' \in [Zones -> AuditRows]
    BY <1>2, <1>5, <2>1 DEF Audit
  <2> QED
    BY <1>2, <1>5, <2>3, <2>4, <2>5, <2>6, WorkerStep DEF Audit
<1>6. CASE GiveUp(w)
  <2>1. NotAtWork \in WorkStates /\ NotAtWork.pc = "idle"
    BY DEF NotAtWork, WorkStates
  <2>2. UpToDate(NotAtWork) /\ FromHome(NotAtWork)
    BY <2>1 DEF UpToDate, FromHome
  <2> QED
    BY <1>2, <1>6, <2>1, <2>2, WorkerStep DEF GiveUp, GoHome
<1>7. ASSUME NEW b \in Zones, StartTuning(w, b) PROVE TuneInv'
  <2>1. PICK n : n = [pc |-> "tune", stale |-> FALSE, bot |-> b]
    OBVIOUS
  <2>2. work' = [work EXCEPT ![w] = n]
    BY <1>7, <2>1 DEF StartTuning
  <2>3. n \in WorkStates /\ n.pc = "tune"
    BY <2>1 DEF WorkStates
  <2>4. UpToDate(n) /\ FromHome(n)
    BY <2>3 DEF UpToDate, FromHome
  <2> QED
    BY <1>2, <1>7, <2>2, <2>3, <2>4, WorkerStep DEF StartTuning
<1>8. ASSUME NEW s \in TunedSymbols, CheckZone(w, s) PROVE TuneInv'
  <2>1. r.bot \in Zones
    BY <1>1, <1>8, WorkKinds DEF CheckZone
  <2>2. PICK n : n = [pc |-> "replay", stale |-> FALSE, bot |-> r.bot, symbol |-> s]
    OBVIOUS
  <2>3. work' = [work EXCEPT ![w] = n]
    BY <1>8, <2>2 DEF CheckZone
  <2>4. n \in WorkStates /\ n.pc = "replay"
    BY <2>1, <2>2 DEF WorkStates
  <2>5. UpToDate(n) /\ FromHome(n)
    BY <2>4 DEF UpToDate, FromHome
  <2> QED
    BY <1>2, <1>8, <2>3, <2>4, <2>5, WorkerStep DEF CheckZone
<1>9. ASSUME NEW gain \in Improvements, ReadFrom(w, gain) PROVE TuneInv'
  <2>1. r.pc = "replay" /\ tuned[r.bot].home[r.symbol] > 0
    BY <1>9 DEF ReadFrom, StillThere
  <2>2. r.bot \in Zones /\ r.symbol \in TunedSymbols
    BY <1>1, <2>1, WorkKinds
  <2>3. gain \in MinImprovement..MaxSpread
    BY <1>9, GainsAreGains DEF ReadFrom, Worthwhile
  <2>4. PICK n : n = [pc |-> "readTo", stale |-> FALSE, bot |-> r.bot, symbol |-> r.symbol, gain |-> gain,
                      from |-> tuned[r.bot].home]
    OBVIOUS
  <2>5. work' = [work EXCEPT ![w] = n]
    BY <1>9, <2>4 DEF ReadFrom
  <2>6. tuned[r.bot].home \in Homes
    BY <2>2, HomesAreLists
  <2>7. n \in WorkStates
    BY <2>2, <2>3, <2>4, <2>6 DEF WorkStates
  <2>8. UpToDate(n) /\ FromHome(n)
    BY <2>1, <2>4 DEF UpToDate, FromHome
  <2> QED
    BY <1>2, <1>9, <2>5, <2>7, <2>8, WorkerStep DEF ReadFrom
<1>10. ASSUME NEW gain \in Improvements, AdjustParam(w, gain) PROVE TuneInv'
  <2>1. r.bot \in Zones
    BY <1>1, <1>10, WorkKinds DEF AdjustParam
  <2>2. PICK n : n = [pc |-> "audit", stale |-> FALSE, bot |-> r.bot, row |-> [kind |-> "param"]]
    OBVIOUS
  <2>3. work' = [work EXCEPT ![w] = n]
    BY <1>10, <2>2 DEF AdjustParam
  <2>4. n \in WorkStates /\ n.pc = "audit"
    BY <2>1, <2>2 DEF WorkStates, AuditRows
  <2>5. UpToDate(n) /\ FromHome(n)
    BY <2>4 DEF UpToDate, FromHome
  <2>6. gain \in MinImprovement..MaxSpread
    BY <1>10, GainsAreGains DEF AdjustParam, Worthwhile
  <2>7. \A some \in gains' : some \in MinImprovement..MaxSpread
    BY <1>2, <1>10, <2>6 DEF AdjustParam
  <2> QED
    BY <1>2, <1>10, <2>3, <2>4, <2>5, <2>7, WorkerStep DEF AdjustParam
<1> QED
  BY <1>3, <1>4, <1>5, <1>6, <1>7, <1>8, <1>9, <1>10

LEMMA ListsAdd ==
  ASSUME TuneInv, InOneList, NEW b \in Zones
  PROVE  \A u \in TunedSymbols : tuned[b].home[u] + tuned[Sibling(b)].home[u] = 1
<1>1. Sibling(b) \in Zones /\ Sibling(b) # b
  BY Siblings
<1>2. \A u \in TunedSymbols : tuned["gaps"].home[u] \in Nat /\ tuned["blocks"].home[u] \in Nat
  BY HomesAreLists DEF Homes, Zones
<1>3. (b = "gaps" /\ Sibling(b) = "blocks") \/ (b = "blocks" /\ Sibling(b) = "gaps")
  BY <1>1 DEF Zones
<1> QED
  BY <1>2, <1>3 DEF InOneList

LEMMA MoveStep == ASSUME TuneInv, NEW w \in Workers, MoveSymbol(w) PROVE TuneInv'
<1> DEFINE r == work[w]
           b == r.bot
           s == r.symbol
<1>1. r \in WorkStates /\ UpToDate(r) /\ FromHome(r) /\ r.pc = "move" /\ r.stale \in BOOLEAN
  BY WorkKinds DEF MoveSymbol, TuneInv, TuneTyped
<1>2. /\ b \in Zones /\ s \in TunedSymbols /\ r.from \in Homes /\ r.to \in Homes
      /\ r.gain \in MinImprovement..MaxSpread /\ Sibling(b) \in Zones
  BY <1>1, WorkKinds, Siblings
<1>3. PICK one : one = [r.from EXCEPT ![s] = 0]
  OBVIOUS
<1>4. PICK two : two = [r.to EXCEPT ![s] = @ + 1]
  OBVIOUS
<1>5. one \in Homes /\ two \in Homes
  BY <1>2, <1>3, <1>4 DEF Homes
<1>6. PICK n : n = [pc |-> "audit", stale |-> FALSE, bot |-> b, row |-> [kind |-> "move", symbol |-> s]]
  OBVIOUS
<1>7. n \in WorkStates /\ n.pc = "audit"
  BY <1>2, <1>6 DEF WorkStates, AuditRows
<1>8. /\ tuned' = [tuned EXCEPT ![b].home = one, ![Sibling(b)].home = two]
      /\ work' = [Outdated(work) EXCEPT ![w] = n] /\ revert' = [revert EXCEPT !.stale = TRUE]
      /\ gains' = gains \cup {r.gain} /\ trail' = trail
  BY <1>3, <1>4, <1>6 DEF MoveSymbol
<1>9. overtaken' = (overtaken \/ r.stale)
  BY DEF MoveSymbol
<1>10. overtaken \in BOOLEAN
  BY DEF TuneInv, TuneTyped
<1>11. overtaken' \in BOOLEAN /\ (~overtaken' => ~overtaken /\ ~r.stale)
  BY <1>1, <1>9, <1>10
<1>12. ASSUME NEW v \in Workers
       PROVE  /\ work'[v] \in WorkStates
              /\ work'[v].pc \notin {"readTo", "move"} \/ (work'[v].stale /\ FromHome(work'[v]))
  <2>1. CASE v = w
    BY <1>7, <1>8, <2>1 DEF Outdated
  <2>2. CASE v # w
    <3>1. work'[v] = [work[v] EXCEPT !.stale = TRUE]
      BY <1>8, <2>2 DEF Outdated
    <3>2. work[v] \in WorkStates /\ FromHome(work[v])
      BY DEF TuneInv, TuneTyped
    <3>3. PICK o : o = [work[v] EXCEPT !.stale = TRUE]
      OBVIOUS
    <3>4. /\ o \in WorkStates /\ o.stale = TRUE /\ o.pc = work[v].pc
          /\ work[v].pc \in {"readTo", "move"} => o.from = work[v].from /\ o.symbol = work[v].symbol
      BY <3>2, <3>3, OutdatedRecord
    <3> QED
      BY <3>1, <3>2, <3>3, <3>4 DEF FromHome
  <2> QED
    BY <2>1, <2>2
<1>13. work' \in [Workers -> WorkStates]
  <2>1. work' = [v \in Workers |-> work'[v]]
    BY <1>8 DEF Outdated
  <2> QED
    BY <1>12, <2>1
<1>14. revert' \in RevertStates /\ revert'.stale /\ ToHome(revert')
  <2>1. revert \in RevertStates /\ ToHome(revert)
    BY DEF TuneInv, TuneTyped
  <2>2. PICK o : o = [revert EXCEPT !.stale = TRUE]
    OBVIOUS
  <2>3. /\ o \in RevertStates /\ o.stale = TRUE /\ o.pc = revert.pc
        /\ revert.pc = "move" => o.to = revert.to /\ o.symbol = revert.symbol
    BY <2>1, <2>2, OutdatedRecord
  <2> QED
    BY <1>8, <2>1, <2>2, <2>3 DEF ToHome
<1>15. \A gain \in gains' : gain \in MinImprovement..MaxSpread
  BY <1>2, <1>8 DEF TuneInv
<1>16. ASSUME ~overtaken' PROVE \A u \in TunedSymbols : one[u] + two[u] = 1
  <2>1. r.from = tuned[b].home /\ r.to = tuned[Sibling(b)].home /\ r.from[s] > 0
    BY <1>1, <1>11, <1>16 DEF UpToDate, FromHome
  <2>2. \A u \in TunedSymbols : r.from[u] + r.to[u] = 1
    BY <1>2, <1>11, <1>16, <2>1, ListsAdd DEF TuneInv
  <2>3. ASSUME NEW u \in TunedSymbols PROVE one[u] + two[u] = 1
    <3>1. r.from[u] \in Nat /\ r.to[u] \in Nat /\ r.from[u] + r.to[u] = 1
      BY <1>2, <2>2 DEF Homes
    <3>2. CASE u = s
      BY <1>2, <1>3, <1>4, <2>1, <3>1, <3>2 DEF Homes
    <3>3. CASE u # s
      BY <1>2, <1>3, <1>4, <3>1, <3>3 DEF Homes
    <3> QED
      BY <3>2, <3>3
  <2> QED
    BY <2>3
<1> HIDE DEF r, b, s
<1> QED
  BY <1>2, <1>5, <1>8, <1>11, <1>12, <1>13, <1>14, <1>15, <1>16, CommitStep

LEMMA RevertStep == ASSUME TuneInv, RevertCommits PROVE TuneInv'
<1> DEFINE r == revert
           b == r.bot
           s == r.symbol
<1>1. r \in RevertStates /\ UpToDate(r) /\ ToHome(r) /\ r.pc = "move" /\ r.stale \in BOOLEAN
  BY RevertKinds DEF RevertCommits, TuneInv, TuneTyped
<1>2. /\ b \in Zones /\ s \in TunedSymbols /\ r.from \in Homes /\ r.to \in Homes
      /\ Sibling(b) \in Zones
  BY <1>1, RevertKinds, Siblings
<1>3. PICK one : one = [r.from EXCEPT ![s] = @ + 1]
  OBVIOUS
<1>4. PICK two : two = [r.to EXCEPT ![s] = 0]
  OBVIOUS
<1>5. one \in Homes /\ two \in Homes
  BY <1>2, <1>3, <1>4 DEF Homes
<1>6. /\ tuned' = [tuned EXCEPT ![b].home = one, ![Sibling(b)].home = two]
      /\ work' = Outdated(work) /\ revert' = NotAtWork
      /\ gains' = gains /\ trail' = trail
  BY <1>3, <1>4 DEF RevertCommits
<1>7. overtaken' = (overtaken \/ r.stale)
  BY DEF RevertCommits
<1>8. overtaken \in BOOLEAN
  BY DEF TuneInv, TuneTyped
<1>9. overtaken' \in BOOLEAN /\ (~overtaken' => ~overtaken /\ ~r.stale)
  BY <1>1, <1>7, <1>8
<1>10. ASSUME NEW v \in Workers
       PROVE  /\ work'[v] \in WorkStates
              /\ work'[v].pc \notin {"readTo", "move"} \/ (work'[v].stale /\ FromHome(work'[v]))
  <2>1. work'[v] = [work[v] EXCEPT !.stale = TRUE]
    BY <1>6 DEF Outdated
  <2>2. work[v] \in WorkStates /\ FromHome(work[v])
    BY DEF TuneInv, TuneTyped
  <2>3. PICK o : o = [work[v] EXCEPT !.stale = TRUE]
    OBVIOUS
  <2>4. /\ o \in WorkStates /\ o.stale = TRUE /\ o.pc = work[v].pc
        /\ work[v].pc \in {"readTo", "move"} => o.from = work[v].from /\ o.symbol = work[v].symbol
    BY <2>2, <2>3, OutdatedRecord
  <2> QED
    BY <2>1, <2>2, <2>3, <2>4 DEF FromHome
<1>11. work' \in [Workers -> WorkStates]
  <2>1. work' = [v \in Workers |-> work'[v]]
    BY <1>6 DEF Outdated
  <2> QED
    BY <1>10, <2>1
<1>12. revert' \in RevertStates /\ revert'.pc = "idle"
  BY <1>6 DEF NotAtWork, RevertStates
<1>13. ASSUME ~overtaken' PROVE \A u \in TunedSymbols : one[u] + two[u] = 1
  <2>1. r.from = tuned[b].home /\ r.to = tuned[Sibling(b)].home /\ r.to[s] > 0
    BY <1>1, <1>9, <1>13 DEF UpToDate, ToHome
  <2>2. \A u \in TunedSymbols : r.from[u] + r.to[u] = 1
    BY <1>2, <1>9, <1>13, <2>1, ListsAdd DEF TuneInv
  <2>3. ASSUME NEW u \in TunedSymbols PROVE one[u] + two[u] = 1
    <3>1. r.from[u] \in Nat /\ r.to[u] \in Nat /\ r.from[u] + r.to[u] = 1
      BY <1>2, <2>2 DEF Homes
    <3>2. CASE u = s
      BY <1>2, <1>3, <1>4, <2>1, <3>1, <3>2 DEF Homes
    <3>3. CASE u # s
      BY <1>2, <1>3, <1>4, <3>1, <3>3 DEF Homes
    <3> QED
      BY <3>2, <3>3
  <2> QED
    BY <2>3
<1>14. \A gain \in gains' : gain \in MinImprovement..MaxSpread
  BY <1>6 DEF TuneInv
<1> HIDE DEF r, b, s
<1> QED
  BY <1>2, <1>5, <1>6, <1>9, <1>10, <1>11, <1>12, <1>13, <1>14, CommitStep

(* Traders' steps.                                                         *)
LEMMA TradersKeep ==
  ASSUME TuneInv,
         \/ \E b \in Zones :
              \/ RevertReads(b)
              \/ \E m \in {"basic", "intelligent"} : SetTuningMode(b, m)
              \/ \E s \in TunedSymbols : Opens(b, s) \/ \E outcome \in {"closed", "cancelled"} : TradeEnds(b, s, outcome)
              \/ \E w \in Workers : KillSwitch(w, b)
         \/ RevertMove
  PROVE  TuneInv'
<1>1. ASSUME NEW b \in Zones, NEW m \in {"basic", "intelligent"}, tuned' = [tuned EXCEPT ![b].mode = m],
             UNCHANGED <<trail, work, revert, overtaken, gains>>
      PROVE  TuneInv'
  <2>1. tuned' \in [Zones -> [mode : {"basic", "intelligent"}, home : Homes]]
    BY <1>1 DEF TuneInv, TuneTyped
  <2>2. \A c \in Zones : tuned'[c].home = tuned[c].home
    BY <1>1 DEF TuneInv, TuneTyped
  <2>3. TuneTyped'
    BY <1>1, <2>1 DEF TuneInv, TuneTyped
  <2>4. \A r \in WorkStates \cup RevertStates : r.pc \in {"readTo", "move"} => r.bot \in Zones
    BY WorkKinds, RevertKinds
  <2>5. \A r \in WorkStates \cup RevertStates : UpToDate(r) => UpToDate(r)'
    BY <2>2, <2>4, Siblings DEF UpToDate
  <2>6. ASSUME NEW w \in Workers PROVE UpToDate(work[w])'
    BY <1>1, <2>5 DEF TuneInv, TuneTyped, UpToDate
  <2>7. UpToDate(revert)'
    BY <1>1, <2>5 DEF TuneInv, TuneTyped, UpToDate
  <2>8. InOneList => InOneList'
    BY <2>2 DEF InOneList, Zones
  <2> QED
    BY <1>1, <2>3, <2>6, <2>7, <2>8 DEF TuneInv, FromHome, ToHome
<1>2. ASSUME NEW n \in RevertStates, revert' = n, UpToDate(n), ToHome(n),
             UNCHANGED <<tuned, trail, work, overtaken, gains>>
      PROVE  TuneInv'
  BY <1>2 DEF TuneInv, TuneTyped, UpToDate, FromHome, ToHome, InOneList
<1>3. ASSUME NEW b \in Zones, RevertReads(b) PROVE TuneInv'
  <2>1. trail[b] \in AuditRows /\ trail[b].kind = "move"
    BY <1>3 DEF RevertReads, TuneInv, TuneTyped
  <2>2. trail[b].symbol \in TunedSymbols
    BY <2>1 DEF AuditRows
  <2>3. tuned[b].home \in Homes
    BY HomesAreLists
  <2>4. PICK n : n = [pc |-> "readTo", stale |-> FALSE, bot |-> b, symbol |-> trail[b].symbol, from |-> tuned[b].home]
    OBVIOUS
  <2>5. revert' = n
    BY <1>3, <2>4 DEF RevertReads
  <2>6. n \in RevertStates
    BY <2>2, <2>3, <2>4 DEF RevertStates
  <2>7. UpToDate(n) /\ ToHome(n)
    BY <2>4 DEF UpToDate, ToHome
  <2> QED
    BY <1>2, <1>3, <2>5, <2>6, <2>7 DEF RevertReads
<1>4. CASE RevertMove
  <2>1. revert \in RevertStates /\ UpToDate(revert) /\ revert.pc = "readTo"
    BY <1>4 DEF RevertMove, TuneInv, TuneTyped
  <2>2. revert.bot \in Zones /\ revert.symbol \in TunedSymbols /\ revert.from \in Homes /\ revert.stale \in BOOLEAN
    BY <2>1, RevertKinds
  <2>3. PICK to : to = tuned[Sibling(revert.bot)].home
    OBVIOUS
  <2>4. to \in Homes
    BY <2>2, <2>3, HomesAreLists, Siblings
  <2>5. CASE Revertible(to, revert.symbol)
    <3>1. PICK n : n = [pc |-> "move", stale |-> revert.stale, bot |-> revert.bot, symbol |-> revert.symbol,
                        from |-> revert.from, to |-> to]
      OBVIOUS
    <3>2. revert' = n
      BY <1>4, <2>3, <2>5, <3>1 DEF RevertMove
    <3>3. n \in RevertStates
      BY <2>2, <2>4, <3>1 DEF RevertStates
    <3>4. UpToDate(n) /\ ToHome(n)
      BY <2>1, <2>3, <2>5, <3>1 DEF UpToDate, ToHome, Revertible
    <3> QED
      BY <1>2, <1>4, <3>2, <3>3, <3>4 DEF RevertMove
  <2>6. CASE ~Revertible(to, revert.symbol)
    <3>1. revert' = NotAtWork
      BY <1>4, <2>3, <2>6 DEF RevertMove
    <3>2. NotAtWork \in RevertStates /\ UpToDate(NotAtWork) /\ ToHome(NotAtWork)
      BY DEF NotAtWork, RevertStates, UpToDate, ToHome
    <3> QED
      BY <1>2, <1>4, <3>1, <3>2 DEF RevertMove
  <2> QED
    BY <2>5, <2>6
<1>5. ASSUME NEW b \in Zones, NEW m \in {"basic", "intelligent"}, SetTuningMode(b, m) PROVE TuneInv'
  BY <1>1, <1>5 DEF SetTuningMode
<1>6. ASSUME NEW b \in Zones, NEW w \in Workers, KillSwitch(w, b) PROVE TuneInv'
  BY <1>1, <1>6 DEF KillSwitch
<1>7. ASSUME UNCHANGED <<tuned, trail, work, revert, overtaken, gains>> PROVE TuneInv'
  BY <1>7 DEF TuneInv, TuneTyped, UpToDate, FromHome, ToHome, InOneList
<1>8. ASSUME NEW b \in Zones, NEW s \in TunedSymbols,
             Opens(b, s) \/ \E outcome \in {"closed", "cancelled"} : TradeEnds(b, s, outcome)
      PROVE  TuneInv'
  BY <1>7, <1>8 DEF Opens, TradeEnds
<1> QED
  BY <1>3, <1>4, <1>5, <1>6, <1>8

LEMMA TuneSteps == TuneInv /\ [TuneNext]_tuneVars => TuneInv'
<1> SUFFICES ASSUME TuneInv, [TuneNext]_tuneVars PROVE TuneInv'
  OBVIOUS
<1>1. CASE UNCHANGED tuneVars
  BY <1>1 DEF tuneVars, TuneInv, TuneTyped, UpToDate, FromHome, ToHome, InOneList
<1> QED
  BY <1>1, TradersKeep, WorkersKeep, MoveStep, RevertStep DEF TuneNext

(* Workers and reverts change bots only for gains within the bounds, and   *)
(* keep a symbol with one of the siblings unless a commit overtook a read. *)
THEOREM TuningKeepsLists == TuneSpec => []TuningIsSound
<1>1. TuneInv => TuningIsSound
  BY DEF TuneInv, TuningIsSound, InOneList
<1> QED
  BY <1>1, TuneStarts, TuneSteps, PTL DEF TuneSpec

-----------------------------------------------------------------------------
(* The candles: a download by pages reaches back without a hole, whichever *)
(* way a server answers.                                                   *)

(* A set of numbers that is not empty has a least one, and below a bound a *)
(* greatest one.                                                           *)
LEMMA Least == ASSUME NEW S \in SUBSET Nat, S # {} PROVE \E n \in S : \A m \in S : n <= m
<1>1. IsWellFoundedOn(OpToRel(<, Nat), Nat)
  BY NatLessThanWellFounded
<1>2. PICK R : R = {ss \in Nat \X Nat : ss[1] < ss[2]}
  OBVIOUS
<1>3. R = OpToRel(<, Nat)
  BY <1>2 DEF OpToRel
<1>4. IsWellFoundedOn(R, Nat)
  BY <1>1, <1>3
<1> HIDE <1>2
<1>5. S \subseteq Nat
  OBVIOUS
<1>6. \E x \in S : \A y \in S : ~(<<y, x>> \in R)
  BY <1>4, <1>5, WFMin, Zenon
<1>7. PICK n \in S : \A m \in S : ~(<<m, n>> \in R)
  BY <1>6
<1>8. \A m \in S : ~(m < n)
  BY <1>2, <1>5, <1>7
<1> QED
  BY <1>5, <1>8

LEMMA TopIsHighest ==
  ASSUME NEW N \in Nat, NEW S \in SUBSET (1..N), S # {}
  PROVE  Top(S) \in S /\ \A u \in S : u <= Top(S)
<1>1. PICK U : U = {n \in Nat : \A u \in S : u <= n}
  OBVIOUS
<1>2. N \in U /\ U \in SUBSET Nat
  BY <1>1
<1>3. PICK top \in U : \A n \in U : top <= n
  BY <1>2, Least
<1>4. top \in S
  <2> SUFFICES ASSUME top \notin S PROVE FALSE
    OBVIOUS
  <2>1. \A u \in S : u <= top /\ u # top /\ u \in 1..N
    BY <1>1
  <2>2. PICK u \in S : u \in 1..N
    OBVIOUS
  <2>3. top - 1 \in Nat
    BY <1>1, <2>1, <2>2
  <2>4. top - 1 \in U
    BY <1>1, <2>1, <2>3
  <2> QED
    BY <1>1, <1>3, <2>3, <2>4
<1>5. \E t \in S : \A u \in S : u <= t
  BY <1>1, <1>4
<1> QED
  BY <1>5 DEF Top

(* A caller's walk: below its cursor nothing is missing that had printed,  *)
(* and what prints later comes after what it has.                          *)
CallStates ==
  [pc : {"idle"}]
    \cup [pc : {"pick", "inFlight", "sent", "failed", "fetched", "served", "noData"}, route : 1..3, tries : 0..2,
          via : {"proxy", "backup", "direct"}, start : 1..Newest, window : 1..Newest, end : 1..Newest,
          cursor : Nat, got : SUBSET (1..Newest), pages : Nat]
Going(k) == k.pc \in {"pick", "inFlight", "sent"}
Over(k) == k.pc \in {"fetched", "served", "noData"}
EveryPageBrings(k) ==
  /\ k.pages <= Cardinality(k.got) + 1
  /\ ~Over(k) => k.pages <= Cardinality(k.got)
NoHole(k) == \A u \in k.got : \A t \in printed : k.start <= t /\ t <= u => t \in k.got
NothingMissed(k) ==
  /\ \A t \in printed : k.start <= t /\ t < k.cursor => t \in k.got
  /\ \A u \in k.got : u < k.cursor
  /\ k.cursor > k.start => \E p \in printed : k.cursor <= p + 1
CallSound(k) ==
  k.pc # "idle" => /\ k.got \subseteq printed /\ EveryPageBrings(k)
                   /\ server # "static" => NoHole(k) /\ (Going(k) => NothingMissed(k))
                   /\ k.pc = "served" => \E t \in Kept(k) : t >= k.window
FeedInv ==
  /\ printed \in SUBSET (1..Newest) /\ printed # {} /\ server \in {"from", "window", "static"}
  /\ setRoute \in {"proxy", "backup", "direct"}
  /\ call \in [Callers -> CallStates] /\ \A c \in Callers : CallSound(call[c])

LEMMA FeedStarts == FeedInit => FeedInv
<1> SUFFICES ASSUME FeedInit PROVE FeedInv
  OBVIOUS
<1>1. NoCall \in CallStates /\ NoCall.pc = "idle"
  BY DEF NoCall, CallStates
<1> QED
  BY <1>1, FeedBounds DEF FeedInit, FeedInv, CallSound

LEMMA Calls ==
  ASSUME NEW k \in CallStates, k.pc # "idle"
  PROVE  /\ k.route \in 1..3 /\ k.tries \in 0..2 /\ k.start \in 1..Newest /\ k.cursor \in Nat /\ k.pages \in Nat
         /\ k.got \in SUBSET (1..Newest) /\ k.window \in 1..Newest /\ k.end \in 1..Newest
         /\ k.via \in {"proxy", "backup", "direct"}
         /\ k.pc \in {"pick", "inFlight", "sent", "failed", "fetched", "served", "noData"}
BY DEF CallStates

LEMMA CountedCandles == ASSUME NEW S \in SUBSET (1..Newest) PROVE IsFiniteSet(S) /\ Cardinality(S) \in Nat
<1>1. Newest \in Int /\ 1 \in Int
  BY FeedBounds
<1>2. IsFiniteSet(1..Newest)
  BY <1>1, FS_Interval
<1>3. IsFiniteSet(S)
  BY <1>2, FS_Subset
<1> QED
  BY <1>3, FS_CardinalityType

(* A step of one call; nothing prints.                                     *)
LEMMA CallStep ==
  ASSUME FeedInv, NEW c \in Callers, NEW n \in CallStates, CallSound(n), call' = [call EXCEPT ![c] = n],
         printed' = printed, server' = server, setRoute' \in {"proxy", "backup", "direct"}
  PROVE  FeedInv'
<1>1. \A d \in Callers : call'[d] = IF d = c THEN n ELSE call[d]
  BY DEF FeedInv
<1>2. \A d \in Callers : CallSound(call[d])' = CallSound(call'[d])
  BY DEF CallSound, EveryPageBrings, NoHole, NothingMissed, Kept, Going, Over
<1>3. call' \in [Callers -> CallStates]
  BY DEF FeedInv
<1> QED
  BY <1>1, <1>2, <1>3 DEF FeedInv

(* A step that neither moves the cursor nor ends the walk in success.      *)
LEMMA WalkStep ==
  ASSUME FeedInv, NEW c \in Callers, Going(call[c]), NEW n \in CallStates,
         n.pc \in {"pick", "inFlight", "sent", "failed"}, n.start = call[c].start, n.cursor = call[c].cursor,
         n.got = call[c].got, n.pages = call[c].pages, call' = [call EXCEPT ![c] = n],
         printed' = printed, server' = server, setRoute' \in {"proxy", "backup", "direct"}
  PROVE  FeedInv'
<1>1. CallSound(call[c]) /\ call[c].pc # "idle" /\ ~Over(call[c]) /\ ~Over(n)
  BY DEF FeedInv, Going, Over
<1>2. CallSound(n)
  BY <1>1 DEF CallSound, EveryPageBrings, NoHole, NothingMissed, Going
<1> QED
  BY <1>2, CallStep

LEMMA CandlesAreNumbers == ASSUME FeedInv PROVE \A u \in printed : u \in Nat
BY FeedBounds DEF FeedInv

LEMMA PrintStep == ASSUME FeedInv, CandlePrints PROVE FeedInv'
<1>1. PICK t \in 1..Newest : t > Top(printed) /\ printed' = printed \cup {t}
  BY DEF CandlePrints
<1>2. Top(printed) \in printed /\ \A u \in printed : u <= Top(printed)
  <2>1. Newest \in Nat /\ printed \in SUBSET (1..Newest) /\ printed # {}
    BY FeedBounds DEF FeedInv
  <2> QED
    BY <2>1, TopIsHighest
<1>3. \A u \in printed : u < t
  BY <1>1, <1>2, CandlesAreNumbers
<1>4. server' = server /\ call' = call /\ setRoute' = setRoute
  BY DEF CandlePrints
<1>5. ASSUME NEW c \in Callers PROVE CallSound(call[c])'
  <2> DEFINE k == call[c]
  <2>1. CASE k.pc = "idle"
    BY <1>4, <2>1 DEF CallSound
  <2>2. CASE k.pc # "idle"
    <3>1. k \in CallStates /\ CallSound(k)
      BY DEF FeedInv
    <3>2. /\ k.start \in 1..Newest /\ k.cursor \in Nat /\ k.got \in SUBSET (1..Newest) /\ k.got \subseteq printed
          /\ EveryPageBrings(k)
          /\ server # "static" => NoHole(k) /\ (Going(k) => NothingMissed(k))
          /\ k.pc = "served" => \E u \in Kept(k) : u >= k.window
      BY <2>2, <3>1, Calls DEF CallSound
    <3>3. server # "static" => NoHole(k)'
      BY <1>1, <1>3, <1>4, <3>2 DEF NoHole
    <3>4. server # "static" /\ Going(k) => NothingMissed(k)'
      <4> SUFFICES ASSUME server # "static", Going(k) PROVE NothingMissed(k)'
        OBVIOUS
      <4>1. NothingMissed(k)
        BY <3>2
      <4>2. k.start <= t => ~(t < k.cursor)
        BY <1>1, <1>3, <3>2, <4>1 DEF NothingMissed, FeedInv
      <4> QED
        BY <1>1, <1>4, <4>1, <4>2 DEF NothingMissed
    <3> QED
      BY <1>1, <1>4, <3>2, <3>3, <3>4 DEF CallSound, EveryPageBrings, Kept, Going, Over
  <2> QED
    BY <2>1, <2>2
<1> QED
  BY <1>1, <1>4, <1>5 DEF FeedInv

LEMMA RangeStep ==
  ASSUME FeedInv, NEW c \in Callers, NEW start \in 1..Newest, NEW window \in 1..Newest, NEW end \in 1..Newest,
         FetchRange(c, start, window, end)
  PROVE  FeedInv'
<1>1. PICK n : n = [pc |-> "pick", route |-> 1, tries |-> 0, via |-> "proxy", start |-> start,
                    window |-> window, end |-> end, cursor |-> start, got |-> {}, pages |-> 0]
  OBVIOUS
<1>2. n \in CallStates
  BY <1>1, FeedBounds DEF CallStates
<1>3. Cardinality({}) = 0
  BY FS_EmptySet
<1>4. n.pc = "pick" /\ n.got = {} /\ n.pages = 0 /\ n.cursor = start /\ n.start = start
  BY <1>1
<1>5. EveryPageBrings(n)
  <2>1. Cardinality(n.got) = 0
    BY <1>3, <1>4
  <2> QED
    BY <1>4, <2>1 DEF EveryPageBrings
<1>6. NoHole(n) /\ NothingMissed(n)
  BY <1>4, CandlesAreNumbers DEF NoHole, NothingMissed
<1>7. CallSound(n)
  BY <1>4, <1>5, <1>6 DEF CallSound
<1>8. call' = [call EXCEPT ![c] = n]
  BY <1>1 DEF FetchRange
<1>9. printed' = printed /\ server' = server /\ setRoute' \in {"proxy", "backup", "direct"}
  BY DEF FetchRange, FeedInv
<1> QED
  BY <1>2, <1>7, <1>8, <1>9, CallStep

(* Ways out: another route, another try, or the end of it.                 *)
LEMMA RouteSteps ==
  ASSUME FeedInv, NEW c \in Callers, PickRoute(c) \/ Send(c) \/ Unreachable(c) \/ Busy(c) \/ Rejected(c)
  PROVE  FeedInv'
<1> DEFINE k == call[c]
<1>1. k \in CallStates /\ Going(k) /\ k.pc # "idle"
  BY DEF FeedInv, PickRoute, Send, Unreachable, Busy, Rejected, Going
<1>2. /\ k.route \in 1..3 /\ k.tries \in 0..2 /\ k.via \in {"proxy", "backup", "direct"}
      /\ setRoute \in {"proxy", "backup", "direct"}
  BY <1>1, Calls DEF FeedInv
<1>3. call \in [Callers -> CallStates]
  BY DEF FeedInv
<1>4. ASSUME NEW n \in CallStates, n.pc \in {"pick", "inFlight", "sent", "failed"},
             n.start = k.start, n.cursor = k.cursor, n.got = k.got, n.pages = k.pages,
             call' = [call EXCEPT ![c] = n],
             printed' = printed, server' = server, setRoute' \in {"proxy", "backup", "direct"}
      PROVE  FeedInv'
  BY <1>1, <1>4, WalkStep
<1>5. ASSUME OtherRoute(c), UNCHANGED <<printed, server, setRoute>> PROVE FeedInv'
  <2>1. CASE k.route = 3
    <3>1. PICK n : n = [k EXCEPT !.pc = "failed"]
      OBVIOUS
    <3>2. call' = [call EXCEPT ![c] = n]
      BY <1>3, <1>5, <2>1, <3>1 DEF OtherRoute
    <3>3. /\ n \in CallStates /\ n.pc \in {"pick", "inFlight", "sent", "failed"} /\ n.start = k.start
         /\ n.cursor = k.cursor /\ n.got = k.got /\ n.pages = k.pages
      BY <1>1, <1>2, <3>1 DEF CallStates
    <3> QED
      BY <1>2, <1>4, <1>5, <2>1, <3>2, <3>3
  <2>2. CASE k.route # 3
    <3>0. k.route + 1 \in 1..3 /\ 0 \in 0..2
      BY <1>2, <2>2
    <3>1. PICK n : n = [k EXCEPT !.pc = "pick", !.route = k.route + 1, !.tries = 0]
      OBVIOUS
    <3>2. call' = [call EXCEPT ![c] = n]
      BY <1>3, <1>5, <2>2, <3>1 DEF OtherRoute
    <3>3. /\ n \in CallStates /\ n.pc \in {"pick", "inFlight", "sent", "failed"} /\ n.start = k.start
         /\ n.cursor = k.cursor /\ n.got = k.got /\ n.pages = k.pages
      BY <1>1, <1>2, <3>0, <3>1 DEF CallStates
    <3> QED
      BY <1>2, <1>4, <1>5, <2>2, <3>2, <3>3
  <2> QED
    BY <2>1, <2>2
<1>6. CASE PickRoute(c)
  <2>0. Routes[k.route] \in {"proxy", "backup", "direct"}
    BY <1>2 DEF Routes
  <2>1. PICK n : n = [k EXCEPT !.pc = "inFlight"]
    OBVIOUS
  <2>2. call' = [call EXCEPT ![c] = n]
    BY <1>3, <1>6, <2>1 DEF PickRoute
  <2>3. /\ n \in CallStates /\ n.pc \in {"pick", "inFlight", "sent", "failed"} /\ n.start = k.start
       /\ n.cursor = k.cursor /\ n.got = k.got /\ n.pages = k.pages
    BY <1>1, <1>2, <2>1 DEF CallStates
  <2> QED
    BY <1>2, <1>4, <1>6, <2>2, <2>3, <2>0 DEF PickRoute
<1>7. CASE Send(c)
  <2>1. PICK n : n = [k EXCEPT !.pc = "sent", !.via = setRoute]
    OBVIOUS
  <2>2. call' = [call EXCEPT ![c] = n]
    BY <1>3, <1>7, <2>1 DEF Send
  <2>3. /\ n \in CallStates /\ n.pc \in {"pick", "inFlight", "sent", "failed"} /\ n.start = k.start
       /\ n.cursor = k.cursor /\ n.got = k.got /\ n.pages = k.pages
    BY <1>1, <1>2, <2>1 DEF CallStates
  <2> QED
    BY <1>2, <1>4, <1>7, <2>2, <2>3 DEF Send
<1>8. CASE Unreachable(c)
  BY <1>5, <1>8 DEF Unreachable
<1>9. CASE Busy(c)
  <2>1. CASE k.tries < 2
    <3>0. k.tries + 1 \in 0..2
      BY <1>2, <2>1
    <3>1. PICK n : n = [k EXCEPT !.pc = "inFlight", !.tries = k.tries + 1]
      OBVIOUS
    <3>2. call' = [call EXCEPT ![c] = n]
      BY <1>3, <1>9, <2>1, <3>1 DEF Busy
    <3>3. /\ n \in CallStates /\ n.pc \in {"pick", "inFlight", "sent", "failed"} /\ n.start = k.start
         /\ n.cursor = k.cursor /\ n.got = k.got /\ n.pages = k.pages
      BY <1>1, <1>2, <3>0, <3>1 DEF CallStates
    <3> QED
      BY <1>2, <1>4, <1>9, <2>1, <3>2, <3>3 DEF Busy
  <2>2. CASE ~(k.tries < 2)
    BY <1>5, <1>9, <2>2 DEF Busy
  <2> QED
    BY <2>1, <2>2
<1>10. CASE Rejected(c)
  <2>1. PICK n : n = [k EXCEPT !.pc = "failed"]
    OBVIOUS
  <2>2. call' = [call EXCEPT ![c] = n]
    BY <1>3, <1>10, <2>1 DEF Rejected
  <2>3. /\ n \in CallStates /\ n.pc \in {"pick", "inFlight", "sent", "failed"} /\ n.start = k.start
       /\ n.cursor = k.cursor /\ n.got = k.got /\ n.pages = k.pages
    BY <1>1, <1>2, <2>1 DEF CallStates
  <2> QED
    BY <1>2, <1>4, <1>10, <2>2, <2>3 DEF Rejected
<1> QED
  BY <1>6, <1>7, <1>8, <1>9, <1>10

LEMMA DeliverStep == ASSUME FeedInv, NEW c \in Callers, Deliver(c) PROVE FeedInv'
<1> DEFINE k == call[c]
           there == \E t \in Kept(k) : t >= k.window
<1>1. k \in CallStates /\ CallSound(k) /\ k.pc = "fetched"
  BY DEF FeedInv, Deliver
<1>2. PICK n : n = [k EXCEPT !.pc = IF there THEN "served" ELSE "noData"]
  OBVIOUS
<1>3. call' = [call EXCEPT ![c] = n]
  BY <1>2 DEF Deliver, FeedInv
<1>4. /\ n \in CallStates /\ n.pc \in {"served", "noData"} /\ (n.pc = "served" => there)
      /\ n.got = k.got /\ n.pages = k.pages /\ n.start = k.start /\ n.end = k.end /\ n.window = k.window
  BY <1>1, <1>2 DEF CallStates
<1> HIDE DEF there
<1>5. CallSound(n)
  BY <1>1, <1>4 DEF CallSound, EveryPageBrings, NoHole, Kept, Going, Over, there
<1> QED
  BY <1>3, <1>4, <1>5, CallStep DEF Deliver, FeedInv

(* A page that is answered from the time asked for has no hole.            *)
LEMMA AnswerSound ==
  ASSUME FeedInv, NEW cursor \in Nat
  PROVE  /\ Answer(cursor) \subseteq printed
         /\ server # "static" => \A t \in Answer(cursor) :
              t >= cursor /\ \A u \in printed : cursor <= u /\ u <= t => u \in Answer(cursor)
<1>1. CASE server = "window"
  <2>1. Answer(cursor) = {t \in printed : t >= cursor /\ t < cursor + PageSize}
    BY <1>1 DEF Answer
  <2> QED
    BY <2>1, CandlesAreNumbers, FeedBounds
<1>2. CASE server = "from"
  <2> DEFINE earlier(t) == {u \in printed : u >= cursor /\ u < t}
  <2>1. Answer(cursor) = {t \in printed : t >= cursor /\ Cardinality(earlier(t)) < PageSize}
    BY <1>2 DEF Answer
  <2>2. ASSUME NEW t \in printed, NEW u \in printed, u <= t PROVE Cardinality(earlier(u)) <= Cardinality(earlier(t))
    <3>1. earlier(t) \in SUBSET (1..Newest)
      BY DEF FeedInv
    <3>2. \A v \in earlier(u) : v \in earlier(t)
      BY <2>2, CandlesAreNumbers
    <3>3. IsFiniteSet(earlier(t)) /\ earlier(u) \in SUBSET earlier(t)
      BY <3>1, <3>2, CountedCandles
    <3> HIDE DEF earlier
    <3> QED
      BY <3>3, FS_Subset
  <2>3. \A t \in printed : Cardinality(earlier(t)) \in Nat
    BY CountedCandles DEF FeedInv
  <2> HIDE DEF earlier
  <2>4. \A t \in Answer(cursor) :
          t >= cursor /\ \A u \in printed : cursor <= u /\ u <= t => u \in Answer(cursor)
    BY <2>1, <2>2, <2>3, CandlesAreNumbers, FeedBounds
  <2> QED
    BY <2>1, <2>4
<1>3. CASE server = "static"
  BY <1>3 DEF Answer
<1> QED
  BY <1>1, <1>2, <1>3 DEF FeedInv

(* A page that is not the last brings a candle the walk did not have.      *)
LEMMA MoreCandles ==
  ASSUME NEW S \in SUBSET (1..Newest), NEW more \in SUBSET (1..Newest), ~(more \subseteq S)
  PROVE  Cardinality(S) + 1 <= Cardinality(S \cup more)
<1>1. PICK t \in more : t \notin S
  OBVIOUS
<1>2. IsFiniteSet(S) /\ Cardinality(S) \in Nat
  BY CountedCandles
<1>3. Cardinality(S \cup {t}) = Cardinality(S) + 1
  BY <1>1, <1>2, FS_AddElement
<1>4. S \cup more \in SUBSET (1..Newest) /\ S \cup {t} \in SUBSET (S \cup more)
  BY <1>1
<1>5. IsFiniteSet(S \cup more)
  BY <1>4, CountedCandles
<1>6. Cardinality(S \cup {t}) <= Cardinality(S \cup more)
  BY <1>4, <1>5, FS_Subset
<1> QED
  BY <1>3, <1>6

LEMMA PageStep == ASSUME FeedInv, NEW c \in Callers, Page(c) PROVE FeedInv'
<1> DEFINE k == call[c]
<1>1. k \in CallStates /\ CallSound(k) /\ k.pc = "sent" /\ Going(k) /\ ~Over(k)
  BY DEF FeedInv, Page, Going, Over
<1>2. /\ k.start \in 1..Newest /\ k.cursor \in Nat /\ k.pages \in Nat /\ k.got \in SUBSET (1..Newest)
      /\ k.end \in 1..Newest /\ k.pages + 1 \in Nat
  BY <1>1, Calls
<1>3. PICK page : page = Answer(k.cursor)
  OBVIOUS
<1>4. page \in SUBSET (1..Newest) /\ page \subseteq printed
  BY <1>2, <1>3, AnswerSound DEF FeedInv
<1>5. server # "static" => \A t \in page : t >= k.cursor /\ \A u \in printed : k.cursor <= u /\ u <= t => u \in page
  BY <1>2, <1>3, AnswerSound
<1>6. k.got \subseteq printed /\ EveryPageBrings(k) /\ (server # "static" => NoHole(k) /\ NothingMissed(k))
  BY <1>1 DEF CallSound
<1>7. Cardinality(k.got) \in Nat
  BY <1>2, CountedCandles
<1>8. UNCHANGED <<printed, server, setRoute>> /\ setRoute' \in {"proxy", "backup", "direct"}
  BY DEF Page, FeedInv
<1>9. CASE page = {} \/ (page \subseteq k.got /\ Stalled(k.got, page, k.cursor))
  <2>1. PICK n : n = [k EXCEPT !.pc = "fetched", !.pages = k.pages + 1]
    OBVIOUS
  <2>2. call' = [call EXCEPT ![c] = n]
    BY <1>3, <1>9, <2>1 DEF Page
  <2>3. n \in CallStates /\ n.pc = "fetched" /\ n.start = k.start /\ n.got = k.got /\ n.pages = k.pages + 1
    BY <1>1, <1>2, <2>1 DEF CallStates
  <2>4. EveryPageBrings(n)
    BY <1>1, <1>2, <1>6, <1>7, <2>3 DEF EveryPageBrings, Over
  <2>5. CallSound(n)
    BY <1>6, <2>3, <2>4 DEF CallSound, NoHole, Going
  <2> QED
    BY <1>8, <2>2, <2>3, <2>5, CallStep
<1>10. CASE ~(page = {} \/ (page \subseteq k.got /\ Stalled(k.got, page, k.cursor)))
  <2>1. page # {} /\ ~(page \subseteq k.got)
    BY <1>10 DEF Stalled
  <2>2. PICK got : got = k.got \cup page
    OBVIOUS
  <2>3. got \in SUBSET (1..Newest) /\ got \subseteq printed
    BY <1>2, <1>4, <1>6, <2>2
  <2>4. Cardinality(k.got) + 1 <= Cardinality(got) /\ Cardinality(got) \in Nat
    BY <1>2, <1>4, <2>1, <2>2, <2>3, MoreCandles, CountedCandles
  <2>5. k.pages + 1 <= Cardinality(got)
    BY <1>1, <1>2, <1>6, <1>7, <2>4 DEF EveryPageBrings
  <2>6. Top(page) \in page /\ \A u \in page : u <= Top(page)
    BY <1>4, <2>1, TopIsHighest, FeedBounds
  <2>7. Top(page) \in Nat /\ NextCursor(page) = Top(page) + 1 /\ \A t \in printed : t \in Nat
    BY <1>4, <2>6, CandlesAreNumbers DEF NextCursor
  <2>8. ASSUME server # "static", NEW u \in got, NEW t \in printed, k.start <= t, t <= u PROVE t \in got
    <3>1. NoHole(k) /\ NothingMissed(k)
      BY <1>6, <2>8
    <3>2. CASE u \in k.got
      BY <2>2, <2>8, <3>1, <3>2 DEF NoHole
    <3>3. CASE u \in page /\ t < k.cursor
      BY <2>2, <2>8, <3>1, <3>3 DEF NothingMissed
    <3>4. CASE u \in page /\ ~(t < k.cursor)
      BY <1>2, <1>5, <2>2, <2>7, <2>8, <3>4
    <3> QED
      BY <2>2, <3>2, <3>3, <3>4
  <2>9. CASE Stalled(k.got, page, k.cursor) \/ NextCursor(page) >= k.end
    <3>0. PICK m : m = [k EXCEPT !.got = got, !.pages = k.pages + 1, !.route = 1, !.tries = 0]
      OBVIOUS
    <3>1. PICK n : n = [m EXCEPT !.pc = "fetched"]
      OBVIOUS
    <3>2. call' = [call EXCEPT ![c] = n]
      BY <1>3, <1>10, <2>2, <2>9, <3>0, <3>1 DEF Page
    <3>3. 1 \in 1..3 /\ 0 \in 0..2
      OBVIOUS
    <3>4. n \in CallStates /\ n.pc = "fetched" /\ n.start = k.start /\ n.got = got /\ n.pages = k.pages + 1
      <4>1. /\ m \in CallStates /\ m.pc = "sent" /\ m.start = k.start /\ m.got = got /\ m.pages = k.pages + 1
            /\ m.cursor = k.cursor
        BY <1>1, <1>2, <2>3, <3>0, <3>3 DEF CallStates
      <4> QED
        BY <3>1, <3>3, <4>1 DEF CallStates
    <3>5. EveryPageBrings(n)
      BY <1>2, <2>4, <2>5, <3>4 DEF EveryPageBrings
    <3>6. server # "static" => NoHole(n)
      BY <2>8, <3>4 DEF NoHole
    <3>7. CallSound(n)
      BY <2>3, <3>4, <3>5, <3>6 DEF CallSound, Going
    <3> QED
      BY <1>8, <3>2, <3>4, <3>7, CallStep
  <2>10. CASE ~(Stalled(k.got, page, k.cursor) \/ NextCursor(page) >= k.end)
    <3>0. PICK m : m = [k EXCEPT !.got = got, !.pages = k.pages + 1, !.route = 1, !.tries = 0]
      OBVIOUS
    <3>1. PICK n : n = [m EXCEPT !.pc = "pick", !.cursor = NextCursor(page)]
      OBVIOUS
    <3>2. call' = [call EXCEPT ![c] = n]
      BY <1>3, <1>10, <2>2, <2>10, <3>0, <3>1 DEF Page
    <3>3. 1 \in 1..3 /\ 0 \in 0..2 /\ NextCursor(page) \in Nat
      BY <2>7
    <3>4. /\ n \in CallStates /\ n.pc = "pick" /\ n.start = k.start /\ n.got = got /\ n.pages = k.pages + 1
          /\ n.cursor = Top(page) + 1
      <4>1. /\ m \in CallStates /\ m.pc = "sent" /\ m.start = k.start /\ m.got = got /\ m.pages = k.pages + 1
            /\ m.cursor = k.cursor
        BY <1>1, <1>2, <2>3, <3>0, <3>3 DEF CallStates
      <4> QED
        BY <3>1, <3>3, <4>1, <2>7 DEF CallStates
    <3>5. EveryPageBrings(n)
      BY <1>2, <2>4, <2>5, <3>4 DEF EveryPageBrings
    <3>6. server # "static" => NoHole(n)
      BY <2>8, <3>4 DEF NoHole
    <3>7. ASSUME server # "static" PROVE NothingMissed(n)
      <4>1. NothingMissed(k) /\ Top(page) >= k.cursor
        BY <1>5, <1>6, <2>6, <3>7
      <4>2. \A t \in printed : n.start <= t /\ t < n.cursor => t \in n.got
        <5> SUFFICES ASSUME NEW t \in printed, k.start <= t, t < Top(page) + 1 PROVE t \in got
          BY <3>4
        <5>1. t <= Top(page)
          BY <2>7
        <5> QED
          BY <2>2, <2>6, <2>8, <3>7, <5>1
      <4>3. \A u \in n.got : u < n.cursor
        <5> SUFFICES ASSUME NEW u \in got PROVE u < Top(page) + 1
          BY <3>4
        <5>1. u \in Nat
          BY <2>3, <2>7
        <5>2. CASE u \in k.got
          <6>1. u < k.cursor
            BY <4>1, <5>2 DEF NothingMissed
          <6> QED
            BY <1>2, <2>7, <4>1, <5>1, <6>1
        <5>3. CASE u \in page
          BY <2>6, <2>7, <5>1, <5>3
        <5> QED
          BY <2>2, <5>2, <5>3
      <4>4. Top(page) \in printed /\ n.cursor <= Top(page) + 1
        BY <1>4, <2>6, <2>7, <3>4
      <4> QED
        BY <4>2, <4>3, <4>4 DEF NothingMissed
    <3>8. CallSound(n)
      BY <2>3, <3>4, <3>5, <3>6, <3>7 DEF CallSound
    <3> QED
      BY <1>8, <3>2, <3>4, <3>8, CallStep
  <2> QED
    BY <2>9, <2>10
<1> QED
  BY <1>9, <1>10

LEMMA FeedSteps == FeedInv /\ [FeedNext]_feedVars => FeedInv'
<1> SUFFICES ASSUME FeedInv, [FeedNext]_feedVars PROVE FeedInv'
  OBVIOUS
<1>1. CASE UNCHANGED feedVars
  BY <1>1 DEF feedVars, FeedInv, CallSound, EveryPageBrings, NoHole, NothingMissed, Kept, Going, Over
<1> QED
  BY <1>1, PrintStep, RouteSteps, PageStep, DeliverStep, RangeStep DEF FeedNext

LEMMA FeedSound == FeedInv => RangeHasNoHole
<1> SUFFICES ASSUME FeedInv, NEW c \in Callers, call[c].pc # "idle"
             PROVE  /\ call[c].pc = "served" /\ server # "static" =>
                         \A t \in printed : call[c].start <= t /\ t <= Top(Kept(call[c])) => t \in call[c].got
                    /\ call[c].pages <= Cardinality(printed) + 1
  BY DEF RangeHasNoHole
<1> DEFINE k == call[c]
<1>1. k \in CallStates /\ CallSound(k)
  BY DEF FeedInv
<1>2. k.got \in SUBSET (1..Newest) /\ k.pages \in Nat /\ k.got \subseteq printed /\ EveryPageBrings(k)
  BY <1>1, Calls DEF CallSound
<1>3. k.pages <= Cardinality(printed) + 1
  <2>1. IsFiniteSet(printed) /\ Cardinality(printed) \in Nat /\ Cardinality(k.got) \in Nat
    BY <1>2, CountedCandles DEF FeedInv
  <2>2. Cardinality(k.got) <= Cardinality(printed)
    BY <1>2, <2>1, FS_Subset
  <2> QED
    BY <1>2, <2>1, <2>2 DEF EveryPageBrings
<1>4. ASSUME k.pc = "served", server # "static", NEW t \in printed, k.start <= t, t <= Top(Kept(k))
      PROVE  t \in k.got
  <2>1. Kept(k) # {} /\ Kept(k) \in SUBSET (1..Newest) /\ Kept(k) \subseteq k.got
    BY <1>1, <1>2, <1>4 DEF CallSound, Kept
  <2>2. Top(Kept(k)) \in k.got
    BY <2>1, TopIsHighest, FeedBounds
  <2>3. NoHole(k)
    BY <1>1, <1>4 DEF CallSound
  <2> QED
    BY <1>4, <2>2, <2>3 DEF NoHole
<1> QED
  BY <1>3, <1>4

(* What a walk serves has every candle of its range up to its last one,    *)
(* and the walk ends: every page but the last brings a new candle.         *)
THEOREM FeedHasNoHole == FeedSpec => []RangeHasNoHole
BY FeedStarts, FeedSteps, FeedSound, PTL DEF FeedSpec

-----------------------------------------------------------------------------
(* The loss guard.                                                         *)

GuardedTrade == [bot : GuardedBots \cup HandTraders, symbol : Symbols, setup : Nat, by : Deciders]
ClosedTrade ==
  [bot : GuardedBots \cup HandTraders, symbol : Symbols, setup : Nat, pnl : Losings, at : Nat]

GuardTyped ==
  /\ hour \in Nat
  /\ closed \in Seq(ClosedTrade)
  /\ DOMAIN open \subseteq GuardedTrade /\ IsFiniteSet(DOMAIN open)
  /\ gate \in [Deciders -> {"ready", "bot", "pair", "setup", "insert"}]
  /\ signal \in [Deciders -> GuardedTrade \cup {Blank}]

(* A session decides on a signal of its own.                               *)
SignalsOwned ==
  \A h \in Deciders : gate[h] # "ready" =>
    /\ signal[h] \in GuardedTrade /\ signal[h].by = h
    /\ h \in Handlers => signal[h].bot \in Serves[h]
    /\ h \in HandTraders => signal[h].bot = h /\ gate[h] # "setup"

(* Of a bot and a symbol, a session has one trade open, or decides on one. *)
OneEach ==
  /\ \A t \in DOMAIN open : t.bot \in GuardedBots => open[t] = 1 /\ t.by \in Servants(t.bot)
  /\ \A t, u \in DOMAIN open :
       t.bot \in GuardedBots /\ t.bot = u.bot /\ t.symbol = u.symbol /\ t.by = u.by => t = u
  /\ \A h \in Handlers, t \in DOMAIN open :
       gate[h] # "ready" /\ t.by = h => ~(t.bot = signal[h].bot /\ t.symbol = signal[h].symbol)

ClosedInOrder ==
  \A i, j \in DOMAIN closed : i <= j => closed[i].at <= closed[j].at /\ closed[j].at <= hour

(* What is open of a bot, or past the query of its trades.                 *)
DueOfBot(b) ==
  {<<t.symbol, t.by>> : t \in {u \in DOMAIN open : u.bot = b}} \cup
  {<<signal[h].symbol, h>> : h \in {g \in Handlers : gate[g] \in {"pair", "setup", "insert"} /\ signal[g].bot = b}}
(* What bots have open on a pair, or past the query of its trades.         *)
DueOnPair(s) ==
  {<<t.bot, t.by>> : t \in {u \in DOMAIN open : u.bot \in GuardedBots /\ u.symbol = s}} \cup
  {<<signal[h].bot, h>> : h \in {g \in Handlers : gate[g] \in {"setup", "insert"} /\ signal[g].symbol = s}}
(* Who has a setup open, or past the query of its trades.                  *)
DueOfSetup(b, s, k) ==
  {t.by : t \in {u \in DOMAIN open : u.bot = b /\ u.symbol = s /\ u.setup = k}} \cup
  {h \in Handlers : gate[h] = "insert" /\ signal[h].bot = b /\ signal[h].symbol = s /\ signal[h].setup = k}

Recently(T) == \E k \in T : (\A m \in T : m <= k) /\ Age(k) <= Staleness

BotRoom(b) ==
  \A i \in OfBot(b) :
    Recently(OfBot(b)) /\ LosingRun(OfBot(b), i, Len(closed)) =>
      Cardinality(Between(OfBot(b), i, Len(closed))) + Cardinality(DueOfBot(b)) <= StreakCount - 1 + Capacity(b)
BotBounded == \A b \in GuardedBots : BotRoom(b)

Robots(I) == {k \in I : closed[k].bot \in GuardedBots}
PairRoom(s) ==
  \A i \in OnPair(s) :
    Recently(OnPair(s)) /\ LosingRun(OnPair(s), i, Len(closed)) =>
      Cardinality(Robots(Between(OnPair(s), i, Len(closed)))) + Cardinality(DueOnPair(s))
        <= StreakCount - 1 + PairCapacity
PairBounded == \A s \in Symbols : PairRoom(s)

OfBoth(b, s) == OfBot(b) \cap OnPair(s)
Alike(T, i, j) == {k \in Between(T, i, j) : closed[k].setup = closed[i].setup}
SetupRoom(b, s) ==
  \A i \in OfBoth(b, s) :
    /\ Cardinality(Between(OfBoth(b, s), i, Len(closed))) <= SameSetups
    /\ closed[i].setup # 0
    /\ \A k \in Alike(OfBoth(b, s), i, Len(closed)) : Lost(k)
    => Cardinality(Alike(OfBoth(b, s), i, Len(closed))) + Cardinality(DueOfSetup(b, s, closed[i].setup))
         <= Cardinality(Servants(b))
SetupBounded == \A b \in GuardedBots, s \in Symbols : SetupRoom(b, s)

(* No step but one through a gate makes more due.                          *)
NoMoreOfBot(b) == DueOfBot(b)' \subseteq DueOfBot(b)
NoMoreOnPair(s) == DueOnPair(s)' \subseteq DueOnPair(s)
NoMoreOfSetup(b, s) == \A k : DueOfSetup(b, s, k)' \subseteq DueOfSetup(b, s, k)
NoMoreDue ==
  /\ \A b \in GuardedBots : NoMoreOfBot(b)
  /\ \A s \in Symbols : NoMoreOnPair(s)
  /\ \A b \in GuardedBots, s \in Symbols : NoMoreOfSetup(b, s)

GuardBasics == GuardTyped /\ SignalsOwned /\ OneEach /\ ClosedInOrder

GuardInv ==
  GuardBasics /\ BotBounded /\ PairBounded /\ SetupBounded /\ BotRunsEnd /\ PairRunsEnd /\ SetupLosesOnce

(* Sets of positions.                                                      *)
LEMMA CountedPositions ==
  ASSUME NEW N \in Nat, NEW S \in SUBSET (1..N)
  PROVE  IsFiniteSet(S) /\ Cardinality(S) \in Nat
<1>1. IsFiniteSet(1..N)
  BY FS_Interval
<1>2. IsFiniteSet(S)
  BY <1>1, FS_Subset
<1> QED
  BY <1>2, FS_CardinalityType

LEMMA MaxIsHighest ==
  ASSUME NEW N \in Nat, NEW S \in SUBSET (1..N), S # {}
  PROVE  Max(S) \in S /\ \A u \in S : u <= Max(S)
<1>1. PICK n \in S : \A u \in S : u <= n
  BY TopIsHighest
<1>2. \A u \in S : n >= u
  BY <1>1
<1>3. Max(S) \in S /\ \A u \in S : Max(S) >= u
  BY <1>2 DEF Max
<1> QED
  BY <1>3

LEMMA MoreAbove ==
  ASSUME NEW N \in Nat, NEW T \in SUBSET (1..N), NEW A \in SUBSET T, NEW B \in SUBSET A
  PROVE  Cardinality(B) <= Cardinality(A) /\ Cardinality(A) \in Nat /\ Cardinality(B) \in Nat
<1>1. A \in SUBSET (1..N) /\ B \in SUBSET (1..N)
  OBVIOUS
<1>2. IsFiniteSet(A) /\ Cardinality(A) \in Nat /\ Cardinality(B) \in Nat
  BY <1>1, CountedPositions
<1> QED
  BY <1>2, FS_Subset

(* The newest of some positions reach up to the highest of them.           *)
LEMMA NewestReachTop ==
  ASSUME NEW N \in Nat, NEW T \in SUBSET (1..N), T # {}, NEW n \in Nat \ {0}
  PROVE  /\ NewestOf(T, n) \in SUBSET T /\ Max(T) \in NewestOf(T, n)
         /\ Max(NewestOf(T, n)) = Max(T)
<1>1. Max(T) \in T /\ \A u \in T : u <= Max(T)
  BY MaxIsHighest
<1>0. \A u \in T : u \in Nat
  OBVIOUS
<1>2. {j \in T : j > Max(T)} = {}
  <2>1. PICK m \in T : m = Max(T) /\ \A u \in T : u <= m
    BY <1>1
  <2>2. \A u \in T : ~(u > m)
    BY <1>0, <2>1
  <2> QED
    BY <2>1, <2>2
<1>3. Cardinality({j \in T : j > Max(T)}) < n
  BY <1>2, FS_EmptySet
<1>4. NewestOf(T, n) \in SUBSET T /\ Max(T) \in NewestOf(T, n)
  BY <1>1, <1>3 DEF NewestOf
<1>5. NewestOf(T, n) \in SUBSET (1..N) /\ NewestOf(T, n) # {}
  BY <1>4
<1>6. Max(NewestOf(T, n)) \in NewestOf(T, n) /\ \A u \in NewestOf(T, n) : u <= Max(NewestOf(T, n))
  BY <1>5, MaxIsHighest
<1>7. Max(NewestOf(T, n)) = Max(T)
  <2>1. PICK m : m = Max(T)
    OBVIOUS
  <2>2. PICK k : k = Max(NewestOf(T, n))
    OBVIOUS
  <2>3. m \in T /\ k \in T
    BY <1>1, <1>4, <1>6, <2>1, <2>2
  <2>4. k <= m
    BY <1>1, <2>1, <2>3
  <2>5. m <= k
    BY <1>4, <1>6, <2>1, <2>2
  <2> QED
    BY <1>0, <2>1, <2>2, <2>3, <2>4, <2>5
<1> QED
  BY <1>4, <1>7

(* Where there are n of them, n are the newest.                            *)
LEMMA NewestAreEnough ==
  ASSUME NEW N \in Nat, NEW T \in SUBSET (1..N), NEW n \in Nat \ {0}, NEW m \in Nat, m <= n,
         Cardinality(T) >= m
  PROVE  Cardinality(NewestOf(T, n)) >= m
<1>1. CASE T \subseteq NewestOf(T, n)
  <2>1. NewestOf(T, n) = T
    BY <1>1 DEF NewestOf
  <2> QED
    BY <2>1
<1>2. CASE ~(T \subseteq NewestOf(T, n))
  <2>1. PICK R : R = T \ NewestOf(T, n)
    OBVIOUS
  <2>2. R \in SUBSET (1..N) /\ R # {}
    BY <1>2, <2>1
  <2>3. Max(R) \in R /\ \A u \in R : u <= Max(R)
    BY <2>2, MaxIsHighest
  <2>4. PICK A : A = {j \in T : j > Max(R)}
    OBVIOUS
  <2>5. A \in SUBSET T /\ Cardinality(A) \in Nat /\ Cardinality(A) >= n
    <3>1. A \in SUBSET (1..N)
      BY <2>4
    <3>2. Cardinality(A) \in Nat
      BY <3>1, CountedPositions
    <3>3. ~(Cardinality(A) < n)
      BY <2>1, <2>3, <2>4 DEF NewestOf
    <3> QED
      BY <2>4, <3>2, <3>3
  <2>6. A \in SUBSET NewestOf(T, n)
    <3> SUFFICES ASSUME NEW j \in A PROVE j \in NewestOf(T, n)
      OBVIOUS
    <3>1. j \in T /\ j > Max(R) /\ Max(R) \in Nat /\ j \in Nat
      <4>1. j \in T /\ j > Max(R)
        BY <2>4
      <4>2. Max(R) \in 1..N /\ j \in 1..N
        BY <2>2, <2>3, <4>1
      <4> QED
        BY <4>1, <4>2
    <3>2. j \notin R
      BY <2>3, <3>1
    <3> QED
      BY <2>1, <3>1, <3>2
  <2>7. NewestOf(T, n) \in SUBSET T
    BY DEF NewestOf
  <2>8. Cardinality(A) <= Cardinality(NewestOf(T, n)) /\ Cardinality(NewestOf(T, n)) \in Nat
    BY <2>6, <2>7, MoreAbove
  <2> QED
    BY <2>5, <2>8
<1> QED
  BY <1>1, <1>2

(* Where n of them lie from i on, the newest ones do.                      *)
LEMMA NewestAreLate ==
  ASSUME NEW N \in Nat, NEW T \in SUBSET (1..N), NEW L \in Nat, NEW n \in Nat, n <= L, NEW i \in Nat,
         Cardinality({k \in T : i <= k}) >= n, NEW k \in NewestOf(NewestOf(T, L), n)
  PROVE  k \in T /\ i <= k
<1>1. PICK R : R = NewestOf(T, L)
  OBVIOUS
<1>2. k \in R /\ Cardinality({j \in R : j > k}) < n /\ R \subseteq T
  BY <1>1 DEF NewestOf
<1>3. k \in T /\ k \in Nat
  BY <1>2
<1>4. SUFFICES ASSUME ~(i <= k) PROVE FALSE
  BY <1>3
<1>5. PICK U : U = {j \in T : i <= j}
  OBVIOUS
<1>6. U \in SUBSET T /\ Cardinality(U) >= n
  BY <1>5
<1>7. CASE U \subseteq R
  <2>1. PICK A : A = {j \in R : j > k}
    OBVIOUS
  <2>2. A \in SUBSET T /\ U \in SUBSET A
    <3>1. \A j \in T : j \in Nat
      OBVIOUS
    <3>2. \A j \in U : j > k /\ j \in R
      BY <1>3, <1>4, <1>5, <1>7, <3>1
    <3> QED
      BY <1>2, <2>1, <3>2
  <2>3. Cardinality(U) <= Cardinality(A) /\ Cardinality(A) \in Nat /\ Cardinality(U) \in Nat
    BY <2>2, MoreAbove
  <2> QED
    BY <1>2, <1>6, <2>1, <2>3
<1>8. CASE ~(U \subseteq R)
  <2>1. PICK u \in U : u \notin R
    BY <1>8
  <2>2. PICK B : B = {j \in T : j > u}
    OBVIOUS
  <2>3. PICK A : A = {j \in T : j > k}
    OBVIOUS
  <2>4. u \in T /\ u \in Nat /\ u >= i
    BY <1>5, <2>1
  <2>5. A \in SUBSET T /\ B \in SUBSET A
    <3>1. \A j \in T : j \in Nat
      OBVIOUS
    <3>2. \A j \in B : j > k /\ j \in T
      BY <1>3, <1>4, <2>2, <2>4, <3>1
    <3> QED
      BY <2>3, <3>2
  <2>6. Cardinality(B) <= Cardinality(A) /\ Cardinality(A) \in Nat /\ Cardinality(B) \in Nat
    BY <2>5, MoreAbove
  <2>7. ~(Cardinality(B) < L)
    BY <1>1, <2>1, <2>2, <2>4 DEF NewestOf
  <2>8. Cardinality(A) < L
    BY <1>1, <1>2, <2>3 DEF NewestOf
  <2> QED
    BY <2>6, <2>7, <2>8
<1> QED
  BY <1>7, <1>8

LEMMA ClosedTypes ==
  ASSUME GuardTyped
  PROVE  /\ Len(closed) \in Nat /\ DOMAIN closed = 1..Len(closed) /\ hour \in Nat
         /\ \A i \in DOMAIN closed : closed[i] \in ClosedTrade /\ closed[i].at \in Nat
<1>1. Len(closed) \in Nat /\ DOMAIN closed = 1..Len(closed) /\ hour \in Nat
  BY DEF GuardTyped
<1>2. \A i \in 1..Len(closed) : closed[i] \in ClosedTrade
  BY DEF GuardTyped
<1>3. \A t \in ClosedTrade : t.at \in Nat
  BY DEF ClosedTrade
<1> QED
  BY <1>1, <1>2, <1>3

(* A losing run of the length of the streak blocks, as long as it is fresh. *)
LEMMA StreakBlocks ==
  ASSUME GuardTyped, NEW T \in SUBSET (DOMAIN closed), NEW i \in T, Recently(T),
         \A k \in T : i <= k => Lost(k), Cardinality({k \in T : i <= k}) >= StreakCount
  PROVE  Evaluate(T)
<1>1. PICK N \in Nat : DOMAIN closed = 1..N
  <2>1. Len(closed) \in Nat /\ DOMAIN closed = 1..Len(closed)
    BY DEF GuardTyped
  <2> QED
    BY <2>1
<1>2. T \in SUBSET (1..N) /\ T # {} /\ i \in Nat
  BY <1>1
<1>3. StreakCount \in Nat \ {0} /\ Lookback \in Nat \ {0} /\ StreakCount <= Lookback
  BY GuardSettings
<1>4. PICK R : R = NewestOf(T, Lookback)
  OBVIOUS
<1>5. R \in SUBSET T /\ Max(R) = Max(T) /\ Max(T) \in R
  BY <1>2, <1>3, <1>4, NewestReachTop
<1>6. Age(Max(R)) <= Staleness
  <2>1. PICK k \in T : (\A m \in T : m <= k) /\ Age(k) <= Staleness
    BY DEF Recently
  <2>2. Max(T) \in T /\ \A u \in T : u <= Max(T)
    BY <1>2, MaxIsHighest
  <2>3. k = Max(T)
    BY <1>2, <2>1, <2>2
  <2> QED
    BY <1>5, <2>1, <2>3
<1>7. Cardinality(R) >= StreakCount
  <2>1. PICK U : U = {k \in T : i <= k}
    OBVIOUS
  <2>2. Cardinality(U) <= Cardinality(T) /\ Cardinality(T) \in Nat /\ Cardinality(U) \in Nat
    BY <1>2, <2>1, MoreAbove
  <2>3. Cardinality(T) >= StreakCount
    BY <1>3, <2>1, <2>2
  <2> QED
    BY <1>2, <1>3, <1>4, <2>3, NewestAreEnough
<1>8. \A k \in NewestOf(R, StreakCount) : Lost(k)
  BY <1>2, <1>3, <1>4, NewestAreLate
<1> QED
  BY <1>4, <1>5, <1>6, <1>7, <1>8 DEF Evaluate, OnAStreak

LEMMA RestsHeal == GuardTyped /\ ClosedInOrder => RestHeals
<1> SUFFICES ASSUME GuardTyped, ClosedInOrder, NEW T \in SUBSET (DOMAIN closed), T # {},
                    Age(Max(T)) > Staleness, Evaluate(T)
             PROVE  FALSE
  BY DEF RestHeals, OfBot, OnPair
<1>1. PICK N \in Nat : DOMAIN closed = 1..N
  <2>1. Len(closed) \in Nat /\ DOMAIN closed = 1..Len(closed)
    BY DEF GuardTyped
  <2> QED
    BY <2>1
<1>2. T \in SUBSET (1..N)
  BY <1>1
<1>3. Lookback \in Nat \ {0}
  BY GuardSettings
<1>4. PICK R : R = NewestOf(T, Lookback)
  OBVIOUS
<1>5. R \in SUBSET T /\ Max(R) = Max(T) /\ Max(T) \in R
  BY <1>2, <1>3, <1>4, NewestReachTop
<1>6. ~OnAStreak(R)
  <2>1. Max(T) \in DOMAIN closed
    BY <1>5
  <2>2. closed[Max(T)].at \in Nat /\ hour \in Nat
    BY <2>1, ClosedTypes
  <2>3. Age(Max(R)) \in Int
    BY <1>5, <2>2 DEF Age
  <2> QED
    BY <1>5, <2>3, GuardSettings DEF OnAStreak
<1>7. Recent(R) = {}
  <2> SUFFICES ASSUME NEW k \in R PROVE ~(Age(k) <= LossWindow)
    BY DEF Recent
  <2>1. k \in DOMAIN closed /\ Max(T) \in DOMAIN closed /\ k <= Max(T)
    BY <1>2, <1>5, MaxIsHighest
  <2>2. closed[k].at <= closed[Max(T)].at
    BY <2>1 DEF ClosedInOrder
  <2>3. closed[k].at \in Nat /\ closed[Max(T)].at \in Nat /\ hour \in Nat
    BY <2>1, ClosedTypes
  <2>4. hour - closed[Max(T)].at > Staleness
    BY DEF Age
  <2> QED
    BY <2>2, <2>3, <2>4, GuardSettings DEF Age
<1>8. ~Bleeding(R)
  BY <1>7 DEF Bleeding
<1> QED
  BY <1>4, <1>6, <1>8 DEF Evaluate


(* A trade leaves the bag of those open, or joins it.                      *)
LEMMA OneGoes ==
  ASSUME NEW B, NEW t \in DOMAIN B, NEW C, C = B (-) SetToBag({t})
  PROVE  /\ DOMAIN C \subseteq DOMAIN B
         /\ B[t] = 1 => t \notin DOMAIN C
         /\ \A u \in DOMAIN C : B[u] = 1 => C[u] = 1
<1> PICK D : D = [e \in DOMAIN B |-> IF e \in DOMAIN SetToBag({t}) THEN B[e] - SetToBag({t})[e] ELSE B[e]]
  OBVIOUS
<1>1. C = [e \in {d \in DOMAIN D : D[d] > 0} |-> D[e]]
  BY DEF (-)
<1>2. D = [e \in DOMAIN B |-> IF e = t THEN B[e] - 1 ELSE B[e]]
  BY DEF SetToBag
<1> QED
  BY <1>1, <1>2

LEMMA OneJoins ==
  ASSUME NEW B, NEW t, NEW C, C = B (+) SetToBag({t})
  PROVE  /\ DOMAIN C = DOMAIN B \cup {t}
         /\ \A u \in DOMAIN B \ {t} : B[u] = 1 => C[u] = 1
         /\ t \notin DOMAIN B => C[t] = 1
<1>1. C = [e \in DOMAIN B \cup {t} |-> (IF e \in DOMAIN B THEN B[e] ELSE 0) + (IF e = t THEN 1 ELSE 0)]
  BY DEF (+), SetToBag
<1> QED
  BY <1>1

(* What a function yields on a finite set is finite.                       *)
LEMMA FiniteRange ==
  ASSUME NEW f, NEW S, IsFiniteSet(S)
  PROVE  IsFiniteSet({f[x] : x \in S})
<1>1. PICK g : g = [x \in S |-> f[x]]
  OBVIOUS
<1>2. PICK T : T = {f[x] : x \in S}
  OBVIOUS
<1>3. g \in Surjection(S, T)
  BY <1>1, <1>2 DEF Surjection
<1> QED
  BY <1>2, <1>3, FS_Surjection, Zenon

LEMMA SeenSetups ==
  ASSUME GuardTyped, NEW b, NEW s
  PROVE  IsFiniteSet(Seen(b, s)) /\ Seen(b, s) \in SUBSET Nat
<1>1. PICK X : X = DOMAIN open \cup {closed[i] : i \in DOMAIN closed} \cup {signal[h] : h \in Handlers}
  OBVIOUS
<1>2. IsFiniteSet(X)
  <2>1. IsFiniteSet(DOMAIN closed)
    <3>1. Len(closed) \in Nat /\ DOMAIN closed = 1..Len(closed)
      BY ClosedTypes
    <3> QED
      BY <3>1, CountedPositions
  <2>2. IsFiniteSet({closed[i] : i \in DOMAIN closed})
    BY <2>1, FiniteRange
  <2>3. IsFiniteSet({signal[h] : h \in Handlers})
    BY FiniteRange, GuardedParties
  <2>4. IsFiniteSet(DOMAIN open)
    BY DEF GuardTyped
  <2> QED
    BY <1>1, <2>2, <2>3, <2>4, FS_Union
<1>3. \A x \in X : x.setup \in Nat
  <2>1. \A x \in DOMAIN open : x.setup \in Nat
    BY DEF GuardTyped, GuardedTrade
  <2>2. \A i \in DOMAIN closed : closed[i].setup \in Nat
    BY ClosedTypes DEF ClosedTrade
  <2>3. \A h \in Handlers : signal[h].setup \in Nat
    <3> SUFFICES ASSUME NEW h \in Handlers PROVE signal[h].setup \in Nat
      OBVIOUS
    <3>1. signal[h] \in GuardedTrade \/ signal[h] = Blank
      BY DEF GuardTyped, Deciders
    <3> QED
      BY <3>1 DEF GuardedTrade, Blank
  <2> QED
    BY <1>1, <2>1, <2>2, <2>3
<1>4. PICK Y : Y = {x \in X : x.bot = b /\ x.symbol = s}
  OBVIOUS
<1>5. IsFiniteSet(Y) /\ Y \subseteq X
  BY <1>2, <1>4, FS_Subset
<1>6. PICK f : f = [x \in Y |-> x.setup]
  OBVIOUS
<1>7. IsFiniteSet({f[x] : x \in Y})
  BY <1>5, FiniteRange
<1>8. Seen(b, s) = {f[x] : x \in Y} \ {0}
  BY <1>1, <1>4, <1>6 DEF Seen
<1>9. IsFiniteSet(Seen(b, s))
  BY <1>7, <1>8, FS_RemoveElement
<1> QED
  BY <1>3, <1>5, <1>6, <1>8, <1>9

(* A setup not seen yet is a number of its own.                            *)
LEMMA AnotherIsNew ==
  ASSUME GuardTyped, NEW b, NEW s
  PROVE  Another(b, s) \in Nat /\ Another(b, s) \notin Seen(b, s)
<1>1. PICK S : S = Seen(b, s)
  OBVIOUS
<1>2. IsFiniteSet(S)
  BY <1>1, SeenSetups
<1>3. PICK n \in Nat : n = Cardinality(S)
  BY <1>2, FS_CardinalityType
<1>4. \E k \in 1..(n + 1) : k \notin S
  <2> SUFFICES ASSUME \A k \in 1..(n + 1) : k \in S PROVE FALSE
    OBVIOUS
  <2>1. n + 1 \in Int /\ 1 \in Int /\ ~(1 > n + 1)
    OBVIOUS
  <2>2. Cardinality(1..(n + 1)) = (n + 1) - 1 + 1
    BY <2>1, FS_Interval, Zenon
  <2>3. 1..(n + 1) \in SUBSET S
    OBVIOUS
  <2>4. Cardinality(1..(n + 1)) <= Cardinality(S)
    BY <1>2, <2>3, FS_Subset
  <2> QED
    BY <1>3, <2>2, <2>4
<1>5. Another(b, s) = CHOOSE k \in 1..(n + 1) : k \notin S
  BY <1>1, <1>3 DEF Another
<1>6. Another(b, s) \in 1..(n + 1) /\ Another(b, s) \notin S
  BY <1>4, <1>5
<1> QED
  BY <1>1, <1>6

(* A session that only moves to another gate, or that is done.             *)
LEMMA GateMoves ==
  ASSUME GuardBasics, NEW h \in Deciders, NEW label \in {"pair", "setup", "insert"},
         label = "setup" => h \in Handlers,
         gate[h] # "ready", GoOn(h, label)
  PROVE  GuardBasics'
<1>1. gate' = [gate EXCEPT ![h] = label] /\ UNCHANGED <<hour, open, closed, signal>>
  BY DEF GoOn
<1>2. GuardTyped'
  BY <1>1 DEF GuardBasics, GuardTyped
<1>3. \A g \in Deciders : gate'[g] # "ready" => gate[g] # "ready"
  BY <1>1 DEF GuardBasics, GuardTyped
<1>4. SignalsOwned'
  <2>1. \A g \in Deciders : gate'[g] = IF g = h THEN label ELSE gate[g]
    BY <1>1 DEF GuardBasics, GuardTyped
  <2>2. h \in HandTraders => h \notin Handlers
    BY GuardedParties
  <2> QED
    BY <1>1, <1>3, <2>1, <2>2 DEF GuardBasics, SignalsOwned
<1>5. OneEach'
  <2>1. \A g \in Handlers : gate'[g] # "ready" => gate[g] # "ready"
    BY <1>3 DEF Deciders
  <2> QED
    BY <1>1, <2>1 DEF GuardBasics, OneEach
<1>6. ClosedInOrder'
  BY <1>1 DEF GuardBasics, ClosedInOrder
<1> QED
  BY <1>2, <1>4, <1>5, <1>6 DEF GuardBasics

LEMMA SkipMoves ==
  ASSUME GuardBasics, NEW h \in Deciders, Skip(h)
  PROVE  GuardBasics'
<1>1. /\ gate' = [gate EXCEPT ![h] = "ready"] /\ signal' = [signal EXCEPT ![h] = Blank]
      /\ UNCHANGED <<hour, open, closed>>
  BY DEF Skip
<1>2. GuardTyped'
  BY <1>1 DEF GuardBasics, GuardTyped
<1>3. \A g \in Deciders : gate'[g] # "ready" => gate'[g] = gate[g] /\ signal'[g] = signal[g]
  BY <1>1 DEF GuardBasics, GuardTyped
<1>4. SignalsOwned'
  BY <1>1, <1>3 DEF GuardBasics, SignalsOwned
<1>5. OneEach'
  <2>1. \A g \in Handlers : gate'[g] # "ready" => gate'[g] = gate[g] /\ signal'[g] = signal[g]
    BY <1>3 DEF Deciders
  <2> QED
    BY <1>1, <2>1 DEF GuardBasics, OneEach
<1>6. ClosedInOrder'
  BY <1>1 DEF GuardBasics, ClosedInOrder
<1> QED
  BY <1>2, <1>4, <1>5, <1>6 DEF GuardBasics

LEMMA ArriveBasics == ASSUME GuardBasics, NEW h \in Handlers, Arrive(h) PROVE GuardBasics'
<1>0. PICK b \in Serves[h], s \in Symbols : \E k \in Seen(b, s) \cup {Another(b, s)} :
        ~Twin(b, s) /\ signal' = [signal EXCEPT ![h] = [bot |-> b, symbol |-> s, setup |-> k, by |-> h]]
  BY DEF Arrive
<1>1. PICK k \in Seen(b, s) \cup {Another(b, s)} :
        ~Twin(b, s) /\ signal' = [signal EXCEPT ![h] = [bot |-> b, symbol |-> s, setup |-> k, by |-> h]]
  BY <1>0
<1>2. gate[h] = "ready" /\ gate' = [gate EXCEPT ![h] = "bot"] /\ UNCHANGED <<hour, open, closed>>
  BY DEF Arrive
<1>3. PICK w : w = [bot |-> b, symbol |-> s, setup |-> k, by |-> h]
  OBVIOUS
<1>4. w \in GuardedTrade
  <2>1. k \in Nat
    BY SeenSetups, AnotherIsNew DEF GuardBasics
  <2>2. b \in GuardedBots
    BY GuardedParties
  <2> QED
    BY <1>3, <2>1, <2>2 DEF GuardedTrade, Deciders
<1>5. h \in Deciders /\ h \notin HandTraders
  BY GuardedParties DEF Deciders
<1>6. \A g \in Deciders : g # h => gate'[g] = gate[g] /\ signal'[g] = signal[g]
  BY <1>1, <1>2 DEF GuardBasics, GuardTyped
<1>7. gate'[h] = "bot" /\ signal'[h] = w
  BY <1>1, <1>2, <1>3, <1>5 DEF GuardBasics, GuardTyped
<1>8. GuardTyped'
  <2>1. signal' \in [Deciders -> GuardedTrade \cup {Blank}]
    BY <1>1, <1>3, <1>4 DEF GuardBasics, GuardTyped
  <2> QED
    BY <1>2, <2>1 DEF GuardBasics, GuardTyped
<1>9. SignalsOwned'
  <2> SUFFICES ASSUME NEW g \in Deciders, gate'[g] # "ready"
               PROVE  /\ signal'[g] \in GuardedTrade /\ signal'[g].by = g
                      /\ g \in Handlers => signal'[g].bot \in Serves[g]
                      /\ g \in HandTraders => signal'[g].bot = g /\ gate'[g] # "setup"
    BY DEF SignalsOwned
  <2>1. CASE g = h
    BY <1>3, <1>4, <1>5, <1>7, <2>1
  <2>2. CASE g # h
    BY <1>6, <2>2 DEF GuardBasics, SignalsOwned
  <2> QED
    BY <2>1, <2>2
<1>10. OneEach'
  <2>1. \A g \in Handlers, t \in DOMAIN open :
          gate'[g] # "ready" /\ t.by = g => ~(t.bot = signal'[g].bot /\ t.symbol = signal'[g].symbol)
    <3> SUFFICES ASSUME NEW g \in Handlers, NEW t \in DOMAIN open, gate'[g] # "ready", t.by = g
                 PROVE  ~(t.bot = signal'[g].bot /\ t.symbol = signal'[g].symbol)
      OBVIOUS
    <3>1. CASE g = h
      <4>1. signal'[g].bot = b /\ signal'[g].symbol = s
        BY <1>3, <1>7, <3>1
      <4> QED
        BY <1>1, <4>1 DEF Twin
    <3>2. CASE g # h
      BY <1>6, <3>2 DEF GuardBasics, OneEach, Deciders
    <3> QED
      BY <3>1, <3>2
  <2> QED
    BY <1>2, <2>1 DEF GuardBasics, OneEach
<1>11. ClosedInOrder'
  BY <1>2 DEF GuardBasics, ClosedInOrder
<1> QED
  BY <1>8, <1>9, <1>10, <1>11 DEF GuardBasics

LEMMA ManualBasics == ASSUME GuardBasics, NEW m \in HandTraders, PlaceManual(m) PROVE GuardBasics'
<1>1. PICK s \in Symbols, guarded \in BOOLEAN :
        /\ signal' = [signal EXCEPT ![m] = [bot |-> m, symbol |-> s, setup |-> 0, by |-> m]]
        /\ gate' = [gate EXCEPT ![m] = IF guarded THEN "bot" ELSE "insert"]
  BY DEF PlaceManual
<1>2. gate[m] = "ready" /\ UNCHANGED <<hour, open, closed>>
  BY DEF PlaceManual
<1>3. PICK w : w = [bot |-> m, symbol |-> s, setup |-> 0, by |-> m]
  OBVIOUS
<1>4. PICK label : label = IF guarded THEN "bot" ELSE "insert"
  OBVIOUS
<1>5. w \in GuardedTrade /\ label \in {"bot", "insert"}
  BY <1>3, <1>4 DEF GuardedTrade, Deciders
<1>6. m \in Deciders /\ m \notin Handlers
  BY GuardedParties DEF Deciders
<1>7. \A g \in Deciders : g # m => gate'[g] = gate[g] /\ signal'[g] = signal[g]
  BY <1>1, <1>2 DEF GuardBasics, GuardTyped
<1>8. gate'[m] = label /\ signal'[m] = w
  BY <1>1, <1>3, <1>4, <1>6 DEF GuardBasics, GuardTyped
<1>9. GuardTyped'
  <2>1. signal' \in [Deciders -> GuardedTrade \cup {Blank}]
    BY <1>1, <1>3, <1>5 DEF GuardBasics, GuardTyped
  <2>2. gate' \in [Deciders -> {"ready", "bot", "pair", "setup", "insert"}]
    BY <1>1, <1>4, <1>5 DEF GuardBasics, GuardTyped
  <2> QED
    BY <1>2, <2>1, <2>2 DEF GuardBasics, GuardTyped
<1>10. SignalsOwned'
  <2> SUFFICES ASSUME NEW g \in Deciders, gate'[g] # "ready"
               PROVE  /\ signal'[g] \in GuardedTrade /\ signal'[g].by = g
                      /\ g \in Handlers => signal'[g].bot \in Serves[g]
                      /\ g \in HandTraders => signal'[g].bot = g /\ gate'[g] # "setup"
    BY DEF SignalsOwned
  <2>1. CASE g = m
    BY <1>3, <1>5, <1>6, <1>8, <2>1
  <2>2. CASE g # m
    BY <1>7, <2>2 DEF GuardBasics, SignalsOwned
  <2> QED
    BY <2>1, <2>2
<1>11. OneEach'
  <2>1. \A g \in Handlers : gate'[g] = gate[g] /\ signal'[g] = signal[g]
    BY <1>6, <1>7 DEF Deciders
  <2> QED
    BY <1>2, <2>1 DEF GuardBasics, OneEach
<1>12. ClosedInOrder'
  BY <1>2 DEF GuardBasics, ClosedInOrder
<1> QED
  BY <1>9, <1>10, <1>11, <1>12 DEF GuardBasics

LEMMA InsertBasics == ASSUME GuardBasics, NEW h \in Deciders, Insert(h) PROVE GuardBasics'
<1>1. /\ gate[h] = "insert" /\ open' = open (+) SetToBag({signal[h]})
      /\ gate' = [gate EXCEPT ![h] = "ready"] /\ signal' = [signal EXCEPT ![h] = Blank]
      /\ UNCHANGED <<hour, closed>>
  BY DEF Insert
<1>2. PICK w : w = signal[h]
  OBVIOUS
<1>3. /\ w \in GuardedTrade /\ w.by = h
      /\ h \in Handlers => w.bot \in Serves[h]
      /\ h \in HandTraders => w.bot = h
  BY <1>1, <1>2 DEF GuardBasics, SignalsOwned
<1>4. /\ DOMAIN open' = DOMAIN open \cup {w}
      /\ \A u \in DOMAIN open \ {w} : open[u] = 1 => open'[u] = 1
      /\ w \notin DOMAIN open => open'[w] = 1
  <2>1. open' = open (+) SetToBag({w})
    BY <1>1, <1>2
  <2>2. DOMAIN open' = DOMAIN open \cup {w}
    BY <2>1, OneJoins
  <2>3. \A u \in DOMAIN open \ {w} : open[u] = 1 => open'[u] = 1
    <3>1. PICK B, C : B = open /\ C = open'
      OBVIOUS
    <3>2. C = [e \in DOMAIN B \cup {w} |-> (IF e \in DOMAIN B THEN B[e] ELSE 0) + (IF e = w THEN 1 ELSE 0)]
      BY <2>1, <3>1 DEF (+), SetToBag
    <3> QED
      BY <3>1, <3>2
  <2>4. w \notin DOMAIN open => open'[w] = 1
    BY <2>1, OneJoins
  <2> QED
    BY <2>2, <2>3, <2>4
<1>5. \A g \in Deciders : gate'[g] # "ready" => g # h /\ gate'[g] = gate[g] /\ signal'[g] = signal[g]
  BY <1>1 DEF GuardBasics, GuardTyped
<1>6. GuardTyped'
  <2>1. DOMAIN open' \subseteq GuardedTrade
    BY <1>3, <1>4 DEF GuardBasics, GuardTyped
  <2>2. IsFiniteSet(DOMAIN open')
    BY <1>4, FS_AddElement DEF GuardBasics, GuardTyped
  <2>3. gate' \in [Deciders -> {"ready", "bot", "pair", "setup", "insert"}]
        /\ signal' \in [Deciders -> GuardedTrade \cup {Blank}]
    BY <1>1 DEF GuardBasics, GuardTyped
  <2> QED
    BY <1>1, <2>1, <2>2, <2>3 DEF GuardBasics, GuardTyped
<1>7. SignalsOwned'
  BY <1>5 DEF GuardBasics, SignalsOwned
<1>8. w.bot \in GuardedBots => h \in Handlers /\ h \in Servants(w.bot)
  BY <1>3, GuardedParties DEF Servants, Deciders
<1>9. w.bot \in GuardedBots =>
        \A t \in DOMAIN open : ~(t.bot = w.bot /\ t.symbol = w.symbol /\ t.by = h)
  BY <1>1, <1>2, <1>8 DEF GuardBasics, OneEach
<1>10. OneEach'
  <2>1. \A t \in DOMAIN open' : t.bot \in GuardedBots => open'[t] = 1 /\ t.by \in Servants(t.bot)
    <3> SUFFICES ASSUME NEW t \in DOMAIN open', t.bot \in GuardedBots
                 PROVE  open'[t] = 1 /\ t.by \in Servants(t.bot)
      OBVIOUS
    <3>1. CASE t = w
      <4>1. w \notin DOMAIN open
        BY <1>3, <1>9, <3>1
      <4> QED
        BY <1>3, <1>4, <1>8, <3>1, <4>1
    <3>2. CASE t # w
      BY <1>4, <3>2 DEF GuardBasics, OneEach
    <3> QED
      BY <3>1, <3>2
  <2>2. \A t, u \in DOMAIN open' :
          t.bot \in GuardedBots /\ t.bot = u.bot /\ t.symbol = u.symbol /\ t.by = u.by => t = u
    BY <1>3, <1>4, <1>9 DEF GuardBasics, OneEach
  <2>3. \A g \in Handlers, t \in DOMAIN open' :
          gate'[g] # "ready" /\ t.by = g => ~(t.bot = signal'[g].bot /\ t.symbol = signal'[g].symbol)
    <3> SUFFICES ASSUME NEW g \in Handlers, NEW t \in DOMAIN open', gate'[g] # "ready", t.by = g
                 PROVE  ~(t.bot = signal'[g].bot /\ t.symbol = signal'[g].symbol)
      OBVIOUS
    <3>1. g # h /\ gate'[g] = gate[g] /\ signal'[g] = signal[g]
      BY <1>5 DEF Deciders
    <3>2. t \in DOMAIN open
      BY <1>3, <1>4, <3>1
    <3> QED
      BY <3>1, <3>2 DEF GuardBasics, OneEach
  <2> QED
    BY <2>1, <2>2, <2>3 DEF OneEach, Servants
<1>11. ClosedInOrder'
  BY <1>1 DEF GuardBasics, ClosedInOrder
<1> QED
  BY <1>6, <1>7, <1>10, <1>11 DEF GuardBasics

LEMMA DropBasics ==
  ASSUME GuardBasics, NEW t \in DOMAIN open, open' = open (-) SetToBag({t}), UNCHANGED <<hour, gate, signal>>
  PROVE  /\ DOMAIN open' \in SUBSET DOMAIN open
         /\ IsFiniteSet(DOMAIN open') /\ SignalsOwned' /\ OneEach'
         /\ t.bot \in GuardedBots => t \notin DOMAIN open'
<1>1. /\ DOMAIN open' \in SUBSET DOMAIN open
      /\ open[t] = 1 => t \notin DOMAIN open'
      /\ \A u \in DOMAIN open' : open[u] = 1 => open'[u] = 1
  BY OneGoes
<1>2. IsFiniteSet(DOMAIN open')
  BY <1>1, FS_Subset DEF GuardBasics, GuardTyped
<1>3. SignalsOwned'
  BY DEF GuardBasics, SignalsOwned
<1>4. OneEach'
  <2>1. \A u \in DOMAIN open' : u.bot \in GuardedBots => open'[u] = 1 /\ u.by \in Servants(u.bot)
    BY <1>1 DEF GuardBasics, OneEach
  <2>2. \A u, v \in DOMAIN open' :
          u.bot \in GuardedBots /\ u.bot = v.bot /\ u.symbol = v.symbol /\ u.by = v.by => u = v
    BY <1>1 DEF GuardBasics, OneEach
  <2>3. \A g \in Handlers, u \in DOMAIN open' :
          gate'[g] # "ready" /\ u.by = g => ~(u.bot = signal'[g].bot /\ u.symbol = signal'[g].symbol)
    BY <1>1 DEF GuardBasics, OneEach
  <2> QED
    BY <2>1, <2>2, <2>3 DEF OneEach, Servants
<1>5. t.bot \in GuardedBots => t \notin DOMAIN open'
  BY <1>1 DEF GuardBasics, OneEach
<1> QED
  BY <1>1, <1>2, <1>3, <1>4, <1>5

(* A trade that closes becomes the last of those closed.                   *)
LEMMA CloseAppends ==
  ASSUME GuardTyped, NEW t \in DOMAIN open, CloseOne(t)
  PROVE  \E p \in Losings, k \in {t.setup, 0} :
           /\ closed' \in Seq(ClosedTrade)
           /\ Len(closed') = Len(closed) + 1 /\ DOMAIN closed' = 1..(Len(closed) + 1)
           /\ \A i \in DOMAIN closed : closed'[i] = closed[i]
           /\ closed'[Len(closed) + 1] = [bot |-> t.bot, symbol |-> t.symbol, setup |-> k, pnl |-> p, at |-> hour]
<1>1. PICK p \in Losings, k \in {t.setup, 0} :
        closed' = Append(closed, [bot |-> t.bot, symbol |-> t.symbol, setup |-> k, pnl |-> p, at |-> hour])
  BY DEF CloseOne
<1>2. PICK r : r = [bot |-> t.bot, symbol |-> t.symbol, setup |-> k, pnl |-> p, at |-> hour]
  OBVIOUS
<1>3. r \in ClosedTrade
  <2>1. t \in GuardedTrade /\ hour \in Nat
    BY DEF GuardTyped
  <2> QED
    BY <1>2, <2>1 DEF GuardedTrade, ClosedTrade
<1>4. closed \in Seq(ClosedTrade) /\ closed' = Append(closed, r)
  BY <1>1, <1>2 DEF GuardTyped
<1>5. /\ closed' \in Seq(ClosedTrade)
      /\ Len(closed') = Len(closed) + 1 /\ DOMAIN closed' = 1..(Len(closed) + 1)
      /\ \A i \in DOMAIN closed : closed'[i] = closed[i]
      /\ closed'[Len(closed) + 1] = r
  BY <1>3, <1>4
<1> QED
  BY <1>2, <1>5

LEMMA CloseBasics == ASSUME GuardBasics, NEW t \in DOMAIN open, CloseOne(t) PROVE GuardBasics'
<1>1. open' = open (-) SetToBag({t}) /\ UNCHANGED <<hour, gate, signal>>
  BY DEF CloseOne
<1>2. DOMAIN open' \in SUBSET DOMAIN open /\ IsFiniteSet(DOMAIN open') /\ SignalsOwned' /\ OneEach'
  BY <1>1, DropBasics
<1>3. PICK N \in Nat : N = Len(closed) /\ DOMAIN closed = 1..N
  BY ClosedTypes DEF GuardBasics
<1>4. /\ closed' \in Seq(ClosedTrade) /\ DOMAIN closed' = 1..(N + 1)
      /\ \A i \in DOMAIN closed : closed'[i] = closed[i]
      /\ closed'[N + 1].at = hour
  <2>1. PICK p \in Losings, k \in {t.setup, 0} :
           /\ closed' \in Seq(ClosedTrade)
           /\ Len(closed') = Len(closed) + 1 /\ DOMAIN closed' = 1..(Len(closed) + 1)
           /\ \A i \in DOMAIN closed : closed'[i] = closed[i]
           /\ closed'[Len(closed) + 1] = [bot |-> t.bot, symbol |-> t.symbol, setup |-> k, pnl |-> p, at |-> hour]
    BY CloseAppends, Zenon DEF GuardBasics
  <2> QED
    BY <1>3, <2>1
<1>5. GuardTyped'
  BY <1>1, <1>2, <1>4 DEF GuardBasics, GuardTyped
<1>6. ClosedInOrder'
  <2> SUFFICES ASSUME NEW i \in 1..(N + 1), NEW j \in 1..(N + 1), i <= j
               PROVE  closed'[i].at <= closed'[j].at /\ closed'[j].at <= hour
    BY <1>1, <1>4 DEF ClosedInOrder
  <2>1. hour \in Nat /\ \A n \in 1..N : closed[n].at \in Nat /\ closed[n].at <= hour
    <3>1. \A n \in 1..N : closed[n].at \in Nat
      BY <1>3, ClosedTypes DEF GuardBasics
    <3>2. \A n \in 1..N : n <= n
      OBVIOUS
    <3> QED
      BY <1>3, <3>1, <3>2 DEF GuardBasics, GuardTyped, ClosedInOrder
  <2>2. CASE j = N + 1
    <3>1. i = N + 1 \/ i \in 1..N
      OBVIOUS
    <3>2. closed'[i].at <= hour
      BY <1>3, <1>4, <2>1, <3>1
    <3> QED
      BY <1>4, <2>1, <2>2, <3>2
  <2>3. CASE j # N + 1
    <3>1. i \in 1..N /\ j \in 1..N
      BY <2>3
    <3>2. closed[i].at <= closed[j].at /\ closed[j].at <= hour
      BY <1>3, <3>1 DEF GuardBasics, ClosedInOrder
    <3> QED
      BY <1>3, <1>4, <3>1, <3>2
  <2> QED
    BY <2>2, <2>3
<1> QED
  BY <1>2, <1>5, <1>6 DEF GuardBasics

LEMMA PassBasics == ASSUME GuardBasics, Pass PROVE GuardBasics'
<1>1. hour' = hour + 1 /\ UNCHANGED <<open, closed, gate, signal>>
  BY DEF Pass
<1>2. GuardTyped' /\ SignalsOwned' /\ OneEach'
  BY <1>1 DEF GuardBasics, GuardTyped, SignalsOwned, OneEach
<1>3. ClosedInOrder'
  <2>1. hour \in Nat /\ \A n \in DOMAIN closed : closed[n].at \in Nat
    BY ClosedTypes DEF GuardBasics
  <2> QED
    BY <1>1, <2>1 DEF GuardBasics, ClosedInOrder
<1> QED
  BY <1>2, <1>3 DEF GuardBasics

LEMMA NextBasics == GuardBasics /\ [GuardNext]_guardVars => GuardBasics'
<1> SUFFICES ASSUME GuardBasics, [GuardNext]_guardVars PROVE GuardBasics'
  OBVIOUS
<1>0. Handlers \subseteq Deciders /\ HandTraders \subseteq Deciders /\ Deciders = Handlers \cup HandTraders
  BY DEF Deciders
<1>1. ASSUME NEW h \in Handlers, Arrive(h) PROVE GuardBasics'
  BY <1>1, ArriveBasics
<1>2. ASSUME NEW h \in Handlers, GuardSetup(h) PROVE GuardBasics'
  BY <1>0, <1>2, GateMoves, SkipMoves DEF GuardSetup
<1>3. ASSUME NEW h \in Deciders, GuardBot(h) PROVE GuardBasics'
  BY <1>3, GateMoves, SkipMoves DEF GuardBot
<1>4. ASSUME NEW h \in Deciders, GuardPair(h) PROVE GuardBasics'
  <2>1. CASE CheckPair(signal[h].symbol)
    BY <1>4, <2>1, SkipMoves DEF GuardPair
  <2>2. CASE ~CheckPair(signal[h].symbol)
    <3>1. PICK label : label = IF h \in HandTraders THEN "insert" ELSE "setup"
      OBVIOUS
    <3>2. GoOn(h, label) /\ gate[h] # "ready" /\ label \in {"setup", "insert"} /\ (label = "setup" => h \in Handlers)
      BY <1>0, <1>4, <2>2, <3>1 DEF GuardPair
    <3> QED
      BY <3>2, GateMoves
  <2> QED
    BY <2>1, <2>2
<1>5. ASSUME NEW h \in Deciders, Refuse(h) PROVE GuardBasics'
  BY <1>5, SkipMoves DEF Refuse
<1>6. ASSUME NEW h \in Deciders, Insert(h) PROVE GuardBasics'
  BY <1>6, InsertBasics
<1>7. ASSUME NEW m \in HandTraders, PlaceManual(m) PROVE GuardBasics'
  BY <1>7, ManualBasics
<1>8. ASSUME NEW t \in DOMAIN open, CloseOne(t) PROVE GuardBasics'
  BY <1>8, CloseBasics
<1>9. ASSUME NEW t \in DOMAIN open, Drop(t) PROVE GuardBasics'
  <2>1. open' = open (-) SetToBag({t}) /\ UNCHANGED <<hour, closed, gate, signal>>
    BY <1>9 DEF Drop
  <2>2. DOMAIN open' \in SUBSET DOMAIN open /\ IsFiniteSet(DOMAIN open') /\ SignalsOwned' /\ OneEach'
    BY <2>1, DropBasics
  <2>3. GuardTyped'
    BY <2>1, <2>2 DEF GuardBasics, GuardTyped
  <2>4. ClosedInOrder'
    BY <2>1 DEF GuardBasics, ClosedInOrder
  <2> QED
    BY <2>2, <2>3, <2>4 DEF GuardBasics
<1>10. CASE Pass
  BY <1>10, PassBasics
<1>11. CASE UNCHANGED guardVars
  <2>1. UNCHANGED <<hour, open, closed, gate, signal>>
    BY <1>11 DEF guardVars
  <2>2. GuardTyped' /\ ClosedInOrder'
    BY <2>1 DEF GuardBasics, GuardTyped, ClosedInOrder
  <2>3. SignalsOwned' /\ OneEach'
    BY <2>1 DEF GuardBasics, SignalsOwned, OneEach
  <2> QED
    BY <2>2, <2>3 DEF GuardBasics
<1>12. CASE GuardNext
  <2>1. \/ \E h \in Handlers : Arrive(h) \/ GuardSetup(h)
        \/ \E h \in Deciders : GuardBot(h) \/ GuardPair(h) \/ Refuse(h) \/ Insert(h)
        \/ \E m \in HandTraders : PlaceManual(m)
        \/ \E t \in DOMAIN open : CloseOne(t) \/ Drop(t)
        \/ Pass
    BY <1>12, Zenon DEF GuardNext
  <2> QED
    BY <2>1, <1>1, <1>2, <1>3, <1>4, <1>5, <1>6, <1>7, <1>8, <1>9, <1>10, Zenon
<1> QED
  BY <1>11, <1>12

-----------------------------------------------------------------------------
(* What may still close is of the slots there are.                         *)
LEMMA BotSlots ==
  ASSUME GuardBasics, NEW b \in GuardedBots
  PROVE  /\ DueOfBot(b) \in SUBSET (Symbols \X Servants(b)) /\ IsFiniteSet(DueOfBot(b))
         /\ Cardinality(DueOfBot(b)) \in Nat /\ Capacity(b) \in Nat
         /\ Cardinality(DueOfBot(b)) <= Capacity(b)
<1>1. ASSUME NEW t \in DOMAIN open, t.bot = b PROVE t.symbol \in Symbols /\ t.by \in Servants(b)
  BY <1>1 DEF GuardBasics, GuardTyped, GuardedTrade, OneEach
<1>2. ASSUME NEW h \in Handlers, gate[h] \in {"pair", "setup", "insert"}, signal[h].bot = b
      PROVE  signal[h].symbol \in Symbols /\ h \in Servants(b)
  <2>1. h \in Deciders /\ gate[h] # "ready"
    BY <1>2 DEF Deciders
  <2>2. signal[h] \in GuardedTrade /\ signal[h].bot \in Serves[h]
    BY <2>1 DEF GuardBasics, SignalsOwned
  <2> QED
    BY <1>2, <2>2 DEF GuardedTrade, Servants
<1>3. DueOfBot(b) \in SUBSET (Symbols \X Servants(b))
  BY <1>1, <1>2 DEF DueOfBot
<1>4. IsFiniteSet(Symbols \X Servants(b))
  <2>1. IsFiniteSet(Servants(b))
    BY FS_Subset, GuardedParties DEF Servants
  <2> QED
    BY <2>1, FS_Product, GuardedParties
<1>5. IsFiniteSet(DueOfBot(b)) /\ Cardinality(DueOfBot(b)) <= Cardinality(Symbols \X Servants(b))
  BY <1>3, <1>4, FS_Subset
<1> QED
  BY <1>3, <1>4, <1>5, FS_CardinalityType DEF Capacity

LEMMA PairSlots ==
  ASSUME GuardBasics, NEW s \in Symbols
  PROVE  /\ DueOnPair(s) \in SUBSET {x \in GuardedBots \X Handlers : x[1] \in Serves[x[2]]}
         /\ IsFiniteSet(DueOnPair(s))
         /\ Cardinality(DueOnPair(s)) \in Nat /\ PairCapacity \in Nat
         /\ Cardinality(DueOnPair(s)) <= PairCapacity
<1>1. ASSUME NEW t \in DOMAIN open, t.bot \in GuardedBots PROVE t.by \in Handlers /\ t.bot \in Serves[t.by]
  BY <1>1 DEF GuardBasics, OneEach, Servants
<1>2. ASSUME NEW h \in Handlers, gate[h] \in {"setup", "insert"}
      PROVE  signal[h].bot \in GuardedBots /\ signal[h].bot \in Serves[h]
  <2>1. h \in Deciders /\ gate[h] # "ready"
    BY <1>2 DEF Deciders
  <2>2. signal[h].bot \in Serves[h]
    BY <2>1 DEF GuardBasics, SignalsOwned
  <2> QED
    BY <2>2, GuardedParties
<1>3. PICK X : X = {x \in GuardedBots \X Handlers : x[1] \in Serves[x[2]]}
  OBVIOUS
<1>4. DueOnPair(s) \in SUBSET X
  BY <1>1, <1>2, <1>3 DEF DueOnPair
<1>5. IsFiniteSet(X)
  <2>1. IsFiniteSet(GuardedBots \X Handlers)
    BY FS_Product, GuardedParties
  <2> QED
    BY <1>3, <2>1, FS_Subset
<1>6. IsFiniteSet(DueOnPair(s)) /\ Cardinality(DueOnPair(s)) <= Cardinality(X)
  BY <1>4, <1>5, FS_Subset
<1> QED
  BY <1>3, <1>4, <1>5, <1>6, FS_CardinalityType DEF PairCapacity

LEMMA SetupSlots ==
  ASSUME GuardBasics, NEW b \in GuardedBots, NEW s, NEW k
  PROVE  /\ DueOfSetup(b, s, k) \in SUBSET Servants(b) /\ IsFiniteSet(DueOfSetup(b, s, k))
         /\ Cardinality(DueOfSetup(b, s, k)) \in Nat /\ Cardinality(Servants(b)) \in Nat
         /\ Cardinality(DueOfSetup(b, s, k)) <= Cardinality(Servants(b))
<1>1. ASSUME NEW t \in DOMAIN open, t.bot = b PROVE t.by \in Servants(b)
  BY <1>1 DEF GuardBasics, OneEach
<1>2. ASSUME NEW h \in Handlers, gate[h] = "insert", signal[h].bot = b
      PROVE  h \in Servants(b)
  <2>1. h \in Deciders /\ gate[h] # "ready"
    BY <1>2 DEF Deciders
  <2>2. signal[h].bot \in Serves[h]
    BY <2>1 DEF GuardBasics, SignalsOwned
  <2> QED
    BY <1>2, <2>2 DEF Servants
<1>3. DueOfSetup(b, s, k) \in SUBSET Servants(b)
  BY <1>1, <1>2 DEF DueOfSetup
<1>4. IsFiniteSet(Servants(b))
  BY FS_Subset, GuardedParties DEF Servants
<1>5. IsFiniteSet(DueOfSetup(b, s, k)) /\ Cardinality(DueOfSetup(b, s, k)) <= Cardinality(Servants(b))
  BY <1>3, <1>4, FS_Subset
<1> QED
  BY <1>3, <1>4, <1>5, FS_CardinalityType
-----------------------------------------------------------------------------
LEMMA FewerDue ==
  ASSUME DOMAIN open' \subseteq DOMAIN open,
         \A g \in Handlers : gate'[g] \in {"pair", "setup", "insert"} =>
           gate'[g] = gate[g] /\ signal'[g] = signal[g]
  PROVE  NoMoreDue
<1>1. \A b \in GuardedBots : NoMoreOfBot(b)
  BY DEF NoMoreOfBot, DueOfBot
<1>2. \A s \in Symbols : NoMoreOnPair(s)
  BY DEF NoMoreOnPair, DueOnPair
<1>3. \A b \in GuardedBots, s \in Symbols : NoMoreOfSetup(b, s)
  BY DEF NoMoreOfSetup, DueOfSetup
<1> QED
  BY <1>1, <1>2, <1>3 DEF NoMoreDue

(* A signal that is inserted was due already.                              *)
LEMMA InsertedWasDue == ASSUME GuardBasics, NEW h \in Deciders, Insert(h) PROVE NoMoreDue
<1>1. gate[h] = "insert" /\ open' = open (+) SetToBag({signal[h]})
      /\ gate' = [gate EXCEPT ![h] = "ready"] /\ signal' = [signal EXCEPT ![h] = Blank]
  BY DEF Insert
<1>2. PICK w : w = signal[h]
  OBVIOUS
<1>3. w.by = h /\ (h \in HandTraders => w.bot \notin GuardedBots)
  BY <1>1, <1>2, GuardedParties DEF GuardBasics, SignalsOwned
<1>4. DOMAIN open' = DOMAIN open \cup {w}
  BY <1>1, <1>2, OneJoins
<1>5. \A g \in Deciders : gate'[g] # "ready" => gate'[g] = gate[g] /\ signal'[g] = signal[g]
  BY <1>1 DEF GuardBasics, GuardTyped
<1>6. \A g \in Handlers : gate'[g] # "ready" => gate'[g] = gate[g] /\ signal'[g] = signal[g]
  BY <1>5 DEF Deciders
<1>7. w.bot \in GuardedBots => h \in Handlers
  BY <1>3 DEF Deciders
<1>8. ASSUME NEW b \in GuardedBots PROVE NoMoreOfBot(b)
  <2>1. \A t \in DOMAIN open' : t.bot = b => <<t.symbol, t.by>> \in DueOfBot(b)
    BY <1>1, <1>2, <1>3, <1>4, <1>7 DEF DueOfBot
  <2>2. \A g \in Handlers : gate'[g] \in {"pair", "setup", "insert"} /\ signal'[g].bot = b =>
          <<signal'[g].symbol, g>> \in DueOfBot(b)
    BY <1>6 DEF DueOfBot
  <2> QED
    BY <2>1, <2>2 DEF NoMoreOfBot, DueOfBot
<1>9. ASSUME NEW s \in Symbols PROVE NoMoreOnPair(s)
  <2>1. \A t \in DOMAIN open' : t.bot \in GuardedBots /\ t.symbol = s => <<t.bot, t.by>> \in DueOnPair(s)
    BY <1>1, <1>2, <1>3, <1>4, <1>7 DEF DueOnPair
  <2>2. \A g \in Handlers : gate'[g] \in {"setup", "insert"} /\ signal'[g].symbol = s =>
          <<signal'[g].bot, g>> \in DueOnPair(s)
    BY <1>6 DEF DueOnPair
  <2> QED
    BY <2>1, <2>2 DEF NoMoreOnPair, DueOnPair
<1>10. ASSUME NEW b \in GuardedBots, NEW s \in Symbols, NEW k
       PROVE  DueOfSetup(b, s, k)' \subseteq DueOfSetup(b, s, k)
  <2>1. \A t \in DOMAIN open' : t.bot = b /\ t.symbol = s /\ t.setup = k => t.by \in DueOfSetup(b, s, k)
    BY <1>1, <1>2, <1>3, <1>4, <1>7 DEF DueOfSetup
  <2>2. \A g \in Handlers : gate'[g] = "insert" /\ signal'[g].bot = b /\ signal'[g].symbol = s /\ signal'[g].setup = k
          => g \in DueOfSetup(b, s, k)
    BY <1>6 DEF DueOfSetup
  <2> QED
    BY <2>1, <2>2 DEF DueOfSetup
<1> QED
  BY <1>8, <1>9, <1>10 DEF NoMoreDue, NoMoreOfSetup

(* What closes is due no more.                                             *)
LEMMA ClosedIsDueNoMore ==
  ASSUME GuardBasics, NEW t \in DOMAIN open, open' = open (-) SetToBag({t}),
         UNCHANGED <<hour, gate, signal>>, t.bot \in GuardedBots
  PROVE  /\ <<t.symbol, t.by>> \in DueOfBot(t.bot) \ DueOfBot(t.bot)'
         /\ <<t.bot, t.by>> \in DueOnPair(t.symbol) \ DueOnPair(t.symbol)'
         /\ t.by \in DueOfSetup(t.bot, t.symbol, t.setup) \ DueOfSetup(t.bot, t.symbol, t.setup)'
<1>1. DOMAIN open' \in SUBSET DOMAIN open /\ t \notin DOMAIN open'
  BY DropBasics
<1>2. \A u \in DOMAIN open' : ~(u.bot = t.bot /\ u.symbol = t.symbol /\ u.by = t.by)
  BY <1>1 DEF GuardBasics, OneEach
<1>3. \A g \in Handlers : gate[g] # "ready" => ~(t.by = g /\ t.bot = signal[g].bot /\ t.symbol = signal[g].symbol)
  BY DEF GuardBasics, OneEach
<1>4. <<t.symbol, t.by>> \in DueOfBot(t.bot) /\ <<t.bot, t.by>> \in DueOnPair(t.symbol)
      /\ t.by \in DueOfSetup(t.bot, t.symbol, t.setup)
  BY DEF DueOfBot, DueOnPair, DueOfSetup
<1>5. <<t.symbol, t.by>> \notin DueOfBot(t.bot)'
  BY <1>2, <1>3 DEF DueOfBot
<1>6. <<t.bot, t.by>> \notin DueOnPair(t.symbol)'
  BY <1>2, <1>3 DEF DueOnPair
<1>7. t.by \notin DueOfSetup(t.bot, t.symbol, t.setup)'
  BY <1>2, <1>3 DEF DueOfSetup
<1> QED
  BY <1>4, <1>5, <1>6, <1>7

LEMMA OneFewer ==
  ASSUME NEW S, IsFiniteSet(S), NEW R \in SUBSET S, NEW x \in S \ R
  PROVE  Cardinality(R) + 1 <= Cardinality(S) /\ Cardinality(R) \in Nat /\ Cardinality(S) \in Nat
<1>1. R \in SUBSET (S \ {x})
  OBVIOUS
<1>2. IsFiniteSet(S \ {x}) /\ Cardinality(S \ {x}) = Cardinality(S) - 1
  BY FS_RemoveElement
<1>3. IsFiniteSet(R) /\ Cardinality(R) <= Cardinality(S \ {x})
  BY <1>1, <1>2, FS_Subset
<1>4. Cardinality(R) \in Nat /\ Cardinality(S) \in Nat
  BY <1>3, FS_CardinalityType
<1> QED
  BY <1>2, <1>3, <1>4

-----------------------------------------------------------------------------
(* A losing run up to the newest trade, where one more has closed: without *)
(* that one it was a run, and the trade before was not stale.              *)
LEMMA RunGrows ==
  ASSUME GuardBasics, NEW N \in Nat, DOMAIN closed = 1..N, NEW T \in SUBSET (1..N),
         \A k \in T : closed'[k] = closed[k], closed'[N + 1].at = hour,
         NEW i \in T, LosingRun(T \cup {N + 1}, i, N + 1)'
  PROVE  /\ Recently(T) /\ LosingRun(T, i, N)
         /\ Between(T \cup {N + 1}, i, N + 1) = Between(T, i, N) \cup {N + 1} /\ N + 1 \notin Between(T, i, N)
<1>1. \A k \in T : k \in Nat /\ k <= N /\ k < N + 1
  OBVIOUS
<1>2. i \in Nat /\ i <= N
  BY <1>1
<1>3. PICK B : B = Between(T \cup {N + 1}, i, N + 1)
  OBVIOUS
<1>4. B = Between(T, i, N) \cup {N + 1} /\ N + 1 \notin Between(T, i, N)
  <2>1. PICK n : n = N + 1
    OBVIOUS
  <2>2. /\ i <= n /\ n <= n /\ ~(n <= N)
        /\ \A k \in T : k <= N /\ k <= n
    BY <1>1, <1>2, <2>1
  <2>3. B = {k \in T \cup {n} : i <= k /\ k <= n}
    BY <1>3, <2>1 DEF Between
  <2>4. B = {k \in T : i <= k /\ k <= N} \cup {n}
    BY <2>2, <2>3
  <2> QED
    BY <2>1, <2>2, <2>4 DEF Between
<1>5. \A k \in B : closed'[k].pnl < 0
  BY <1>3 DEF LosingRun, Lost, Between
<1>6. \A k, l \in B : k < l /\ (\A m \in T \cup {N + 1} : ~(k < m /\ m < l)) => closed'[l].at - closed'[k].at <= Staleness
  BY <1>3 DEF LosingRun, Between
<1>7. Between(T, i, N) \subseteq B /\ Between(T, i, N) \subseteq T /\ N + 1 \in B
  BY <1>4 DEF Between
<1>8. LosingRun(T, i, N)
  <2>1. \A k \in Between(T, i, N) : Lost(k)
    BY <1>5, <1>7 DEF Lost
  <2>2. ASSUME NEW k \in Between(T, i, N), NEW l \in Between(T, i, N), k < l, \A m \in T : ~(k < m /\ m < l)
        PROVE  closed[l].at - closed[k].at <= Staleness
    <3>1. k \in T /\ l \in T /\ k \in B /\ l \in B
      BY <1>7
    <3>2. ~(k < N + 1 /\ N + 1 < l)
      BY <1>1, <3>1
    <3>3. closed'[l].at - closed'[k].at <= Staleness
      BY <1>6, <2>2, <3>1, <3>2
    <3> QED
      BY <3>1, <3>3
  <2> QED
    BY <2>1, <2>2 DEF LosingRun
<1>9. Recently(T)
  <2>1. PICK k \in T : \A u \in T : u <= k
    BY TopIsHighest
  <2>2. k \in Between(T, i, N)
    BY <1>1, <1>2, <2>1 DEF Between
  <2>3. \A m \in T \cup {N + 1} : ~(k < m /\ m < N + 1)
    BY <1>1, <2>1
  <2>4. closed'[N + 1].at - closed'[k].at <= Staleness
    BY <1>1, <1>6, <1>7, <2>2, <2>3
  <2>5. Age(k) <= Staleness
    BY <2>4 DEF Age
  <2> QED
    BY <2>1, <2>5 DEF Recently
<1> QED
  BY <1>3, <1>4, <1>8, <1>9

(* A run up to an earlier trade stays as it is.                            *)
LEMMA RunStays ==
  ASSUME NEW N \in Nat, NEW T \in SUBSET (1..N), \A k \in T : closed'[k] = closed[k],
         NEW i \in T, NEW j \in T
  PROVE  /\ Between(T \cup {N + 1}, i, j) = Between(T, i, j)
         /\ LosingRun(T \cup {N + 1}, i, j)' => LosingRun(T, i, j)
<1>1. \A k \in T : k \in Nat /\ k <= N /\ k < N + 1
  OBVIOUS
<1>2. Between(T \cup {N + 1}, i, j) = Between(T, i, j) /\ Between(T, i, j) \subseteq T
  BY <1>1 DEF Between
<1>3. ASSUME LosingRun(T \cup {N + 1}, i, j)' PROVE LosingRun(T, i, j)
  <2>1. \A k \in Between(T, i, j) : Lost(k)
    BY <1>2, <1>3 DEF LosingRun, Lost, Between
  <2>2. ASSUME NEW k \in Between(T, i, j), NEW l \in Between(T, i, j), k < l, \A m \in T : ~(k < m /\ m < l)
        PROVE  closed[l].at - closed[k].at <= Staleness
    <3>0. k \in T /\ l \in T
      BY <1>2
    <3>1. ~(k < N + 1 /\ N + 1 < l) /\ k \in T /\ l \in T
      BY <1>1, <3>0
    <3>2. closed'[l].at - closed'[k].at <= Staleness
      BY <1>2, <1>3, <2>2, <3>1 DEF LosingRun, Between
    <3> QED
      BY <3>1, <3>2
  <2> QED
    BY <2>1, <2>2 DEF LosingRun
<1> QED
  BY <1>2, <1>3

(* And where nothing else has closed, so does every run.                   *)
LEMMA RunSame ==
  ASSUME NEW T, \A k \in T : closed'[k] = closed[k], NEW i, NEW j
  PROVE  LosingRun(T, i, j)' <=> LosingRun(T, i, j)
<1>1. Between(T, i, j) \subseteq T
  BY DEF Between
<1>2. \A k \in Between(T, i, j) : closed'[k] = closed[k]
  BY <1>1
<1>3. LosingRun(T, i, j)' <=>
       \A k \in Between(T, i, j) :
         /\ closed'[k].pnl < 0
         /\ \A l \in Between(T, i, j) :
              k < l /\ (\A m \in T : ~(k < m /\ m < l)) => closed'[l].at - closed'[k].at <= Staleness
  BY DEF LosingRun, Lost, Between
<1> QED
  BY <1>2, <1>3 DEF LosingRun, Lost

LEMMA FreshBefore ==
  ASSUME GuardTyped, GuardTyped', NEW T \in SUBSET DOMAIN closed, \A k \in T : closed'[k] = closed[k], hour <= hour',
         Recently(T)'
  PROVE  Recently(T)
<1>1. PICK k \in T : (\A m \in T : m <= k) /\ hour' - closed'[k].at <= Staleness
  BY DEF Recently, Age
<1>2. closed[k].at \in Nat /\ hour \in Nat
  BY ClosedTypes
<1>3. hour' \in Nat /\ Staleness \in Nat
  BY GuardSettings DEF GuardTyped
<1>4. hour - closed[k].at <= Staleness
  BY <1>1, <1>2, <1>3
<1> QED
  BY <1>1, <1>4 DEF Recently, Age
-----------------------------------------------------------------------------
LEMMA BotRoomStays ==
  ASSUME GuardBasics, GuardBasics', NEW b \in GuardedBots, BotRoom(b), NoMoreOfBot(b), hour <= hour',
         OfBot(b)' = OfBot(b), \A k \in OfBot(b) : closed'[k] = closed[k], Len(closed) <= Len(closed')
  PROVE  BotRoom(b)'
<1>1. PICK T : T = OfBot(b)
  OBVIOUS
<1>2. PICK N \in Nat, M \in Nat : N = Len(closed) /\ M = Len(closed') /\ DOMAIN closed = 1..N
  <2>1. Len(closed) \in Nat /\ DOMAIN closed = 1..Len(closed) /\ Len(closed') \in Nat
    BY ClosedTypes DEF GuardBasics, GuardTyped
  <2> QED
    BY <2>1
<1>3. T \in SUBSET (1..N) /\ N <= M /\ \A k \in T : closed'[k] = closed[k]
  BY <1>1, <1>2 DEF OfBot
<1>4. PICK D, E : D = DueOfBot(b) /\ E = DueOfBot(b)'
  OBVIOUS
<1>5. Cardinality(E) <= Cardinality(D) /\ Cardinality(E) \in Nat /\ Cardinality(D) \in Nat /\ Capacity(b) \in Nat
  <2>1. IsFiniteSet(D) /\ E \in SUBSET D /\ Capacity(b) \in Nat
    BY <1>4, BotSlots DEF NoMoreOfBot
  <2>2. IsFiniteSet(E) /\ Cardinality(E) <= Cardinality(D)
    BY <2>1, FS_Subset
  <2> QED
    BY <2>1, <2>2, FS_CardinalityType
<1>6. ASSUME NEW i \in T, Recently(T)', LosingRun(T, i, M)'
      PROVE  Cardinality(Between(T, i, M)) + Cardinality(E) <= StreakCount - 1 + Capacity(b)
  <2>1. Between(T, i, M) = Between(T, i, N) /\ Between(T, i, N) \in SUBSET (1..N)
    <3>1. \A k \in T : k <= N /\ k <= M
      BY <1>3
    <3> QED
      BY <1>3, <3>1 DEF Between
  <2>2. LosingRun(T, i, M)
    BY <1>3, <1>6, RunSame
  <2>3. LosingRun(T, i, N)
    BY <2>1, <2>2 DEF LosingRun
  <2>4. Recently(T)
    BY <1>2, <1>3, <1>6, FreshBefore DEF GuardBasics
  <2>5. Cardinality(Between(T, i, N)) + Cardinality(D) <= StreakCount - 1 + Capacity(b)
    BY <1>1, <1>2, <1>4, <2>3, <2>4 DEF BotRoom
  <2>6. Cardinality(Between(T, i, N)) \in Nat
    BY <2>1, CountedPositions
  <2> QED
    BY <1>5, <2>1, <2>5, <2>6, GuardSettings
<1> QED
  BY <1>1, <1>2, <1>4, <1>6 DEF BotRoom, Capacity, Servants

LEMMA PairRoomStays ==
  ASSUME GuardBasics, GuardBasics', NEW s \in Symbols, PairRoom(s), NoMoreOnPair(s), hour <= hour',
         OnPair(s)' = OnPair(s), \A k \in OnPair(s) : closed'[k] = closed[k], Len(closed) <= Len(closed')
  PROVE  PairRoom(s)'
<1>1. PICK T : T = OnPair(s)
  OBVIOUS
<1>2. PICK N \in Nat, M \in Nat : N = Len(closed) /\ M = Len(closed') /\ DOMAIN closed = 1..N
  <2>1. Len(closed) \in Nat /\ DOMAIN closed = 1..Len(closed) /\ Len(closed') \in Nat
    BY ClosedTypes DEF GuardBasics, GuardTyped
  <2> QED
    BY <2>1
<1>3. T \in SUBSET (1..N) /\ N <= M /\ \A k \in T : closed'[k] = closed[k]
  BY <1>1, <1>2 DEF OnPair
<1>4. PICK D, E : D = DueOnPair(s) /\ E = DueOnPair(s)'
  OBVIOUS
<1>5. Cardinality(E) <= Cardinality(D) /\ Cardinality(E) \in Nat /\ Cardinality(D) \in Nat /\ PairCapacity \in Nat
  <2>1. IsFiniteSet(D) /\ E \in SUBSET D /\ PairCapacity \in Nat
    BY <1>4, PairSlots DEF NoMoreOnPair
  <2>2. IsFiniteSet(E) /\ Cardinality(E) <= Cardinality(D)
    BY <2>1, FS_Subset
  <2> QED
    BY <2>1, <2>2, FS_CardinalityType
<1>6. ASSUME NEW i \in T, Recently(T)', LosingRun(T, i, M)'
      PROVE  Cardinality(Robots(Between(T, i, M))') + Cardinality(E) <= StreakCount - 1 + PairCapacity
  <2>1. Between(T, i, M) = Between(T, i, N) /\ Between(T, i, N) \in SUBSET T
    <3>1. \A k \in T : k <= N /\ k <= M
      BY <1>3
    <3> QED
      BY <1>3, <3>1 DEF Between
  <2>2. LosingRun(T, i, M)
    BY <1>3, <1>6, RunSame
  <2>3. LosingRun(T, i, N)
    BY <2>1, <2>2 DEF LosingRun
  <2>4. Recently(T)
    BY <1>2, <1>3, <1>6, FreshBefore DEF GuardBasics
  <2>5. Cardinality(Robots(Between(T, i, N))) + Cardinality(D) <= StreakCount - 1 + PairCapacity
    BY <1>1, <1>2, <1>4, <2>3, <2>4 DEF PairRoom
  <2>6. Robots(Between(T, i, M))' = Robots(Between(T, i, N))
    BY <1>3, <2>1 DEF Robots
  <2>7. Robots(Between(T, i, N)) \in SUBSET (1..N)
    BY <1>3, <2>1 DEF Robots
  <2>8. Cardinality(Robots(Between(T, i, N))) \in Nat
    BY <2>7, CountedPositions
  <2> QED
    BY <1>5, <2>5, <2>6, <2>8, GuardSettings
<1> QED
  BY <1>1, <1>2, <1>4, <1>6 DEF PairRoom, PairCapacity

LEMMA SetupRoomStays ==
  ASSUME GuardBasics, GuardBasics', NEW b \in GuardedBots, NEW s \in Symbols, SetupRoom(b, s), NoMoreOfSetup(b, s),
         OfBoth(b, s)' = OfBoth(b, s), \A k \in OfBoth(b, s) : closed'[k] = closed[k],
         Len(closed) <= Len(closed')
  PROVE  SetupRoom(b, s)'
<1>1. PICK T : T = OfBoth(b, s)
  OBVIOUS
<1>2. PICK N \in Nat, M \in Nat : N = Len(closed) /\ M = Len(closed') /\ DOMAIN closed = 1..N
  <2>1. Len(closed) \in Nat /\ DOMAIN closed = 1..Len(closed) /\ Len(closed') \in Nat
    BY ClosedTypes DEF GuardBasics, GuardTyped
  <2> QED
    BY <2>1
<1>3. T \in SUBSET (1..N) /\ N <= M /\ \A k \in T : closed'[k] = closed[k]
  BY <1>1, <1>2 DEF OfBoth, OfBot
<1>6. ASSUME NEW i \in T, Cardinality(Between(T, i, M)) <= SameSetups, closed'[i].setup # 0,
             \A k \in Alike(T, i, M)' : Lost(k)'
      PROVE  Cardinality(Alike(T, i, M)') + Cardinality(DueOfSetup(b, s, closed[i].setup)')
               <= Cardinality(Servants(b))
  <2>1. Between(T, i, M) = Between(T, i, N) /\ Between(T, i, N) \in SUBSET T
    <3>1. \A k \in T : k <= N /\ k <= M
      BY <1>3
    <3> QED
      BY <1>3, <3>1 DEF Between
  <2>2. Alike(T, i, M)' = Alike(T, i, N) /\ Alike(T, i, N) \in SUBSET T
    BY <1>3, <2>1 DEF Alike, Between
  <2>3. closed'[i].setup = closed[i].setup /\ \A k \in Alike(T, i, N) : Lost(k)
    BY <1>3, <1>6, <2>2 DEF Lost
  <2>4. PICK n, D, E : n = closed[i].setup /\ D = DueOfSetup(b, s, n) /\ E = DueOfSetup(b, s, n)'
    OBVIOUS
  <2>5. Cardinality(Alike(T, i, N)) + Cardinality(D) <= Cardinality(Servants(b))
    BY <1>1, <1>2, <1>6, <2>1, <2>3, <2>4 DEF SetupRoom
  <2>6. Cardinality(E) <= Cardinality(D) /\ Cardinality(E) \in Nat /\ Cardinality(D) \in Nat
        /\ Cardinality(Servants(b)) \in Nat
    <3>1. IsFiniteSet(D) /\ E \in SUBSET D /\ Cardinality(Servants(b)) \in Nat
      BY <2>4, SetupSlots DEF NoMoreOfSetup
    <3>2. IsFiniteSet(E) /\ Cardinality(E) <= Cardinality(D)
      BY <3>1, FS_Subset
    <3> QED
      BY <3>1, <3>2, FS_CardinalityType
  <2>7. Alike(T, i, N) \in SUBSET (1..N)
    BY <1>3, <2>2
  <2>8. Cardinality(Alike(T, i, N)) \in Nat
    BY <2>7, CountedPositions
  <2>9. DueOfSetup(b, s, closed[i].setup)' = E
    BY <2>3, <2>4 DEF DueOfSetup
  <2> QED
    BY <2>2, <2>5, <2>6, <2>8, <2>9
<1> QED
  BY <1>1, <1>2, <1>6 DEF SetupRoom, Servants

(* Nothing closes, and no more becomes due.                                *)
LEMMA RoomStays ==
  ASSUME GuardBasics, GuardBasics', hour <= hour', UNCHANGED closed
  PROVE  /\ \A b \in GuardedBots : BotRoom(b) /\ NoMoreOfBot(b) => BotRoom(b)'
         /\ \A s \in Symbols : PairRoom(s) /\ NoMoreOnPair(s) => PairRoom(s)'
         /\ \A b \in GuardedBots, s \in Symbols : SetupRoom(b, s) /\ NoMoreOfSetup(b, s) => SetupRoom(b, s)'
         /\ BotRunsEnd => BotRunsEnd'
         /\ PairRunsEnd => PairRunsEnd'
         /\ SetupLosesOnce => SetupLosesOnce'
<1>1. Len(closed) <= Len(closed')
  <2>1. Len(closed) \in Nat
    BY ClosedTypes DEF GuardBasics
  <2> QED
    BY <2>1
<1>2. \A b, s : OfBot(b)' = OfBot(b) /\ OnPair(s)' = OnPair(s) /\ OfBoth(b, s)' = OfBoth(b, s)
  BY DEF OfBot, OnPair, OfBoth
<1>3. \A b \in GuardedBots : BotRoom(b) /\ NoMoreOfBot(b) => BotRoom(b)'
  BY <1>1, <1>2, BotRoomStays
<1>4. \A s \in Symbols : PairRoom(s) /\ NoMoreOnPair(s) => PairRoom(s)'
  BY <1>1, <1>2, PairRoomStays
<1>5. \A b \in GuardedBots, s \in Symbols : SetupRoom(b, s) /\ NoMoreOfSetup(b, s) => SetupRoom(b, s)'
  BY <1>1, <1>2, SetupRoomStays
<1>6. BotRunsEnd => BotRunsEnd'
  BY DEF BotRunsEnd, LosingRun, Between, OfBot, Lost, Capacity, Servants
<1>7. PairRunsEnd => PairRunsEnd'
  BY DEF PairRunsEnd, LosingRun, Between, OnPair, Lost, PairCapacity
<1>8. SetupLosesOnce => SetupLosesOnce'
  BY DEF SetupLosesOnce, Between, OfBot, OnPair, Lost, Servants
<1> QED
  BY <1>3, <1>4, <1>5, <1>6, <1>7, <1>8
-----------------------------------------------------------------------------
(* Who gets through a gate met no streak there.                            *)
LEMMA ShortRun ==
  ASSUME GuardTyped, NEW N \in Nat, DOMAIN closed = 1..N, NEW T \in SUBSET (1..N), NEW i \in T,
         Recently(T), LosingRun(T, i, N), ~Evaluate(T)
  PROVE  Cardinality(Between(T, i, N)) \in Nat /\ Cardinality(Between(T, i, N)) <= StreakCount - 1
<1>1. \A k \in T : k <= N
  OBVIOUS
<1>2. PICK B : B = Between(T, i, N)
  OBVIOUS
<1>3. B = {k \in T : i <= k}
  BY <1>1, <1>2 DEF Between
<1>4. \A k \in T : i <= k => Lost(k)
  BY <1>2, <1>3 DEF LosingRun
<1>5. B \in SUBSET (1..N)
  BY <1>3
<1>6. Cardinality(B) \in Nat
  BY <1>5, CountedPositions
<1>7. ~(Cardinality(B) >= StreakCount)
  BY <1>3, <1>4, StreakBlocks
<1> QED
  BY <1>2, <1>6, <1>7, GuardSettings

LEMMA BotPasses ==
  ASSUME GuardBasics, NEW h \in Handlers, gate[h] = "bot", NEW b \in GuardedBots, b = signal[h].bot,
         ~CheckBot(b), GoOn(h, "pair")
  PROVE  BotRoom(b)'
<1>1. gate' = [gate EXCEPT ![h] = "pair"] /\ UNCHANGED <<hour, open, closed, signal>>
  BY DEF GoOn
<1>2. PICK T : T = OfBot(b)
  OBVIOUS
<1>3. PICK N \in Nat : N = Len(closed) /\ DOMAIN closed = 1..N
  BY ClosedTypes DEF GuardBasics
<1>4. T \in SUBSET (1..N)
  BY <1>2, <1>3 DEF OfBot
<1>5. OfBot(b)' = T
  BY <1>1, <1>2 DEF OfBot
<1>6. PICK E : E = DueOfBot(b)'
  OBVIOUS
<1>7. Cardinality(E) <= Capacity(b) /\ Cardinality(E) \in Nat /\ Capacity(b) \in Nat
  <2>1. h \in Deciders
    BY DEF Deciders
  <2>2. signal[h].symbol \in Symbols /\ h \in Servants(b)
    BY <2>1 DEF GuardBasics, SignalsOwned, GuardedTrade, Servants
  <2>3. \A g \in Handlers : gate'[g] \in {"pair", "setup", "insert"} => g = h \/ gate'[g] = gate[g]
    BY <1>1, <2>1 DEF GuardBasics, GuardTyped, Deciders
  <2>4. E \subseteq DueOfBot(b) \cup {<<signal[h].symbol, h>>}
    BY <1>1, <1>6, <2>3 DEF DueOfBot
  <2>5. E \in SUBSET (Symbols \X Servants(b))
    BY <2>2, <2>4, BotSlots
  <2>6. IsFiniteSet(Symbols \X Servants(b))
    <3>1. IsFiniteSet(Servants(b))
      BY FS_Subset, GuardedParties DEF Servants
    <3> QED
      BY <3>1, FS_Product, GuardedParties
  <2>7. IsFiniteSet(E) /\ Cardinality(E) <= Cardinality(Symbols \X Servants(b))
    BY <2>5, <2>6, FS_Subset
  <2> QED
    BY <2>6, <2>7, FS_CardinalityType DEF Capacity
<1>8. ASSUME NEW i \in T, Recently(T)', LosingRun(T, i, N)'
      PROVE  Cardinality(Between(T, i, N)) + Cardinality(E) <= StreakCount - 1 + Capacity(b)
  <2>1. Recently(T) /\ LosingRun(T, i, N)
    BY <1>1, <1>8 DEF Recently, Age, LosingRun, Lost
  <2>2. ~Evaluate(T)
    BY <1>2 DEF CheckBot
  <2>3. Cardinality(Between(T, i, N)) \in Nat /\ Cardinality(Between(T, i, N)) <= StreakCount - 1
    BY <1>3, <1>4, <2>1, <2>2, ShortRun DEF GuardBasics
  <2> QED
    BY <1>7, <2>3, GuardSettings
<1>9. Len(closed') = N
  BY <1>1, <1>3
<1> QED
  BY <1>5, <1>6, <1>8, <1>9 DEF BotRoom, Capacity, Servants

LEMMA PairPasses ==
  ASSUME GuardBasics, NEW h \in Handlers, gate[h] = "pair", NEW s \in Symbols, s = signal[h].symbol,
         ~CheckPair(s), GoOn(h, "setup")
  PROVE  PairRoom(s)'
<1>1. gate' = [gate EXCEPT ![h] = "setup"] /\ UNCHANGED <<hour, open, closed, signal>>
  BY DEF GoOn
<1>2. PICK T : T = OnPair(s)
  OBVIOUS
<1>3. PICK N \in Nat : N = Len(closed) /\ DOMAIN closed = 1..N
  BY ClosedTypes DEF GuardBasics
<1>4. T \in SUBSET (1..N)
  BY <1>2, <1>3 DEF OnPair
<1>5. OnPair(s)' = T
  BY <1>1, <1>2 DEF OnPair
<1>6. PICK E : E = DueOnPair(s)'
  OBVIOUS
<1>7. Cardinality(E) <= PairCapacity /\ Cardinality(E) \in Nat /\ PairCapacity \in Nat
  <2>1. h \in Deciders
    BY DEF Deciders
  <2>0. PICK X : X = {x \in GuardedBots \X Handlers : x[1] \in Serves[x[2]]}
    OBVIOUS
  <2>2. <<signal[h].bot, h>> \in X
    <3>1. signal[h].bot \in Serves[h]
      BY <2>1 DEF GuardBasics, SignalsOwned
    <3> QED
      BY <2>0, <3>1, GuardedParties
  <2>3. \A g \in Handlers : gate'[g] \in {"setup", "insert"} => g = h \/ gate'[g] = gate[g]
    BY <1>1, <2>1 DEF GuardBasics, GuardTyped, Deciders
  <2>4. E \subseteq DueOnPair(s) \cup {<<signal[h].bot, h>>}
    BY <1>1, <1>6, <2>3 DEF DueOnPair
  <2>5. E \in SUBSET X
    BY <2>0, <2>2, <2>4, PairSlots
  <2>6. IsFiniteSet(X)
    <3>1. IsFiniteSet(GuardedBots \X Handlers)
      BY FS_Product, GuardedParties
    <3> QED
      BY <2>0, <3>1, FS_Subset
  <2>7. IsFiniteSet(E) /\ Cardinality(E) <= Cardinality(X)
    BY <2>5, <2>6, FS_Subset
  <2> QED
    BY <2>0, <2>6, <2>7, FS_CardinalityType DEF PairCapacity
<1>8. ASSUME NEW i \in T, Recently(T)', LosingRun(T, i, N)'
      PROVE  Cardinality(Robots(Between(T, i, N))') + Cardinality(E) <= StreakCount - 1 + PairCapacity
  <2>1. Recently(T) /\ LosingRun(T, i, N)
    BY <1>1, <1>8 DEF Recently, Age, LosingRun, Lost
  <2>2. ~Evaluate(T)
    BY <1>2 DEF CheckPair
  <2>3. Cardinality(Between(T, i, N)) \in Nat /\ Cardinality(Between(T, i, N)) <= StreakCount - 1
    BY <1>3, <1>4, <2>1, <2>2, ShortRun DEF GuardBasics
  <2>4. Between(T, i, N) \in SUBSET (1..N) /\ Robots(Between(T, i, N))' \in SUBSET Between(T, i, N)
    BY <1>4 DEF Between, Robots
  <2>5. Cardinality(Robots(Between(T, i, N))') <= Cardinality(Between(T, i, N))
        /\ Cardinality(Robots(Between(T, i, N))') \in Nat
    <3>1. PICK A, B : A = Between(T, i, N) /\ B = Robots(Between(T, i, N))'
      OBVIOUS
    <3>2. A \in SUBSET (1..N) /\ B \in SUBSET A
      BY <2>4, <3>1
    <3>3. Cardinality(B) <= Cardinality(A) /\ Cardinality(B) \in Nat
      BY <3>2, MoreAbove
    <3> QED
      BY <3>1, <3>3
  <2> QED
    BY <1>7, <2>3, <2>5, GuardSettings
<1>9. Len(closed') = N
  BY <1>1, <1>3
<1> QED
  BY <1>5, <1>6, <1>8, <1>9 DEF PairRoom, PairCapacity

(* A setup that lost, none of its trades having won since, repeats.        *)
LEMMA LostSetupRepeats ==
  ASSUME GuardTyped, NEW N \in Nat, DOMAIN closed = 1..N, NEW w, NEW T, T = OfBoth(w.bot, w.symbol),
         NEW i \in T, closed[i].setup = w.setup,
         Cardinality(Between(T, i, N)) <= SameSetups, \A k \in Alike(T, i, N) : Lost(k)
  PROVE  Repeats(w)
<1>1. T \in SUBSET (1..N)
  BY DEF OfBoth, OfBot
<1>2. \A k \in T : k \in Nat /\ k <= N
  BY <1>1
<1>3. PICK P : P = SameSetup(w)
  OBVIOUS
<1>4. P = {k \in NewestOf(T, SameSetups) : closed[k].setup = w.setup}
  BY <1>3 DEF SameSetup, OfBoth
<1>5. i \in NewestOf(T, SameSetups)
  <2>1. PICK A : A = {j \in T : j > i}
    OBVIOUS
  <2>2. PICK B : B = Between(T, i, N)
    OBVIOUS
  <2>3. B \in SUBSET T /\ i \in B /\ A \in SUBSET B /\ i \notin A
    BY <1>2, <2>1, <2>2 DEF Between
  <2>4. IsFiniteSet(B)
    BY <1>1, <2>3, CountedPositions
  <2>5. Cardinality(A) + 1 <= Cardinality(B) /\ Cardinality(A) \in Nat /\ Cardinality(B) \in Nat
    BY <2>3, <2>4, OneFewer
  <2>6. Cardinality(A) < SameSetups
    BY <2>2, <2>5, GuardSettings
  <2> QED
    BY <2>1, <2>6 DEF NewestOf
<1>6. P \in SUBSET (1..N) /\ i \in P
  BY <1>1, <1>4, <1>5 DEF NewestOf
<1>7. PICK m \in P : m = Max(P) /\ \A u \in P : u <= m
  <2>1. Max(P) \in P /\ \A u \in P : u <= Max(P)
    BY <1>6, MaxIsHighest
  <2> QED
    BY <2>1
<1>8. m \in T /\ closed[m].setup = w.setup /\ i <= m
  BY <1>4, <1>6, <1>7 DEF NewestOf
<1>9. m \in Alike(T, i, N)
  BY <1>2, <1>8 DEF Alike, Between
<1>10. Lost(m)
  BY <1>9
<1> QED
  BY <1>3, <1>6, <1>7, <1>10 DEF Repeats

LEMMA SetupPasses ==
  ASSUME GuardBasics, NEW h \in Handlers, gate[h] = "setup", NEW b \in GuardedBots, NEW s \in Symbols,
         SetupRoom(b, s), ~Repeats(signal[h]), GoOn(h, "insert")
  PROVE  SetupRoom(b, s)'
<1>1. gate' = [gate EXCEPT ![h] = "insert"] /\ UNCHANGED <<hour, open, closed, signal>>
  BY DEF GoOn
<1>2. PICK T : T = OfBoth(b, s)
  OBVIOUS
<1>3. PICK N \in Nat : N = Len(closed) /\ DOMAIN closed = 1..N
  BY ClosedTypes DEF GuardBasics
<1>4. OfBoth(b, s)' = T /\ Len(closed') = N
  BY <1>1, <1>2, <1>3 DEF OfBoth, OfBot, OnPair
<1>5. PICK w : w = signal[h]
  OBVIOUS
<1>6. ASSUME NEW i \in T, Cardinality(Between(T, i, N)) <= SameSetups, closed[i].setup # 0,
             \A k \in Alike(T, i, N) : Lost(k)
      PROVE  Cardinality(Alike(T, i, N)) + Cardinality(DueOfSetup(b, s, closed[i].setup)') <= Cardinality(Servants(b))
  <2>1. ~(w.bot = b /\ w.symbol = s /\ closed[i].setup = w.setup)
    <3> SUFFICES ASSUME w.bot = b, w.symbol = s, closed[i].setup = w.setup PROVE FALSE
      OBVIOUS
    <3>1. T = OfBoth(w.bot, w.symbol)
      BY <1>2
    <3>2. Repeats(w)
      BY <1>3, <1>6, <3>1, LostSetupRepeats DEF GuardBasics
    <3> QED
      BY <1>5, <3>2
  <2>2. h \in Deciders
    BY DEF Deciders
  <2>3. \A g \in Handlers : gate'[g] = "insert" => g = h \/ gate'[g] = gate[g]
    BY <1>1, <2>2 DEF GuardBasics, GuardTyped, Deciders
  <2>4. DueOfSetup(b, s, closed[i].setup)' \subseteq DueOfSetup(b, s, closed[i].setup)
    BY <1>1, <1>5, <2>1, <2>3 DEF DueOfSetup
  <2>5. PICK D, E : D = DueOfSetup(b, s, closed[i].setup) /\ E = DueOfSetup(b, s, closed[i].setup)'
    OBVIOUS
  <2>6. Cardinality(E) <= Cardinality(D) /\ Cardinality(E) \in Nat /\ Cardinality(D) \in Nat
        /\ Cardinality(Servants(b)) \in Nat
    <3>1. IsFiniteSet(D) /\ E \in SUBSET D /\ Cardinality(Servants(b)) \in Nat
      BY <2>4, <2>5, SetupSlots
    <3>2. IsFiniteSet(E) /\ Cardinality(E) <= Cardinality(D)
      BY <3>1, FS_Subset
    <3> QED
      BY <3>1, <3>2, FS_CardinalityType
  <2>7. Cardinality(Alike(T, i, N)) + Cardinality(D) <= Cardinality(Servants(b))
    BY <1>2, <1>3, <1>6, <2>5 DEF SetupRoom
  <2>8. Alike(T, i, N) \in SUBSET (1..N)
    BY <1>2, <1>3 DEF Alike, Between, OfBoth, OfBot
  <2>9. Cardinality(Alike(T, i, N)) \in Nat
    BY <2>8, CountedPositions
  <2> QED
    BY <2>5, <2>6, <2>7, <2>9
<1>7. \A i \in T : Alike(T, i, N)' = Alike(T, i, N) /\ \A k : Lost(k)' <=> Lost(k)
  BY <1>1 DEF Alike, Lost
<1>8. \A i \in T : /\ Cardinality(Between(T, i, N)) <= SameSetups /\ closed'[i].setup # 0
                   /\ \A k \in Alike(T, i, N)' : Lost(k)'
                   => Cardinality(Alike(T, i, N)') + Cardinality(DueOfSetup(b, s, closed[i].setup)') <= Cardinality(Servants(b))
  BY <1>1, <1>6, <1>7
<1> QED
  BY <1>1, <1>4, <1>8 DEF SetupRoom, Servants
-----------------------------------------------------------------------------
(* Of those up to the newest, the newest is from itself on alone.          *)
LEMMA OnlyLast ==
  ASSUME NEW N \in Nat, NEW T \in SUBSET (1..N)
  PROVE  Between(T \cup {N + 1}, N + 1, N + 1) = {N + 1}
<1>1. PICK m : m = N + 1
  OBVIOUS
<1>2. \A k \in T : ~(m <= k)
  <2> SUFFICES ASSUME NEW k \in T PROVE ~(m <= k)
    OBVIOUS
  <2>1. k \in Nat /\ k <= N
    OBVIOUS
  <2> QED
    BY <1>1, <2>1
<1>3. m <= m
  BY <1>1
<1>4. Between(T \cup {m}, m, m) = {m}
  BY <1>2, <1>3 DEF Between
<1> QED
  BY <1>1, <1>4

(* A trade closes: of its bot one more is in the run, and one fewer due.   *)
LEMMA BotCloses ==
  ASSUME GuardBasics, GuardBasics', NEW t \in DOMAIN open, CloseOne(t), NEW b \in GuardedBots, BotRoom(b)
  PROVE  BotRoom(b)'
<1>1. PICK N \in Nat : N = Len(closed) /\ DOMAIN closed = 1..N
  BY ClosedTypes DEF GuardBasics
<1>2. open' = open (-) SetToBag({t}) /\ UNCHANGED <<hour, gate, signal>>
  BY DEF CloseOne
<1>3. /\ Len(closed') = N + 1 /\ DOMAIN closed' = 1..(N + 1)
      /\ \A i \in DOMAIN closed : closed'[i] = closed[i]
      /\ closed'[N + 1].bot = t.bot /\ closed'[N + 1].at = hour
  <2>1. PICK p \in Losings, k \in {t.setup, 0} :
           /\ closed' \in Seq(ClosedTrade)
           /\ Len(closed') = Len(closed) + 1 /\ DOMAIN closed' = 1..(Len(closed) + 1)
           /\ \A i \in DOMAIN closed : closed'[i] = closed[i]
           /\ closed'[Len(closed) + 1] = [bot |-> t.bot, symbol |-> t.symbol, setup |-> k, pnl |-> p, at |-> hour]
    BY CloseAppends, Zenon DEF GuardBasics
  <2> QED
    BY <1>1, <2>1
<1>4. hour <= hour' /\ DOMAIN open' \subseteq DOMAIN open
  <2>1. hour \in Nat
    BY DEF GuardBasics, GuardTyped
  <2>2. DOMAIN open' \subseteq DOMAIN open
    BY <1>2, DropBasics
  <2> QED
    BY <1>2, <2>1, <2>2
<1>5. NoMoreOfBot(b)
  BY <1>2, <1>4, FewerDue DEF NoMoreDue
<1>6. PICK T : T = OfBot(b)
  OBVIOUS
<1>7. T \in SUBSET (1..N) /\ \A k \in T : closed'[k] = closed[k]
  BY <1>1, <1>3, <1>6 DEF OfBot
<1>8. \A k \in 1..N : k \in DOMAIN closed' /\ closed'[k] = closed[k]
  BY <1>1, <1>3
<1>9. DOMAIN closed' = 1..N \cup {N + 1}
  BY <1>3
<1>10. CASE t.bot # b
  <2>1. OfBot(b)' = T
    BY <1>1, <1>3, <1>6, <1>8, <1>9, <1>10 DEF OfBot
  <2>2. Len(closed) <= Len(closed')
    BY <1>1, <1>3
  <2> QED
    BY <1>4, <1>5, <1>6, <1>7, <2>1, <2>2, BotRoomStays
<1>11. CASE t.bot = b
  <2>1. OfBot(b)' = T \cup {N + 1}
    BY <1>1, <1>3, <1>6, <1>8, <1>9, <1>11 DEF OfBot
  <2>2. PICK D, E : D = DueOfBot(b) /\ E = DueOfBot(b)'
    OBVIOUS
  <2>3. Cardinality(E) + 1 <= Cardinality(D) /\ Cardinality(E) \in Nat /\ Cardinality(D) \in Nat
        /\ Cardinality(D) <= Capacity(b) /\ Capacity(b) \in Nat
    <3>1. <<t.symbol, t.by>> \in D \ E
      BY <1>2, <1>11, <2>2, ClosedIsDueNoMore
    <3>2. E \in SUBSET D
      BY <1>5, <2>2 DEF NoMoreOfBot
    <3>3. IsFiniteSet(D) /\ Cardinality(D) <= Capacity(b) /\ Capacity(b) \in Nat
      BY <2>2, BotSlots
    <3> QED
      BY <3>1, <3>2, <3>3, OneFewer
  <2>4. ASSUME NEW i \in T \cup {N + 1}, LosingRun(T \cup {N + 1}, i, N + 1)'
        PROVE  Cardinality(Between(T \cup {N + 1}, i, N + 1)) + Cardinality(E) <= StreakCount - 1 + Capacity(b)
    <3>1. CASE i = N + 1
      <4>1. Between(T \cup {N + 1}, N + 1, N + 1) = {N + 1}
        BY <1>7, OnlyLast
      <4>2. Between(T \cup {N + 1}, i, N + 1) = {N + 1}
        BY <3>1, <4>1
      <4>3. Cardinality({N + 1}) = 1
        BY FS_Singleton
      <4>4. Cardinality(Between(T \cup {N + 1}, i, N + 1)) = 1
        BY <4>2, <4>3
      <4>5. PICK e, c, k : e = Cardinality(E) /\ c = Capacity(b) /\ k = StreakCount
        OBVIOUS
      <4>6. e \in Nat /\ c \in Nat /\ k \in Nat \ {0} /\ e + 1 <= c
        BY <2>3, <4>5, GuardSettings
      <4>7. 1 + e <= k - 1 + c
        BY <4>6
      <4> QED
        BY <4>4, <4>5, <4>7
    <3>2. CASE i \in T
      <4>1. /\ Recently(T) /\ LosingRun(T, i, N)
            /\ Between(T \cup {N + 1}, i, N + 1) = Between(T, i, N) \cup {N + 1} /\ N + 1 \notin Between(T, i, N)
        BY <1>1, <1>3, <1>7, <2>4, <3>2, RunGrows
      <4>2. Cardinality(Between(T, i, N)) + Cardinality(D) <= StreakCount - 1 + Capacity(b)
        BY <1>1, <1>6, <2>2, <3>2, <4>1 DEF BotRoom
      <4>3. Between(T, i, N) \in SUBSET (1..N)
        BY <1>7 DEF Between
      <4>4. IsFiniteSet(Between(T, i, N)) /\ Cardinality(Between(T, i, N)) \in Nat
        BY <4>3, CountedPositions
      <4>5. Cardinality(Between(T, i, N) \cup {N + 1}) = Cardinality(Between(T, i, N)) + 1
        BY <4>1, <4>4, FS_AddElement
      <4>6. PICK c, d, e : c = Cardinality(Between(T, i, N)) /\ d = Cardinality(D) /\ e = Cardinality(E)
        OBVIOUS
      <4>7. Cardinality(Between(T \cup {N + 1}, i, N + 1)) = c + 1
        BY <4>1, <4>5, <4>6
      <4>8. c \in Nat /\ d \in Nat /\ e \in Nat /\ e + 1 <= d /\ c + d <= StreakCount - 1 + Capacity(b)
            /\ Capacity(b) \in Nat /\ StreakCount \in Nat
        BY <2>3, <4>2, <4>4, <4>6, GuardSettings
      <4>9. (c + 1) + e <= StreakCount - 1 + Capacity(b)
        BY <4>8
      <4> QED
        BY <4>6, <4>7, <4>9
    <3> QED
      BY <3>1, <3>2
  <2> QED
    BY <1>3, <2>1, <2>2, <2>4 DEF BotRoom, Capacity, Servants
<1> QED
  BY <1>10, <1>11

LEMMA PairCloses ==
  ASSUME GuardBasics, GuardBasics', NEW t \in DOMAIN open, CloseOne(t), NEW s \in Symbols, PairRoom(s)
  PROVE  PairRoom(s)'
<1>1. PICK N \in Nat : N = Len(closed) /\ DOMAIN closed = 1..N
  BY ClosedTypes DEF GuardBasics
<1>2. open' = open (-) SetToBag({t}) /\ UNCHANGED <<hour, gate, signal>>
  BY DEF CloseOne
<1>3. /\ Len(closed') = N + 1 /\ DOMAIN closed' = 1..(N + 1)
      /\ \A i \in DOMAIN closed : closed'[i] = closed[i]
      /\ closed'[N + 1].bot = t.bot /\ closed'[N + 1].symbol = t.symbol /\ closed'[N + 1].at = hour
  <2>1. PICK p \in Losings, k \in {t.setup, 0} :
           /\ closed' \in Seq(ClosedTrade)
           /\ Len(closed') = Len(closed) + 1 /\ DOMAIN closed' = 1..(Len(closed) + 1)
           /\ \A i \in DOMAIN closed : closed'[i] = closed[i]
           /\ closed'[Len(closed) + 1] = [bot |-> t.bot, symbol |-> t.symbol, setup |-> k, pnl |-> p, at |-> hour]
    BY CloseAppends, Zenon DEF GuardBasics
  <2> QED
    BY <1>1, <2>1
<1>4. hour <= hour' /\ DOMAIN open' \subseteq DOMAIN open
  <2>1. hour \in Nat
    BY DEF GuardBasics, GuardTyped
  <2>2. DOMAIN open' \subseteq DOMAIN open
    BY <1>2, DropBasics
  <2> QED
    BY <1>2, <2>1, <2>2
<1>5. NoMoreOnPair(s)
  BY <1>2, <1>4, FewerDue DEF NoMoreDue
<1>6. PICK T : T = OnPair(s)
  OBVIOUS
<1>7. T \in SUBSET (1..N) /\ \A k \in T : closed'[k] = closed[k]
  BY <1>1, <1>3, <1>6 DEF OnPair
<1>8. \A k \in 1..N : k \in DOMAIN closed' /\ closed'[k] = closed[k]
  BY <1>1, <1>3
<1>9. DOMAIN closed' = 1..N \cup {N + 1}
  BY <1>3
<1>10. CASE t.symbol # s
  <2>1. OnPair(s)' = T
    BY <1>1, <1>3, <1>6, <1>8, <1>9, <1>10 DEF OnPair
  <2>2. Len(closed) <= Len(closed')
    BY <1>1, <1>3
  <2> QED
    BY <1>4, <1>5, <1>6, <1>7, <2>1, <2>2, PairRoomStays
<1>11. CASE t.symbol = s
  <2>1. OnPair(s)' = T \cup {N + 1}
    BY <1>1, <1>3, <1>6, <1>8, <1>9, <1>11 DEF OnPair
  <2>2. PICK D, E : D = DueOnPair(s) /\ E = DueOnPair(s)'
    OBVIOUS
  <2>3. /\ Cardinality(E) <= Cardinality(D) /\ Cardinality(E) \in Nat /\ Cardinality(D) \in Nat
        /\ Cardinality(D) <= PairCapacity /\ PairCapacity \in Nat
        /\ t.bot \in GuardedBots => Cardinality(E) + 1 <= Cardinality(D)
    <3>1. t.bot \in GuardedBots => <<t.bot, t.by>> \in D \ E
      BY <1>2, <1>11, <2>2, ClosedIsDueNoMore
    <3>2. E \in SUBSET D
      BY <1>5, <2>2 DEF NoMoreOnPair
    <3>3. IsFiniteSet(D) /\ Cardinality(D) <= PairCapacity /\ PairCapacity \in Nat
      BY <2>2, PairSlots
    <3>4. IsFiniteSet(E) /\ Cardinality(E) <= Cardinality(D)
      BY <3>2, <3>3, FS_Subset
    <3>5. Cardinality(E) \in Nat /\ Cardinality(D) \in Nat
      BY <3>3, <3>4, FS_CardinalityType
    <3> QED
      BY <3>1, <3>2, <3>3, <3>4, <3>5, OneFewer
  <2>4. ASSUME NEW i \in T \cup {N + 1}, LosingRun(T \cup {N + 1}, i, N + 1)'
        PROVE  Cardinality(Robots(Between(T \cup {N + 1}, i, N + 1))') + Cardinality(E) <= StreakCount - 1 + PairCapacity
    <3>0. PICK R : R = Robots(Between(T \cup {N + 1}, i, N + 1))'
      OBVIOUS
    <3>1. CASE i = N + 1
      <4>1. Between(T \cup {N + 1}, N + 1, N + 1) = {N + 1}
        BY <1>7, OnlyLast
      <4>2. Between(T \cup {N + 1}, i, N + 1) = {N + 1}
        BY <3>1, <4>1
      <4>3. R = IF t.bot \in GuardedBots THEN {N + 1} ELSE {}
        BY <1>3, <3>0, <4>2 DEF Robots
      <4>4. Cardinality({N + 1}) = 1 /\ Cardinality({}) = 0
        BY FS_Singleton, FS_EmptySet
      <4>5. Cardinality(R) + Cardinality(E) <= PairCapacity /\ Cardinality(R) \in Nat
        BY <2>3, <4>3, <4>4
      <4> QED
        BY <2>3, <3>0, <4>5, GuardSettings
    <3>2. CASE i \in T
      <4>1. /\ Recently(T) /\ LosingRun(T, i, N)
            /\ Between(T \cup {N + 1}, i, N + 1) = Between(T, i, N) \cup {N + 1} /\ N + 1 \notin Between(T, i, N)
        BY <1>1, <1>3, <1>7, <2>4, <3>2, RunGrows
      <4>2. PICK Q : Q = Robots(Between(T, i, N))
        OBVIOUS
      <4>3. Cardinality(Q) + Cardinality(D) <= StreakCount - 1 + PairCapacity
        BY <1>1, <1>6, <2>2, <3>2, <4>1, <4>2 DEF PairRoom
      <4>4. Q \in SUBSET (1..N) /\ N + 1 \notin Q /\ Between(T, i, N) \subseteq T
        BY <1>7, <4>1, <4>2 DEF Between, Robots
      <4>5. IsFiniteSet(Q) /\ Cardinality(Q) \in Nat
        BY <4>4, CountedPositions
      <4>6. R = IF t.bot \in GuardedBots THEN Q \cup {N + 1} ELSE Q
        BY <1>3, <1>7, <3>0, <4>1, <4>2, <4>4 DEF Robots
      <4>7. Cardinality(Q \cup {N + 1}) = Cardinality(Q) + 1
        BY <4>4, <4>5, FS_AddElement
      <4>8. PICK q, d, e, c, k : /\ q = Cardinality(Q) /\ d = Cardinality(D) /\ e = Cardinality(E)
                                /\ c = PairCapacity /\ k = StreakCount
        OBVIOUS
      <4>9. /\ q \in Nat /\ d \in Nat /\ e \in Nat /\ c \in Nat /\ k \in Nat
            /\ q + d <= k - 1 + c /\ e <= d
            /\ t.bot \in GuardedBots => e + 1 <= d
        BY <2>3, <4>3, <4>5, <4>8, GuardSettings
      <4>10. CASE t.bot \in GuardedBots
        <5>1. Cardinality(R) = q + 1
          BY <4>6, <4>7, <4>8, <4>10
        <5>2. q + 1 + e <= k - 1 + c
          BY <4>9, <4>10
        <5> QED
          BY <3>0, <4>8, <5>1, <5>2
      <4>11. CASE t.bot \notin GuardedBots
        <5>1. Cardinality(R) = q
          BY <4>6, <4>8, <4>11
        <5>2. q + e <= k - 1 + c
          BY <4>9
        <5> QED
          BY <3>0, <4>8, <5>1, <5>2
      <4> QED
        BY <4>10, <4>11
    <3> QED
      BY <3>1, <3>2
  <2> QED
    BY <1>3, <2>1, <2>2, <2>4 DEF PairRoom, PairCapacity
<1> QED
  BY <1>10, <1>11

LEMMA SetupCloses ==
  ASSUME GuardBasics, GuardBasics', NEW t \in DOMAIN open, CloseOne(t),
         NEW b \in GuardedBots, NEW s \in Symbols, SetupRoom(b, s)
  PROVE  SetupRoom(b, s)'
<1>1. PICK N \in Nat : N = Len(closed) /\ DOMAIN closed = 1..N
  BY ClosedTypes DEF GuardBasics
<1>2. open' = open (-) SetToBag({t}) /\ UNCHANGED <<hour, gate, signal>>
  BY DEF CloseOne
<1>3. /\ Len(closed') = N + 1 /\ DOMAIN closed' = 1..(N + 1)
      /\ \A i \in DOMAIN closed : closed'[i] = closed[i]
      /\ closed'[N + 1].bot = t.bot /\ closed'[N + 1].symbol = t.symbol
      /\ closed'[N + 1].setup \in {t.setup, 0}
  <2>1. PICK p \in Losings, k \in {t.setup, 0} :
           /\ closed' \in Seq(ClosedTrade)
           /\ Len(closed') = Len(closed) + 1 /\ DOMAIN closed' = 1..(Len(closed) + 1)
           /\ \A i \in DOMAIN closed : closed'[i] = closed[i]
           /\ closed'[Len(closed) + 1] = [bot |-> t.bot, symbol |-> t.symbol, setup |-> k, pnl |-> p, at |-> hour]
    BY CloseAppends, Zenon DEF GuardBasics
  <2> QED
    BY <1>1, <2>1
<1>4. DOMAIN open' \subseteq DOMAIN open
  BY <1>2, DropBasics
<1>5. \A k : DueOfSetup(b, s, k)' \subseteq DueOfSetup(b, s, k)
  BY <1>2, <1>4, FewerDue DEF NoMoreDue, NoMoreOfSetup
<1>6. PICK T : T = OfBoth(b, s)
  OBVIOUS
<1>7. T \in SUBSET (1..N) /\ (\A k \in T : closed'[k] = closed[k]) /\ \A k \in T : k <= N /\ k <= N + 1
  BY <1>1, <1>3, <1>6 DEF OfBoth, OfBot
<1>8. \A k \in 1..N : k \in DOMAIN closed' /\ closed'[k] = closed[k]
  BY <1>1, <1>3
<1>9. DOMAIN closed' = 1..N \cup {N + 1}
  BY <1>3
<1>10. CASE ~(t.bot = b /\ t.symbol = s)
  <2>1. OfBoth(b, s)' = T
    BY <1>1, <1>3, <1>6, <1>8, <1>9, <1>10 DEF OfBoth, OfBot, OnPair
  <2>2. Len(closed) <= Len(closed')
    BY <1>1, <1>3
  <2> QED
    BY <1>5, <1>6, <1>7, <2>1, <2>2, SetupRoomStays DEF NoMoreOfSetup
<1>11. CASE t.bot = b /\ t.symbol = s
  <2>1. OfBoth(b, s)' = T \cup {N + 1}
    BY <1>1, <1>3, <1>6, <1>8, <1>9, <1>11 DEF OfBoth, OfBot, OnPair
  <2>2. PICK q : q = closed'[N + 1].setup
    OBVIOUS
  <2>3. ASSUME NEW n, n # 0
        PROVE  /\ Cardinality(DueOfSetup(b, s, n)') <= Cardinality(DueOfSetup(b, s, n))
               /\ q = n => Cardinality(DueOfSetup(b, s, n)') + 1 <= Cardinality(DueOfSetup(b, s, n))
               /\ Cardinality(DueOfSetup(b, s, n)) \in Nat /\ Cardinality(DueOfSetup(b, s, n)') \in Nat
               /\ Cardinality(DueOfSetup(b, s, n)) <= Cardinality(Servants(b)) /\ Cardinality(Servants(b)) \in Nat
    <3>1. PICK D, E : D = DueOfSetup(b, s, n) /\ E = DueOfSetup(b, s, n)'
      OBVIOUS
    <3>2. q = n => t.by \in D \ E
      <4>1. q = n => n = t.setup
        BY <1>3, <2>2, <2>3
      <4> QED
        BY <1>2, <1>11, <3>1, <4>1, ClosedIsDueNoMore
    <3>3. E \in SUBSET D
      BY <1>5, <3>1
    <3>4. IsFiniteSet(D) /\ Cardinality(D) <= Cardinality(Servants(b)) /\ Cardinality(Servants(b)) \in Nat
      BY <3>1, SetupSlots
    <3>5. IsFiniteSet(E) /\ Cardinality(E) <= Cardinality(D)
      BY <3>3, <3>4, FS_Subset
    <3>6. Cardinality(E) \in Nat /\ Cardinality(D) \in Nat
      BY <3>4, <3>5, FS_CardinalityType
    <3>7. q = n => Cardinality(E) + 1 <= Cardinality(D)
      BY <3>2, <3>3, <3>4, OneFewer
    <3> QED
      BY <3>1, <3>4, <3>5, <3>6, <3>7
  <2>4. ASSUME NEW i \in T \cup {N + 1}, Cardinality(Between(T \cup {N + 1}, i, N + 1)) <= SameSetups,
               closed'[i].setup # 0, \A k \in Alike(T \cup {N + 1}, i, N + 1)' : Lost(k)',
               NEW n, n = closed'[i].setup
        PROVE  Cardinality(Alike(T \cup {N + 1}, i, N + 1)') + Cardinality(DueOfSetup(b, s, n)')
                 <= Cardinality(Servants(b))
    <3>0. PICK R : R = Alike(T \cup {N + 1}, i, N + 1)'
      OBVIOUS
    <3>1. CASE i = N + 1
      <4>1. Between(T \cup {N + 1}, N + 1, N + 1) = {N + 1}
        BY <1>7, OnlyLast
      <4>2. Between(T \cup {N + 1}, i, N + 1) = {N + 1}
        BY <3>1, <4>1
      <4>3. R = {N + 1}
        BY <3>0, <3>1, <4>2 DEF Alike, Between
      <4>4. Cardinality({N + 1}) = 1
        BY FS_Singleton
      <4> QED
        BY <2>2, <2>3, <2>4, <3>0, <3>1, <4>3, <4>4
    <3>2. CASE i \in T
      <4>1. PICK B : B = Between(T, i, N)
        OBVIOUS
      <4>2. Between(T \cup {N + 1}, i, N + 1) = B \cup {N + 1} /\ N + 1 \notin B /\ B \in SUBSET T /\ N + 1 \notin T
        <5>1. PICK m : m = N + 1
          OBVIOUS
        <5>2. i <= m /\ m <= m /\ ~(m <= N) /\ m \notin T
          BY <1>7, <3>2, <5>1
        <5>3. Between(T \cup {m}, i, m) = {k \in T : i <= k /\ k <= N} \cup {m}
          BY <1>7, <5>1, <5>2 DEF Between
        <5> QED
          BY <4>1, <5>1, <5>2, <5>3 DEF Between
      <4>3. IsFiniteSet(B) /\ Cardinality(B) \in Nat
        <5>1. B \in SUBSET (1..N)
          BY <1>7, <4>2
        <5> QED
          BY <5>1, CountedPositions
      <4>4. Cardinality(B \cup {N + 1}) = Cardinality(B) + 1
        BY <4>2, <4>3, FS_AddElement
      <4>5. Cardinality(B) <= SameSetups
        <5>1. Cardinality(Between(T \cup {N + 1}, i, N + 1)) = Cardinality(B) + 1
          BY <4>2, <4>4
        <5>2. Cardinality(B) + 1 <= SameSetups
          BY <2>4, <5>1
        <5> QED
          BY <4>3, <5>2, GuardSettings
      <4>6. PICK Q : Q = Alike(T, i, N)
        OBVIOUS
      <4>7. Q = {k \in B : closed[k].setup = n} /\ n = closed[i].setup /\ n # 0
        BY <1>7, <2>4, <3>2, <4>1, <4>6 DEF Alike
      <4>8. R = IF q = n THEN Q \cup {N + 1} ELSE Q
        <5>1. R = {k \in B \cup {N + 1} : closed'[k].setup = n}
          BY <2>4, <3>0, <4>2 DEF Alike, Between
        <5>2. \A k \in B : closed'[k] = closed[k]
          BY <1>7, <4>2
        <5> QED
          BY <2>2, <4>7, <5>1, <5>2
      <4>9. \A k \in Q : Lost(k)
        <5>1. Q \subseteq R /\ Q \subseteq T
          BY <4>2, <4>7, <4>8
        <5>2. \A k \in R : closed'[k].pnl < 0
          BY <2>4, <3>0 DEF Lost
        <5> QED
          BY <1>7, <5>1, <5>2 DEF Lost
      <4>10. Cardinality(Q) + Cardinality(DueOfSetup(b, s, n)) <= Cardinality(Servants(b))
        BY <1>1, <1>6, <3>2, <4>1, <4>5, <4>6, <4>7, <4>9 DEF SetupRoom
      <4>11. Q \in SUBSET (1..N) /\ N + 1 \notin Q
        BY <1>7, <4>2, <4>7
      <4>12. IsFiniteSet(Q) /\ Cardinality(Q) \in Nat
        BY <4>11, CountedPositions
      <4>13. Cardinality(Q \cup {N + 1}) = Cardinality(Q) + 1
        BY <4>11, <4>12, FS_AddElement
      <4>14. n # 0
        BY <4>7
      <4>15. PICK c, d, e, v : /\ c = Cardinality(Q) /\ d = Cardinality(DueOfSetup(b, s, n))
                               /\ e = Cardinality(DueOfSetup(b, s, n)') /\ v = Cardinality(Servants(b))
        OBVIOUS
      <4>16. /\ c \in Nat /\ d \in Nat /\ e \in Nat /\ v \in Nat /\ e <= d /\ (q = n => e + 1 <= d)
             /\ c + d <= v
        BY <2>3, <4>10, <4>12, <4>14, <4>15
      <4>17. Cardinality(R) = IF q = n THEN c + 1 ELSE c
        BY <4>8, <4>13, <4>15
      <4>18. Cardinality(R) + e <= v
        BY <4>16, <4>17
      <4> QED
        BY <3>0, <4>15, <4>18
    <3> QED
      BY <3>1, <3>2
  <2>5. \A i \in OfBoth(b, s)' :
          /\ Cardinality(Between(OfBoth(b, s)', i, Len(closed'))) <= SameSetups
          /\ closed'[i].setup # 0
          /\ \A k \in Alike(T \cup {N + 1}, i, N + 1)' : Lost(k)'
          => Cardinality(Alike(T \cup {N + 1}, i, N + 1)') + Cardinality(DueOfSetup(b, s, closed[i].setup)')
               <= Cardinality(Servants(b))
    <3>1. ASSUME NEW i \in T \cup {N + 1}, NEW n, n = closed'[i].setup
          PROVE  DueOfSetup(b, s, closed[i].setup)' = DueOfSetup(b, s, n)'
      BY <3>1 DEF DueOfSetup
    <3> QED
      BY <1>3, <2>1, <2>4, <3>1
  <2> QED
    BY <1>3, <2>1, <2>5 DEF SetupRoom, Servants
<1> QED
  BY <1>10, <1>11
-----------------------------------------------------------------------------
(* What a step of CloseOne makes of the closed trades of one kind.         *)
LEMMA CloseExtends ==
  ASSUME GuardTyped, NEW t \in DOMAIN open, CloseOne(t), NEW N, N = Len(closed)
  PROVE  /\ N \in Nat /\ DOMAIN closed = 1..N /\ Len(closed') = N + 1
         /\ \A k \in 1..N : closed'[k] = closed[k]
         /\ closed'[N + 1].bot = t.bot /\ closed'[N + 1].symbol = t.symbol /\ closed'[N + 1].at = hour
         /\ \A b : OfBot(b) \in SUBSET (1..N)
                   /\ OfBot(b)' = IF t.bot = b THEN OfBot(b) \cup {N + 1} ELSE OfBot(b)
         /\ \A s : OnPair(s) \in SUBSET (1..N)
                   /\ OnPair(s)' = IF t.symbol = s THEN OnPair(s) \cup {N + 1} ELSE OnPair(s)
<1>1. N \in Nat /\ DOMAIN closed = 1..N
  BY ClosedTypes
<1>2. /\ Len(closed') = N + 1 /\ DOMAIN closed' = 1..(N + 1)
      /\ \A i \in DOMAIN closed : closed'[i] = closed[i]
      /\ closed'[N + 1].bot = t.bot /\ closed'[N + 1].symbol = t.symbol /\ closed'[N + 1].at = hour
  <2>1. PICK p \in Losings, k \in {t.setup, 0} :
           /\ closed' \in Seq(ClosedTrade)
           /\ Len(closed') = Len(closed) + 1 /\ DOMAIN closed' = 1..(Len(closed) + 1)
           /\ \A i \in DOMAIN closed : closed'[i] = closed[i]
           /\ closed'[Len(closed) + 1] = [bot |-> t.bot, symbol |-> t.symbol, setup |-> k, pnl |-> p, at |-> hour]
    BY CloseAppends, Zenon
  <2> QED
    BY <2>1
<1>3. DOMAIN closed' = 1..N \cup {N + 1}
  BY <1>1, <1>2
<1>4. \A k \in 1..N : k \in DOMAIN closed' /\ closed'[k] = closed[k]
  BY <1>1, <1>2
<1>5. \A b : OfBot(b) \in SUBSET (1..N) /\ OfBot(b)' = IF t.bot = b THEN OfBot(b) \cup {N + 1} ELSE OfBot(b)
  BY <1>1, <1>2, <1>3, <1>4 DEF OfBot
<1>6. \A s : OnPair(s) \in SUBSET (1..N) /\ OnPair(s)' = IF t.symbol = s THEN OnPair(s) \cup {N + 1} ELSE OnPair(s)
  BY <1>1, <1>2, <1>3, <1>4 DEF OnPair
<1> QED
  BY <1>1, <1>2, <1>4, <1>5, <1>6

(* Two closed trades of a list that is as it was, or has one more.         *)
LEMMA OlderRuns ==
  ASSUME NEW N \in Nat, NEW T \in SUBSET (1..N), \A k \in T : closed'[k] = closed[k],
         NEW U, U = T \/ U = T \cup {N + 1}, NEW i \in U, NEW j \in T
  PROVE  \/ i \in T /\ Between(U, i, j) = Between(T, i, j) /\ (LosingRun(U, i, j)' => LosingRun(T, i, j))
         \/ Between(U, i, j) = {}
<1>1. CASE U = T
  BY <1>1, RunSame
<1>2. CASE U = T \cup {N + 1} /\ i \in T
  BY <1>2, RunStays
<1>3. CASE U = T \cup {N + 1} /\ i = N + 1
  <2>1. PICK m : m = N + 1
    OBVIOUS
  <2>2. j \in Nat /\ j <= N
    OBVIOUS
  <2>3. ASSUME NEW k \in Between(U, i, j) PROVE FALSE
    <3>1. k \in T \cup {m} /\ m <= k /\ k <= j
      BY <1>3, <2>1 DEF Between
    <3>2. \A l \in T : l \in Nat /\ l <= N
      OBVIOUS
    <3> QED
      BY <2>1, <2>2, <3>1, <3>2
  <2> QED
    BY <2>3
<1> QED
  BY <1>1, <1>2, <1>3

LEMMA JustClosed ==
  ASSUME GuardTyped, NEW N \in Nat, NEW U \in SUBSET (1..(N + 1)), N + 1 \in U,
         closed'[N + 1].at = hour, hour' = hour
  PROVE  Recently(U)'
<1>1. \A m \in U : m <= N + 1
  OBVIOUS
<1>2. hour \in Nat /\ hour' - closed'[N + 1].at = 0 /\ 0 <= Staleness
  BY GuardSettings DEF GuardTyped
<1>3. N + 1 \in U /\ (\A m \in U : m <= N + 1) /\ hour' - closed'[N + 1].at <= Staleness
  BY <1>1, <1>2
<1> QED
  BY <1>3 DEF Recently, Age

LEMMA BotRunsKept ==
  ASSUME GuardBasics, NEW t \in DOMAIN open, CloseOne(t), BotRunsEnd, \A b \in GuardedBots : BotRoom(b)'
  PROVE  BotRunsEnd'
<1>1. PICK N : N = Len(closed)
  OBVIOUS
<1>2. open' = open (-) SetToBag({t}) /\ UNCHANGED <<hour, gate, signal>>
  BY DEF CloseOne
<1>3. NoMoreDue
  <2>1. DOMAIN open' \subseteq DOMAIN open
    BY <1>2, DropBasics
  <2> QED
    BY <1>2, <2>1, FewerDue
<1>4. /\ N \in Nat /\ DOMAIN closed = 1..N /\ Len(closed') = N + 1
      /\ \A k \in 1..N : closed'[k] = closed[k]
      /\ closed'[N + 1].at = hour
      /\ \A b : OfBot(b) \in SUBSET (1..N)
                /\ OfBot(b)' = IF t.bot = b THEN OfBot(b) \cup {N + 1} ELSE OfBot(b)
  BY <1>1, CloseExtends DEF GuardBasics
<1>5. ASSUME NEW b \in GuardedBots, NEW i \in OfBot(b)', NEW j \in OfBot(b)', LosingRun(OfBot(b), i, j)'
      PROVE  Cardinality(Between(OfBot(b)', i, j)) <= StreakCount - 1 + Capacity(b)
  <2>1. PICK T, U : T = OfBot(b) /\ U = OfBot(b)'
    OBVIOUS
  <2>2. T \in SUBSET (1..N) /\ (U = T \/ U = T \cup {N + 1}) /\ i \in U /\ j \in U /\ \A k \in T : closed'[k] = closed[k]
    BY <1>4, <1>5, <2>1
  <2>3. LosingRun(U, i, j)'
    BY <1>5, <2>1 DEF LosingRun, Between, Lost
  <2>4. Capacity(b) \in Nat /\ IsFiniteSet(DueOfBot(b))
    BY BotSlots
  <2>5. CASE j \in T
    <3>1. \/ i \in T /\ Between(U, i, j) = Between(T, i, j) /\ LosingRun(T, i, j)
          \/ Between(U, i, j) = {}
      BY <1>4, <2>2, <2>3, <2>5, OlderRuns
    <3>2. CASE Between(U, i, j) = {}
      BY <2>1, <2>4, <3>2, FS_EmptySet, GuardSettings
    <3>3. CASE i \in T /\ Between(U, i, j) = Between(T, i, j) /\ LosingRun(T, i, j)
      BY <2>1, <2>5, <3>3 DEF BotRunsEnd
    <3> QED
      BY <3>1, <3>2, <3>3
  <2>6. CASE j \notin T
    <3>1. j = N + 1 /\ N + 1 \in U /\ U \in SUBSET (1..(N + 1))
      <4>1. \A k \in 1..N : k \in 1..(N + 1)
        BY <1>4
      <4>2. N + 1 \in 1..(N + 1)
        BY <1>4
      <4>3. PICK m : m = N + 1
        OBVIOUS
      <4>4. U = T \cup {m} /\ j = m
        BY <2>2, <2>6, <4>3
      <4> QED
        BY <2>2, <4>1, <4>2, <4>3, <4>4
    <3>2. Recently(U)'
      BY <1>2, <1>4, <3>1, JustClosed DEF GuardBasics
    <3>3. PICK E : E = DueOfBot(b)'
      OBVIOUS
    <3>4. Cardinality(Between(U, i, N + 1)) + Cardinality(E) <= StreakCount - 1 + Capacity(b)
      BY <1>4, <2>1, <2>2, <2>3, <3>1, <3>2, <3>3 DEF BotRoom, Capacity, Servants
    <3>5. E \in SUBSET DueOfBot(b)
      BY <1>3, <3>3 DEF NoMoreDue, NoMoreOfBot
    <3>6. IsFiniteSet(E)
      BY <2>4, <3>5, FS_Subset
    <3>7. Cardinality(E) \in Nat
      BY <3>6, FS_CardinalityType
    <3>8. Between(U, i, N + 1) \in SUBSET (1..(N + 1)) /\ N + 1 \in Nat
      <4>1. Between(U, i, N + 1) \subseteq U
        BY DEF Between
      <4>2. Between(U, i, N + 1) \in SUBSET (1..(N + 1))
        BY <3>1, <4>1
      <4>3. N + 1 \in Nat
        BY <1>4
      <4> QED
        BY <4>2, <4>3
    <3>9. Cardinality(Between(U, i, N + 1)) \in Nat
      BY <3>8, CountedPositions
    <3>10. Cardinality(Between(U, i, N + 1)) <= StreakCount - 1 + Capacity(b)
      <4>1. PICK n, e, c, k : /\ n = Cardinality(Between(U, i, N + 1)) /\ e = Cardinality(E)
                             /\ c = Capacity(b) /\ k = StreakCount
        OBVIOUS
      <4>2. n \in Nat /\ e \in Nat /\ c \in Nat /\ k \in Nat /\ n + e <= k - 1 + c
        BY <2>4, <3>4, <3>7, <3>9, <4>1, GuardSettings
      <4>3. n <= k - 1 + c
        BY <4>2
      <4> QED
        BY <4>1, <4>3
    <3> QED
      BY <2>1, <3>1, <3>10
  <2> QED
    BY <2>5, <2>6
<1> QED
  BY <1>5 DEF BotRunsEnd, Capacity, Servants

LEMMA PairRunsKept ==
  ASSUME GuardBasics, NEW t \in DOMAIN open, CloseOne(t), PairRunsEnd, \A s \in Symbols : PairRoom(s)'
  PROVE  PairRunsEnd'
<1>1. PICK N : N = Len(closed)
  OBVIOUS
<1>2. open' = open (-) SetToBag({t}) /\ UNCHANGED <<hour, gate, signal>>
  BY DEF CloseOne
<1>3. NoMoreDue
  <2>1. DOMAIN open' \subseteq DOMAIN open
    BY <1>2, DropBasics
  <2> QED
    BY <1>2, <2>1, FewerDue
<1>4. /\ N \in Nat /\ DOMAIN closed = 1..N /\ Len(closed') = N + 1
      /\ \A k \in 1..N : closed'[k] = closed[k]
      /\ closed'[N + 1].at = hour
      /\ \A s : OnPair(s) \in SUBSET (1..N)
                /\ OnPair(s)' = IF t.symbol = s THEN OnPair(s) \cup {N + 1} ELSE OnPair(s)
  BY <1>1, CloseExtends DEF GuardBasics
<1>5. ASSUME NEW s \in Symbols, NEW i \in OnPair(s)', NEW j \in OnPair(s)', LosingRun(OnPair(s), i, j)'
      PROVE  Cardinality({k \in Between(OnPair(s)', i, j) : closed'[k].bot \in GuardedBots})
               <= StreakCount - 1 + PairCapacity
  <2>1. PICK T, U : T = OnPair(s) /\ U = OnPair(s)'
    OBVIOUS
  <2>2. T \in SUBSET (1..N) /\ (U = T \/ U = T \cup {N + 1}) /\ i \in U /\ j \in U /\ \A k \in T : closed'[k] = closed[k]
    BY <1>4, <1>5, <2>1
  <2>3. LosingRun(U, i, j)'
    BY <1>5, <2>1 DEF LosingRun, Between, Lost
  <2>4. PairCapacity \in Nat /\ IsFiniteSet(DueOnPair(s))
    BY PairSlots
  <2>0. PICK R : R = {k \in Between(U, i, j) : closed'[k].bot \in GuardedBots}
    OBVIOUS
  <2>5. CASE j \in T
    <3> SUFFICES Cardinality(R) <= StreakCount - 1 + PairCapacity
      BY <2>0, <2>1
    <3>1. \/ i \in T /\ Between(U, i, j) = Between(T, i, j) /\ LosingRun(T, i, j)
          \/ Between(U, i, j) = {}
      BY <1>4, <2>2, <2>3, <2>5, OlderRuns
    <3>2. CASE Between(U, i, j) = {}
      <4>1. R = {}
        BY <2>0, <3>2
      <4>2. Cardinality(R) = 0
        BY <4>1, FS_EmptySet
      <4> QED
        BY <2>4, <4>2, GuardSettings
    <3>3. CASE i \in T /\ Between(U, i, j) = Between(T, i, j) /\ LosingRun(T, i, j)
      <4>1. R = {k \in Between(T, i, j) : closed[k].bot \in GuardedBots}
        BY <2>0, <2>2, <3>3 DEF Between
      <4>2. Cardinality({k \in Between(T, i, j) : closed[k].bot \in GuardedBots}) <= StreakCount - 1 + PairCapacity
        BY <2>1, <2>5, <3>3 DEF PairRunsEnd
      <4> QED
        BY <4>1, <4>2
    <3> QED
      BY <3>1, <3>2, <3>3
  <2>6. CASE j \notin T
    <3> SUFFICES Cardinality(R) <= StreakCount - 1 + PairCapacity
      BY <2>0, <2>1
    <3>1. j = N + 1 /\ N + 1 \in U /\ U \in SUBSET (1..(N + 1))
      <4>1. \A k \in 1..N : k \in 1..(N + 1)
        BY <1>4
      <4>2. N + 1 \in 1..(N + 1)
        BY <1>4
      <4>3. PICK m : m = N + 1
        OBVIOUS
      <4>4. U = T \cup {m} /\ j = m
        BY <2>2, <2>6, <4>3
      <4> QED
        BY <2>2, <4>1, <4>2, <4>3, <4>4
    <3>2. Recently(U)'
      BY <1>2, <1>4, <3>1, JustClosed DEF GuardBasics
    <3>3. PICK E : E = DueOnPair(s)'
      OBVIOUS
    <3>4. Cardinality(Robots(Between(U, i, N + 1))') + Cardinality(E) <= StreakCount - 1 + PairCapacity
      BY <1>4, <2>1, <2>2, <2>3, <3>1, <3>2, <3>3 DEF PairRoom, PairCapacity
    <3>5. E \in SUBSET DueOnPair(s)
      BY <1>3, <3>3 DEF NoMoreDue, NoMoreOnPair
    <3>6. IsFiniteSet(E)
      BY <2>4, <3>5, FS_Subset
    <3>7. Cardinality(E) \in Nat
      BY <3>6, FS_CardinalityType
    <3>8. R \in SUBSET (1..(N + 1)) /\ N + 1 \in Nat
      <4>1. R \subseteq U
        BY <2>0 DEF Between
      <4> QED
        BY <1>4, <3>1, <4>1
    <3>9. Cardinality(R) \in Nat
      BY <3>8, CountedPositions
    <3>10. R = Robots(Between(U, i, N + 1))'
      BY <2>0, <3>1 DEF Robots, Between
    <3>11. Cardinality(R) + Cardinality(E) <= StreakCount - 1 + PairCapacity
      BY <3>4, <3>10
    <3> QED
      BY <2>4, <3>7, <3>9, <3>11, GuardSettings
  <2> QED
    BY <2>5, <2>6
<1> QED
  BY <1>5 DEF PairRunsEnd, PairCapacity, Between

LEMMA SetupRunsKept ==
  ASSUME GuardBasics, NEW t \in DOMAIN open, CloseOne(t), SetupLosesOnce,
         \A b \in GuardedBots, s \in Symbols : SetupRoom(b, s)'
  PROVE  SetupLosesOnce'
<1>1. PICK N : N = Len(closed)
  OBVIOUS
<1>2. open' = open (-) SetToBag({t}) /\ UNCHANGED <<hour, gate, signal>>
  BY DEF CloseOne
<1>3. NoMoreDue
  <2>1. DOMAIN open' \subseteq DOMAIN open
    BY <1>2, DropBasics
  <2> QED
    BY <1>2, <2>1, FewerDue
<1>4. /\ N \in Nat /\ DOMAIN closed = 1..N /\ Len(closed') = N + 1
      /\ \A k \in 1..N : closed'[k] = closed[k]
      /\ \A b, s : OfBot(b) \cap OnPair(s) \in SUBSET (1..N)
                   /\ \/ OfBot(b)' \cap OnPair(s)' = OfBot(b) \cap OnPair(s)
                      \/ OfBot(b)' \cap OnPair(s)' = (OfBot(b) \cap OnPair(s)) \cup {N + 1}
  <2>1. /\ N \in Nat /\ DOMAIN closed = 1..N /\ Len(closed') = N + 1
        /\ \A k \in 1..N : closed'[k] = closed[k]
        /\ \A b : OfBot(b) \in SUBSET (1..N)
                /\ OfBot(b)' = IF t.bot = b THEN OfBot(b) \cup {N + 1} ELSE OfBot(b)
        /\ \A s : OnPair(s) \in SUBSET (1..N)
                /\ OnPair(s)' = IF t.symbol = s THEN OnPair(s) \cup {N + 1} ELSE OnPair(s)
    BY <1>1, CloseExtends DEF GuardBasics
  <2>2. N + 1 \notin 1..N
    BY <2>1
  <2> QED
    BY <2>1, <2>2
<1>5. ASSUME NEW b \in GuardedBots, NEW s \in Symbols, NEW U, U = OfBot(b)' \cap OnPair(s)',
             NEW i \in U, NEW j \in U, NEW R, R = {k \in Between(U, i, j) : closed'[k].setup = closed'[i].setup},
             Cardinality(Between(U, i, j)) <= SameSetups, closed'[i].setup # 0, \A k \in R : closed'[k].pnl < 0
      PROVE  Cardinality(R) <= Cardinality(Servants(b))
  <2>1. PICK T : T = OfBot(b) \cap OnPair(s)
    OBVIOUS
  <2>2. T \in SUBSET (1..N) /\ (U = T \/ U = T \cup {N + 1}) /\ i \in U /\ j \in U /\ \A k \in T : closed'[k] = closed[k]
    BY <1>4, <1>5, <2>1
  <2>3. Cardinality(Servants(b)) \in Nat /\ \A k : IsFiniteSet(DueOfSetup(b, s, k))
    BY SetupSlots
  <2>5. CASE j \in T
    <3>1. \/ i \in T /\ Between(U, i, j) = Between(T, i, j)
          \/ Between(U, i, j) = {}
      BY <1>4, <2>2, <2>5, OlderRuns
    <3>2. CASE Between(U, i, j) = {}
      <4>1. R = {}
        BY <1>5, <3>2
      <4> QED
        BY <2>3, <4>1, FS_EmptySet
    <3>3. CASE i \in T /\ Between(U, i, j) = Between(T, i, j)
      <4>1. R = {k \in Between(T, i, j) : closed[k].setup = closed[i].setup} /\ R \subseteq T
        BY <1>5, <2>2, <3>3 DEF Between
      <4>2. \A k \in R : Lost(k)
        BY <1>5, <2>2, <4>1 DEF Lost
      <4>3. closed[i].setup # 0 /\ Cardinality(Between(T, i, j)) <= SameSetups
        BY <1>5, <2>2, <3>3
      <4> QED
        BY <2>1, <2>5, <3>3, <4>1, <4>2, <4>3 DEF SetupLosesOnce
    <3> QED
      BY <3>1, <3>2, <3>3
  <2>6. CASE j \notin T
    <3>1. j = N + 1 /\ U \in SUBSET (1..(N + 1))
      <4>1. \A k \in 1..N : k \in 1..(N + 1)
        BY <1>4
      <4>2. N + 1 \in 1..(N + 1)
        BY <1>4
      <4>3. PICK m : m = N + 1
        OBVIOUS
      <4>4. U = T \cup {m} /\ j = m
        BY <2>2, <2>6, <4>3
      <4> QED
        BY <2>2, <4>1, <4>2, <4>3, <4>4
    <3>2. PICK n, E : n = closed'[i].setup /\ E = DueOfSetup(b, s, n)'
      OBVIOUS
    <3>3. R = Alike(U, i, N + 1)'
      BY <1>5, <3>1 DEF Alike, Between
    <3>4. \A k \in Alike(U, i, N + 1)' : Lost(k)'
      BY <1>5, <3>3 DEF Lost
    <3>5. U = OfBoth(b, s)'
      BY <1>5 DEF OfBoth
    <3>6. DueOfSetup(b, s, closed[i].setup)' = E
      BY <3>2 DEF DueOfSetup
    <3>7. SetupRoom(b, s)'
      BY <1>5
    <3>8. Cardinality(R) + Cardinality(E) <= Cardinality(Servants(b))
      BY <1>4, <1>5, <3>1, <3>3, <3>4, <3>5, <3>6, <3>7 DEF SetupRoom, Servants
    <3>9. E \in SUBSET DueOfSetup(b, s, n)
      BY <1>3, <3>2 DEF NoMoreDue, NoMoreOfSetup
    <3>10. IsFiniteSet(E)
      BY <2>3, <3>9, FS_Subset
    <3>11. Cardinality(E) \in Nat
      BY <3>10, FS_CardinalityType
    <3>12. R \in SUBSET (1..(N + 1)) /\ N + 1 \in Nat
      <4>1. R \subseteq U
        BY <1>5 DEF Between
      <4> QED
        BY <1>4, <3>1, <4>1
    <3>13. Cardinality(R) \in Nat
      BY <3>12, CountedPositions
    <3> QED
      BY <2>3, <3>8, <3>11, <3>13
  <2> QED
    BY <2>5, <2>6
<1>6. ASSUME NEW b \in GuardedBots, NEW s \in Symbols,
             NEW i \in OfBot(b)' \cap OnPair(s)', NEW j \in OfBot(b)' \cap OnPair(s)',
             Cardinality(Between(OfBot(b) \cap OnPair(s), i, j)') <= SameSetups, closed'[i].setup # 0,
             \A k \in {l \in Between(OfBot(b) \cap OnPair(s), i, j)' : closed'[l].setup = closed'[i].setup} : Lost(k)'
      PROVE  Cardinality({k \in Between(OfBot(b) \cap OnPair(s), i, j)' : closed'[k].setup = closed'[i].setup})
               <= Cardinality(Servants(b))
  <2>1. PICK U : U = OfBot(b)' \cap OnPair(s)'
    OBVIOUS
  <2>2. PICK R : R = {k \in Between(U, i, j) : closed'[k].setup = closed'[i].setup}
    OBVIOUS
  <2>3. Between(OfBot(b) \cap OnPair(s), i, j)' = Between(U, i, j)
    BY <2>1 DEF Between
  <2>4. Cardinality(Between(U, i, j)) <= SameSetups /\ \A k \in R : closed'[k].pnl < 0
    BY <1>6, <2>2, <2>3 DEF Lost
  <2>5. Cardinality(R) <= Cardinality(Servants(b))
    BY <1>5, <1>6, <2>1, <2>2, <2>4
  <2> QED
    BY <2>2, <2>3, <2>5
<1> QED
  BY <1>6 DEF SetupLosesOnce, Servants
-----------------------------------------------------------------------------
LEMMA GuardStarts == GuardInit => GuardInv
<1> SUFFICES ASSUME GuardInit PROVE GuardInv
  OBVIOUS
<1>1. /\ hour = 0 /\ open = EmptyBag /\ closed = <<>>
      /\ gate = [h \in Deciders |-> "ready"] /\ signal = [h \in Deciders |-> Blank]
  BY DEF GuardInit
<1>2. DOMAIN open = {} /\ DOMAIN closed = {}
  BY <1>1 DEF EmptyBag, SetToBag
<1>3. GuardTyped
  <2>1. IsFiniteSet(DOMAIN open)
    BY <1>2, FS_EmptySet
  <2>2. closed \in Seq(ClosedTrade)
    BY <1>1
  <2> QED
    BY <1>1, <1>2, <2>1, <2>2 DEF GuardTyped
<1>4. SignalsOwned /\ OneEach /\ ClosedInOrder
  BY <1>1, <1>2 DEF SignalsOwned, OneEach, ClosedInOrder, Deciders
<1>5. \A b : OfBot(b) = {} /\ OnPair(b) = {}
  BY <1>2 DEF OfBot, OnPair
<1>6. BotBounded /\ PairBounded /\ SetupBounded /\ BotRunsEnd /\ PairRunsEnd /\ SetupLosesOnce
  BY <1>5 DEF BotBounded, BotRoom, PairBounded, PairRoom, SetupBounded, SetupRoom, OfBoth,
              BotRunsEnd, PairRunsEnd, SetupLosesOnce
<1> QED
  BY <1>3, <1>4, <1>6 DEF GuardInv, GuardBasics

(* Where nothing closes and nothing passes a gate.                         *)
LEMMA QuietStep ==
  ASSUME GuardInv, GuardBasics', hour <= hour', UNCHANGED closed, NoMoreDue
  PROVE  GuardInv'
<1>1. /\ \A b \in GuardedBots : BotRoom(b) /\ NoMoreOfBot(b) => BotRoom(b)'
      /\ \A s \in Symbols : PairRoom(s) /\ NoMoreOnPair(s) => PairRoom(s)'
      /\ \A b \in GuardedBots, s \in Symbols : SetupRoom(b, s) /\ NoMoreOfSetup(b, s) => SetupRoom(b, s)'
      /\ BotRunsEnd' /\ PairRunsEnd' /\ SetupLosesOnce'
  BY RoomStays DEF GuardInv
<1>2. BotBounded' /\ PairBounded' /\ SetupBounded'
  BY <1>1 DEF GuardInv, BotBounded, PairBounded, SetupBounded, NoMoreDue
<1> QED
  BY <1>1, <1>2 DEF GuardInv

(* Where a session passes a gate, there is room for what it makes due.     *)
LEMMA GatePassed ==
  ASSUME GuardInv, GuardBasics', NEW h \in Deciders,
         \/ gate[h] = "bot" /\ GuardBot(h)
         \/ gate[h] = "pair" /\ GuardPair(h)
         \/ h \in Handlers /\ gate[h] = "setup" /\ GuardSetup(h),
         ~Skip(h)
  PROVE  GuardInv'
<1>1. PICK label : /\ GoOn(h, label) /\ label \in {"pair", "setup", "insert"}
                   /\ \/ gate[h] = "bot" /\ label = "pair" /\ ~CheckBot(signal[h].bot)
                      \/ gate[h] = "pair" /\ label = "setup" /\ h \notin HandTraders /\ ~CheckPair(signal[h].symbol)
                      \/ gate[h] = "pair" /\ h \in HandTraders
                      \/ gate[h] = "setup" /\ label = "insert" /\ ~Repeats(signal[h])
  BY DEF GuardBot, GuardPair, GuardSetup
<1>2. gate' = [gate EXCEPT ![h] = label] /\ UNCHANGED <<hour, open, closed, signal>>
  BY <1>1 DEF GoOn
<1>3. hour <= hour'
  BY <1>2 DEF GuardInv, GuardBasics, GuardTyped
<1>4. GuardBasics
  BY DEF GuardInv
<1>5. \A g \in Handlers : gate'[g] = IF g = h THEN label ELSE gate[g]
  BY <1>2 DEF GuardInv, GuardBasics, GuardTyped, Deciders
<1>6. CASE h \notin Handlers
  <2>1. NoMoreDue
    BY <1>2, <1>5, <1>6, FewerDue
  <2> QED
    BY <1>2, <1>3, <2>1, QuietStep
<1>7. CASE h \in Handlers
  <2>0. h \notin HandTraders
    BY <1>7, GuardedParties
  <2>1. BotRunsEnd' /\ PairRunsEnd' /\ SetupLosesOnce'
    BY <1>2, <1>3, <1>4, RoomStays DEF GuardInv
  <2>2. ASSUME NEW b \in GuardedBots PROVE BotRoom(b)'
    <3>1. CASE gate[h] = "bot" /\ b = signal[h].bot
      <4>1. GoOn(h, "pair") /\ ~CheckBot(b)
        BY <1>1, <3>1
      <4> QED
        BY <1>4, <1>7, <3>1, <4>1, BotPasses
    <3>2. CASE ~(gate[h] = "bot" /\ b = signal[h].bot)
      <4>1. \A g \in Handlers : gate'[g] \in {"pair", "setup", "insert"} /\ signal[g].bot = b
              => gate[g] \in {"pair", "setup", "insert"}
        BY <1>1, <1>5, <3>2
      <4>2. NoMoreOfBot(b)
        BY <1>2, <4>1 DEF NoMoreOfBot, DueOfBot
      <4>3. BotRoom(b)
        BY DEF GuardInv, BotBounded
      <4> QED
        BY <1>2, <1>3, <1>4, <4>2, <4>3, RoomStays
    <3> QED
      BY <3>1, <3>2
  <2>3. ASSUME NEW s \in Symbols PROVE PairRoom(s)'
    <3>1. CASE gate[h] = "pair" /\ s = signal[h].symbol
      <4>1. GoOn(h, "setup") /\ ~CheckPair(s)
        BY <1>1, <2>0, <3>1
      <4> QED
        BY <1>4, <1>7, <3>1, <4>1, PairPasses
    <3>2. CASE ~(gate[h] = "pair" /\ s = signal[h].symbol)
      <4>1. \A g \in Handlers : gate'[g] \in {"setup", "insert"} /\ signal[g].symbol = s
              => gate[g] \in {"setup", "insert"}
        BY <1>1, <1>5, <3>2
      <4>2. NoMoreOnPair(s)
        BY <1>2, <4>1 DEF NoMoreOnPair, DueOnPair
      <4>3. PairRoom(s)
        BY DEF GuardInv, PairBounded
      <4> QED
        BY <1>2, <1>3, <1>4, <4>2, <4>3, RoomStays
    <3> QED
      BY <3>1, <3>2
  <2>4. ASSUME NEW b \in GuardedBots, NEW s \in Symbols PROVE SetupRoom(b, s)'
    <3>0. SetupRoom(b, s)
      BY DEF GuardInv, SetupBounded
    <3>1. CASE gate[h] = "setup"
      <4>1. GoOn(h, "insert") /\ ~Repeats(signal[h])
        BY <1>1, <3>1
      <4> QED
        BY <1>4, <1>7, <3>0, <3>1, <4>1, SetupPasses
    <3>2. CASE gate[h] # "setup"
      <4>1. \A g \in Handlers : gate'[g] = "insert" => gate[g] = "insert"
        BY <1>1, <1>5, <2>0, <3>2
      <4>2. NoMoreOfSetup(b, s)
        BY <1>2, <4>1 DEF NoMoreOfSetup, DueOfSetup
      <4> QED
        BY <1>2, <1>3, <1>4, <3>0, <4>2, RoomStays
    <3> QED
      BY <3>1, <3>2
  <2> QED
    BY <2>1, <2>2, <2>3, <2>4 DEF GuardInv, BotBounded, PairBounded, SetupBounded
<1> QED
  BY <1>6, <1>7

LEMMA GuardSteps == GuardInv /\ [GuardNext]_guardVars => GuardInv'
<1> SUFFICES ASSUME GuardInv, [GuardNext]_guardVars PROVE GuardInv'
  OBVIOUS
<1>1. GuardBasics /\ GuardBasics'
  BY NextBasics DEF GuardInv
<1>2. hour \in Nat /\ Handlers \subseteq Deciders /\ HandTraders \subseteq Deciders
  BY <1>1 DEF GuardBasics, GuardTyped, Deciders
<1>3. ASSUME NEW h \in Deciders, Skip(h) PROVE GuardInv'
  <2>1. gate' = [gate EXCEPT ![h] = "ready"] /\ signal' = [signal EXCEPT ![h] = Blank] /\ UNCHANGED <<hour, open, closed>>
    BY <1>3 DEF Skip
  <2>2. \A g \in Handlers : gate'[g] # "ready" => gate'[g] = gate[g] /\ signal'[g] = signal[g]
    BY <1>1, <1>2, <2>1 DEF GuardBasics, GuardTyped
  <2>3. NoMoreDue
    BY <2>1, <2>2, FewerDue
  <2> QED
    BY <1>1, <1>2, <2>1, <2>3, QuietStep
<1>4. ASSUME NEW h \in Handlers, Arrive(h) PROVE GuardInv'
  <2>1. gate' = [gate EXCEPT ![h] = "bot"] /\ UNCHANGED <<hour, open, closed>>
        /\ \E w : signal' = [signal EXCEPT ![h] = w]
    BY <1>4 DEF Arrive
  <2>2. \A g \in Handlers : gate'[g] \in {"pair", "setup", "insert"} => gate'[g] = gate[g] /\ signal'[g] = signal[g]
    BY <1>1, <1>2, <2>1 DEF GuardBasics, GuardTyped
  <2>3. NoMoreDue
    BY <2>1, <2>2, FewerDue
  <2> QED
    BY <1>1, <1>2, <2>1, <2>3, QuietStep
<1>5. ASSUME NEW m \in HandTraders, PlaceManual(m) PROVE GuardInv'
  <2>1. UNCHANGED <<hour, open, closed>>
        /\ \E w, l : signal' = [signal EXCEPT ![m] = w] /\ gate' = [gate EXCEPT ![m] = l]
    BY <1>5 DEF PlaceManual
  <2>2. m \notin Handlers
    BY GuardedParties
  <2>3. \A g \in Handlers : gate'[g] = gate[g] /\ signal'[g] = signal[g]
    BY <1>1, <1>2, <2>1, <2>2 DEF GuardBasics, GuardTyped
  <2>4. NoMoreDue
    BY <2>1, <2>3, FewerDue
  <2> QED
    BY <1>1, <1>2, <2>1, <2>4, QuietStep
<1>6. ASSUME NEW h \in Deciders, GuardBot(h) PROVE GuardInv'
  BY <1>1, <1>3, <1>6, GatePassed DEF GuardBot
<1>7. ASSUME NEW h \in Deciders, GuardPair(h) PROVE GuardInv'
  BY <1>1, <1>3, <1>7, GatePassed DEF GuardPair
<1>8. ASSUME NEW h \in Handlers, GuardSetup(h) PROVE GuardInv'
  BY <1>1, <1>2, <1>3, <1>8, GatePassed DEF GuardSetup
<1>9. ASSUME NEW h \in Deciders, Refuse(h) PROVE GuardInv'
  BY <1>3, <1>9 DEF Refuse
<1>10. ASSUME NEW h \in Deciders, Insert(h) PROVE GuardInv'
  <2>1. NoMoreDue
    BY <1>1, <1>10, InsertedWasDue
  <2>2. UNCHANGED <<hour, closed>>
    BY <1>10 DEF Insert
  <2> QED
    BY <1>1, <1>2, <2>1, <2>2, QuietStep
<1>11. ASSUME NEW t \in DOMAIN open, Drop(t) PROVE GuardInv'
  <2>1. open' = open (-) SetToBag({t}) /\ UNCHANGED <<hour, closed, gate, signal>>
    BY <1>11 DEF Drop
  <2>2. DOMAIN open' \subseteq DOMAIN open
    BY <1>1, <2>1, DropBasics
  <2>3. NoMoreDue
    BY <2>1, <2>2, FewerDue
  <2> QED
    BY <1>1, <1>2, <2>1, <2>3, QuietStep
<1>12. ASSUME NEW t \in DOMAIN open, CloseOne(t) PROVE GuardInv'
  <2>1. \A b \in GuardedBots : BotRoom(b)'
    BY <1>1, <1>12, BotCloses DEF GuardInv, BotBounded
  <2>2. \A s \in Symbols : PairRoom(s)'
    BY <1>1, <1>12, PairCloses DEF GuardInv, PairBounded
  <2>3. \A b \in GuardedBots, s \in Symbols : SetupRoom(b, s)'
    BY <1>1, <1>12, SetupCloses DEF GuardInv, SetupBounded
  <2>4. BotRunsEnd'
    BY <1>1, <1>12, <2>1, BotRunsKept DEF GuardInv
  <2>5. PairRunsEnd'
    BY <1>1, <1>12, <2>2, PairRunsKept DEF GuardInv
  <2>6. SetupLosesOnce'
    BY <1>1, <1>12, <2>3, SetupRunsKept DEF GuardInv
  <2>7. BotBounded' /\ PairBounded' /\ SetupBounded'
    BY <2>1, <2>2, <2>3 DEF BotBounded, PairBounded, SetupBounded
  <2> QED
    BY <1>1, <2>4, <2>5, <2>6, <2>7 DEF GuardInv
<1>13. ASSUME Pass PROVE GuardInv'
  <2>1. hour' = hour + 1 /\ UNCHANGED <<open, closed, gate, signal>>
    BY <1>13 DEF Pass
  <2>2. NoMoreDue
    BY <2>1, FewerDue
  <2>3. hour <= hour'
    BY <1>2, <2>1
  <2> QED
    BY <1>1, <2>1, <2>2, <2>3, QuietStep
<1>14. CASE UNCHANGED guardVars
  <2>1. UNCHANGED <<hour, open, closed, gate, signal>>
    BY <1>14 DEF guardVars
  <2>2. NoMoreDue
    BY <2>1, FewerDue
  <2> QED
    BY <1>1, <1>2, <2>1, <2>2, QuietStep
<1>15. CASE GuardNext
  <2>1. \/ \E h \in Handlers : Arrive(h) \/ GuardSetup(h)
        \/ \E h \in Deciders : GuardBot(h) \/ GuardPair(h) \/ Refuse(h) \/ Insert(h)
        \/ \E m \in HandTraders : PlaceManual(m)
        \/ \E t \in DOMAIN open : CloseOne(t) \/ Drop(t)
        \/ Pass
    BY <1>15, Zenon DEF GuardNext
  <2> QED
    BY <2>1, <1>4, <1>5, <1>6, <1>7, <1>8, <1>9, <1>10, <1>11, <1>12, <1>13, Zenon
<1> QED
  BY <1>14, <1>15

(* However the signals of bots and traders cross the queries of each       *)
(* other's gates, with any settings of the guard, any number of sessions,  *)
(* bots, pairs and trades: a losing run ends, no guard blocks for ever,    *)
(* and no setup goes on losing.                                            *)
THEOREM LossesHeeded == GuardSpec => []LossesAreHeeded
<1>1. GuardInv => LossesAreHeeded
  BY RestsHeal DEF GuardInv, GuardBasics, LossesAreHeeded
<1> QED
  BY <1>1, GuardStarts, GuardSteps, PTL DEF GuardSpec
=============================================================================

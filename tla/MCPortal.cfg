CONSTANTS
  \* the same few model values play every role
  Clerks = {r1, r2}
  Bookers = {r1, r2}
  LearnerRequests = {r1, r2}
  Visits = {r1, r2}
  Participants = {x1, x2}
  BacktestIds = {x1, x2}
  Learners = {y1, y2}
  Instances = {y1, y2}
  \* access
  Purchases = {"purchase"}
  Codes = {"code"}
  MaxGrants = 3
  LastHour = 1
  Window = 1
  \* booking
  Trainees = {"l1"}
  Bookables = {"m1", "m2", "m3"}
  Days = {"mon", "sun"}
  Sundays = {"sun"}
  Bands = {"a", "b", "c"}
  \* learning
  Lengths <- OneTrack
  MinReps = 1
  LastActivityDay = 3
  MaxChecks = 3
  \* lessons
  Kinds = {"quiz", "cards"}
  LastVersion = 2
  MaxNotes = 1
  BestPossible = 2
  MaxOpens = 1
  MaxAnswers = 2
  \* replay
  BarShapes <- SomeBars
  Setups <- SomeSetups
  MaxHold = 2
  BarsPerRun = 4
  StartingBalance = 10
  Leverage = 20
  \* runs
  PerRun = 30
  MinTrades = 50
SPECIFICATION PortalSpec
SYMMETRY Symmetric
INVARIANTS
  AccessFollowsPayment
  FacilitatorKept
  ProgressKept
  ServedIsCurrent
  LadderKeepsItsWord
  RunsAreAccountedFor
\* every part comes to its bound, and then nothing is left to do
CHECK_DEADLOCK FALSE

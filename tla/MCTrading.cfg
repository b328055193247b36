CONSTANTS
  \* subauto
  Alerts = {alert}
  Scanner = scanner
  TotalCap = 3
  DailyCap = 2
  MaxDays = 2
  \* scan
  Bots = {"b1", "b2"}
  Exchanges = {"x1", "x2"}
  Default = "x2"
  Watched <- TwoWatched
  Lists <- TwoLists
  StrategyOf <- TwoFamilies
  Original <- TwoOriginals
  Balances = {1, 2}
  HealthWindow = 1
  MaxChanges = 1
  \* copies
  Traders = {"t1"}
  Accounts = {"a1", "a2"}
  Owner <- OneOwner
  Venue <- TwoVenues
  Dedicated = {"binance"}
  MaxEdits = 3
  \* tuning
  Workers = {"w1"}
  TunedSymbols = {"s1"}
  Improvements = {5, 25, 40}
  MinImprovement = 10
  MaxSpread = 25
  MaxMoves = 3
  \* feed
  Callers = {"c1"}
  History = {1, 2, 4, 5}
  Newest = 7
  PageSize = 2
  Servers = {"from", "window", "static"}
  \* losses
  GuardedBots = {"g1", "g2"}
  HandTraders = {"m"}
  Symbols = {"s1"}
  Handlers = {"scanner", "alert"}
  Serves <- TwoSources
  StreakCount = 2
  LossWindow = 1
  Multiple = 3
  Staleness = 2
  Lookback = 3
  SameSetups = 2
  WinCooldown = 1
  Losings <- LossOrGain
  Risk <- UnequalRisk
  LastHour = 3
  TradeLimit = 4
  \* audit
  AuditedBots = {"b1", "b2"}
  FamilyOf <- OneFamily
  TradedSetups = {"s"}
  Outcomes <- LossOrMore
  MinTrades = 2
  MinErrors = 2
  SilentBelow = 1
  AuditedTrades = 3
  LastTime = 7
  MaxRuns = 1
  \* shape
  Shapes <- MCShapes
  Window = 7
  Bars = 1
  \* signal
  Readings <- MCReadings
  Entries <- MCEntries
  Balance = 10000000
  Raising = {2, 3, 6}
SPECIFICATION TradingSpec
INVARIANTS
  AllotmentKept
  EngagementCoherent
  StructureSound
  SignalsSound
  RangeHasNoHole
  TradedOnce
  TuningIsSound
  AuditIsSound
  LossesAreHeeded
PROPERTIES
  HandsBackMode
  SlowedForCause
  SweepSparesOpenTrades
\* every part comes to its bound, and then nothing is left to do
CHECK_DEADLOCK FALSE

CONSTANTS
  \* exits
  Requests = {r1, r2}
  Monitor = monitor
  Size = 4
  Disturbances = {"lost_reply", "restart", "exchange_exit"}
  \* fees: the same model values are requests at work on them
  Desks = {r1, r2}
  Entries = {x1, x2}
  Checkouts = {y1, y2}
  FeePlans = {{"copy", "percent"}}
  LastDay = 1
  \* ladder
  Prices <- MCPrices
  Setups <- MCSetups
  Unset = Unset
  MaxEdits = 1
  \* stops
  Brokers = {"bingx", "binance", "bybit", "mexc", "paper"}
  LastTrade = 2
  MaxStops = 3
SYMMETRY Symmetric
SPECIFICATION PositionsSpec
INVARIANTS
  NoUnbackedReduction
  ClosedMeansFlat
  ExactWhenUndisturbed
  FeesWithinPosition
  FeesSettled
  BreakevenHeld
  WinnerKeepsBreakeven
  CushionKept
  RestingFollowsRow
  StopsFitTrades
PROPERTIES
  ClosedIsFinal
  TrailOnlyTightens
\* a closed trade with no handler running has nothing left to do
CHECK_DEADLOCK FALSE

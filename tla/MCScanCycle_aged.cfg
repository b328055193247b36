\* changes: a pick is made, and grows old
CONSTANTS
  Bots = {"b1", "b2"}
  Exchanges = {"x1", "x2"}
  Default = "x2"
  Watched <- MCWatched
  Lists <- MCLists
  StrategyOf <- MCFamily
  Original <- MCOriginal
  Balances = {1, 2}
  HealthWindow = 1
  MaxChanges = 2
SPECIFICATION ScanSpec
INVARIANT CyclesComplete
CHECK_DEADLOCK FALSE

CONSTANTS
  Brokers = {"binance"}
  LastTrade = 2
  MaxStops = 3
SPECIFICATION StopsSpec
INVARIANT RestsAgainstItsTrade
\* when the trades are over nothing is left to do
CHECK_DEADLOCK FALSE

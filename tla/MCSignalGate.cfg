CONSTANTS
  Alerts = {alert}
  Scanner = scanner
  Approvers = {approver}
  Symbols = {btc, eth}
  Subscribers = 1
  MaxDaily = 2
  MaxConcurrent = 2
  Capital = 1
  MaxSignals = 2
  MaxMoves = 2
SPECIFICATION GateSpec
SYMMETRY Symmetric
INVARIANTS
  OneTradePerSymbol
  CapsHold
  AdmittedWithinCapital
\* when the bounds are reached nothing is left to do
CHECK_DEADLOCK FALSE

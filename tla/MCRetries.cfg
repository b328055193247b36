CONSTANTS
  \* the broker's calls
  Calls = {c1, c2}
  MaxLots = 2
  Styles = {"bingx", "lookup", "units", "by_id"}
  Modes = {"hedge", "one_way"}
  \* the client's attempts
  Attempts = {a1, a2, a3}
  Nobody = nobody
  \* entries
  Requests = {r1, r2}
  Engine = engine
  FillMonitor = fills
  PositionMonitor = closes
  Disturbances = {"lost_reply", "restart"}
SPECIFICATION RetriesSpec
INVARIANTS
  ReportsArrivals
  ApprovalGate
  RowsMatchOrders
PROPERTIES
  CloseNeverGrows
  KeepsPromise
  EverybodyAnswered
  OrderSettles
\* every call, attempt and trade comes to an end
CHECK_DEADLOCK FALSE

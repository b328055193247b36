CONSTANTS
  Requests = {r1, r2}
  Engine = engine
  FillMonitor = fills
  PositionMonitor = closes
  Disturbances = {}
SPECIFICATION Spec
INVARIANT CancelledNeverFilled
\* a trade that has ended leaves nothing to do
CHECK_DEADLOCK FALSE

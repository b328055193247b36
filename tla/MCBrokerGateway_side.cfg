CONSTANTS
  Calls = {c1}
  MaxLots = 2
  Styles = {"bingx"}
  Modes = {"hedge"}
SPECIFICATION CallSpec
INVARIANT ClosesOwnSide
\* every call is answered once
CHECK_DEADLOCK FALSE

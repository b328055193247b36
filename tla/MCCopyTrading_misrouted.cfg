CONSTANTS
  Traders = {"t1"}
  Accounts = {"a1", "a2"}
  Owner <- MCOwner
  Venue <- MCVenue
  Dedicated = {"binance"}
  MaxEdits = 3
SPECIFICATION CopySpec
INVARIANT CopyStaysOnItsAccount
CHECK_DEADLOCK FALSE

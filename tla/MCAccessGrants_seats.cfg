CONSTANTS
  Learners = {"l1"}
  Purchases = {"purchase"}
  Codes = {"code"}
  Clerks = {"d1"}
  MaxGrants = 2
  LastHour = 1
  Window = 1
SPECIFICATION AccessSpec
INVARIANT PaidSeatsCome
\* when the grants are used up nothing is left to do
CHECK_DEADLOCK FALSE

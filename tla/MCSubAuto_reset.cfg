\* the scanner alone
CONSTANTS
  Alerts = {}
  Scanner = scanner
  TotalCap = 3
  DailyCap = 2
  MaxDays = 0
SPECIFICATION Spec
PROPERTY ResetStops

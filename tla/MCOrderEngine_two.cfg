SPECIFICATION Spec
CONSTANTS
  MaxOrders = 2
  Vol = 1
  MaxCancels = 1
  MaxDups = 0
  FilterLen = 2
  RefEnd = 2
  MaxRestarts = 0
  EarlyCallback = FALSE
INVARIANTS RtnReachesOrder
CHECK_DEADLOCK FALSE

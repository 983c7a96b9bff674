SPECIFICATION FairSpec
CONSTANTS
  MaxOrders = 1
  Vol = 3
  MaxCancels = 1
  MaxDups = 1
  FilterLen = 4
  RefEnd = 1
  MaxRestarts = 1
  EarlyCallback = FALSE
INVARIANTS  HelperAgrees
PROPERTIES ClosedIsFinal RequestsAnswered
CHECK_DEADLOCK FALSE

SPECIFICATION Spec
CONSTANTS
  MaxOrders = 2
  Vol <- MCVol
  MaxCancels = 1
  MaxDups = 1
  MaxDeaths = 1
  MaxDue = 2
INVARIANTS   OnlyAskedCanceled CancelAnswered
CHECK_DEADLOCK FALSE

SPECIFICATION ASpec
CONSTANTS
  a = a
  b = b
  pd = pd
  Instrs = {a, b}
  Prds = {pd}
  PrdOf <- MCPrdOf
  MaxOrders = 2
  MaxVol = 2
  MaxDays = 2
  MaxCrashes = 1
  MaxMissed = 1
  Prices = {2, 4}
  Mult = 3
  LongAmount = 24
  ShortAmount = 24
  NetAmount = 12
  MaxTicks = 1
  MaxLots = 3
SYMMETRY Perms
INVARIANTS  BooksBalance NoDanglingProduct  MoneyExplained
PROPERTIES DayCarriedOver
CHECK_DEADLOCK FALSE

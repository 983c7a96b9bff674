SPECIFICATION FairSpec
CONSTANTS
  h1 = h1  h2 = h2  a = a  b = b
  Helpers = {h1, h2}
  Instrs = {a, b}
  Listed <- MCListed
  Want <- MCWant
  Subscribe0 = {b}
  MaxEngines = 2
  MaxHelpers = 2
  MaxCalls = 1
  MaxSlow = 1
INVARIANTS CountsCover  DayAgrees
PROPERTIES Resubscribed
CHECK_DEADLOCK FALSE

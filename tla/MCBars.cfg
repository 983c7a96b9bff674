SPECIFICATION Spec
CONSTANTS
  Configs <- MCConfigs
  Prices = {1, 2}
  MaxTicks = 3
  MaxBars = 6
INVARIANTS
  BarsTile
  BarsMatchTicks
  BarsGiven
CHECK_DEADLOCK FALSE

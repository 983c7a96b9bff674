SPECIFICATION RSpec
CONSTANTS
  a = a
  b = b
  m = m
  Instrs = {a, b}
  Prds = {m}
  PrdOf <- MCPrdOf
  MaxOrders = 3
  MaxVol = 1
  MaxDays = 2
  MaxCrashes = 1
  MaxMissed = 0
  Quotes = {2, 4}
  MaxVols = 3
  AllowedInstrument = {m}
  OrderSize <- MCOrderSize
  LongVolume <- MCLong
  ShortVolume <- MCShort
  NetVolume <- MCNet
  PrdLongVolume <- MCPrdLong
  PrdShortVolume <- MCShort
  PrdNetVolume <- MCPrdNet
  CycleCount = 1
  CycleSpan = 1
  MaxUnfilled = 2
  PriceMargin = 1
  Start0 = 1
  MaxTime = 2
SYMMETRY Perms
INVARIANTS  NoSelfTrade IntensityBounded AutoOffsetFits
CONSTRAINT FewCrashes
CHECK_DEADLOCK FALSE

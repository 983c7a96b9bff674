SPECIFICATION FairSpec
CONSTANTS
  Sigs = 2
  Lens = {2, 5}
  Size = 6
  Width = 12
  ReadSize = 4
  Room = 3
  MaxFrames <- MCFrames
  MaxBeats = 1
  MaxBreaks = 2
INVARIANTS ForwardedWhole
PROPERTIES CatchesUp Reconnects
CHECK_DEADLOCK FALSE

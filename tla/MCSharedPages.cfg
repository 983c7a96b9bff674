SPECIFICATION SSpec
CONSTANTS
  NoProc = NoProc
  p1 = p1
  p2 = p2
  t1 = t1
  t2 = t2
  t3 = t3
  Procs = {p1, p2}
  Threads = {t1, t2, t3}
  ProcOf <- MCProcs
  Hashes = {1}
  FileSize = 2
  Calls = {"lock"}
  MaxStarts = 3
  MaxPage = 2
  PageCap = 3
  Sizes = {1,2}
  MaxFrames = 3
  Alone = TRUE
INVARIANTS MutualExclusion 
CHECK_DEADLOCK FALSE

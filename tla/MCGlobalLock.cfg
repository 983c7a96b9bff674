SPECIFICATION FairSpec
CONSTANTS
  p1 = p1  p2 = p2  t1 = t1  t2 = t2  t3 = t3
  NoProc = NoProc
  Procs = {p1, p2}
  Threads = {t1, t2, t3}
  ProcOf <- MCProcOf
  Hashes = {0, 1}
  FileSize = 2
  Calls = {"lock", "trylock"}
  MaxStarts = 3
PROPERTIES Progress
CHECK_DEADLOCK FALSE

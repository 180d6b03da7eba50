CONSTANTS
  c1 = c1
  c2 = c2
  t1 = t1
  t2 = t2
  t3 = t3
  Main = Main
  NoOne = NoOne
  Callers = {c1, c2}
  Threads = {t1, t2, t3}
  MaxCalls = 2
  MaxSpurious = 2
  UINT_MOD = 8
SPECIFICATION FairSpec
INVARIANTS Exclusion AliveCounts CleanMeansNoThreads
PROPERTIES CleanTerminates
CHECK_DEADLOCK FALSE

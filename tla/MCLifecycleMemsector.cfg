CONSTANTS
  d = d
  i = i
  NoProc = NoProc
  Procs <- BothProcs
  Programs <- AllPrograms
  MaxBuilds = 2
  MaxCrashes = 1
  MayStop = TRUE
  HarvestMayBeEmpty = FALSE
  DiskMayFail = FALSE
SPECIFICATION Spec
INVARIANTS LoadedMemsectorWasSaved
CHECK_DEADLOCK FALSE

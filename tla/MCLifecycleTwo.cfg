CONSTANTS
  d = d
  i = i
  NoProc = NoProc
  Procs <- BothProcs
  Programs <- AllPrograms
  MaxBuilds = 2
  MaxCrashes = 1
  MayStop = TRUE
  HarvestMayBeEmpty = TRUE
  DiskMayFail = TRUE
SPECIFICATION Spec
INVARIANTS BuildsDoNotMix
PROPERTIES ServedFilesStay
CHECK_DEADLOCK FALSE

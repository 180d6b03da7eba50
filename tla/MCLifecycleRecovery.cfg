CONSTANTS
  d = d
  i = i
  NoProc = NoProc
  Procs <- DaemonProcs
  Programs <- DaemonProgram
  MaxBuilds = 6
  MaxCrashes = 5
  MayStop = FALSE
  HarvestMayBeEmpty = FALSE
  DiskMayFail = FALSE
SPECIFICATION FairSpec
INVARIANTS ServesOneBuild
PROPERTIES Recovers
CHECK_DEADLOCK FALSE

CONSTANTS
  Indexes <- MCIndexes
  HitCounts <- MCHitCounts
  OFF_MOD = 48
  HITS_MOD = 8
  NoRoot = NoRoot
SPECIFICATION ExportSpec
INVARIANTS MemsectorIsIndex
PROPERTIES EnumeratesAllTerms EnumerationEnds
CHECK_DEADLOCK FALSE

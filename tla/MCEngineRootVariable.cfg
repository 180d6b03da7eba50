CONSTANTS
  Indexes <- MCIndexes
  Queries <- MCQueries
  HitCounts <- MCHitCounts
  Arguments <- MCArguments
  OptionSets <- MCOptions
  NumValue <- MCNumValue
  RangeBounds <- MCRangeBounds
  UINT_MOD = 64
SPECIFICATION Spec
INVARIANTS EngineFindsAll
CHECK_DEADLOCK FALSE

CONSTANTS
  Indexes <- MCIndexes
  Queries <- MCQueries
  HitCounts <- MCHitCounts
  Arguments <- MCArguments
  OptionSets <- MCOptions
  NumValue <- MCNumValue
  RangeBounds <- MCRangeBounds
  UINT_MOD = 64
SPECIFICATION FairSpec
INVARIANTS AccessorAsserts FindsUnifyingFormulas PageExact TotalAndIdsExact EngineAgreesWithSearch
PROPERTIES Terminates
CHECK_DEADLOCK FALSE

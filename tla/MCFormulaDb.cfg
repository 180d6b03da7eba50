CONSTANTS
  FormulaIds = {1, 10}
  MaxInserts = 10
  MaxLimit = 3
SPECIFICATION DbSpec
INVARIANTS QueriesKeepContract
PROPERTIES InsertsKeepContract
CHECK_DEADLOCK FALSE

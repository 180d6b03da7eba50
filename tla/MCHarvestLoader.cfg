CONSTANTS
  x = x
  d1 = d1
  d2 = d2
  Tags = {x}
  LocalIds = {d1, d2}
  NoId = NoId
  ENC_TOK_MAX_ARITY = 1
  shouldProcessData = TRUE
  Configs <- MCConfigs
  MaxFailures = 1
  MaxElements = 6
  MaxDepth = 5
  Unencodable = Unencodable
  Formulas <- MCFormulas
  Expressions <- MCExpressions
  HasCrawlDb = TRUE
  PutMayFail = TRUE
  MaxExpressions = 2
  MaxData = 2
SYMMETRY MCSymmetry
SPECIFICATION HarvestSpec
INVARIANTS StateFollowsDocument HitsPointToTheirData HitsMatchStore OneHitPerExpression EverySubexpressionStored CrawlDataResolvable EveryHarvestOnce
PROPERTIES UsesIndexBuilder
CHECK_DEADLOCK FALSE

SPECIFICATION FairSpec
CONSTANTS
  Web <- MCWeb
  Robots <- MCRobots
  Requests <- MCRequests
  PieceUrls <- MCPieceUrls
  PieceNumbers = {2}
  MAXDONTCRAWLSIZE = 2
  c1 = c1
  c2 = c2
  Conns = {c1, c2}
  MathPackLimit = 2
  INT_MAX = 9
  MaxFaults = 0
  MaxTime = 0
  MaxSignals = 1
  RestoresHandlers = TRUE
  NoUrl = NoUrl
  BadUrl = BadUrl
CHECK_DEADLOCK FALSE
PROPERTIES RequestsCrawled
INVARIANTS QueueHandover

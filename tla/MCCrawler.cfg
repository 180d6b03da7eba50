SPECIFICATION Spec
CONSTANTS
  Web <- MCWeb
  Robots <- MCRobots
  Requests <- MCRequests
  PieceUrls <- MCPieceUrls
  PieceNumbers = {2}
  MAXDONTCRAWLSIZE = 2
  c1 = c1
  c2 = c2
  Conns = {c1, c2}
  MathPackLimit = 2
  INT_MAX = 9
  MaxFaults = 2
  MaxTime = 1
  MaxSignals = 0
  RestoresHandlers = TRUE
  NoUrl = NoUrl
  BadUrl = BadUrl
SYMMETRY MCSymmetry
CHECK_DEADLOCK FALSE
INVARIANTS VisitsObeyRequest ExtractedFromPage MathAccounted AnsweredIsQueued

CONSTANTS
  DEFAULT_QUERY_RESULT_SIZE = 2
  DEFAULT_SCHEMA_DEPTH = 3
  SIZE_MOD = 64
  UINT32_MOD = 16
  ENC_TOK_MAX_ARITY = 3
  NoXref = NoXref
  NoConn = NoConn
  XML_MWS_ROOT_RESPONSE = XML_MWS_ROOT_RESPONSE
  XML_MWS_BAD_QUERY = XML_MWS_BAD_QUERY
  XML_MWS_SERVER_ERROR = XML_MWS_SERVER_ERROR
  XML_MWS_METHOD_NOT_ALLOWED = XML_MWS_METHOD_NOT_ALLOWED
  EMPTY_RESPONSE = EMPTY_RESPONSE
  Incomplete = Incomplete
  Arbitrary = Arbitrary
  ApplyTags = {"apply", "applied"}
  Conns = {1, 2}
  Handlers = {"index", "harvest", "schema"}
  Requests <- MCRequests
  Search <- MCSearch
  KnownTags = {"apply", "a", "mws:query", "mws:expr"}
  VarTags = {"?x"}
  MaxFaults = 1
  MaxSignals = 1
  RestoresHandlers = FALSE
SPECIFICATION FairSpec
INVARIANTS ReplyIsAnswer StreamUse SchemataShowTheirFormulas LargestSchemataKept SubstitutionsAreCut
PROPERTIES RequestsAnswered QuitStops
CHECK_DEADLOCK FALSE

--------------------------- MODULE HarvestLoader ---------------------------
(***************************************************************************)
(* Loading harvests: the SAX handlers of processMwsHarvest.cpp composed    *)
(* with the IndexBuilder they call.  libxml2 (external) reads a document   *)
(* and delivers the starts and ends of its elements; "open" is the stack   *)
(* of the elements that are open in the document, which the handlers do    *)
(* not see.  An error either ends the delivery (the document is not        *)
(* well-formed) or not (an undeclared entity of a document with a DTD).    *)
(*                                                                         *)
(* Terms are CmmlTokens; currentToken is the depth of the current one.     *)
(***************************************************************************)
EXTENDS IndexBuilder, CmmlTokens

CONSTANTS
  Tags,               \* meanings of tokens
  LocalIds,           \* values of mws:data_id
  NoId,               \* the empty localId
  ENC_TOK_MAX_ARITY,  \* largest arity that can be encoded
  shouldProcessData,  \* FALSE with --ignore-data
  MaxElements,        \* bound: elements of all files
  MaxDepth            \* bound: nesting of elements

ASSUME LoaderAssumption ==
  /\ MaxElements \in Nat /\ MaxDepth \in Nat
  /\ shouldProcessData \in BOOLEAN
  /\ NoId \notin LocalIds

VARIABLES
  doc,       \* what libxml2 is doing: "closed", "prolog", "root", "epilog"; or "aborted"
  open,      \* elements [name, id] open in the document, outermost first
  elements,  \* number of elements started
  file,      \* number of files opened
  state, prevState, unknownDepth, copyDepth, errorDetected,
  localId,            \* mws:data_id of the current mws:expr or mws:data
  localIdToCrawlIds,
  tokens,             \* the tree under currentTokenRoot
  currentToken,       \* depth of the current token in it, 0 for nullptr
  dataLabel,          \* history: crawl id -> <<file, mws:data_id>> of its element
  due                 \* history: expression -> crawl id its element refers to

saxData  == <<state, prevState, unknownDepth, copyDepth, errorDetected, localId,
              localIdToCrawlIds, tokens, currentToken>>
document == <<doc, open, elements, file>>
loadVars == <<vars, document, saxData, dataLabel, due>>

Unknown == -1   \* in due: the document had an error before

-----------------------------------------------------------------------------
(***************************************************************************)
(* CmmlToken and the encoder.                                              *)
(***************************************************************************)

\* HarvestEncoder::encode, for IndexBuilder.
encode(tree, i) ==
  IF HasEncoding(tree, i, ENC_TOK_MAX_ARITY) THEN encodeToken(tree, i) ELSE Unencodable

\* What foreachSubexpression hands to indexContentMath: again document order.
Subexpressions(tree) == [i \in DOMAIN tree |-> encode(tree, i)]

\* The trees that files within the bounds can hold, below mws:harvest and mws:expr.
Trees ==
  { t \in UNION { [1..n -> [tag : Tags, xref : {NoId}, depth : 1..(MaxDepth - 2)]] :
                  n \in 1..(MaxElements - 2) } :
      t[1].depth = 1 /\ \A i \in 2..Len(t) : t[i].depth \in 2..(t[i-1].depth + 1) }

ASSUME TreesAssumption == \A t \in Trees : Subexpressions(t) \in Expressions

-----------------------------------------------------------------------------
(***************************************************************************)
(* loadHarvests and processHarvestFromFd: each file is parsed with new     *)
(* user data.                                                              *)
(***************************************************************************)
NewSaxData ==
  /\ state' = "DEFAULT" /\ prevState' = "DEFAULT" /\ unknownDepth' = 0 /\ copyDepth' = 0
  /\ errorDetected' = FALSE /\ localId' = NoId /\ localIdToCrawlIds' = EmptyMap
  /\ tokens' = <<>> /\ currentToken' = 0

LoadInit ==
  /\ Init
  /\ doc = "closed" /\ open = <<>> /\ elements = 0 /\ file = 0
  /\ state = "DEFAULT" /\ prevState = "DEFAULT" /\ unknownDepth = 0 /\ copyDepth = 0
  /\ errorDetected = FALSE /\ localId = NoId /\ localIdToCrawlIds = EmptyMap
  /\ tokens = <<>> /\ currentToken = 0
  /\ dataLabel = <<>> /\ due = <<>>

\* Mutant: the ids of the file before are kept.
ProcessHarvestWithOldIds ==
  /\ doc = "closed"
  /\ doc' = "prolog" /\ file' = file + 1 /\ open' = <<>>
  /\ state' = "DEFAULT" /\ prevState' = "DEFAULT" /\ unknownDepth' = 0 /\ copyDepth' = 0
  /\ errorDetected' = FALSE /\ localId' = NoId
  /\ tokens' = <<>> /\ currentToken' = 0
  /\ UNCHANGED <<vars, elements, localIdToCrawlIds, dataLabel, due>>

processHarvestFromFd ==
  /\ doc = "closed"
  /\ doc' = "prolog" /\ file' = file + 1 /\ open' = <<>>
  /\ NewSaxData
  /\ UNCHANGED <<vars, elements, dataLabel, due>>

\* xmlParseDocument returns after the root element, or after a fatal error.
EndDocument ==
  /\ doc = "epilog"
  /\ doc' = "closed"
  /\ UNCHANGED <<vars, open, elements, file, saxData, dataLabel, due>>

-----------------------------------------------------------------------------
(***************************************************************************)
(* my_startElement.                                                        *)
(***************************************************************************)

\* The elements that can start next, told apart as far as the state does: the
\* name is just a tag in an expression, and copied or ignored inside others.
Elements ==
  CASE state = "IN_MWS_EXPR" -> [name : Tags, id : {NoId}]
    [] state \in {"IN_MWS_DATA", "UNKNOWN"} -> [name : {"mws:expr"} \cup Tags, id : {NoId}]
    [] state \in {"DEFAULT", "IN_MWS_HARVEST"} ->
         [name : {"mws:expr", "mws:data"}, id : LocalIds \cup {NoId}]
         \cup [name : {"mws:harvest"} \cup Tags, id : {NoId}]

\* An element the current state has no use for.
SkipElement ==
  /\ prevState' = state
  /\ state' = "UNKNOWN"
  /\ unknownDepth' = 1
  /\ UNCHANGED <<copyDepth, errorDetected, localIdToCrawlIds, tokens, currentToken>>

StartInDefault(e) ==
  /\ state = "DEFAULT"
  /\ \/ /\ e.name = "mws:harvest"
        /\ state' = "IN_MWS_HARVEST"
        /\ UNCHANGED <<prevState, unknownDepth, copyDepth, errorDetected,
                       localIdToCrawlIds, tokens, currentToken>>
     \/ e.name # "mws:harvest" /\ SkipElement
  /\ UNCHANGED localId

\* An mws:expr that refers to no known mws:data refers to none.
StartExpr(e) ==
  /\ state = "IN_MWS_HARVEST" /\ e.name = "mws:expr"
  /\ state' = "IN_MWS_EXPR"
  /\ localId' = IF shouldProcessData /\ e.id \notin DOMAIN localIdToCrawlIds
                  THEN NoId ELSE e.id
  /\ UNCHANGED <<prevState, unknownDepth, copyDepth, errorDetected, localIdToCrawlIds,
                 tokens, currentToken>>

StartData(e) ==
  /\ state = "IN_MWS_HARVEST" /\ e.name = "mws:data"
  /\ localId' = e.id
  /\ \/ e.id = NoId /\ SkipElement
     \/ /\ e.id # NoId
        /\ state' = "IN_MWS_DATA"
        /\ copyDepth' = 1
        /\ UNCHANGED <<prevState, unknownDepth, errorDetected, localIdToCrawlIds,
                       tokens, currentToken>>

StartIgnored(e) ==
  /\ state = "IN_MWS_HARVEST" /\ e.name \notin {"mws:expr", "mws:data"}
  /\ SkipElement
  /\ UNCHANGED localId

\* A harvest has no use for the attributes of a token.
StartToken(e) ==
  /\ state = "IN_MWS_EXPR"
  /\ tokens' = newChildNode(tokens, currentToken, e.name, NoId)
  /\ currentToken' = currentToken + 1
  /\ UNCHANGED <<state, prevState, unknownDepth, copyDepth, errorDetected, localId,
                 localIdToCrawlIds>>

StartNested ==
  /\ state \in {"IN_MWS_DATA", "UNKNOWN"}
  /\ IF state = "UNKNOWN"
       THEN unknownDepth' = unknownDepth + 1 /\ UNCHANGED copyDepth
       ELSE copyDepth' = copyDepth + 1 /\ UNCHANGED unknownDepth
  /\ UNCHANGED <<state, prevState, errorDetected, localId, localIdToCrawlIds, tokens,
                 currentToken>>

startElement(e) ==
  /\ doc \in {"prolog", "root"}
  /\ doc' = "root"
  /\ elements < MaxElements /\ Len(open) < MaxDepth
  /\ open' = Append(open, e)
  /\ elements' = elements + 1
  /\ \/ StartInDefault(e) \/ StartExpr(e) \/ StartData(e) \/ StartIgnored(e)
     \/ StartToken(e) \/ StartNested
  /\ UNCHANGED <<vars, file, dataLabel, due>>
-----------------------------------------------------------------------------
(***************************************************************************)
(* my_endElement.                                                          *)
(***************************************************************************)
Parent == /\ open' = SubSeq(open, 1, Len(open) - 1)
          /\ doc' = IF Len(open) = 1 THEN "epilog" ELSE doc
          /\ UNCHANGED <<elements, file>>

\* assert(false): the end of an element whose start was not seen.
EndInDefault ==
  /\ state = "DEFAULT"
  /\ doc' = "aborted"
  /\ UNCHANGED <<vars, open, elements, file, saxData, dataLabel, due>>

EndHarvest ==
  /\ state = "IN_MWS_HARVEST"
  /\ state' = "DEFAULT"
  /\ Parent
  /\ UNCHANGED <<vars, prevState, unknownDepth, copyDepth, errorDetected, localId,
                 localIdToCrawlIds, tokens, currentToken, dataLabel, due>>

EndExpr ==
  /\ state = "IN_MWS_EXPR" /\ currentToken = 0
  /\ state' = "IN_MWS_HARVEST"
  /\ Parent
  /\ UNCHANGED <<vars, prevState, unknownDepth, copyDepth, errorDetected, localId,
                 localIdToCrawlIds, tokens, currentToken, dataLabel, due>>

crawlIdOfExpr ==
  IF shouldProcessData /\ localId \in DOMAIN localIdToCrawlIds
    THEN localIdToCrawlIds[localId] ELSE CRAWLID_NULL

\* The data element the document means: the latest one with the same id.
Referred == Max({CRAWLID_NULL} \cup
                { c \in DOMAIN dataLabel : dataLabel[c] = <<file, open[2].id>> })

\* The end of the root: processExpression, then the tree is deleted.
EndRootToken ==
  /\ state = "IN_MWS_EXPR" /\ currentToken = 1
  /\ BeginExpression(Subexpressions(tokens), crawlIdOfExpr)
  /\ tokens' = <<>> /\ currentToken' = 0
  /\ due' = Append(due, IF errorDetected THEN Unknown ELSE Referred)
  /\ Parent
  /\ UNCHANGED <<state, prevState, unknownDepth, copyDepth, errorDetected, localId,
                 localIdToCrawlIds, dataLabel>>

EndToken ==
  /\ state = "IN_MWS_EXPR" /\ currentToken > 1
  /\ currentToken' = currentToken - 1
  /\ Parent
  /\ UNCHANGED <<vars, state, prevState, unknownDepth, copyDepth, errorDetected, localId,
                 localIdToCrawlIds, tokens, dataLabel, due>>

idsWith(crawlId) ==
  [l \in DOMAIN localIdToCrawlIds \cup {localId} |->
     IF l = localId THEN crawlId ELSE localIdToCrawlIds[l]]

\* Mutant: an id is handed out and the data is not stored.
processDataUnstored ==
  IF shouldProcessData /\ HasCrawlDb
    THEN /\ localIdToCrawlIds' = idsWith(Cardinality(crawlDb) + 1)
         /\ UNCHANGED <<vars, dataLabel>>
    ELSE UNCHANGED <<vars, localIdToCrawlIds, dataLabel>>

\* processData, which returns CRAWLID_NULL when there is no crawl database.
processData ==
  IF shouldProcessData /\ HasCrawlDb
    THEN /\ indexCrawlData
         /\ localIdToCrawlIds' = idsWith(Cardinality(crawlDb) + 1)
         /\ dataLabel' = Append(dataLabel, <<file, open[2].id>>)
    ELSE UNCHANGED <<vars, localIdToCrawlIds, dataLabel>>

\* LevCrawlDb::putData throws when the database refuses the item, and nothing
\* catches it.
PutDataFails ==
  /\ state = "IN_MWS_DATA" /\ copyDepth = 1
  /\ shouldProcessData /\ HasCrawlDb /\ PutMayFail
  /\ doc' = "aborted"
  /\ UNCHANGED <<vars, open, elements, file, saxData, dataLabel, due>>

EndInData ==
  /\ state = "IN_MWS_DATA"
  /\ copyDepth' = copyDepth - 1
  /\ IF copyDepth = 1
       THEN state' = "IN_MWS_HARVEST" /\ processData
       ELSE UNCHANGED <<vars, state, localIdToCrawlIds, dataLabel>>
  /\ Parent
  /\ UNCHANGED <<prevState, unknownDepth, errorDetected, localId, tokens, currentToken, due>>

\* Mutant: the state before is not restored.
EndUnknownToDefault ==
  /\ state = "UNKNOWN"
  /\ unknownDepth' = unknownDepth - 1
  /\ state' = IF unknownDepth = 1 THEN "DEFAULT" ELSE state
  /\ Parent
  /\ UNCHANGED <<vars, prevState, copyDepth, errorDetected, localId, localIdToCrawlIds, tokens,
                 currentToken, dataLabel, due>>

EndUnknown ==
  /\ state = "UNKNOWN"
  /\ unknownDepth' = unknownDepth - 1
  /\ state' = IF unknownDepth = 1 THEN prevState ELSE state
  /\ Parent
  /\ UNCHANGED <<vars, prevState, copyDepth, errorDetected, localId, localIdToCrawlIds, tokens,
                 currentToken, dataLabel, due>>

endElement ==
  /\ doc = "root"
  /\ \/ EndInDefault \/ EndHarvest \/ EndExpr \/ EndRootToken \/ EndToken
     \/ PutDataFails \/ EndInData \/ EndUnknown

(***************************************************************************)
(* my_error deletes the tree under construction and leaves the state as it *)
(* is.  Whether libxml2 goes on depends on the error.                      *)
(***************************************************************************)
error(fatal) ==
  /\ doc \in {"prolog", "root"}
  /\ errorDetected' = TRUE
  /\ tokens' = <<>> /\ currentToken' = 0
  /\ doc' = IF fatal THEN "epilog" ELSE doc
  /\ UNCHANGED <<vars, open, elements, file, state, prevState, unknownDepth, copyDepth, localId,
                 localIdToCrawlIds, dataLabel, due>>

\* The parser waits while a call of indexContentMath runs.
IndexStep ==
  /\ SkipSubexpression \/ InsertSubexpression \/ RepeatedSubexpression \/ EndExpression
  /\ UNCHANGED <<document, saxData, dataLabel, due>>

ParseStep ==
  \/ /\ Idle
     /\ \/ EndDocument \/ endElement
        \/ \E e \in Elements : startElement(e)
        \/ \E fatal \in BOOLEAN : error(fatal)
  \/ IndexStep

-----------------------------------------------------------------------------
(***************************************************************************)
(* Properties.                                                             *)
(***************************************************************************)

\* What the state should be, by the elements that are open.
StateOf(stack) ==
  CASE stack = <<>> -> "DEFAULT"
    [] stack # <<>> /\ stack[1].name # "mws:harvest" -> "UNKNOWN"
    [] Len(stack) = 1 /\ stack[1].name = "mws:harvest" -> "IN_MWS_HARVEST"
    [] OTHER -> CASE stack[2].name = "mws:expr" -> "IN_MWS_EXPR"
                  [] stack[2].name = "mws:data" /\ stack[2].id # NoId -> "IN_MWS_DATA"
                  [] OTHER -> "UNKNOWN"

\* As long as the document had no error, the state of the SAX handlers and
\* their three depths are those of the document's open elements, whatever
\* elements were skipped, copied or turned into tokens before: no element of
\* one entry is taken for one of another, and the assertion of my_endElement
\* in the default state holds.
StateFollowsDocument ==
  doc \in {"root", "epilog"} /\ ~errorDetected =>
    /\ state = StateOf(open)
    /\ state = "UNKNOWN" => unknownDepth = Len(open) - (IF prevState = "DEFAULT" THEN 0 ELSE 1)
    /\ state = "IN_MWS_DATA" => copyDepth = Len(open) - 1
    /\ currentToken = IF state = "IN_MWS_EXPR" THEN Len(open) - 2 ELSE 0

\* Every hit that a query can return leads to the data of the mws:data element
\* that its mws:expr referred to: the latest one of the same file with the same
\* mws:data_id, and to no data if there was none, although one member, localId,
\* serves the elements of both kinds and every file numbers its own.
HitsPointToTheirData ==
  \A id \in DOMAIN formulaDb : \A i \in DOMAIN formulaDb[id] :
    LET hit == formulaDb[id][i]
    IN  due[hit.expr] \in {Unknown, hit.crawlId}

\* The handlers use IndexBuilder as it is specified and proved about: with
\* expressions of whole trees, with crawl ids that exist, one call at a time.
UsesIndexBuilder == Spec
=============================================================================

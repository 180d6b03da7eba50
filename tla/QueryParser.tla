---------------------------- MODULE QueryParser ----------------------------
(***************************************************************************)
(* readMwsQuery: the SAX handlers that turn the body of a POST request     *)
(* into a Query.  A body is what libxml2 (external) delivers of it: a      *)
(* sequence of events, the start of an element (with its attributes), the  *)
(* end of one, or an error.  After an error of well-formedness nothing     *)
(* more is delivered but the end of the document; after others (an         *)
(* undeclared entity of a document with a DTD) the document goes on.       *)
(* The handlers' user data are the record the operators map to its next    *)
(* value; a parse touches nothing else, so it is one function of a body.   *)
(***************************************************************************)
EXTENDS CmmlTokens

CONSTANTS
  DEFAULT_QUERY_RESULT_SIZE,
  DEFAULT_SCHEMA_DEPTH,
  SIZE_MOD,    \* 2^width of size_t
  NoXref       \* the value of an xref attribute that is not there

ASSUME QueryAssumption ==
  SIZE_MOD \in Nat /\ DEFAULT_QUERY_RESULT_SIZE \in Nat /\ DEFAULT_QUERY_RESULT_SIZE < SIZE_MOD

\* An uninitialised Query::cutoff_mode.
Uninitialised == "uninitialised"

\* nullptr, where there is no query.
NoQuery == [null |-> TRUE]

NewQuery(mode) ==
  [tokens |-> <<>>,
   attrResultMaxSize |-> DEFAULT_QUERY_RESULT_SIZE, attrResultLimitMin |-> 0,
   responseFormatter |-> IF mode = "QUERY_SCHEMA" THEN "SCHEMA_JSON" ELSE "MWS_XML",
   includeHits |-> TRUE,
   max_depth |-> DEFAULT_SCHEMA_DEPTH, cutoff_mode |-> Uninitialised]

NewUserData(mode) ==
  [qMode |-> mode, state |-> "DEFAULT", prevState |-> "DEFAULT", unknownDepth |-> 0,
   tree |-> <<>>,        \* the tokens under currentTokenRoot
   currentToken |-> 0,
   errorDetected |-> FALSE,
   result |-> NewQuery(mode)]

\* Numbers come as int: max_depth is an uint8_t, the sizes are size_t.
setAttribute(mode, query, attr) ==
  CASE attr.key = "answsize"     -> [query EXCEPT !.attrResultMaxSize = attr.value % SIZE_MOD]
    [] attr.key = "limitmin"     -> [query EXCEPT !.attrResultLimitMin = attr.value % SIZE_MOD]
    [] attr.key = "schema_depth" -> [query EXCEPT !.max_depth = attr.value % 256]
    [] attr.key = "cutoff_mode"  -> [query EXCEPT !.cutoff_mode = attr.value]
    [] attr.key = "output" /\ attr.value = "xml" ->
         [query EXCEPT !.responseFormatter =
            IF mode = "QUERY_SCHEMA" THEN "SCHEMA_XML" ELSE "MWS_XML"]
    [] attr.key = "output" /\ attr.value = "json" ->
         [query EXCEPT !.responseFormatter =
            IF mode = "QUERY_SCHEMA" THEN "SCHEMA_JSON" ELSE "MWS_JSON"]
    [] attr.key = "output" /\ attr.value = "mws-ids" ->
         [query EXCEPT !.responseFormatter = "MWS_IDS", !.includeHits = FALSE]
    [] OTHER -> query

\* The attributes of the root, one after the other.
setAttributes(mode, query, attrs) ==
  LET after[i \in 0..Len(attrs)] ==
        IF i = 0 THEN query ELSE setAttribute(mode, after[i - 1], attrs[i])
  IN  after[Len(attrs)]

SkipElement(data) ==
  [data EXCEPT !.prevState = data.state, !.state = "UNKNOWN", !.unknownDepth = 1]

my_startElement(data, e) ==
  CASE data.state = "DEFAULT" /\ e.name = "mws:query" ->
         [data EXCEPT !.state = "IN_MWS_QUERY", !.result = setAttributes(data.qMode, @, e.attrs)]
    [] data.state = "IN_MWS_QUERY" /\ e.name = "mws:expr" -> [data EXCEPT !.state = "IN_MWS_EXPR"]
    [] data.state = "IN_MWS_EXPR" ->
         [data EXCEPT !.currentToken = @ + 1,
                      !.tree = newChildNode(@, data.currentToken, e.name, e.xref)]
    [] data.state = "UNKNOWN" -> [data EXCEPT !.unknownDepth = @ + 1]
    [] OTHER -> SkipElement(data)

\* Mutant: a skipped element puts the parser back at the beginning.
my_endElementForgets(data) ==
  CASE data.state \in {"DEFAULT", "IN_MWS_QUERY"} -> [data EXCEPT !.state = "DEFAULT"]
    [] data.state = "IN_MWS_EXPR" /\ data.currentToken = 0 -> [data EXCEPT !.state = "IN_MWS_QUERY"]
    [] data.state = "IN_MWS_EXPR" /\ data.currentToken = 1 ->
         [data EXCEPT !.currentToken = 0, !.result.tokens = Append(@, data.tree)]
    [] data.state = "IN_MWS_EXPR" /\ data.currentToken > 1 -> [data EXCEPT !.currentToken = @ - 1]
    [] data.state = "UNKNOWN" ->
         [data EXCEPT !.unknownDepth = @ - 1,
                      !.state = IF data.unknownDepth = 1 THEN "DEFAULT" ELSE @]

my_endElement(data) ==
  CASE data.state \in {"DEFAULT", "IN_MWS_QUERY"} -> [data EXCEPT !.state = "DEFAULT"]
    [] data.state = "IN_MWS_EXPR" /\ data.currentToken = 0 -> [data EXCEPT !.state = "IN_MWS_QUERY"]
    [] data.state = "IN_MWS_EXPR" /\ data.currentToken = 1 ->
         [data EXCEPT !.currentToken = 0, !.result.tokens = Append(@, data.tree)]
    [] data.state = "IN_MWS_EXPR" /\ data.currentToken > 1 -> [data EXCEPT !.currentToken = @ - 1]
    [] data.state = "UNKNOWN" ->
         [data EXCEPT !.unknownDepth = @ - 1,
                      !.state = IF data.unknownDepth = 1 THEN data.prevState ELSE @]

\* The tree that is being built is deleted, and the state stays.
my_error(data) == [data EXCEPT !.errorDetected = TRUE, !.currentToken = 0, !.tree = <<>>]

my_endDocument(data) == IF data.errorDetected THEN NoQuery ELSE data.result

Handle(data, event) ==
  CASE event.ev = "start" -> my_startElement(data, event)
    [] event.ev = "end"   -> my_endElement(data)
    [] event.ev = "error" -> my_error(data)

\* No file is opened on an empty buffer; where fmemopen does open one, libxml2
\* calls no endDocument and the query has no tokens, which is treated alike.
readMwsQuery(body, mode) ==
  IF body = <<>> THEN NoQuery
  ELSE LET data[i \in 0..Len(body)] ==
             IF i = 0 THEN NewUserData(mode) ELSE Handle(data[i-1], body[i])
       IN  my_endDocument(data[Len(body)])

-----------------------------------------------------------------------------
(***************************************************************************)
(* What a body asks for, read off its structure.                           *)
(***************************************************************************)

\* The level of the element that starts at event i; the root has level 1.
Level(body, i) ==
  Cardinality({ k \in 1..i : body[k].ev = "start" }) - Cardinality({ k \in 1..i : body[k].ev = "end" })

Starts(body) == { i \in DOMAIN body : body[i].ev = "start" }

\* The position of the next element that is not inside the one that starts at i.
NextAfter(body, i) ==
  Min({ k \in Starts(body) : k > i /\ Level(body, k) <= Level(body, i) } \cup {Len(body) + 1})

\* The mws:expr elements that are children of an mws:query root, and the children
\* of those.
Exprs(body) == { i \in Starts(body) : body[i].name = "mws:expr" /\ Level(body, i) = 2 }

Roots(body) ==
  { i \in Starts(body) : /\ body[1].name = "mws:query" /\ Level(body, i) = 3
                         /\ \E e \in Exprs(body) : e < i /\ i < NextAfter(body, e) }

\* An element and all that are inside it, as a tree.
TermAt(body, r) ==
  LET tokens == InOrder({ i \in Starts(body) : r <= i /\ i < NextAfter(body, r) })
  IN  [k \in DOMAIN tokens |-> newToken(body[tokens[k]].name, body[tokens[k]].xref,
                                        Level(body, tokens[k]) - 2)]

TermsOf(body) == LET roots == InOrder(Roots(body))
                 IN  [k \in DOMAIN roots |-> TermAt(body, roots[k])]

HasError(body) == body = <<>> \/ \E i \in DOMAIN body : body[i].ev = "error"

\* What libxml2 may deliver: tags are balanced and there is one root element, unless
\* there is an error; the root does not have the same attribute twice.
IsDocument(body) ==
  /\ body \in Seq(ToSet(body))
  /\ \A i \in DOMAIN body : body[i].ev \in {"start", "end", "error"}
  /\ ~HasError(body) =>
       /\ \A i \in 1..(Len(body) - 1) : Level(body, i) > 0
       /\ Level(body, Len(body)) = 0
       /\ LET attrs == body[1].attrs
          IN  /\ attrs \in Seq(ToSet(attrs))
              /\ \A i, j \in DOMAIN attrs : attrs[i].key = attrs[j].key => i = j

\* The value the root gives an attribute, if it has one.
AttributeOf(body, key, default) ==
  LET given == { i \in DOMAIN body[1].attrs : body[1].attrs[i].key = key }
  IN  IF given = {} THEN default ELSE body[1].attrs[Max(given)].value
=============================================================================

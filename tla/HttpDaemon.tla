----------------------------- MODULE HttpDaemon -----------------------------
(***************************************************************************)
(* mwsd and schemad: the HTTP daemon, its access handler and the query     *)
(* handlers behind it.  libmicrohttpd (external) runs each connection in a *)
(* thread of its own and calls accessHandlerCallback when the request line *)
(* is in, for each piece of the body, and once more at its end.  The       *)
(* threads share the lock of libxml2 and nothing they write.  No callback  *)
(* is registered for the end of a connection.                              *)
(*                                                                         *)
(* The search itself is SearchContext (or the experimental engine): here   *)
(* it is the function Search of the term and the page that are asked for.  *)
(***************************************************************************)
EXTENDS ResponseFormatters, SignalWait

CONSTANTS
  Conns,                \* connections; each carries one request
  Handlers,             \* the programs: "index" (mwsd -D), "harvest" (mwsd -I), "schema" (schemad)
  Requests,             \* Requests[h][c]: requests [method, root, body] of connection c to program h
  Search(_, _, _, _),   \* [answers, total, ids] for term, limitMin, maxSize, includeHits
  KnownTags,            \* meanings in the index's dictionary
  VarTags,              \* tags that stand for an mws:qvar and its name
  NoConn,               \* no holder of a lock; no request, no answer
  XML_MWS_ROOT_RESPONSE, XML_MWS_BAD_QUERY, XML_MWS_SERVER_ERROR,
  XML_MWS_METHOD_NOT_ALLOWED, EMPTY_RESPONSE,   \* generic bodies
  Incomplete,           \* body of a reply a formatter could not write completely
  Arbitrary,            \* body of a reply that was read from other memory
  MaxFaults             \* bound: failing calls and clients that go away

ASSUME DaemonAssumption ==
  /\ NoConn \notin Conns
  /\ \A h \in Handlers, c \in Conns : \A req \in Requests[h][c] : IsDocument(req.body)

VARIABLES
  handler,  \* the program
  conns,    \* conns[c]: where its thread is and its data
  xmlLock,  \* the connection that holds the lock of libxml2, or NoConn
  faults    \* number of faults so far

daemonVars == <<handler, conns, xmlLock, faults>>
vars == <<daemonVars, signalVars>>

Chunks(req) == IF req.body = <<>> THEN 0 ELSE 2

Idle == [pc |-> "idle", req |-> NoConn, sent |-> 0, stream |-> "none",
         responseData |-> "none", query |-> NoQuery, answer |-> NoConn, reply |-> NoConn, faulty |-> FALSE]

Init ==
  /\ handler \in Handlers
  /\ conns = [c \in Conns |-> Idle]
  /\ xmlLock = NoConn /\ faults = 0
  /\ SignalInit

-----------------------------------------------------------------------------
(***************************************************************************)
(* MemStream, by its mode; "aborted" where an assertion fails.             *)
(***************************************************************************)
closeWritingMode(mode, next) == IF mode = "WRITING" THEN next ELSE "aborted"

getOutputFile(mode) == closeWritingMode(mode, "READING_FILE")

releaseOutputBuffer(mode) == closeWritingMode(mode, "READING_BUFFER")

deleteStream(mode) ==
  IF mode \in {"WRITING", "READING_FILE", "READING_BUFFER"} THEN "freed" ELSE "aborted"

-----------------------------------------------------------------------------
(***************************************************************************)
(* A connection up to the end of its request.                              *)
(***************************************************************************)
At(c, pc) == ~Gone /\ conns[c].pc = pc

Others == UNCHANGED <<handler, signalVars>>

Fault == faults < MaxFaults /\ faults' = faults + 1

\* acceptPolicyCallback lets everyone in.
Connect(c, req) ==
  /\ mainPc \in {"test", "suspend", "suspended"} /\ conns[c].pc = "idle"
  /\ conns' = [conns EXCEPT ![c].pc = "access", ![c].req = req]
  /\ UNCHANGED <<xmlLock, faults>> /\ Others

\* MHD_queue_response; allow is the header that lists the methods.
Reply(con, code, type, allow, body) ==
  [con EXCEPT !.pc = "closed",
              !.reply = [code |-> code, type |-> type, allow |-> allow, body |-> body]]

Allowed(root) == IF root THEN {"GET", "POST", "OPTIONS"} ELSE {"POST", "OPTIONS"}

sendOptionsResponse(con) == Reply(con, 200, "text/plain", Allowed(con.req.root), EMPTY_RESPONSE)

sendMethodNotAllowedResponse(con) ==
  Reply(con, 405, "text/xml", Allowed(con.req.root), XML_MWS_METHOD_NOT_ALLOWED)

sendXmlGenericResponse(con, xmlGenericResponse, statusCode) ==
  Reply(con, statusCode, "text/xml", {}, xmlGenericResponse)

\* The first call.
FirstCall(c) ==
  /\ At(c, "access")
  /\ LET con == conns[c]
     IN  conns' = [conns EXCEPT ![c] =
           CASE con.req.method = "OPTIONS" -> sendOptionsResponse(con)
             [] con.req.method = "GET" /\ con.req.root ->
                  sendXmlGenericResponse(con, XML_MWS_ROOT_RESPONSE, 200)
             [] con.req.method = "POST" -> [con EXCEPT !.pc = "upload", !.stream = "WRITING"]
             [] OTHER -> sendMethodNotAllowedResponse(con)]
  /\ UNCHANGED <<xmlLock, faults>> /\ Others

Upload(c) ==
  /\ At(c, "upload") /\ conns[c].sent < Chunks(conns[c].req)
  /\ conns' = [conns EXCEPT ![c].sent = @ + 1]
  /\ UNCHANGED <<xmlLock, faults>> /\ Others

\* fwrite fails: the stream is deleted and the connection closed.
FailUpload(c) ==
  /\ At(c, "upload") /\ conns[c].sent < Chunks(conns[c].req)
  /\ conns' = [conns EXCEPT ![c].pc = "closed", ![c].stream = deleteStream(@), ![c].faulty = TRUE]
  /\ Fault /\ UNCHANGED xmlLock /\ Others

\* The client goes away, or the daemon stops, before the request is complete.
Drop(c) ==
  /\ At(c, "access") \/ At(c, "upload")
  /\ conns' = [conns EXCEPT ![c].pc = "closed", ![c].faulty = TRUE]
  /\ IF mainPc = "stopping" THEN UNCHANGED faults ELSE Fault
  /\ UNCHANGED xmlLock /\ Others

-----------------------------------------------------------------------------
(***************************************************************************)
(* The last call: parse, answer, format, send.                             *)
(***************************************************************************)
LastCall(c) ==
  /\ At(c, "upload") /\ conns[c].sent = Chunks(conns[c].req)
  /\ conns' = [conns EXCEPT ![c].stream = getOutputFile(@),
                            ![c].pc = IF conns[c].req.body = <<>> THEN "parsed" ELSE "parse"]
  /\ UNCHANGED <<xmlLock, faults>> /\ Others

xmlLockLibrary(c) ==
  /\ At(c, "parse") /\ xmlLock = NoConn
  /\ xmlLock' = c
  /\ conns' = [conns EXCEPT ![c].pc = "parsing"]
  /\ UNCHANGED faults /\ Others

\* What each program reads of each body.
QueryOf ==
  [h \in Handlers |->
    [body \in { req.body : req \in UNION { Requests[h][c] : c \in Conns } } |->
      readMwsQuery(body, IF h = "schema" THEN "QUERY_SCHEMA" ELSE "QUERY_MWS")]]

\* Mutant: the lock is kept when there is no parser context.
ParseKeepingLock(c) ==
  /\ At(c, "parsing")
  /\ \/ /\ conns' = [conns EXCEPT ![c].pc = "parsed", 
                                  ![c].query = QueryOf[handler][conns[c].req.body]]
        /\ xmlLock' = NoConn /\ UNCHANGED faults
     \/ /\ conns' = [conns EXCEPT ![c].pc = "parsed", ![c].faulty = TRUE]
        /\ Fault /\ UNCHANGED xmlLock
  /\ Others

\* The document is parsed, or there is no parser context for it.
Parse(c) ==
  /\ At(c, "parsing")
  /\ \/ /\ conns' = [conns EXCEPT ![c].pc = "parsed",
                                  ![c].query = QueryOf[handler][conns[c].req.body]]
        /\ UNCHANGED faults
     \/ /\ conns' = [conns EXCEPT ![c].pc = "parsed", ![c].faulty = TRUE]
        /\ Fault
  /\ xmlLock' = NoConn
  /\ Others

\* Mutant: the stream of a bad query is not deleted.
CheckQueryLeaks(c) ==
  /\ At(c, "parsed")
  /\ LET con == conns[c]
     IN  conns' = [conns EXCEPT ![c] =
           IF con.query = NoQuery THEN sendXmlGenericResponse(con, XML_MWS_BAD_QUERY, 400)
           ELSE IF con.query.tokens = <<>>
             THEN sendXmlGenericResponse([con EXCEPT !.stream = deleteStream(@)], XML_MWS_BAD_QUERY, 400)
             ELSE [con EXCEPT !.stream = deleteStream(@), !.pc = "handle"]]
  /\ UNCHANGED <<xmlLock, faults>> /\ Others

CheckQuery(c) ==
  /\ At(c, "parsed")
  /\ LET con == [conns[c] EXCEPT !.stream = deleteStream(@)]
         bad == IF con.query = NoQuery THEN TRUE ELSE con.query.tokens = <<>>
     IN  conns' = [conns EXCEPT ![c] = IF bad THEN sendXmlGenericResponse(con, XML_MWS_BAD_QUERY, 400)
                                              ELSE [con EXCEPT !.pc = "handle"]]
  /\ UNCHANGED <<xmlLock, faults>> /\ Others

\* A range is not told from a constant here.
getType(token) == IF token.tag \in VarTags THEN "VAR" ELSE "CONSTANT"

\* QueryEncoder: the named variables met before the encoder gives up, which it
\* does at a token of too many children; a meaning that is not in the index
\* also fails, but only at the end.
encodeQuery(tree) ==
  LET tooWide == { i \in DOMAIN tree : getType(tree[i]) # "VAR"
                                       /\ getArity(tree, i) > ENC_TOK_MAX_ARITY }
      seen  == IF tooWide = {} THEN Len(tree) ELSE Min(tooWide) - 1
      qvars == InOrder({ i \in 1..seen : getType(tree[i]) = "VAR" })
  IN  [ok |-> tooWide = {} /\ \A i \in DOMAIN tree : tree[i].tag \in KnownTags \cup VarTags,
       qvarNames |-> [k \in DOMAIN qvars |-> tree[qvars[k]].tag],
       qvarXpaths |-> [k \in DOMAIN qvars |-> getXpathRelative(tree, qvars[k])]]

\* IndexQueryHandler and HarvestQueryHandler: only the first term is searched.
handleIndexQuery(query) ==
  LET encoded == encodeQuery(query.tokens[1])
      result  == IF encoded.ok
                   THEN Search(query.tokens[1], query.attrResultLimitMin,
                               query.attrResultMaxSize, query.includeHits)
                   ELSE [answers |-> <<>>, total |-> 0, ids |-> {}]
  IN  [answers |-> result.answers, total |-> result.total, ids |-> result.ids,
       qvarNames |-> encoded.qvarNames, qvarXpaths |-> encoded.qvarXpaths]

\* The answers each program may give to each query.
AnswersTo ==
  [h \in Handlers |->
    [query \in { q \in Range(QueryOf[h]) : IF q = NoQuery THEN FALSE ELSE q.tokens # <<>> } |->
      IF h = "schema" THEN handleSchemaQuery(query) ELSE {handleIndexQuery(query)}]]

handleQuery(c) ==
  /\ At(c, "handle")
  /\ \E answer \in AnswersTo[handler][conns[c].query] :
       conns' = [conns EXCEPT ![c].pc = "format", ![c].answer = answer,
                              ![c].responseData = "WRITING"]
  /\ UNCHANGED <<xmlLock, faults>> /\ Others

\* A schema answer taken for an MwsAnswset by MwsIdsResponseFormatter.
Confused(c) == handler = "schema" /\ conns[c].query.responseFormatter = "MWS_IDS"

\* The buffer goes to libmicrohttpd, and the stream with the callback.
SendAnswer(c, body, faulty) ==
  LET con  == conns[c]
      sent == [con EXCEPT !.responseData = deleteStream(releaseOutputBuffer(@)), !.faulty = faulty]
  IN  conns' = [conns EXCEPT ![c] =
                  Reply(sent, 200, getContentType(con.query.responseFormatter), {}, body)]

Format(c) ==
  /\ At(c, "format") /\ ~Confused(c)
  /\ SendAnswer(c, writeData(conns[c].query.responseFormatter, conns[c].answer), FALSE)
  /\ UNCHANGED <<xmlLock, faults>> /\ Others

\* A write fails: the XML formatters may notice, the others send what they have.
FailFormat(c) ==
  /\ At(c, "format") /\ ~Confused(c)
  /\ \/ /\ conns[c].query.responseFormatter \in {"MWS_XML", "SCHEMA_XML"}
        /\ LET con == [conns[c] EXCEPT !.responseData = deleteStream(@), !.faulty = TRUE]
           IN  conns' = [conns EXCEPT ![c] = sendXmlGenericResponse(con, XML_MWS_SERVER_ERROR, 500)]
     \/ SendAnswer(c, Incomplete, TRUE)
  /\ Fault /\ UNCHANGED xmlLock /\ Others

\* What is read is not an MwsAnswset: anything is sent, or the process is killed.
FormatConfused(c) ==
  /\ At(c, "format") /\ Confused(c)
  /\ \/ SendAnswer(c, Arbitrary, FALSE) /\ UNCHANGED signalVars
     \/ mainPc' = "killed" /\ UNCHANGED <<conns, shouldQuit, signals>>
  /\ UNCHANGED <<xmlLock, faults, handler>>

-----------------------------------------------------------------------------
(***************************************************************************)
(* The main thread.                                                        *)
(***************************************************************************)
MainStep == ~Gone /\ SignalStep /\ UNCHANGED daemonVars

\* MHD_start_daemon fails: the exception ends main.
StartFails ==
  /\ mainPc = "ready"
  /\ mainPc' = "exited"
  /\ Fault /\ UNCHANGED <<handler, conns, xmlLock, shouldQuit, signals>>

\* MHD_stop_daemon waits for the threads of all connections.
Exit ==
  /\ mainPc = "stopping" /\ \A c \in Conns : conns[c].pc \in {"idle", "closed"}
  /\ mainPc' = "exited"
  /\ UNCHANGED <<daemonVars, shouldQuit, signals>>

CallbackStep(c) ==
  \/ FirstCall(c) \/ LastCall(c) \/ xmlLockLibrary(c) \/ Parse(c) \/ CheckQuery(c)
  \/ handleQuery(c) \/ Format(c) \/ FailFormat(c) \/ FormatConfused(c)

ClientStep(c) ==
  \/ \E req \in Requests[handler][c] : Connect(c, req)
  \/ Upload(c) \/ FailUpload(c) \/ Drop(c)

Next == (\E c \in Conns : CallbackStep(c) \/ ClientStep(c)) \/ MainStep \/ StartFails \/ Exit

\* A callback that runs goes on, the clients are free, and a daemon that stops
\* closes the connections that wait for their client.
FairSpec ==
  /\ Init /\ [][Next]_vars
  /\ \A c \in Conns : WF_vars(CallbackStep(c)) /\ WF_vars(Drop(c) /\ mainPc = "stopping")
  /\ WF_vars(Exit)
  /\ MainFairness

-----------------------------------------------------------------------------
(***************************************************************************)
(* Properties.                                                             *)
(***************************************************************************)

\* The format a body asks for.
OutputOf(body) ==
  LET output == AttributeOf(body, "output", "none")
  IN  IF output \in {"xml", "json", "mws-ids"} THEN output
      ELSE IF handler = "schema" THEN "json" ELSE "xml"

\* What mwsd finds for a body: the page of hits of its first term.
FoundFor(body) ==
  handleIndexQuery(
    [tokens |-> TermsOf(body), includeHits |-> OutputOf(body) # "mws-ids",
     attrResultLimitMin |-> AttributeOf(body, "limitmin", 0) % SIZE_MOD,
     attrResultMaxSize |-> AttributeOf(body, "answsize", DEFAULT_QUERY_RESULT_SIZE) % SIZE_MOD])

\* The reply to a complete POST request is the answer to the terms of its own
\* body, in the format it asked for: the first term's page of hits from mwsd, the
\* schemata of all terms from schemad.  400 goes to the bodies that are not XML or
\* hold no term, and 500 only follows a failure.
ReplyIsAnswer ==
  \A c \in Conns : conns[c].pc = "closed" /\ conns[c].reply # NoConn /\ conns[c].req.method = "POST" =>
    LET con    == conns[c]
        body   == con.req.body
        bad    == HasError(body) \/ TermsOf(body) = <<>>
        output == OutputOf(body)
    IN  CASE con.reply.code = 400 -> bad \/ con.faulty
          [] con.reply.code = 500 -> con.faulty
          [] OTHER ->
               \/ con.reply.body = Incomplete /\ con.faulty
               \/ con.reply.body = Arbitrary /\ Confused(c)
               \/ /\ ~bad
                  /\ con.reply.type = IF output = "xml" THEN "application/xml" ELSE "application/json"
                  /\ IF handler = "schema"
                       THEN /\ con.query.tokens = TermsOf(body)
                            /\ con.reply.body = IF output = "xml" THEN SchemaXmlData(con.answer)
                                                                ELSE SchemaJsonData(con.answer)
                       ELSE con.reply.body = CASE output = "xml"  -> MwsXmlData(FoundFor(body))
                                               [] output = "json" -> MwsJsonData(FoundFor(body))
                                               [] OTHER           -> MwsIdsData(FoundFor(body))

\* No assertion of MemStream fails, a stream is freed before its connection is
\* answered, and the ones that stay allocated belong to connections that were
\* dropped in the middle of their body.
StreamUse ==
  \A c \in Conns :
    /\ conns[c].stream # "aborted" /\ conns[c].responseData # "aborted"
    /\ conns[c].pc = "closed" =>
         /\ conns[c].responseData \in {"none", "freed"}
         /\ conns[c].stream = "WRITING" => conns[c].reply = NoConn /\ conns[c].faulty
         /\ conns[c].stream # "READING_FILE"

\* A request that was received completely is answered, or the process ends: the
\* lock of libxml2 comes free and a daemon that stops lets the callbacks finish.
RequestsAnswered ==
  \A c \in Conns : (conns[c].pc = "parse") ~> (conns[c].reply # NoConn \/ Gone)

-----------------------------------------------------------------------------
\* The tokens a schema keeps: all down to the cutoff, and below it those reached
\* through first children of an apply only.
Visible(tree, cutoff) ==
  LET end  == [p \in DOMAIN tree |-> SubtreeEnd(tree, p)]
      kept == { p \in DOMAIN tree : \/ tree[p].depth <= cutoff
                                     \/ /\ p > 1 /\ tree[p-1].tag \in ApplyTags
                                        /\ tree[p-1].depth = tree[p].depth - 1 }
  IN  { k \in DOMAIN tree : cutoff > 0 /\ \A p \in 1..k : end[p] >= k => p \in kept }

\* The roots of the subterms that are cut away.
Cut(tree, cutoff) ==
  LET visible == Visible(tree, cutoff)
  IN  { k \in DOMAIN tree \ visible :
          k = 1 \/ Max({ p \in 1..(k-1) : tree[p].depth < tree[k].depth }) \in visible }

\* The tree with a variable for each subterm that is cut away.
CutTree(tree, cutoff) ==
  LET cut  == Cut(tree, cutoff)
      kept == InOrder(Visible(tree, cutoff) \cup cut)
  IN  [n \in DOMAIN kept |-> [tag |-> IF kept[n] \in cut THEN QVAR_TAG ELSE tree[kept[n]].tag,
                              depth |-> tree[kept[n]].depth]]

Schematised == { c \in Conns : handler = "schema" /\ conns[c].pc = "format" }

CutoffIn(con, tree) == CutoffOf(tree, con.answer.heuristic, con.query.max_depth)

\* A schema is what each of its formulas looks like down to its own cutoff, though
\* it is decoded with the cutoff of the last one only, and decoding it meets no
\* failing assertion.
SchemataShowTheirFormulas ==
  \A c \in Schematised :
    LET con == conns[c]
    IN  \A n \in DOMAIN con.answer.schemata :
          LET schema == con.answer.schemata[n]
          IN  /\ schema.assertsHold
              /\ schema.coverage = Len(schema.formulae)
              /\ \A i \in ToSet(schema.formulae) :
                   LET tree == Encoded(con.query)[i]
                   IN  schema.root = CutTree(tree, CutoffIn(con, tree))

\* Formulas that look alike are in one schema and in no other; schemata are
\* dropped only for the size that was asked for, and none that is larger than one
\* that is kept.
LargestSchemataKept ==
  \A c \in Schematised :
    LET con   == conns[c]
        trees == Encoded(con.query)
        look  == [i \in DOMAIN trees |-> CutTree(trees[i], CutoffIn(con, trees[i]))]
        group(i) == { j \in DOMAIN trees : look[j] = look[i] }
        shown == con.answer.schemata
        kept  == UNION { ToSet(shown[n].formulae) : n \in DOMAIN shown }
    IN  /\ con.answer.total = Cardinality({ group(i) : i \in DOMAIN trees })
        /\ \A m, n \in DOMAIN shown : shown[m].root = shown[n].root => m = n
        /\ \A i \in kept : group(i) \subseteq kept
        /\ kept # DOMAIN trees => Len(shown) = con.query.attrResultMaxSize
        /\ \A i \in kept, j \in DOMAIN trees \ kept : Cardinality(group(i)) >= Cardinality(group(j))

\* The substitutions of a schema are the xrefs of the subterms that were cut away
\* from its first formula, in their order, without those inside the first child of
\* an apply - if all formulas of the query could be encoded.
SubstitutionsAreCut ==
  \A c \in Schematised :
    LET con == conns[c]
    IN  Len(Encoded(con.query)) = Len(con.query.tokens) =>
          \A n \in DOMAIN con.answer.schemata :
            LET schema == con.answer.schemata[n]
                tree   == con.query.tokens[schema.formulae[1]]
                inside(k) == \E p \in 2..k : /\ SubtreeEnd(tree, p) >= k
                                            /\ tree[p-1].tag = "apply"
                                            /\ tree[p-1].depth = tree[p].depth - 1
                cut == InOrder({ k \in Cut(tree, CutoffIn(con, tree)) :
                                     ~inside(k) /\ tree[k].xref # NoXref })
            IN  schema.subst = [m \in DOMAIN cut |-> tree[cut[m]].xref]

=============================================================================

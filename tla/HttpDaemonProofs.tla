-------------------------- MODULE HttpDaemonProofs --------------------------
(***************************************************************************)
(* Proofs about the HTTP daemon, for any connections, requests, search and *)
(* bounds.                                                                 *)
(***************************************************************************)
EXTENDS HttpDaemon, SequenceTheorems, FiniteSetTheorems, FunctionTheorems, WellFoundedInduction, TLAPS

Fields == {"pc", "req", "sent", "stream", "responseData", "query", "answer", "reply", "faulty"}

Places == {"idle", "access", "upload", "parse", "parsing", "parsed", "handle", "format", "closed"}

\* Where a thread is, and what it then has in its two streams.
StreamsOf(con) ==
  /\ con.pc \in {"idle", "access"} => con.stream = "none" /\ con.responseData = "none"
  /\ con.pc = "upload" => con.stream = "WRITING" /\ con.responseData = "none"
  /\ con.pc \in {"parse", "parsing", "parsed"} =>
       con.stream = "READING_FILE" /\ con.responseData = "none"
  /\ con.pc = "handle" => con.stream = "freed" /\ con.responseData = "none"
  /\ con.pc = "format" => con.stream = "freed" /\ con.responseData = "WRITING"
  /\ con.pc = "closed" =>
       /\ con.responseData \in {"none", "freed"}
       /\ \/ con.stream \in {"none", "freed"}
          \/ con.stream = "WRITING" /\ con.reply = NoConn /\ con.faulty = TRUE

\* A query that is answered.
HasTerms(query) == query # NoQuery /\ query.tokens # <<>>

\* What the body of a connection is read as.
Read(con) == IF con.req.body = <<>> THEN NoQuery ELSE QueryOf[handler][con.req.body]

IdsOfSchemata(con) == handler = "schema" /\ con.query.responseFormatter = "MWS_IDS"

\* What a reply to a complete request holds.
ReplyOf(con) ==
  \/ con.reply.code = 400 /\ (con.faulty = TRUE \/ ~HasTerms(Read(con)))
  \/ con.reply.code = 500 /\ con.faulty = TRUE
  \/ /\ con.reply.code = 200
     /\ con.query = Read(con) /\ HasTerms(con.query) /\ con.answer \in AnswersTo[handler][con.query]
     /\ \/ con.reply.body = Incomplete /\ con.faulty = TRUE
        \/ con.reply.body = Arbitrary /\ IdsOfSchemata(con)
        \/ /\ ~IdsOfSchemata(con)
           /\ con.reply.type = getContentType(con.query.responseFormatter)
           /\ con.reply.body = writeData(con.query.responseFormatter, con.answer)

\* What a thread has read of its request and found out, and no reply before the end.
RequestOf(c, con) ==
  /\ con.pc # "idle" => con.req \in Requests[handler][c]
  /\ con.pc \notin {"idle", "access", "closed"} => con.req.method = "POST"
  /\ con.pc \in {"idle", "access", "upload", "parse", "parsing"} => con.query = NoQuery
  /\ con.pc \notin {"parsed", "closed"} => con.faulty = FALSE
  /\ con.pc \in {"parse", "parsing"} => con.req.body # <<>>
  /\ con.pc = "parsed" => con.query = Read(con) \/ (con.query = NoQuery /\ con.faulty = TRUE)
  /\ con.pc = "parsed" /\ con.query # NoQuery => con.faulty = FALSE
  /\ con.pc \in {"handle", "format"} => con.query = Read(con) /\ HasTerms(con.query)
  /\ con.pc = "format" => con.answer \in AnswersTo[handler][con.query]
  /\ con.pc # "closed" => con.reply = NoConn
  /\ con.pc = "closed" /\ con.reply # NoConn /\ con.req.method = "POST" => ReplyOf(con)

ConnInv ==
  /\ handler \in Handlers
  /\ DOMAIN conns = Conns
  /\ \A c \in Conns :
       /\ DOMAIN conns[c] = Fields /\ conns[c].pc \in Places
       /\ StreamsOf(conns[c])
       /\ RequestOf(c, conns[c])

\* A step of one connection that leaves its record in order.
LEMMA OneConnection ==
  ASSUME ConnInv, handler' = handler, NEW c \in Conns, NEW con,
         conns' = [conns EXCEPT ![c] = con],
         DOMAIN con = Fields, con.pc \in Places,
         StreamsOf(con), RequestOf(c, con)
  PROVE  ConnInv'
<1>1. ASSUME NEW d \in Conns, NEW other, RequestOf(d, other) PROVE RequestOf(d, other)'
  BY <1>1 DEF RequestOf, ReplyOf, Read, IdsOfSchemata
<1>2. ASSUME NEW d \in Conns
      PROVE  /\ DOMAIN conns'[d] = Fields /\ conns'[d].pc \in Places
             /\ StreamsOf(conns'[d]) /\ RequestOf(d, conns'[d])
  BY DEF ConnInv
<1>3. ASSUME NEW d \in Conns PROVE RequestOf(d, conns[d])'
  BY <1>2, <1>1
<1> QED
  BY <1>2, <1>3 DEF ConnInv, StreamsOf

\* The daemon lets a connection in.
LEMMA ConnectKeeps ==
  ASSUME ConnInv, NEW c \in Conns, NEW req \in Requests[handler][c], Connect(c, req)
  PROVE  ConnInv'
<1> DEFINE con == [conns[c] EXCEPT !.pc = "access", !.req = req]
<1>1. DOMAIN conns[c] = Fields /\ conns[c].pc = "idle" /\ StreamsOf(conns[c]) /\ RequestOf(c, conns[c])
  BY DEF ConnInv, Connect
<1>2. conns' = [conns EXCEPT ![c] = con] /\ handler' = handler
  BY DEF ConnInv, Connect, Others
<1>3. DOMAIN con = Fields /\ con.pc = "access" /\ con.req = req
      /\ \A f \in Fields \ {"pc", "req"} : con[f] = conns[c][f]
  BY <1>1 DEF Fields
<1>4. con.pc \in Places /\ StreamsOf(con) /\ RequestOf(c, con)
  BY <1>1, <1>3 DEF Places, StreamsOf, RequestOf, Fields
<1> QED
  BY <1>2, <1>3, <1>4, OneConnection

\* A piece of the body arrives.
LEMMA UploadKeeps ==
  ASSUME ConnInv, NEW c \in Conns, Upload(c)
  PROVE  ConnInv'
<1> DEFINE con == [conns[c] EXCEPT !.sent = @ + 1]
<1>1. DOMAIN conns[c] = Fields /\ conns[c].pc = "upload" /\ StreamsOf(conns[c]) /\ RequestOf(c, conns[c])
  BY DEF ConnInv, Upload, At
<1>2. conns' = [conns EXCEPT ![c] = con] /\ handler' = handler
  BY <1>1 DEF ConnInv, Upload, Others
<1>3. DOMAIN con = Fields /\ TRUE
      /\ \A f \in Fields \ {"sent"} : con[f] = conns[c][f]
  BY <1>1 DEF Fields, StreamsOf
<1>4. con.pc \in Places /\ StreamsOf(con) /\ RequestOf(c, con)
  BY <1>1, <1>2, <1>3 DEF Places, StreamsOf, RequestOf, Fields, Read
<1> QED
  BY <1>2, <1>3, <1>4, OneConnection

\* A piece of the body cannot be written.
LEMMA FailUploadKeeps ==
  ASSUME ConnInv, NEW c \in Conns, FailUpload(c)
  PROVE  ConnInv'
<1> DEFINE con == [conns[c] EXCEPT !.pc = "closed", !.stream = deleteStream(@), !.faulty = TRUE]
<1>1. DOMAIN conns[c] = Fields /\ conns[c].pc = "upload" /\ StreamsOf(conns[c]) /\ RequestOf(c, conns[c])
  BY DEF ConnInv, FailUpload, At
<1>2. conns' = [conns EXCEPT ![c] = con] /\ handler' = handler
  BY <1>1 DEF ConnInv, FailUpload, Others
<1>3. DOMAIN con = Fields /\ con.pc = "closed" /\ con.stream = "freed" /\ con.faulty = TRUE
      /\ \A f \in Fields \ {"pc", "stream", "faulty"} : con[f] = conns[c][f]
  BY <1>1 DEF Fields, StreamsOf, deleteStream
<1>4. con.pc \in Places /\ StreamsOf(con) /\ RequestOf(c, con)
  BY <1>1, <1>2, <1>3 DEF Places, StreamsOf, RequestOf, Fields, Read
<1> QED
  BY <1>2, <1>3, <1>4, OneConnection

\* The connection is dropped.
LEMMA DropKeeps ==
  ASSUME ConnInv, NEW c \in Conns, Drop(c)
  PROVE  ConnInv'
<1> DEFINE con == [conns[c] EXCEPT !.pc = "closed", !.faulty = TRUE]
<1>1. DOMAIN conns[c] = Fields /\ conns[c].pc \in {"access", "upload"} /\ StreamsOf(conns[c]) /\ RequestOf(c, conns[c])
  BY DEF ConnInv, Drop, At
<1>2. conns' = [conns EXCEPT ![c] = con] /\ handler' = handler
  BY <1>1 DEF ConnInv, Drop, Others
<1>3. DOMAIN con = Fields /\ con.pc = "closed" /\ con.faulty = TRUE
      /\ \A f \in Fields \ {"pc", "faulty"} : con[f] = conns[c][f]
  BY <1>1 DEF Fields, StreamsOf
<1>4. con.pc \in Places /\ StreamsOf(con) /\ RequestOf(c, con)
  BY <1>1, <1>2, <1>3 DEF Places, StreamsOf, RequestOf, Fields, Read
<1> QED
  BY <1>2, <1>3, <1>4, OneConnection

\* The request is complete.
LEMMA LastCallKeeps ==
  ASSUME ConnInv, NEW c \in Conns, LastCall(c)
  PROVE  ConnInv'
<1> DEFINE con == [conns[c] EXCEPT !.stream = getOutputFile(@), !.pc = IF conns[c].req.body = <<>> THEN "parsed" ELSE "parse"]
<1>1. DOMAIN conns[c] = Fields /\ conns[c].pc = "upload" /\ StreamsOf(conns[c]) /\ RequestOf(c, conns[c])
  BY DEF ConnInv, LastCall, At
<1>2. conns' = [conns EXCEPT ![c] = con] /\ handler' = handler
  BY <1>1 DEF ConnInv, LastCall, Others
<1>3. DOMAIN con = Fields /\ con.pc = (IF conns[c].req.body = <<>> THEN "parsed" ELSE "parse") /\ con.stream = "READING_FILE"
      /\ \A f \in Fields \ {"pc", "stream"} : con[f] = conns[c][f]
  BY <1>1 DEF Fields, StreamsOf, getOutputFile, closeWritingMode
<1>4. con.pc \in Places /\ StreamsOf(con) /\ RequestOf(c, con)
  BY <1>1, <1>2, <1>3 DEF Places, StreamsOf, RequestOf, Fields, Read
<1> QED
  BY <1>2, <1>3, <1>4, OneConnection

\* The parser takes the lock.
LEMMA LockKeeps ==
  ASSUME ConnInv, NEW c \in Conns, xmlLockLibrary(c)
  PROVE  ConnInv'
<1> DEFINE con == [conns[c] EXCEPT !.pc = "parsing"]
<1>1. DOMAIN conns[c] = Fields /\ conns[c].pc = "parse" /\ StreamsOf(conns[c]) /\ RequestOf(c, conns[c])
  BY DEF ConnInv, xmlLockLibrary, At
<1>2. conns' = [conns EXCEPT ![c] = con] /\ handler' = handler
  BY <1>1 DEF ConnInv, xmlLockLibrary, Others
<1>3. DOMAIN con = Fields /\ con.pc = "parsing"
      /\ \A f \in Fields \ {"pc"} : con[f] = conns[c][f]
  BY <1>1 DEF Fields, StreamsOf
<1>4. con.pc \in Places /\ StreamsOf(con) /\ RequestOf(c, con)
  BY <1>1, <1>2, <1>3 DEF Places, StreamsOf, RequestOf, Fields, Read
<1> QED
  BY <1>2, <1>3, <1>4, OneConnection

\* A reply closes the connection and changes nothing else of its record.
LEMMA ReplyIs ==
  ASSUME NEW con, DOMAIN con = Fields, NEW code, NEW type, NEW allow, NEW body,
         NEW r, r = Reply(con, code, type, allow, body)
  PROVE  /\ DOMAIN r = Fields /\ r.pc = "closed"
         /\ r.reply.code = code /\ r.reply.type = type /\ r.reply.body = body
         /\ \A f \in Fields \ {"pc", "reply"} : r[f] = con[f]
  BY DEF Reply, Fields

\* All but POST requests are answered at once.
LEMMA FirstReply ==
  ASSUME NEW c \in Conns, FirstCall(c), conns[c].req.method # "POST"
  PROVE  \E code, type, allow, body :
           conns' = [conns EXCEPT ![c] = Reply(conns[c], code, type, allow, body)]
<1>1. CASE conns[c].req.method = "OPTIONS"
  BY <1>1 DEF FirstCall, sendOptionsResponse
<1>2. CASE conns[c].req.method = "GET" /\ conns[c].req.root
  BY <1>2 DEF FirstCall, sendXmlGenericResponse
<1>3. CASE conns[c].req.method # "OPTIONS" /\ ~(conns[c].req.method = "GET" /\ conns[c].req.root)
  <2>1. conns' = [conns EXCEPT ![c] = sendMethodNotAllowedResponse(conns[c])]
    BY <1>3 DEF FirstCall
  <2> QED
    BY <2>1, Zenon DEF sendMethodNotAllowedResponse
<1> QED
  BY <1>1, <1>2, <1>3

\* The first call.
LEMMA FirstCallKeeps ==
  ASSUME ConnInv, NEW c \in Conns, FirstCall(c)
  PROVE  ConnInv'
<1>1. DOMAIN conns[c] = Fields /\ conns[c].pc = "access" /\ StreamsOf(conns[c]) /\ RequestOf(c, conns[c])
  BY DEF ConnInv, FirstCall, At
<1>2. handler' = handler
  BY DEF FirstCall, Others
<1>3. CASE conns[c].req.method = "POST"
  <2> DEFINE con == [conns[c] EXCEPT !.pc = "upload", !.stream = "WRITING"]
  <2>1. conns' = [conns EXCEPT ![c] = con]
    BY <1>3 DEF FirstCall
  <2>2. DOMAIN con = Fields /\ con.pc = "upload" /\ con.stream = "WRITING"
        /\ \A f \in Fields \ {"pc", "stream"} : con[f] = conns[c][f]
    BY <1>1 DEF Fields
  <2>3. con.pc \in Places /\ StreamsOf(con) /\ RequestOf(c, con)
    BY <1>1, <1>3, <2>2 DEF Places, StreamsOf, RequestOf, Fields
  <2> QED
    BY <1>2, <2>1, <2>2, <2>3, OneConnection
<1>4. CASE conns[c].req.method # "POST"
  <2>0. PICK code, type, allow, body :
          conns' = [conns EXCEPT ![c] = Reply(conns[c], code, type, allow, body)]
    BY <1>4, FirstReply
  <2> DEFINE con == Reply(conns[c], code, type, allow, body)
  <2>2. DOMAIN con = Fields /\ con.pc = "closed"
        /\ \A f \in Fields \ {"pc", "reply"} : con[f] = conns[c][f]
    BY <1>1, ReplyIs
  <2> HIDE DEF con
  <2>3. con.pc \in Places /\ StreamsOf(con) /\ RequestOf(c, con)
    BY <1>1, <1>4, <2>2 DEF Places, StreamsOf, RequestOf, Fields
  <2> QED
    BY <1>2, <2>0, <2>2, <2>3, OneConnection DEF con
<1> QED
  BY <1>3, <1>4

\* The body is parsed, or there is no parser context for it.
LEMMA ParseKeeps ==
  ASSUME ConnInv, NEW c \in Conns, Parse(c)
  PROVE  ConnInv'
<1>1. DOMAIN conns[c] = Fields /\ conns[c].pc = "parsing" /\ StreamsOf(conns[c]) /\ RequestOf(c, conns[c])
  BY DEF ConnInv, Parse, At
<1>2. handler' = handler
  BY DEF Parse, Others
<1>3. CASE conns' = [conns EXCEPT ![c].pc = "parsed", ![c].query = QueryOf[handler][conns[c].req.body]]
  <2> DEFINE con == [conns[c] EXCEPT !.pc = "parsed", !.query = QueryOf[handler][conns[c].req.body]]
  <2>1. conns' = [conns EXCEPT ![c] = con]
    BY <1>3 DEF ConnInv
  <2>2. DOMAIN con = Fields /\ con.pc = "parsed" /\ con.query = QueryOf[handler][conns[c].req.body]
        /\ \A f \in Fields \ {"pc", "query"} : con[f] = conns[c][f]
    BY <1>1 DEF Fields
  <2>3. con.pc \in Places /\ StreamsOf(con) /\ RequestOf(c, con)
    BY <1>1, <2>2 DEF Places, StreamsOf, RequestOf, Fields, Read
  <2> QED
    BY <1>2, <2>1, <2>2, <2>3, OneConnection
<1>4. CASE conns' = [conns EXCEPT ![c].pc = "parsed", ![c].faulty = TRUE]
  <2> DEFINE con == [conns[c] EXCEPT !.pc = "parsed", !.faulty = TRUE]
  <2>1. conns' = [conns EXCEPT ![c] = con]
    BY <1>4 DEF ConnInv
  <2>2. DOMAIN con = Fields /\ con.pc = "parsed" /\ con.faulty = TRUE
        /\ \A f \in Fields \ {"pc", "faulty"} : con[f] = conns[c][f]
    BY <1>1 DEF Fields
  <2>3. con.pc \in Places /\ StreamsOf(con) /\ RequestOf(c, con)
    BY <1>1, <2>2 DEF Places, StreamsOf, RequestOf, Fields
  <2> QED
    BY <1>2, <2>1, <2>2, <2>3, OneConnection
<1> QED
  BY <1>3, <1>4 DEF Parse

\* A body without a query is answered with 400, another one goes on.
LEMMA CheckQueryKeeps ==
  ASSUME ConnInv, NEW c \in Conns, CheckQuery(c)
  PROVE  ConnInv'
<1>1. DOMAIN conns[c] = Fields /\ conns[c].pc = "parsed" /\ StreamsOf(conns[c]) /\ RequestOf(c, conns[c])
  BY DEF ConnInv, CheckQuery, At
<1>2. handler' = handler
  BY DEF CheckQuery, Others
<1> DEFINE freed == [conns[c] EXCEPT !.stream = deleteStream(@)]
<1>3. DOMAIN freed = Fields /\ freed.stream = "freed"
      /\ \A f \in Fields \ {"stream"} : freed[f] = conns[c][f]
  BY <1>1 DEF Fields, StreamsOf, deleteStream
<1>4. CASE ~HasTerms(conns[c].query)
  <2> DEFINE con == Reply(freed, 400, "text/xml", {}, XML_MWS_BAD_QUERY)
  <2>1. (IF freed.query = NoQuery THEN TRUE ELSE freed.query.tokens = <<>>)
    BY <1>3, <1>4 DEF Fields, HasTerms
  <2>2. conns' = [conns EXCEPT ![c] = con]
    BY <2>1 DEF CheckQuery, sendXmlGenericResponse
  <2> HIDE DEF freed
  <2>3. DOMAIN con = Fields /\ con.pc = "closed" /\ con.reply.code = 400
        /\ \A f \in Fields \ {"pc", "reply"} : con[f] = freed[f]
    BY <1>3, ReplyIs
  <2> HIDE DEF con
  <2>4. con.pc \in Places /\ StreamsOf(con)
    BY <1>1, <1>3, <2>3 DEF Places, StreamsOf, Fields
  <2>5. Read(con) = Read(conns[c]) /\ con.faulty = conns[c].faulty
    BY <1>3, <2>3 DEF Read, Fields
  <2>6. con.faulty = TRUE \/ ~HasTerms(Read(con))
    BY <1>1, <1>4, <2>5 DEF RequestOf
  <2>7. ReplyOf(con)
    BY <2>3, <2>6 DEF ReplyOf
  <2>8. RequestOf(c, con)
    BY <1>1, <1>3, <2>3, <2>7 DEF RequestOf, Fields
  <2> QED
    BY <1>2, <2>2, <2>3, <2>4, <2>8, OneConnection
<1>5. CASE HasTerms(conns[c].query)
  <2> DEFINE con == [freed EXCEPT !.pc = "handle"]
  <2>1. ~(IF freed.query = NoQuery THEN TRUE ELSE freed.query.tokens = <<>>)
    BY <1>3, <1>5 DEF Fields, HasTerms
  <2>2. conns' = [conns EXCEPT ![c] = con]
    BY <2>1 DEF CheckQuery
  <2> HIDE DEF freed
  <2>3. DOMAIN con = Fields /\ con.pc = "handle"
        /\ \A f \in Fields \ {"pc"} : con[f] = freed[f]
    BY <1>3 DEF Fields
  <2> HIDE DEF con
  <2>4. con.pc \in Places /\ StreamsOf(con) /\ Read(con) = Read(conns[c])
    BY <1>1, <1>3, <2>3 DEF Places, StreamsOf, Fields, Read
  <2>5. RequestOf(c, con)
    BY <1>1, <1>3, <1>5, <2>3, <2>4 DEF RequestOf, HasTerms, Fields
  <2> QED
    BY <1>2, <2>2, <2>3, <2>4, <2>5, OneConnection
<1> QED
  BY <1>4, <1>5

\* The query is handled: the answer is one that the program may give.
LEMMA HandleQueryKeeps ==
  ASSUME ConnInv, NEW c \in Conns, handleQuery(c)
  PROVE  ConnInv'
<1>1. DOMAIN conns[c] = Fields /\ conns[c].pc = "handle" /\ StreamsOf(conns[c]) /\ RequestOf(c, conns[c])
  BY DEF ConnInv, handleQuery, At
<1>2. PICK answer \in AnswersTo[handler][conns[c].query] :
        conns' = [conns EXCEPT ![c].pc = "format", ![c].answer = answer, ![c].responseData = "WRITING"]
  BY DEF handleQuery
<1> DEFINE con == [conns[c] EXCEPT !.pc = "format", !.answer = answer, !.responseData = "WRITING"]
<1>3. conns' = [conns EXCEPT ![c] = con] /\ handler' = handler
  BY <1>2 DEF ConnInv, handleQuery, Others
<1>4. DOMAIN con = Fields /\ con.pc = "format" /\ con.answer = answer /\ con.responseData = "WRITING"
      /\ \A f \in Fields \ {"pc", "answer", "responseData"} : con[f] = conns[c][f]
  BY <1>1 DEF Fields
<1> HIDE DEF con
<1>5. con.pc \in Places /\ StreamsOf(con) /\ Read(con) = Read(conns[c])
  BY <1>1, <1>4 DEF Places, StreamsOf, Fields, Read
<1>6. RequestOf(c, con)
  BY <1>1, <1>2, <1>4, <1>5 DEF RequestOf, Fields
<1> QED
  BY <1>3, <1>4, <1>5, <1>6, OneConnection DEF con

\* An answer is sent, and its stream freed.
LEMMA SendAnswerKeeps ==
  ASSUME ConnInv, handler' = handler, NEW c \in Conns, conns[c].pc = "format",
         NEW body, NEW faulty, SendAnswer(c, body, faulty),
         \/ body = Incomplete /\ faulty = TRUE
         \/ body = Arbitrary /\ IdsOfSchemata(conns[c])
         \/ ~IdsOfSchemata(conns[c]) /\ body = writeData(conns[c].query.responseFormatter, conns[c].answer)
  PROVE  ConnInv'
<1>1. DOMAIN conns[c] = Fields /\ StreamsOf(conns[c]) /\ RequestOf(c, conns[c])
  BY DEF ConnInv
<1> DEFINE freed == [conns[c] EXCEPT !.responseData = deleteStream(releaseOutputBuffer(@)), !.faulty = faulty]
           con == Reply(freed, 200, getContentType(conns[c].query.responseFormatter), {}, body)
<1>2. DOMAIN freed = Fields /\ freed.responseData = "freed" /\ freed.faulty = faulty
      /\ \A f \in Fields \ {"responseData", "faulty"} : freed[f] = conns[c][f]
  BY <1>1 DEF Fields, StreamsOf, deleteStream, releaseOutputBuffer, closeWritingMode
<1>3. conns' = [conns EXCEPT ![c] = con]
  BY DEF SendAnswer
<1> HIDE DEF freed
<1>4. /\ DOMAIN con = Fields /\ con.pc = "closed"
      /\ con.reply.code = 200 /\ con.reply.type = getContentType(conns[c].query.responseFormatter)
      /\ con.reply.body = body
      /\ \A f \in Fields \ {"pc", "reply"} : con[f] = freed[f]
  BY <1>2, ReplyIs
<1> HIDE DEF con
<1>5. /\ con.query = conns[c].query /\ con.answer = conns[c].answer /\ con.req = conns[c].req
      /\ con.faulty = faulty /\ con.stream = conns[c].stream /\ con.responseData = "freed"
  BY <1>2, <1>4 DEF Fields
<1>6. con.pc \in Places /\ StreamsOf(con) /\ Read(con) = Read(conns[c])
      /\ IdsOfSchemata(con) = IdsOfSchemata(conns[c])
  BY <1>1, <1>4, <1>5 DEF Places, StreamsOf, Read, IdsOfSchemata
<1>7. con.query = Read(con) /\ HasTerms(con.query) /\ con.answer \in AnswersTo[handler][con.query]
  BY <1>1, <1>5, <1>6 DEF RequestOf
<1>8. ReplyOf(con)
  BY <1>4, <1>5, <1>6, <1>7 DEF ReplyOf
<1>9. RequestOf(c, con)
  BY <1>1, <1>4, <1>5, <1>8 DEF RequestOf
<1> QED
  BY <1>3, <1>4, <1>6, <1>9, OneConnection

\* A complete document is sent.
LEMMA FormatKeeps ==
  ASSUME ConnInv, NEW c \in Conns, Format(c)
  PROVE  ConnInv'
<1>1. conns[c].pc = "format" /\ handler' = handler /\ ~IdsOfSchemata(conns[c])
  BY DEF Format, At, Others, Confused, IdsOfSchemata
<1>2. SendAnswer(c, writeData(conns[c].query.responseFormatter, conns[c].answer), FALSE)
  BY DEF Format
<1> QED
  BY <1>1, <1>2, SendAnswerKeeps

\* A document cannot be written.
LEMMA FailFormatKeeps ==
  ASSUME ConnInv, NEW c \in Conns, FailFormat(c)
  PROVE  ConnInv'
<1>1. conns[c].pc = "format" /\ handler' = handler
  BY DEF FailFormat, At, Others
<1>2. CASE SendAnswer(c, Incomplete, TRUE)
  BY <1>1, <1>2, SendAnswerKeeps
<1>3. CASE conns' = [conns EXCEPT ![c] =
             sendXmlGenericResponse([conns[c] EXCEPT !.responseData = deleteStream(@), !.faulty = TRUE],
                                    XML_MWS_SERVER_ERROR, 500)]
  <2>1. DOMAIN conns[c] = Fields /\ StreamsOf(conns[c]) /\ RequestOf(c, conns[c])
    BY DEF ConnInv
  <2> DEFINE freed == [conns[c] EXCEPT !.responseData = deleteStream(@), !.faulty = TRUE]
             con == Reply(freed, 500, "text/xml", {}, XML_MWS_SERVER_ERROR)
  <2>2. DOMAIN freed = Fields /\ freed.responseData = "freed" /\ freed.faulty = TRUE
        /\ \A f \in Fields \ {"responseData", "faulty"} : freed[f] = conns[c][f]
    BY <1>1, <2>1 DEF Fields, StreamsOf, deleteStream
  <2>3. conns' = [conns EXCEPT ![c] = con]
    BY <1>3 DEF sendXmlGenericResponse
  <2> HIDE DEF freed
  <2>4. /\ DOMAIN con = Fields /\ con.pc = "closed" /\ con.reply.code = 500
        /\ \A f \in Fields \ {"pc", "reply"} : con[f] = freed[f]
    BY <2>2, ReplyIs
  <2> HIDE DEF con
  <2>5. con.faulty = TRUE /\ con.responseData = "freed" /\ con.stream = conns[c].stream /\ con.req = conns[c].req
    BY <2>2, <2>4 DEF Fields
  <2>6. con.pc \in Places /\ StreamsOf(con)
    BY <1>1, <2>1, <2>4, <2>5 DEF Places, StreamsOf
  <2>7. ReplyOf(con)
    BY <2>4, <2>5 DEF ReplyOf
  <2>8. RequestOf(c, con)
    BY <1>1, <2>1, <2>4, <2>5, <2>7 DEF RequestOf
  <2> QED
    BY <1>1, <2>3, <2>4, <2>6, <2>8, OneConnection
<1> QED
  BY <1>2, <1>3 DEF FailFormat

\* An answer is taken for one of another type.
LEMMA FormatConfusedKeeps ==
  ASSUME ConnInv, NEW c \in Conns, FormatConfused(c)
  PROVE  ConnInv'
<1>1. conns[c].pc = "format" /\ handler' = handler /\ IdsOfSchemata(conns[c])
  BY DEF FormatConfused, At, Confused, IdsOfSchemata
<1>2. CASE SendAnswer(c, Arbitrary, FALSE)
  BY <1>1, <1>2, SendAnswerKeeps
<1>3. CASE UNCHANGED conns
  BY <1>1, <1>3 DEF ConnInv, StreamsOf, RequestOf, ReplyOf, Read, IdsOfSchemata
<1> QED
  BY <1>2, <1>3 DEF FormatConfused

\* The records of the connections are in order at first and after every step.
LEMMA ConnInvInductive ==
  /\ Init => ConnInv
  /\ ConnInv /\ [Next]_vars => ConnInv'
<1>1. ASSUME Init PROVE ConnInv
  <2>1. handler \in Handlers /\ conns = [c \in Conns |-> Idle]
    BY <1>1 DEF Init
  <2>2. /\ DOMAIN Idle = Fields /\ Idle.pc = "idle" /\ Idle.stream = "none" /\ Idle.responseData = "none"
        /\ Idle.query = NoQuery /\ Idle.reply = NoConn /\ Idle.faulty = FALSE
    BY DEF Idle, Fields
  <2>3. ASSUME NEW c \in Conns PROVE StreamsOf(Idle) /\ RequestOf(c, Idle)
    BY <2>2 DEF StreamsOf, RequestOf
  <2> QED
    BY <2>1, <2>2, <2>3 DEF ConnInv, Places
<1>2. ASSUME ConnInv, [Next]_vars PROVE ConnInv'
  <2>1. CASE UNCHANGED <<handler, conns>>
    BY <1>2, <2>1 DEF ConnInv, StreamsOf, RequestOf, ReplyOf, Read, IdsOfSchemata
  <2>2. ASSUME NEW c \in Conns, CallbackStep(c) PROVE ConnInv'
    BY <1>2, <2>2, FirstCallKeeps, LastCallKeeps, LockKeeps, ParseKeeps, CheckQueryKeeps,
       HandleQueryKeeps, FormatKeeps, FailFormatKeeps, FormatConfusedKeeps DEF CallbackStep
  <2>3. ASSUME NEW c \in Conns, ClientStep(c) PROVE ConnInv'
    BY <1>2, <2>3, ConnectKeeps, UploadKeeps, FailUploadKeeps, DropKeeps DEF ClientStep
  <2>4. MainStep \/ StartFails \/ Exit \/ UNCHANGED vars => UNCHANGED <<handler, conns>>
    BY DEF MainStep, StartFails, Exit, vars, daemonVars
  <2> QED
    BY <1>2, <2>1, <2>2, <2>3, <2>4 DEF Next
<1> QED
  BY <1>1, <1>2

\* No assertion of MemStream fails, whatever the clients do and whichever calls
\* fail: a stream is freed before its connection is answered, and the ones that
\* stay allocated belong to connections that were dropped in the middle of their
\* body (MicroHttpd.cpp and MemStream).
THEOREM StreamUseCorrect == FairSpec => []StreamUse
<1>1. ConnInv => StreamUse
  BY DEF ConnInv, StreamsOf, StreamUse, Places
<1> QED
  BY <1>1, ConnInvInductive, PTL DEF FairSpec

\* The connection that holds the lock of libxml2 is the one that parses.
LockHeld == \A c \in Conns : conns[c].pc = "parsing" <=> xmlLock = c

\* At most one thread parses at a time and the lock is held for no longer than that:
\* xmlLockLibrary and xmlUnlockLibrary around the parser (readMwsQuery.cpp) are
\* paired on every path, also where there is no parser context.
THEOREM LockHeldCorrect == FairSpec => []LockHeld
<1>1. Init => LockHeld
  BY DaemonAssumption DEF Init, LockHeld, Idle
<1>2. ASSUME ConnInv, LockHeld, [Next]_vars PROVE LockHeld'
  <2>0. DOMAIN conns = Conns /\ \A d \in Conns : DOMAIN conns[d] = Fields
    BY <1>2 DEF ConnInv
  <2>1. ASSUME NEW c \in Conns, xmlLock' = xmlLock, conns[c].pc # "parsing", NEW con,
               conns' = [conns EXCEPT ![c] = con], con.pc # "parsing"
        PROVE  LockHeld'
    BY <1>2, <2>0, <2>1 DEF LockHeld
  <2>2. CASE UNCHANGED <<conns, xmlLock>>
    BY <1>2, <2>2 DEF LockHeld
  <2>3. ASSUME NEW c \in Conns, CallbackStep(c) PROVE LockHeld'
    <3>1. CASE FirstCall(c)
      <4>1. PICK con : conns' = [conns EXCEPT ![c] = con] /\ con.pc # "parsing"
        <5>1. CASE conns[c].req.method = "POST"
          <6> DEFINE con == [conns[c] EXCEPT !.pc = "upload", !.stream = "WRITING"]
          <6>1. conns' = [conns EXCEPT ![c] = con]
            BY <3>1, <5>1 DEF FirstCall
          <6>2. con.pc # "parsing"
            BY <2>0 DEF Fields
          <6> QED
            BY <6>1, <6>2
        <5>2. CASE conns[c].req.method # "POST"
          <6>1. PICK code, type, allow, body :
                  conns' = [conns EXCEPT ![c] = Reply(conns[c], code, type, allow, body)]
            BY <3>1, <5>2, FirstReply
          <6> DEFINE con == Reply(conns[c], code, type, allow, body)
          <6>2. con.pc # "parsing"
            BY <2>0 DEF Reply, Fields
          <6> HIDE DEF con
          <6> QED
            BY <6>1, <6>2 DEF con
        <5> QED
          BY <5>1, <5>2
      <4> QED
        BY <2>1, <3>1, <4>1 DEF FirstCall, At
    <3>2. CASE LastCall(c)
      <4>1. PICK con : conns' = [conns EXCEPT ![c] = con] /\ con.pc # "parsing"
        <5> DEFINE con == [conns[c] EXCEPT !.stream = getOutputFile(@),
                                           !.pc = IF conns[c].req.body = <<>> THEN "parsed" ELSE "parse"]
        <5>1. conns' = [conns EXCEPT ![c] = con]
          BY <2>0, <3>2 DEF LastCall
        <5>2. con.pc # "parsing"
          BY <2>0 DEF Fields
        <5> QED
          BY <5>1, <5>2
      <4> QED
        BY <2>1, <3>2, <4>1 DEF LastCall, At
    <3>3. CASE xmlLockLibrary(c)
      <4>1. xmlLock = NoConn /\ xmlLock' = c /\ conns' = [conns EXCEPT ![c] = [conns[c] EXCEPT !.pc = "parsing"]]
        BY <2>0, <3>3 DEF xmlLockLibrary
      <4>2. \A d \in Conns : conns[d].pc # "parsing"
        BY <1>2, <4>1, DaemonAssumption DEF LockHeld
      <4> QED
        BY <2>0, <4>1, <4>2 DEF LockHeld, Fields
    <3>4. CASE Parse(c)
      <4>1. PICK con : conns' = [conns EXCEPT ![c] = con] /\ con.pc = "parsed"
        <5>1. CASE conns' = [conns EXCEPT ![c].pc = "parsed", ![c].query = QueryOf[handler][conns[c].req.body]]
          <6> DEFINE con == [conns[c] EXCEPT !.pc = "parsed", !.query = QueryOf[handler][conns[c].req.body]]
          <6>1. conns' = [conns EXCEPT ![c] = con] /\ con.pc = "parsed"
            BY <2>0, <5>1 DEF Fields
          <6> QED
            BY <6>1
        <5>2. CASE conns' = [conns EXCEPT ![c].pc = "parsed", ![c].faulty = TRUE]
          <6> DEFINE con == [conns[c] EXCEPT !.pc = "parsed", !.faulty = TRUE]
          <6>1. conns' = [conns EXCEPT ![c] = con] /\ con.pc = "parsed"
            BY <2>0, <5>2 DEF Fields
          <6> QED
            BY <6>1
        <5> QED
          BY <3>4, <5>1, <5>2 DEF Parse
      <4>2. conns[c].pc = "parsing" /\ xmlLock = c /\ xmlLock' = NoConn
        BY <1>2, <3>4 DEF Parse, At, LockHeld
      <4> QED
        BY <1>2, <2>0, <4>1, <4>2, DaemonAssumption DEF LockHeld
    <3>5. CASE CheckQuery(c)
      <4>1. PICK con : conns' = [conns EXCEPT ![c] = con] /\ con.pc # "parsing"
        <5> DEFINE base == [conns[c] EXCEPT !.stream = deleteStream(@)]
                   sent == sendXmlGenericResponse(base, XML_MWS_BAD_QUERY, 400)
                   kept == [base EXCEPT !.pc = "handle"]
        <5>1. DOMAIN base = Fields
          BY <2>0
        <5>2. \E con \in {sent, kept} : conns' = [conns EXCEPT ![c] = con]
          BY <3>5 DEF CheckQuery
        <5> HIDE DEF base
        <5>3. sent.pc = "closed" /\ kept.pc = "handle"
          BY <5>1 DEF sendXmlGenericResponse, Reply, Fields
        <5> HIDE DEF sent, kept
        <5> QED
          BY <5>2, <5>3
      <4> QED
        BY <2>1, <3>5, <4>1 DEF CheckQuery, At
    <3>6. CASE handleQuery(c)
      <4>1. PICK answer : conns' = [conns EXCEPT ![c].pc = "format", ![c].answer = answer, ![c].responseData = "WRITING"]
        BY <3>6 DEF handleQuery
      <4> DEFINE con == [conns[c] EXCEPT !.pc = "format", !.answer = answer, !.responseData = "WRITING"]
      <4>2. conns' = [conns EXCEPT ![c] = con] /\ con.pc # "parsing"
        BY <2>0, <4>1 DEF Fields
      <4> HIDE DEF con
      <4> QED
        BY <2>1, <3>6, <4>2 DEF handleQuery, At
    <3>7. ASSUME NEW body, NEW faulty, SendAnswer(c, body, faulty)
          PROVE  \E con : conns' = [conns EXCEPT ![c] = con] /\ con.pc # "parsing"
      <4> DEFINE sent == [conns[c] EXCEPT !.responseData = deleteStream(releaseOutputBuffer(@)), !.faulty = faulty]
                 con  == Reply(sent, 200, getContentType(conns[c].query.responseFormatter), {}, body)
      <4>1. DOMAIN sent = Fields
        BY <2>0
      <4>2. conns' = [conns EXCEPT ![c] = con]
        BY <3>7 DEF SendAnswer
      <4> HIDE DEF sent
      <4>3. con.pc = "closed"
        BY <4>1 DEF Reply, Fields
      <4> HIDE DEF con
      <4> QED
        BY <4>2, <4>3
    <3>8. CASE Format(c)
      <4>1. PICK con : conns' = [conns EXCEPT ![c] = con] /\ con.pc # "parsing"
        BY <3>7, <3>8 DEF Format
      <4> QED
        BY <2>1, <3>8, <4>1 DEF Format, At
    <3>9. CASE FailFormat(c)
      <4>1. PICK con : conns' = [conns EXCEPT ![c] = con] /\ con.pc # "parsing"
        <5>1. CASE SendAnswer(c, Incomplete, TRUE)
          BY <3>7, <5>1
        <5>2. CASE ~SendAnswer(c, Incomplete, TRUE)
          <6> DEFINE base == [conns[c] EXCEPT !.responseData = deleteStream(@), !.faulty = TRUE]
                     con  == sendXmlGenericResponse(base, XML_MWS_SERVER_ERROR, 500)
          <6>1. DOMAIN base = Fields
            BY <2>0
          <6>2. conns' = [conns EXCEPT ![c] = con]
            BY <3>9, <5>2 DEF FailFormat
          <6> HIDE DEF base
          <6>3. con.pc = "closed"
            BY <6>1 DEF sendXmlGenericResponse, Reply, Fields
          <6> HIDE DEF con
          <6> QED
            BY <6>2, <6>3
        <5> QED
          BY <5>1, <5>2
      <4> QED
        BY <2>1, <3>9, <4>1 DEF FailFormat, At
    <3>10. CASE FormatConfused(c)
      <4>1. CASE SendAnswer(c, Arbitrary, FALSE)
        <5>1. PICK con : conns' = [conns EXCEPT ![c] = con] /\ con.pc # "parsing"
          BY <3>7, <4>1
        <5> QED
          BY <2>1, <3>10, <5>1 DEF FormatConfused, At
      <4>2. CASE ~SendAnswer(c, Arbitrary, FALSE)
        BY <2>2, <3>10, <4>2 DEF FormatConfused
      <4> QED
        BY <4>1, <4>2
    <3> QED
      BY <2>3, <3>1, <3>2, <3>3, <3>4, <3>5, <3>6, <3>8, <3>9, <3>10 DEF CallbackStep
  <2>4. ASSUME NEW c \in Conns, ClientStep(c) PROVE LockHeld'
    <3>1. PICK con : conns' = [conns EXCEPT ![c] = con] /\ con.pc # "parsing"
      <4>1. CASE \E req \in Requests[handler][c] : Connect(c, req)
        <5>1. PICK req : Connect(c, req)
          BY <4>1
        <5> DEFINE con == [conns[c] EXCEPT !.pc = "access", !.req = req]
        <5>2. conns' = [conns EXCEPT ![c] = con] /\ con.pc # "parsing"
          BY <2>0, <5>1 DEF Connect, Fields
        <5> QED
          BY <5>2
      <4>2. CASE Upload(c)
        <5> DEFINE con == [conns[c] EXCEPT !.sent = @ + 1]
        <5>1. conns' = [conns EXCEPT ![c] = con] /\ con.pc # "parsing"
          BY <2>0, <4>2 DEF Upload, At, Fields
        <5> QED
          BY <5>1
      <4>3. CASE FailUpload(c)
        <5> DEFINE con == [conns[c] EXCEPT !.pc = "closed", !.stream = deleteStream(@), !.faulty = TRUE]
        <5>1. conns' = [conns EXCEPT ![c] = con]
          BY <2>0, <4>3 DEF FailUpload
        <5>2. con.pc # "parsing"
          BY <2>0 DEF Fields
        <5> QED
          BY <5>1, <5>2
      <4>4. CASE Drop(c)
        <5> DEFINE con == [conns[c] EXCEPT !.pc = "closed", !.faulty = TRUE]
        <5>1. conns' = [conns EXCEPT ![c] = con] /\ con.pc # "parsing"
          BY <2>0, <4>4 DEF Drop, Fields
        <5> QED
          BY <5>1
      <4> QED
        BY <2>4, <4>1, <4>2, <4>3, <4>4 DEF ClientStep
    <3>2. conns[c].pc # "parsing" /\ xmlLock' = xmlLock
      BY <2>4 DEF ClientStep, Connect, Upload, FailUpload, Drop, At
    <3> QED
      BY <2>1, <3>1, <3>2
  <2>5. MainStep \/ StartFails \/ Exit \/ UNCHANGED vars => UNCHANGED <<conns, xmlLock>>
    BY DEF MainStep, StartFails, Exit, vars, daemonVars
  <2> QED
    BY <1>2, <2>2, <2>3, <2>4, <2>5 DEF Next
<1> QED
  BY <1>1, <1>2, ConnInvInductive, PTL DEF FairSpec

-----------------------------------------------------------------------------
(***************************************************************************)
(* Induction over natural numbers, for properties written as sets, and     *)
(* sets of numbers in increasing order.                                    *)
(***************************************************************************)
\* A non-empty set of natural numbers has a least element.
LEMMA LeastNatural ==
  ASSUME NEW B \in SUBSET Nat, B # {}
  PROVE  \E m \in B : \A k \in B : m <= k
<1> DEFINE T == { 0..n : n \in B }
<1>1. T \subseteq FiniteSubsetsOf(Nat)
  <2>1. ASSUME NEW n \in B PROVE IsFiniteSet(0..n) /\ 0..n \in SUBSET Nat
    BY FS_Interval
  <2> QED
    BY <2>1 DEF FiniteSubsetsOf
<1>2. T # {}
  OBVIOUS
<1>3. PICK x \in T : \A y \in T : ~(<<y, x>> \in StrictSubsetOrdering(Nat))
  <2>1. IsWellFoundedOn(StrictSubsetOrdering(Nat), FiniteSubsetsOf(Nat))
    BY FS_StrictSubsetOrderingWellFounded
  <2> HIDE DEF T
  <2> QED
    BY <1>1, <1>2, <2>1, WFMin
<1>4. PICK m \in B : x = 0..m
  OBVIOUS
<1>5. ASSUME NEW k \in B, k < m PROVE FALSE
  <2>1. 0..k \subseteq 0..m /\ 0..k # 0..m
    BY <1>5
  <2>2. 0..k \in SUBSET Nat /\ 0..m \in SUBSET Nat
    OBVIOUS
  <2>3. <<0..k, 0..m>> \in StrictSubsetOrdering(Nat)
    BY <2>1, <2>2 DEF StrictSubsetOrdering
  <2> QED
    BY <1>3, <1>4, <2>3
<1> QED
  BY <1>5

\* Induction, for a property written as a set of numbers.
LEMMA SetInduction ==
  ASSUME NEW P, 0 \in P, \A n \in Nat : n \in P => n + 1 \in P
  PROVE  Nat \subseteq P
<1> SUFFICES ASSUME Nat \ P # {} PROVE FALSE
  OBVIOUS
<1>1. PICK m \in Nat \ P : \A k \in Nat \ P : m <= k
  BY LeastNatural
<1>2. m - 1 \in Nat /\ m - 1 + 1 = m
  BY <1>1
<1> QED
  BY <1>1, <1>2

Rank(S, i) == Cardinality({ j \in S : j <= i })

\* Ranks are 1 to the size of the set, and grow with the numbers.
LEMMA RankIs ==
  ASSUME NEW S, IsFiniteSet(S), S \subseteq Int
  PROVE  /\ Cardinality(S) \in Nat
         /\ \A i \in S : Rank(S, i) \in 1..Cardinality(S)
         /\ \A i, j \in S : i < j => Rank(S, i) < Rank(S, j)
<1> DEFINE Upto(i) == { j \in S : j <= i }
<1>0. Cardinality(S) \in Nat
  BY FS_CardinalityType
<1>1. ASSUME NEW i \in S
      PROVE  IsFiniteSet(Upto(i)) /\ Rank(S, i) = Cardinality(Upto(i)) /\ Rank(S, i) \in 1..Cardinality(S)
  <2>1. Upto(i) \subseteq S /\ i \in Upto(i)
    OBVIOUS
  <2>r. Rank(S, i) = Cardinality(Upto(i))
    BY DEF Rank
  <2> HIDE DEF Upto
  <2>2. IsFiniteSet(Upto(i)) /\ Cardinality(Upto(i)) <= Cardinality(S)
    BY <2>1, FS_Subset
  <2>3. Cardinality(Upto(i)) \in Nat /\ Cardinality(Upto(i)) # 0
    BY <2>1, <2>2, FS_CardinalityType, FS_EmptySet
  <2> QED
    BY <1>0, <2>r, <2>2, <2>3
<1>2. ASSUME NEW i \in S, NEW j \in S, i < j PROVE Rank(S, i) < Rank(S, j)
  <2>1. Upto(i) \subseteq Upto(j) /\ j \in Upto(j) /\ j \notin Upto(i)
    <3>1. i \in Int /\ j \in Int /\ \A k \in S : k \in Int
      OBVIOUS
    <3>2. \A k \in S : k <= i => k <= j
      BY <1>2, <3>1
    <3>3. j <= j /\ ~(j <= i)
      BY <1>2, <3>1
    <3> QED
      BY <3>2, <3>3
  <2> HIDE DEF Upto
  <2>2. Cardinality(Upto(i)) <= Cardinality(Upto(j)) /\ Cardinality(Upto(i)) # Cardinality(Upto(j))
    BY <1>1, <2>1, FS_Subset
  <2>3. Rank(S, i) \in Nat /\ Rank(S, j) \in Nat
    BY <1>0, <1>1
  <2> QED
    BY <1>1, <2>2, <2>3
<1> QED
  BY <1>0, <1>1, <1>2

\* InOrder(S)[n] is the element of rank n.
LEMMA InOrderIs ==
  ASSUME NEW S, IsFiniteSet(S), S \subseteq Int
  PROVE  /\ Cardinality(S) \in Nat /\ DOMAIN InOrder(S) = 1..Cardinality(S)
         /\ \A n \in 1..Cardinality(S) : InOrder(S)[n] \in S /\ Rank(S, InOrder(S)[n]) = n
<1> DEFINE N == Cardinality(S)
           f == [i \in S |-> Rank(S, i)]
<1>1. N \in Nat /\ \A i \in S : Rank(S, i) \in 1..N
  BY RankIs
<1>2. ASSUME NEW n \in 1..N PROVE \E i \in S : Rank(S, i) = n
  <2>1. f \in [S -> 1..N]
    BY <1>1
  <2>2. \A i, j \in S : Rank(S, i) = Rank(S, j) => i = j
    <3>1. ASSUME NEW i \in S, NEW j \in S, i # j PROVE Rank(S, i) # Rank(S, j)
      <4>1. i < j \/ j < i
        BY <3>1
      <4> QED
        <5>1. Rank(S, i) < Rank(S, j) \/ Rank(S, j) < Rank(S, i)
          BY <4>1, RankIs
        <5>2. Rank(S, i) \in Int /\ Rank(S, j) \in Int
          BY <1>1
        <5> QED
          BY <5>1, <5>2
    <3> QED
      BY <3>1
  <2>3. f \in Injection(S, 1..N)
    BY <2>1, <2>2 DEF Injection, IsInjective
  <2>4. IsFiniteSet(1..N) /\ Cardinality(1..N) = N
    <3>1. 1 \in Int /\ N \in Int /\ (1 > N => N = 0)
      BY <1>1
    <3> QED
      BY <3>1, FS_Interval
  <2>5. f \in Surjection(S, 1..N)
    <3> HIDE DEF f
    <3> QED
      BY <2>3, <2>4, FS_Injection DEF N
  <2> QED
    BY <2>5 DEF Surjection
<1>3. ASSUME NEW n \in 1..N PROVE InOrder(S)[n] \in S /\ Rank(S, InOrder(S)[n]) = n
  <2>1. InOrder(S)[n] = CHOOSE i \in S : Rank(S, i) = n
    BY DEF InOrder, Rank
  <2> QED
    BY <1>2, <2>1
<1>4. DOMAIN InOrder(S) = 1..N
  BY DEF InOrder
<1> QED
  BY <1>1, <1>3, <1>4


\* A number above all others comes last.
LEMMA InOrderAppend ==
  ASSUME NEW S, IsFiniteSet(S), S \subseteq Int, NEW x \in Int, \A i \in S : i < x
  PROVE  /\ InOrder(S) \in Seq(S) /\ Len(InOrder(S)) = Cardinality(S)
         /\ InOrder(S \cup {x}) = Append(InOrder(S), x)
<1> DEFINE T == S \cup {x}
           n == Cardinality(S)
<1>1. /\ n \in Nat /\ DOMAIN InOrder(S) = 1..n
      /\ \A k \in 1..n : InOrder(S)[k] \in S /\ Rank(S, InOrder(S)[k]) = k
  BY InOrderIs
<1>2. x \notin S /\ T \subseteq Int
  OBVIOUS
<1>3. IsFiniteSet(T) /\ Cardinality(T) = n + 1
  BY <1>2, FS_AddElement
<1>4. /\ DOMAIN InOrder(T) = 1..(n + 1)
      /\ \A k \in 1..(n + 1) : InOrder(T)[k] \in T /\ Rank(T, InOrder(T)[k]) = k
  BY <1>2, <1>3, InOrderIs
<1>5. /\ \A i, j \in T : i < j => Rank(T, i) < Rank(T, j)
      /\ \A i \in T : Rank(T, i) \in 1..(n + 1)
  BY <1>2, <1>3, RankIs
<1>6. ASSUME NEW i \in S PROVE Rank(T, i) = Rank(S, i)
  <2>0. i \in Int /\ i < x /\ ~(x <= i)
    OBVIOUS
  <2>1. { j \in T : j <= i } = { j \in S : j <= i }
    BY <2>0, Zenon
  <2> QED
    BY <2>1 DEF Rank
<1>7. Rank(T, x) = n + 1
  <2>0. x <= x /\ \A j \in S : j <= x
    BY <1>2
  <2>1. { j \in T : j <= x } = T
    BY <2>0, Zenon
  <2> QED
    BY <1>3, <2>1 DEF Rank
<1>8. ASSUME NEW i \in T, NEW j \in T, Rank(T, i) = Rank(T, j) PROVE i = j
  <2>1. i \in Int /\ j \in Int /\ Rank(T, i) \in Int
    BY <1>2, <1>5
  <2> QED
    BY <1>5, <1>8, <2>1
<1>9. InOrder(S) = [k \in 1..n |-> InOrder(S)[k]] /\ InOrder(T) = [k \in 1..(n + 1) |-> InOrder(T)[k]]
  <2>1. InOrder(T) = [k \in 1..Cardinality(T) |-> CHOOSE i \in T : Cardinality({ j \in T : j <= i }) = k]
    BY Zenon DEF InOrder
  <2>2. InOrder(S) = [k \in 1..n |-> CHOOSE i \in S : Cardinality({ j \in S : j <= i }) = k]
    BY Zenon DEF InOrder
  <2> HIDE DEF T, n
  <2> QED
    BY <1>3, <2>1, <2>2
<1> DEFINE s == InOrder(S)
           t == InOrder(T)
<1> HIDE DEF T, n, s, t
<1>10. s \in Seq(S) /\ Len(s) = n
  BY <1>1, <1>9 DEF s
<1>11. ASSUME NEW k \in 1..(n + 1) PROVE t[k] = IF k <= n THEN s[k] ELSE x
  <2>1. t[k] \in T /\ Rank(T, t[k]) = k
    BY <1>4 DEF t
  <2>2. CASE k <= n
    <3>1. k \in 1..n /\ s[k] \in S /\ Rank(S, s[k]) = k
      BY <1>1, <2>2 DEF s
    <3>2. Rank(T, s[k]) = k /\ s[k] \in T
      BY <1>6, <3>1 DEF T
    <3> QED
      BY <1>8, <2>1, <2>2, <3>2
  <2>3. CASE ~(k <= n)
    <3>1. k = n + 1 /\ x \in T
      BY <1>1, <2>3 DEF T
    <3> QED
      BY <1>7, <1>8, <2>1, <2>3, <3>1
  <2> QED
    BY <2>2, <2>3
<1>12. t = Append(s, x)
  <2>1. t = [k \in 1..(n + 1) |-> t[k]]
    BY <1>9 DEF t
  <2>2. Append(s, x) \in Seq(S \cup {x}) /\ Len(Append(s, x)) = n + 1
        /\ \A k \in 1..(n + 1) : Append(s, x)[k] = IF k <= n THEN s[k] ELSE x
    BY <1>1, <1>10
  <2>3. t \in Seq(S \cup {x}) /\ Len(t) = n + 1
    <3>1. \A k \in 1..(n + 1) : t[k] \in S \cup {x}
      BY <1>4 DEF t, T
    <3> QED
      BY <1>1, <2>1, <3>1
  <2> QED
    BY <1>11, <2>2, <2>3
<1> QED
  BY <1>10, <1>12 DEF s, t, n, T

\* No numbers, no places.
LEMMA InOrderNone == InOrder({}) = <<>>
<1>1. Cardinality({}) = 0
  BY FS_EmptySet
<1> QED
  BY <1>1 DEF InOrder

-----------------------------------------------------------------------------
(***************************************************************************)
(* The levels of a document.                                               *)
(***************************************************************************)
IsSound(body) == IsDocument(body) /\ ~HasError(body)

\* A document without errors is a sequence of starts and ends.
LEMMA SoundIs ==
  ASSUME NEW body, IsSound(body)
  PROVE  /\ Len(body) \in Nat /\ Len(body) > 0 /\ DOMAIN body = 1..Len(body) /\ body # <<>>
         /\ \A i \in 1..Len(body) : body[i].ev = "start" \/ body[i].ev = "end"
<1>1. /\ body \in Seq(ToSet(body)) /\ body # <<>>
      /\ \A i \in DOMAIN body : body[i].ev # "error" /\ body[i].ev \in {"start", "end", "error"}
  BY DEF IsSound, IsDocument, HasError
<1>2. PICK T : T = ToSet(body)
  OBVIOUS
<1>3. body \in Seq(T)
  BY <1>1, <1>2
<1> QED
  BY <1>1, <1>3

\* A start is one level down, an end is one level up.
LEMMA LevelStep ==
  ASSUME NEW body, IsSound(body)
  PROVE  /\ Level(body, 0) = 0
         /\ \A i \in 0..Len(body) : Level(body, i) \in Int
         /\ \A i \in 1..Len(body) :
              /\ body[i].ev = "start" => Level(body, i) = Level(body, i - 1) + 1
              /\ body[i].ev = "end" => Level(body, i) = Level(body, i - 1) - 1
<1> DEFINE S(i) == { k \in 1..i : body[k].ev = "start" }
           E(i) == { k \in 1..i : body[k].ev = "end" }
<1>1. ASSUME NEW i \in Nat PROVE IsFiniteSet(S(i)) /\ IsFiniteSet(E(i))
  <2>1. IsFiniteSet(1..i)
    BY FS_Interval
  <2>2. S(i) \subseteq 1..i /\ E(i) \subseteq 1..i
    OBVIOUS
  <2> HIDE DEF S, E
  <2> QED
    BY <2>1, <2>2, FS_Subset
<1>2. ASSUME NEW i \in Nat
      PROVE  /\ Level(body, i) = Cardinality(S(i)) - Cardinality(E(i))
             /\ Cardinality(S(i)) \in Nat /\ Cardinality(E(i)) \in Nat
  <2>1. Level(body, i) = Cardinality(S(i)) - Cardinality(E(i))
    BY Zenon DEF Level
  <2>2. IsFiniteSet(S(i)) /\ IsFiniteSet(E(i))
    BY <1>1
  <2> HIDE DEF S, E
  <2> QED
    BY <2>1, <2>2, FS_CardinalityType
<1>3. Level(body, 0) = 0
  <2>1. S(0) = {} /\ E(0) = {}
    OBVIOUS
  <2> HIDE DEF S, E
  <2>2. Level(body, 0) = Cardinality(S(0)) - Cardinality(E(0)) /\ Cardinality({}) = 0
    BY <1>2, FS_EmptySet
  <2> QED
    BY <2>1, <2>2
<1>4. ASSUME NEW i \in 1..Len(body)
      PROVE  /\ body[i].ev = "start" => Level(body, i) = Level(body, i - 1) + 1
             /\ body[i].ev = "end" => Level(body, i) = Level(body, i - 1) - 1
  <2>0. i \in Nat /\ i - 1 \in Nat /\ 1..i = (1..(i - 1)) \cup {i} /\ i \notin 1..(i - 1)
    BY SoundIs
  <2>1. ASSUME body[i].ev = "start"
        PROVE  S(i) = S(i - 1) \cup {i} /\ i \notin S(i - 1) /\ E(i) = E(i - 1)
    <3>1. body[i].ev # "end"
      BY <2>1
    <3>2. PICK P, Q : P = 1..(i - 1) /\ Q = 1..i
      OBVIOUS
    <3>3. Q = P \cup {i} /\ i \notin P
      BY <2>0, <3>2
    <3>4. S(i) = { k \in Q : body[k].ev = "start" } /\ S(i - 1) = { k \in P : body[k].ev = "start" }
      BY <3>2
    <3>5. E(i) = { k \in Q : body[k].ev = "end" } /\ E(i - 1) = { k \in P : body[k].ev = "end" }
      BY <3>2
    <3> QED
      BY <2>1, <3>1, <3>3, <3>4, <3>5, Zenon
  <2>2. ASSUME body[i].ev = "end"
        PROVE  E(i) = E(i - 1) \cup {i} /\ i \notin E(i - 1) /\ S(i) = S(i - 1)
    <3>1. body[i].ev # "start"
      BY <2>2
    <3>2. PICK P, Q : P = 1..(i - 1) /\ Q = 1..i
      OBVIOUS
    <3>3. Q = P \cup {i} /\ i \notin P
      BY <2>0, <3>2
    <3>4. S(i) = { k \in Q : body[k].ev = "start" } /\ S(i - 1) = { k \in P : body[k].ev = "start" }
      BY <3>2
    <3>5. E(i) = { k \in Q : body[k].ev = "end" } /\ E(i - 1) = { k \in P : body[k].ev = "end" }
      BY <3>2
    <3> QED
      BY <2>2, <3>1, <3>3, <3>4, <3>5, Zenon
  <2> HIDE DEF S, E
  <2>3. body[i].ev = "start" => Cardinality(S(i)) = Cardinality(S(i - 1)) + 1
    BY <1>1, <2>0, <2>1, FS_AddElement
  <2>4. body[i].ev = "end" => Cardinality(E(i)) = Cardinality(E(i - 1)) + 1
    BY <1>1, <2>0, <2>2, FS_AddElement
  <2>5. body[i].ev = "start" => Cardinality(E(i)) = Cardinality(E(i - 1))
    BY <2>1
  <2>6. body[i].ev = "end" => Cardinality(S(i)) = Cardinality(S(i - 1))
    BY <2>2
  <2>7. /\ Level(body, i) = Cardinality(S(i)) - Cardinality(E(i))
        /\ Cardinality(S(i)) \in Nat /\ Cardinality(E(i)) \in Nat
    BY <1>2, <2>0
  <2>8. /\ Level(body, i - 1) = Cardinality(S(i - 1)) - Cardinality(E(i - 1))
        /\ Cardinality(S(i - 1)) \in Nat /\ Cardinality(E(i - 1)) \in Nat
    BY <1>2, <2>0
  <2> QED
    BY <2>3, <2>4, <2>5, <2>6, <2>7, <2>8
<1>5. ASSUME NEW i \in 0..Len(body) PROVE Level(body, i) \in Int
  <2>1. i \in Nat
    BY SoundIs
  <2> HIDE DEF S, E
  <2> QED
    BY <1>2, <2>1
<1> QED
  BY <1>3, <1>4, <1>5

\* Where no element starts, levels do not grow.
LEMMA LevelFalls ==
  ASSUME NEW body, IsSound(body), NEW i \in 0..Len(body), NEW k \in 0..Len(body), i <= k,
         \A j \in (i + 1)..k : body[j].ev # "start"
  PROVE  Level(body, k) <= Level(body, i)
<1> DEFINE P == { n \in Nat : i + n <= k => Level(body, i + n) <= Level(body, i) }
<1>0. Len(body) \in Nat /\ i \in Nat /\ k \in Nat /\ Level(body, i) \in Int
  BY SoundIs, LevelStep
<1>1. 0 \in P
  BY <1>0
<1>2. ASSUME NEW n \in Nat, n \in P PROVE n + 1 \in P
  <2> SUFFICES ASSUME i + (n + 1) <= k PROVE Level(body, i + (n + 1)) <= Level(body, i)
    OBVIOUS
  <2>1. PICK j : j = i + (n + 1)
    OBVIOUS
  <2>2. j \in 1..Len(body) /\ j - 1 = i + n /\ j - 1 <= k /\ j \in (i + 1)..k /\ j - 1 \in 0..Len(body)
    BY <1>0, <2>1
  <2>3. body[j].ev = "end"
    BY <2>2, SoundIs
  <2>4. Level(body, j) = Level(body, j - 1) - 1 /\ Level(body, j - 1) \in Int
    BY <2>2, <2>3, LevelStep
  <2>5. Level(body, j - 1) <= Level(body, i)
    BY <1>2, <2>2
  <2> QED
    BY <1>0, <2>1, <2>4, <2>5
<1>3. Nat \subseteq P
  <2> HIDE DEF P
  <2> QED
    BY <1>1, <1>2, SetInduction
<1>4. k - i \in Nat /\ i + (k - i) = k
  BY <1>0
<1>5. k - i \in P
  BY <1>3, <1>4
<1> QED
  BY <1>4, <1>5

-----------------------------------------------------------------------------
(***************************************************************************)
(* The parser as a sequence of states of its user data, and the attributes *)
(* of the root as a sequence of queries.                                   *)
(***************************************************************************)
Step(kind, mode, x, item) == IF kind = "events" THEN Handle(x, item) ELSE setAttribute(mode, x, item)

After(f, start, kind, mode, items, n) ==
  f = [i \in 0..n |-> IF i = 0 THEN start ELSE Step(kind, mode, f[i-1], items[i])]

\* What the recursion says, place by place.
LEMMA AfterIs ==
  ASSUME NEW f, NEW start, NEW kind, NEW mode, NEW items, NEW n \in Nat, After(f, start, kind, mode, items, n)
  PROVE  /\ f[0] = start
         /\ \A i \in 1..n : f[i] = Step(kind, mode, f[i-1], items[i])
<1> DEFINE V(i) == IF i = 0 THEN start ELSE Step(kind, mode, f[i-1], items[i])
<1>1. f = [i \in 0..n |-> V(i)]
  BY Zenon DEF After
<1>2. \A i \in 0..n : f[i] = V(i)
  <2> HIDE DEF V
  <2> QED
    BY <1>1
<1>3. 0 \in 0..n /\ \A i \in 1..n : i \in 0..n /\ i # 0
  OBVIOUS
<1>4. f[0] = V(0) /\ \A i \in 1..n : f[i] = V(i)
  BY <1>2, <1>3
<1> QED
  BY <1>3, <1>4, Zenon

\* The user data after each event exist.
LEMMA AfterExists ==
  ASSUME NEW start, NEW kind, NEW mode, NEW items, NEW n \in Nat
  PROVE  \E f : After(f, start, kind, mode, items, n)
<1> DEFINE P == { m \in Nat : \E f : After(f, start, kind, mode, items, m) }
<1>1. 0 \in P
  <2> DEFINE g == [i \in 0..0 |-> start]
             V(i) == IF i = 0 THEN start ELSE Step(kind, mode, g[i-1], items[i])
  <2>1. \A i \in 0..0 : i = 0
    OBVIOUS
  <2>2. \A i \in 0..0 : V(i) = start
    BY <2>1, Zenon
  <2>3. g = [i \in 0..0 |-> V(i)]
    BY <2>2, Zenon
  <2>4. After(g, start, kind, mode, items, 0)
    BY <2>3, Zenon DEF After
  <2> QED
    BY <2>4
<1>2. ASSUME NEW m \in Nat, m \in P PROVE m + 1 \in P
  <2>1. PICK f : After(f, start, kind, mode, items, m)
    BY <1>2
  <2> DEFINE g == [i \in 0..(m + 1) |-> IF i = m + 1 THEN Step(kind, mode, f[m], items[m + 1]) ELSE f[i]]
             V(i) == IF i = 0 THEN start ELSE Step(kind, mode, g[i-1], items[i])
  <2>2. f[0] = start /\ \A i \in 1..m : f[i] = Step(kind, mode, f[i-1], items[i])
    BY <2>1, AfterIs
  <2>3. ASSUME NEW i \in 0..(m + 1) PROVE g[i] = V(i)
    <3>1. CASE i = 0
      <4>1. 0 \in 0..(m + 1) /\ 0 # m + 1
        OBVIOUS
      <4>2. g[0] = f[0]
        BY <4>1
      <4> QED
        BY <2>2, <3>1, <4>2, Zenon
    <3>2. CASE i \in 1..m
      <4>1. i # m + 1 /\ i - 1 # m + 1 /\ i - 1 \in 0..(m + 1) /\ i # 0
        BY <3>2
      <4>2. g[i] = f[i] /\ g[i - 1] = f[i - 1]
        BY <4>1
      <4> HIDE DEF g
      <4> QED
        BY <2>2, <3>2, <4>1, <4>2, Zenon
    <3>3. CASE i = m + 1
      <4>1. m + 1 \in 0..(m + 1) /\ m \in 0..(m + 1) /\ m # m + 1 /\ m + 1 # 0 /\ (m + 1) - 1 = m
        OBVIOUS
      <4>2. g[m + 1] = Step(kind, mode, f[m], items[m + 1]) /\ g[m] = f[m]
        BY <4>1
      <4> HIDE DEF g
      <4>3. V(m + 1) = Step(kind, mode, g[m], items[m + 1])
        BY <4>1, Zenon
      <4> QED
        BY <3>3, <4>2, <4>3, Zenon
    <3> QED
      BY <3>1, <3>2, <3>3
  <2>4. g = [i \in 0..(m + 1) |-> g[i]]
    OBVIOUS
  <2>5. [i \in 0..(m + 1) |-> g[i]] = [i \in 0..(m + 1) |-> V(i)]
    BY <2>3, Zenon
  <2>6. After(g, start, kind, mode, items, m + 1)
    <3> HIDE DEF g
    <3> QED
      BY <2>4, <2>5, Zenon DEF After
  <2> QED
    BY <2>6
<1>3. Nat \subseteq P
  <2> HIDE DEF P
  <2> QED
    BY <1>1, <1>2, SetInduction
<1> QED
  BY <1>3

\* readMwsQuery passes through them.
LEMMA ReadThrough ==
  ASSUME NEW body, NEW mode, body # <<>>, Len(body) \in Nat
  PROVE  \E f : /\ readMwsQuery(body, mode) = my_endDocument(f[Len(body)])
                /\ f[0] = NewUserData(mode)
                /\ \A i \in 1..Len(body) : f[i] = Handle(f[i-1], body[i])
<1> DEFINE A(f) == After(f, NewUserData(mode), "events", mode, body, Len(body))
<1>1. readMwsQuery(body, mode) = my_endDocument((CHOOSE f : A(f))[Len(body)])
  BY Zenon DEF readMwsQuery, After, Step
<1>2. PICK f : f = (CHOOSE h : A(h)) /\ A(f)
  BY AfterExists, Zenon
<1>3. f[0] = NewUserData(mode) /\ \A i \in 1..Len(body) : f[i] = Step("events", mode, f[i-1], body[i])
  BY <1>2, AfterIs
<1> HIDE DEF A
<1> QED
  BY <1>1, <1>2, <1>3, Zenon DEF Step

\* The queries between the attributes, the first of them given.
Attributed(f, query, mode, attrs) ==
  /\ f[0] = query
  /\ \A i \in 1..Len(attrs) : f[i] = setAttribute(mode, f[i-1], attrs[i])

\* setAttributes passes through one query for each attribute.
LEMMA SetThrough ==
  ASSUME NEW query, NEW mode, NEW attrs, Len(attrs) \in Nat
  PROVE  \E f : setAttributes(mode, query, attrs) = f[Len(attrs)] /\ Attributed(f, query, mode, attrs)
<1> DEFINE A(f) == After(f, query, "attributes", mode, attrs, Len(attrs))
<1>0. "attributes" # "events"
  OBVIOUS
<1>1. setAttributes(mode, query, attrs) = (CHOOSE f : A(f))[Len(attrs)]
  BY <1>0, Zenon DEF setAttributes, After, Step
<1>2. PICK f : f = (CHOOSE h : A(h)) /\ A(f)
  BY AfterExists, Zenon
<1>3. f[0] = query /\ \A i \in 1..Len(attrs) : f[i] = Step("attributes", mode, f[i-1], attrs[i])
  BY <1>2, AfterIs
<1> HIDE DEF A
<1>4. Attributed(f, query, mode, attrs)
  BY <1>0, <1>3, Zenon DEF Step, Attributed
<1> QED
  BY <1>1, <1>2, <1>4, Zenon

QueryFields == {"tokens", "attrResultMaxSize", "attrResultLimitMin", "responseFormatter",
                "includeHits", "max_depth", "cutoff_mode"}

\* The formatter an output attribute chooses, if it is one of the three it may be.
Chooses(mode, value, formatter) ==
  \/ value = "xml" /\ formatter = (IF mode = "QUERY_SCHEMA" THEN "SCHEMA_XML" ELSE "MWS_XML")
  \/ value = "json" /\ formatter = (IF mode = "QUERY_SCHEMA" THEN "SCHEMA_JSON" ELSE "MWS_JSON")
  \/ value = "mws-ids" /\ formatter = "MWS_IDS"

Chosen == {"xml", "json", "mws-ids"}

\* One attribute sets the field it is for.
SetOne(q, mode, query, attr) ==
  /\ DOMAIN q = QueryFields /\ q.tokens = query.tokens
  /\ attr.key = "answsize" => q.attrResultMaxSize = attr.value % SIZE_MOD
  /\ attr.key # "answsize" => q.attrResultMaxSize = query.attrResultMaxSize
  /\ attr.key = "limitmin" => q.attrResultLimitMin = attr.value % SIZE_MOD
  /\ attr.key # "limitmin" => q.attrResultLimitMin = query.attrResultLimitMin
  /\ attr.key = "output" /\ attr.value \in Chosen =>
       /\ Chooses(mode, attr.value, q.responseFormatter)
       /\ attr.value = "mws-ids" => q.includeHits = FALSE
       /\ attr.value # "mws-ids" => q.includeHits = query.includeHits
  /\ ~(attr.key = "output" /\ attr.value \in Chosen) =>
       q.responseFormatter = query.responseFormatter /\ q.includeHits = query.includeHits

\* So does setAttribute.
LEMMA SetAttributeIs ==
  ASSUME NEW mode, NEW query, DOMAIN query = QueryFields, NEW attr, NEW q, q = setAttribute(mode, query, attr)
  PROVE  SetOne(q, mode, query, attr)
<1>1. CASE attr.key = "answsize"
  <2>1. q = [query EXCEPT !.attrResultMaxSize = attr.value % SIZE_MOD]
    BY <1>1 DEF setAttribute
  <2> QED
    BY <1>1, <2>1 DEF QueryFields, SetOne
<1>2. CASE attr.key = "limitmin"
  <2>1. q = [query EXCEPT !.attrResultLimitMin = attr.value % SIZE_MOD]
    BY <1>2 DEF setAttribute
  <2> QED
    BY <1>2, <2>1 DEF QueryFields, SetOne
<1>3. CASE attr.key = "output" /\ attr.value \in Chosen
  <2>1. CASE attr.value = "xml"
    <3>1. q = [query EXCEPT !.responseFormatter = IF mode = "QUERY_SCHEMA" THEN "SCHEMA_XML" ELSE "MWS_XML"]
      BY <1>3, <2>1 DEF setAttribute
    <3> QED
      BY <1>3, <2>1, <3>1 DEF QueryFields, Chooses, SetOne
  <2>2. CASE attr.value = "json"
    <3>1. q = [query EXCEPT !.responseFormatter = IF mode = "QUERY_SCHEMA" THEN "SCHEMA_JSON" ELSE "MWS_JSON"]
      BY <1>3, <2>2 DEF setAttribute
    <3> QED
      BY <1>3, <2>2, <3>1 DEF QueryFields, Chooses, SetOne
  <2>3. CASE attr.value = "mws-ids"
    <3>1. q = [query EXCEPT !.responseFormatter = "MWS_IDS", !.includeHits = FALSE]
      BY <1>3, <2>3 DEF setAttribute
    <3> QED
      BY <1>3, <2>3, <3>1 DEF QueryFields, Chooses, SetOne
  <2> QED
    BY <1>3, <2>1, <2>2, <2>3 DEF Chosen
<1>4. CASE attr.key = "schema_depth"
  <2>1. q = [query EXCEPT !.max_depth = attr.value % 256]
    BY <1>4 DEF setAttribute
  <2> QED
    BY <1>4, <2>1 DEF QueryFields, SetOne
<1>5. CASE attr.key = "cutoff_mode"
  <2>1. q = [query EXCEPT !.cutoff_mode = attr.value]
    BY <1>5 DEF setAttribute
  <2> QED
    BY <1>5, <2>1 DEF QueryFields, SetOne
<1>6. CASE attr.key \notin {"answsize", "limitmin", "schema_depth", "cutoff_mode"}
           /\ ~(attr.key = "output" /\ attr.value \in Chosen)
  <2>1. q = query
    BY <1>6 DEF setAttribute, Chosen
  <2> QED
    BY <1>6, <2>1 DEF SetOne
<1> QED
  BY <1>1, <1>2, <1>3, <1>4, <1>5, <1>6

\* The attribute the properties look up is the only one of its name.
LEMMA AttributeIs ==
  ASSUME NEW body, IsSound(body), NEW key, NEW default
  PROVE  \/ /\ \A i \in 1..Len(body[1].attrs) : body[1].attrs[i].key # key
            /\ AttributeOf(body, key, default) = default
         \/ \E i \in 1..Len(body[1].attrs) : /\ body[1].attrs[i].key = key
                                              /\ AttributeOf(body, key, default) = body[1].attrs[i].value
<1>1. PICK attrs : attrs = body[1].attrs
  OBVIOUS
<1>2. attrs \in Seq(ToSet(attrs)) /\ \A i, j \in DOMAIN attrs : attrs[i].key = attrs[j].key => i = j
  BY <1>1 DEF IsSound, IsDocument
<1>3. PICK T : attrs \in Seq(T)
  BY <1>2
<1>4. DOMAIN attrs = 1..Len(attrs) /\ Len(attrs) \in Nat
  BY <1>3
<1> DEFINE given == { i \in DOMAIN attrs : attrs[i].key = key }
<1>5. AttributeOf(body, key, default) = IF given = {} THEN default ELSE attrs[Max(given)].value
  BY <1>1 DEF AttributeOf
<1>6. CASE given = {}
  BY <1>1, <1>4, <1>5, <1>6
<1>7. CASE given # {}
  <2>1. PICK i \in given : TRUE
    BY <1>7
  <2>2. i \in 1..Len(attrs) /\ attrs[i].key = key /\ i \in Int
    BY <1>4, <2>1
  <2>3. \A j \in given : j = i
    BY <1>2, <2>1, Zenon
  <2>4. Max(given) = i
    <3>1. i >= i
      BY <2>2
    <3> HIDE DEF given
    <3>2. \E x \in given : \A y \in given : x >= y
      BY <2>1, <2>3, <3>1
    <3>3. Max(given) \in given
      BY <3>2, Zenon DEF Max
    <3> QED
      BY <2>3, <3>3
  <2> QED
    BY <1>1, <1>5, <1>7, <2>2, <2>4
<1> QED
  BY <1>6, <1>7

DefaultFormatter(mode) == IF mode = "QUERY_SCHEMA" THEN "SCHEMA_JSON" ELSE "MWS_XML"

\* The field an attribute is for has its value.
SetTo(q, mode, attr) ==
  /\ attr.key = "answsize" => q.attrResultMaxSize = attr.value % SIZE_MOD
  /\ attr.key = "limitmin" => q.attrResultLimitMin = attr.value % SIZE_MOD
  /\ attr.key = "output" /\ attr.value \in Chosen =>
       /\ Chooses(mode, attr.value, q.responseFormatter)
       /\ attr.value = "mws-ids" => q.includeHits = FALSE
       /\ attr.value # "mws-ids" => q.includeHits = TRUE

\* What the first n attributes make of a new query.
SetBy(q, mode, attrs, n) ==
  /\ DOMAIN q = QueryFields /\ q.tokens = <<>>
  /\ \A k \in 1..n : SetTo(q, mode, attrs[k])
  /\ (\A k \in 1..n : attrs[k].key # "answsize") => q.attrResultMaxSize = DEFAULT_QUERY_RESULT_SIZE
  /\ (\A k \in 1..n : attrs[k].key # "limitmin") => q.attrResultLimitMin = 0
  /\ (\A k \in 1..n : ~(attrs[k].key = "output" /\ attrs[k].value \in Chosen)) =>
       q.responseFormatter = DefaultFormatter(mode) /\ q.includeHits = TRUE

\* One attribute more.
LEMMA SetByStep ==
  ASSUME NEW mode, NEW attrs, \A i, j \in 1..Len(attrs) : attrs[i].key = attrs[j].key => i = j,
         Len(attrs) \in Nat, NEW n \in Nat, n + 1 <= Len(attrs),
         NEW query, SetBy(query, mode, attrs, n), NEW q, q = setAttribute(mode, query, attrs[n + 1])
  PROVE  SetBy(q, mode, attrs, n + 1)
<1>1. PICK a : a = attrs[n + 1]
  OBVIOUS
<1>2. n + 1 \in 1..Len(attrs) /\ (1..(n + 1)) = (1..n) \cup {n + 1} /\ \A k \in 1..n : k \in 1..Len(attrs) /\ k # n + 1
  OBVIOUS
<1>3. \A k \in 1..n : attrs[k].key # a.key
  BY <1>1, <1>2
<1>4. SetOne(q, mode, query, a)
  <2>1. DOMAIN query = QueryFields /\ q = setAttribute(mode, query, a)
    BY <1>1 DEF SetBy
  <2> QED
    BY <2>1, SetAttributeIs
<1>5. a.key = "output" => query.includeHits = TRUE
  BY <1>3 DEF SetBy
<1>6. ASSUME NEW k \in 1..(n + 1) PROVE SetTo(q, mode, attrs[k])
  <2>1. CASE k = n + 1
    <3>1. SetTo(q, mode, a)
      BY <1>4, <1>5, Zenon DEF SetOne, SetTo
    <3> QED
      BY <1>1, <2>1, <3>1, Zenon
  <2>2. CASE k \in 1..n
    <3>1. attrs[k].key # a.key /\ SetTo(query, mode, attrs[k])
      BY <1>3, <2>2 DEF SetBy
    <3>2. attrs[k].key = "answsize" => q.attrResultMaxSize = query.attrResultMaxSize
      BY <1>4, <3>1, Zenon DEF SetOne
    <3>3. attrs[k].key = "limitmin" => q.attrResultLimitMin = query.attrResultLimitMin
      BY <1>4, <3>1, Zenon DEF SetOne
    <3>4. attrs[k].key = "output" =>
            q.responseFormatter = query.responseFormatter /\ q.includeHits = query.includeHits
      BY <1>4, <3>1, Zenon DEF SetOne
    <3> QED
      BY <3>1, <3>2, <3>3, <3>4, Zenon DEF SetTo
  <2> QED
    BY <1>2, <2>1, <2>2
<1>7. /\ (\A k \in 1..(n + 1) : attrs[k].key # "answsize") => q.attrResultMaxSize = DEFAULT_QUERY_RESULT_SIZE
      /\ (\A k \in 1..(n + 1) : attrs[k].key # "limitmin") => q.attrResultLimitMin = 0
      /\ (\A k \in 1..(n + 1) : ~(attrs[k].key = "output" /\ attrs[k].value \in Chosen)) =>
           q.responseFormatter = DefaultFormatter(mode) /\ q.includeHits = TRUE
  <2>1. n + 1 \in 1..(n + 1) /\ \A k \in 1..n : k \in 1..(n + 1)
    OBVIOUS
  <2> QED
    BY <1>1, <1>4, <2>1 DEF SetBy, SetOne
<1>8. DOMAIN q = QueryFields /\ q.tokens = <<>>
  BY <1>4 DEF SetBy, SetOne
<1> QED
  BY <1>6, <1>7, <1>8, Zenon DEF SetBy

\* The query of a root mws:query before its first term.
LEMMA AttributesSet ==
  ASSUME NEW body, IsSound(body), NEW mode, NEW attrs, attrs = body[1].attrs
  PROVE  Len(attrs) \in Nat /\ SetBy(setAttributes(mode, NewQuery(mode), attrs), mode, attrs, Len(attrs))
<1>2. attrs \in Seq(ToSet(attrs)) /\ \A i, j \in DOMAIN attrs : attrs[i].key = attrs[j].key => i = j
  BY DEF IsSound, IsDocument
<1>3. PICK T : attrs \in Seq(T)
  BY <1>2
<1>4. DOMAIN attrs = 1..Len(attrs) /\ Len(attrs) \in Nat
  BY <1>3
<1>5. PICK f : /\ setAttributes(mode, NewQuery(mode), attrs) = f[Len(attrs)]
               /\ Attributed(f, NewQuery(mode), mode, attrs)
  <2>1. Len(attrs) \in Nat
    BY <1>4
  <2> QED
    BY <2>1, SetThrough, Zenon
<1> DEFINE P == { n \in Nat : n <= Len(attrs) => SetBy(f[n], mode, attrs, n) }
<1>6. 0 \in P
  <2>1. PICK q : q = NewQuery(mode)
    OBVIOUS
  <2>2. /\ DOMAIN q = QueryFields /\ q.tokens = <<>> /\ q.attrResultMaxSize = DEFAULT_QUERY_RESULT_SIZE
        /\ q.attrResultLimitMin = 0 /\ q.responseFormatter = DefaultFormatter(mode) /\ q.includeHits = TRUE
    BY <2>1 DEF NewQuery, QueryFields, DefaultFormatter
  <2>3. SetBy(q, mode, attrs, 0)
    BY <2>2 DEF SetBy
  <2>4. f[0] = q
    BY <1>5, <2>1 DEF Attributed
  <2> QED
    BY <2>3, <2>4
<1>7. ASSUME NEW n \in Nat, n \in P PROVE n + 1 \in P
  <2> SUFFICES ASSUME n + 1 <= Len(attrs) PROVE SetBy(f[n + 1], mode, attrs, n + 1)
    OBVIOUS
  <2>1. n <= Len(attrs) /\ n + 1 \in 1..Len(attrs) /\ (n + 1) - 1 = n
    BY <1>4
  <2>2. SetBy(f[n], mode, attrs, n)
    BY <1>7, <2>1
  <2>3. f[n + 1] = setAttribute(mode, f[n], attrs[n + 1])
    <3>1. f[n + 1] = setAttribute(mode, f[(n + 1) - 1], attrs[n + 1])
      BY <1>5, <2>1, Zenon DEF Attributed
    <3> QED
      BY <2>1, <3>1
  <2> QED
    BY <1>2, <1>4, <2>2, <2>3, SetByStep
<1>8. Nat \subseteq P
  <2> HIDE DEF P
  <2> QED
    BY <1>6, <1>7, SetInduction
<1>9. Len(attrs) \in P
  BY <1>4, <1>8
<1> QED
  BY <1>4, <1>5, <1>9

-----------------------------------------------------------------------------
(***************************************************************************)
(* The structure of a document: which events are inside which element.     *)
(***************************************************************************)

\* Event i is in the element that starts at s.
Inside(body, s, i) == s <= i /\ \A k \in s..i : Level(body, k) >= Level(body, s)

\* Starts are places of the document, and a level above the event before them.
LEMMA StartIs ==
  ASSUME NEW body, IsSound(body), NEW s \in Starts(body)
  PROVE  /\ s \in 1..Len(body) /\ s \in Int /\ s - 1 \in 0..Len(body) /\ body[s].ev = "start"
         /\ Level(body, s) = Level(body, s - 1) + 1
         /\ Level(body, s) \in Int /\ Level(body, s - 1) \in Int /\ Inside(body, s, s)
<1>1. s \in 1..Len(body) /\ body[s].ev = "start" /\ Len(body) \in Nat
  BY SoundIs DEF Starts
<1>2. s - 1 \in 0..Len(body) /\ s \in 0..Len(body) /\ s \in Int
  BY <1>1
<1>3. Level(body, s) = Level(body, s - 1) + 1 /\ Level(body, s) \in Int /\ Level(body, s - 1) \in Int
  BY <1>1, <1>2, LevelStep
<1>4. Inside(body, s, s)
  <2>1. \A k \in s..s : k = s
    BY <1>2
  <2> QED
    BY <1>2, <1>3, <2>1 DEF Inside
<1> QED
  BY <1>1, <1>2, <1>3, <1>4

\* Of the elements of a level at most one has an event inside.
LEMMA InsideOne ==
  ASSUME NEW body, IsSound(body), NEW s \in Starts(body), NEW t \in Starts(body),
         Level(body, s) = Level(body, t), NEW i \in 0..Len(body), Inside(body, s, i), t <= i
  PROVE  t <= s
<1> SUFFICES ASSUME s < t PROVE FALSE
  BY StartIs
<1>0. Len(body) \in Nat
  BY SoundIs
<1>1. s \in Int /\ t \in Int /\ Level(body, t) = Level(body, t - 1) + 1 /\ Level(body, t - 1) \in Int
  BY StartIs
<1>2. t - 1 \in s..i
  BY <1>0, <1>1
<1> QED
  BY <1>1, <1>2 DEF Inside

\* Inside what is inside.
LEMMA InsideInside ==
  ASSUME NEW body, IsSound(body), NEW e \in Starts(body), NEW r \in Starts(body), NEW i \in 0..Len(body),
         Inside(body, e, r), Inside(body, r, i)
  PROVE  Inside(body, e, i)
<1>0. Len(body) \in Nat
  BY SoundIs
<1>1. e \in Int /\ r \in Int /\ Level(body, e) \in Int /\ Level(body, r) \in Int /\ e <= r /\ r <= i
      /\ e \in 1..Len(body) /\ r \in 1..Len(body)
  BY StartIs DEF Inside
<1>2. Level(body, r) >= Level(body, e)
  <2>1. r \in e..r
    BY <1>1
  <2> QED
    BY <2>1 DEF Inside
<1>3. ASSUME NEW k \in e..i PROVE Level(body, k) >= Level(body, e)
  <2>1. k \in 0..Len(body)
    BY <1>0, <1>1
  <2>2. Level(body, k) \in Int
    BY <2>1, LevelStep
  <2>3. k \in e..r \/ k \in r..i
    BY <1>0, <1>1
  <2>4. Level(body, k) >= Level(body, e) \/ Level(body, k) >= Level(body, r)
    BY <2>3 DEF Inside
  <2> QED
    BY <1>1, <1>2, <2>2, <2>4
<1> QED
  BY <1>0, <1>1, <1>3 DEF Inside

\* One event more.
LEMMA InsideStep ==
  ASSUME NEW body, IsSound(body), NEW s \in Starts(body), NEW i \in 1..Len(body), s <= i - 1
  PROVE  Inside(body, s, i) <=> Inside(body, s, i - 1) /\ Level(body, i) >= Level(body, s)
<1>0. Len(body) \in Nat /\ s \in Int
  BY SoundIs, StartIs
<1>1. s..i = (s..(i - 1)) \cup {i} /\ s <= i /\ i - 1 \in Int
  BY <1>0
<1> QED
  BY <1>1 DEF Inside

\* A part of an element.
LEMMA InsideBefore ==
  ASSUME NEW body, IsSound(body), NEW s \in Starts(body), NEW i \in 0..Len(body), NEW j \in 0..Len(body),
         Inside(body, s, i), s <= j, j <= i
  PROVE  Inside(body, s, j)
<1>0. Len(body) \in Nat /\ s \in Int
  BY SoundIs, StartIs
<1>1. \A k \in s..j : k \in s..i
  BY <1>0
<1> QED
  BY <1>1 DEF Inside

\* The elements up to NextAfter are those inside.
LEMMA Within ==
  ASSUME NEW body, IsSound(body), NEW s \in Starts(body), NEW j \in Starts(body), s <= j
  PROVE  j < NextAfter(body, s) <=> Inside(body, s, j)
<1> DEFINE A == { k \in Starts(body) : k > s /\ Level(body, k) <= Level(body, s) }
           B == A \cup {Len(body) + 1}
           m == NextAfter(body, s)
<1>0. /\ Len(body) \in Nat /\ s \in 1..Len(body) /\ j \in 1..Len(body) /\ s \in Int /\ j \in Int
      /\ Level(body, s) \in Int
  BY SoundIs, StartIs
<1>1. B \subseteq Nat /\ Len(body) + 1 \in B
  <2>1. \A k \in Starts(body) : k \in 1..Len(body)
    BY StartIs
  <2>2. A \subseteq Starts(body)
    OBVIOUS
  <2>3. A \subseteq Nat
    <3> HIDE DEF A
    <3> QED
      BY <1>0, <2>1, <2>2
  <2>4. Len(body) + 1 \in Nat
    BY <1>0
  <2> HIDE DEF A
  <2> QED
    BY <2>3, <2>4, Zenon
<1>2. m \in B /\ \A k \in B : m <= k
  <2>1. m = CHOOSE x \in B : \A y \in B : x <= y
    BY DEF NextAfter, Min
  <2> HIDE DEF B, m
  <2>2. \E x \in B : \A y \in B : x <= y
    BY <1>1, LeastNatural
  <2> QED
    BY <2>1, <2>2, Zenon
<1>3. ASSUME j < m PROVE Inside(body, s, j)
  <2> SUFFICES ASSUME NEW k \in s..j, ~(Level(body, k) >= Level(body, s)) PROVE FALSE
    BY DEF Inside
  <2>1. ASSUME NEW x \in Starts(body), s < x, x <= j PROVE Level(body, x) > Level(body, s)
    <3>1. x \notin A
      <4>1. x \in A => m <= x
        BY <1>2
      <4>2. x \in Int /\ m \in Int
        BY <1>1, <1>2, StartIs
      <4> QED
        BY <1>0, <1>3, <2>1, <4>1, <4>2
    <3>2. Level(body, x) \in Int
      BY StartIs
    <3> QED
      BY <1>0, <2>1, <3>1, <3>2
  <2>2. k # s /\ k \in Int /\ s < k /\ k <= j /\ k \in 0..Len(body) /\ Level(body, k) \in Int
        /\ Level(body, k) < Level(body, s)
    <3>1. k \in 0..Len(body) /\ k \in Int
      BY <1>0
    <3>2. Level(body, k) \in Int
      BY <3>1, LevelStep
    <3>3. k # s
      BY <1>0, <3>2
    <3> QED
      BY <1>0, <3>1, <3>2, <3>3
  <2>3. Level(body, j) >= Level(body, s)
    <3>1. j # s => Level(body, j) > Level(body, s)
      BY <1>0, <2>1
    <3>2. Level(body, j) \in Int
      BY StartIs
    <3> QED
      BY <1>0, <3>1, <3>2
  <2> DEFINE C == { x \in k..j : Level(body, x) >= Level(body, s) }
  <2>4. C \in SUBSET Nat /\ C # {}
    <3>1. j \in C
      BY <1>0, <2>2, <2>3
    <3> QED
      BY <1>0, <2>2, <3>1
  <2>5. PICK x \in C : \A y \in C : x <= y
    <3> HIDE DEF C
    <3> QED
      BY <2>4, LeastNatural
  <2>6. x \in Int /\ x # k /\ x > k /\ x <= j /\ x \in 1..Len(body) /\ Level(body, x) >= Level(body, s)
    BY <1>0, <2>2, <2>5
  <2>7. x - 1 \in k..j /\ x - 1 \in 0..Len(body) /\ ~(x <= x - 1)
    BY <1>0, <2>2, <2>6
  <2>8. x - 1 \notin C
    BY <2>5, <2>7
  <2>9. Level(body, x - 1) < Level(body, s) /\ Level(body, x - 1) \in Int
    <3>1. Level(body, x - 1) \in Int
      BY <2>7, LevelStep
    <3> QED
      BY <1>0, <2>7, <2>8, <3>1
  <2>10. Level(body, x) \in Int /\ body[x].ev = "start" /\ Level(body, x) = Level(body, x - 1) + 1
    <3>1. x \in 0..Len(body)
      BY <1>0, <2>6
    <3>2. Level(body, x) \in Int
      BY <3>1, LevelStep
    <3>3. body[x].ev # "end"
      <4>1. body[x].ev = "end" => Level(body, x) = Level(body, x - 1) - 1
        BY <2>6, LevelStep
      <4> QED
        BY <1>0, <2>6, <2>9, <3>2, <4>1
    <3>4. body[x].ev = "start"
      BY <2>6, <3>3, SoundIs
    <3> QED
      BY <2>6, <3>2, <3>4, LevelStep
  <2>11. x \in Starts(body) /\ s < x
    BY <1>0, <2>2, <2>6, <2>10, SoundIs DEF Starts
  <2>12. Level(body, x) > Level(body, s)
    BY <2>1, <2>6, <2>11
  <2> QED
    BY <1>0, <2>9, <2>10, <2>12
<1>4. ASSUME Inside(body, s, j) PROVE j < m
  <2>1. ASSUME NEW x \in A PROVE j < x
    <3>1. x \in Starts(body) /\ x \in Int /\ s < x /\ Level(body, x) <= Level(body, s)
          /\ Level(body, x) = Level(body, x - 1) + 1 /\ Level(body, x) \in Int /\ Level(body, x - 1) \in Int
      BY StartIs
    <3> SUFFICES ASSUME x <= j PROVE FALSE
      BY <1>0, <3>1
    <3>2. x - 1 \in s..j
      BY <1>0, <3>1
    <3>3. Level(body, x - 1) >= Level(body, s)
      BY <1>4, <3>2 DEF Inside
    <3> QED
      BY <1>0, <3>1, <3>3
  <2>2. \A x \in B : j < x
    BY <1>0, <2>1
  <2> HIDE DEF m, B
  <2> QED
    BY <1>2, <2>2
<1> QED
  BY <1>3, <1>4

-----------------------------------------------------------------------------
(***************************************************************************)
(* The terms and the trees of sets of events.                              *)
(***************************************************************************)
TokenAt(body, j) == newToken(body[j].name, body[j].xref, Level(body, j) - 2)

\* The tree of the tokens that start in S.
TreeIn(body, S) == LET tokens == InOrder(S) IN [k \in DOMAIN tokens |-> TokenAt(body, tokens[k])]

\* The terms whose roots are in S.
TermsIn(body, S) == LET roots == InOrder(S) IN [k \in DOMAIN roots |-> TermAt(body, roots[k])]

\* A sequence mapped through a function, element by element.
LEMMA MapAppend ==
  ASSUME NEW S, NEW s \in Seq(S), NEW x, NEW g
  PROVE  [k \in DOMAIN Append(s, x) |-> g[Append(s, x)[k]]] = Append([k \in DOMAIN s |-> g[s[k]]], g[x])
<1> DEFINE t == Append(s, x)
           u == [k \in DOMAIN s |-> g[s[k]]]
           v == [k \in DOMAIN t |-> g[t[k]]]
           T == { g[y] : y \in S \cup {x} }
<1>1. Len(s) \in Nat /\ DOMAIN s = 1..Len(s) /\ \A k \in 1..Len(s) : s[k] \in S
  OBVIOUS
<1>2. DOMAIN t = 1..(Len(s) + 1) /\ t[Len(s) + 1] = x /\ \A k \in 1..Len(s) : t[k] = s[k]
  BY <1>1
<1>3. u \in Seq(T) /\ Len(u) = Len(s) /\ \A k \in 1..Len(s) : u[k] = g[s[k]]
  <2>1. u = [k \in 1..Len(s) |-> g[s[k]]]
    BY <1>1
  <2>2. \A k \in 1..Len(s) : g[s[k]] \in T
    BY <1>1
  <2> HIDE DEF T, u
  <2> QED
    BY <1>1, <2>1, <2>2
<1>4. v = [k \in 1..(Len(s) + 1) |-> g[t[k]]]
  BY <1>2
<1>5. Append(u, g[x]) = [k \in 1..(Len(u) + 1) |-> IF k = Len(u) + 1 THEN g[x] ELSE u[k]]
  <2> HIDE DEF u, T
  <2> QED
    BY <1>3
<1>6. ASSUME NEW k \in 1..(Len(s) + 1)
      PROVE  g[t[k]] = IF k = Len(u) + 1 THEN g[x] ELSE u[k]
  <2> HIDE DEF u, t
  <2> QED
    BY <1>1, <1>2, <1>3
<1> HIDE DEF u, t, v, T
<1> QED
  BY <1>3, <1>4, <1>5, <1>6 DEF u, t, v

\* One token more.
LEMMA TreeAppend ==
  ASSUME NEW body, NEW S, IsFiniteSet(S), S \subseteq Int, NEW x \in Int, \A i \in S : i < x
  PROVE  TreeIn(body, S \cup {x}) = Append(TreeIn(body, S), TokenAt(body, x))
<1>1. InOrder(S) \in Seq(S) /\ InOrder(S \cup {x}) = Append(InOrder(S), x)
  BY InOrderAppend
<1>2. PICK s : s = InOrder(S)
  OBVIOUS
<1>3. PICK g : g = [j \in S \cup {x} |-> TokenAt(body, j)]
  OBVIOUS
<1>4. g[x] = TokenAt(body, x) /\ \A j \in S : g[j] = TokenAt(body, j)
  BY <1>3
<1>5. s \in Seq(S) /\ DOMAIN s = 1..Len(s) /\ Len(s) \in Nat /\ \A k \in DOMAIN s : s[k] \in S
  BY <1>1, <1>2
<1>6. TreeIn(body, S) = [k \in DOMAIN s |-> g[s[k]]]
  BY <1>2, <1>4, <1>5 DEF TreeIn
<1>7. PICK t : t = Append(s, x)
  OBVIOUS
<1>8. \A k \in DOMAIN t : t[k] \in S \cup {x}
  BY <1>5, <1>7
<1>9. \A k \in DOMAIN t : g[t[k]] = TokenAt(body, t[k])
  BY <1>4, <1>8
<1>10. TreeIn(body, S \cup {x}) = [k \in DOMAIN t |-> g[t[k]]]
  BY <1>1, <1>2, <1>7, <1>9 DEF TreeIn
<1>11. [k \in DOMAIN t |-> g[t[k]]] = Append([k \in DOMAIN s |-> g[s[k]]], g[x])
  BY <1>5, <1>7, MapAppend
<1> QED
  BY <1>4, <1>6, <1>10, <1>11

\* One term more.
LEMMA TermsAppend ==
  ASSUME NEW body, NEW S, IsFiniteSet(S), S \subseteq Int, NEW x \in Int, \A i \in S : i < x
  PROVE  TermsIn(body, S \cup {x}) = Append(TermsIn(body, S), TermAt(body, x))
<1>1. InOrder(S) \in Seq(S) /\ InOrder(S \cup {x}) = Append(InOrder(S), x)
  BY InOrderAppend
<1>2. PICK s : s = InOrder(S)
  OBVIOUS
<1>3. PICK g : g = [j \in S \cup {x} |-> TermAt(body, j)]
  OBVIOUS
<1>4. g[x] = TermAt(body, x) /\ \A j \in S : g[j] = TermAt(body, j)
  BY <1>3
<1>5. s \in Seq(S) /\ DOMAIN s = 1..Len(s) /\ Len(s) \in Nat /\ \A k \in DOMAIN s : s[k] \in S
  BY <1>1, <1>2
<1>6. TermsIn(body, S) = [k \in DOMAIN s |-> g[s[k]]]
  BY <1>2, <1>4, <1>5 DEF TermsIn
<1>7. PICK t : t = Append(s, x)
  OBVIOUS
<1>8. \A k \in DOMAIN t : t[k] \in S \cup {x}
  BY <1>5, <1>7
<1>9. \A k \in DOMAIN t : g[t[k]] = TermAt(body, t[k])
  BY <1>4, <1>8
<1>10. TermsIn(body, S \cup {x}) = [k \in DOMAIN t |-> g[t[k]]]
  BY <1>1, <1>2, <1>7, <1>9 DEF TermsIn
<1>11. [k \in DOMAIN t |-> g[t[k]]] = Append([k \in DOMAIN s |-> g[s[k]]], g[x])
  BY <1>5, <1>7, MapAppend
<1> QED
  BY <1>4, <1>6, <1>10, <1>11

\* No terms, no tokens.
LEMMA NoneIn ==
  ASSUME NEW body
  PROVE  TreeIn(body, {}) = <<>> /\ TermsIn(body, {}) = <<>>
BY InOrderNone DEF TreeIn, TermsIn

-----------------------------------------------------------------------------
(***************************************************************************)
(* What the parser has read after i events.                                *)
(***************************************************************************)
UserFields == {"qMode", "state", "prevState", "unknownDepth", "tree", "currentToken", "errorDetected", "result"}

\* The roots of terms that are complete.
Done(body, i) == { r \in Roots(body) : r <= i /\ ~Inside(body, r, i) }

\* The elements from r on.
Upto(body, r, i) == { j \in Starts(body) : r <= j /\ j <= i }

\* Outside the root, or after it.
AtDefault(body, i, d) == d.state = "DEFAULT" /\ Level(body, i) = 0 /\ d.currentToken = 0

\* In the root, between its children.
AtQuery(body, i, d) ==
  d.state = "IN_MWS_QUERY" /\ Level(body, i) = 1 /\ body[1].name = "mws:query" /\ d.currentToken = 0

\* In an mws:expr, and maybe in a term of it.
AtExpr(body, i, d) ==
  /\ d.state = "IN_MWS_EXPR" /\ Level(body, i) >= 2 /\ body[1].name = "mws:query"
  /\ d.currentToken = Level(body, i) - 2
  /\ \E e \in Exprs(body) : Inside(body, e, i)
  /\ Level(body, i) > 2 =>
       \E r \in Roots(body) : Inside(body, r, i) /\ d.tree = TreeIn(body, Upto(body, r, i))

\* In an element that is skipped: the root, or a child of it.
AtUnknown(body, i, d) ==
  /\ d.state = "UNKNOWN" /\ d.unknownDepth \in Nat /\ d.unknownDepth >= 1 /\ d.currentToken = 0
  /\ \/ /\ d.prevState = "DEFAULT" /\ Level(body, i) = d.unknownDepth /\ body[1].name # "mws:query"
     \/ /\ d.prevState = "IN_MWS_QUERY" /\ Level(body, i) = d.unknownDepth + 1
        /\ body[1].name = "mws:query"
        /\ \E u \in Starts(body) \ Exprs(body) : Level(body, u) = 2 /\ Inside(body, u, i)

AtOneOf(body, i, d) == AtDefault(body, i, d) \/ AtQuery(body, i, d) \/ AtExpr(body, i, d) \/ AtUnknown(body, i, d)

\* The query read so far: the complete terms, and the attributes of the root.
QueryAt(body, mode, i, d) ==
  /\ DOMAIN d = UserFields /\ d.errorDetected = FALSE /\ d.qMode = mode
  /\ DOMAIN d.result = QueryFields /\ d.result.tokens = TermsIn(body, Done(body, i))
  /\ i = 0 => d.result = NewQuery(mode)
  /\ i >= 1 /\ body[1].name = "mws:query" =>
       \A f \in QueryFields \ {"tokens"} :
         d.result[f] = setAttributes(mode, NewQuery(mode), body[1].attrs)[f]

ReadTo(body, mode, i, d) == QueryAt(body, mode, i, d) /\ AtOneOf(body, i, d)

\* A start completes no term.
LEMMA DoneStart ==
  ASSUME NEW body, IsSound(body), NEW i \in 1..Len(body), body[i].ev = "start"
  PROVE  Done(body, i) = Done(body, i - 1)
<1>0. Len(body) \in Nat /\ i \in Starts(body) /\ i \in Int /\ i - 1 \in 0..Len(body)
  BY SoundIs DEF Starts
<1>1. Level(body, i) = Level(body, i - 1) + 1 /\ Level(body, i) \in Int /\ Level(body, i - 1) \in Int
      /\ Inside(body, i, i)
  BY <1>0, StartIs
<1>2. ASSUME NEW r \in Roots(body)
      PROVE  (r <= i /\ ~Inside(body, r, i)) <=> (r <= i - 1 /\ ~Inside(body, r, i - 1))
  <2>1. r \in Starts(body) /\ r \in Int /\ Level(body, r) \in Int
    BY StartIs DEF Roots
  <2>2. CASE r <= i - 1
    <3>1. Inside(body, r, i) <=> Inside(body, r, i - 1) /\ Level(body, i) >= Level(body, r)
      BY <2>1, <2>2, InsideStep
    <3>2. Inside(body, r, i - 1) => Level(body, i - 1) >= Level(body, r)
      <4>1. i - 1 \in r..(i - 1)
        BY <1>0, <2>1, <2>2
      <4> QED
        BY <4>1 DEF Inside
    <3>3. r <= i
      BY <1>0, <2>1, <2>2
    <3> QED
      BY <1>1, <2>1, <2>2, <3>1, <3>2, <3>3
  <2>3. CASE ~(r <= i - 1)
    <3>1. r <= i => r = i
      BY <1>0, <2>1, <2>3
    <3> QED
      BY <1>1, <2>3, <3>1
  <2> QED
    BY <2>2, <2>3
<1> QED
  BY <1>2 DEF Done

\* An end of an element that is in a term, or in no term, completes none.
LEMMA DoneEnd ==
  ASSUME NEW body, IsSound(body), NEW i \in 1..Len(body), body[i].ev = "end",
         Level(body, i) >= 3 \/ \A r \in Roots(body) : ~Inside(body, r, i - 1)
  PROVE  Done(body, i) = Done(body, i - 1)
<1>0. Len(body) \in Nat /\ i \notin Starts(body) /\ i \in Int /\ i - 1 \in 0..Len(body) /\ i \in 0..Len(body)
  BY SoundIs DEF Starts
<1>1. Level(body, i) \in Int
  BY <1>0, LevelStep
<1>2. ASSUME NEW r \in Roots(body)
      PROVE  (r <= i /\ ~Inside(body, r, i)) <=> (r <= i - 1 /\ ~Inside(body, r, i - 1))
  <2>1. r \in Starts(body) /\ r \in Int /\ Level(body, r) = 3 /\ r # i
    BY <1>0, StartIs DEF Roots
  <2>2. CASE r <= i - 1
    <3>1. Inside(body, r, i) <=> Inside(body, r, i - 1) /\ Level(body, i) >= Level(body, r)
      BY <2>1, <2>2, InsideStep
    <3>2. r <= i
      BY <1>0, <2>1, <2>2
    <3> QED
      BY <1>1, <2>1, <2>2, <3>1, <3>2
  <2>3. CASE ~(r <= i - 1)
    <3>1. ~(r <= i)
      BY <1>0, <2>1, <2>3
    <3> QED
      BY <2>3, <3>1
  <2> QED
    BY <2>2, <2>3
<1> QED
  BY <1>2 DEF Done

\* The end of a term completes it, after all others.
LEMMA DoneTerm ==
  ASSUME NEW body, IsSound(body), NEW i \in 1..Len(body), body[i].ev = "end", Level(body, i) = 2,
         NEW r \in Roots(body), Inside(body, r, i - 1)
  PROVE  /\ Done(body, i) = Done(body, i - 1) \cup {r}
         /\ \A q \in Done(body, i - 1) : q < r
<1>0. Len(body) \in Nat /\ i \notin Starts(body) /\ i \in Int /\ i - 1 \in 0..Len(body)
  BY SoundIs DEF Starts
<1>1. r \in Starts(body) /\ r \in Int /\ Level(body, r) = 3 /\ r <= i - 1
  BY StartIs DEF Roots, Inside
<1>2. ASSUME NEW q \in Roots(body), q <= i - 1
      PROVE  q <= r /\ (Inside(body, q, i - 1) => q = r) /\ ~Inside(body, q, i)
  <2>1. q \in Starts(body) /\ q \in Int /\ Level(body, q) = 3
    BY StartIs DEF Roots
  <2>2. q <= r
    BY <1>0, <1>1, <1>2, <2>1, InsideOne
  <2>3. Inside(body, q, i - 1) => r <= q
    BY <1>0, <1>1, <1>2, <2>1, InsideOne
  <2>4. Inside(body, q, i) <=> Inside(body, q, i - 1) /\ Level(body, i) >= Level(body, q)
    BY <1>2, <2>1, InsideStep
  <2> QED
    BY <1>1, <2>1, <2>2, <2>3, <2>4
<1>3. ASSUME NEW q \in Roots(body), q <= i PROVE q <= i - 1
  <2>1. q \in Starts(body) /\ q \in Int
    BY StartIs DEF Roots
  <2> QED
    BY <1>0, <1>3, <2>1
<1>4. r <= i
  BY <1>0, <1>1
<1>5. ASSUME NEW q PROVE q \in Done(body, i) <=> q \in Done(body, i - 1) \cup {r}
  <2>1. ASSUME q \in Done(body, i) PROVE q \in Done(body, i - 1) \cup {r}
    BY <1>2, <1>3, <2>1 DEF Done
  <2>2. ASSUME q \in Done(body, i - 1) PROVE q \in Done(body, i)
    <3>1. q \in Roots(body) /\ q <= i - 1 /\ q \in Starts(body)
      BY <2>2 DEF Done, Roots
    <3>2. q <= i
      BY <1>0, <3>1, StartIs
    <3> QED
      BY <1>2, <3>1, <3>2 DEF Done
  <2>3. r \in Done(body, i)
    BY <1>1, <1>2, <1>4 DEF Done
  <2> QED
    BY <2>1, <2>2, <2>3
<1>6. ASSUME NEW q \in Done(body, i - 1) PROVE q < r
  <2>1. q \in Roots(body) /\ q <= i - 1 /\ ~Inside(body, q, i - 1) /\ q \in Starts(body)
    BY <1>6 DEF Done, Roots
  <2>2. q <= r /\ q # r /\ q \in Int
    BY <1>2, <2>1, StartIs
  <2> QED
    BY <1>1, <2>2
<1> QED
  BY <1>5, <1>6

\* The sets of elements are finite.
LEMMA SetsFinite ==
  ASSUME NEW body, IsSound(body), NEW i, NEW r
  PROVE  /\ IsFiniteSet(Done(body, i)) /\ Done(body, i) \subseteq Int
         /\ IsFiniteSet(Upto(body, r, i)) /\ Upto(body, r, i) \subseteq Int
<1>1. IsFiniteSet(1..Len(body)) /\ 1..Len(body) \subseteq Int
  BY SoundIs, FS_Interval
<1>2. Starts(body) \subseteq 1..Len(body)
  BY SoundIs DEF Starts
<1>3. Done(body, i) \subseteq 1..Len(body) /\ Upto(body, r, i) \subseteq 1..Len(body)
  BY <1>2 DEF Done, Upto, Roots
<1> QED
  BY <1>1, <1>3, FS_Subset

\* The tree of a term that ends is the term.
LEMMA TreeIsTerm ==
  ASSUME NEW body, IsSound(body), NEW i \in 1..Len(body), body[i].ev = "end", Level(body, i) = 2,
         NEW r \in Roots(body), Inside(body, r, i - 1)
  PROVE  TermAt(body, r) = TreeIn(body, Upto(body, r, i - 1))
<1>0. Len(body) \in Nat /\ i \notin Starts(body) /\ i \in Int /\ i - 1 \in 0..Len(body) /\ i \in 0..Len(body)
  BY SoundIs DEF Starts
<1>1. r \in Starts(body) /\ r \in Int /\ Level(body, r) = 3 /\ r <= i - 1
  BY StartIs DEF Roots, Inside
<1>2. ASSUME NEW j \in Starts(body), r <= j PROVE j < NextAfter(body, r) <=> j <= i - 1
  <2>1. j \in Int /\ j \in 1..Len(body) /\ j # i /\ j \in 0..Len(body)
    BY <1>0, StartIs
  <2>2. j < NextAfter(body, r) <=> Inside(body, r, j)
    BY <1>1, <1>2, Within
  <2>3. ASSUME j <= i - 1 PROVE Inside(body, r, j)
    BY <1>0, <1>1, <1>2, <2>1, <2>3, InsideBefore
  <2>4. ASSUME Inside(body, r, j) PROVE j <= i - 1
    <3>1. i \in r..j => Level(body, i) >= Level(body, r)
      BY <2>4 DEF Inside
    <3> QED
      BY <1>0, <1>1, <2>1, <3>1
  <2> QED
    BY <2>2, <2>3, <2>4
<1>3. { j \in Starts(body) : r <= j /\ j < NextAfter(body, r) } = Upto(body, r, i - 1)
  BY <1>2 DEF Upto
<1> QED
  BY <1>3 DEF TermAt, TreeIn, TokenAt

\* A start keeps what is inside.
LEMMA InsideStart ==
  ASSUME NEW body, IsSound(body), NEW i \in 1..Len(body), body[i].ev = "start",
         NEW s \in Starts(body), Inside(body, s, i - 1)
  PROVE  Inside(body, s, i)
<1>0. Len(body) \in Nat /\ i \in Starts(body) /\ i \in Int /\ s \in Int /\ Level(body, s) \in Int
  BY SoundIs, StartIs DEF Starts
<1>1. Level(body, i) = Level(body, i - 1) + 1 /\ Level(body, i) \in Int /\ Level(body, i - 1) \in Int
  BY <1>0, StartIs
<1>2. s <= i - 1
  BY DEF Inside
<1>3. Level(body, i - 1) >= Level(body, s)
  <2>1. i - 1 \in s..(i - 1)
    BY <1>0, <1>2
  <2> QED
    BY <2>1 DEF Inside
<1> QED
  BY <1>0, <1>1, <1>2, <1>3, InsideStep

\* The end of another element keeps it too.
LEMMA InsideEnd ==
  ASSUME NEW body, IsSound(body), NEW i \in 1..Len(body), NEW s \in Starts(body), Inside(body, s, i - 1),
         Level(body, i) >= Level(body, s)
  PROVE  Inside(body, s, i)
<1>1. s <= i - 1
  BY DEF Inside
<1> QED
  BY <1>1, InsideStep

\* Events of a sound document outside its ends are inside the root.
LEMMA LevelPositive ==
  ASSUME NEW body, IsSound(body), NEW i \in 1..Len(body)
  PROVE  /\ i < Len(body) => Level(body, i) > 0
         /\ i = Len(body) => Level(body, i) = 0
         /\ Level(body, i) \in Int /\ Level(body, i) >= 0
<1>1. Len(body) \in Nat /\ i \in 0..Len(body)
  BY SoundIs
<1>2. Level(body, Len(body)) = 0 /\ \A k \in 1..(Len(body) - 1) : Level(body, k) > 0
  BY DEF IsSound, IsDocument
<1>3. Level(body, i) \in Int
  BY <1>1, LevelStep
<1> QED
  BY <1>1, <1>2, <1>3

\* A step that leaves the query and completes no term.
LEMMA QuerySame ==
  ASSUME NEW body, NEW mode, NEW i \in Nat, i >= 1, NEW d, NEW n,
         QueryAt(body, mode, i - 1, d), Done(body, i) = Done(body, i - 1), i - 1 >= 1,
         DOMAIN n = UserFields, n.errorDetected = d.errorDetected, n.qMode = d.qMode, n.result = d.result
  PROVE  QueryAt(body, mode, i, n)
BY DEF QueryAt

\* The root starts.
LEMMA StartRoot ==
  ASSUME NEW body, IsSound(body), NEW mode, NEW i \in 1..Len(body), body[i].ev = "start",
         NEW d, QueryAt(body, mode, i - 1, d), AtDefault(body, i - 1, d), NEW n, n = my_startElement(d, body[i])
  PROVE  ReadTo(body, mode, i, n)
<1>0. Len(body) \in Nat /\ i \in Starts(body) /\ i \in Int /\ i - 1 \in 0..Len(body)
  BY SoundIs DEF Starts
<1>1. i = 1
  <2> SUFFICES ASSUME i # 1 PROVE FALSE
    OBVIOUS
  <2>1. i - 1 \in 1..Len(body) /\ i - 1 < Len(body)
    BY <1>0
  <2>2. Level(body, i - 1) > 0
    BY <2>1, LevelPositive
  <2> QED
    BY <2>2 DEF AtDefault
<1>2. Level(body, i) = 1
  BY <1>0, <1>1, LevelStep
<1>3. Done(body, i) = Done(body, i - 1)
  BY DoneStart
<1>4. /\ DOMAIN d = UserFields /\ d.errorDetected = FALSE /\ d.qMode = mode /\ d.currentToken = 0
      /\ d.result = NewQuery(mode) /\ d.result.tokens = TermsIn(body, Done(body, i)) /\ d.state = "DEFAULT"
      /\ DOMAIN d.result = QueryFields
  BY <1>1, <1>3 DEF QueryAt, AtDefault
<1>5. CASE body[i].name = "mws:query"
  <2>1. PICK q : q = setAttributes(mode, NewQuery(mode), body[i].attrs)
    OBVIOUS
  <2>2. n = [d EXCEPT !.state = "IN_MWS_QUERY", !.result = q]
    BY <1>4, <1>5, <2>1 DEF my_startElement
  <2>3. /\ DOMAIN n = UserFields /\ n.errorDetected = FALSE /\ n.qMode = mode /\ n.currentToken = 0
        /\ n.result = q /\ n.state = "IN_MWS_QUERY"
    BY <1>4, <2>2 DEF UserFields
  <2>4. PICK attrs : attrs = body[1].attrs
    OBVIOUS
  <2>5. SetBy(q, mode, attrs, Len(attrs))
    BY <1>1, <2>1, <2>4, AttributesSet
  <2>6. DOMAIN q = QueryFields /\ q.tokens = <<>>
    BY <2>5 DEF SetBy
  <2>7. d.result.tokens = <<>>
    BY <1>4 DEF NewQuery
  <2>8. QueryAt(body, mode, i, n)
    BY <1>1, <1>4, <2>1, <2>3, <2>6, <2>7 DEF QueryAt
  <2>9. AtQuery(body, i, n)
    BY <1>1, <1>2, <1>5, <2>3 DEF AtQuery
  <2> QED
    BY <2>8, <2>9 DEF ReadTo, AtOneOf
<1>6. CASE body[i].name # "mws:query"
  <2>1. n = [d EXCEPT !.prevState = "DEFAULT", !.state = "UNKNOWN", !.unknownDepth = 1]
    BY <1>4, <1>6 DEF my_startElement, SkipElement
  <2>2. /\ DOMAIN n = UserFields /\ n.errorDetected = FALSE /\ n.qMode = mode /\ n.currentToken = 0
        /\ n.result = d.result /\ n.state = "UNKNOWN" /\ n.prevState = "DEFAULT" /\ n.unknownDepth = 1
    BY <1>4, <2>1 DEF UserFields
  <2>3. QueryAt(body, mode, i, n)
    BY <1>1, <1>4, <1>6, <2>2 DEF QueryAt
  <2>4. AtUnknown(body, i, n)
    BY <1>1, <1>2, <1>6, <2>2 DEF AtUnknown
  <2> QED
    BY <2>3, <2>4 DEF ReadTo, AtOneOf
<1> QED
  BY <1>5, <1>6

\* A child of the root starts.
LEMMA StartChild ==
  ASSUME NEW body, IsSound(body), NEW mode, NEW i \in 1..Len(body), body[i].ev = "start", i - 1 >= 1,
         NEW d, QueryAt(body, mode, i - 1, d), AtQuery(body, i - 1, d), NEW n, n = my_startElement(d, body[i])
  PROVE  ReadTo(body, mode, i, n)
<1>0. Len(body) \in Nat /\ i \in Starts(body) /\ i \in Nat /\ i >= 1
  BY SoundIs DEF Starts
<1>1. Level(body, i) = 2 /\ Inside(body, i, i)
  BY <1>0, StartIs DEF AtQuery
<1>2. Done(body, i) = Done(body, i - 1)
  BY DoneStart
<1>3. DOMAIN d = UserFields /\ d.currentToken = 0 /\ d.state = "IN_MWS_QUERY" /\ body[1].name = "mws:query"
  BY DEF QueryAt, AtQuery
<1>4. CASE body[i].name = "mws:expr"
  <2>1. n = [d EXCEPT !.state = "IN_MWS_EXPR"]
    BY <1>3, <1>4 DEF my_startElement
  <2>2. /\ DOMAIN n = UserFields /\ n.errorDetected = d.errorDetected /\ n.qMode = d.qMode
        /\ n.currentToken = 0 /\ n.result = d.result /\ n.state = "IN_MWS_EXPR"
    BY <1>3, <2>1 DEF UserFields
  <2>3. QueryAt(body, mode, i, n)
    BY <1>0, <1>2, <2>2, QuerySame
  <2>4. i \in Exprs(body)
    BY <1>0, <1>1, <1>4 DEF Exprs
  <2>5. AtExpr(body, i, n)
    BY <1>1, <1>3, <2>2, <2>4 DEF AtExpr
  <2> QED
    BY <2>3, <2>5 DEF ReadTo, AtOneOf
<1>5. CASE body[i].name # "mws:expr"
  <2>1. n = [d EXCEPT !.prevState = "IN_MWS_QUERY", !.state = "UNKNOWN", !.unknownDepth = 1]
    BY <1>3, <1>5 DEF my_startElement, SkipElement
  <2>2. /\ DOMAIN n = UserFields /\ n.errorDetected = d.errorDetected /\ n.qMode = d.qMode /\ n.currentToken = 0
        /\ n.result = d.result /\ n.state = "UNKNOWN" /\ n.prevState = "IN_MWS_QUERY" /\ n.unknownDepth = 1
    BY <1>3, <2>1 DEF UserFields
  <2>3. QueryAt(body, mode, i, n)
    BY <1>0, <1>2, <2>2, QuerySame
  <2>4. i \in Starts(body) \ Exprs(body)
    BY <1>0, <1>5 DEF Exprs
  <2>5. AtUnknown(body, i, n)
    BY <1>1, <1>3, <2>2, <2>4 DEF AtUnknown
  <2> QED
    BY <2>3, <2>5 DEF ReadTo, AtOneOf
<1> QED
  BY <1>4, <1>5

\* A token starts, or a term.
LEMMA StartToken ==
  ASSUME NEW body, IsSound(body), NEW mode, NEW i \in 1..Len(body), body[i].ev = "start", i - 1 >= 1,
         NEW d, QueryAt(body, mode, i - 1, d), AtExpr(body, i - 1, d), NEW n, n = my_startElement(d, body[i])
  PROVE  ReadTo(body, mode, i, n)
<1>0. Len(body) \in Nat /\ i \in Starts(body) /\ i \in Nat /\ i >= 1 /\ i - 1 \in 0..Len(body)
  BY SoundIs DEF Starts
<1>1. /\ Level(body, i) = Level(body, i - 1) + 1 /\ Inside(body, i, i)
      /\ Level(body, i) \in Int /\ Level(body, i - 1) \in Int
  BY <1>0, StartIs
<1>2. Done(body, i) = Done(body, i - 1)
  BY DoneStart
<1>3. /\ DOMAIN d = UserFields /\ d.currentToken = Level(body, i - 1) - 2 /\ d.state = "IN_MWS_EXPR"
      /\ body[1].name = "mws:query" /\ Level(body, i - 1) >= 2
  BY DEF QueryAt, AtExpr
<1>4. PICK e \in Exprs(body) : Inside(body, e, i - 1)
  BY DEF AtExpr
<1>5. PICK tree : tree = newChildNode(d.tree, d.currentToken, body[i].name, body[i].xref)
  OBVIOUS
<1>6. n = [d EXCEPT !.currentToken = d.currentToken + 1, !.tree = tree]
  BY <1>3, <1>5 DEF my_startElement
<1>7. /\ DOMAIN n = UserFields /\ n.errorDetected = d.errorDetected /\ n.qMode = d.qMode
      /\ n.currentToken = Level(body, i) - 2 /\ n.result = d.result /\ n.state = "IN_MWS_EXPR" /\ n.tree = tree
  BY <1>1, <1>3, <1>6 DEF UserFields
<1>8. QueryAt(body, mode, i, n)
  BY <1>0, <1>2, <1>7, QuerySame
<1>9. e \in Starts(body) /\ Level(body, e) = 2 /\ e \in Int /\ e <= i - 1
  BY <1>4, StartIs DEF Exprs, Inside
<1>10. Inside(body, e, i)
  BY <1>4, <1>9, InsideStart
<1>11. newToken(body[i].name, body[i].xref, d.currentToken + 1) = TokenAt(body, i)
  BY <1>1, <1>3 DEF TokenAt
<1>12. \E r \in Roots(body) : Inside(body, r, i) /\ n.tree = TreeIn(body, Upto(body, r, i))
  <2>1. CASE Level(body, i - 1) = 2
    <3>1. e < i /\ e <= i
      BY <1>0, <1>9
    <3>2. i < NextAfter(body, e)
      BY <1>0, <1>9, <1>10, <3>1, Within
    <3>3. i \in Roots(body)
      BY <1>0, <1>1, <1>3, <1>4, <2>1, <3>1, <3>2 DEF Roots
    <3>4. tree = Append(<<>>, TokenAt(body, i))
      BY <1>3, <1>5, <1>11, <2>1 DEF newChildNode
    <3>5. Upto(body, i, i) = {} \cup {i}
      <4>1. \A j \in Starts(body) : j \in Int
        BY StartIs
      <4>2. \A j \in Starts(body) : (i <= j /\ j <= i) <=> j = i
        BY <1>0, <4>1
      <4> QED
        BY <1>0, <4>2, Zenon DEF Upto
    <3>6. TreeIn(body, {} \cup {i}) = Append(TreeIn(body, {}), TokenAt(body, i))
      <4>1. i \in Int /\ {} \subseteq Int
        BY <1>0
      <4>2. \A j \in {} : j < i
        OBVIOUS
      <4> QED
        BY <4>1, <4>2, TreeAppend, FS_EmptySet, Zenon
    <3>7. n.tree = TreeIn(body, Upto(body, i, i))
      BY <1>7, <3>4, <3>5, <3>6, NoneIn
    <3> QED
      BY <1>1, <3>3, <3>7
  <2>2. CASE Level(body, i - 1) > 2
    <3>1. PICK r \in Roots(body) : Inside(body, r, i - 1) /\ d.tree = TreeIn(body, Upto(body, r, i - 1))
      BY <2>2 DEF AtExpr
    <3>2. r \in Starts(body) /\ r \in Int /\ r <= i - 1
      BY <3>1, StartIs DEF Roots, Inside
    <3>3. Inside(body, r, i)
      BY <3>1, <3>2, InsideStart
    <3>4. d.currentToken # 0
      BY <1>1, <1>3, <2>2
    <3>5. tree = Append(d.tree, TokenAt(body, i))
      BY <1>5, <1>11, <3>4 DEF newChildNode
    <3>6. Upto(body, r, i) = Upto(body, r, i - 1) \cup {i} /\ \A j \in Upto(body, r, i - 1) : j < i
      <4>1. \A j \in Starts(body) : j \in Int
        BY StartIs
      <4>2. \A j \in Starts(body) : (r <= j /\ j <= i) <=> ((r <= j /\ j <= i - 1) \/ j = i)
        BY <1>0, <3>2, <4>1
      <4>3. \A j \in Starts(body) : j <= i - 1 => j < i
        BY <1>0, <4>1
      <4>4. Upto(body, r, i) = Upto(body, r, i - 1) \cup {i}
        BY <1>0, <4>2, Zenon DEF Upto
      <4> QED
        BY <4>3, <4>4, Zenon DEF Upto
    <3>7. TreeIn(body, Upto(body, r, i - 1) \cup {i}) = Append(TreeIn(body, Upto(body, r, i - 1)), TokenAt(body, i))
      BY <1>0, <3>6, SetsFinite, TreeAppend
    <3> QED
      BY <1>7, <3>1, <3>3, <3>5, <3>6, <3>7
  <2> QED
    BY <1>1, <1>3, <2>1, <2>2
<1>13. AtExpr(body, i, n)
  BY <1>1, <1>3, <1>4, <1>7, <1>10, <1>12 DEF AtExpr
<1> QED
  BY <1>8, <1>13 DEF ReadTo, AtOneOf

\* An element starts in one that is skipped.
LEMMA StartSkipped ==
  ASSUME NEW body, IsSound(body), NEW mode, NEW i \in 1..Len(body), body[i].ev = "start", i - 1 >= 1,
         NEW d, QueryAt(body, mode, i - 1, d), AtUnknown(body, i - 1, d), NEW n, n = my_startElement(d, body[i])
  PROVE  ReadTo(body, mode, i, n)
<1>0. Len(body) \in Nat /\ i \in Starts(body) /\ i \in Nat /\ i >= 1
  BY SoundIs DEF Starts
<1>1. Level(body, i) = Level(body, i - 1) + 1
  BY <1>0, StartIs
<1>2. Done(body, i) = Done(body, i - 1)
  BY DoneStart
<1>3. DOMAIN d = UserFields /\ d.currentToken = 0 /\ d.state = "UNKNOWN"
      /\ d.unknownDepth \in Nat /\ d.unknownDepth >= 1
  BY DEF QueryAt, AtUnknown
<1>4. n = [d EXCEPT !.unknownDepth = d.unknownDepth + 1]
  BY <1>3 DEF my_startElement
<1>5. /\ DOMAIN n = UserFields /\ n.errorDetected = d.errorDetected /\ n.qMode = d.qMode
      /\ n.currentToken = 0 /\ n.result = d.result /\ n.state = "UNKNOWN" /\ n.prevState = d.prevState
      /\ n.unknownDepth = d.unknownDepth + 1
  BY <1>3, <1>4 DEF UserFields
<1>6. QueryAt(body, mode, i, n)
  BY <1>0, <1>2, <1>5, QuerySame
<1>7. \A u \in Starts(body) : Inside(body, u, i - 1) => Inside(body, u, i)
  BY InsideStart
<1>8. AtUnknown(body, i, n)
  BY <1>1, <1>3, <1>5, <1>7 DEF AtUnknown
<1> QED
  BY <1>6, <1>8 DEF ReadTo, AtOneOf

\* What an end tells of the levels.
LEMMA EndIs ==
  ASSUME NEW body, IsSound(body), NEW i \in 1..Len(body), body[i].ev = "end", i - 1 >= 1
  PROVE  /\ Len(body) \in Nat /\ i \in Nat /\ i >= 1 /\ i - 1 \in 0..Len(body) /\ i \notin Starts(body)
         /\ Level(body, i) = Level(body, i - 1) - 1 /\ Level(body, i) \in Int /\ Level(body, i - 1) \in Int
<1>1. Len(body) \in Nat /\ i \in Nat /\ i >= 1 /\ i - 1 \in 0..Len(body) /\ i \in 0..Len(body)
  BY SoundIs
<1>2. i \notin Starts(body)
  BY DEF Starts
<1> QED
  BY <1>1, <1>2, LevelStep

\* No term is inside where the level is that of an mws:expr or less.
LEMMA NoneInside ==
  ASSUME NEW body, IsSound(body), NEW i \in 0..Len(body), Level(body, i) < 3
  PROVE  \A r \in Roots(body) : ~Inside(body, r, i)
<1> SUFFICES ASSUME NEW r \in Roots(body), Inside(body, r, i) PROVE FALSE
  OBVIOUS
<1>1. r \in Starts(body) /\ r \in Int /\ Level(body, r) = 3 /\ r <= i
  BY StartIs DEF Roots, Inside
<1>2. i \in r..i /\ Level(body, i) \in Int
  BY <1>1, SoundIs, LevelStep
<1> QED
  BY <1>1, <1>2 DEF Inside

\* The root ends.
LEMMA EndRoot ==
  ASSUME NEW body, IsSound(body), NEW mode, NEW i \in 1..Len(body), body[i].ev = "end", i - 1 >= 1,
         NEW d, QueryAt(body, mode, i - 1, d), AtQuery(body, i - 1, d), NEW n, n = my_endElement(d)
  PROVE  ReadTo(body, mode, i, n)
<1>0. /\ Len(body) \in Nat /\ i \in Nat /\ i >= 1 /\ i - 1 \in 0..Len(body)
      /\ Level(body, i) = Level(body, i - 1) - 1
  BY EndIs
<1>1. Level(body, i - 1) = 1 /\ Level(body, i) = 0
  BY <1>0 DEF AtQuery
<1>2. Done(body, i) = Done(body, i - 1)
  BY <1>0, <1>1, NoneInside, DoneEnd
<1>3. DOMAIN d = UserFields /\ d.currentToken = 0 /\ d.state = "IN_MWS_QUERY"
  BY DEF QueryAt, AtQuery
<1>4. n = [d EXCEPT !.state = "DEFAULT"]
  BY <1>3 DEF my_endElement
<1>5. /\ DOMAIN n = UserFields /\ n.errorDetected = d.errorDetected /\ n.qMode = d.qMode
      /\ n.currentToken = 0 /\ n.result = d.result /\ n.state = "DEFAULT"
  BY <1>3, <1>4 DEF UserFields
<1>6. QueryAt(body, mode, i, n)
  BY <1>0, <1>2, <1>5, QuerySame
<1>7. AtDefault(body, i, n)
  BY <1>1, <1>5 DEF AtDefault
<1> QED
  BY <1>6, <1>7 DEF ReadTo, AtOneOf

\* An mws:expr ends.
LEMMA EndExpr ==
  ASSUME NEW body, IsSound(body), NEW mode, NEW i \in 1..Len(body), body[i].ev = "end", i - 1 >= 1,
         NEW d, QueryAt(body, mode, i - 1, d), AtExpr(body, i - 1, d), d.currentToken = 0,
         NEW n, n = my_endElement(d)
  PROVE  ReadTo(body, mode, i, n)
<1>0. /\ Len(body) \in Nat /\ i \in Nat /\ i >= 1 /\ i - 1 \in 0..Len(body)
      /\ Level(body, i) = Level(body, i - 1) - 1 /\ Level(body, i - 1) \in Int
  BY EndIs
<1>1. Level(body, i - 1) = 2 /\ Level(body, i) = 1 /\ body[1].name = "mws:query"
  BY <1>0 DEF AtExpr
<1>2. Done(body, i) = Done(body, i - 1)
  BY <1>0, <1>1, NoneInside, DoneEnd
<1>3. DOMAIN d = UserFields /\ d.currentToken = 0 /\ d.state = "IN_MWS_EXPR"
  BY DEF QueryAt, AtExpr
<1>4. n = [d EXCEPT !.state = "IN_MWS_QUERY"]
  BY <1>3 DEF my_endElement
<1>5. /\ DOMAIN n = UserFields /\ n.errorDetected = d.errorDetected /\ n.qMode = d.qMode
      /\ n.currentToken = 0 /\ n.result = d.result /\ n.state = "IN_MWS_QUERY"
  BY <1>3, <1>4 DEF UserFields
<1>6. QueryAt(body, mode, i, n)
  BY <1>0, <1>2, <1>5, QuerySame
<1>7. AtQuery(body, i, n)
  BY <1>1, <1>5 DEF AtQuery
<1> QED
  BY <1>6, <1>7 DEF ReadTo, AtOneOf

\* A token ends that is not the root of a term.
LEMMA EndToken ==
  ASSUME NEW body, IsSound(body), NEW mode, NEW i \in 1..Len(body), body[i].ev = "end", i - 1 >= 1,
         NEW d, QueryAt(body, mode, i - 1, d), AtExpr(body, i - 1, d), d.currentToken > 1,
         NEW n, n = my_endElement(d)
  PROVE  ReadTo(body, mode, i, n)
<1>0. /\ Len(body) \in Nat /\ i \in Nat /\ i >= 1 /\ i - 1 \in 0..Len(body) /\ i \notin Starts(body)
      /\ Level(body, i) = Level(body, i - 1) - 1 /\ Level(body, i - 1) \in Int /\ Level(body, i) \in Int
  BY EndIs
<1>1. /\ Level(body, i - 1) >= 4 /\ Level(body, i) >= 3 /\ body[1].name = "mws:query"
      /\ d.currentToken = Level(body, i - 1) - 2
  BY <1>0 DEF AtExpr
<1>2. Done(body, i) = Done(body, i - 1)
  BY <1>0, <1>1, DoneEnd
<1>3. DOMAIN d = UserFields /\ d.currentToken \in Int /\ d.state = "IN_MWS_EXPR" /\ d.currentToken # 0 /\ d.currentToken # 1
  BY <1>0, <1>1 DEF QueryAt, AtExpr
<1>4. n = [d EXCEPT !.currentToken = d.currentToken - 1]
  BY <1>3 DEF my_endElement
<1>5. /\ DOMAIN n = UserFields /\ n.errorDetected = d.errorDetected /\ n.qMode = d.qMode
      /\ n.currentToken = d.currentToken - 1 /\ n.result = d.result /\ n.state = "IN_MWS_EXPR" /\ n.tree = d.tree
  BY <1>3, <1>4 DEF UserFields
<1>6. QueryAt(body, mode, i, n)
  BY <1>0, <1>2, <1>5, QuerySame
<1>7. PICK e \in Exprs(body) : Inside(body, e, i - 1)
  BY DEF AtExpr
<1>8. Inside(body, e, i)
  <2>1. e \in Starts(body) /\ Level(body, e) = 2
    BY <1>7 DEF Exprs
  <2> QED
    BY <1>0, <1>1, <1>7, <2>1, InsideEnd
<1>9. PICK r \in Roots(body) : Inside(body, r, i - 1) /\ d.tree = TreeIn(body, Upto(body, r, i - 1))
  BY <1>0, <1>1 DEF AtExpr
<1>10. Inside(body, r, i)
  <2>1. r \in Starts(body) /\ Level(body, r) = 3
    BY <1>9 DEF Roots
  <2> QED
    BY <1>0, <1>1, <1>9, <2>1, InsideEnd
<1>11. Upto(body, r, i) = Upto(body, r, i - 1)
  <2>1. \A j \in Starts(body) : j \in Int /\ j # i
    BY <1>0, StartIs
  <2>2. \A j \in Starts(body) : j <= i <=> j <= i - 1
    BY <1>0, <2>1
  <2> QED
    BY <2>2, Zenon DEF Upto
<1>12. AtExpr(body, i, n)
  BY <1>0, <1>1, <1>5, <1>7, <1>8, <1>9, <1>10, <1>11 DEF AtExpr
<1> QED
  BY <1>6, <1>12 DEF ReadTo, AtOneOf

\* A term ends, and is added to the query.
LEMMA EndTerm ==
  ASSUME NEW body, IsSound(body), NEW mode, NEW i \in 1..Len(body), body[i].ev = "end", i - 1 >= 1,
         NEW d, QueryAt(body, mode, i - 1, d), AtExpr(body, i - 1, d), d.currentToken = 1,
         NEW n, n = my_endElement(d)
  PROVE  ReadTo(body, mode, i, n)
<1>0. /\ Len(body) \in Nat /\ i \in Nat /\ i >= 1 /\ i - 1 \in 0..Len(body) /\ i \notin Starts(body)
      /\ Level(body, i) = Level(body, i - 1) - 1 /\ Level(body, i - 1) \in Int /\ Level(body, i) \in Int
  BY EndIs
<1>1. /\ Level(body, i - 1) = 3 /\ Level(body, i) = 2 /\ body[1].name = "mws:query"
  BY <1>0 DEF AtExpr
<1>2. /\ DOMAIN d = UserFields /\ d.state = "IN_MWS_EXPR" /\ DOMAIN d.result = QueryFields
      /\ d.result.tokens = TermsIn(body, Done(body, i - 1)) /\ d.errorDetected = FALSE /\ d.qMode = mode
  BY DEF QueryAt, AtExpr
<1>3. PICK q : q = [d.result EXCEPT !.tokens = Append(d.result.tokens, d.tree)]
  OBVIOUS
<1>4. n = [d EXCEPT !.currentToken = 0, !.result = q]
  BY <1>2, <1>3 DEF my_endElement
<1>5. /\ DOMAIN n = UserFields /\ n.errorDetected = FALSE /\ n.qMode = mode
      /\ n.currentToken = 0 /\ n.result = q /\ n.state = "IN_MWS_EXPR"
  BY <1>2, <1>4 DEF UserFields
<1>6. /\ DOMAIN q = QueryFields /\ q.tokens = Append(d.result.tokens, d.tree)
      /\ \A f \in QueryFields \ {"tokens"} : q[f] = d.result[f]
  BY <1>2, <1>3 DEF QueryFields
<1>7. PICK e \in Exprs(body) : Inside(body, e, i - 1)
  BY DEF AtExpr
<1>8. Inside(body, e, i)
  <2>1. e \in Starts(body) /\ Level(body, e) = 2
    BY <1>7 DEF Exprs
  <2> QED
    BY <1>0, <1>1, <1>7, <2>1, InsideEnd
<1>9. PICK r \in Roots(body) : Inside(body, r, i - 1) /\ d.tree = TreeIn(body, Upto(body, r, i - 1))
  BY <1>0, <1>1 DEF AtExpr
<1>10. Done(body, i) = Done(body, i - 1) \cup {r} /\ \A x \in Done(body, i - 1) : x < r
  BY <1>1, <1>9, DoneTerm
<1>11. d.tree = TermAt(body, r)
  BY <1>1, <1>9, TreeIsTerm
<1>12. r \in Int
  BY <1>9, StartIs DEF Roots
<1>13. TermsIn(body, Done(body, i)) = Append(TermsIn(body, Done(body, i - 1)), TermAt(body, r))
  BY <1>10, <1>12, SetsFinite, TermsAppend
<1>14. QueryAt(body, mode, i, n)
  BY <1>0, <1>1, <1>2, <1>5, <1>6, <1>11, <1>13 DEF QueryAt
<1>15. AtExpr(body, i, n)
  BY <1>1, <1>5, <1>7, <1>8 DEF AtExpr
<1> QED
  BY <1>14, <1>15 DEF ReadTo, AtOneOf

\* No term is inside an element that is skipped.
LEMMA NoneSkipped ==
  ASSUME NEW body, IsSound(body), NEW i \in 0..Len(body), NEW d, AtUnknown(body, i, d)
  PROVE  \A r \in Roots(body) : ~Inside(body, r, i)
<1> SUFFICES ASSUME NEW r \in Roots(body), Inside(body, r, i) PROVE FALSE
  OBVIOUS
<1>1. r \in Starts(body) /\ body[1].name = "mws:query" /\ r <= i
  BY DEF Roots, Inside
<1>2. PICK e \in Exprs(body) : e < r /\ r < NextAfter(body, e)
  BY DEF Roots
<1>3. PICK u \in Starts(body) \ Exprs(body) : Level(body, u) = 2 /\ Inside(body, u, i)
  BY <1>1 DEF AtUnknown
<1>4. e \in Starts(body) /\ Level(body, e) = 2 /\ e \in Int /\ u \in Int /\ r \in Int /\ e <= r
  <2>1. e \in Starts(body) /\ Level(body, e) = 2
    BY <1>2 DEF Exprs
  <2>2. e \in Int /\ r \in Int /\ u \in Int
    BY <1>1, <1>3, <2>1, StartIs
  <2> QED
    BY <1>2, <2>1, <2>2
<1>5. Inside(body, e, r)
  BY <1>1, <1>2, <1>4, Within
<1>6. Inside(body, e, i)
  BY <1>1, <1>4, <1>5, InsideInside
<1>7. e <= i /\ u <= i
  BY <1>3, <1>6 DEF Inside
<1>8. e <= u
  BY <1>3, <1>4, <1>7, InsideOne
<1>9. u <= e
  BY <1>3, <1>4, <1>6, <1>7, InsideOne
<1> QED
  BY <1>2, <1>3, <1>4, <1>8, <1>9

\* An element that is skipped ends, or one in it.
LEMMA EndSkipped ==
  ASSUME NEW body, IsSound(body), NEW mode, NEW i \in 1..Len(body), body[i].ev = "end", i - 1 >= 1,
         NEW d, QueryAt(body, mode, i - 1, d), AtUnknown(body, i - 1, d), NEW n, n = my_endElement(d)
  PROVE  ReadTo(body, mode, i, n)
<1>0. /\ Len(body) \in Nat /\ i \in Nat /\ i >= 1 /\ i - 1 \in 0..Len(body) /\ i \notin Starts(body)
      /\ Level(body, i) = Level(body, i - 1) - 1 /\ Level(body, i - 1) \in Int /\ Level(body, i) \in Int
  BY EndIs
<1>1. Done(body, i) = Done(body, i - 1)
  BY <1>0, NoneSkipped, DoneEnd
<1>2. DOMAIN d = UserFields /\ d.currentToken = 0 /\ d.state = "UNKNOWN"
      /\ d.unknownDepth \in Nat /\ d.unknownDepth >= 1
  BY DEF QueryAt, AtUnknown
<1>3. CASE d.unknownDepth = 1
  <2>1. n = [d EXCEPT !.unknownDepth = d.unknownDepth - 1, !.state = d.prevState]
    BY <1>2, <1>3 DEF my_endElement
  <2>2. /\ DOMAIN n = UserFields /\ n.errorDetected = d.errorDetected /\ n.qMode = d.qMode
        /\ n.currentToken = 0 /\ n.result = d.result /\ n.state = d.prevState
    BY <1>2, <2>1 DEF UserFields
  <2>3. QueryAt(body, mode, i, n)
    BY <1>0, <1>1, <2>2, QuerySame
  <2>4. AtDefault(body, i, n) \/ AtQuery(body, i, n)
    BY <1>0, <1>3, <2>2 DEF AtUnknown, AtDefault, AtQuery
  <2> QED
    BY <2>3, <2>4 DEF ReadTo, AtOneOf
<1>4. CASE d.unknownDepth # 1
  <2>1. n = [d EXCEPT !.unknownDepth = d.unknownDepth - 1]
    BY <1>2, <1>4 DEF my_endElement, UserFields
  <2>2. /\ DOMAIN n = UserFields /\ n.errorDetected = d.errorDetected /\ n.qMode = d.qMode
        /\ n.currentToken = 0 /\ n.result = d.result /\ n.state = "UNKNOWN" /\ n.prevState = d.prevState
        /\ n.unknownDepth = d.unknownDepth - 1 /\ n.unknownDepth \in Nat /\ n.unknownDepth >= 1
    BY <1>2, <1>4, <2>1 DEF UserFields
  <2>3. QueryAt(body, mode, i, n)
    BY <1>0, <1>1, <2>2, QuerySame
  <2>4. \A u \in Starts(body) : Level(body, u) = 2 /\ Inside(body, u, i - 1) /\ Level(body, i) >= 2 => Inside(body, u, i)
    BY InsideEnd
  <2>5. CASE d.prevState = "DEFAULT"
    <3>1. Level(body, i - 1) = d.unknownDepth /\ body[1].name # "mws:query"
      BY <2>5 DEF AtUnknown
    <3>2. Level(body, i) = n.unknownDepth
      BY <1>0, <2>2, <3>1
    <3>3. AtUnknown(body, i, n)
      BY <2>2, <2>5, <3>1, <3>2 DEF AtUnknown
    <3> QED
      BY <2>3, <3>3, Zenon DEF ReadTo, AtOneOf
  <2>6. CASE d.prevState = "IN_MWS_QUERY"
    <3>1. Level(body, i - 1) = d.unknownDepth + 1 /\ body[1].name = "mws:query"
      BY <2>6 DEF AtUnknown
    <3>2. PICK u \in Starts(body) \ Exprs(body) : Level(body, u) = 2 /\ Inside(body, u, i - 1)
      BY <2>6 DEF AtUnknown
    <3>3. Level(body, i) = n.unknownDepth + 1 /\ Level(body, i) >= 2
      BY <1>0, <1>2, <2>2, <3>1
    <3>4. Inside(body, u, i)
      BY <2>4, <3>2, <3>3
    <3>5. \E v \in Starts(body) \ Exprs(body) : Level(body, v) = 2 /\ Inside(body, v, i)
      BY <3>2, <3>4
    <3>6. AtUnknown(body, i, n)
      BY <2>2, <2>6, <3>1, <3>3, <3>5 DEF AtUnknown
    <3> QED
      BY <2>3, <3>6, Zenon DEF ReadTo, AtOneOf
  <2>7. d.prevState = "DEFAULT" \/ d.prevState = "IN_MWS_QUERY"
    BY DEF AtUnknown
  <2> QED
    BY <2>5, <2>6, <2>7
<1> QED
  BY <1>3, <1>4

\* One event more of a sound document.
LEMMA ReadOne ==
  ASSUME NEW body, IsSound(body), NEW mode, NEW i \in 1..Len(body),
         NEW d, ReadTo(body, mode, i - 1, d), NEW n, n = Handle(d, body[i])
  PROVE  ReadTo(body, mode, i, n)
<1>0. Len(body) \in Nat /\ i \in Nat /\ i >= 1
  BY SoundIs
<1>1. QueryAt(body, mode, i - 1, d)
      /\ (AtDefault(body, i - 1, d) \/ AtQuery(body, i - 1, d) \/ AtExpr(body, i - 1, d) \/ AtUnknown(body, i - 1, d))
  BY DEF ReadTo, AtOneOf
<1>2. ~AtDefault(body, i - 1, d) => i - 1 >= 1
  <2> SUFFICES ASSUME i = 1, ~AtDefault(body, 0, d) PROVE FALSE
    BY <1>0
  <2>1. Level(body, 0) = 0
    BY LevelStep
  <2> QED
    BY <1>1, <2>1 DEF AtQuery, AtExpr, AtUnknown
<1>3. CASE body[i].ev = "start"
  <2>1. n = my_startElement(d, body[i])
    BY <1>3 DEF Handle
  <2> QED
    BY <1>1, <1>2, <1>3, <2>1, StartRoot, StartChild, StartToken, StartSkipped
<1>4. CASE body[i].ev = "end"
  <2>1. n = my_endElement(d)
    BY <1>4 DEF Handle
  <2>2. ~AtDefault(body, i - 1, d)
    <3>1. Level(body, i) >= 0 /\ Level(body, i) \in Int
      BY LevelPositive
    <3>2. Level(body, i) = Level(body, i - 1) - 1
      BY <1>4, LevelStep
    <3> QED
      BY <3>1, <3>2 DEF AtDefault
  <2>3. AtExpr(body, i - 1, d) => d.currentToken = 0 \/ d.currentToken = 1 \/ d.currentToken > 1
    <3>1. i - 1 \in 0..Len(body)
      BY <1>0
    <3>2. Level(body, i - 1) \in Int
      BY <3>1, LevelStep
    <3> QED
      BY <3>2 DEF AtExpr
  <2>4. i - 1 >= 1
    BY <1>2, <2>2
  <2>5. CASE AtQuery(body, i - 1, d)
    BY <1>1, <1>4, <2>1, <2>4, <2>5, EndRoot
  <2>6. CASE AtUnknown(body, i - 1, d)
    BY <1>1, <1>4, <2>1, <2>4, <2>6, EndSkipped
  <2>7. CASE AtExpr(body, i - 1, d)
    BY <1>1, <1>4, <2>1, <2>3, <2>4, <2>7, EndExpr, EndToken, EndTerm
  <2> QED
    BY <1>1, <2>2, <2>5, <2>6, <2>7
<1> QED
  BY <1>3, <1>4, SoundIs

\* The terms and the attributes of a query, as readMwsQuery finds them in a document
\* without errors.
LEMMA SoundRead ==
  ASSUME NEW body, IsSound(body), NEW mode, NEW q, q = readMwsQuery(body, mode)
  PROVE  /\ DOMAIN q = QueryFields /\ q.tokens = TermsOf(body)
         /\ body[1].name = "mws:query" =>
              \A f \in QueryFields \ {"tokens"} :
                q[f] = setAttributes(mode, NewQuery(mode), body[1].attrs)[f]
<1>0. Len(body) \in Nat /\ Len(body) > 0 /\ body # <<>>
  BY SoundIs
<1>1. PICK f : /\ readMwsQuery(body, mode) = my_endDocument(f[Len(body)])
               /\ f[0] = NewUserData(mode)
               /\ \A i \in 1..Len(body) : f[i] = Handle(f[i-1], body[i])
  BY <1>0, ReadThrough
<1> DEFINE P == { k \in Nat : k <= Len(body) => ReadTo(body, mode, k, f[k]) }
<1>2. 0 \in P
  <2>1. PICK d : d = NewUserData(mode)
    OBVIOUS
  <2>2. PICK nq : nq = NewQuery(mode)
    OBVIOUS
  <2>3. DOMAIN nq = QueryFields /\ nq.tokens = <<>>
    BY <2>2 DEF NewQuery, QueryFields
  <2>4. /\ DOMAIN d = UserFields /\ d.qMode = mode /\ d.errorDetected = FALSE /\ d.result = nq
        /\ d.state = "DEFAULT" /\ d.currentToken = 0
    BY <2>1, <2>2 DEF NewUserData, UserFields
  <2>5. Done(body, 0) = {}
    <3>1. \A r \in Roots(body) : r \in 1..Len(body)
      BY StartIs DEF Roots
    <3>2. \A r \in Roots(body) : ~(r <= 0)
      BY <1>0, <3>1
    <3> QED
      BY <3>2 DEF Done
  <2>6. QueryAt(body, mode, 0, d)
    <3>1. TermsIn(body, Done(body, 0)) = <<>>
      BY <2>5, NoneIn, Zenon
    <3>2. d.result.tokens = TermsIn(body, Done(body, 0)) /\ DOMAIN d.result = QueryFields
      BY <2>3, <2>4, <3>1, Zenon
    <3>3. ~(0 >= 1)
      OBVIOUS
    <3> QED
      BY <2>2, <2>4, <3>2, <3>3, Zenon DEF QueryAt
  <2>7. AtDefault(body, 0, d)
    BY <2>4, LevelStep DEF AtDefault
  <2> QED
    BY <1>1, <2>1, <2>6, <2>7 DEF ReadTo, AtOneOf
<1>3. ASSUME NEW k \in Nat, k \in P PROVE k + 1 \in P
  <2> SUFFICES ASSUME k + 1 <= Len(body) PROVE ReadTo(body, mode, k + 1, f[k + 1])
    OBVIOUS
  <2>1. PICK i : i = k + 1
    OBVIOUS
  <2>2. i \in 1..Len(body) /\ i - 1 = k /\ k <= Len(body)
    BY <1>0, <2>1
  <2>3. ReadTo(body, mode, i - 1, f[i - 1]) /\ f[i] = Handle(f[i - 1], body[i])
    BY <1>1, <1>3, <2>2
  <2> QED
    BY <2>1, <2>2, <2>3, ReadOne
<1>4. Nat \subseteq P
  <2> HIDE DEF P
  <2> QED
    BY <1>2, <1>3, SetInduction
<1>5. PICK d : d = f[Len(body)]
  OBVIOUS
<1>6. ReadTo(body, mode, Len(body), d)
  BY <1>0, <1>4, <1>5
<1>7. QueryAt(body, mode, Len(body), d)
  BY <1>6 DEF ReadTo
<1>8. q = d.result
  BY <1>1, <1>5, <1>7 DEF my_endDocument, QueryAt
<1>9. Done(body, Len(body)) = Roots(body)
  <2>1. Len(body) \in 1..Len(body) /\ Len(body) \in 0..Len(body)
    BY <1>0
  <2>2. Level(body, Len(body)) = 0
    BY <2>1, LevelPositive
  <2>3. \A r \in Roots(body) : ~Inside(body, r, Len(body))
    BY <2>1, <2>2, NoneInside
  <2>4. \A r \in Roots(body) : r <= Len(body)
    BY <1>0, StartIs DEF Roots
  <2> QED
    BY <2>3, <2>4 DEF Done
<1>10. TermsIn(body, Roots(body)) = TermsOf(body)
  BY DEF TermsIn, TermsOf
<1> QED
  BY <1>0, <1>7, <1>8, <1>9, <1>10 DEF QueryAt

\* After an error, there is no query.
ErrorAt(body, i, d) ==
  /\ DOMAIN d = UserFields /\ d.state \in {"DEFAULT", "IN_MWS_QUERY", "IN_MWS_EXPR", "UNKNOWN"}
  /\ d.prevState \in {"DEFAULT", "IN_MWS_QUERY"} /\ d.currentToken \in Nat
  /\ (\E k \in 1..i : body[k].ev = "error") => d.errorDetected = TRUE

\* Each handler keeps the types of the user data, and the error.
LEMMA ErrorStep ==
  ASSUME NEW body, NEW i \in Nat, i >= 1, body[i].ev \in {"start", "end", "error"},
         NEW d, ErrorAt(body, i - 1, d), NEW n, n = Handle(d, body[i])
  PROVE  ErrorAt(body, i, n)
<1>1. /\ DOMAIN d = UserFields /\ d.state \in {"DEFAULT", "IN_MWS_QUERY", "IN_MWS_EXPR", "UNKNOWN"}
      /\ d.prevState \in {"DEFAULT", "IN_MWS_QUERY"} /\ d.currentToken \in Nat
      /\ (\E k \in 1..(i - 1) : body[k].ev = "error") => d.errorDetected = TRUE
  BY DEF ErrorAt
<1>2. (\E k \in 1..i : body[k].ev = "error") =>
        (\E k \in 1..(i - 1) : body[k].ev = "error") \/ body[i].ev = "error"
  <2>1. \A k \in 1..i : k \in 1..(i - 1) \/ k = i
    OBVIOUS
  <2> QED
    BY <2>1
<1>3. CASE body[i].ev = "start"
  <2>1. n = my_startElement(d, body[i]) /\ body[i].ev # "error"
    BY <1>3 DEF Handle
  <2>2. CASE d.state = "DEFAULT" /\ body[i].name = "mws:query"
    <3>1. n = [d EXCEPT !.state = "IN_MWS_QUERY", !.result = setAttributes(d.qMode, d.result, body[i].attrs)]
      BY <2>1, <2>2 DEF my_startElement
    <3> QED
      BY <1>1, <1>2, <2>1, <3>1 DEF ErrorAt, UserFields
  <2>3. CASE d.state = "IN_MWS_QUERY" /\ body[i].name = "mws:expr"
    <3>1. n = [d EXCEPT !.state = "IN_MWS_EXPR"]
      BY <2>1, <2>3 DEF my_startElement
    <3> QED
      BY <1>1, <1>2, <2>1, <3>1 DEF ErrorAt, UserFields
  <2>4. CASE d.state = "IN_MWS_EXPR"
    <3>1. n = [d EXCEPT !.currentToken = d.currentToken + 1,
                        !.tree = newChildNode(d.tree, d.currentToken, body[i].name, body[i].xref)]
      BY <2>1, <2>4 DEF my_startElement
    <3>2. DOMAIN n = UserFields /\ n.state = d.state /\ n.prevState = d.prevState /\ n.errorDetected = d.errorDetected
          /\ n.currentToken = d.currentToken + 1
      BY <1>1, <3>1 DEF UserFields
    <3> QED
      BY <1>1, <1>2, <2>1, <3>2 DEF ErrorAt
  <2>5. CASE d.state = "UNKNOWN"
    <3>1. n = [d EXCEPT !.unknownDepth = d.unknownDepth + 1]
      BY <2>1, <2>5 DEF my_startElement
    <3> QED
      BY <1>1, <1>2, <2>1, <3>1 DEF ErrorAt, UserFields
  <2>6. CASE \/ d.state = "DEFAULT" /\ body[i].name # "mws:query"
             \/ d.state = "IN_MWS_QUERY" /\ body[i].name # "mws:expr"
    <3>1. n = [d EXCEPT !.prevState = d.state, !.state = "UNKNOWN", !.unknownDepth = 1]
      BY <2>1, <2>6 DEF my_startElement, SkipElement
    <3> QED
      BY <1>1, <1>2, <2>1, <2>6, <3>1 DEF ErrorAt, UserFields
  <2> QED
    BY <1>1, <2>2, <2>3, <2>4, <2>5, <2>6
<1>4. CASE body[i].ev = "end"
  <2>1. n = my_endElement(d) /\ body[i].ev # "error"
    BY <1>4 DEF Handle
  <2>2. CASE d.state \in {"DEFAULT", "IN_MWS_QUERY"}
    <3>1. n = [d EXCEPT !.state = "DEFAULT"]
      BY <2>1, <2>2 DEF my_endElement
    <3> QED
      BY <1>1, <1>2, <2>1, <3>1 DEF ErrorAt, UserFields
  <2>3. CASE d.state = "IN_MWS_EXPR" /\ d.currentToken = 0
    <3>1. n = [d EXCEPT !.state = "IN_MWS_QUERY"]
      BY <2>1, <2>3 DEF my_endElement
    <3> QED
      BY <1>1, <1>2, <2>1, <3>1 DEF ErrorAt, UserFields
  <2>4. CASE d.state = "IN_MWS_EXPR" /\ d.currentToken = 1
    <3>1. PICK q : n = [d EXCEPT !.currentToken = 0, !.result = q]
      <4>1. n = [d EXCEPT !.currentToken = 0, !.result = [d.result EXCEPT !.tokens = Append(d.result.tokens, d.tree)]]
        BY <2>1, <2>4 DEF my_endElement
      <4> QED
        BY <4>1
    <3> QED
      BY <1>1, <1>2, <2>1, <3>1 DEF ErrorAt, UserFields
  <2>5. CASE d.state = "IN_MWS_EXPR" /\ d.currentToken > 1
    <3>1. n = [d EXCEPT !.currentToken = d.currentToken - 1]
      BY <1>1, <2>1, <2>5 DEF my_endElement
    <3>2. DOMAIN n = UserFields /\ n.state = d.state /\ n.prevState = d.prevState /\ n.errorDetected = d.errorDetected
          /\ n.currentToken = d.currentToken - 1
      BY <1>1, <3>1 DEF UserFields
    <3> QED
      BY <1>1, <1>2, <2>1, <2>5, <3>2 DEF ErrorAt
  <2>6. CASE d.state = "UNKNOWN"
    <3>1. PICK s \in {d.state, d.prevState} : n = [d EXCEPT !.unknownDepth = d.unknownDepth - 1, !.state = s]
      <4>1. n = [d EXCEPT !.unknownDepth = d.unknownDepth - 1,
                          !.state = IF d.unknownDepth = 1 THEN d.prevState ELSE d.state]
        BY <2>1, <2>6 DEF my_endElement
      <4> QED
        BY <4>1
    <3> QED
      BY <1>1, <1>2, <2>1, <3>1 DEF ErrorAt, UserFields
  <2> QED
    BY <1>1, <2>2, <2>3, <2>4, <2>5, <2>6
<1>5. CASE body[i].ev = "error"
  <2>1. n = [d EXCEPT !.errorDetected = TRUE, !.currentToken = 0, !.tree = <<>>]
    BY <1>5 DEF Handle, my_error
  <2> QED
    BY <1>1, <2>1 DEF ErrorAt, UserFields
<1> QED
  BY <1>3, <1>4, <1>5

\* A document with an error, or an empty one, is no query.
LEMMA ErrorRead ==
  ASSUME NEW body, IsDocument(body), HasError(body), NEW mode
  PROVE  readMwsQuery(body, mode) = NoQuery
<1>1. CASE body = <<>>
  BY <1>1 DEF readMwsQuery
<1>2. CASE body # <<>>
  <2>1. PICK T : body \in Seq(T)
    BY DEF IsDocument
  <2>2. Len(body) \in Nat /\ DOMAIN body = 1..Len(body)
    BY <2>1
  <2>3. PICK f : /\ readMwsQuery(body, mode) = my_endDocument(f[Len(body)])
                 /\ f[0] = NewUserData(mode)
                 /\ \A i \in 1..Len(body) : f[i] = Handle(f[i-1], body[i])
    BY <1>2, <2>2, ReadThrough
  <2> DEFINE P == { k \in Nat : k <= Len(body) => ErrorAt(body, k, f[k]) }
  <2>4. 0 \in P
    <3>1. PICK d : d = NewUserData(mode)
      OBVIOUS
    <3>2. DOMAIN d = UserFields /\ d.state = "DEFAULT" /\ d.prevState = "DEFAULT" /\ d.currentToken = 0
      BY <3>1 DEF NewUserData, UserFields
    <3>3. ErrorAt(body, 0, d)
      BY <3>2 DEF ErrorAt
    <3> QED
      BY <2>3, <3>1, <3>3
  <2>5. ASSUME NEW k \in Nat, k \in P PROVE k + 1 \in P
    <3> SUFFICES ASSUME k + 1 <= Len(body) PROVE ErrorAt(body, k + 1, f[k + 1])
      OBVIOUS
    <3>1. PICK i : i = k + 1
      OBVIOUS
    <3>2. i \in 1..Len(body) /\ i - 1 = k /\ k <= Len(body) /\ i \in Nat /\ i >= 1
      BY <2>2, <3>1
    <3>3. ErrorAt(body, i - 1, f[i - 1]) /\ f[i] = Handle(f[i - 1], body[i])
      BY <2>3, <2>5, <3>2
    <3>4. body[i].ev \in {"start", "end", "error"}
      BY <2>2, <3>2 DEF IsDocument
    <3> QED
      BY <3>1, <3>2, <3>3, <3>4, ErrorStep
  <2>6. Nat \subseteq P
    <3> HIDE DEF P
    <3> QED
      BY <2>4, <2>5, SetInduction
  <2>7. ErrorAt(body, Len(body), f[Len(body)])
    BY <2>2, <2>6
  <2>8. \E k \in 1..Len(body) : body[k].ev = "error"
    BY <1>2, <2>2 DEF HasError
  <2>9. f[Len(body)].errorDetected = TRUE
    BY <2>7, <2>8 DEF ErrorAt
  <2> QED
    BY <2>3, <2>9 DEF my_endDocument
<1> QED
  BY <1>1, <1>2

-----------------------------------------------------------------------------
(***************************************************************************)
(* The answer.                                                             *)
(***************************************************************************)
ModeOf(h) == IF h = "schema" THEN "QUERY_SCHEMA" ELSE "QUERY_MWS"

\* The formatter for an output.
FormatterFor(h, output) ==
  IF output = "mws-ids" THEN "MWS_IDS"
  ELSE IF output = "xml" THEN (IF h = "schema" THEN "SCHEMA_XML" ELSE "MWS_XML")
       ELSE (IF h = "schema" THEN "SCHEMA_JSON" ELSE "MWS_JSON")

\* The body of a request is read by readMwsQuery.
LEMMA ReadIs ==
  ASSUME handler \in Handlers, NEW c \in Conns, NEW con, con.req \in Requests[handler][c]
  PROVE  Read(con) = readMwsQuery(con.req.body, ModeOf(handler)) /\ IsDocument(con.req.body)
<1>1. IsDocument(con.req.body)
  BY DaemonAssumption
<1>2. PICK body : body = con.req.body
  OBVIOUS
<1>3. CASE body = <<>>
  BY <1>1, <1>2, <1>3 DEF Read, readMwsQuery
<1>4. CASE body # <<>>
  <2> DEFINE B == { req.body : req \in UNION { Requests[handler][d] : d \in Conns } }
  <2>1. body \in B
    BY <1>2
  <2>2. QueryOf[handler] = [b \in B |-> readMwsQuery(b, IF handler = "schema" THEN "QUERY_SCHEMA" ELSE "QUERY_MWS")]
    BY DEF QueryOf
  <2> HIDE DEF B
  <2>3. QueryOf[handler][body] = readMwsQuery(body, ModeOf(handler))
    BY <2>1, <2>2 DEF ModeOf
  <2> QED
    BY <1>1, <1>2, <1>4, <2>3 DEF Read
<1> QED
  BY <1>3, <1>4

\* What a sound body with terms is read as: its terms, the page and the format it
\* asks for.
LEMMA QueryIs ==
  ASSUME NEW body, IsSound(body), TermsOf(body) # <<>>,
         NEW q, q = readMwsQuery(body, ModeOf(handler))
  PROVE  /\ q.tokens = TermsOf(body)
         /\ q.attrResultLimitMin = AttributeOf(body, "limitmin", 0) % SIZE_MOD
         /\ q.attrResultMaxSize = AttributeOf(body, "answsize", DEFAULT_QUERY_RESULT_SIZE) % SIZE_MOD
         /\ q.responseFormatter = FormatterFor(handler, OutputOf(body))
         /\ OutputOf(body) = "mws-ids" => q.includeHits = FALSE
         /\ OutputOf(body) # "mws-ids" => q.includeHits = TRUE
         /\ OutputOf(body) \in Chosen
<1>1. PICK mode : mode = ModeOf(handler)
  OBVIOUS
<1>2. body[1].name = "mws:query"
  <2> SUFFICES ASSUME body[1].name # "mws:query" PROVE FALSE
    OBVIOUS
  <2>1. Roots(body) = {}
    BY DEF Roots
  <2>2. TermsOf(body) = TermsIn(body, {})
    BY <2>1 DEF TermsOf, TermsIn
  <2> QED
    BY <2>2, NoneIn
<1>3. PICK attrs : attrs = body[1].attrs
  OBVIOUS
<1>4. PICK a : a = setAttributes(mode, NewQuery(mode), attrs)
  OBVIOUS
<1>5. Len(attrs) \in Nat /\ SetBy(a, mode, attrs, Len(attrs))
  BY <1>3, <1>4, AttributesSet
<1>6. q.tokens = TermsOf(body) /\ \A f \in QueryFields \ {"tokens"} : q[f] = a[f]
  BY <1>1, <1>2, <1>3, <1>4, SoundRead
<1>7. q.attrResultLimitMin = a.attrResultLimitMin /\ q.attrResultMaxSize = a.attrResultMaxSize
      /\ q.responseFormatter = a.responseFormatter /\ q.includeHits = a.includeHits
  BY <1>6 DEF QueryFields
<1>8. \A i, j \in 1..Len(attrs) : attrs[i].key = attrs[j].key => i = j
  <2>1. attrs \in Seq(ToSet(attrs)) /\ \A i, j \in DOMAIN attrs : attrs[i].key = attrs[j].key => i = j
    BY <1>3 DEF IsSound, IsDocument
  <2>2. PICK T : attrs \in Seq(T)
    BY <2>1
  <2> QED
    BY <2>1, <2>2
<1>9. a.attrResultLimitMin = AttributeOf(body, "limitmin", 0) % SIZE_MOD
  <2>1. PICK v : v = AttributeOf(body, "limitmin", 0)
    OBVIOUS
  <2>2. \/ (\A i \in 1..Len(attrs) : attrs[i].key # "limitmin") /\ v = 0
        \/ \E i \in 1..Len(attrs) : attrs[i].key = "limitmin" /\ v = attrs[i].value
    BY <1>3, <2>1, AttributeIs
  <2>3. 0 % SIZE_MOD = 0
    BY QueryAssumption
  <2> QED
    BY <1>5, <2>1, <2>2, <2>3 DEF SetBy, SetTo
<1>10. a.attrResultMaxSize = AttributeOf(body, "answsize", DEFAULT_QUERY_RESULT_SIZE) % SIZE_MOD
  <2>1. PICK v : v = AttributeOf(body, "answsize", DEFAULT_QUERY_RESULT_SIZE)
    OBVIOUS
  <2>2. \/ (\A i \in 1..Len(attrs) : attrs[i].key # "answsize") /\ v = DEFAULT_QUERY_RESULT_SIZE
        \/ \E i \in 1..Len(attrs) : attrs[i].key = "answsize" /\ v = attrs[i].value
    BY <1>3, <2>1, AttributeIs
  <2>3. DEFAULT_QUERY_RESULT_SIZE % SIZE_MOD = DEFAULT_QUERY_RESULT_SIZE
    BY QueryAssumption
  <2> QED
    BY <1>5, <2>1, <2>2, <2>3 DEF SetBy, SetTo
<1>11. /\ a.responseFormatter = FormatterFor(handler, OutputOf(body)) /\ OutputOf(body) \in Chosen
       /\ OutputOf(body) = "mws-ids" => a.includeHits = FALSE
       /\ OutputOf(body) # "mws-ids" => a.includeHits = TRUE
  <2>1. PICK v : v = AttributeOf(body, "output", "none")
    OBVIOUS
  <2>2. \/ (\A i \in 1..Len(attrs) : attrs[i].key # "output") /\ v = "none"
        \/ \E i \in 1..Len(attrs) : attrs[i].key = "output" /\ v = attrs[i].value
    BY <1>3, <2>1, AttributeIs
  <2>3. CASE v \in Chosen
    <3>1. OutputOf(body) = v
      BY <2>1, <2>3 DEF OutputOf, Chosen
    <3>2. PICK i \in 1..Len(attrs) : attrs[i].key = "output" /\ v = attrs[i].value
      BY <2>2, <2>3 DEF Chosen
    <3>3. SetTo(a, mode, attrs[i])
      BY <1>5 DEF SetBy
    <3>4. Chooses(mode, v, a.responseFormatter)
          /\ (v = "mws-ids" => a.includeHits = FALSE) /\ (v # "mws-ids" => a.includeHits = TRUE)
      BY <2>3, <3>2, <3>3, Zenon DEF SetTo
    <3>5. mode = "QUERY_SCHEMA" <=> handler = "schema"
      BY <1>1 DEF ModeOf
    <3>6. a.responseFormatter = FormatterFor(handler, v)
      BY <2>3, <3>4, <3>5 DEF Chooses, FormatterFor, Chosen
    <3> QED
      BY <2>3, <3>1, <3>4, <3>6, Zenon
  <2>4. CASE v \notin Chosen
    <3>1. OutputOf(body) = IF handler = "schema" THEN "json" ELSE "xml"
      BY <2>1, <2>4 DEF OutputOf, Chosen
    <3>2. \A k \in 1..Len(attrs) : ~(attrs[k].key = "output" /\ attrs[k].value \in Chosen)
      BY <1>8, <2>2, <2>4, Zenon
    <3>3. a.responseFormatter = DefaultFormatter(mode) /\ a.includeHits = TRUE
      BY <1>5, <3>2, Zenon DEF SetBy
    <3>4. mode = "QUERY_SCHEMA" <=> handler = "schema"
      BY <1>1 DEF ModeOf
    <3>5. a.responseFormatter = FormatterFor(handler, OutputOf(body)) /\ OutputOf(body) \in Chosen
          /\ OutputOf(body) # "mws-ids"
      BY <3>1, <3>3, <3>4 DEF DefaultFormatter, FormatterFor, Chosen
    <3> QED
      BY <3>3, <3>5, Zenon
  <2> QED
    BY <2>3, <2>4
<1> QED
  BY <1>6, <1>7, <1>9, <1>10, <1>11, Zenon

\* The answer of mwsd depends on what is asked for only.
LEMMA FoundIs ==
  ASSUME NEW body, IsSound(body), TermsOf(body) # <<>>,
         NEW q, q = readMwsQuery(body, ModeOf(handler))
  PROVE  handleIndexQuery(q) = FoundFor(body)
<1> DEFINE r == [tokens |-> TermsOf(body), includeHits |-> OutputOf(body) # "mws-ids",
                 attrResultLimitMin |-> AttributeOf(body, "limitmin", 0) % SIZE_MOD,
                 attrResultMaxSize |-> AttributeOf(body, "answsize", DEFAULT_QUERY_RESULT_SIZE) % SIZE_MOD]
<1>1. /\ r.tokens = TermsOf(body)
      /\ r.attrResultLimitMin = AttributeOf(body, "limitmin", 0) % SIZE_MOD
      /\ r.attrResultMaxSize = AttributeOf(body, "answsize", DEFAULT_QUERY_RESULT_SIZE) % SIZE_MOD
      /\ r.includeHits = (OutputOf(body) # "mws-ids")
  OBVIOUS
<1>2. FoundFor(body) = handleIndexQuery(r)
  BY Zenon DEF FoundFor
<1> HIDE DEF r
<1>3. q.tokens = r.tokens /\ q.attrResultLimitMin = r.attrResultLimitMin
      /\ q.attrResultMaxSize = r.attrResultMaxSize
  BY <1>1, QueryIs
<1>4. q.includeHits = r.includeHits
  <2>1. /\ OutputOf(body) = "mws-ids" => q.includeHits = FALSE
        /\ OutputOf(body) # "mws-ids" => q.includeHits = TRUE
    BY QueryIs
  <2> QED
    BY <1>1, <2>1, Zenon
<1>5. handleIndexQuery(q) = handleIndexQuery(r)
  BY <1>3, <1>4, Zenon DEF handleIndexQuery
<1> QED
  BY <1>2, <1>5

\* The answers of mwsd to a query with terms.
LEMMA AnswerIs ==
  ASSUME handler \in Handlers, NEW c \in Conns, NEW con, con.req \in Requests[handler][c],
         con.req.body # <<>>, NEW q, q = Read(con), HasTerms(q), handler # "schema"
  PROVE  AnswersTo[handler][q] = {handleIndexQuery(q)}
<1> DEFINE B == { req.body : req \in UNION { Requests[handler][d] : d \in Conns } }
           Q == { x \in Range(QueryOf[handler]) : IF x = NoQuery THEN FALSE ELSE x.tokens # <<>> }
<1>1. con.req.body \in B
  OBVIOUS
<1>2. DOMAIN QueryOf[handler] = B
  BY DEF QueryOf
<1>3. q = QueryOf[handler][con.req.body]
  BY DEF Read
<1>4. q \in Range(QueryOf[handler])
  <2> HIDE DEF B
  <2> QED
    BY <1>1, <1>2, <1>3 DEF Range
<1>5. q \in Q
  BY <1>4 DEF HasTerms
<1>6. AnswersTo[handler] = [query \in Q |-> IF handler = "schema" THEN handleSchemaQuery(query)
                                                                ELSE {handleIndexQuery(query)}]
  BY Zenon DEF AnswersTo
<1> HIDE DEF Q
<1> QED
  BY <1>5, <1>6

\* A connection that is in order has the reply it should have.
LEMMA ReplyFollows ==
  ASSUME ConnInv
  PROVE  ReplyIsAnswer
<1> SUFFICES ASSUME NEW c \in Conns, conns[c].pc = "closed", conns[c].reply # NoConn, conns[c].req.method = "POST"
             PROVE  LET con    == conns[c]
                        body   == con.req.body
                        bad    == HasError(body) \/ TermsOf(body) = <<>>
                        output == OutputOf(body)
                    IN  CASE con.reply.code = 400 -> bad \/ con.faulty
                          [] con.reply.code = 500 -> con.faulty
                          [] OTHER ->
                               \/ con.reply.body = Incomplete /\ con.faulty
                               \/ con.reply.body = Arbitrary /\ Confused(c)
                               \/ /\ ~bad
                                  /\ con.reply.type = IF output = "xml" THEN "application/xml" ELSE "application/json"
                                  /\ IF handler = "schema"
                                       THEN /\ con.query.tokens = TermsOf(body)
                                            /\ con.reply.body = IF output = "xml" THEN SchemaXmlData(con.answer)
                                                                                ELSE SchemaJsonData(con.answer)
                                       ELSE con.reply.body = CASE output = "xml"  -> MwsXmlData(FoundFor(body))
                                                               [] output = "json" -> MwsJsonData(FoundFor(body))
                                                               [] OTHER           -> MwsIdsData(FoundFor(body))
  BY DEF ReplyIsAnswer
<1>1. PICK con : con = conns[c]
  OBVIOUS
<1>2. PICK body : body = con.req.body
  OBVIOUS
<1>3. handler \in Handlers /\ con.req \in Requests[handler][c] /\ ReplyOf(con)
  BY <1>1 DEF ConnInv, RequestOf
<1>4. PICK q : q = Read(con)
  OBVIOUS
<1>5. q = readMwsQuery(body, ModeOf(handler)) /\ IsDocument(body)
  BY <1>2, <1>3, <1>4, ReadIs
<1> DEFINE bad == HasError(body) \/ TermsOf(body) = <<>>
<1>6. ~HasTerms(q) <=> bad
  <2>1. CASE HasError(body)
    BY <1>5, <2>1, ErrorRead DEF HasTerms
  <2>2. CASE ~HasError(body)
    <3>1. IsSound(body)
      BY <1>5, <2>2 DEF IsSound
    <3>2. DOMAIN q = QueryFields /\ q.tokens = TermsOf(body)
      BY <1>5, <3>1, SoundRead
    <3>3. q # NoQuery
      <4>1. DOMAIN NoQuery = {"null"} /\ "null" \notin QueryFields
        BY DEF NoQuery, QueryFields
      <4> QED
        BY <3>2, <4>1
    <3> QED
      BY <2>2, <3>2, <3>3 DEF HasTerms
  <2> QED
    BY <2>1, <2>2
<1>7. CASE con.reply.code = 400 /\ (con.faulty = TRUE \/ ~HasTerms(q))
  BY <1>1, <1>2, <1>6, <1>7
<1>8. CASE con.reply.code = 500 /\ con.faulty = TRUE
  BY <1>1, <1>2, <1>8
<1>9. CASE /\ con.reply.code = 200
           /\ con.query = q /\ HasTerms(q) /\ con.answer \in AnswersTo[handler][q]
           /\ \/ con.reply.body = Incomplete /\ con.faulty = TRUE
              \/ con.reply.body = Arbitrary /\ IdsOfSchemata(con)
              \/ /\ ~IdsOfSchemata(con)
                 /\ con.reply.type = getContentType(con.query.responseFormatter)
                 /\ con.reply.body = writeData(con.query.responseFormatter, con.answer)
  <2>0. con.reply.code # 400 /\ con.reply.code # 500
    BY <1>9
  <2>1. CASE con.reply.body = Incomplete /\ con.faulty = TRUE
    BY <1>1, <2>0, <2>1
  <2>2. CASE con.reply.body = Arbitrary /\ IdsOfSchemata(con)
    <3>1. Confused(c)
      BY <1>1, <2>2 DEF IdsOfSchemata, Confused
    <3> QED
      BY <1>1, <2>0, <2>2, <3>1
  <2>3. CASE /\ ~IdsOfSchemata(con)
             /\ con.reply.type = getContentType(con.query.responseFormatter)
             /\ con.reply.body = writeData(con.query.responseFormatter, con.answer)
    <3>1. ~bad /\ IsSound(body) /\ TermsOf(body) # <<>> /\ body # <<>>
      BY <1>5, <1>6, <1>9 DEF IsSound, HasError
    <3>2. PICK output : output = OutputOf(body)
      OBVIOUS
    <3>3. q.tokens = TermsOf(body) /\ q.responseFormatter = FormatterFor(handler, output) /\ output \in Chosen
      BY <1>5, <3>1, <3>2, QueryIs
    <3>4. con.reply.type = IF output = "xml" THEN "application/xml" ELSE "application/json"
      BY <1>9, <2>3, <3>3 DEF getContentType, FormatterFor, Chosen
    <3>5. CASE handler = "schema"
      <4>1. output # "mws-ids"
        BY <1>9, <2>3, <3>3, <3>5 DEF IdsOfSchemata, FormatterFor
      <4>2. con.reply.body = IF output = "xml" THEN SchemaXmlData(con.answer) ELSE SchemaJsonData(con.answer)
        BY <1>9, <2>3, <3>3, <3>5, <4>1 DEF writeData, FormatterFor, Chosen
      <4> QED
        BY <1>1, <1>2, <1>9, <2>0, <3>1, <3>2, <3>3, <3>4, <3>5, <4>2
    <3>6. CASE handler # "schema"
      <4>1. AnswersTo[handler][q] = {handleIndexQuery(q)}
        BY <1>2, <1>3, <1>4, <1>9, <3>1, <3>6, AnswerIs
      <4>2. con.answer = FoundFor(body)
        BY <1>5, <1>9, <3>1, <4>1, FoundIs
      <4>3. con.reply.body = CASE output = "xml"  -> MwsXmlData(con.answer)
                               [] output = "json" -> MwsJsonData(con.answer)
                               [] OTHER           -> MwsIdsData(con.answer)
        BY <1>9, <2>3, <3>3, <3>6 DEF writeData, FormatterFor, Chosen
      <4> QED
        BY <1>1, <1>2, <2>0, <3>1, <3>2, <3>4, <3>6, <4>2, <4>3
    <3> QED
      BY <3>5, <3>6
  <2> QED
    BY <1>9, <2>1, <2>2, <2>3
<1> QED
  BY <1>3, <1>4, <1>7, <1>8, <1>9 DEF ReplyOf

\* The reply to a complete POST request is the answer to the terms of its own body, in
\* the format it asked for, for any number of connections whose requests any documents
\* are: readMwsQuery, its states and its depth counters read exactly the terms below
\* mws:expr elements of the root, and no interleaving mixes two requests.
THEOREM ReplyIsAnswerCorrect == FairSpec => []ReplyIsAnswer
<1>1. ConnInv => ReplyIsAnswer
  BY ReplyFollows
<1> QED
  BY <1>1, ConnInvInductive, PTL DEF FairSpec
=============================================================================

------------------------------ MODULE Crawler ------------------------------
(***************************************************************************)
(* crawlerd: the thread of libmicrohttpd that takes crawl requests         *)
(* (CrawlerDaemon.cpp), the queue it shares with the thread of the crawler *)
(* (MwsCrawler.cpp), and the main thread that ends both (crawlerd.cpp).    *)
(***************************************************************************)
EXTENDS WebPage, SignalWait, TLC

CONSTANTS
  Conns,           \* connections
  Requests,        \* what a client can send: [method, fields], fields of
                   \* [key, url, n]: a url or a number
  PieceUrls,       \* what a piece of a url reads as
  PieceNumbers,    \* what a piece of a number reads as
  MAXDONTCRAWLSIZE,  \* places for exclusions
  MathPackLimit,   \* expressions that are stored at once
  INT_MAX,         \* MAX_URLS_TO_CRAWL by default
  MaxFaults,       \* bound: dropped connections, values in pieces, failed downloads and stores
  MaxTime,         \* bound: seconds that pass
  NoUrl,           \* a null urlstart: from a value that is empty or too long
  BadUrl           \* a text that is not a valid URL

\* The start of a crawl is a page or invalid; an exclusion is a URL, as it is
\* resolved against the start.
IsStart(u) == u \in {NoUrl, BadUrl} \/ (IsUrl(u) /\ getUrl(u) \in URLs)

ASSUME RequestsAssumption ==
  \A req \in Requests :
    /\ req.fields \in Seq(ToSet(req.fields))
    /\ \A field \in ToSet(req.fields) :
         /\ field.n \in Int
         /\ field.key = "urlstart" => IsStart(field.url)
         /\ field.key = "dontcrawl" => field.url = NoUrl \/ IsUrl(field.url)

ASSUME PiecesAssumption ==
  /\ \A u \in PieceUrls : IsStart(u)
  /\ PieceNumbers \subseteq Int
  /\ MAXDONTCRAWLSIZE \in Nat

VARIABLES
  conns,    \* per connection: [st, sent, req, pos, pieces, urlstart, count, dontcrawl]
  mhd,      \* the thread of the daemon: [at, conn, node], of cd_RequestCompletedCallback
  queue, lock,
  worker,   \* where Crawler::run is
  node,     \* its qNode
  crawl,    \* the Crawler object and the state of start()
  page,     \* the Page at hand
  files,    \* harvest files: name, i.e. time of storing -> expressions
  now, faults,
  pushed,     \* history: nodes that were queued
  finished,   \* history: number of crawls that ended
  extracted,  \* history: expressions found
  lost        \* history: expressions that are in no file any more

daemonVars == <<conns, mhd>>
workerVars == <<worker, node, crawl, page, files>>
history == <<pushed, finished, extracted, lost>>
vars == <<daemonVars, queue, lock, workerVars, now, faults, history, signalVars>>

Running == ~Gone

NoRequest == [method |-> "none", fields |-> <<>>]

\* pos fields were received; those in pieces came in more than one call, and 0 is
\* among them when the post processor is gone.
NoConn == [st |-> "closed", sent |-> "none", req |-> NoRequest, pos |-> 0, pieces |-> {},
           urlstart |-> NoUrl, count |-> 0, dontcrawl |-> <<>>]

NoCrawl == [complete |-> TRUE, max |-> 0, notAllowed |-> {}, all |-> {}, urls |-> <<>>,
            visited |-> <<>>, math |-> <<>>]

\* The constructor Crawler::Crawler.
NewCrawl == [NoCrawl EXCEPT !.max = INT_MAX]

NoPage == [url |-> NoUrl, header |-> FALSE, content |-> <<>>, downloaded |-> FALSE]
NoNode == [urlstart |-> NoUrl, count |-> 0, dontcrawl |-> <<>>]
IdleMhd == [at |-> "idle", conn |-> 0, node |-> NoNode]

Init ==
  /\ SignalInit
  /\ conns = [c \in Conns |-> NoConn] /\ mhd = IdleMhd
  /\ queue = <<>> /\ lock = "free"
  /\ worker = "empty" /\ node = NoNode /\ crawl = NoCrawl /\ page = NoPage
  /\ files = << >> /\ now = 0 /\ faults = 0
  /\ pushed = <<>> /\ finished = 0 /\ extracted = <<>> /\ lost = <<>>

\* A fault is one of a bounded number.
Fault(happens) ==
  /\ happens => faults < MaxFaults
  /\ faults' = IF happens THEN faults + 1 ELSE faults

-----------------------------------------------------------------------------
(***************************************************************************)
(* The daemon.  All callbacks run in one thread.  crawlerd starts its      *)
(* threads before it sets up the signals.                                  *)
(***************************************************************************)
Serving == Running /\ mainPc # "stopping" /\ mhd.at = "idle"

OnlyDaemon == UNCHANGED <<queue, lock, workerVars, now, history, signalVars>>

\* The first call of cd_AccessHandlerCallback.
Connect(c, req) ==
  /\ Serving /\ conns[c].st = "closed"
  /\ conns' = [conns EXCEPT ![c] = [NoConn EXCEPT !.st = "open", !.req = req]]
  /\ OnlyDaemon /\ UNCHANGED <<mhd, faults>>

\* One call with a pair of the form: a value that is empty or longer than
\* MAXNAMESIZE clears a url and a count, and adds no exclusion; other keys are
\* passed over.  The offset of the value is not looked at: a piece counts as a value.
cd_IteratePostRequest(con, field) ==
  CASE field.key = "urlstart" -> [con EXCEPT !.urlstart = field.url]
    [] field.key = "count" -> [con EXCEPT !.count = field.n]
    [] field.key = "dontcrawl" ->
         IF field.url = NoUrl THEN con ELSE [con EXCEPT !.dontcrawl = Append(@, field.url)]
    [] OTHER -> con

Uploading(c) == conns[c].req.method = "POST" /\ conns[c].pos < Len(conns[c].req.fields)

\* An exclusion more than there are places overwrites the pointer to the post
\* processor.  If it is empty the pointer is null, otherwise it points to the text,
\* which ends the process when it is used as a post processor, here at once.
Overflows(con, field) == field.key = "dontcrawl" /\ Len(con.dontcrawl) >= MAXDONTCRAWLSIZE

Receive(c, field, pos, pieces) ==
  /\ Serving /\ conns[c].st = "open"
  /\ \/ /\ Overflows(conns[c], field) => field.url = NoUrl
        /\ conns' = [conns EXCEPT ![c] =
             [cd_IteratePostRequest(@, field) EXCEPT
                !.pos = pos,
                !.pieces = IF Overflows(conns[c], field) THEN pieces \cup {0} ELSE pieces]]
        /\ UNCHANGED signalVars
     \/ /\ Overflows(conns[c], field) /\ field.url # NoUrl
        /\ mainPc' = "killed"
        /\ UNCHANGED <<conns, shouldQuit, signals>>
  /\ UNCHANGED <<mhd, queue, lock, workerVars, now, history>>

PiecesOf(field) ==
  { piece \in [key : {field.key}, url : PieceUrls, n : PieceNumbers] :
      field.key = "dontcrawl" => piece.url # BadUrl }

\* The message ends inside a value.
UploadPiece(c) ==
  /\ Uploading(c)
  /\ Fault(TRUE)
  /\ LET con == conns[c]
     IN  \E piece \in PiecesOf(con.req.fields[con.pos + 1]) :
           Receive(c, piece, con.pos, con.pieces \cup {con.pos + 1})

\* Without a post processor the rest of the form is passed over.
PassOver(c) ==
  /\ Serving /\ conns[c].st = "open" /\ Uploading(c)
  /\ 0 \in conns[c].pieces
  /\ conns' = [conns EXCEPT ![c].pos = Len(conns[c].req.fields)]
  /\ OnlyDaemon /\ UNCHANGED <<mhd, faults>>

\* A value comes whole, or the rest of it.
Upload(c) ==
  /\ Uploading(c)
  /\ LET con   == conns[c]
         field == con.req.fields[con.pos + 1]
     IN  \E rest \in IF con.pos + 1 \in con.pieces THEN PiecesOf(field) ELSE {field} :
           Receive(c, rest, con.pos + 1, con.pieces)
  /\ UNCHANGED faults

cd_SendPageThroughConnection(con, sentPage) == [con EXCEPT !.st = "sent", !.sent = sentPage]

\* The last call sends a page.
SendPage(c) ==
  /\ Serving /\ conns[c].st = "open" /\ ~Uploading(c)
  /\ conns' = [conns EXCEPT ![c] = cd_SendPageThroughConnection(@,
       CASE @.req.method = "GET" -> "askpage"
         [] @.req.method = "POST" /\ @.urlstart # NoUrl -> "answerpage"
         [] OTHER -> "errorpage")]
  /\ OnlyDaemon /\ UNCHANGED <<mhd, faults>>

\* The node of a request: atoi gives 0 for no count.
QueueNode(con) ==
  [urlstart |-> con.urlstart, count |-> IF con.count # 0 THEN con.count ELSE -1,
   dontcrawl |-> con.dontcrawl]

\* Mutant: a request counts although its client was shown the error page.
CompletedWithoutUrl(c) ==
  /\ conns' = [conns EXCEPT ![c].st = "done"]
  /\ mhd' = IF conns[c].req.method = "POST"
              THEN [at |-> "lock", conn |-> c, node |-> QueueNode(conns[c])] ELSE mhd

\* cd_RequestCompletedCallback, up to the lock.
cd_RequestCompletedCallback(c) ==
  /\ conns' = [conns EXCEPT ![c].st = "done"]
  /\ mhd' = IF conns[c].req.method = "POST" /\ conns[c].urlstart # NoUrl
              THEN [at |-> "lock", conn |-> c, node |-> QueueNode(conns[c])] ELSE mhd

\* It is called after the response, when the client is gone, and by
\* MHD_stop_daemon for the connections that are open.
Complete(c) ==
  /\ Running /\ mhd.at = "idle" /\ conns[c].st \notin {"closed", "done"}
  /\ Fault(conns[c].st = "open" /\ mainPc # "stopping")
  /\ cd_RequestCompletedCallback(c)
  /\ OnlyDaemon

LockForPush ==
  /\ Running /\ mhd.at = "lock" /\ lock = "free"
  /\ lock' = "mhd" /\ mhd' = [mhd EXCEPT !.at = "push"]
  /\ UNCHANGED <<conns, queue, workerVars, now, faults, history, signalVars>>

Push ==
  /\ Running /\ mhd.at = "push"
  /\ queue' = Append(queue, mhd.node)
  /\ lock' = "free" /\ mhd' = IdleMhd
  /\ pushed' = Append(pushed, <<mhd.conn, mhd.node>>)
  /\ UNCHANGED <<conns, workerVars, now, faults, finished, extracted, lost, signalVars>>

-----------------------------------------------------------------------------
(***************************************************************************)
(* Crawler::run.  empty() and front() are called without the lock.         *)
(***************************************************************************)
OnlyWorker == UNCHANGED <<daemonVars, now>>

Goto(at) == worker' = at /\ UNCHANGED signalVars

\* Undefined behaviour that ends the process.
Crash == worker' = "crashed" /\ mainPc' = "killed" /\ UNCHANGED <<shouldQuit, signals>>

\* Mutant: the queue is not tested.
WakeAnyway ==
  /\ Running /\ worker = "empty"
  /\ Goto("front")
  /\ OnlyWorker /\ UNCHANGED <<queue, lock, node, crawl, page, files, faults, history>>

WakeWorker ==
  /\ Running /\ worker = "empty" /\ queue # <<>>
  /\ Goto("front")
  /\ OnlyWorker /\ UNCHANGED <<queue, lock, node, crawl, page, files, faults, history>>

\* front() of an empty queue is undefined.
FrontOfQueue ==
  /\ Running /\ worker = "front"
  /\ IF queue # <<>> THEN node' = Head(queue) /\ Goto("lock")
                     ELSE Crash /\ UNCHANGED node
  /\ OnlyWorker /\ UNCHANGED <<queue, lock, crawl, page, files, faults, history>>

LockForPop ==
  /\ Running /\ worker = "lock" /\ lock = "free"
  /\ lock' = "worker" /\ Goto("pop")
  /\ OnlyWorker /\ UNCHANGED <<queue, node, crawl, page, files, faults, history>>

\* Mutant: the lock is not released.
PopKeepingLock ==
  /\ Running /\ worker = "pop"
  /\ queue # <<>> /\ queue' = Tail(queue) /\ Goto("setup")
  /\ OnlyWorker /\ UNCHANGED <<lock, node, crawl, page, files, faults, history>>

\* So is pop().
PopQueue ==
  /\ Running /\ worker = "pop"
  /\ IF queue # <<>> THEN queue' = Tail(queue) /\ lock' = "free" /\ Goto("setup")
                     ELSE Crash /\ UNCHANGED <<queue, lock>>
  /\ OnlyWorker /\ UNCHANGED <<node, crawl, page, files, faults, history>>

\* The rules of the site, of which a failed download shows a part, and then
\* those of the request (dontCrawl).
rulesOf(lines) == Disallowed(lines) \cup ToSet(node.dontcrawl)

getQueryable(u) == <<u.path, u.query>>

\* An invalid url leaves the rules a null pointer, which dontCrawl follows, and
\* start() does nothing.
SetUpInvalid ==
  /\ Running /\ worker = "setup" /\ node.urlstart = BadUrl
  /\ IF node.dontcrawl # <<>> THEN Crash ELSE Goto("empty")
  /\ finished' = finished + 1
  /\ OnlyWorker
  /\ UNCHANGED <<queue, lock, node, crawl, page, files, faults, pushed, extracted, lost>>

\* store_mathml_tags, called by the constructor and for every HTML page, exits when
\* its file cannot be opened.
NoTags ==
  /\ Running
  /\ \/ worker = "setup"
     \/ (worker = "extract" \/ (worker = "math" /\ page.downloaded)) /\ ~isXHTML(page)
  /\ Fault(TRUE)
  /\ mainPc' = "exited"
  /\ OnlyWorker /\ UNCHANGED <<queue, lock, workerVars, history, shouldQuit, signals>>

\* addURLStart, addCrawlerCount, dontCrawl, and the beginning of start().
SetUp ==
  /\ Running /\ worker = "setup" /\ node.urlstart # BadUrl
  /\ \E robots \in downloadContent(NewPage(node.urlstart), Robots) :
       /\ Fault(~robots.downloaded)
       /\ crawl' = [NewCrawl EXCEPT
            !.complete = robots.downloaded,
            !.max = IF node.count >= 0 THEN node.count ELSE INT_MAX,
            !.notAllowed = rulesOf(robots.content),
            !.all = {getQueryable(node.urlstart)},
            !.urls = <<node.urlstart>>]
  /\ Goto("loop")
  /\ OnlyWorker /\ UNCHANGED <<queue, lock, node, page, files, history>>

-----------------------------------------------------------------------------
(***************************************************************************)
(* The loop of start().                                                    *)
(***************************************************************************)
OnlyCrawl == OnlyWorker /\ UNCHANGED <<queue, lock, node>>

\* The number of pages visited is urlsCrawled.
NextUrl ==
  /\ Running /\ worker = "loop" /\ crawl.urls # <<>> /\ Len(crawl.visited) < crawl.max
  /\ crawl' = [crawl EXCEPT !.urls = Tail(@), !.visited = Append(@, getUrl(Head(crawl.urls)))]
  /\ page' = NewPage(Head(crawl.urls))
  /\ Goto("isXHTML")
  /\ OnlyCrawl /\ UNCHANGED <<files, faults, history>>

\* get_math asks for the type twice, first to print it, and each question may
\* be a download of its own.
AfterQuestion(at, p) ==
  CASE at = "isXHTML"  -> IF isXHTML(p) THEN "isXHTML2" ELSE "isHTML"
    [] at = "isHTML"   -> "isXHTML2"
    [] at = "isXHTML2" -> IF isXHTML(p) THEN "math" ELSE "isHTML2"
    [] at = "isHTML2"  -> IF isHTML(p) THEN "math" ELSE "links"

AskType ==
  /\ Running /\ worker \in {"isXHTML", "isHTML", "isXHTML2", "isHTML2"}
  /\ \E p \in getContent(page, Web[page.url].body) :
       Fault(~p.downloaded) /\ page' = p /\ Goto(AfterQuestion(worker, p))
  /\ OnlyCrawl /\ UNCHANGED <<crawl, files, history>>

\* storeMath: the file of this second is written anew, up to where fwrite or fclose
\* fails, or cannot be opened; in any case the caller forgets the expressions.
storeMath(math) ==
  \/ \E n \in 0..Len(math) :
       /\ Fault(n < Len(math))
       /\ files' = [t \in DOMAIN files \cup {now} |->
                      IF t = now THEN SubSeq(math, 1, n) ELSE files[t]]
       /\ lost' = lost \o (IF now \in DOMAIN files THEN files[now] ELSE <<>>)
                       \o SubSeq(math, n + 1, Len(math))
  \/ /\ Fault(TRUE)
     /\ lost' = lost \o math
     /\ UNCHANGED files

\* Mutant: expressions that were stored are kept and stored again.
addMathTwice(found) ==
  /\ crawl' = [crawl EXCEPT !.math = @ \o found]
  /\ extracted' = extracted \o found
  /\ IF Len(crawl.math \o found) >= MathPackLimit
       THEN storeMath(crawl.math \o found) ELSE UNCHANGED <<files, lost, faults>>

addMath(found) ==
  LET math == crawl.math \o found
      full == Len(math) >= MathPackLimit
  IN  /\ crawl' = [crawl EXCEPT !.math = IF full THEN <<>> ELSE math]
      /\ extracted' = extracted \o found
      /\ IF full THEN storeMath(math) ELSE UNCHANGED <<files, lost, faults>>

\* get_math_html and get_math_xhtml ask for the content once more.
FetchForMath ==
  /\ Running /\ worker = "math" /\ ~page.downloaded
  /\ \E p \in downloadContent(page, Web[page.url].body) : Fault(~p.downloaded) /\ page' = p
  /\ Goto("extract")
  /\ OnlyCrawl /\ UNCHANGED <<crawl, files, history>>

ExtractMath ==
  /\ Running /\ (worker = "extract" \/ (worker = "math" /\ page.downloaded))
  /\ \E found \in {IF isXHTML(page) THEN get_math_xhtml(page) ELSE get_math_html(page)} : addMath(found)
  /\ Goto("links")
  /\ OnlyCrawl /\ UNCHANGED <<page, pushed, finished>>

cleanupLinks(links) ==
  AtPlaces(links, { i \in DOMAIN links : /\ is_allowed_by_robots_txt(crawl.notAllowed, links[i])
                                          /\ getQueryable(links[i]) \notin crawl.all })

\* The links that are left are queued, then known.
FollowLinks ==
  /\ Running /\ worker = "links"
  /\ \E p \in getContent(page, Web[page.url].body) :
       \E found \in {getLinks(p)} : \E links \in {cleanupLinks(found)} :
           /\ Fault(~p.downloaded)
           /\ page' = NoPage
           /\ crawl' = [crawl EXCEPT !.urls = @ \o links,
                        !.all = @ \cup { getQueryable(u) : u \in ToSet(links) }]
  /\ Goto("loop")
  /\ OnlyCrawl /\ UNCHANGED <<files, history>>

\* The end of start() stores what is left, and also nothing.
FinishCrawl ==
  /\ Running /\ worker = "loop" /\ (crawl.urls = <<>> \/ Len(crawl.visited) >= crawl.max)
  /\ storeMath(crawl.math)
  /\ crawl' = NoCrawl
  /\ finished' = finished + 1
  /\ Goto("empty")
  /\ OnlyCrawl /\ UNCHANGED <<page, pushed, extracted>>

Tick ==
  /\ Running /\ now < MaxTime /\ now' = now + 1
  /\ UNCHANGED <<daemonVars, queue, lock, workerVars, faults, history, signalVars>>

-----------------------------------------------------------------------------
(***************************************************************************)
(* The end of main: MHD_stop_daemon returns when all connections are       *)
(* completed; then main empties the queue without the lock, and the worker *)
(* ends with the process.                                                  *)
(***************************************************************************)
MainStep == Running /\ SignalStep
            /\ UNCHANGED <<daemonVars, queue, lock, workerVars, now, faults, history>>

Stopped == mainPc = "stopping" /\ mhd.at = "idle"
           /\ \A c \in Conns : conns[c].st \in {"closed", "done"}

EmptyQueue ==
  /\ Running /\ Stopped /\ queue # <<>>
  /\ queue' = Tail(queue)
  /\ UNCHANGED <<daemonVars, lock, workerVars, now, faults, history, signalVars>>

Exit ==
  /\ Running /\ Stopped /\ queue = <<>>
  /\ mainPc' = "exited"
  /\ UNCHANGED <<daemonVars, queue, lock, workerVars, now, faults, history, shouldQuit, signals>>

DaemonStep ==
  \/ \E c \in Conns : \/ \E req \in Requests : Connect(c, req)
                      \/ Upload(c) \/ UploadPiece(c) \/ PassOver(c) \/ SendPage(c) \/ Complete(c)
  \/ LockForPush \/ Push

WorkerStep ==
  \/ WakeWorker \/ FrontOfQueue \/ LockForPop \/ PopQueue \/ NoTags \/ SetUpInvalid \/ SetUp
  \/ NextUrl \/ AskType \/ FetchForMath \/ ExtractMath \/ FollowLinks \/ FinishCrawl

Next == DaemonStep \/ WorkerStep \/ MainStep \/ EmptyQueue \/ Exit \/ Tick

Spec == Init /\ [][Next]_vars

\* The worker is in a download: of robots.txt or of the page at hand.
Downloading ==
  \/ worker = "setup" /\ node.urlstart # BadUrl
  \/ worker \in {"isXHTML", "isHTML", "isXHTML2", "isHTML2", "math", "links"} /\ ~page.downloaded

\* Each thread goes on when it can, the mutex being held for one operation; but no
\* download need end, as only the time to connect is limited.
FairSpec ==
  /\ Spec
  /\ WF_vars(WorkerStep /\ ~Downloading)
  /\ WF_vars(LockForPush \/ Push)
  /\ \A c \in Conns : WF_vars(Complete(c) /\ mainPc = "stopping")
  /\ WF_vars(EmptyQueue \/ Exit)
  /\ MainFairness

-----------------------------------------------------------------------------
(***************************************************************************)
(* Properties.                                                             *)
(***************************************************************************)

\* The worker reads the queue without the lock, and still takes each request
\* once: until main empties the queue at the end, what it found not empty stays
\* so, the node it copied is the node it pops, and the two threads never change
\* the queue at the same time.
QueueHandover ==
  /\ (worker \in {"front", "lock", "pop"} /\ mainPc # "stopping" /\ ~Gone) =>
       queue # <<>> /\ (worker # "front" => node = Head(queue))
  /\ ~(worker = "pop" /\ mhd.at = "push")
  /\ (worker = "crashed" /\ ~shouldQuit) =>
       node.urlstart = BadUrl /\ node.dontcrawl # <<>>

\* Rules of the site's robots.txt for "*": those of a group with "*" for its last
\* agent.  The rules of such a group that follows another one for "*" are left out:
\* Robotstxt takes the second line for the end of the first group.
ForbiddenToAll ==
  { Robots[i].v : i \in { j \in DOMAIN Robots :
      /\ Robots[j].k = "disallow"
      /\ \E a \in 1..j :
           /\ Robots[a].k = "agent" /\ Robots[a].v = "*"
           /\ \A b \in (a+1)..j : Robots[b].k # "agent"
           /\ \A b \in 1..(a-1) : Robots[b].k = "agent" /\ Robots[b].v = "*" =>
                \E d \in (b+1)..(a-1) : Robots[d].k = "agent" } }

\* The rule is the beginning of the page's address; neither has a query.
Covers(rule, u) ==
  u.host = rule.host /\ u.query = "" /\ rule.query = "" /\ IsPrefix(rule.path, u.path)

\* Every page that is visited is one the request asks for: not more than its
\* count, on the site of its start, and, but for the start and for pages with a
\* query, neither in what the request excludes nor in what the first of adjacent
\* groups for "*" in the site's robots.txt forbids, if that could be read.
VisitsObeyRequest ==
  worker \notin {"empty", "front", "lock", "pop", "setup", "crashed"} =>
    /\ node.count > 0 => Len(crawl.visited) <= node.count
    /\ \A i \in 2..Len(crawl.visited) :
         LET u == crawl.visited[i]
         IN  /\ u.host = node.urlstart.host
             /\ \A r \in ToSet(node.dontcrawl) : ~Covers(r, u)
             /\ crawl.complete => \A r \in ForbiddenToAll : ~Covers(r, u)

\* The math elements of each page as it is: in HTML, from a tag that opens one to
\* the one that closes it; in XHTML, its node.
MathOf ==
  [u \in URLs |->
    LET text == Web[u].body
        element(i, j) == Nesting(text, j) = 0 /\ \A k \in i..(j-1) : Nesting(text, k) > 0
    IN  { SubSeq(text, ij[1], ij[2]) : ij \in { x \in (DOMAIN text) \X (DOMAIN text) :
            text[x[1]].k = "open" /\ Nesting(text, x[1] - 1) = 0 /\ x[1] <= x[2] /\ element(x[1], x[2]) } }
        \cup { <<item>> : item \in { x \in ToSet(text) : x.k = "open" } }]

\* Downloads that are repeated after a failure append to the text at hand; all
\* the same, every expression found is a math element of its page, if every page is
\* well nested.  (Of a page with a closing tag too many, the end of one copy and the
\* beginning of the next may make an expression that is not on it.)
ExtractedFromPage ==
  \A i \in DOMAIN extracted : extracted[i][2] \in MathOf[extracted[i][1]]

Times(e, s) == Cardinality({ i \in DOMAIN s : s[i] = e })

\* Where e is stored: the file and the place in it.
Stored(e) == UNION { {t} \X { i \in DOMAIN files[t] : files[t][i] = e } : t \in DOMAIN files }

\* Every expression found is stored in one file, once, or waits in memory to be,
\* where it is lost if the process ends, unless its file could not be opened, could
\* not be written to its end or was written anew in the same second.
MathAccounted ==
  \A e \in ToSet(extracted) :
    Times(e, extracted) = Times(e, crawl.math) + Times(e, lost)
                          + Cardinality(Stored(e))

\* The last of the first n fields with this key.
LastField(req, key, n) ==
  LET last == { i \in 1..n : /\ req.fields[i].key = key
                             /\ \A j \in (i+1)..n : req.fields[j].key # key }
  IN  IF last = {} THEN [key |-> key, url |-> NoUrl, n |-> 0]
                   ELSE req.fields[CHOOSE i \in last : TRUE]

Exclusions(req, n) == { i \in 1..n : req.fields[i].key = "dontcrawl" /\ req.fields[i].url # NoUrl }

\* links are the exclusions among the first n fields, in their order.
ListsExclusions(links, req, n) ==
  \E place \in [DOMAIN links -> Exclusions(req, n)] :
    /\ \A i, j \in DOMAIN links : i < j => place[i] < place[j]
    /\ \A x \in Exclusions(req, n) : \E i \in DOMAIN links : place[i] = x
    /\ \A i \in DOMAIN links : links[i] = req.fields[place[i]].url

\* What a request asks for: its last url and count, all its exclusions, values that
\* are empty or too long counting as none.
AsksFor(req, qNode) ==
  LET n     == Len(req.fields)
      count == LastField(req, "count", n).n
  IN  /\ qNode.urlstart = LastField(req, "urlstart", n).url
      /\ qNode.count = IF count = 0 THEN -1 ELSE count
      /\ ListsExclusions(qNode.dontcrawl, req, n)

\* A client that was told that its request was sent has one in the queue, once,
\* when its connection is completed, and it is what the client asked for if no value
\* came in pieces and there was a place for every exclusion; a client that was told
\* otherwise has queued nothing.
AnsweredIsQueued ==
  \A c \in Conns :
    LET queued == { i \in DOMAIN pushed : pushed[i][1] = c }
    IN  /\ \A i, j \in queued : i = j
        /\ conns[c].st # "done" => queued = {}
        /\ conns[c].sent \in {"askpage", "errorpage"} => queued = {}
        /\ (conns[c].sent = "answerpage" /\ conns[c].st = "done" /\ ~(mhd.at # "idle" /\ mhd.conn = c)) =>
             \E i \in queued : conns[c].pieces = {} => AsksFor(conns[c].req, pushed[i][2])

\* If no download lasts for ever, every request that was queued is crawled to its
\* end, unless the daemon stops or crashes.
RequestsCrawled ==
  ([]<>~Downloading) =>
    \A n \in 1..Cardinality(Conns) :
      (Len(pushed) >= n) ~> (finished >= n \/ Gone \/ mainPc = "stopping")

=============================================================================

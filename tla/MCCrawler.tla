----------------------------- MODULE MCCrawler -----------------------------
EXTENDS Crawler
CONSTANTS c1, c2

\* The connections are compared for equality only.
MCSymmetry == Permutations({c1, c2})

\* A site with a start page and a private part, one page of which has a query.
U(path) == [host |-> "site", path |-> path, query |-> "", ref |-> ""]

Start   == U(<<"/">>)
Private == U(<<"/", "p", "/", "x">>)
Search  == [Private EXCEPT !.query = "q"]
Other   == [U(<<"/">>) EXCEPT !.host = "other"]

Link(u)  == [k |-> "link", v |-> u]
Opens(f) == [k |-> "open", v |-> f]
Close    == [k |-> "close", v |-> "math"]

\* The start page holds a formula and links to the others; the page with a query
\* is XHTML and links back.
MCWeb ==
  (Start   :> [type |-> "html",
               body |-> <<Opens("f"), Link(Search), Close, Link(Private)>>]) @@
  (Search  :> [type |-> "xhtml",
               body |-> <<Opens("g"), Close, Link([Start EXCEPT !.ref = "top"]), Link(Other)>>]) @@
  (Private :> [type |-> "html",  body |-> <<Opens("p"), Close>>])

\* Groups for another agent, for two agents, and for "*" twice in a row.
Agent(name) == [k |-> "agent", v |-> name]
Disallow(u) == [k |-> "disallow", v |-> u]
MCRobots == << Agent("bot"), Disallow(Start), Agent("bot"), Agent("*"), Disallow(U(<<"/", "p", "/">>)),
               Agent("*"), Disallow(Start) >>

\* A piece of a value is empty or another page.
MCPieceUrls == {NoUrl, Search}

F(key, u) == [key |-> key, url |-> u, n |-> 0]
Count(n) == [key |-> "count", url |-> NoUrl, n |-> n]
Post(fields) == [method |-> "POST", fields |-> fields]

\* With an exclusion, with a count that comes after the url, with an invalid url,
\* and one for the form.
MCRequests ==
  { Post(<<F("dontcrawl", U(<<"/", "p">>)), F("urlstart", Start)>>),
    Post(<<F("urlstart", Start), Count(1)>>),
    Post(<<F("urlstart", BadUrl), F("dontcrawl", U(<<"/", "p">>))>>),
    [method |-> "GET", fields |-> <<>>] }
=============================================================================

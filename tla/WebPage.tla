------------------------------ MODULE WebPage ------------------------------
(***************************************************************************)
(* Pages as the crawler sees them: Page.cpp (download and links),          *)
(* MwsGetMath.cpp (formulas) and Robotstxt.cpp.  A URL is a record [host,  *)
(* path, query, ref]; a path is the sequence of its characters.  A page is *)
(* the sequence of what the code looks for in its text: opening and        *)
(* closing math tags and links.  A download (libcurl, external) may fail   *)
(* after a part of the text has arrived.                                   *)
(***************************************************************************)
EXTENDS Integers, Sequences, SequencesExt, FiniteSetsExt

CONSTANTS
  Web,     \* URL without ref -> [type, body]; body has items [k, v]:
           \* "open" (a formula), "close", "link" (a URL)
  Robots   \* lines [k, v] of /robots.txt: "agent" (a name), "disallow" (a URL), "other"

URLs == DOMAIN Web

\* The numbers of S in increasing order.
InOrder(S) == [n \in 1..Cardinality(S) |-> CHOOSE i \in S : Cardinality({ j \in S : j <= i }) = n]

\* The items of s at these places, in their order.
AtPlaces(s, places) == [n \in DOMAIN InOrder(places) |-> s[InOrder(places)[n]]]

\* Page::getUrl drops the reference.
getUrl(u) == [u EXCEPT !.ref = ""]

\* A valid URL, made canonical: its path is not empty.
IsUrl(u) ==
  /\ u = [host |-> u.host, path |-> u.path, query |-> u.query, ref |-> u.ref]
  /\ u.path \in Seq(ToSet(u.path)) /\ u.path # <<>>

\* A page is a finite text, and every link on its site leads to a page, if only
\* to one that says that there is none.
ASSUME WebAssumption ==
  \A u \in URLs :
    /\ IsUrl(u) /\ Web[u].body \in Seq(ToSet(Web[u].body))
    /\ \A item \in ToSet(Web[u].body) :
         item.k = "link" => IsUrl(item.v) /\ (item.v.host = u.host => getUrl(item.v) \in URLs)

ASSUME RobotsAssumption ==
  /\ Robots \in Seq(ToSet(Robots))
  /\ \A line \in ToSet(Robots) : line.k = "disallow" => IsUrl(line.v)

NewPage(u) == [url |-> getUrl(u), header |-> FALSE, content |-> <<>>, downloaded |-> FALSE]

\* Page::downloadContent: curlWriter appends to what is there.
downloadContent(p, body) ==
  { [p EXCEPT !.header = TRUE, !.content = @ \o body, !.downloaded = TRUE] }
  \cup { [p EXCEPT !.header = @ \/ hn[1], !.content = @ \o SubSeq(body, 1, hn[2])] :
           hn \in { x \in BOOLEAN \X (0..Len(body)) : x[2] > 0 => x[1] } }

\* getContent and getHeader: as long as no download succeeded, each call tries
\* again.
getContent(p, body) == IF p.downloaded THEN {p} ELSE downloadContent(p, body)

\* Page::getLinks: links to the same host.
getLinks(p) ==
  LET links == AtPlaces(p.content, { i \in DOMAIN p.content : /\ p.content[i].k = "link"
                                                             /\ p.content[i].v.host = p.url.host })
  IN  [i \in DOMAIN links |-> links[i].v]

-----------------------------------------------------------------------------
isXHTML(p) == p.header /\ Web[p.url].type = "xhtml"

isHTML(p) == p.header /\ Web[p.url].type = "html"

\* Opening minus closing math tags among the first n items.
Nesting(text, n) == Cardinality({ i \in 1..n : text[i].k = "open" })
                    - Cardinality({ i \in 1..n : text[i].k = "close" })

\* The tags of get_math_blocks, and those where no math element is open any more.
\* (Tags that close themselves, after which the scan runs on, are on no page here.)
MathTags(text)  == { i \in DOMAIN text : text[i].k \in {"open", "close"} }
BlockEnds(text) == { i \in MathTags(text) : Nesting(text, i) = 0 }

\* Mutant: every block begins where the first one does.
BlocksFromFirstTag(text) ==
  LET ends == InOrder(BlockEnds(text))
  IN  [n \in DOMAIN ends |-> SubSeq(text, Min(MathTags(text)), ends[n])]

\* get_math_blocks: from the first tag after a block to the next such end.
get_math_blocks(text) ==
  LET ends == InOrder(BlockEnds(text))
      first(n) == Min({ i \in MathTags(text) : n = 1 \/ i > ends[n-1] })
  IN  [n \in DOMAIN ends |-> SubSeq(text, first(n), ends[n])]

\* is_good_xml of a block: tags are balanced, so that it is well-formed if it
\* opens before it closes.
is_good_xml(block) == Head(block).k = "open"

get_math_html(p) ==
  LET blocks == get_math_blocks(p.content)
      good == AtPlaces(blocks, { n \in DOMAIN blocks : is_good_xml(blocks[n]) })
  IN  [n \in DOMAIN good |-> <<p.url, good[n]>>]

\* A text that is not one well-formed document (a part of the page, or one
\* part after another) is not parsed: there is no document, here <<>>, as the
\* caller treats one without math elements.
get_XMLDoc(p) == IF p.content = Web[p.url].body THEN p.content ELSE <<>>

\* The nodes of //m:math/m:semantics/m:annotation-xml[@encoding='MathML-Content']/*,
\* one for each math element that has its content beside it, as those here have.
get_XMLNodeset(doc) == AtPlaces(doc, { i \in DOMAIN doc : doc[i].k = "open" })

\* What xmlElemDump writes of a node is_good_xml accepts.
get_math_xhtml(p) ==
  LET nodes == get_XMLNodeset(get_XMLDoc(p))
  IN  [n \in DOMAIN nodes |-> <<p.url, <<nodes[n]>>>>]

-----------------------------------------------------------------------------
(***************************************************************************)
(* Robotstxt.                                                              *)
(***************************************************************************)

\* The constructor reads line by line: a line with a user agent ends the rules
\* for this crawler ("*") if they have begun, and begins them if it names it.
InBrackets(lines, n) ==
  LET in[i \in 0..Len(lines)] ==
        IF i = 0 THEN FALSE
        ELSE IF lines[i].k # "agent" THEN in[i-1] ELSE ~in[i-1] /\ lines[i].v = "*"
  IN  in[n]

Disallowed(lines) ==
  { lines[i].v : i \in { j \in DOMAIN lines : lines[j].k = "disallow" /\ InBrackets(lines, j) } }

\* Mutant: a rule forbids one page.
AllowUnlessSame(notAllowed, u) == u \notin notAllowed

\* is_allowed_by_robots_txt: rules are prefixes, but for a final slash.
is_allowed_by_robots_txt(notAllowed, u) ==
  \A c \in notAllowed :
    LET prefix == IF Last(c.path) = "/" THEN Front(c.path) ELSE c.path
    IN  ~(u.host = c.host /\ u.query = c.query /\ IsPrefix(prefix, u.path))
=============================================================================

---------------------------- MODULE MCHttpDaemon ----------------------------
EXTENDS HttpDaemon

End   == [ev |-> "end"]
Error == [ev |-> "error"]
El(name, attrs, xref) == [ev |-> "start", name |-> name, attrs |-> attrs, xref |-> xref]
Attr(key, value) == [key |-> key, value |-> value]

\* All documents of up to three elements, and those of four below mws:query.
Shapes == UNION { { d \in [1..n -> 1..n] : d[1] = 1 /\ \A i \in 2..n : d[i] \in 2..(d[i-1] + 1) }
                  : n \in 1..4 }

Write(depth, names) ==
  LET n == Len(depth)
      ends(i) == [k \in 1..(depth[i] - (IF i = n THEN 1 ELSE depth[i+1]) + 1) |-> End]
  IN  FlattenSeq([i \in 1..n |-> <<El(names[i], <<>>, NoXref)>> \o
                                  (IF i = n THEN [k \in 1..depth[n] |-> End] ELSE ends(i))])

Documents ==
  UNION { { Write(d, names) : names \in { f \in [DOMAIN d -> {"mws:query", "mws:expr", "a"}] :
                                            Len(d) = 4 => f[1] = "mws:query" } } : d \in Shapes }

\* An error after which the document goes on, and one that ends it.
WithError(doc, i) == { SubSeq(doc, 1, i) \o <<Error>> \o SubSeq(doc, i + 1, Len(doc)),
                       SubSeq(doc, 1, i) \o <<Error>> }

\* Terms, written as sequences of <<tag, depth>>; the xref of a token is its position.
Query(attrs, terms) ==
  LET ends(t, i) == [k \in 1..(IF i = Len(t) THEN t[i][2] ELSE t[i][2] - t[i+1][2] + 1) |-> End]
      term(t, n) == FlattenSeq([i \in DOMAIN t |->
                      <<El(t[i][1], <<>>, IF t[i][1] = "c" THEN NoXref ELSE <<n, i>>)>> \o ends(t, i)])
  IN  <<El("mws:query", attrs, NoXref), El("mws:expr", <<>>, NoXref)>>
      \o FlattenSeq([n \in DOMAIN terms |-> term(terms[n], n)]) \o <<End, End>>

A == <<<<"a", 1>>>>
ApplyAX == <<<<"apply", 1>>, <<"a", 2>>, <<"?x", 2>>>>
UnknownTerm == <<<<"?x", 1>>, <<"z", 2>>>>

MwsBodies ==
  { <<>>, <<Error>>,
    Query(<<Attr("limitmin", 1), Attr("output", "json")>>, <<ApplyAX, A>>),
    Query(<<Attr("answsize", 1), Attr("xmlns:m", "")>>, <<A, ApplyAX>>),
    Query(<<Attr("output", "mws-ids"), Attr("totalreq", "yes")>>, <<ApplyAX>>),
    Query(<<Attr("output", "xml"), Attr("answsize", -1)>>, <<UnknownTerm>>) }

\* Two formulas with an operator that is itself an application, and others that
\* agree with them down to a level.
F(t, u)  == <<<<"apply", 1>>, <<"apply", 2>>, <<"f", 3>>, <<t, 3>>, <<u, 2>>, <<"b", 3>>>>
G(t)     == <<<<"apply", 1>>, <<"g", 2>>, <<"apply", 2>>, <<"h", 3>>, <<t, 3>>, <<"c", 2>>>>
Wide     == <<<<"cerror", 1>>, <<"a", 2>>, <<"a", 2>>, <<"a", 2>>, <<"a", 2>>>>
H(t)     == <<<<"h", 1>>, <<"applied", 2>>, <<"k", 3>>, <<"c", 4>>, <<t, 3>>>>

Depth(n) == Attr("schema_depth", n)
Mode(m)  == Attr("cutoff_mode", m)

SchemaBodies ==
  { Query(<<Depth(d), Mode("A"), Attr("answsize", s)>>, ts) :
      d \in 0..4, s \in {0, 2},
      ts \in { <<F("a", "b"), F("a", "c"), G("a"), F("b", "b"), G("b")>>, <<H("a"), A, H("b"), F("a", "b")>> } }
  \cup
  { Query(<<Depth(p), Mode("R"), Attr("output", "xml"), Attr("answsize", 0)>>,
          <<A, <<<<"apply", 1>>, <<"a", 2>>>>, F("a", "b"), G("a"), F("b", "b"), H("a")>>) :
      p \in {50, 100, 256} }
  \cup
  { Query(<<>>, <<F("a", "b"), H("a"), F("b", "b"), Wide>>),
    Query(<<Attr("output", "mws-ids")>>, <<A>>),
    Query(<<Mode("B"), Attr("output", "none"), Attr("answsize", -1)>>, <<Wide, F("a", "c"), H("a")>>) }

BrokenDocuments == UNION { WithError(Query(<<>>, <<ApplyAX>>), i) : i \in 1..9 }

Post(body) == [method |-> "POST", root |-> TRUE, body |-> body]

\* mwsd with an index gets a few requests at once, mwsd with harvests all the
\* documents one by one, and schemad its corpora.
RequestsOf(h, c) ==
  CASE h = "index" ->
         IF c = 1 THEN { Post(b) : b \in MwsBodies }
         ELSE {Post(<<>>), Post(Query(<<>>, <<A>>))} \cup
              { [method |-> m, root |-> r, body |-> <<>>] : m \in {"GET", "OPTIONS"}, r \in BOOLEAN }
    [] h = "harvest" /\ c = 1 ->
         { Post(b) : b \in Documents \cup BrokenDocuments }
    [] h = "schema" /\ c = 1 -> { Post(b) : b \in SchemaBodies }
    [] OTHER -> {}

MCRequests == [h \in Handlers |-> [c \in Conns |-> RequestsOf(h, c)]]

\* Three hits for every term, of two formulas.
Hits == << [uri |-> "u1", xpath |-> <<1>>, data |-> "d1"], [uri |-> "u1", xpath |-> <<2, 1>>, data |-> "d1"],
           [uri |-> "u2", xpath |-> <<1>>, data |-> "d2"] >>

MCSearch(term, limitMin, maxSize, includeHits) ==
  [answers |-> IF includeHits
                 THEN SubSeq(Hits, limitMin + 1, IF limitMin + maxSize > 3 THEN 3 ELSE limitMin + maxSize)
                 ELSE <<>>,
   total |-> 3, ids |-> { Len(term), 7 }]
=============================================================================

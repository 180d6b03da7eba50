------------------------ MODULE ResponseFormatters ------------------------
(***************************************************************************)
(* The response formatters: what a client reads of an answer.  A document  *)
(* is the record of what it holds; the XML and JSON syntax is left out.    *)
(* An MwsAnswset has answers [uri, xpath, data], total, ids, qvarNames and *)
(* qvarXpaths, a schema answer has total and schemata.  An xpath is the    *)
(* sequence of its child numbers.                                          *)
(***************************************************************************)
EXTENDS SchemaEngine

getContentType(formatter) ==
  IF formatter \in {"MWS_XML", "SCHEMA_XML"} THEN "application/xml" ELSE "application/json"

\* Each answer lists where its substitutions are: the places of the query's
\* variables below the answer's own.
MwsXmlData(answerSet) ==
  [size |-> Len(answerSet.answers), total |-> answerSet.total,
   answers |-> [k \in DOMAIN answerSet.answers |->
     [uri |-> answerSet.answers[k].uri, xpath |-> answerSet.answers[k].xpath,
      data |-> answerSet.answers[k].data,
      substpairs |-> [i \in DOMAIN answerSet.qvarNames |->
        [qvar |-> answerSet.qvarNames[i],
         xpath |-> answerSet.answers[k].xpath \o answerSet.qvarXpaths[i]]]]]]

Qvars(answerSet) ==
  [i \in DOMAIN answerSet.qvarNames |->
    [name |-> answerSet.qvarNames[i], xpath |-> answerSet.qvarXpaths[i]]]

\* But for the time the search took.
MwsJsonData(answerSet) ==
  [total |-> answerSet.total, qvars |-> Qvars(answerSet),
   hits |-> [k \in DOMAIN answerSet.answers |->
     [url |-> answerSet.answers[k].uri, xpath |-> answerSet.answers[k].xpath,
      xhtml |-> answerSet.answers[k].data]]]

MwsIdsData(answerSet) ==
  [qvars |-> Qvars(answerSet), ids |-> answerSet.ids, total |-> answerSet.total,
   size |-> Cardinality(answerSet.ids)]

SchemaJsonData(answSet) ==
  [total |-> answSet.total, size |-> Len(answSet.schemata),
   schemata |-> [k \in DOMAIN answSet.schemata |->
     [cmmlSchema |-> answSet.schemata[k].root, coverage |-> answSet.schemata[k].coverage,
      formulae |-> answSet.schemata[k].formulae, subst |-> answSet.schemata[k].subst]]]

\* The elements of a tree, without their attributes, each inside its parent.
printCmmlToken(tree) == [i \in DOMAIN tree |-> [tag |-> tree[i].tag, depth |-> tree[i].depth]]

SchemaXmlData(schemataSet) ==
  [size |-> Len(schemataSet.schemata), total |-> schemataSet.total,
   schemata |-> [k \in DOMAIN schemataSet.schemata |->
     [coverage |-> schemataSet.schemata[k].coverage,
      math |-> printCmmlToken(schemataSet.schemata[k].root)]]]

\* The formatter of the query takes the answer for one of its own kind.
writeData(formatter, answer) ==
  CASE formatter = "MWS_XML"     -> MwsXmlData(answer)
    [] formatter = "MWS_JSON"    -> MwsJsonData(answer)
    [] formatter = "MWS_IDS"     -> MwsIdsData(answer)
    [] formatter = "SCHEMA_JSON" -> SchemaJsonData(answer)
    [] formatter = "SCHEMA_XML"  -> SchemaXmlData(answer)
=============================================================================

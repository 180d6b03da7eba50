---------------------------- MODULE QueryEngine ----------------------------
(***************************************************************************)
(* engine.c, the query engine IndexQueryHandler uses instead of            *)
(* SearchContext when it is told to (useExperimentalQueryEngine): a        *)
(* recursive descent through the index that calls result_callback with     *)
(* every leaf it reaches.  As the callback always answers QUERY_CONTINUE   *)
(* every call restores what it changed (the query stack, the node and the  *)
(* instantiations), so that a call is given by these alone.                *)
(*                                                                         *)
(* The index holds no harvested variables here.  Then inode_get_max_var is *)
(* 0, nothing is ever put on the index stack, and match_var_to_query and   *)
(* match_var_to_stack are not called.                                      *)
(***************************************************************************)
EXTENDS SearchContext

\* No formula of an index has a variable or a range.
ASSUME NoHarvestedVariables ==
  \A ix \in Indexes : \A f \in ix : \A k \in DOMAIN f : ~IsSpecial(f[k])

\* A variable without instantiation is not in the domain of vars.
IsSolved(vs, id) == id \in DOMAIN vs

\* Mutant: a matched variable is not marked as solved.
InstantiatedNever(vs, id, tokens) == vs

\* var->solved = true with the tokens collected.
Instantiated(vs, id, tokens) ==
  [i \in DOMAIN vs \cup {id} |-> IF i = id THEN tokens ELSE vs[i]]

-----------------------------------------------------------------------------
(***************************************************************************)
(* The calls of the two functions.  toks is the query stack, its top       *)
(* first, vs the instantiations; of match_var_to_index, open is the        *)
(* parameter arity and tokens the instantiation of variable id so far.     *)
(* With no arity left it calls process_query_token at once.                *)
(***************************************************************************)
ProcessCall(toks, node, vs) ==
  [toks |-> toks, node |-> node, vs |-> vs, id |-> 0, tokens |-> <<>>, open |-> 0]

MatchCall(toks, node, vs, id, tokens, open) ==
  IF open = 0 THEN ProcessCall(toks, node, Instantiated(vs, id, tokens))
  ELSE [toks |-> toks, node |-> node, vs |-> vs, id |-> id, tokens |-> tokens, open |-> open]

\* A call at the end of the query, which reports its node.
Reports(call) == call.open = 0 /\ call.toks = <<>>

\* The calls that a call makes, in order.
process_query_token(call) ==
  LET token == Head(call.toks)
      rest  == Tail(call.toks)
  IN  CASE encoded_token_is_var(token) /\ IsSolved(call.vs, token.id) ->
             <<ProcessCall(call.vs[token.id] \o rest, call.node, call.vs)>>
        [] encoded_token_is_var(token) /\ ~IsSolved(call.vs, token.id) ->
             <<MatchCall(rest, call.node, call.vs, token.id, <<>>, 1)>>
        [] OTHER ->
             IF HasChild(index, call.node, token)
               THEN <<ProcessCall(rest, Append(call.node, token), call.vs)>>
               ELSE <<>>

\* The loop over the children of the node never advances its data pointer: it
\* takes the first child as often as there are children.
match_var_to_index(call) ==
  LET children == ChildTokens(index, call.node)
      entry    == FirstToken(children)
  IN  [i \in 1..Cardinality(children) |->
         MatchCall(call.toks, Append(call.node, entry), call.vs, call.id,
                   Append(call.tokens, entry), call.open + entry.arity - 1)]

CallsOf(call) ==
  CASE call.open > 0 -> match_var_to_index(call)
    [] Reports(call) -> <<call>>
    [] OTHER         -> process_query_token(call)

\* A call goes one token down in the index, or is followed by one that does: it
\* replaces a solved variable or begins to match one.  No call is deeper than this.
Depth == 2 * Max({0} \cup { Len(f) : f \in index }) + 2

\* The calls of each level of the recursion, in order; a call that reports stays.
Levels(q) ==
  LET calls[n \in 0..Depth] ==
        IF n = 0 THEN <<ProcessCall(q, RootNode, <<>>)>>
        ELSE LET last == calls[n-1] IN FlattenSeq([i \in DOMAIN last |-> CallsOf(last[i])])
  IN  calls

\* The leaves reported, in order.
query_engine_run(q) ==
  LET calls == Levels(q)[Depth] IN [i \in DOMAIN calls |-> calls[i].node]

\* IndexQueryHandler::handleQuery with the engine: result_callback appends a
\* page of the hits of each leaf and adds the leaf's hits to the total.
EngineAnswer ==
  LET leaves == query_engine_run(query)
      total[n \in 0..Len(leaves)] == IF n = 0 THEN 0 ELSE total[n-1] + hits[leaves[n]]
  IN  [leaves  |-> ToSet(leaves),
       answers |-> FlattenSeq([i \in DOMAIN leaves |->
                      DbPage(leaves[i], hits[leaves[i]], offset, args.size)]),
       total   |-> total[Len(leaves)]]

-----------------------------------------------------------------------------
(***************************************************************************)
(* Properties.                                                             *)
(***************************************************************************)

\* The two ways in which IndexQueryHandler answers a query agree as far as the
\* engine goes, for a query without elements below its variables and ranges:
\* it reports only formulas that unify with the query, and for a
\* query without variables and ranges its answers and its total are those of
\* SearchContext, unless the limit on the total cuts these or the sum of offset and
\* size wraps around.
EngineAgreesWithSearch ==
  pc = "done" /\ VariablesAreLeaves(query) =>
    LET answer == EngineAnswer
    IN  /\ answer.leaves \subseteq Unifying
        /\ (\A i \in DOMAIN query : ~IsSpecial(query[i])) =>
             /\ answer.leaves = Unifying
             /\ options.includeHits /\ NoWrap /\ maxTotal >= Minimum(offset + args.size, answer.total) =>
                  answer.answers = answers
             /\ options.includeHits => found = Minimum(maxTotal, answer.total)

\* A query that is a variable has every formula of the index for a solution:
\* "4 solutions expected: f, h, t, f(h,h,t)" (test engine_rootqvar0.cpp:39).
EngineFindsAll ==
  Len(query) = 1 /\ encoded_token_is_var(query[1]) => EngineAnswer.leaves = index
=============================================================================

---------------------------- MODULE SchemaEngine ----------------------------
(***************************************************************************)
(* The schema engine: formulas that agree down to a depth form a group,    *)
(* and a group is shown as one term with variables below that depth.       *)
(* reduceFormula cuts an encoded formula, decodeFormula builds the term of *)
(* a cut one; each keeps a stack of the tokens with children still to come *)
(* ("first": the next one is the first child of an apply, which is kept    *)
(* whatever its depth).  The tokens of the formulas are constants: a       *)
(* variable is encoded with arity 1 and without its child, which           *)
(* completeExpression would then look for.                                 *)
(***************************************************************************)
EXTENDS QueryParser

CONSTANTS
  ENC_TOK_MAX_ARITY,  \* largest arity that can be encoded
  ApplyTags,          \* the tags that begin with "apply"
  UINT32_MOD          \* 2^32: the width of max_total

QVAR_TAG == "mws:qvar"

isApply(token) == token[1] \in ApplyTags

-----------------------------------------------------------------------------
\* What follows when a child of the top is complete: the tokens that have no
\* more children leave the stack, and complete a child of the next one.
ChildDone(stack) ==
  LET next == Max({0} \cup { i \in DOMAIN stack : stack[i].left # 1 })
  IN  IF next = 0 THEN <<>>
      ELSE Append(SubSeq(stack, 1, next - 1), [left |-> stack[next].left - 1, first |-> FALSE])

Entered(unexplored, token) ==
  IF token[2] # 0 THEN Append(unexplored, [left |-> token[2], first |-> isApply(token)])
  ELSE ChildDone(unexplored)

\* The position after the term that starts at startExpr.
completeExpression(expr, startExpr) ==
  LET unexplored[currTok \in startExpr..(Len(expr) + 1)] ==
        IF currTok = startExpr THEN <<>>
        ELSE Entered(unexplored[currTok - 1], expr[currTok - 1])
  IN  Min({ end \in (startExpr + 1)..(Len(expr) + 1) : unexplored[end] = <<>> })

\* The position after the n terms that start at currTok.
SkipTerms(expr, currTok, n) ==
  LET after[k \in 0..n] == IF k = 0 THEN currTok ELSE completeExpression(expr, after[k - 1])
  IN  after[n]

\* Mutant: the first child of an apply is cut like the others.
AtCutoffFlat(unexplored, max_depth) == Len(unexplored) >= max_depth

\* The children of the top are below the cutoff.
AtCutoff(unexplored, max_depth) == Len(unexplored) >= max_depth /\ ~Last(unexplored).first

\* One round of the loop of reduceFormula.
ReduceStep(expr, max_depth, s) ==
  IF AtCutoff(s.unexplored, max_depth)
    THEN [s EXCEPT !.currToken = SkipTerms(expr, @, Last(s.unexplored).left),
                   !.unexplored = ChildDone(Front(@))]
    ELSE [currToken |-> s.currToken + 1, unexplored |-> Entered(s.unexplored, expr[s.currToken]),
          reducedExpr |-> Append(s.reducedExpr, expr[s.currToken])]

\* Each round takes at least one token.
reduceFormula(expr, max_depth) ==
  LET after[n \in 0..Len(expr)] ==
        IF n = 0 THEN [currToken |-> 2, reducedExpr |-> <<expr[1]>>,
                       unexplored |-> <<[left |-> expr[1][2], first |-> isApply(expr[1])]>>]
        ELSE LET s == after[n - 1]
             IN  IF s.currToken > Len(expr) THEN s ELSE ReduceStep(expr, max_depth, s)
  IN  IF expr = <<>> \/ max_depth = 0 THEN <<>> ELSE after[Len(expr)].reducedExpr

-----------------------------------------------------------------------------
(***************************************************************************)
(* decodeFormula.  s.currCmml is the depth of the current token of s.tree, *)
(* which moves up by one for each token that leaves the stack.             *)
(***************************************************************************)
Variables(depth, n) == [i \in 1..n |-> [tag |-> QVAR_TAG, depth |-> depth]]

Up(before, after) == Len(before) - Len(after) + (IF after = <<>> THEN 0 ELSE 1)

\* All that is left below the top becomes variables.
FillTop(s) ==
  LET below == Front(s.unexplored)
      after == ChildDone(below)
  IN  [s EXCEPT !.tree = @ \o Variables(s.currCmml + 1, Last(s.unexplored).left),
                !.unexplored = after, !.currCmml = @ - Up(below, after)]

DecodeToken(s, token) ==
  LET after == Entered(s.unexplored, token)
  IN  [s EXCEPT !.tree = Append(@, [tag |-> token[1], depth |-> s.currCmml + 1]),
                !.currTok = @ + 1, !.unexplored = after,
                !.currCmml = IF token[2] # 0 THEN @ + 1 ELSE @ + 1 - Up(s.unexplored, after)]

\* The loop tests its condition at the end; a position past the end is asked
\* for only below the cutoff.  Each round takes a token or empties one.
DecodeLoop(expr, max_depth, start) ==
  LET step(s) == IF AtCutoff(s.unexplored, max_depth) THEN FillTop(s)
                 ELSE DecodeToken(s, expr[s.currTok])
      after[n \in 1..(2 * Len(expr))] ==
        IF n = 1 THEN step(start)
        ELSE LET s == after[n - 1]
             IN  IF s.currTok > Len(expr) THEN s ELSE step(s)
  IN  after[2 * Len(expr)]

\* What the end of the expression leaves open.
FillRest(start) ==
  LET after[n \in 0..Len(start.unexplored)] ==
        IF n = 0 THEN start
        ELSE LET s == after[n - 1]
             IN  IF s.unexplored = <<>> THEN s
                 ELSE IF Last(s.unexplored).first
                   THEN [s EXCEPT !.unexplored = <<>>, !.assertsHold = FALSE]
                   ELSE FillTop(s)
  IN  after[Len(start.unexplored)]

\* The tree, and whether the assertions of the function hold.
decodeFormula(expr, max_depth) ==
  LET token == expr[1]
      root  == <<[tag |-> token[1], depth |-> 1]>>
      start == [tree |-> root, currTok |-> 2, currCmml |-> 1, assertsHold |-> TRUE,
                unexplored |-> <<[left |-> token[2], first |-> isApply(token)]>>]
      end   == FillRest(DecodeLoop(expr, max_depth, start))
  IN  IF expr = <<>> THEN [tree |-> Variables(1, 1), assertsHold |-> TRUE]
      ELSE IF token[2] = 0 THEN [tree |-> root, assertsHold |-> TRUE]
      ELSE [tree |-> end.tree, assertsHold |-> end.assertsHold /\ end.currCmml = 1]

-----------------------------------------------------------------------------
(***************************************************************************)
(* getSchemata.  The groups come from an unordered_map and are sorted by   *)
(* size, in any order where sizes agree.                                   *)
(***************************************************************************)
\* A reduced formula in words: its length, then the id and the arity of each
\* of its tokens.
hashExpr(expr) == <<Len(expr)>> \o FlattenSeq(expr)

unhashExpr(exprHash) == [i \in 1..Head(exprHash) |-> <<exprHash[2 * i], exprHash[2 * i + 1]>>]

\* A share of depth percent is rounded down.  (Below 100 levels the product of
\* doubles in the code differs from this in one case, 58 percent of 50 levels,
\* and fits the uint8_t it is stored in.)
CutoffOf(tree, heuristic, depth) ==
  IF heuristic = "RELATIVE" THEN (depth * getExprDepth(tree)) \div 100 ELSE depth

\* Mutant: the groups that are kept are the ones that come first.
SortedAnyhow(groups, size) == SetToSeqs(groups)

SortedBySize(groups, size) ==
  { order \in SetToSeqs(groups) :
      \A i, j \in DOMAIN order : i < j => size[order[i]] >= size[order[j]] }

\* The answers getSchemata may give for trees (formulas with an encoding).
getSchemata(trees, max_total, depth, heuristic) ==
  LET cutoff == [i \in DOMAIN trees |-> CutoffOf(trees[i], heuristic, depth)]
      hash   == [i \in DOMAIN trees |->
                   hashExpr(reduceFormula(encodeToken(trees[i], 1), cutoff[i]))]
      groups == { hash[i] : i \in DOMAIN trees }
      member == [h \in groups |-> InOrder({ i \in DOMAIN trees : hash[i] = h })]
      keep(order) == IF Len(order) > max_total /\ max_total # 0
                       THEN SubSeq(order, 1, max_total) ELSE order
      schema(h) == LET decoded == decodeFormula(unhashExpr(h), cutoff[Last(member[h])])
                   IN  [root |-> decoded.tree, assertsHold |-> decoded.assertsHold,
                        coverage |-> Len(member[h]), formulae |-> member[h]]
  IN  { [total |-> Cardinality(groups),
         schemata |-> [k \in DOMAIN keep(order) |-> schema(keep(order)[k])]]
        : order \in SortedBySize(groups, [h \in groups |-> Len(member[h])]) }

-----------------------------------------------------------------------------
(***************************************************************************)
(* SchemaQueryHandler.                                                     *)
(***************************************************************************)

\* Mutant: the first child of an apply is not passed over.
OperandsWithOperator(tree, i) == getChildNodes(tree, i)

\* The children getSubstitutions goes to.
Operands(tree, i) ==
  IF tree[i].tag = "apply" THEN Tail(getChildNodes(tree, i)) ELSE getChildNodes(tree, i)

\* The xrefs of the subterms of the expression in the places of variables.
getSubstitutions(exprTree, schemaTree) ==
  LET subst[i \in DOMAIN exprTree, j \in DOMAIN schemaTree] ==
        CASE schemaTree[j].tag = QVAR_TAG ->
               IF exprTree[i].xref = NoXref THEN <<>> ELSE <<exprTree[i].xref>>
          [] \/ getArity(exprTree, i) # getArity(schemaTree, j)
             \/ exprTree[i].tag # schemaTree[j].tag
             \/ getArity(exprTree, i) = 0 -> <<>>
          [] OTHER -> FlattenSeq([k \in DOMAIN Operands(exprTree, i) |->
                        subst[Operands(exprTree, i)[k], Operands(schemaTree, j)[k]]])
  IN  subst[1, 1]

\* The terms of the query that have an encoding; the ids of getSchemata are
\* positions among them.
Encoded(query) ==
  LET encodable(tree) == HasEncoding(tree, 1, ENC_TOK_MAX_ARITY)
  IN  SelectSeq(query.tokens, encodable)

\* An uninitialised mode may be any character.
Heuristics(query) ==
  CASE query.cutoff_mode = "R" -> {"RELATIVE"}
    [] query.cutoff_mode = Uninitialised -> {"RELATIVE", "ABSOLUTE"}
    [] OTHER -> {"ABSOLUTE"}

\* The representative is looked up among all terms of the query.
withSubstitutions(query, schema) ==
  [root |-> schema.root, assertsHold |-> schema.assertsHold, coverage |-> schema.coverage,
   formulae |-> schema.formulae,
   subst |-> getSubstitutions(query.tokens[schema.formulae[1]], schema.root)]

handleSchemaQuery(query) ==
  LET answers(heuristic) ==
        { [heuristic |-> heuristic, total |-> answer.total,
           schemata |-> [k \in DOMAIN answer.schemata |-> withSubstitutions(query, answer.schemata[k])]]
          : answer \in getSchemata(Encoded(query), query.attrResultMaxSize % UINT32_MOD,
                                   query.max_depth, heuristic) }
  IN  UNION { answers(heuristic) : heuristic \in Heuristics(query) }
=============================================================================

--------------------------- MODULE SearchContext ---------------------------
(***************************************************************************)
(* SearchContext::getResult: one query run against the formula index by    *)
(* backtracking search, with the paging of its hits.  The model follows    *)
(* the search loop token by token; pc is "start" before the arguments are  *)
(* checked, "match" at the head of the while loop, "backtrack" in the      *)
(* inner loop that asks solved variables for their next solution, "done"   *)
(* when the answer set is returned and "aborted" when an assert of the     *)
(* index accessors has failed.                                             *)
(*                                                                         *)
(* A query is the vector of encoded tokens the SearchContext constructor   *)
(* receives.  Query variables and ranges are its special tokens; special   *)
(* id s owns entry s of the backtrack table.  Tokens are counted from 1.   *)
(***************************************************************************)
EXTENDS IndexTrie

CONSTANTS
  Indexes,      \* the indexes explored, each a set of encoded formulas
  Queries,      \* the encoded query formulas explored
  HitCounts,    \* functions giving each formula its number of stored hits
  Arguments,    \* records [offset, size, maxTotal], as passed to getResult
  OptionSets,   \* records [includeHits, includeMwsIds]
  NumValue,     \* the value of each constant id whose meaning is "cn#<number>"
  RangeBounds,  \* range token id -> <<lower bound, upper bound>>
  UINT_MOD      \* number of values of an unsigned int

ASSUME UintAssumption == UINT_MOD \in Nat \ {0}

ASSUME ArgumentsAssumption ==
  Arguments \subseteq [offset : 0..(UINT_MOD - 1), size : 0..(UINT_MOD - 1),
                       maxTotal : 0..(UINT_MOD - 1)]

\* Every leaf has a hit: indexContentMath counts one when it makes the leaf.
ASSUME HitCountsAssumption ==
  \A h \in HitCounts : /\ \A ix \in Indexes : ix \subseteq DOMAIN h
                       /\ \A x \in DOMAIN h : h[x] \in Nat \ {0}

\* The count of hits, at most maxTotal before one leaf is added, does not wrap.
ASSUME CountersFit ==
  \A h \in HitCounts, a \in Arguments : \A x \in DOMAIN h : a.maxTotal + h[x] <= UINT_MOD

ASSUME OptionsAssumption ==
  OptionSets \subseteq [includeHits : BOOLEAN, includeMwsIds : BOOLEAN]

\* The formulas of an index are terms.
ASSUME IndexesAssumption ==
  \A ix \in Indexes : IsFiniteSet(ix) /\ \A f \in ix : f \in Seq(encoded_token_t) /\ IsTerm(f)

VARIABLES
  index, query, hits, args, options,  \* the inputs of the call
  size,          \* the local copy of args.size, reduced by the argument check
  currentToken,  \* position in the query
  currentNode,   \* trie node reached so far
  lastSolved,    \* id of the last solved special, -1 when there is none
  bkTable,       \* special id -> [isSolved, root, sol]
  found,         \* number of hits counted
  answers,       \* result->answers: hits <<formula, k>>, in order
  ids,           \* result->ids
  stream,        \* history: every hit of every solution, in order of discovery
  pc

inputs == <<index, query, hits, args, options>>
vars   == <<index, query, hits, args, options, size, currentToken, currentNode,
            lastSolved, bkTable, found, answers, ids, stream, pc>>

offset   == args.offset
maxTotal == args.maxTotal

Minimum(m, n) == IF m <= n THEN m ELSE n

-----------------------------------------------------------------------------
(***************************************************************************)
(* The constructor: special ids and backtrack points.  A token is fresh    *)
(* when the constructor gives it a new special id: every anonymous         *)
(* variable, every range, and the first occurrence of a named variable.    *)
(***************************************************************************)
IsSpecial(t) == encoded_token_is_var(t) \/ encoded_token_is_range(t)

\* The search takes a special token, whose arity field is 1, for a whole argument.
AsLeaves(q) == [i \in DOMAIN q |-> IF IsSpecial(q[i]) THEN encoded_token(q[i].id, 0) ELSE q[i]]

\* The elements below an mws:qvar or mws:range are encoded like any others: their
\* tokens come on top of those the search can match.
ASSUME QueriesAssumption ==
  \A q \in Queries : /\ q \in Seq(encoded_token_t)
                     /\ \E n \in 1..Len(q) : IsTerm(SubSeq(AsLeaves(q), 1, n))

\* The query has no elements below its variables and ranges.
VariablesAreLeaves(q) == IsTerm(AsLeaves(q))

\* Mutant: a repeated named variable gets an id of its own.
FreshEveryTime(q, i) == IsSpecial(q[i])

Fresh(q, i) ==
  /\ IsSpecial(q[i])
  /\ \/ ~encoded_token_is_var(q[i])
     \/ encoded_token_is_anon_var(q[i])
     \/ \A j \in 1..(i-1) : q[j].id # q[i].id

\* Number of special ids given to the tokens before position i.
SpecialsBefore(q, i) == Cardinality({ j \in 1..(i-1) : Fresh(q, j) })

SpecialCount(q) == SpecialsBefore(q, Len(q) + 1)

\* The special id of the token at position i: a repeated named variable
\* shares the id of its first occurrence.
SpecialId(q, i) ==
  IF Fresh(q, i)
    THEN SpecialsBefore(q, i)
    ELSE SpecialsBefore(q, CHOOSE j \in 1..(i-1) : Fresh(q, j) /\ q[j].id = q[i].id)

\* The token that special s was made for.
FreshPosition(q, s) == CHOOSE i \in DOMAIN q : Fresh(q, i) /\ SpecialsBefore(q, i) = s

BacktrackPointEarly(q, s) == FreshPosition(q, s)

\* Where matching resumes after special s is given another solution.
BacktrackPoint(q, s) == FreshPosition(q, s) + 1

-----------------------------------------------------------------------------
(***************************************************************************)
(* Solutions of a special token at a trie node, as token paths below it.   *)
(* A variable (QvarCtxt) takes the complete terms an IndexIterator         *)
(* enumerates; a range (RangeCtxt) takes the children that are numbers     *)
(* within its bounds (isCmmlNumber, isInRange).                            *)
(***************************************************************************)
validSubst(tok, rangeId) ==
  /\ tok.arity = 0
  /\ tok.id \in DOMAIN NumValue
  /\ RangeBounds[rangeId][1] <= NumValue[tok.id]
  /\ NumValue[tok.id] <= RangeBounds[rangeId][2]

Solutions(tok, node) ==
  IF encoded_token_is_var(tok)
    THEN TermsFrom(index, node)
    ELSE { <<t>> : t \in { u \in ChildTokens(index, node) : validSubst(u, tok.id) } }

Unsolved == [isSolved |-> FALSE, root |-> RootNode, sol |-> <<>>]

\* The index contains the path s below the node (getChild along s succeeds).
HasPath(node, s) == \E f \in index : IsPrefix(node \o s, f)

-----------------------------------------------------------------------------
Init ==
  /\ index \in Indexes
  /\ query \in Queries
  /\ hits \in HitCounts
  /\ args \in Arguments
  /\ options \in OptionSets
  /\ size = args.size
  /\ currentToken = 1
  /\ currentNode = RootNode
  /\ lastSolved = -1
  /\ bkTable = [s \in 0..(SpecialCount(query) - 1) |-> Unsolved]
  /\ found = 0
  /\ answers = <<>>
  /\ ids = {}
  /\ stream = <<>>
  /\ pc = "start"

\* The argument check; offset + size is an unsigned sum.
ClampedSize ==
  IF (offset + size) % UINT_MOD > maxTotal
    THEN IF maxTotal <= offset THEN 0 ELSE maxTotal - offset
    ELSE size

CheckArguments ==
  /\ pc = "start"
  /\ size' = ClampedSize
  /\ pc' = "match"
  /\ UNCHANGED <<inputs, currentToken, currentNode, lastSolved, bkTable, found,
                 answers, ids, stream>>

\* while (found < maxTotal) ends because enough hits were counted.
LimitReached ==
  /\ pc = "match"
  /\ found >= maxTotal
  /\ pc' = "done"
  /\ UNCHANGED <<inputs, size, currentToken, currentNode, lastSolved, bkTable,
                 found, answers, ids, stream>>

\* A token to match is looked for below an inner node, hits are looked for at a
\* leaf; anything else fails an assert of IndexAccessor and ends the process.
AssertFails ==
  /\ pc = "match"
  /\ found < maxTotal
  /\ IsLeaf(index, currentNode) # (currentToken = Len(query) + 1)
  /\ pc' = "aborted"
  /\ UNCHANGED <<inputs, size, currentToken, currentNode, lastSolved, bkTable,
                 found, answers, ids, stream>>

AtToken ==
  /\ pc = "match"
  /\ found < maxTotal
  /\ currentToken <= Len(query)
  /\ ~IsLeaf(index, currentNode)

\* The current token was matched and led to node.
GoAhead(node) ==
  /\ currentNode' = node
  /\ currentToken' = currentToken + 1
  /\ pc' = "match"

\* The current token cannot be matched.
GiveUp ==
  /\ pc' = "backtrack"
  /\ UNCHANGED <<currentNode, currentToken>>

MatchConst ==
  LET tok == query[currentToken]
  IN  /\ AtToken
      /\ ~IsSpecial(tok)
      /\ \/ HasChild(index, currentNode, tok) /\ GoAhead(Append(currentNode, tok))
         \/ ~HasChild(index, currentNode, tok) /\ GiveUp
      /\ UNCHANGED <<inputs, size, lastSolved, bkTable, found, answers, ids, stream>>

\* A variable that already has a solution: replay its path from here.
ReplayQvar ==
  LET tok == query[currentToken]
      ctx == bkTable[SpecialId(query, currentToken)]
  IN  /\ AtToken
      /\ encoded_token_is_var(tok)
      /\ ctx.isSolved
      /\ \/ HasPath(currentNode, ctx.sol) /\ GoAhead(currentNode \o ctx.sol)
         \/ ~HasPath(currentNode, ctx.sol) /\ GiveUp
      /\ UNCHANGED <<inputs, size, lastSolved, bkTable, found, answers, ids, stream>>

\* solve(): the first solution of an unsolved variable, or of a range (the
\* code calls solve() for a range whether or not it is marked solved).
Solve ==
  LET tok == query[currentToken]
      id  == SpecialId(query, currentToken)
      sol == Solutions(tok, currentNode)
  IN  /\ AtToken
      /\ IsSpecial(tok)
      /\ encoded_token_is_var(tok) => ~bkTable[id].isSolved
      /\ \/ /\ sol # {}
            /\ bkTable' = [bkTable EXCEPT ![id] = [isSolved |-> TRUE,
                                                   root |-> currentNode,
                                                   sol |-> FirstTerm(sol)]]
            /\ lastSolved' = id
            /\ GoAhead(currentNode \o FirstTerm(sol))
         \/ /\ sol = {}
            /\ bkTable' = [bkTable EXCEPT ![id] = Unsolved]
            /\ GiveUp
            /\ UNCHANGED lastSolved
      /\ UNCHANGED <<inputs, size, found, answers, ids, stream>>

(***************************************************************************)
(* The end of the query is reached: count the hits of the leaf, append the *)
(* ones on the requested page, and backtrack.  DbPage is the answer of     *)
(* DbQueryManager::query for a formula that has n hits in the database.    *)
(***************************************************************************)

\* Mutant: the hits before limitMin are not skipped.
DbPageUnskipped(formula, n, limitMin, limitSize) ==
  [k \in 1..Minimum(n, limitSize) |-> <<formula, k>>]

DbPage(formula, n, limitMin, limitSize) ==
  [k \in 1..(Minimum(n, limitMin + limitSize) - Minimum(n, limitMin)) |->
     <<formula, limitMin + k>>]

\* Mutant: the formulas are counted in place of their hits.
hitsCountOne == 1

hitsCount == IF options.includeHits THEN hits[currentNode] ELSE 1

\* The leaf has hits on the page.
onPage == found < (size + offset) % UINT_MOD /\ found + hitsCount > offset

HandleSolution ==
  LET dbOffset  == IF offset < found THEN 0 ELSE offset - found
      dbMaxSize == IF offset < found THEN (size + offset - found) % UINT_MOD ELSE size
  IN  /\ pc = "match"
      /\ found < maxTotal
      /\ currentToken = Len(query) + 1
      /\ IsLeaf(index, currentNode)
      /\ answers' = IF onPage /\ options.includeHits
                      THEN answers \o DbPage(currentNode, hits[currentNode],
                                             dbOffset, dbMaxSize)
                      ELSE answers
      /\ ids' = IF onPage /\ options.includeMwsIds
                  THEN ids \cup {currentNode} ELSE ids
      /\ found' = Minimum((found + hitsCount) % UINT_MOD, maxTotal)
      /\ stream' = stream \o [k \in 1..hitsCount |-> <<currentNode, k>>]
      /\ pc' = "backtrack"
      /\ UNCHANGED <<inputs, size, currentToken, currentNode, lastSolved, bkTable>>

(***************************************************************************)
(* Backtracking: nextSol() of the last solved special; a special without   *)
(* a next solution becomes unsolved and the one before it is asked.        *)
(***************************************************************************)

\* Mutant: the current solution is found again.
NotEarlierSolutions(s) ==
  LET ctx == bkTable[s]
  IN  { t \in Solutions(query[FreshPosition(query, s)], ctx.root) : ~TermLess(t, ctx.sol) }

LaterSolutions(s) ==
  LET ctx == bkTable[s]
  IN  { t \in Solutions(query[FreshPosition(query, s)], ctx.root) : TermLess(ctx.sol, t) }

NextSol ==
  /\ pc = "backtrack"
  /\ lastSolved >= 0
  /\ LaterSolutions(lastSolved) # {}
  /\ LET sol == FirstTerm(LaterSolutions(lastSolved))
     IN  /\ bkTable' = [bkTable EXCEPT ![lastSolved].sol = sol]
         /\ currentNode' = bkTable[lastSolved].root \o sol
  /\ currentToken' = BacktrackPoint(query, lastSolved)
  /\ pc' = "match"
  /\ UNCHANGED <<inputs, size, lastSolved, found, answers, ids, stream>>

NoNextSol ==
  /\ pc = "backtrack"
  /\ lastSolved >= 0
  /\ LaterSolutions(lastSolved) = {}
  /\ bkTable' = [bkTable EXCEPT ![lastSolved] = Unsolved]
  /\ lastSolved' = lastSolved - 1
  /\ UNCHANGED <<inputs, size, currentToken, currentNode, found, answers, ids,
                 stream, pc>>

\* No more solutions: the loop is left.
Exhausted ==
  /\ pc = "backtrack"
  /\ lastSolved = -1
  /\ pc' = "done"
  /\ UNCHANGED <<inputs, size, currentToken, currentNode, lastSolved, bkTable,
                 found, answers, ids, stream>>

Next == \/ CheckArguments \/ LimitReached \/ AssertFails
        \/ MatchConst \/ ReplayQvar \/ Solve \/ HandleSolution
        \/ NextSol \/ NoNextSol \/ Exhausted

Spec     == Init /\ [][Next]_vars
FairSpec == Spec /\ WF_vars(Next)
-----------------------------------------------------------------------------
(***************************************************************************)
(* Reference: unification of a query with one formula, without a trie and  *)
(* without backtracking.  PieceEnds(x, q)[i] is the position in x of the   *)
(* last token that the i-th query token stands for, -1 when x is too short.*)
(***************************************************************************)
TermEnd(x, p) == CHOOSE k \in p..Len(x) : IsTerm(SubSeq(x, p, k))

PieceEnds(x, q) ==
  LET end[i \in 0..Len(q)] ==
        IF i = 0 THEN 0
        ELSE IF end[i-1] = -1 \/ end[i-1] = Len(x) THEN -1
        ELSE IF encoded_token_is_var(q[i]) THEN TermEnd(x, end[i-1] + 1)
        ELSE end[i-1] + 1
  IN  end

Unifies(x, q) ==
  LET end      == PieceEnds(x, q)
      piece(i) == SubSeq(x, end[i-1] + 1, end[i])
  IN  /\ end[Len(q)] = Len(x)
      /\ \A i \in DOMAIN q :
           /\ ~IsSpecial(q[i]) => x[end[i]] = q[i]
           /\ encoded_token_is_range(q[i]) => validSubst(x[end[i]], q[i].id)
           /\ encoded_token_is_var(q[i]) /\ ~encoded_token_is_anon_var(q[i]) =>
                \A j \in 1..(i-1) : q[j].id = q[i].id => piece(j) = piece(i)

Unifying == { x \in index : Unifies(x, query) }

-----------------------------------------------------------------------------
(***************************************************************************)
(* Properties.                                                             *)
(***************************************************************************)

\* The asserts of the accessors hold, getChild and getChildrenIterator being
\* called only on inner nodes and getHitsCount and getFormulaId only on leaves,
\* for a query without elements below its variables and ranges.  (With such
\* elements a search that reaches a leaf before the end of the query aborts.)
AccessorAsserts ==
  VariablesAreLeaves(query) =>
    /\ pc # "aborted"
    /\ pc = "match" => (IsLeaf(index, currentNode) <=> currentToken = Len(query) + 1)

\* The solutions found by getResult for a query without elements below its
\* variables are exactly the formulas that unify with the query, each visited
\* once and in index order; a search cut short by maxTotal has visited an initial
\* part of them.
FindsUnifyingFormulas ==
  pc = "done" /\ VariablesAreLeaves(query) =>
    LET visited == { stream[i][1] : i \in DOMAIN stream }
    IN  /\ visited \subseteq Unifying
        /\ \A i, j \in DOMAIN stream : i < j =>
             \/ TermLess(stream[i][1], stream[j][1])
             \/ stream[i][1] = stream[j][1] /\ stream[i][2] < stream[j][2]
        /\ \A x \in Unifying \ visited :
             found = maxTotal /\ \A y \in visited : TermLess(y, x)

\* The argument check compares an unsigned sum; it is meaningful when that
\* sum does not wrap around.
NoWrap == args.offset + args.size < UINT_MOD

\* The hits of a page: those numbered offset + 1 to offset + size among the
\* first maxTotal hits, in the order of their discovery.
PageOf(hitSeq, from, count, limit) ==
  SubSeq(hitSeq, from + 1, Minimum(Minimum(from + count, limit), Len(hitSeq)))

\* The answers getResult returns are the requested page of the hits found,
\* whatever the division of the hits among formulas.
PageExact ==
  pc = "done" /\ options.includeHits /\ NoWrap =>
    answers = PageOf(stream, args.offset, args.size, maxTotal)

\* For a query without elements below its variables, result->total counts every
\* hit of every unifying formula, up to maxTotal, and the ids returned are exactly
\* those of the formulas with a hit on the page.
\* (On an empty page the code may still report one id, that of a formula with
\* hits on both sides of offset.)
TotalAndIdsExact ==
  pc = "done" /\ VariablesAreLeaves(query) =>
    /\ found = Minimum(maxTotal,
                       MapThenSumSet(LAMBDA x : IF options.includeHits THEN hits[x] ELSE 1,
                                     Unifying))
    /\ options.includeMwsIds /\ NoWrap /\ size > 0 =>
         ids = { x[1] : x \in ToSet(PageOf(stream, args.offset, args.size, maxTotal)) }

\* The backtracking search ends for every query: getResult returns, or a query with
\* elements below a variable fails an assert.
Terminates == <>(pc = "done" \/ (pc = "aborted" /\ ~VariablesAreLeaves(query)))

=============================================================================

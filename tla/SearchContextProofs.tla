------------------------ MODULE SearchContextProofs ------------------------
(***************************************************************************)
(* SearchContext::getResult, for every index, query, offset, size and      *)
(* limit and every division of the hits among the formulas.                *)
(*                                                                         *)
(*   SearchInv   where the search is in the index: how many subterms the   *)
(*               node reached leaves open.  Gives the accessor asserts.    *)
(*   PagingInv   which hits of the stream are in the answers.  Gives the   *)
(*               page.                                                     *)
(*   VisitInv    which formulas were visited: those that unify and are     *)
(*               before the place of the search.  Gives the formulas found.*)
(*   CountInv    how many hits these have.  Gives the total and the ids.   *)
(*   Consecutive how the hits of a formula follow each other.  Gives, with *)
(*               the levels of its calls, what the engine answers.         *)
(***************************************************************************)
EXTENDS QueryEngine, IndexTrieProofs

-----------------------------------------------------------------------------
\* Special ids.
LEMMA SpecialsStep ==
  ASSUME NEW q, NEW i \in Nat \ {0}
  PROVE  /\ SpecialsBefore(q, i) \in Nat
         /\ Fresh(q, i) => SpecialsBefore(q, i + 1) = SpecialsBefore(q, i) + 1
         /\ ~Fresh(q, i) => SpecialsBefore(q, i + 1) = SpecialsBefore(q, i)
<1> DEFINE B(k) == { j \in 1..(k-1) : Fresh(q, j) }
<1>1. IsFiniteSet(B(i)) /\ Cardinality(B(i)) \in Nat
  <2>1. IsFiniteSet(1..(i-1))
    BY FS_Interval
  <2> QED
    BY <2>1, FS_Subset, FS_CardinalityType
<1>2. CASE Fresh(q, i)
  <2>1. B(i + 1) = B(i) \cup {i} /\ i \notin B(i)
    BY <1>2
  <2> QED
    BY <1>1, <1>2, <2>1, FS_AddElement DEF SpecialsBefore
<1>3. CASE ~Fresh(q, i)
  <2>1. B(i + 1) = B(i)
    BY <1>3
  <2> QED
    BY <1>1, <1>3, <2>1 DEF SpecialsBefore
<1> QED
  BY <1>1, <1>2, <1>3 DEF SpecialsBefore

\* A fresh special has a smaller id than those after it.
LEMMA SpecialsGrow ==
  ASSUME NEW q, NEW i \in Nat \ {0}, NEW j \in Nat, i < j, Fresh(q, i)
  PROVE  SpecialsBefore(q, i) < SpecialsBefore(q, j)
<1> DEFINE B(k) == { n \in 1..(k-1) : Fresh(q, n) }
<1>1. IsFiniteSet(B(j)) /\ B(i + 1) \in SUBSET B(j)
  <2>1. IsFiniteSet(1..(j-1))
    BY FS_Interval
  <2>2. IsFiniteSet(B(j))
    BY <2>1, FS_Subset
  <2> QED
    BY <2>2
<1>2. Cardinality(B(i + 1)) <= Cardinality(B(j))
  <2> HIDE DEF B
  <2> QED
    BY <1>1, FS_Subset
<1>3. SpecialsBefore(q, i + 1) = SpecialsBefore(q, i) + 1 /\ SpecialsBefore(q, i) \in Nat
  BY SpecialsStep
<1>4. SpecialsBefore(q, j) \in Nat
  BY SpecialsStep
<1> QED
  BY <1>2, <1>3, <1>4 DEF SpecialsBefore

\* The position of a fresh special is the one its id was given at.
LEMMA FreshPositionIs ==
  ASSUME NEW q \in Paths, NEW i \in DOMAIN q, Fresh(q, i)
  PROVE  FreshPosition(q, SpecialsBefore(q, i)) = i
<1>1. DOMAIN q \subseteq Nat \ {0}
  BY PathFacts DEF Paths
<1>2. ASSUME NEW j \in DOMAIN q, Fresh(q, j), SpecialsBefore(q, j) = SpecialsBefore(q, i) PROVE j = i
  <2>1. SpecialsBefore(q, i) \in Nat
    BY <1>1, SpecialsStep
  <2>2. CASE i < j
    <3>1. SpecialsBefore(q, i) < SpecialsBefore(q, j)
      BY <1>1, <2>2, SpecialsGrow
    <3> QED
      BY <1>2, <2>1, <3>1
  <2>3. CASE j < i
    <3>1. SpecialsBefore(q, j) < SpecialsBefore(q, i)
      BY <1>1, <1>2, <2>3, SpecialsGrow
    <3> QED
      BY <1>2, <2>1, <3>1
  <2> QED
    BY <1>1, <2>2, <2>3
<1> QED
  BY <1>2 DEF FreshPosition

\* The token that the special id of a token was made for.
LEMMA SpecialIdIs ==
  ASSUME NEW q \in Paths, NEW i \in DOMAIN q, IsSpecial(q[i])
  PROVE  \/ Fresh(q, i) /\ SpecialId(q, i) = SpecialsBefore(q, i)
         \/ /\ ~Fresh(q, i) /\ encoded_token_is_var(q[i]) /\ ~encoded_token_is_anon_var(q[i])
            /\ \E j \in 1..(i-1) : /\ Fresh(q, j) /\ q[j].id = q[i].id
                                   /\ SpecialId(q, i) = SpecialsBefore(q, j)
<1>1. CASE Fresh(q, i)
  BY <1>1 DEF SpecialId
<1>2. CASE ~Fresh(q, i)
  <2>0. Len(q) \in Nat /\ DOMAIN q = 1..Len(q)
    BY PathFacts DEF Paths
  <2> DEFINE B == { j \in 1..(i-1) : q[j].id = q[i].id }
  <2>1. encoded_token_is_var(q[i]) /\ ~encoded_token_is_anon_var(q[i]) /\ B # {}
    BY <1>2 DEF Fresh
  <2>2. B \in SUBSET Nat
    BY <2>0
  <2>3. PICK j \in B : \A k \in B : j <= k
    <3> HIDE DEF B
    <3> QED
      BY <2>1, <2>2, LeastNatural
  <2>4. j \in 1..(i-1) /\ q[j].id = q[i].id /\ \A k \in 1..(j-1) : q[k].id # q[j].id
    BY <2>0, <2>3
  <2>5. Fresh(q, j)
    BY <2>1, <2>4 DEF Fresh, IsSpecial, encoded_token_is_var
  <2>6. \E k \in 1..(i-1) : Fresh(q, k) /\ q[k].id = q[i].id
    BY <2>4, <2>5
  <2> QED
    BY <1>2, <2>1, <2>6 DEF SpecialId
<1> QED
  BY <1>1, <1>2

-----------------------------------------------------------------------------
\* The counts of a query.
LEMMA LeavesArePath ==
  ASSUME NEW q \in Paths
  PROVE  /\ AsLeaves(q) \in Paths /\ Len(AsLeaves(q)) = Len(q)
         /\ \A i \in 1..Len(q) :
              AsLeaves(q)[i].arity = IF IsSpecial(q[i]) THEN 0 ELSE q[i].arity
<1>1. Len(q) \in Nat /\ DOMAIN q = 1..Len(q)
  BY PathFacts DEF Paths
<1>2. \A i \in 1..Len(q) : q[i] \in encoded_token_t /\ q[i].id \in Nat
  BY PathFacts DEF Paths
<1>3. \A i \in 1..Len(q) : encoded_token(q[i].id, 0) \in encoded_token_t
  BY <1>2 DEF encoded_token, encoded_token_t
<1>4. AsLeaves(q) \in [1..Len(q) -> encoded_token_t]
  BY <1>1, <1>2, <1>3 DEF AsLeaves
<1>5. AsLeaves(q) \in Paths /\ Len(AsLeaves(q)) = Len(q)
  BY <1>1, <1>4 DEF Paths
<1>6. ASSUME NEW i \in 1..Len(q)
      PROVE  AsLeaves(q)[i].arity = IF IsSpecial(q[i]) THEN 0 ELSE q[i].arity
  BY <1>1 DEF AsLeaves, encoded_token
<1> QED
  BY <1>5, <1>6

\* The queries without elements below their variables and ranges.
LeafQueries == { q \in Queries : VariablesAreLeaves(q) }

\* The subterms still missing after i tokens of the query.
Missing(q, i) == OpenSlots(AsLeaves(q))[i]

\* A query misses a subterm until its last token.
LEMMA MissingFacts ==
  ASSUME NEW q \in LeafQueries
  PROVE  /\ q \in Paths /\ Len(q) \in Nat /\ DOMAIN q = 1..Len(q)
         /\ \A i \in 0..Len(q) : Missing(q, i) \in Int /\ (Missing(q, i) = 0 <=> i = Len(q))
         /\ Missing(q, 0) = 1
         /\ \A i \in 1..Len(q) :
              Missing(q, i) = Missing(q, i - 1) + (IF IsSpecial(q[i]) THEN 0 ELSE q[i].arity) - 1
<1>1. q \in Paths /\ IsTerm(AsLeaves(q))
  BY QueriesAssumption DEF Paths, LeafQueries, VariablesAreLeaves
<1>2. /\ AsLeaves(q) \in Paths /\ Len(AsLeaves(q)) = Len(q)
      /\ \A i \in 1..Len(q) : AsLeaves(q)[i].arity = IF IsSpecial(q[i]) THEN 0 ELSE q[i].arity
  BY <1>1, LeavesArePath
<1>3. Len(q) \in Nat /\ DOMAIN q = 1..Len(q)
  BY <1>1, PathFacts DEF Paths
<1>4. \A i \in 0..Len(q) : Missing(q, i) \in Int
  BY <1>2, PathFacts DEF Missing, Paths
<1>5. \A i \in 0..Len(q) : Missing(q, i) = 0 <=> i = Len(q)
  BY <1>1, <1>2, <1>3, <1>4 DEF IsTerm, Missing
<1>6. /\ Missing(q, 0) = 1
      /\ \A i \in 1..Len(q) :
           Missing(q, i) = Missing(q, i - 1) + (IF IsSpecial(q[i]) THEN 0 ELSE q[i].arity) - 1
  BY <1>2, OpenSlotsDef DEF Missing, Paths
<1> QED
  BY <1>1, <1>3, <1>4, <1>5, <1>6

-----------------------------------------------------------------------------
(***************************************************************************)
(* The search stays on the index: the node reached leaves as many subterms *)
(* open as the tokens of the query that it stands for, and so does the     *)
(* node where each solved special started.                                 *)
(***************************************************************************)
Placed(v, i) ==
  /\ v \in Paths
  /\ v = RootNode \/ IsNode(index, v)
  /\ OpenSlots(v)[Len(v)] = Missing(query, i)

\* Special s was solved at token p of the query.
SolvedAt(s, p) ==
  /\ p \in DOMAIN query /\ Fresh(query, p) /\ SpecialsBefore(query, p) = s
  /\ bkTable[s].isSolved
  /\ Placed(bkTable[s].root, p - 1)
  /\ bkTable[s].sol \in Solutions(query[p], bkTable[s].root)

\* The types of the state of the loop.
SearchTypes ==
  /\ index \in Indexes /\ query \in LeafQueries
  /\ bkTable \in [0..(SpecialCount(query) - 1) -> [isSolved : BOOLEAN, root : Paths, sol : Paths]]
  /\ lastSolved \in -1..(SpecialCount(query) - 1)
  /\ currentToken \in 1..(Len(query) + 1)

\* The specials up to lastSolved have solutions, each where its token was met.
Solved ==
  /\ \A s \in 0..lastSolved : \E p \in DOMAIN query : SolvedAt(s, p)
  /\ \A s \in (lastSolved + 1)..(SpecialCount(query) - 1) : bkTable[s] = Unsolved

\* In the loop the current node is where the tokens before currentToken lead.
Matched ==
  pc \in {"start", "match"} => /\ Placed(currentNode, currentToken - 1)
                              /\ lastSolved = SpecialsBefore(query, currentToken) - 1

SearchInv == SearchTypes /\ Solved /\ Matched

\* An index is a finite set of terms.
LEMMA IndexFacts ==
  ASSUME NEW ix \in Indexes
  PROVE  ix \in SUBSET Paths /\ IsFiniteSet(ix) /\ \A f \in ix : IsTerm(f)
  BY IndexesAssumption DEF Paths

\* The solutions of a special token at a node are terms below it.
LEMMA SolutionFacts ==
  ASSUME index \in Indexes, NEW tok, NEW v \in Paths
  PROVE  /\ \A s \in Solutions(tok, v) : s \in Paths /\ IsTerm(s) /\ IsNode(index, v \o s)
         /\ IsFiniteSet(Solutions(tok, v))
<1>0. index \in SUBSET Paths /\ IsFiniteSet(index)
  BY IndexFacts
<1>1. Solutions(tok, v) \subseteq TermsFrom(index, v)
  <2>1. ASSUME ~encoded_token_is_var(tok), NEW s \in Solutions(tok, v) PROVE s \in TermsFrom(index, v)
    <3>1. PICK t \in ChildTokens(index, v) : validSubst(t, tok.id) /\ s = <<t>>
      BY <2>1 DEF Solutions
    <3>2. t \in encoded_token_t
      <4>1. PICK f \in index : IsStrictPrefix(v, f) /\ t = f[Len(v) + 1]
        BY DEF ChildTokens
      <4>2. Extends(f, v) /\ v # f /\ f \in Paths /\ Len(v) \in Nat /\ Len(f) \in Nat
        BY <1>0, <4>1, PrefixIsExtends, PathFacts DEF IsStrictPrefix, Paths
      <4>3. Len(v) = Len(f) => v = f
        BY <4>2, SeqEqual DEF Extends, Paths
      <4>4. Len(v) + 1 \in 1..Len(f)
        BY <4>2, <4>3 DEF Extends
      <4> QED
        BY <4>1, <4>2, <4>4, PathFacts DEF Paths
    <3>3. s \in Paths /\ Len(s) = 1 /\ s[1] = t
      BY <3>1, <3>2 DEF Paths
    <3>4. IsTerm(s)
      <4>1. t.arity = 0
        BY <3>1 DEF validSubst
      <4>2. OpenSlots(s)[0] = 1 /\ OpenSlots(s)[1] = OpenSlots(s)[1 - 1] + s[1].arity - 1
        BY <3>3, OpenSlotsDef DEF Paths
      <4>3. OpenSlots(s)[1] = 0
        BY <3>3, <4>1, <4>2
      <4> QED
        BY <3>3, <4>2, <4>3 DEF IsTerm
    <3>5. IsNode(index, v \o s)
      BY <1>0, <3>1, <3>2, ChildIsNode DEF HasChild
    <3> QED
      BY <1>0, <3>3, <3>4, <3>5, TermsFromFacts
  <2>2. encoded_token_is_var(tok) => Solutions(tok, v) = TermsFrom(index, v)
    BY DEF Solutions
  <2> QED
    BY <2>1, <2>2
<1>2. IsFiniteSet(TermsFrom(index, v))
  BY <1>0, TermsFromFinite
<1> QED
  BY <1>0, <1>1, <1>2, TermsFromFacts, FS_Subset

\* A node is a leaf when it leaves nothing open.
LEMMA LeafIsComplete ==
  ASSUME index \in Indexes, NEW v \in Paths, v = RootNode \/ IsNode(index, v)
  PROVE  v \in index <=> OpenSlots(v)[Len(v)] = 0
<1>0. index \in SUBSET Paths /\ \A f \in index : IsTerm(f)
  BY IndexFacts
<1>1. v \in index => OpenSlots(v)[Len(v)] = 0
  BY <1>0 DEF IsTerm
<1>2. ASSUME OpenSlots(v)[Len(v)] = 0 PROVE v \in index
  <2>1. v # RootNode
    BY <1>2, OpenSlotsDef DEF RootNode, Paths
  <2>2. PICK f \in index : Extends(f, v)
    BY <2>1 DEF IsNode
  <2>3. Len(v) \in Nat /\ Len(f) \in Nat /\ Len(v) <= Len(f) /\ f \in Paths /\ IsTerm(f)
    BY <1>0, <2>2, PathFacts DEF Paths, Extends
  <2>4. OpenSlots(f)[Len(v)] = 0
    <3>1. \A k \in 0..Len(v) : OpenSlots(f)[k] = OpenSlots(v)[k]
      BY <2>2, <2>3, OpenPrefix DEF Paths
    <3> QED
      BY <1>2, <2>3, <3>1
  <2>5. Len(v) = Len(f)
    BY <2>3, <2>4 DEF IsTerm
  <2>6. v = f
    BY <2>2, <2>3, <2>5, SeqEqual DEF Extends, Paths
  <2> QED
    BY <2>6
<1> QED
  BY <1>1, <1>2

\* A leaf is reached at the end of the query and nowhere else.
LeavesAtEnd ==
  pc = "match" => (IsLeaf(index, currentNode) <=> currentToken = Len(query) + 1)

\* The asserts of the accessors follow from the place of the search.
LEMMA SearchGivesAsserts == SearchInv => LeavesAtEnd
<1> SUFFICES ASSUME SearchInv, pc = "match"
             PROVE  IsLeaf(index, currentNode) <=> currentToken = Len(query) + 1
  BY DEF LeavesAtEnd
<1>1. /\ index \in Indexes /\ query \in LeafQueries /\ currentToken \in 1..(Len(query) + 1)
      /\ Placed(currentNode, currentToken - 1)
  BY DEF SearchInv, SearchTypes, Matched
<1>2. currentNode \in index <=> Missing(query, currentToken - 1) = 0
  BY <1>1, LeafIsComplete DEF Placed
<1>3. Len(query) \in Nat /\ currentToken - 1 \in 0..Len(query)
  BY <1>1, MissingFacts
<1>4. Missing(query, currentToken - 1) = 0 <=> currentToken - 1 = Len(query)
  BY <1>1, <1>3, MissingFacts
<1> QED
  BY <1>1, <1>2, <1>3, <1>4 DEF IsLeaf

\* The root leaves one term open.
LEMMA RootFacts ==
  RootNode \in Paths /\ Len(RootNode) = 0 /\ OpenSlots(RootNode)[0] = 1
<1>1. RootNode \in Paths /\ Len(RootNode) = 0
  BY EmptySeq DEF RootNode, Paths
<1> QED
  BY <1>1, OpenSlotsDef DEF Paths

\* The search starts at the root.
LEMMA SearchInit == Init /\ VariablesAreLeaves(query) => SearchInv
<1> SUFFICES ASSUME Init, VariablesAreLeaves(query) PROVE SearchInv
  OBVIOUS
<1>1. index \in Indexes /\ query \in LeafQueries /\ currentToken = 1 /\ currentNode = RootNode
      /\ lastSolved = -1
      /\ bkTable = [s \in 0..(SpecialCount(query) - 1) |-> Unsolved]
  BY DEF Init, LeafQueries
<1>2. /\ query \in Paths /\ Len(query) \in Nat /\ Missing(query, 0) = 1
  BY <1>1, MissingFacts
<1>3. RootNode \in Paths /\ Len(RootNode) = 0 /\ OpenSlots(RootNode)[0] = 1
  BY RootFacts
<1>4. SpecialCount(query) \in Nat
  BY <1>2, SpecialsStep DEF SpecialCount
<1>5. Unsolved \in [isSolved : BOOLEAN, root : Paths, sol : Paths]
  BY <1>3 DEF Unsolved, RootNode
<1>6. SearchTypes
  BY <1>1, <1>2, <1>4, <1>5 DEF SearchTypes
<1>7. Solved
  BY <1>1, <1>4 DEF Solved
<1>8. Matched
  <2>1. SpecialsBefore(query, 1) = 0
    <3>1. { j \in 1..(1-1) : Fresh(query, j) } = {}
      OBVIOUS
    <3> QED
      BY <3>1, FS_EmptySet DEF SpecialsBefore
  <2> QED
    BY <1>1, <1>2, <1>3, <2>1 DEF Matched, Placed
<1> QED
  BY <1>6, <1>7, <1>8 DEF SearchInv

searchVars == <<index, query, bkTable, lastSolved, currentToken, currentNode>>

\* Steps that leave the search where it is.
LEMMA SearchQuiet ==
  ASSUME SearchInv, UNCHANGED searchVars, pc' \in {"start", "match"} => pc \in {"start", "match"}
  PROVE  SearchInv'
<1>1. UNCHANGED <<index, query, bkTable, lastSolved, currentToken, currentNode>>
  BY DEF searchVars
<1>2. SearchTypes'
  BY <1>1 DEF SearchInv, SearchTypes
<1>3. Solved'
  <2>1. ASSUME NEW s, NEW p, SolvedAt(s, p) PROVE SolvedAt(s, p)'
    BY <1>1, <2>1 DEF SolvedAt, Placed, Solutions
  <2> QED
    BY <1>1, <2>1 DEF SearchInv, Solved
<1>4. Matched'
  BY <1>1 DEF SearchInv, Matched, Placed
<1> QED
  BY <1>2, <1>3, <1>4 DEF SearchInv

\* What is known at a token of the query.
LEMMA AtTokenFacts ==
  ASSUME SearchInv, AtToken
  PROVE  /\ index \in Indexes /\ query \in LeafQueries /\ query \in Paths
         /\ currentToken \in 1..Len(query) /\ Len(query) \in Nat
         /\ currentToken \in DOMAIN query
         /\ query[currentToken] \in encoded_token_t
         /\ currentNode \in Paths /\ Placed(currentNode, currentToken - 1)
         /\ lastSolved = SpecialsBefore(query, currentToken) - 1
         /\ SpecialsBefore(query, currentToken) \in Nat
<1>1. /\ index \in Indexes /\ query \in LeafQueries /\ currentToken \in 1..(Len(query) + 1)
      /\ currentToken <= Len(query) /\ Placed(currentNode, currentToken - 1)
      /\ lastSolved = SpecialsBefore(query, currentToken) - 1
  BY DEF SearchInv, SearchTypes, Matched, AtToken
<1>2. query \in Paths /\ Len(query) \in Nat /\ DOMAIN query = 1..Len(query)
  BY <1>1, MissingFacts
<1>3. currentToken \in 1..Len(query) /\ currentToken \in Nat \ {0}
  BY <1>1, <1>2
<1>4. query[currentToken] \in encoded_token_t
  BY <1>2, <1>3, PathFacts DEF Paths
<1> QED
  BY <1>1, <1>2, <1>3, <1>4, SpecialsStep DEF Placed

\* The node reached through a constant token.
LEMMA OpenAppend ==
  ASSUME NEW v \in Paths, NEW tok \in encoded_token_t
  PROVE  /\ v \o <<tok>> \in Paths
         /\ OpenSlots(v \o <<tok>>)[Len(v \o <<tok>>)] = OpenSlots(v)[Len(v)] + tok.arity - 1
<1>0. <<tok>> \in Paths /\ Len(<<tok>>) = 1 /\ <<tok>>[1] = tok /\ Len(v) \in Nat
  BY PathFacts DEF Paths
<1>1. PICK y \in Paths : /\ y = v \o <<tok>> /\ Len(y) = Len(v) + 1 /\ Extends(y, v)
                        /\ y[Len(v) + 1] = tok
  <2>1. PICK one \in Paths : one = <<tok>> /\ Len(one) = 1 /\ one[1] = tok
    BY <1>0
  <2>2. /\ v \o one \in Paths /\ Len(v \o one) = Len(v) + Len(one) /\ Extends(v \o one, v)
        /\ \A k \in 1..Len(one) : (v \o one)[Len(v) + k] = one[k]
    BY ConcatFacts
  <2>3. 1 \in 1..Len(one)
    BY <2>1
  <2>4. (v \o one)[Len(v) + 1] = tok /\ Len(v \o one) = Len(v) + 1
    BY <2>1, <2>2, <2>3
  <2> QED
    BY <2>1, <2>2, <2>4, Zenon
<1>2. OpenSlots(y)[Len(v) + 1] = OpenSlots(y)[Len(v)] + tok.arity - 1
  <2>1. Len(v) + 1 \in 1..Len(y) /\ (Len(v) + 1) - 1 = Len(v)
    BY <1>0, <1>1
  <2> QED
    BY <1>1, <2>1, OpenSlotsDef DEF Paths
<1>3. OpenSlots(y)[Len(v)] = OpenSlots(v)[Len(v)]
  <2>1. \A k \in 0..Len(v) : OpenSlots(y)[k] = OpenSlots(v)[k]
    BY <1>1, OpenPrefix DEF Paths
  <2> QED
    BY <1>0, <2>1
<1> QED
  BY <1>1, <1>2, <1>3

\* The node reached through a constant is placed one token further.
LEMMA ConstPlaced ==
  ASSUME SearchInv, AtToken, ~IsSpecial(query[currentToken]),
         HasChild(index, currentNode, query[currentToken])
  PROVE  /\ Append(currentNode, query[currentToken]) = currentNode \o <<query[currentToken]>>
         /\ Placed(currentNode \o <<query[currentToken]>>, currentToken)
         /\ IsNode(index, currentNode \o <<query[currentToken]>>)
<1>1. /\ index \in Indexes /\ query \in LeafQueries /\ currentToken \in 1..Len(query)
      /\ query[currentToken] \in encoded_token_t
      /\ currentNode \in Paths /\ Placed(currentNode, currentToken - 1)
  BY AtTokenFacts
<1>2. PICK tok \in encoded_token_t : tok = query[currentToken]
  BY <1>1
<1>3. IsNode(index, currentNode \o <<tok>>)
  BY <1>1, <1>2, IndexFacts, ChildIsNode
<1>4. OpenSlots(currentNode \o <<tok>>)[Len(currentNode \o <<tok>>)]
        = OpenSlots(currentNode)[Len(currentNode)] + tok.arity - 1
  BY <1>1, OpenAppend
<1>5. Missing(query, currentToken) = Missing(query, currentToken - 1) + tok.arity - 1
  BY <1>1, <1>2, MissingFacts
<1>6. Append(currentNode, tok) = currentNode \o <<tok>>
  BY <1>1, AppendIsConcat DEF Paths
<1>7. Placed(currentNode \o <<tok>>, currentToken)
  BY <1>1, <1>3, <1>4, <1>5, OpenAppend DEF Placed
<1> QED
  BY <1>2, <1>3, <1>6, <1>7

\* The node reached through a term for a special token.
LEMMA TermPlaced ==
  ASSUME NEW i \in 1..Len(query), query \in LeafQueries, IsSpecial(query[i]),
         NEW v, Placed(v, i - 1), NEW s \in Paths, IsTerm(s), IsNode(index, v \o s)
  PROVE  Placed(v \o s, i)
<1>1. v \in Paths /\ OpenSlots(v)[Len(v)] = Missing(query, i - 1)
  BY DEF Placed
<1>2. OpenSlots(v \o s)[Len(v \o s)] = OpenSlots(v)[Len(v)] - 1
  BY <1>1, OpenConcat
<1>3. Missing(query, i) = Missing(query, i - 1) + 0 - 1 /\ Missing(query, i - 1) \in Int
  <2>1. i - 1 \in 0..Len(query)
    BY MissingFacts
  <2> QED
    BY <2>1, MissingFacts
<1>4. Missing(query, i) = Missing(query, i - 1) - 1
  BY <1>3
<1> QED
  BY <1>1, <1>2, <1>4, ConcatFacts DEF Placed

\* The entry of the backtrack table that a special token looks at.
LEMMA EntryOf ==
  ASSUME SearchInv, AtToken, IsSpecial(query[currentToken])
  PROVE  LET id == SpecialId(query, currentToken)
         IN  /\ id \in 0..(SpecialCount(query) - 1)
             /\ \/ /\ Fresh(query, currentToken) /\ id = lastSolved + 1
                   /\ id = SpecialsBefore(query, currentToken) /\ bkTable[id] = Unsolved
                \/ /\ ~Fresh(query, currentToken) /\ encoded_token_is_var(query[currentToken])
                   /\ ~encoded_token_is_anon_var(query[currentToken])
                   /\ id \in 0..lastSolved
                   /\ \E j \in 1..(currentToken - 1) :
                        SolvedAt(id, j) /\ query[j].id = query[currentToken].id
<1> DEFINE id == SpecialId(query, currentToken)
<1>1. /\ query \in Paths /\ currentToken \in 1..Len(query) /\ Len(query) \in Nat
      /\ currentToken \in DOMAIN query /\ DOMAIN query = 1..Len(query)
      /\ lastSolved = SpecialsBefore(query, currentToken) - 1
      /\ SpecialsBefore(query, currentToken) \in Nat
  BY AtTokenFacts, MissingFacts
<1>2. SpecialCount(query) = SpecialsBefore(query, Len(query) + 1) /\ SpecialCount(query) \in Nat
  BY <1>1, SpecialsStep DEF SpecialCount
<1>3. CASE Fresh(query, currentToken) /\ id = SpecialsBefore(query, currentToken)
  <2>1. SpecialsBefore(query, currentToken) < SpecialsBefore(query, Len(query) + 1)
    BY <1>1, <1>3, SpecialsGrow
  <2>2. id \in 0..(SpecialCount(query) - 1) /\ id = lastSolved + 1
    BY <1>1, <1>2, <1>3, <2>1
  <2>3. bkTable[id] = Unsolved
    BY <1>1, <2>2 DEF SearchInv, Solved
  <2> QED
    BY <1>3, <2>2, <2>3
<1>4. ASSUME ~Fresh(query, currentToken), encoded_token_is_var(query[currentToken]),
             ~encoded_token_is_anon_var(query[currentToken]),
             NEW j \in 1..(currentToken - 1), Fresh(query, j),
             query[j].id = query[currentToken].id, id = SpecialsBefore(query, j)
      PROVE  /\ id \in 0..(SpecialCount(query) - 1) /\ id \in 0..lastSolved /\ SolvedAt(id, j)
  <2>1. j \in Nat \ {0} /\ j < currentToken /\ j < Len(query) + 1 /\ j \in DOMAIN query
    BY <1>1
  <2>2. /\ SpecialsBefore(query, j) < SpecialsBefore(query, currentToken)
        /\ SpecialsBefore(query, j) < SpecialsBefore(query, Len(query) + 1)
        /\ SpecialsBefore(query, j) \in Nat
    <3>1. currentToken \in Nat /\ Len(query) + 1 \in Nat
      BY <1>1
    <3> QED
      BY <1>4, <2>1, <3>1, SpecialsGrow, SpecialsStep
  <2>3. id \in 0..lastSolved /\ id \in 0..(SpecialCount(query) - 1)
    BY <1>1, <1>2, <1>4, <2>2
  <2>4. PICK p \in DOMAIN query : SolvedAt(id, p)
    BY <2>3 DEF SearchInv, Solved
  <2>5. FreshPosition(query, SpecialsBefore(query, p)) = p /\ SpecialsBefore(query, p) = id
    BY <1>1, <2>4, FreshPositionIs DEF SolvedAt
  <2>6. FreshPosition(query, SpecialsBefore(query, j)) = j
    BY <1>1, <1>4, <2>1, FreshPositionIs
  <2> QED
    BY <1>4, <2>3, <2>4, <2>5, <2>6
<1> HIDE DEF id
<1>5. \/ Fresh(query, currentToken) /\ id = SpecialsBefore(query, currentToken)
      \/ /\ ~Fresh(query, currentToken) /\ encoded_token_is_var(query[currentToken])
         /\ ~encoded_token_is_anon_var(query[currentToken])
         /\ \E j \in 1..(currentToken - 1) : /\ Fresh(query, j) /\ query[j].id = query[currentToken].id
                                             /\ id = SpecialsBefore(query, j)
  BY <1>1, SpecialIdIs DEF id
<1> QED
  BY <1>3, <1>4, <1>5 DEF id

\* A token that is not fresh is passed without a new solution.
LEMMA Passed ==
  ASSUME SearchInv, AtToken, ~Fresh(query, currentToken),
         UNCHANGED <<index, query, bkTable, lastSolved>>,
         Placed(currentNode', currentToken), currentToken' = currentToken + 1
  PROVE  SearchInv'
<1>1. /\ currentToken \in 1..Len(query) /\ Len(query) \in Nat
      /\ lastSolved = SpecialsBefore(query, currentToken) - 1
  BY AtTokenFacts
<1>2. SpecialsBefore(query, currentToken + 1) = SpecialsBefore(query, currentToken)
  BY <1>1, SpecialsStep
<1>3. currentToken' \in 1..(Len(query) + 1) /\ currentToken' - 1 = currentToken
  BY <1>1
<1>4. SearchTypes'
  BY <1>3 DEF SearchInv, SearchTypes
<1>5. Solved'
  <2>1. ASSUME NEW s, NEW p, SolvedAt(s, p) PROVE SolvedAt(s, p)'
    BY <2>1 DEF SolvedAt, Placed, Solutions
  <2> QED
    BY <2>1 DEF SearchInv, Solved
<1>6. Matched'
  BY <1>1, <1>2, <1>3 DEF Matched, Placed
<1> QED
  BY <1>4, <1>5, <1>6 DEF SearchInv

\* A constant token keeps the invariant.
LEMMA SearchConst == SearchInv /\ MatchConst => SearchInv'
<1> SUFFICES ASSUME SearchInv, MatchConst PROVE SearchInv'
  OBVIOUS
<1>0. AtToken /\ ~IsSpecial(query[currentToken]) /\ UNCHANGED <<index, query, bkTable, lastSolved>>
  BY DEF MatchConst, inputs
<1>1. CASE HasChild(index, currentNode, query[currentToken])
           /\ GoAhead(Append(currentNode, query[currentToken]))
  <2>1. Placed(currentNode', currentToken) /\ currentToken' = currentToken + 1
    BY <1>0, <1>1, ConstPlaced DEF GoAhead
  <2>2. ~Fresh(query, currentToken)
    BY <1>0 DEF Fresh
  <2> QED
    BY <1>0, <2>1, <2>2, Passed
<1>2. CASE GiveUp
  BY <1>0, <1>2, SearchQuiet DEF GiveUp, searchVars
<1> QED
  BY <1>1, <1>2 DEF MatchConst

\* HasPath asks whether a path leads to a node.
LEMMA PathIsNode ==
  ASSUME index \in Indexes, NEW v \in Paths, NEW s \in Paths
  PROVE  HasPath(v, s) <=> IsNode(index, v \o s)
<1>1. v \o s \in Paths /\ \A f \in index : f \in Paths
  BY ConcatFacts, IndexFacts
<1> QED
  BY <1>1, PrefixIsExtends DEF HasPath, IsNode

\* The solution that a repeated variable repeats.
LEMMA ReplayedIsSolved ==
  ASSUME SearchInv, AtToken, encoded_token_is_var(query[currentToken]),
         bkTable[SpecialId(query, currentToken)].isSolved
  PROVE  LET id == SpecialId(query, currentToken)
         IN  /\ ~Fresh(query, currentToken) /\ IsSpecial(query[currentToken])
             /\ ~encoded_token_is_anon_var(query[currentToken])
             /\ id \in 0..lastSolved
             /\ \E j \in 1..(currentToken - 1) :
                  SolvedAt(id, j) /\ query[j].id = query[currentToken].id
             /\ bkTable[id].sol \in Paths /\ IsTerm(bkTable[id].sol)
<1> DEFINE id == SpecialId(query, currentToken)
<1>1. IsSpecial(query[currentToken])
  BY DEF IsSpecial
<1>2. bkTable[id] # Unsolved
  BY DEF Unsolved
<1> HIDE DEF id
<1>3. /\ ~Fresh(query, currentToken) /\ ~encoded_token_is_anon_var(query[currentToken])
      /\ id \in 0..lastSolved
      /\ \E j \in 1..(currentToken - 1) : SolvedAt(id, j) /\ query[j].id = query[currentToken].id
  BY <1>1, <1>2, EntryOf DEF id
<1>4. bkTable[id].sol \in Paths /\ IsTerm(bkTable[id].sol)
  <2>1. PICK j : SolvedAt(id, j)
    BY <1>3
  <2> QED
    BY <2>1, AtTokenFacts, SolutionFacts DEF SolvedAt, Placed
<1> QED
  BY <1>1, <1>3, <1>4 DEF id

\* A repeated variable keeps the invariant.
LEMMA SearchReplay == SearchInv /\ ReplayQvar => SearchInv'
<1> SUFFICES ASSUME SearchInv, ReplayQvar PROVE SearchInv'
  OBVIOUS
<1>0. /\ AtToken /\ encoded_token_is_var(query[currentToken])
      /\ bkTable[SpecialId(query, currentToken)].isSolved
      /\ UNCHANGED <<index, query, bkTable, lastSolved>>
  BY DEF ReplayQvar, inputs
<1>1. PICK sol : sol = bkTable[SpecialId(query, currentToken)].sol
  OBVIOUS
<1>2. /\ ~Fresh(query, currentToken) /\ IsSpecial(query[currentToken]) /\ sol \in Paths /\ IsTerm(sol)
  BY <1>0, <1>1, ReplayedIsSolved
<1>3. CASE HasPath(currentNode, sol) /\ GoAhead(currentNode \o sol)
  <2>1. Placed(currentNode \o sol, currentToken)
    <3>1. IsNode(index, currentNode \o sol)
      BY <1>0, <1>2, <1>3, AtTokenFacts, PathIsNode
    <3> QED
      BY <1>0, <1>2, <3>1, AtTokenFacts, TermPlaced
  <2>2. currentNode' = currentNode \o sol /\ currentToken' = currentToken + 1
    BY <1>3 DEF GoAhead
  <2> QED
    BY <1>0, <1>2, <2>1, <2>2, Passed
<1>4. CASE GiveUp
  BY <1>0, <1>4, SearchQuiet DEF GiveUp, searchVars
<1> QED
  BY <1>1, <1>3, <1>4 DEF ReplayQvar

\* Special id is given a solution at token p of the query, below the node root.
GivenSolution(id, p, root, sol) ==
  /\ UNCHANGED <<index, query>>
  /\ id \in 0..(SpecialCount(query) - 1) /\ p \in DOMAIN query
  /\ Placed(root, p - 1) /\ sol \in Solutions(query[p], root)
  /\ Fresh(query, p) /\ SpecialsBefore(query, p) = id /\ id <= lastSolved + 1
  /\ bkTable' = [bkTable EXCEPT ![id] = [isSolved |-> TRUE, root |-> root, sol |-> sol]]
  /\ lastSolved' = id
  /\ \A s \in (id + 1)..(SpecialCount(query) - 1) : bkTable[s] = Unsolved
  /\ currentNode' = root \o sol /\ currentToken' = p + 1

\* The specials before it keep theirs.
LEMMA SolvedOne ==
  ASSUME SearchInv, NEW id, NEW p, NEW root, NEW sol, GivenSolution(id, p, root, sol)
  PROVE  SearchInv'
<1> USE DEF GivenSolution
<1>1. /\ index \in Indexes /\ query \in LeafQueries /\ lastSolved \in -1..(SpecialCount(query) - 1)
      /\ bkTable \in [0..(SpecialCount(query) - 1) -> [isSolved : BOOLEAN, root : Paths, sol : Paths]]
  BY DEF SearchInv, SearchTypes
<1>2. query \in Paths /\ Len(query) \in Nat /\ DOMAIN query = 1..Len(query) /\ SpecialCount(query) \in Nat
  <2>1. query \in Paths /\ Len(query) \in Nat /\ DOMAIN query = 1..Len(query)
    BY <1>1, MissingFacts
  <2> QED
    BY <2>1, SpecialsStep DEF SpecialCount
<1>3. root \in Paths /\ sol \in Paths /\ IsTerm(sol) /\ IsNode(index, root \o sol)
  BY <1>1, SolutionFacts DEF Placed
<1>4. SearchTypes'
  <2>1. currentToken' \in 1..(Len(query) + 1)
    BY <1>2
  <2>2. bkTable' \in [0..(SpecialCount(query) - 1) -> [isSolved : BOOLEAN, root : Paths, sol : Paths]]
    BY <1>1, <1>3
  <2>3. lastSolved' \in -1..(SpecialCount(query) - 1)
    BY <1>2
  <2> QED
    BY <1>1, <2>1, <2>2, <2>3 DEF SearchTypes
<1>5. bkTable'[id] = [isSolved |-> TRUE, root |-> root, sol |-> sol]
  BY <1>1
<1>6. ASSUME NEW s \in 0..(SpecialCount(query) - 1), s # id PROVE bkTable'[s] = bkTable[s]
  BY <1>1, <1>6
<1>7. Solved'
  <2>1. SolvedAt(id, p)'
    BY <1>5 DEF SolvedAt, Placed, Solutions
  <2>2. ASSUME NEW s \in 0..lastSolved, s # id, NEW k, SolvedAt(s, k) PROVE SolvedAt(s, k)'
    <3>1. bkTable'[s] = bkTable[s]
      BY <1>1, <1>2, <1>6, <2>2
    <3> QED
      BY <2>2, <3>1 DEF SolvedAt, Placed, Solutions
  <2>3. ASSUME NEW s \in 0..lastSolved' PROVE \E k \in DOMAIN query : SolvedAt(s, k)'
    <3>1. CASE s = id
      BY <2>1, <3>1
    <3>2. CASE s # id
      <4>1. s \in 0..lastSolved
        BY <1>1, <3>2
      <4>2. PICK k \in DOMAIN query : SolvedAt(s, k)
        BY <4>1 DEF SearchInv, Solved
      <4> QED
        BY <2>2, <3>2, <4>1, <4>2
    <3> QED
      BY <3>1, <3>2
  <2>4. ASSUME NEW s \in (lastSolved' + 1)..(SpecialCount(query) - 1) PROVE bkTable'[s] = Unsolved
    <3>1. s \in (id + 1)..(SpecialCount(query) - 1) /\ s \in 0..(SpecialCount(query) - 1) /\ s # id
      BY <1>2
    <3> QED
      BY <1>6, <3>1
  <2> QED
    BY <2>3, <2>4 DEF Solved
<1>8. Matched'
  <2>1. Placed(root \o sol, p)
    <3>1. IsSpecial(query[p]) /\ p \in 1..Len(query)
      BY <1>2 DEF Fresh
    <3> QED
      BY <1>1, <1>3, <3>1, TermPlaced
  <2>2. SpecialsBefore(query, p + 1) = id + 1
    BY <1>2, SpecialsStep
  <2>3. (p + 1) - 1 = p /\ (id + 1) - 1 = id
    BY <1>2
  <2> QED
    BY <2>1, <2>2, <2>3 DEF Matched, Placed
<1> QED
  BY <1>4, <1>7, <1>8 DEF SearchInv

\* A token that is solved was not solved before.
LEMMA SolveIsFresh ==
  ASSUME SearchInv, Solve
  PROVE  LET id == SpecialId(query, currentToken)
         IN  /\ Fresh(query, currentToken) /\ id = SpecialsBefore(query, currentToken)
             /\ id = lastSolved + 1 /\ id \in 0..(SpecialCount(query) - 1) /\ bkTable[id] = Unsolved
<1> DEFINE id == SpecialId(query, currentToken)
<1>1. AtToken /\ IsSpecial(query[currentToken])
      /\ (encoded_token_is_var(query[currentToken]) => ~bkTable[id].isSolved)
  BY DEF Solve
<1>2. ~(encoded_token_is_var(query[currentToken]) /\ \E j \in 1..(currentToken - 1) : SolvedAt(id, j))
  BY <1>1 DEF SolvedAt
<1> HIDE DEF id
<1> QED
  BY <1>1, <1>2, EntryOf DEF id

\* The first solution of a special.
LEMMA SolveGives ==
  ASSUME SearchInv, Solve
  PROVE  LET S == Solutions(query[currentToken], currentNode)
         IN  \/ /\ S # {} /\ FirstTerm(S) \in S /\ pc' = "match"
                /\ GivenSolution(lastSolved + 1, currentToken, currentNode, FirstTerm(S))
             \/ S = {} /\ GiveUp /\ UNCHANGED <<index, query, bkTable, lastSolved>>
<1> DEFINE id == SpecialId(query, currentToken)
           S == Solutions(query[currentToken], currentNode)
<1>0. AtToken /\ UNCHANGED <<index, query>>
  BY DEF Solve, inputs
<1>1. /\ Fresh(query, currentToken) /\ id = SpecialsBefore(query, currentToken)
      /\ id = lastSolved + 1 /\ id \in 0..(SpecialCount(query) - 1) /\ bkTable[id] = Unsolved
  BY SolveIsFresh
<1>2. /\ index \in Indexes /\ currentToken \in DOMAIN query /\ currentNode \in Paths
      /\ Placed(currentNode, currentToken - 1)
  BY <1>0, AtTokenFacts
<1>3. /\ bkTable \in [0..(SpecialCount(query) - 1) -> [isSolved : BOOLEAN, root : Paths, sol : Paths]]
      /\ \A s \in (lastSolved + 1)..(SpecialCount(query) - 1) : bkTable[s] = Unsolved
      /\ lastSolved \in -1..(SpecialCount(query) - 1)
  BY DEF SearchInv, SearchTypes, Solved
<1>4. CASE /\ S # {} /\ lastSolved' = id /\ GoAhead(currentNode \o FirstTerm(S))
           /\ bkTable' = [bkTable EXCEPT ![id] = [isSolved |-> TRUE, root |-> currentNode,
                                                   sol |-> FirstTerm(S)]]
  <2>1. FirstTerm(S) \in S
    BY <1>2, <1>4, SolutionFacts, FirstTermIsFirst
  <2>2. currentNode' = currentNode \o FirstTerm(S) /\ currentToken' = currentToken + 1 /\ pc' = "match"
    BY <1>4 DEF GoAhead
  <2>3. \A s \in (id + 1)..(SpecialCount(query) - 1) : bkTable[s] = Unsolved
    BY <1>1, <1>3
  <2>4. id <= lastSolved + 1
    BY <1>1, <1>3
  <2> HIDE DEF id
  <2> QED
    BY <1>0, <1>1, <1>2, <1>4, <2>1, <2>2, <2>3, <2>4 DEF GivenSolution
<1>5. CASE S = {} /\ bkTable' = [bkTable EXCEPT ![id] = Unsolved] /\ GiveUp /\ UNCHANGED lastSolved
  <2>1. bkTable' = bkTable
    BY <1>1, <1>3, <1>5
  <2> QED
    BY <1>0, <1>5, <2>1
<1> QED
  BY <1>4, <1>5 DEF Solve

\* Solving a special keeps the invariant.
LEMMA SearchSolve == SearchInv /\ Solve => SearchInv'
<1> SUFFICES ASSUME SearchInv, Solve PROVE SearchInv'
  OBVIOUS
<1>1. \/ \E id, p, root, sol : GivenSolution(id, p, root, sol)
      \/ GiveUp /\ UNCHANGED <<index, query, bkTable, lastSolved>>
  BY SolveGives
<1>2. CASE GiveUp /\ UNCHANGED <<index, query, bkTable, lastSolved>>
  BY <1>2, SearchQuiet DEF GiveUp, searchVars
<1> QED
  BY <1>1, <1>2, SolvedOne

\* The special that is asked for its next solution.
LEMMA LastSolvedFacts ==
  ASSUME SearchInv, lastSolved >= 0
  PROVE  \E p \in DOMAIN query :
           /\ SolvedAt(lastSolved, p) /\ FreshPosition(query, lastSolved) = p
           /\ BacktrackPoint(query, lastSolved) = p + 1
           /\ lastSolved \in 0..(SpecialCount(query) - 1)
           /\ LaterSolutions(lastSolved)
                = { t \in Solutions(query[p], bkTable[lastSolved].root) : TermLess(bkTable[lastSolved].sol, t) }
<1>1. lastSolved \in -1..(SpecialCount(query) - 1) /\ query \in LeafQueries
  BY DEF SearchInv, SearchTypes
<1>2. query \in Paths /\ Len(query) \in Nat
  BY <1>1, MissingFacts
<1>3. SpecialCount(query) \in Nat
  BY <1>2, SpecialsStep DEF SpecialCount
<1>4. lastSolved \in 0..lastSolved /\ lastSolved \in 0..(SpecialCount(query) - 1)
  BY <1>1, <1>3
<1>5. PICK p \in DOMAIN query : SolvedAt(lastSolved, p)
  BY <1>4 DEF SearchInv, Solved
<1>6. FreshPosition(query, lastSolved) = p
  BY <1>2, <1>5, FreshPositionIs DEF SolvedAt
<1> QED
  BY <1>4, <1>5, <1>6 DEF BacktrackPoint, LaterSolutions

\* The next solution of the special solved last.
LEMMA NextGives ==
  ASSUME SearchInv, NextSol
  PROVE  LET L == LaterSolutions(lastSolved)
         IN  /\ FirstTerm(L) \in L /\ \A t \in L : t = FirstTerm(L) \/ TermLess(FirstTerm(L), t)
             /\ \E p : GivenSolution(lastSolved, p, bkTable[lastSolved].root, FirstTerm(L))
<1>0. UNCHANGED <<index, query, lastSolved>> /\ lastSolved >= 0 /\ LaterSolutions(lastSolved) # {}
  BY DEF NextSol, inputs
<1>1. PICK p \in DOMAIN query :
        /\ SolvedAt(lastSolved, p) /\ BacktrackPoint(query, lastSolved) = p + 1
        /\ lastSolved \in 0..(SpecialCount(query) - 1)
        /\ LaterSolutions(lastSolved)
             = { t \in Solutions(query[p], bkTable[lastSolved].root) : TermLess(bkTable[lastSolved].sol, t) }
  BY <1>0, LastSolvedFacts
<1>2. PICK L : L = LaterSolutions(lastSolved)
  OBVIOUS
<1>3. PICK root \in Paths : root = bkTable[lastSolved].root
  BY <1>1 DEF SolvedAt, Placed
<1>4. /\ FirstTerm(L) \in Solutions(query[p], root)
      /\ FirstTerm(L) \in L /\ \A t \in L : t = FirstTerm(L) \/ TermLess(FirstTerm(L), t)
  <2>1. index \in Indexes /\ L \subseteq Solutions(query[p], root) /\ L # {}
    BY <1>0, <1>1, <1>2, <1>3 DEF SearchInv, SearchTypes
  <2>2. IsFiniteSet(L) /\ \A s \in L : s \in Paths /\ IsTerm(s)
    BY <2>1, <1>3, SolutionFacts, FS_Subset
  <2>3. FirstTerm(L) \in L /\ \A t \in L : t = FirstTerm(L) \/ TermLess(FirstTerm(L), t)
    BY <2>1, <2>2, FirstTermIsFirst
  <2> QED
    BY <2>1, <2>3
<1>5. bkTable \in [0..(SpecialCount(query) - 1) -> [isSolved : BOOLEAN, root : Paths, sol : Paths]]
  BY DEF SearchInv, SearchTypes
<1>6. bkTable' = [bkTable EXCEPT ![lastSolved] = [isSolved |-> TRUE, root |-> root, sol |-> FirstTerm(L)]]
  <2>1. bkTable' = [bkTable EXCEPT ![lastSolved].sol = FirstTerm(L)]
    BY <1>2 DEF NextSol
  <2>2. bkTable[lastSolved].isSolved = TRUE /\ bkTable[lastSolved] \in [isSolved : BOOLEAN, root : Paths, sol : Paths]
    BY <1>1, <1>5 DEF SolvedAt
  <2>3. [bkTable[lastSolved] EXCEPT !.sol = FirstTerm(L)] = [isSolved |-> TRUE, root |-> root, sol |-> FirstTerm(L)]
    <3>1. PICK e \in [isSolved : BOOLEAN, root : Paths, sol : Paths] : e = bkTable[lastSolved]
      BY <2>2
    <3>2. [e EXCEPT !.sol = FirstTerm(L)] = [isSolved |-> e.isSolved, root |-> e.root, sol |-> FirstTerm(L)]
      OBVIOUS
    <3> QED
      BY <1>3, <2>2, <3>1, <3>2, Zenon
  <2> QED
    BY <2>1, <2>3
<1>7. currentNode' = root \o FirstTerm(L) /\ currentToken' = p + 1
  BY <1>1, <1>2, <1>3 DEF NextSol
<1>8. lastSolved <= lastSolved + 1 /\ \A s \in (lastSolved + 1)..(SpecialCount(query) - 1) : bkTable[s] = Unsolved
  BY <1>1 DEF SearchInv, Solved
<1>9. Placed(root, p - 1) /\ Fresh(query, p) /\ SpecialsBefore(query, p) = lastSolved
  BY <1>1, <1>3 DEF SolvedAt
<1>10. GivenSolution(lastSolved, p, root, FirstTerm(L))
  BY <1>0, <1>1, <1>4, <1>6, <1>7, <1>8, <1>9 DEF GivenSolution
<1> QED
  BY <1>2, <1>3, <1>4, <1>10

\* Taking the next solution keeps the invariant.
LEMMA SearchNext == SearchInv /\ NextSol => SearchInv'
  BY NextGives, SolvedOne

\* Dropping a special without further solutions keeps the invariant.
LEMMA SearchNoNext == SearchInv /\ NoNextSol => SearchInv'
<1> SUFFICES ASSUME SearchInv, NoNextSol PROVE SearchInv'
  OBVIOUS
<1>0. /\ UNCHANGED <<index, query, currentToken>> /\ lastSolved >= 0 /\ pc' = "backtrack"
      /\ bkTable' = [bkTable EXCEPT ![lastSolved] = Unsolved] /\ lastSolved' = lastSolved - 1
  BY DEF NoNextSol, inputs
<1>1. /\ lastSolved \in -1..(SpecialCount(query) - 1) /\ query \in LeafQueries
      /\ bkTable \in [0..(SpecialCount(query) - 1) -> [isSolved : BOOLEAN, root : Paths, sol : Paths]]
  BY DEF SearchInv, SearchTypes
<1>2. SpecialCount(query) \in Nat
  BY <1>1, MissingFacts, SpecialsStep DEF SpecialCount
<1>3. Unsolved \in [isSolved : BOOLEAN, root : Paths, sol : Paths]
  BY RootFacts DEF Unsolved, RootNode
<1>4. SearchTypes'
  <2>1. bkTable' \in [0..(SpecialCount(query) - 1) -> [isSolved : BOOLEAN, root : Paths, sol : Paths]]
    BY <1>0, <1>1, <1>3
  <2>2. lastSolved' \in -1..(SpecialCount(query) - 1)
    BY <1>0, <1>1, <1>2
  <2> QED
    BY <1>0, <2>1, <2>2 DEF SearchInv, SearchTypes
<1>5. /\ \A s \in 0..(SpecialCount(query) - 1) : s # lastSolved => bkTable'[s] = bkTable[s]
      /\ bkTable'[lastSolved] = Unsolved
  BY <1>0, <1>1, <1>2
<1>6. Solved'
  <2>1. ASSUME NEW s \in 0..lastSolved' PROVE \E p \in DOMAIN query : SolvedAt(s, p)'
    <3>1. s \in 0..lastSolved /\ bkTable'[s] = bkTable[s]
      BY <1>0, <1>1, <1>2, <1>5
    <3>2. PICK p \in DOMAIN query : SolvedAt(s, p)
      BY <3>1 DEF SearchInv, Solved
    <3> QED
      BY <1>0, <3>1, <3>2 DEF SolvedAt, Placed, Solutions
  <2>2. ASSUME NEW s \in (lastSolved' + 1)..(SpecialCount(query) - 1) PROVE bkTable'[s] = Unsolved
    <3>1. CASE s = lastSolved
      BY <1>5, <3>1
    <3>2. CASE s # lastSolved
      <4>1. s \in (lastSolved + 1)..(SpecialCount(query) - 1) /\ s \in 0..(SpecialCount(query) - 1)
        BY <1>0, <1>1, <1>2, <3>2
      <4>2. bkTable[s] = Unsolved
        BY <4>1 DEF SearchInv, Solved
      <4> QED
        BY <1>5, <3>2, <4>1, <4>2
    <3> QED
      BY <3>1, <3>2
  <2> QED
    BY <1>0, <2>1, <2>2 DEF Solved
<1>7. Matched'
  BY <1>0 DEF Matched
<1> QED
  BY <1>4, <1>6, <1>7 DEF SearchInv

\* Where the tokens of the query lead no assert fails.
LEMMA NoAssertFails == SearchInv => ~AssertFails
<1> SUFFICES ASSUME SearchInv, AssertFails PROVE FALSE
  OBVIOUS
<1>1. IsLeaf(index, currentNode) <=> currentToken = Len(query) + 1
  BY SearchGivesAsserts DEF LeavesAtEnd, AssertFails
<1>2. IsLeaf(index, currentNode) \in BOOLEAN /\ (currentToken = Len(query) + 1) \in BOOLEAN
  BY DEF IsLeaf
<1> QED
  BY <1>1, <1>2 DEF AssertFails

\* Every step keeps the invariant.
LEMMA SearchStep == SearchInv /\ [Next]_vars => SearchInv'
<1> SUFFICES ASSUME SearchInv, [Next]_vars PROVE SearchInv'
  OBVIOUS
<1>1. CASE CheckArguments \/ LimitReached \/ HandleSolution \/ Exhausted \/ UNCHANGED vars
  BY <1>1, SearchQuiet
     DEF CheckArguments, LimitReached, HandleSolution, Exhausted, vars, inputs, searchVars
<1>2. ~AssertFails
  BY NoAssertFails
<1> QED
  BY <1>1, <1>2, SearchConst, SearchReplay, SearchSolve, SearchNext, SearchNoNext DEF Next

\* No step changes the query.
LEMMA QueryStays == [Next]_vars => VariablesAreLeaves(query)' = VariablesAreLeaves(query)
<1> SUFFICES ASSUME [Next]_vars PROVE query' = query
  BY DEF VariablesAreLeaves
<1> QED
  BY DEF Next, vars, inputs, CheckArguments, LimitReached, AssertFails, MatchConst, ReplayQvar, Solve,
         HandleSolution, NextSol, NoNextSol, Exhausted

\* A search that keeps to its place does not abort.
LEMMA NotAborted == SearchInv /\ pc # "aborted" /\ [Next]_vars => pc' # "aborted"
<1> SUFFICES ASSUME SearchInv, pc # "aborted", [Next]_vars PROVE pc' # "aborted"
  OBVIOUS
<1> QED
  BY NoAssertFails
     DEF Next, vars, CheckArguments, LimitReached, MatchConst, ReplayQvar, Solve, GoAhead, GiveUp,
         HandleSolution, NextSol, NoNextSol, Exhausted

\* The asserts of the accessors hold for every query without elements below its
\* variables: getHitsCount and getFormulaId are only asked of leaves, and a child
\* or a term only of nodes that are no leaves, so the search does not abort.
THEOREM AccessorAssertsCorrect == Spec => []AccessorAsserts
<1> DEFINE Inv == VariablesAreLeaves(query) => SearchInv /\ pc # "aborted"
<1>1. Init => Inv
  BY SearchInit DEF Init
<1>2. Inv /\ [Next]_vars => Inv'
  BY SearchStep, NotAborted, QueryStays
<1>3. Inv => AccessorAsserts
  BY SearchGivesAsserts DEF AccessorAsserts, LeavesAtEnd
<1> QED
  BY <1>1, <1>2, <1>3, PTL DEF Spec

-----------------------------------------------------------------------------
(***************************************************************************)
(* The page.                                                               *)
(***************************************************************************)
\* Hits as the model writes them.
AllFormulas == UNION Indexes
AnyHit      == AllFormulas \X Nat

\* The inputs of the call are among those considered.
InputsOK == /\ index \in Indexes /\ hits \in HitCounts
            /\ args \in Arguments /\ options \in OptionSets

\* The size that the argument check leaves: the page never reaches beyond
\* maxTotal.
PageSize ==
  IF offset + args.size > maxTotal
    THEN IF maxTotal <= offset THEN 0 ELSE maxTotal - offset
    ELSE args.size

\* found counts the stream, up to maxTotal.
FoundCounts == /\ found < maxTotal => found = Len(stream)
               /\ found >= maxTotal => maxTotal <= Len(stream)

\* The end of the page, and the part of it that the stream has reached.
PageEnd    == Minimum(offset + size, Len(stream))
\* The number of hits of the stream on the page.
PageLength == IF PageEnd > offset THEN PageEnd - offset ELSE 0

\* The answers are the hits of the stream from offset on, up to the end of
\* the page.
AnswersOnPage ==
  /\ answers \in Seq(AnyHit)
  /\ Len(answers) = PageLength
  /\ \A k \in 1..Len(answers) : answers[k] = stream[offset + k]

\* The invariant of the page.
PagingInv ==
  /\ InputsOK
  /\ found \in Nat
  /\ stream \in Seq(AnyHit)
  /\ pc = "start" => size = args.size /\ found = 0 /\ stream = <<>> /\ answers = <<>>
  /\ options.includeHits /\ NoWrap /\ pc # "start" =>
       size = PageSize /\ FoundCounts /\ AnswersOnPage

\* The values of the arguments are natural numbers.
LEMMA ArgumentTypes ==
  ASSUME InputsOK
  PROVE  /\ args.offset \in Nat /\ args.size \in Nat /\ args.maxTotal \in Nat
         /\ UINT_MOD \in Nat
  BY ArgumentsAssumption, UintAssumption DEF InputsOK

\* The stream and the answers are empty at the start.
LEMMA PagingInit == Init => PagingInv
  BY DEF Init, PagingInv, InputsOK

\* The steps that neither check the arguments nor handle a solution.
LEMMA QuietSteps ==
  ASSUME [Next]_vars, ~CheckArguments, ~HandleSolution
  PROVE  /\ UNCHANGED <<index, hits, args, options, size, found, answers, stream>>
         /\ pc' = "start" => pc = "start"
         /\ pc = "start" => pc' = "start"
  BY DEF Next, vars, inputs, LimitReached, AssertFails, MatchConst, ReplayQvar, Solve, NextSol,
         NoNextSol, Exhausted, AtToken, GoAhead, GiveUp

\* Steps that touch neither stream nor answers keep the page.
LEMMA QuietKeepsPaging ==
  ASSUME PagingInv, [Next]_vars, ~CheckArguments, ~HandleSolution
  PROVE  PagingInv'
<1>1. /\ UNCHANGED <<index, hits, args, options, size, found, answers, stream>>
      /\ pc' = "start" <=> pc = "start"
  BY QuietSteps
<1> QED
  BY <1>1 DEF PagingInv, InputsOK, NoWrap, PageSize, FoundCounts, AnswersOnPage, PageLength,
              PageEnd, Minimum, offset, maxTotal

\* The argument check computes PageSize when the unsigned sum does not wrap.
LEMMA CheckKeepsPaging ==
  ASSUME PagingInv, CheckArguments
  PROVE  PagingInv'
<1>1. /\ UNCHANGED <<index, hits, args, options, found, answers, stream>>
      /\ pc = "start" /\ pc' = "match" /\ size' = ClampedSize
  BY DEF CheckArguments, inputs
<1>2. size = args.size /\ found = 0 /\ stream = <<>> /\ answers = <<>> /\ InputsOK
  BY <1>1 DEF PagingInv
<1>3. args.offset \in Nat /\ args.size \in Nat /\ args.maxTotal \in Nat /\ UINT_MOD \in Nat
  BY <1>2, ArgumentTypes
<1>4. InputsOK' /\ found' \in Nat /\ stream' \in Seq(AnyHit)
  BY <1>1, <1>2 DEF PagingInv, InputsOK
<1>5. ASSUME NoWrap PROVE size' = PageSize
  <2>1. (args.offset + args.size) % UINT_MOD = args.offset + args.size
    BY <1>3, <1>5 DEF NoWrap
  <2> QED
    BY <1>1, <1>2, <2>1 DEF ClampedSize, PageSize, offset, maxTotal
<1>6. FoundCounts'
  BY <1>1, <1>2, <1>3 DEF FoundCounts, maxTotal
<1>7. ASSUME NoWrap PROVE AnswersOnPage'
  <2>1. size' \in Nat
    BY <1>3, <1>5, <1>7 DEF PageSize, offset, maxTotal
  <2>2. PageLength' = 0
    BY <1>1, <1>2, <1>3, <2>1 DEF PageLength, PageEnd, Minimum, offset
  <2> QED
    BY <1>1, <1>2, <2>2 DEF AnswersOnPage
<1> QED
  BY <1>1, <1>4, <1>5, <1>6, <1>7 DEF PagingInv, NoWrap, PageSize, offset, maxTotal

-----------------------------------------------------------------------------
\* Facts about sequences and numbers, free of the model's state.
LEMMA ModSmall ==
  ASSUME NEW m \in Nat, NEW n \in Nat, n < m
  PROVE  n % m = n
OBVIOUS

\* A function on 1..n is a sequence.
LEMMA FunctionIsSeq ==
  ASSUME NEW S, NEW n \in Nat, NEW g \in [1..n -> S]
  PROVE  g \in Seq(S) /\ Len(g) = n
OBVIOUS

\* How far the page reaches, for a stream of L hits.
Reached(o, count, L) == IF Minimum(o + count, L) > o THEN Minimum(o + count, L) - o ELSE 0

\* How many hits the database returns.
Returned(n, lo, count) == IF n <= lo THEN 0 ELSE IF n <= lo + count THEN n - lo ELSE count

\* A page does not reach further than the stream.
LEMMA ReachedBound ==
  ASSUME NEW o \in Nat, NEW count \in Nat, NEW L \in Nat
  PROVE  /\ Reached(o, count, L) \in Nat
         /\ \A k \in 1..Reached(o, count, L) : o + k \in 1..L
  BY DEF Reached, Minimum

\* p is what u holds after its first o elements, as far as p goes.
IsRun(p, u, o) == \A k \in 1..Len(p) : p[k] = u[o + k]

\* Two runs of u, the second where the first ends, make one.
LEMMA RunsJoin ==
  ASSUME NEW S, NEW p \in Seq(S), NEW q \in Seq(S), NEW u, NEW o \in Nat, NEW m,
         m = o + Len(p), IsRun(p, u, o), IsRun(q, u, m)
  PROVE  /\ p \o q \in Seq(S) /\ Len(p \o q) = Len(p) + Len(q)
         /\ IsRun(p \o q, u, o)
<1>1. Len(p) \in Nat /\ Len(q) \in Nat
  BY LenProperties
<1>2. /\ p \o q \in Seq(S) /\ Len(p \o q) = Len(p) + Len(q)
      /\ \A k \in 1..(Len(p) + Len(q)) :
            (p \o q)[k] = IF k <= Len(p) THEN p[k] ELSE q[k - Len(p)]
  BY ConcatProperties
<1>3. ASSUME NEW k \in 1..Len(p \o q) PROVE (p \o q)[k] = u[o + k]
  <2>1. CASE k <= Len(p)
    BY <1>1, <1>2, <1>3, <2>1 DEF IsRun
  <2>2. CASE ~(k <= Len(p))
    <3>1. k - Len(p) \in 1..Len(q) /\ m + (k - Len(p)) = o + k
      BY <1>1, <1>2, <1>3, <2>2
    <3>2. q[k - Len(p)] = u[m + (k - Len(p))]
      BY <3>1 DEF IsRun
    <3> QED
      BY <1>2, <1>3, <2>2, <3>1, <3>2
  <2> QED
    BY <2>1, <2>2
<1> QED
  BY <1>2, <1>3 DEF IsRun

-----------------------------------------------------------------------------
\* The leaf reached at the end of the query and its number of hits.
LEMMA LeafHits ==
  ASSUME PagingInv, HandleSolution
  PROVE  /\ currentNode \in AllFormulas
         /\ hitsCount \in Nat
         /\ options.includeHits => /\ hitsCount = hits[currentNode]
                                   /\ maxTotal + hitsCount <= UINT_MOD
<1>1. currentNode \in index
  BY DEF HandleSolution, IsLeaf
<1>2. index \in Indexes /\ hits \in HitCounts /\ args \in Arguments
  BY DEF PagingInv, InputsOK
<1>3. currentNode \in DOMAIN hits /\ hits[currentNode] \in Nat
  BY <1>1, <1>2, HitCountsAssumption
<1>4. maxTotal + hits[currentNode] <= UINT_MOD
  BY <1>2, <1>3, CountersFit DEF maxTotal
<1> QED
  BY <1>1, <1>2, <1>3, <1>4 DEF hitsCount, AllFormulas

\* The hits of the leaf, appended to the stream.
Block == [k \in 1..hitsCount |-> <<currentNode, k>>]

\* HandleSolution appends the hits of the leaf to the stream.
LEMMA StreamGrows ==
  ASSUME PagingInv, HandleSolution
  PROVE  /\ stream' \in Seq(AnyHit)
         /\ Len(stream') = Len(stream) + hitsCount
         /\ \A k \in 1..Len(stream) : stream'[k] = stream[k]
         /\ \A k \in 1..hitsCount : stream'[Len(stream) + k] = <<currentNode, k>>
<1>1. currentNode \in AllFormulas /\ hitsCount \in Nat /\ stream \in Seq(AnyHit)
  BY LeafHits DEF PagingInv
<1>2. Block \in [1..hitsCount -> AnyHit]
  BY <1>1 DEF Block, AnyHit
<1>3. Block \in Seq(AnyHit) /\ Len(Block) = hitsCount
  BY <1>1, <1>2, FunctionIsSeq
<1>4. stream' = stream \o Block
  BY DEF HandleSolution, Block
<1>5. Len(stream) \in Nat
  BY <1>1
<1>6. /\ stream' \in Seq(AnyHit) /\ Len(stream') = Len(stream) + hitsCount
      /\ \A k \in 1..(Len(stream) + hitsCount) :
            stream'[k] = IF k <= Len(stream) THEN stream[k] ELSE Block[k - Len(stream)]
  BY <1>1, <1>3, <1>4, ConcatProperties
<1>7. ASSUME NEW k \in 1..hitsCount PROVE stream'[Len(stream) + k] = <<currentNode, k>>
  <2>1. /\ Len(stream) + k \in 1..(Len(stream) + hitsCount) /\ ~(Len(stream) + k <= Len(stream))
        /\ (Len(stream) + k) - Len(stream) = k
    BY <1>1, <1>5, <1>7
  <2>2. stream'[Len(stream) + k] = Block[k]
    BY <2>1, <1>6
  <2> QED
    BY <2>2 DEF Block
<1>8. ASSUME NEW k \in 1..Len(stream) PROVE stream'[k] = stream[k]
  BY <1>1, <1>5, <1>6, <1>8
<1> QED
  BY <1>6, <1>7, <1>8

\* The database's answer: a run of the leaf's hits.
LEMMA DbPageProperties ==
  ASSUME NEW f \in AllFormulas, NEW n \in Nat, NEW lo \in Nat, NEW count \in Nat
  PROVE  /\ DbPage(f, n, lo, count) \in Seq(AnyHit)
         /\ Len(DbPage(f, n, lo, count)) = Returned(n, lo, count)
         /\ Returned(n, lo, count) \in Nat
         /\ \A k \in 1..Returned(n, lo, count) : DbPage(f, n, lo, count)[k] = <<f, lo + k>>
<1>1. /\ Returned(n, lo, count) \in Nat
      /\ Minimum(n, lo + count) - Minimum(n, lo) = Returned(n, lo, count)
  BY DEF Minimum, Returned
<1>2. DbPage(f, n, lo, count) = [k \in 1..Returned(n, lo, count) |-> <<f, lo + k>>]
  BY <1>1 DEF DbPage
<1>3. DbPage(f, n, lo, count) \in [1..Returned(n, lo, count) -> AnyHit]
  BY <1>1, <1>2 DEF AnyHit
<1> QED
  BY <1>1, <1>2, <1>3, FunctionIsSeq

\* What HandleSolution does, in the case the page is about: no wrap-around.
LEMMA HandleKeepsAnswers ==
  ASSUME PagingInv, HandleSolution, options.includeHits, NoWrap
  PROVE  size' = PageSize /\ FoundCounts' /\ AnswersOnPage'
<1>1. UNCHANGED <<args, size>> /\ pc # "start" /\ found < args.maxTotal
  BY DEF HandleSolution, inputs, maxTotal
<1>2. size = PageSize /\ FoundCounts /\ AnswersOnPage /\ stream \in Seq(AnyHit) /\ found \in Nat
  BY <1>1 DEF PagingInv
<1>o. PICK o \in Nat : o = args.offset
  BY ArgumentTypes DEF PagingInv
<1>L. PICK L \in Nat : L = Len(stream)
  BY <1>2
<1>n. PICK n \in Nat : n = hitsCount /\ n = hits[currentNode]
  BY LeafHits
<1>M. PICK M \in Nat : M = args.maxTotal
  BY ArgumentTypes DEF PagingInv
<1>3. args.size \in Nat /\ UINT_MOD \in Nat /\ o + args.size < UINT_MOD
  BY <1>o, ArgumentTypes DEF PagingInv, NoWrap
<1>z. PICK z \in Nat : z = size /\ z <= args.size
  <2>1. PICK a \in Nat : a = args.size
    BY <1>3
  <2>2. size = IF o + a > M THEN IF M <= o THEN 0 ELSE M - o ELSE a
    BY <1>2, <1>o, <1>M, <2>1 DEF PageSize, offset, maxTotal
  <2>3. size \in Nat /\ size <= a
    BY <2>2
  <2> QED
    BY <2>1, <2>3
<1>t. o \in Nat /\ L \in Nat /\ n \in Nat /\ M \in Nat /\ z \in Nat
  BY <1>o, <1>L, <1>n, <1>M, <1>z
<1>5. found = L /\ L < M /\ M + n <= UINT_MOD /\ currentNode \in AllFormulas
  BY <1>1, <1>2, <1>L, <1>M, <1>n, LeafHits DEF FoundCounts, maxTotal
<1>7. /\ stream' \in Seq(AnyHit) /\ Len(stream') = L + n
      /\ \A k \in 1..L : stream'[k] = stream[k]
      /\ \A k \in 1..n : stream'[L + k] = <<currentNode, k>>
  BY <1>L, <1>n, StreamGrows
<1>8. /\ answers \in Seq(AnyHit) /\ Len(answers) = Reached(o, z, L)
      /\ \A k \in 1..Reached(o, z, L) : answers[k] = stream[o + k]
  BY <1>2, <1>o, <1>L, <1>z DEF AnswersOnPage, PageLength, PageEnd, offset, Reached
<1>9. PageLength' = Reached(o, z, L + n)
  BY <1>1, <1>7, <1>o, <1>z DEF PageLength, PageEnd, offset, Reached
<1>k. \A k \in 1..Reached(o, z, L) : answers[k] = stream'[o + k]
  BY <1>7, <1>8, ReachedBound
<1>a. size' = PageSize
  BY <1>1, <1>2
<1>b. FoundCounts'
  <2>1. (L + n) % UINT_MOD = L + n
    BY <1>3, <1>5, ModSmall
  <2>2. found' = Minimum(L + n, M)
    BY <2>1, <1>5, <1>n, <1>M DEF HandleSolution, maxTotal
  <2> QED
    BY <1>1, <1>7, <1>M, <2>2 DEF FoundCounts, maxTotal, Minimum
<1>c. (size + offset) % UINT_MOD = o + z
  <2>1. size + offset = o + z /\ o + z < UINT_MOD
    BY <1>3, <1>o, <1>z DEF offset
  <2> QED
    BY <2>1, <1>3, ModSmall
<1>d. CASE ~(L < o + z /\ L + n > o)
  <2>1. answers' = answers
    BY <1>c, <1>d, <1>5, <1>o, <1>n DEF HandleSolution, onPage, offset
  <2>2. Reached(o, z, L + n) = Reached(o, z, L)
    BY <1>d, <1>t DEF Reached, Minimum
  <2> QED
    BY <1>1, <1>8, <1>9, <1>k, <1>a, <1>b, <1>o, <2>1, <2>2 DEF AnswersOnPage, offset
<1>e. CASE L < o + z /\ L + n > o
  <2>1. ASSUME NEW lo \in Nat, NEW count \in Nat,
               answers' = answers \o DbPage(currentNode, n, lo, count),
               o + Reached(o, z, L) = L + lo,
               Reached(o, z, L + n) = Reached(o, z, L) + Returned(n, lo, count),
               lo + Returned(n, lo, count) <= n
        PROVE  AnswersOnPage'
    <3>1. PICK page : page = DbPage(currentNode, n, lo, count)
      OBVIOUS
    <3>2. /\ page \in Seq(AnyHit) /\ Len(page) = Returned(n, lo, count) /\ Len(page) \in Nat
          /\ \A k \in 1..Len(page) : page[k] = <<currentNode, lo + k>>
      <4>1. currentNode \in AllFormulas /\ n \in Nat
        BY <1>5, <1>t
      <4> QED
        BY <4>1, <3>1, DbPageProperties
    <3>3. ASSUME NEW k \in 1..Len(page) PROVE page[k] = stream'[o + Len(answers) + k]
      <4>1. lo + k \in 1..n /\ o + Len(answers) + k = L + (lo + k)
        <5>1. k \in Nat /\ k >= 1 /\ k <= Returned(n, lo, count) /\ Returned(n, lo, count) \in Nat
          BY <3>2, <3>3
        <5>2. Reached(o, z, L) \in Nat
          BY <1>t, ReachedBound
        <5>3. PICK R \in Nat, B \in Nat : R = Reached(o, z, L) /\ B = Returned(n, lo, count)
          BY <5>1, <5>2
        <5>4. o + R = L + lo /\ lo + B <= n /\ Len(answers) = R /\ k <= B
          BY <5>1, <5>3, <2>1, <1>8
        <5>5. lo + k \in 1..n /\ o + R + k = L + (lo + k)
          <6>1. R \in Nat /\ B \in Nat /\ k \in Nat /\ k >= 1
            BY <5>1, <5>3
          <6>2. lo + k >= 1 /\ lo + k <= n
            BY <5>4, <6>1, <1>t
          <6>3. o + R + k = L + (lo + k)
            BY <5>4, <6>1, <1>t
          <6> QED
            BY <6>1, <6>2, <6>3, <1>t
        <5> QED
          BY <5>4, <5>5
      <4> QED
        BY <4>1, <3>2, <3>3, <1>7
    <3>4. IsRun(answers, stream', o) /\ IsRun(page, stream', o + Len(answers))
      BY <1>8, <1>k, <3>3 DEF IsRun
    <3>5. answers' = answers \o page /\ answers \in Seq(AnyHit)
      BY <2>1, <3>1, <1>8
    <3>6. /\ answers' \in Seq(AnyHit) /\ Len(answers') = Len(answers) + Len(page)
          /\ IsRun(answers', stream', o)
      BY <3>2, <3>4, <3>5, <1>t, RunsJoin
    <3> QED
      BY <1>1, <1>8, <1>9, <1>o, <2>1, <3>2, <3>6 DEF AnswersOnPage, offset, IsRun
  <2>2. CASE o < L
    <3>1. o + z - L \in Nat /\ (size + offset - found) % UINT_MOD = o + z - L
      <4>1. size + offset - found = o + z - L /\ o + z - L \in Nat /\ o + z - L < UINT_MOD
        BY <1>3, <1>5, <1>e, <1>o, <1>z DEF offset
      <4> QED
        BY <4>1, <1>3, ModSmall
    <3>2. answers' = answers \o DbPage(currentNode, n, 0, o + z - L)
      BY <1>c, <1>e, <1>5, <1>o, <1>n, <2>2, <3>1 DEF HandleSolution, onPage, offset
    <3>3. /\ o + Reached(o, z, L) = L + 0
          /\ Reached(o, z, L + n) = Reached(o, z, L) + Returned(n, 0, o + z - L)
          /\ 0 + Returned(n, 0, o + z - L) <= n
      BY <1>e, <1>t, <2>2, <3>1 DEF Reached, Returned, Minimum
    <3> QED
      BY <1>a, <1>b, <2>1, <3>1, <3>2, <3>3
  <2>3. CASE L <= o
    <3>1. o - L \in Nat
      BY <2>3, <1>t
    <3>2. /\ offset = o /\ found = L /\ size = z /\ options.includeHits
          /\ hitsCount = n /\ hits[currentNode] = n
      BY <1>5, <1>o, <1>n, <1>z DEF offset
    <3>3. answers' = answers \o DbPage(currentNode, n, o - L, z)
      <4>1. ~(o < L)
        BY <2>3, <1>t
      <4> QED
        BY <1>c, <1>e, <3>2, <4>1 DEF HandleSolution, onPage
    <3>4. /\ o + Reached(o, z, L) = L + (o - L)
          /\ Reached(o, z, L + n) = Reached(o, z, L) + Returned(n, o - L, z)
          /\ (o - L) + Returned(n, o - L, z) <= n
      BY <1>e, <1>t, <2>3, <3>1 DEF Reached, Returned, Minimum
    <3> QED
      BY <1>a, <1>b, <2>1, <3>1, <1>t, <3>3, <3>4
  <2> QED
    BY <2>2, <2>3, <1>t
<1> QED
  BY <1>d, <1>e

\* HandleSolution keeps the page.
LEMMA HandleKeepsPaging ==
  ASSUME PagingInv, HandleSolution
  PROVE  PagingInv'
<1>1. UNCHANGED <<index, hits, args, options>> /\ pc' = "backtrack"
  BY DEF HandleSolution, inputs
<1>2. InputsOK' /\ stream' \in Seq(AnyHit)
  BY <1>1, StreamGrows DEF PagingInv, InputsOK
<1>3. found' \in Nat
  <2>1. UINT_MOD \in Nat /\ UINT_MOD > 0 /\ args.maxTotal \in Nat /\ found \in Nat /\ hitsCount \in Nat
    BY UintAssumption, ArgumentTypes, LeafHits DEF PagingInv
  <2>2. (found + hitsCount) % UINT_MOD \in Nat
    BY <2>1
  <2> QED
    BY <2>1, <2>2 DEF HandleSolution, Minimum, maxTotal
<1>4. ASSUME options.includeHits, NoWrap PROVE size' = PageSize /\ FoundCounts' /\ AnswersOnPage'
  BY <1>4, HandleKeepsAnswers
<1> QED
  BY <1>1, <1>2, <1>3, <1>4 DEF PagingInv, NoWrap, PageSize, offset, maxTotal

\* Every step keeps the page.
LEMMA PagingStep == PagingInv /\ [Next]_vars => PagingInv'
  BY QuietKeepsPaging, CheckKeepsPaging, HandleKeepsPaging

\* The page described by the invariant is the page of the specification.
LEMMA PagingGivesPage == PagingInv => PageExact
<1> SUFFICES ASSUME PagingInv, pc = "done", options.includeHits, NoWrap
             PROVE  answers = PageOf(stream, args.offset, args.size, maxTotal)
  BY DEF PageExact
<1> DEFINE o == args.offset
           last == Minimum(Minimum(o + args.size, maxTotal), Len(stream))
           page == SubSeq(stream, o + 1, last)
<1>1. size = PageSize /\ AnswersOnPage /\ stream \in Seq(AnyHit)
  BY DEF PagingInv
<1>2. o \in Nat /\ args.size \in Nat /\ maxTotal \in Nat /\ Len(stream) \in Nat
  BY <1>1, ArgumentTypes DEF PagingInv, maxTotal
<1>3. last \in Nat /\ last <= Len(stream)
  BY <1>2 DEF Minimum
<1>4. Len(answers) = IF o + 1 <= last THEN last - (o + 1) + 1 ELSE 0
  <2>1. PICK a \in Nat, m \in Nat, n \in Nat : a = args.size /\ m = maxTotal /\ n = Len(stream)
    BY <1>2
  <2>2. PageEnd = Minimum(o + size, n) /\ last = Minimum(Minimum(o + a, m), n)
    BY <2>1 DEF PageEnd, offset
  <2>3. size = IF o + a > m THEN IF m <= o THEN 0 ELSE m - o ELSE a
    BY <2>1, <1>1 DEF PageSize, offset
  <2>4. Len(answers) = IF PageEnd > o THEN PageEnd - o ELSE 0
    BY <1>1 DEF AnswersOnPage, PageLength, offset
  <2> HIDE DEF last, o
  <2> QED
    BY <1>2, <2>2, <2>3, <2>4 DEF Minimum
<1> HIDE DEF last
<1>5. \A k \in (o + 1)..last : stream[k] \in AnyHit
  BY <1>1, <1>2, <1>3
<1>6. /\ page \in Seq(AnyHit)
      /\ Len(page) = IF o + 1 <= last THEN last - (o + 1) + 1 ELSE 0
      /\ \A k \in 1..(last - (o + 1) + 1) : page[k] = stream[o + 1 + k - 1]
  <2>1. stream \in Seq(AnyHit) /\ o + 1 \in Int /\ last \in Int
    BY <1>1, <1>2, <1>3
  <2> HIDE DEF o
  <2> QED
    BY <1>5, <2>1, SubSeqProperties
<1> HIDE DEF page
<1>7. ASSUME NEW k \in 1..Len(page) PROVE page[k] = stream[o + k]
  <2>1. k \in 1..(last - (o + 1) + 1) /\ o + 1 + k - 1 = o + k
    BY <1>2, <1>3, <1>6, <1>7
  <2> QED
    BY <2>1, <1>6
<1>8. \A k \in 1..Len(answers) : answers[k] = page[k]
  BY <1>1, <1>4, <1>6, <1>7 DEF AnswersOnPage, offset
<1>9. answers = page
  BY <1>1, <1>4, <1>6, <1>8, SeqEqual DEF AnswersOnPage
<1> QED
  BY <1>9 DEF PageOf, page, last

\* Whenever getResult returns, its answers are the requested page of the hits
\* it found, for all arguments whose sum does not wrap around.
THEOREM PageCorrect == Spec => []PageExact
  BY PagingInit, PagingStep, PagingGivesPage, PTL DEF Spec


-----------------------------------------------------------------------------
(***************************************************************************)
(* The reference definition: the pieces of a formula that the tokens of a  *)
(* query stand for.                                                        *)
(***************************************************************************)
\* The end of a term that is read from a place of x.
LEMMA TermEndIs ==
  ASSUME NEW x \in Paths, NEW a \in Nat, NEW s \in Paths, IsTerm(s), Reads(x, a, s, Len(s))
  PROVE  TermEnd(x, a + 1) = a + Len(s) /\ SubSeq(x, a + 1, a + Len(s)) = s /\ Len(s) > 0
<1>0. Len(x) \in Nat /\ Len(s) \in Nat /\ a + Len(s) <= Len(x)
  BY PathFacts DEF Paths, Reads
<1>1. Len(s) > 0
  <2>1. Len(s) # 0
    BY OpenSlotsDef DEF IsTerm, Paths
  <2> QED
    BY <1>0, <2>1
<1>2. ASSUME NEW k \in (a+1)..Len(x)
      PROVE  /\ SubSeq(x, a + 1, k) \in Paths /\ Len(SubSeq(x, a + 1, k)) = k - a
             /\ \A j \in 1..(k - a) : SubSeq(x, a + 1, k)[j] = x[a + j]
  <2>1. k \in Nat /\ a <= k /\ k <= Len(x)
    BY <1>0
  <2> QED
    BY <2>1, SubSeqFacts DEF Paths
<1>3. a + Len(s) \in (a+1)..Len(x) /\ (a + Len(s)) - a = Len(s)
  BY <1>0, <1>1
<1>4. SubSeq(x, a + 1, a + Len(s)) = s
  <2>1. PICK y : y = SubSeq(x, a + 1, a + Len(s))
    OBVIOUS
  <2>2. y \in Paths /\ Len(y) = Len(s) /\ \A j \in 1..Len(s) : y[j] = x[a + j]
    BY <1>2, <1>3, <2>1
  <2>3. y = s
    BY <2>2, SeqEqual DEF Reads, Paths
  <2> QED
    BY <2>1, <2>3
<1>5. ASSUME NEW k \in (a+1)..Len(x), IsTerm(SubSeq(x, a + 1, k)) PROVE k = a + Len(s)
  <2>1. PICK y : y = SubSeq(x, a + 1, k)
    OBVIOUS
  <2>2. y \in Paths /\ Len(y) = k - a /\ IsTerm(y) /\ \A j \in 1..(k - a) : y[j] = x[a + j]
    BY <1>2, <1>5, <2>1
  <2>3. CASE Len(y) <= Len(s)
    <3>1. Extends(s, y)
      BY <1>0, <2>2, <2>3 DEF Extends, Reads
    <3>2. s = y
      BY <2>2, <3>1, TermsArePrefixFree DEF Paths
    <3> QED
      BY <1>0, <2>2, <3>2
  <2>4. CASE Len(s) <= Len(y)
    <3>1. Extends(y, s)
      BY <1>0, <2>2, <2>4 DEF Extends, Reads
    <3>2. s = y
      BY <2>2, <3>1, TermsArePrefixFree DEF Paths
    <3> QED
      BY <1>0, <2>2, <3>2
  <2>5. Len(y) \in Int
    BY <2>2, PathFacts DEF Paths
  <2> QED
    BY <1>0, <2>3, <2>4, <2>5
<1>6. TermEnd(x, a + 1) = a + Len(s)
  BY <1>3, <1>4, <1>5 DEF TermEnd
<1> QED
  BY <1>1, <1>4, <1>6

\* The next end: that of the term or of the token that follows the last one.
NextEnd(x, tok, e) ==
  IF e = -1 \/ e = Len(x) THEN -1
  ELSE IF encoded_token_is_var(tok) THEN TermEnd(x, e + 1)
  ELSE e + 1

\* PieceEnds satisfies the equations that define it.
LEMMA PieceEndsDef ==
  ASSUME NEW x \in Paths, IsTerm(x), NEW q \in Paths
  PROVE  /\ PieceEnds(x, q)[0] = 0
         /\ \A i \in 1..Len(q) : PieceEnds(x, q)[i] = NextEnd(x, q[i], PieceEnds(x, q)[i-1])
         /\ \A i \in 0..Len(q) : PieceEnds(x, q)[i] \in -1..Len(x)
<1> DEFINE Fits(f) == f = [i \in 0..Len(q) |->
                             IF i = 0 THEN 0
                             ELSE IF f[i-1] = -1 \/ f[i-1] = Len(x) THEN -1
                             ELSE IF encoded_token_is_var(q[i]) THEN TermEnd(x, f[i-1] + 1)
                             ELSE f[i-1] + 1]
           S == -1..Len(x)
           F == [p \in (1..Len(q)) \X S |-> NextEnd(x, q[p[1]], p[2])]
<1>0. Len(x) \in Nat /\ Len(q) \in Nat
  BY PathFacts DEF Paths
<1>1. PieceEnds(x, q) = CHOOSE f : Fits(f)
  BY DEF PieceEnds
<1>2. ASSUME NEW e \in S, NEW tok PROVE NextEnd(x, tok, e) \in S
  <2>1. CASE e = -1 \/ e = Len(x)
    BY <1>0, <2>1 DEF NextEnd
  <2>2. CASE ~(e = -1 \/ e = Len(x))
    <3>1. e \in Nat /\ e < Len(x)
      BY <1>0, <2>2
    <3>2. \E k \in (e+1)..Len(x) : IsTerm(SubSeq(x, e + 1, k))
      BY <3>1, SubtermAt DEF Paths
    <3>3. TermEnd(x, e + 1) \in (e+1)..Len(x)
      BY <3>2 DEF TermEnd
    <3> QED
      BY <1>0, <2>2, <3>1, <3>3 DEF NextEnd
  <2> QED
    BY <2>1, <2>2
<1>3. F \in Steps(Len(q), S)
  BY <1>2 DEF Steps
<1>4. PICK f : Recurs(f, Len(q), S, 0, F)
  <2>1. Len(q) \in Nat /\ 0 \in S
    BY <1>0
  <2> HIDE DEF F, Fits, S
  <2> QED
    BY <1>3, <2>1, RecursionExists, Zenon
<1>5. Fits(f)
  <2>1. ASSUME NEW i \in 1..Len(q) PROVE f[i] = NextEnd(x, q[i], f[i-1])
    <3>1. i - 1 \in 0..Len(q)
      BY <1>0
    <3>2. <<i, f[i-1]>> \in (1..Len(q)) \X S
      BY <1>4, <3>1 DEF Recurs
    <3> QED
      BY <1>4, <3>2 DEF Recurs
  <2>2. f = [i \in 0..Len(q) |-> f[i]] /\ f[0] = 0
    BY <1>4 DEF Recurs
  <2>3. ASSUME NEW i \in 0..Len(q)
        PROVE  f[i] = IF i = 0 THEN 0
                      ELSE IF f[i-1] = -1 \/ f[i-1] = Len(x) THEN -1
                      ELSE IF encoded_token_is_var(q[i]) THEN TermEnd(x, f[i-1] + 1)
                      ELSE f[i-1] + 1
    <3>1. CASE i = 0
      BY <2>2, <3>1
    <3>2. CASE i # 0
      <4>1. i \in 1..Len(q)
        BY <1>0, <3>2
      <4> QED
        BY <2>1, <3>2, <4>1 DEF NextEnd
    <3> QED
      BY <3>1, <3>2
  <2>4. [i \in 0..Len(q) |-> f[i]]
          = [i \in 0..Len(q) |-> IF i = 0 THEN 0
                                 ELSE IF f[i-1] = -1 \/ f[i-1] = Len(x) THEN -1
                                 ELSE IF encoded_token_is_var(q[i]) THEN TermEnd(x, f[i-1] + 1)
                                 ELSE f[i-1] + 1]
    BY <2>3
  <2> QED
    BY <2>2, <2>4, Zenon
<1>6. Fits(PieceEnds(x, q))
  BY <1>1, <1>5
<1>7. /\ PieceEnds(x, q)[0] = 0
      /\ \A i \in 1..Len(q) : PieceEnds(x, q)[i] = NextEnd(x, q[i], PieceEnds(x, q)[i-1])
  BY <1>0, <1>6 DEF NextEnd
<1> DEFINE P == { i \in Nat : i <= Len(q) => PieceEnds(x, q)[i] \in S }
<1>8. 0 \in P
  BY <1>0, <1>7
<1>9. ASSUME NEW i \in Nat, i \in P PROVE i + 1 \in P
  <2> SUFFICES ASSUME i + 1 <= Len(q) PROVE PieceEnds(x, q)[i + 1] \in S
    OBVIOUS
  <2>1. i + 1 \in 1..Len(q) /\ (i + 1) - 1 = i /\ i <= Len(q)
    BY <1>0
  <2>2. PieceEnds(x, q)[i] \in S
    BY <1>9, <2>1
  <2>3. PieceEnds(x, q)[i + 1] = NextEnd(x, q[i + 1], PieceEnds(x, q)[i])
    BY <1>7, <2>1
  <2> QED
    BY <1>2, <2>2, <2>3
<1>10. Nat \subseteq P
  <2> HIDE DEF P
  <2> QED
    BY <1>8, <1>9, SetInduction
<1>11. \A i \in 0..Len(q) : PieceEnds(x, q)[i] \in S
  BY <1>0, <1>10
<1> QED
  BY <1>7, <1>11

\* The piece of x that token i of the query stands for.
Piece(x, q, i) == SubSeq(x, PieceEnds(x, q)[i-1] + 1, PieceEnds(x, q)[i])

\* A constant is met, a range is kept, a repeated variable is the same again.
FitsAt(x, q, i) ==
  /\ ~IsSpecial(q[i]) => x[PieceEnds(x, q)[i]] = q[i]
  /\ encoded_token_is_range(q[i]) => validSubst(x[PieceEnds(x, q)[i]], q[i].id)
  /\ encoded_token_is_var(q[i]) /\ ~encoded_token_is_anon_var(q[i]) =>
       \A j \in 1..(i-1) : q[j].id = q[i].id => Piece(x, q, j) = Piece(x, q, i)

\* A formula unifies when its pieces fit and use it up.
LEMMA UnifiesIs ==
  ASSUME NEW x, NEW q
  PROVE  Unifies(x, q) <=> /\ PieceEnds(x, q)[Len(q)] = Len(x)
                           /\ \A i \in DOMAIN q : FitsAt(x, q, i)
  BY DEF Unifies, FitsAt, Piece

-----------------------------------------------------------------------------
(***************************************************************************)
(* How far a node of the index decides about the formulas below it: they   *)
(* all agree with the first i tokens of the query.                         *)
(***************************************************************************)
Agree(ix, q, v, i) ==
  \A x \in ix : Extends(x, v) => PieceEnds(x, q)[i] = Len(v) /\ \A j \in 1..i : FitsAt(x, q, j)

\* What a token of the query stands for: a term, or one token.
MayStand(tok, u) == u \in Paths /\ IF encoded_token_is_var(tok) THEN IsTerm(u) ELSE Len(u) = 1

\* A formula that goes on with u below a node has u for the next token.
LEMMA PieceThere ==
  ASSUME index \in Indexes, query \in LeafQueries, NEW i \in 1..Len(query),
         NEW v \in Paths, Agree(index, query, v, i - 1), NEW u, MayStand(query[i], u),
         NEW x \in index, Extends(x, v \o u)
  PROVE  /\ PieceEnds(x, query)[i] = Len(v \o u) /\ Piece(x, query, i) = u
         /\ Len(u) = 1 => x[PieceEnds(x, query)[i]] = u[1]
         /\ \A j \in 1..(i - 1) : FitsAt(x, query, j)
<1>1. x \in Paths /\ IsTerm(x) /\ query \in Paths /\ Len(query) \in Nat /\ u \in Paths
  BY IndexFacts, MissingFacts DEF MayStand
<1>2. Len(x) \in Nat /\ Len(v) \in Nat /\ Len(u) \in Nat
  BY <1>1, PathFacts DEF Paths
<1>3. Extends(x, v) /\ Reads(x, Len(v), u, Len(u)) /\ Len(v \o u) = Len(v) + Len(u)
  BY <1>1, ExtendsConcat, ConcatFacts
<1>4. PieceEnds(x, query)[i - 1] = Len(v) /\ \A j \in 1..(i - 1) : FitsAt(x, query, j)
  BY <1>3 DEF Agree
<1>5. Len(u) > 0 /\ SubSeq(x, Len(v) + 1, Len(v) + Len(u)) = u
  <2>1. CASE IsTerm(u)
    BY <1>1, <1>2, <1>3, <2>1, TermEndIs
  <2>2. CASE Len(u) = 1
    <3>1. PICK y : y = SubSeq(x, Len(v) + 1, Len(v) + Len(u))
      OBVIOUS
    <3>2. Len(v) + Len(u) <= Len(x) /\ (Len(v) + Len(u)) - Len(v) = Len(u)
      BY <1>2, <1>3 DEF Reads
    <3>3. y \in Paths /\ Len(y) = Len(u) /\ \A j \in 1..Len(u) : y[j] = x[Len(v) + j]
      BY <1>1, <1>2, <3>1, <3>2, SubSeqFacts DEF Paths
    <3>4. y = u
      BY <1>1, <1>3, <3>3, SeqEqual DEF Reads, Paths
    <3> QED
      BY <2>2, <3>1, <3>4
  <2> QED
    BY <2>1, <2>2 DEF MayStand
<1>6. Len(v) # Len(x) /\ Len(v) # -1
  BY <1>2, <1>3, <1>5 DEF Reads
<1>7. PieceEnds(x, query)[i] = Len(v) + Len(u)
  <2>1. PieceEnds(x, query)[i] = NextEnd(x, query[i], Len(v))
    BY <1>1, <1>4, PieceEndsDef
  <2>2. CASE encoded_token_is_var(query[i])
    <3>1. TermEnd(x, Len(v) + 1) = Len(v) + Len(u)
      BY <1>1, <1>2, <1>3, <2>2, TermEndIs DEF MayStand
    <3> QED
      BY <1>6, <2>1, <2>2, <3>1 DEF NextEnd
  <2>3. CASE ~encoded_token_is_var(query[i])
    BY <1>6, <2>1, <2>3 DEF NextEnd, MayStand
  <2> QED
    BY <2>2, <2>3
<1>8. Piece(x, query, i) = u
  BY <1>4, <1>5, <1>7 DEF Piece
<1>9. ASSUME Len(u) = 1 PROVE x[PieceEnds(x, query)[i]] = u[1]
  BY <1>3, <1>7, <1>9 DEF Reads
<1> QED
  BY <1>3, <1>4, <1>7, <1>8, <1>9

\* Formulas that agree with the query and fit at its next token agree further.
LEMMA AgreeNext ==
  ASSUME index \in Indexes, query \in LeafQueries, NEW i \in 1..Len(query),
         NEW v \in Paths, Agree(index, query, v, i - 1), NEW u, MayStand(query[i], u),
         \A x \in index : Extends(x, v \o u) => FitsAt(x, query, i)
  PROVE  Agree(index, query, v \o u, i)
<1> SUFFICES ASSUME NEW x \in index, Extends(x, v \o u)
             PROVE  PieceEnds(x, query)[i] = Len(v \o u) /\ \A j \in 1..i : FitsAt(x, query, j)
  BY DEF Agree
<1>1. /\ PieceEnds(x, query)[i] = Len(v \o u) /\ \A j \in 1..(i - 1) : FitsAt(x, query, j)
      /\ FitsAt(x, query, i)
  BY PieceThere
<1>2. \A j \in 1..i : j = i \/ j \in 1..(i - 1)
  BY MissingFacts
<1> QED
  BY <1>1, <1>2

\* A formula below a node that is not a leaf goes on with what the next token
\* may stand for.
LEMMA PieceExists ==
  ASSUME index \in Indexes, query \in LeafQueries, NEW i \in 1..Len(query),
         NEW v, Placed(v, i - 1), NEW x \in index, Extends(x, v)
  PROVE  \E u : MayStand(query[i], u) /\ Extends(x, v \o u)
<1>1. /\ x \in Paths /\ IsTerm(x) /\ v \in Paths /\ query \in Paths /\ Len(query) \in Nat
      /\ Len(x) \in Nat /\ Len(v) \in Nat /\ Len(v) <= Len(x)
  <2>1. x \in Paths /\ IsTerm(x) /\ v \in Paths /\ query \in Paths /\ Len(query) \in Nat
    BY IndexFacts, MissingFacts DEF Placed
  <2> QED
    BY <2>1, PathFacts DEF Paths, Extends
<1>2. Len(v) # Len(x)
  <2>1. SUFFICES ASSUME Len(v) = Len(x) PROVE FALSE
    OBVIOUS
  <2>2. v = x
    BY <1>1, <2>1, SeqEqual DEF Extends, Paths
  <2>3. OpenSlots(v)[Len(v)] = 0
    BY <1>1, <2>2 DEF IsTerm
  <2>4. i - 1 \in 0..Len(query) /\ i - 1 # Len(query)
    BY <1>1
  <2> QED
    BY <2>3, <2>4, MissingFacts DEF Placed
<1>3. PICK k \in (Len(v) + 1)..Len(x) :
        IF encoded_token_is_var(query[i]) THEN IsTerm(SubSeq(x, Len(v) + 1, k)) ELSE k = Len(v) + 1
  <2>1. CASE encoded_token_is_var(query[i])
    <3>1. Len(v) < Len(x)
      BY <1>1, <1>2
    <3> QED
      BY <1>1, <2>1, <3>1, SubtermAt DEF Paths
  <2>2. CASE ~encoded_token_is_var(query[i])
    <3>1. Len(v) + 1 \in (Len(v) + 1)..Len(x)
      BY <1>1, <1>2
    <3> QED
      BY <2>2, <3>1
  <2> QED
    BY <2>1, <2>2
<1>4. PICK u : u = SubSeq(x, Len(v) + 1, k)
  OBVIOUS
<1>5. k \in Nat /\ Len(v) <= k /\ k <= Len(x) /\ Len(v) + (k - Len(v)) = k
  BY <1>1, <1>3
<1>6. u \in Paths /\ Len(u) = k - Len(v) /\ \A j \in 1..(k - Len(v)) : u[j] = x[Len(v) + j]
  BY <1>1, <1>4, <1>5, SubSeqFacts DEF Paths
<1>7. Reads(x, Len(v), u, Len(u))
  BY <1>1, <1>5, <1>6 DEF Reads
<1>8. Extends(x, v \o u)
  BY <1>1, <1>6, <1>7, ExtendsConcat
<1>9. MayStand(query[i], u)
  <2>1. k = Len(v) + 1 => Len(u) = 1
    BY <1>1, <1>6
  <2> QED
    BY <1>3, <1>4, <1>6, <2>1 DEF MayStand
<1> QED
  BY <1>8, <1>9

\* u is what token i of the query stands for in x, below the node v.
StandsFor(u, i, v, x) ==
  /\ MayStand(query[i], u) /\ Extends(x, v \o u) /\ Piece(x, query, i) = u
  /\ FitsAt(x, query, i)
  /\ Len(u) = 1 => x[PieceEnds(x, query)[i]] = u[1]

\* A formula that unifies with the query, with its piece for the next token.
LEMMA UnifyingPiece ==
  ASSUME index \in Indexes, query \in LeafQueries, NEW i \in 1..Len(query),
         NEW v, Placed(v, i - 1), Agree(index, query, v, i - 1), NEW x \in Unifying, Extends(x, v)
  PROVE  \E u : StandsFor(u, i, v, x)
<1>1. x \in index /\ Unifies(x, query) /\ v \in Paths /\ i \in DOMAIN query
  BY MissingFacts DEF Unifying, Placed
<1>2. PICK u : MayStand(query[i], u) /\ Extends(x, v \o u)
  BY <1>1, PieceExists
<1>3. FitsAt(x, query, i)
  BY <1>1, UnifiesIs
<1> QED
  BY <1>1, <1>2, <1>3, PieceThere DEF StandsFor

\* The id of a token makes it a constant, a variable or a range.
LEMMA TokenKinds ==
  ASSUME query \in LeafQueries, NEW i \in 1..Len(query)
  PROVE  /\ query[i] \in encoded_token_t /\ i \in DOMAIN query /\ i \in Nat \ {0}
         /\ i - 1 \in 0..Len(query) /\ query \in Paths
         /\ ~(encoded_token_is_var(query[i]) /\ encoded_token_is_range(query[i]))
<1>1. query \in Paths /\ DOMAIN query = 1..Len(query) /\ Len(query) \in Nat
  BY MissingFacts
<1>2. query[i] \in encoded_token_t /\ query[i].id \in Nat
  BY <1>1, PathFacts DEF Paths
<1> QED
  BY <1>1, <1>2 DEF encoded_token_is_var, encoded_token_is_range, VAR_ID_MAX, RANGE_ID_MIN

\* A piece of one token.
LEMMA OneToken ==
  ASSUME NEW u \in Paths, Len(u) = 1
  PROVE  u[1] \in encoded_token_t /\ u = <<u[1]>>
<1>1. u[1] \in encoded_token_t
  BY PathFacts DEF Paths
<1>2. PICK w \in Paths : w = <<u[1]>> /\ Len(w) = 1 /\ w[1] = u[1]
  BY <1>1 DEF Paths
<1>3. u = w
  BY <1>2, SeqEqual DEF Paths
<1> QED
  BY <1>1, <1>2, <1>3

\* A constant token.
LEMMA ConstAgrees ==
  ASSUME index \in Indexes, query \in LeafQueries, NEW i \in 1..Len(query), ~IsSpecial(query[i]),
         NEW v \in Paths, Agree(index, query, v, i - 1)
  PROVE  Agree(index, query, v \o <<query[i]>>, i)
<1>0. PICK tok \in encoded_token_t : tok = query[i]
  BY TokenKinds
<1>1. PICK u \in Paths : u = <<query[i]>> /\ Len(u) = 1 /\ u[1] = query[i]
  <2>1. <<tok>> \in Paths /\ Len(<<tok>>) = 1 /\ <<tok>>[1] = tok
    BY DEF Paths
  <2> QED
    BY <1>0, <2>1
<1>2. MayStand(query[i], u)
  BY <1>1 DEF MayStand, IsSpecial
<1>3. ASSUME NEW x \in index, Extends(x, v \o u) PROVE FitsAt(x, query, i)
  BY <1>1, <1>2, <1>3, PieceThere DEF FitsAt, IsSpecial
<1>4. Agree(index, query, v \o u, i)
  BY <1>2, <1>3, AgreeNext
<1> QED
  BY <1>1, <1>4

\* A formula that unifies goes on with the constant.
LEMMA ConstForced ==
  ASSUME index \in Indexes, query \in LeafQueries, NEW i \in 1..Len(query), ~IsSpecial(query[i]),
         NEW v, Placed(v, i - 1), Agree(index, query, v, i - 1), NEW x \in Unifying, Extends(x, v)
  PROVE  Extends(x, v \o <<query[i]>>)
<1>0. PICK u : StandsFor(u, i, v, x)
  BY UnifyingPiece
<1>1. /\ MayStand(query[i], u) /\ Extends(x, v \o u) /\ FitsAt(x, query, i)
      /\ Len(u) = 1 => x[PieceEnds(x, query)[i]] = u[1]
  BY <1>0 DEF StandsFor
<1>2. u \in Paths /\ Len(u) = 1
  BY <1>1 DEF MayStand, IsSpecial
<1>3. u[1] = query[i] /\ u = <<u[1]>>
  BY <1>1, <1>2, OneToken DEF FitsAt
<1> QED
  BY <1>1, <1>3

\* A special token that is given a solution of its own.
LEMMA SolutionAgrees ==
  ASSUME index \in Indexes, query \in LeafQueries, NEW i \in 1..Len(query), Fresh(query, i),
         NEW v \in Paths, Agree(index, query, v, i - 1), NEW u \in Solutions(query[i], v)
  PROVE  Agree(index, query, v \o u, i)
<1>1. u \in Paths /\ IsTerm(u)
  BY SolutionFacts
<1>2. ~encoded_token_is_var(query[i]) => Len(u) = 1 /\ validSubst(u[1], query[i].id)
  BY DEF Solutions
<1>3. MayStand(query[i], u)
  BY <1>1, <1>2 DEF MayStand
<1>4. ASSUME NEW x \in index, Extends(x, v \o u) PROVE FitsAt(x, query, i)
  <2>1. Len(u) = 1 => x[PieceEnds(x, query)[i]] = u[1]
    BY <1>3, <1>4, PieceThere
  <2>2. CASE encoded_token_is_var(query[i])
    <3>1. ~encoded_token_is_range(query[i])
      BY <2>2, TokenKinds
    <3> QED
      BY <2>2, <3>1 DEF FitsAt, Fresh
  <2>3. CASE ~encoded_token_is_var(query[i])
    BY <1>2, <2>1, <2>3 DEF FitsAt, Fresh
  <2> QED
    BY <2>2, <2>3
<1> QED
  BY <1>3, <1>4, AgreeNext

\* A formula that unifies goes on with one of the solutions.
LEMMA SolutionForced ==
  ASSUME index \in Indexes, query \in LeafQueries, NEW i \in 1..Len(query), Fresh(query, i),
         NEW v, Placed(v, i - 1), Agree(index, query, v, i - 1), NEW x \in Unifying, Extends(x, v)
  PROVE  \E u \in Solutions(query[i], v) : Extends(x, v \o u)
<1>0. PICK u : StandsFor(u, i, v, x)
  BY UnifyingPiece
<1>1. /\ MayStand(query[i], u) /\ Extends(x, v \o u) /\ FitsAt(x, query, i)
      /\ Len(u) = 1 => x[PieceEnds(x, query)[i]] = u[1]
  BY <1>0 DEF StandsFor
<1>2. /\ u \in Paths /\ v \in Paths /\ index \in SUBSET Paths /\ x \in index
      /\ v \o u \in Paths /\ IsNode(index, v \o u)
  <2>1. u \in Paths /\ v \in Paths /\ index \in SUBSET Paths /\ x \in index
    BY <1>1, IndexFacts DEF MayStand, Placed, Unifying
  <2>2. v \o u \in Paths
    BY <2>1, ConcatFacts
  <2> QED
    BY <1>1, <2>1, <2>2 DEF IsNode
<1>3. CASE encoded_token_is_var(query[i])
  <2>1. u \in TermsFrom(index, v)
    BY <1>1, <1>2, <1>3, TermsFromFacts DEF MayStand
  <2> QED
    BY <1>1, <1>3, <2>1 DEF Solutions
<1>4. CASE ~encoded_token_is_var(query[i])
  <2>1. Len(u) = 1 /\ encoded_token_is_range(query[i])
    BY <1>1, <1>4 DEF MayStand, Fresh, IsSpecial
  <2>2. validSubst(u[1], query[i].id)
    BY <1>1, <2>1 DEF FitsAt
  <2>3. u = <<u[1]>> /\ u[1] \in encoded_token_t
    BY <1>2, <2>1, OneToken
  <2>4. u[1] \in ChildTokens(index, v)
    BY <1>2, <2>3, ChildIsNode DEF HasChild
  <2>5. u \in Solutions(query[i], v)
    BY <1>4, <2>2, <2>3, <2>4 DEF Solutions
  <2> QED
    BY <1>1, <2>5
<1> QED
  BY <1>3, <1>4

\* A variable that repeats the solution u of token j.
LEMMA ReplayAgrees ==
  ASSUME index \in Indexes, query \in LeafQueries, NEW i \in 1..Len(query),
         encoded_token_is_var(query[i]), NEW v \in Paths, Agree(index, query, v, i - 1),
         NEW u \in Paths, IsTerm(u),
         NEW j \in 1..(i - 1), Fresh(query, j), query[j].id = query[i].id,
         \A x \in index : Extends(x, v) => Piece(x, query, j) = u
  PROVE  Agree(index, query, v \o u, i)
<1>1. MayStand(query[i], u)
  BY DEF MayStand
<1>2. ASSUME NEW x \in index, Extends(x, v \o u) PROVE FitsAt(x, query, i)
  <2>1. Piece(x, query, i) = u /\ \A k \in 1..(i - 1) : FitsAt(x, query, k)
    BY <1>1, <1>2, PieceThere
  <2>2. Piece(x, query, j) = u
    <3>1. x \in Paths
      BY IndexFacts
    <3>2. Extends(x, v)
      BY <1>2, <3>1, ExtendsConcat
    <3> QED
      BY <3>2
  <2>3. ASSUME NEW k \in 1..(i - 1), query[k].id = query[i].id,
               encoded_token_is_var(query[i]), ~encoded_token_is_anon_var(query[i])
        PROVE  Piece(x, query, k) = Piece(x, query, i)
    <3>0. i \in Nat /\ j \in Nat /\ k \in Nat
      BY TokenKinds
    <3>1. encoded_token_is_var(query[k]) /\ ~encoded_token_is_anon_var(query[k])
      BY <2>3 DEF encoded_token_is_var, encoded_token_is_anon_var
    <3>2. encoded_token_is_var(query[j]) /\ ~encoded_token_is_anon_var(query[j])
      BY <2>3 DEF encoded_token_is_var, encoded_token_is_anon_var
    <3>3. ~(k < j)
      <4>1. \A n \in 1..(j - 1) : query[n].id # query[j].id
        BY <3>2 DEF Fresh
      <4> QED
        BY <2>3, <3>0, <4>1
    <3>4. CASE j < k
      <4>1. j \in 1..(k - 1) /\ FitsAt(x, query, k)
        BY <2>1, <2>3, <3>0, <3>4
      <4>2. Piece(x, query, j) = Piece(x, query, k)
        BY <2>3, <3>1, <4>1 DEF FitsAt
      <4> QED
        BY <2>1, <2>2, <4>2
    <3>5. CASE j = k
      BY <2>1, <2>2, <3>5
    <3> QED
      BY <3>0, <3>3, <3>4, <3>5
  <2>4. ~encoded_token_is_range(query[i]) /\ IsSpecial(query[i])
    BY TokenKinds DEF IsSpecial
  <2> QED
    BY <2>3, <2>4 DEF FitsAt
<1> QED
  BY <1>1, <1>2, AgreeNext

\* A formula that unifies repeats what the variable stands for.
LEMMA ReplayForced ==
  ASSUME index \in Indexes, query \in LeafQueries, NEW i \in 1..Len(query),
         encoded_token_is_var(query[i]), ~encoded_token_is_anon_var(query[i]),
         NEW v, Placed(v, i - 1), Agree(index, query, v, i - 1), NEW u,
         NEW j \in 1..(i - 1), query[j].id = query[i].id,
         NEW x \in Unifying, Extends(x, v), Piece(x, query, j) = u
  PROVE  Extends(x, v \o u)
<1>0. PICK w : StandsFor(w, i, v, x)
  BY UnifyingPiece
<1>1. Extends(x, v \o w) /\ Piece(x, query, i) = w /\ FitsAt(x, query, i)
  BY <1>0 DEF StandsFor
<1>2. w = u
  BY <1>1 DEF FitsAt
<1> QED
  BY <1>1, <1>2

-----------------------------------------------------------------------------
(***************************************************************************)
(* The search visits the unifying formulas in order.  Pos(tbl, s) is the   *)
(* node that the solution of special s led to.                             *)
(***************************************************************************)
Pos(tbl, s) == IF s = -1 THEN RootNode ELSE tbl[s].root \o tbl[s].sol

\* The node v, reached with i tokens and the specials up to s: every formula
\* below it agrees with the tokens, and a unifying formula that is below the
\* solutions of these specials is below v.
Sound(ix, q, tbl, v, i, s) ==
  /\ Agree(ix, q, v, i)
  /\ \A r \in -1..s : Extends(v, Pos(tbl, r))
  /\ \A x \in ix : Unifies(x, q) /\ Extends(x, Pos(tbl, s)) => Extends(x, v)

\* The current node and the nodes of the solved specials are sound.
NodesSound ==
  /\ \A s \in 0..lastSolved :
       Sound(index, query, bkTable, bkTable[s].root, FreshPosition(query, s) - 1, s - 1)
  /\ pc \in {"start", "match"} =>
       Sound(index, query, bkTable, currentNode, currentToken - 1, lastSolved)

\* The formulas visited.
Visited == { stream[k][1] : k \in DOMAIN stream }

\* The formulas of U before the node v in index order; and those below it.
Before(U, v) == { x \in U : TermLess(x, v) }
UpTo(U, v)   == { x \in U : TermLess(x, v) \/ Extends(x, v) }

\* The formulas visited are those that unify and are before the current node
\* or, when the search goes back, before or below the node of lastSolved.
VisitedSoFar ==
  /\ pc \in {"start", "match"} => Visited = Before(Unifying, currentNode)
  /\ pc = "backtrack" => Visited = UpTo(Unifying, Pos(bkTable, lastSolved))
  /\ pc = "done" => \/ Visited = Unifying
                    \/ found = maxTotal /\ currentNode \in Paths /\ Visited = Before(Unifying, currentNode)

\* The stream is in index order.
InOrder ==
  \A i, j \in DOMAIN stream : i < j =>
    \/ TermLess(stream[i][1], stream[j][1])
    \/ stream[i][1] = stream[j][1] /\ stream[i][2] < stream[j][2]

\* The node that the specials up to s lead to.
LEMMA PosFacts ==
  ASSUME SearchInv, NEW s \in -1..lastSolved
  PROVE  /\ Pos(bkTable, s) \in Paths
         /\ s # -1 => /\ bkTable[s].root \in Paths /\ bkTable[s].sol \in Paths
                      /\ IsTerm(bkTable[s].sol)
                      /\ Pos(bkTable, s) = bkTable[s].root \o bkTable[s].sol
                      /\ Extends(Pos(bkTable, s), bkTable[s].root)
<1>1. CASE s = -1
  BY <1>1, RootFacts DEF Pos
<1>2. CASE s # -1
  <2>1. s \in 0..lastSolved
    BY <1>2 DEF SearchInv, SearchTypes
  <2>2. PICK p : SolvedAt(s, p)
    BY <2>1 DEF SearchInv, Solved
  <2>3. bkTable[s].root \in Paths /\ bkTable[s].sol \in Paths /\ IsTerm(bkTable[s].sol)
    BY <2>2, SolutionFacts DEF SolvedAt, Placed, SearchInv, SearchTypes
  <2>4. Pos(bkTable, s) = bkTable[s].root \o bkTable[s].sol
    BY <1>2 DEF Pos
  <2> QED
    BY <2>3, <2>4, ConcatFacts
<1> QED
  BY <1>1, <1>2

\* A path extends itself and the root.
LEMMA ExtendsReflexive == ASSUME NEW v \in Paths PROVE Extends(v, v) /\ Extends(v, RootNode)
<1>1. Len(v) \in Nat /\ Len(RootNode) = 0
  BY PathFacts, RootFacts DEF Paths
<1> QED
  BY <1>1 DEF Extends

\* What is sound stays sound while the specials it rests on keep their solutions.
LEMMA SoundStays ==
  ASSUME NEW ix, NEW q, NEW tbl, NEW new, NEW v, NEW i, NEW s \in Int, s >= -1,
         \A r \in 0..s : new[r] = tbl[r], Sound(ix, q, tbl, v, i, s)
  PROVE  Sound(ix, q, new, v, i, s)
<1>1. \A r \in -1..s : Pos(new, r) = Pos(tbl, r)
  BY DEF Pos
<1>2. Pos(new, s) = Pos(tbl, s)
  BY <1>1
<1> QED
  BY <1>1, <1>2 DEF Sound

\* A further token without a solution of its own: the formulas that unify are
\* all below the next node.
LEMMA SoundNarrower ==
  ASSUME NEW ix \in SUBSET Paths, NEW q, NEW tbl, NEW v \in Paths, NEW i, NEW s, NEW w \in Paths,
         NEW k, Sound(ix, q, tbl, v, i, s), Agree(ix, q, w, k), Extends(w, v),
         \A r \in -1..s : Pos(tbl, r) \in Paths,
         \A x \in ix : Unifies(x, q) /\ Extends(x, v) => Extends(x, w)
  PROVE  Sound(ix, q, tbl, w, k, s)
<1>1. ASSUME NEW r \in -1..s PROVE Extends(w, Pos(tbl, r))
  BY ExtendsTransitive DEF Sound
<1> QED
  BY <1>1 DEF Sound

\* The node of a solution.
LEMMA SoundSolution ==
  ASSUME NEW ix \in SUBSET Paths, NEW q, NEW tbl, NEW i, NEW s \in Nat, NEW k,
         NEW root \in Paths, root = tbl[s].root, Pos(tbl, s) \in Paths, Extends(Pos(tbl, s), root),
         Sound(ix, q, tbl, root, i, s - 1), Agree(ix, q, Pos(tbl, s), k),
         \A r \in -1..s : Pos(tbl, r) \in Paths
  PROVE  Sound(ix, q, tbl, Pos(tbl, s), k, s)
<1>1. ASSUME NEW r \in -1..s PROVE Extends(Pos(tbl, s), Pos(tbl, r))
  <2>1. CASE r = s
    BY <2>1, ExtendsReflexive
  <2>2. CASE r # s
    <3>1. r \in -1..(s - 1)
      BY <2>2
    <3>2. Extends(root, Pos(tbl, r))
      BY <3>1 DEF Sound
    <3> QED
      BY <3>2, ExtendsTransitive
  <2> QED
    BY <2>1, <2>2
<1> QED
  BY <1>1 DEF Sound

\* The root is sound: every formula is below it.
LEMMA NodesInit == Init /\ VariablesAreLeaves(query) => NodesSound
<1> SUFFICES ASSUME Init, VariablesAreLeaves(query) PROVE NodesSound
  OBVIOUS
<1>1. /\ lastSolved = -1 /\ currentNode = RootNode /\ currentToken = 1
      /\ index \in Indexes /\ query \in LeafQueries
  BY DEF Init, LeafQueries
<1>2. RootNode \in Paths /\ Len(RootNode) = 0 /\ Pos(bkTable, -1) = RootNode
  BY RootFacts DEF Pos
<1>3. Extends(RootNode, RootNode)
  BY <1>2, ExtendsReflexive
<1>4. Agree(index, query, RootNode, 0)
  <2>1. ASSUME NEW x \in index PROVE PieceEnds(x, query)[0] = 0
    BY <1>1, IndexFacts, MissingFacts, PieceEndsDef
  <2> QED
    BY <1>2, <2>1 DEF Agree
<1>5. Sound(index, query, bkTable, RootNode, 0, -1)
  <2>1. \A r \in -1..-1 : r = -1
    OBVIOUS
  <2> QED
    BY <1>2, <1>3, <1>4, <2>1 DEF Sound
<1>6. currentToken - 1 = 0
  BY <1>1
<1> QED
  BY <1>1, <1>5, <1>6 DEF NodesSound

\* Steps that leave the search where it is keep the nodes sound.
LEMMA NodesQuiet ==
  ASSUME NodesSound, UNCHANGED searchVars, pc' \in {"start", "match"} => pc \in {"start", "match"}
  PROVE  NodesSound'
  BY DEF NodesSound, searchVars

\* The current node and what the invariants say of it.
LEMMA CurrentSound ==
  ASSUME SearchInv, NodesSound, AtToken
  PROVE  /\ index \in Indexes /\ query \in LeafQueries /\ index \in SUBSET Paths
         /\ currentToken \in 1..Len(query) /\ currentNode \in Paths
         /\ Placed(currentNode, currentToken - 1)
         /\ Agree(index, query, currentNode, currentToken - 1)
         /\ Sound(index, query, bkTable, currentNode, currentToken - 1, lastSolved)
         /\ lastSolved \in Int /\ lastSolved >= -1
         /\ \A r \in -1..lastSolved : Pos(bkTable, r) \in Paths
<1>1. /\ index \in Indexes /\ query \in LeafQueries /\ currentToken \in 1..Len(query)
      /\ currentNode \in Paths /\ Placed(currentNode, currentToken - 1)
  BY AtTokenFacts
<1>2. Sound(index, query, bkTable, currentNode, currentToken - 1, lastSolved)
  BY DEF NodesSound, AtToken
<1>3. lastSolved \in Int /\ lastSolved >= -1
  BY DEF SearchInv, SearchTypes
<1>4. \A r \in -1..lastSolved : Pos(bkTable, r) \in Paths
  BY PosFacts
<1> QED
  BY <1>1, <1>2, <1>3, <1>4, IndexFacts DEF Sound

\* The step to a node that all unifying formulas below the current one share.
LEMMA NodesForced ==
  ASSUME SearchInv, NodesSound, AtToken, UNCHANGED <<index, query, bkTable, lastSolved>>,
         currentNode' \in Paths, Extends(currentNode', currentNode),
         currentToken' = currentToken + 1,
         Agree(index, query, currentNode', currentToken),
         \A x \in Unifying : Extends(x, currentNode) => Extends(x, currentNode')
  PROVE  NodesSound'
<1>1. PICK w \in Paths : w = currentNode'
  OBVIOUS
<1>2. Sound(index, query, bkTable, w, currentToken, lastSolved)
  BY <1>1, CurrentSound, SoundNarrower DEF Unifying
<1>3. currentToken' - 1 = currentToken
  BY CurrentSound
<1> QED
  BY <1>1, <1>2, <1>3 DEF NodesSound

\* The node reached through a constant, and what unifies below it.
LEMMA ConstFacts ==
  ASSUME SearchInv, NodesSound, AtToken, ~IsSpecial(query[currentToken])
  PROVE  \E w \in Paths :
           /\ w = currentNode \o <<query[currentToken]>> /\ Extends(w, currentNode)
           /\ w = Append(currentNode, query[currentToken])
           /\ Agree(index, query, w, currentToken)
           /\ \A x \in Unifying : Extends(x, currentNode) => Extends(x, w)
           /\ HasChild(index, currentNode, query[currentToken]) <=> IsNode(index, w)
<1>1. PICK tok \in encoded_token_t : tok = query[currentToken]
  BY AtTokenFacts
<1>2. PICK u \in Paths : u = <<tok>>
  <2>1. <<tok>> \in Paths
    BY DEF Paths
  <2> QED
    BY <2>1
<1>3. PICK w \in Paths : w = currentNode \o u /\ Extends(w, currentNode)
  BY CurrentSound, ConcatFacts
<1>4. w = currentNode \o <<tok>> /\ w = Append(currentNode, tok)
  BY <1>2, <1>3, CurrentSound, AppendIsConcat DEF Paths
<1>5. Agree(index, query, w, currentToken)
  BY <1>1, <1>4, CurrentSound, ConstAgrees
<1>6. \A x \in Unifying : Extends(x, currentNode) => Extends(x, w)
  BY <1>1, <1>4, CurrentSound, ConstForced
<1>7. HasChild(index, currentNode, tok) <=> IsNode(index, w)
  BY <1>4, CurrentSound, ChildIsNode
<1> QED
  BY <1>1, <1>3, <1>4, <1>5, <1>6, <1>7

\* A constant token leads to a sound node.
LEMMA NodesConst == SearchInv /\ NodesSound /\ MatchConst => NodesSound'
<1> SUFFICES ASSUME SearchInv, NodesSound, MatchConst PROVE NodesSound'
  OBVIOUS
<1>0. AtToken /\ ~IsSpecial(query[currentToken]) /\ UNCHANGED <<index, query, bkTable, lastSolved>>
  BY DEF MatchConst, inputs
<1>1. CASE GoAhead(Append(currentNode, query[currentToken]))
  <2>1. currentNode' = Append(currentNode, query[currentToken]) /\ currentToken' = currentToken + 1
    BY <1>1 DEF GoAhead
  <2> QED
    BY <1>0, <2>1, ConstFacts, NodesForced
<1>2. CASE GiveUp
  BY <1>0, <1>2, NodesQuiet DEF GiveUp, searchVars
<1> QED
  BY <1>1, <1>2 DEF MatchConst

\* The piece that a solved special stands for in the formulas below the nodes
\* that its solution led to.
LEMMA PieceOfSolved ==
  ASSUME SearchInv, NodesSound, NEW s \in 0..lastSolved, NEW j, SolvedAt(s, j),
         NEW x \in index, Extends(x, Pos(bkTable, s))
  PROVE  Piece(x, query, j) = bkTable[s].sol
<1>1. index \in Indexes /\ query \in LeafQueries /\ j \in 1..Len(query) /\ query \in Paths
  BY MissingFacts DEF SearchInv, SearchTypes, SolvedAt
<1>2. FreshPosition(query, s) = j
  BY <1>1, FreshPositionIs DEF SolvedAt
<1>3. s \in -1..lastSolved /\ s # -1
  BY DEF SearchInv, SearchTypes
<1>4. /\ bkTable[s].root \in Paths /\ bkTable[s].sol \in Paths /\ IsTerm(bkTable[s].sol)
      /\ Pos(bkTable, s) = bkTable[s].root \o bkTable[s].sol
  BY <1>3, PosFacts
<1>5. Agree(index, query, bkTable[s].root, j - 1)
  BY <1>2 DEF NodesSound, Sound
<1>6. MayStand(query[j], bkTable[s].sol)
  BY <1>4 DEF MayStand, SolvedAt, Solutions
<1> QED
  BY <1>1, <1>4, <1>5, <1>6, PieceThere

\* The node reached through a repeated variable, and what unifies below it.
LEMMA ReplayFacts ==
  ASSUME SearchInv, NodesSound, AtToken, encoded_token_is_var(query[currentToken]),
         bkTable[SpecialId(query, currentToken)].isSolved
  PROVE  LET sol == bkTable[SpecialId(query, currentToken)].sol
         IN  \E w \in Paths :
               /\ w = currentNode \o sol /\ Extends(w, currentNode)
               /\ Agree(index, query, w, currentToken)
               /\ \A x \in Unifying : Extends(x, currentNode) => Extends(x, w)
               /\ HasPath(currentNode, sol) <=> IsNode(index, w)
<1>0. PICK id : id = SpecialId(query, currentToken)
  OBVIOUS
<1>1. PICK sol : sol = bkTable[id].sol
  OBVIOUS
<1>2. /\ ~encoded_token_is_anon_var(query[currentToken]) /\ id \in 0..lastSolved
      /\ sol \in Paths /\ IsTerm(sol)
      /\ \E j \in 1..(currentToken - 1) : SolvedAt(id, j) /\ query[j].id = query[currentToken].id
  BY <1>0, <1>1, ReplayedIsSolved
<1>3. PICK j \in 1..(currentToken - 1) : SolvedAt(id, j) /\ query[j].id = query[currentToken].id
  BY <1>2
<1>4. PICK w \in Paths : w = currentNode \o sol /\ Extends(w, currentNode)
  BY <1>2, CurrentSound, ConcatFacts
<1>5. ASSUME NEW x \in index, Extends(x, currentNode) PROVE Piece(x, query, j) = sol
  <2>1. id \in -1..lastSolved
    BY <1>2, CurrentSound
  <2>2. Extends(currentNode, Pos(bkTable, id)) /\ Pos(bkTable, id) \in Paths
    BY <2>1, CurrentSound DEF Sound
  <2>3. Extends(x, Pos(bkTable, id))
    BY <1>5, <2>2, CurrentSound, ExtendsTransitive
  <2> QED
    BY <1>1, <1>2, <1>3, <2>3, PieceOfSolved
<1>6. Agree(index, query, w, currentToken)
  <2>1. Fresh(query, j)
    BY <1>3 DEF SolvedAt
  <2> QED
    BY <1>2, <1>3, <1>4, <1>5, <2>1, CurrentSound, ReplayAgrees
<1>7. ASSUME NEW x \in Unifying, Extends(x, currentNode) PROVE Extends(x, w)
  <2>1. Piece(x, query, j) = sol
    BY <1>5, <1>7 DEF Unifying
  <2> QED
    BY <1>2, <1>3, <1>4, <1>7, <2>1, CurrentSound, ReplayForced
<1>8. HasPath(currentNode, sol) <=> IsNode(index, w)
  BY <1>2, <1>4, CurrentSound, PathIsNode
<1> QED
  BY <1>0, <1>1, <1>4, <1>6, <1>7, <1>8

\* A repeated variable leads to a sound node.
LEMMA NodesReplay == SearchInv /\ NodesSound /\ ReplayQvar => NodesSound'
<1> SUFFICES ASSUME SearchInv, NodesSound, ReplayQvar PROVE NodesSound'
  OBVIOUS
<1>0. /\ AtToken /\ encoded_token_is_var(query[currentToken])
      /\ bkTable[SpecialId(query, currentToken)].isSolved
      /\ UNCHANGED <<index, query, bkTable, lastSolved>>
  BY DEF ReplayQvar, inputs
<1>1. CASE GoAhead(currentNode \o bkTable[SpecialId(query, currentToken)].sol)
  <2>1. /\ currentNode' = currentNode \o bkTable[SpecialId(query, currentToken)].sol
        /\ currentToken' = currentToken + 1
    BY <1>1 DEF GoAhead
  <2> QED
    BY <1>0, <2>1, ReplayFacts, NodesForced
<1>2. CASE GiveUp
  BY <1>0, <1>2, NodesQuiet DEF GiveUp, searchVars
<1> QED
  BY <1>1, <1>2 DEF ReplayQvar

\* A solution of special id: the specials before it keep theirs.
LEMMA NodesGiven ==
  ASSUME SearchInv, NodesSound, NEW id, NEW p, NEW root, NEW sol, GivenSolution(id, p, root, sol),
         Sound(index, query, bkTable, root, p - 1, id - 1)
  PROVE  NodesSound'
<1> USE DEF GivenSolution
<1>1. /\ index \in Indexes /\ query \in LeafQueries /\ lastSolved \in -1..(SpecialCount(query) - 1)
      /\ bkTable \in [0..(SpecialCount(query) - 1) -> [isSolved : BOOLEAN, root : Paths, sol : Paths]]
  BY DEF SearchInv, SearchTypes
<1>2. /\ query \in Paths /\ p \in 1..Len(query) /\ Len(query) \in Nat /\ SpecialCount(query) \in Nat
      /\ index \in SUBSET Paths
  <2>1. query \in Paths /\ Len(query) \in Nat /\ DOMAIN query = 1..Len(query)
    BY <1>1, MissingFacts
  <2> QED
    BY <1>1, <2>1, IndexFacts, SpecialsStep DEF SpecialCount
<1>3. PICK new : new = bkTable'
  OBVIOUS
<1>4. new[id] = [isSolved |-> TRUE, root |-> root, sol |-> sol]
  BY <1>1, <1>3
<1>5. ASSUME NEW r \in 0..(SpecialCount(query) - 1), r # id PROVE new[r] = bkTable[r]
  BY <1>1, <1>3, <1>5
<1>6. id \in Nat /\ id \in Int /\ id - 1 \in Int /\ id - 1 >= -1 /\ FreshPosition(query, id) = p
  BY <1>2, FreshPositionIs
<1>7. ASSUME NEW r \in 0..(id - 1) PROVE new[r] = bkTable[r] /\ r \in 0..lastSolved
  BY <1>1, <1>2, <1>5, <1>6
<1>8. root \in Paths /\ sol \in Paths /\ Pos(new, id) = root \o sol /\ new[id].root = root
  BY <1>1, <1>4, <1>6, SolutionFacts DEF Pos, Placed
<1>9. Pos(new, id) \in Paths /\ Extends(Pos(new, id), root)
  BY <1>8, ConcatFacts
<1>10. ASSUME NEW r \in -1..id PROVE Pos(new, r) \in Paths
  <2>1. CASE r = id
    BY <1>9, <2>1
  <2>2. CASE r # id
    <3>1. r = -1 \/ r \in 0..(id - 1)
      BY <1>6, <2>2
    <3>2. Pos(new, r) = Pos(bkTable, r) /\ r \in -1..lastSolved
      BY <1>1, <1>7, <3>1 DEF Pos
    <3> QED
      BY <3>2, PosFacts
  <2> QED
    BY <2>1, <2>2
<1>11. Sound(index, query, new, root, p - 1, id - 1)
  BY <1>6, <1>7, SoundStays
<1>12. Agree(index, query, Pos(new, id), p)
  BY <1>1, <1>2, <1>8, SolutionAgrees DEF Sound
<1>13. Sound(index, query, new, Pos(new, id), p, id)
  BY <1>2, <1>6, <1>8, <1>9, <1>10, <1>11, <1>12, SoundSolution
<1>14. ASSUME NEW s \in 0..id
       PROVE  Sound(index, query, new, new[s].root, FreshPosition(query, s) - 1, s - 1)
  <2>1. CASE s = id
    BY <1>6, <1>8, <1>11, <2>1
  <2>2. CASE s # id
    <3>1. s \in 0..(id - 1) /\ s - 1 \in Int /\ s - 1 >= -1
      BY <1>6, <2>2
    <3>2. Sound(index, query, bkTable, bkTable[s].root, FreshPosition(query, s) - 1, s - 1)
      BY <1>7, <3>1 DEF NodesSound
    <3>3. \A r \in 0..(s - 1) : new[r] = bkTable[r]
      BY <1>7, <3>1
    <3> QED
      BY <1>7, <3>1, <3>2, <3>3, SoundStays
  <2> QED
    BY <2>1, <2>2
<1>15. currentToken' - 1 = p /\ currentNode' = Pos(new, id) /\ lastSolved' = id
  BY <1>2, <1>8
<1> QED
  BY <1>3, <1>13, <1>14, <1>15 DEF NodesSound

\* A first solution leads to a sound node.
LEMMA NodesSolve == SearchInv /\ NodesSound /\ Solve => NodesSound'
<1> SUFFICES ASSUME SearchInv, NodesSound, Solve PROVE NodesSound'
  OBVIOUS
<1>0. AtToken
  BY DEF Solve
<1>1. \/ \E sol : GivenSolution(lastSolved + 1, currentToken, currentNode, sol)
      \/ GiveUp /\ UNCHANGED <<index, query, bkTable, lastSolved>>
  BY SolveGives
<1>2. CASE GiveUp /\ UNCHANGED <<index, query, bkTable, lastSolved>>
  BY <1>2, NodesQuiet DEF GiveUp, searchVars
<1>3. (lastSolved + 1) - 1 = lastSolved
  BY <1>0, CurrentSound
<1>4. Sound(index, query, bkTable, currentNode, currentToken - 1, (lastSolved + 1) - 1)
  BY <1>0, <1>3, CurrentSound
<1> QED
  BY <1>1, <1>2, <1>4, NodesGiven

\* A next solution leads to a sound node.
LEMMA NodesNext == SearchInv /\ NodesSound /\ NextSol => NodesSound'
<1> SUFFICES ASSUME SearchInv, NodesSound, NextSol PROVE NodesSound'
  OBVIOUS
<1>1. PICK p, sol : GivenSolution(lastSolved, p, bkTable[lastSolved].root, sol)
  BY NextGives
<1>2. FreshPosition(query, lastSolved) = p /\ lastSolved \in 0..lastSolved
  BY <1>1, MissingFacts, FreshPositionIs DEF GivenSolution, SearchInv, SearchTypes
<1>3. Sound(index, query, bkTable, bkTable[lastSolved].root, p - 1, lastSolved - 1)
  BY <1>2 DEF NodesSound
<1> QED
  BY <1>1, <1>3, NodesGiven

\* Dropping a special keeps the nodes sound.
LEMMA NodesNoNext == SearchInv /\ NodesSound /\ NoNextSol => NodesSound'
<1> SUFFICES ASSUME SearchInv, NodesSound, NoNextSol PROVE NodesSound'
  OBVIOUS
<1>1. /\ UNCHANGED <<index, query>> /\ lastSolved >= 0 /\ pc' = "backtrack"
      /\ bkTable' = [bkTable EXCEPT ![lastSolved] = Unsolved] /\ lastSolved' = lastSolved - 1
  BY DEF NoNextSol, inputs
<1>2. /\ lastSolved \in -1..(SpecialCount(query) - 1) /\ SpecialCount(query) \in Nat
      /\ bkTable \in [0..(SpecialCount(query) - 1) -> [isSolved : BOOLEAN, root : Paths, sol : Paths]]
  BY MissingFacts, SpecialsStep DEF SpecialCount, SearchInv, SearchTypes
<1>3. PICK new : new = bkTable'
  OBVIOUS
<1>4. \A r \in 0..(lastSolved - 1) : new[r] = bkTable[r] /\ r \in 0..lastSolved
  BY <1>1, <1>2, <1>3
<1>5. ASSUME NEW s \in 0..(lastSolved - 1)
      PROVE  Sound(index, query, new, new[s].root, FreshPosition(query, s) - 1, s - 1)
  <2>1. s - 1 \in Int /\ s - 1 >= -1 /\ \A r \in 0..(s - 1) : new[r] = bkTable[r]
    BY <1>2, <1>4
  <2>2. Sound(index, query, bkTable, bkTable[s].root, FreshPosition(query, s) - 1, s - 1)
    BY <1>4 DEF NodesSound
  <2> QED
    BY <1>4, <2>1, <2>2, SoundStays
<1> QED
  BY <1>1, <1>3, <1>5 DEF NodesSound

\* Every step keeps the nodes sound.
LEMMA NodesStep == SearchInv /\ NodesSound /\ [Next]_vars => NodesSound'
<1> SUFFICES ASSUME SearchInv, NodesSound, [Next]_vars PROVE NodesSound'
  OBVIOUS
<1>1. CASE CheckArguments \/ LimitReached \/ HandleSolution \/ Exhausted \/ UNCHANGED vars
  BY <1>1, NodesQuiet
     DEF CheckArguments, LimitReached, HandleSolution, Exhausted, vars, inputs, searchVars
<1> QED
  BY <1>1, NoAssertFails, NodesConst, NodesReplay, NodesSolve, NodesNext, NodesNoNext DEF Next

-----------------------------------------------------------------------------
\* The formulas of U on either side of a node.
LEMMA BeforeNarrower ==
  ASSUME NEW U \in SUBSET Paths, NEW v \in Paths, NEW w \in Paths, Extends(w, v),
         \A x \in U : Extends(x, v) => Extends(x, w)
  PROVE  Before(U, w) = Before(U, v) /\ UpTo(U, w) = UpTo(U, v)
<1>1. ASSUME NEW x \in U PROVE TermLess(x, w) <=> TermLess(x, v)
  <2>1. TermLess(x, v) => TermLess(x, w)
    BY LessThroughNode
  <2>2. TermLess(x, w) => TermLess(x, v) \/ Extends(x, v)
    BY LessThroughNode
  <2>3. ~(TermLess(x, w) /\ Extends(x, w))
    BY TermLessIrreflexive
  <2> QED
    BY <2>1, <2>2, <2>3
<1>2. ASSUME NEW x \in U PROVE Extends(x, w) <=> Extends(x, v)
  BY ExtendsTransitive
<1> QED
  BY <1>1, <1>2 DEF Before, UpTo

\* The terms S that a special token may stand for below v.
Alternatives(U, v, S) ==
  /\ S \in SUBSET Paths /\ \A s \in S : IsTerm(s)
  /\ \A x \in U : Extends(x, v) => \E s \in S : Extends(x, v \o s)

\* Where a formula below v is, compared with one of these terms.
LEMMA ChoiceOrder ==
  ASSUME NEW U \in SUBSET Paths, NEW v \in Paths, NEW S, Alternatives(U, v, S), NEW s \in S,
         NEW x \in U, Extends(x, v)
  PROVE  \/ Extends(x, v \o s)
         \/ \E t \in S : TermLess(t, s) /\ TermLess(x, v \o s)
         \/ \E t \in S : TermLess(s, t) /\ TermLess(v \o s, x) /\ Extends(x, v \o t)
<1>1. PICK t \in S : Extends(x, v \o t)
  BY DEF Alternatives
<1>2. s \in Paths /\ t \in Paths /\ IsTerm(s) /\ IsTerm(t)
  BY DEF Alternatives
<1>3. TermLess(s, t) \/ TermLess(t, s) \/ s = t
  BY <1>2, TermLessTotal, TermsArePrefixFree DEF Paths
<1>4. PICK vs \in Paths, vt \in Paths : vs = v \o s /\ vt = v \o t
  BY <1>2, ConcatFacts
<1>5. CASE TermLess(s, t)
  <2>1. TermLess(vs, vt)
    BY <1>2, <1>4, <1>5, ConcatLess
  <2>2. TermLess(vs, x)
    BY <1>1, <1>4, <2>1, LessThroughNode
  <2> QED
    BY <1>1, <1>4, <1>5, <2>2
<1>6. CASE TermLess(t, s)
  <2>1. TermLess(vt, vs)
    BY <1>2, <1>4, <1>6, ConcatLess
  <2>2. TermLess(x, vs)
    BY <1>1, <1>4, <2>1, LessThroughNode
  <2> QED
    BY <1>4, <1>6, <2>2
<1> QED
  BY <1>1, <1>3, <1>5, <1>6

\* A formula is not on both sides of a node.
LEMMA OneSide ==
  ASSUME NEW x \in Paths, NEW v \in Paths
  PROVE  ~(TermLess(x, v) /\ TermLess(v, x))
<1>1. Extends(x, x)
  BY ExtendsReflexive
<1> QED
  BY <1>1, TermLessTransitive, TermLessIrreflexive

\* The first solution: nothing is before it that is not before v.
LEMMA BeforeFirst ==
  ASSUME NEW U \in SUBSET Paths, NEW v \in Paths, NEW S, Alternatives(U, v, S), NEW s \in S,
         \A t \in S : t = s \/ TermLess(s, t)
  PROVE  Before(U, v \o s) = Before(U, v)
<1>1. s \in Paths /\ IsTerm(s)
  BY DEF Alternatives
<1>2. PICK w \in Paths : w = v \o s /\ Extends(w, v)
  BY <1>1, ConcatFacts
<1>3. ASSUME NEW t \in S PROVE ~TermLess(t, s)
  <2>1. t \in Paths
    BY DEF Alternatives
  <2> QED
    BY <1>1, <2>1, OneSide
<1>4. ASSUME NEW x \in U, TermLess(x, w) PROVE TermLess(x, v)
  <2>1. TermLess(x, v) \/ Extends(x, v)
    BY <1>2, <1>4, LessThroughNode
  <2>2. ~Extends(x, w) /\ ~TermLess(w, x)
    BY <1>4, TermLessIrreflexive, OneSide
  <2>3. ~Extends(x, v)
    BY <1>2, <1>3, <2>2, ChoiceOrder
  <2> QED
    BY <2>1, <2>3
<1>5. ASSUME NEW x \in U, TermLess(x, v) PROVE TermLess(x, w)
  BY <1>2, <1>5, LessThroughNode
<1> QED
  BY <1>2, <1>4, <1>5 DEF Before

\* The next solution n after s.
LEMMA BeforeNext ==
  ASSUME NEW U \in SUBSET Paths, NEW v \in Paths, NEW S, Alternatives(U, v, S), NEW s \in S, NEW n \in S,
         TermLess(s, n), \A t \in S : TermLess(s, t) => t = n \/ TermLess(n, t)
  PROVE  Before(U, v \o n) = UpTo(U, v \o s)
<1>1. s \in Paths /\ n \in Paths
  BY DEF Alternatives
<1>2. PICK vs \in Paths, vn \in Paths : vs = v \o s /\ vn = v \o n /\ Extends(vs, v) /\ Extends(vn, v)
  BY <1>1, ConcatFacts
<1>3. TermLess(vs, vn)
  BY <1>1, <1>2, ConcatLess
<1>4. ASSUME NEW x \in U, TermLess(x, vs) \/ Extends(x, vs) PROVE TermLess(x, vn)
  BY <1>2, <1>3, <1>4, TermLessTransitive, LessThroughNode
<1>5. ASSUME NEW x \in U, TermLess(x, vn) PROVE TermLess(x, vs) \/ Extends(x, vs)
  <2>1. TermLess(x, v) \/ Extends(x, v)
    BY <1>2, <1>5, LessThroughNode
  <2>2. CASE TermLess(x, v)
    BY <1>2, <2>2, LessThroughNode
  <2>3. CASE Extends(x, v)
    <3>1. \/ Extends(x, vs) \/ TermLess(x, vs)
          \/ \E t \in S : TermLess(s, t) /\ Extends(x, v \o t)
      BY <1>2, <2>3, ChoiceOrder
    <3>2. ASSUME NEW t \in S, TermLess(s, t), Extends(x, v \o t) PROVE FALSE
      <4>1. PICK vt \in Paths : vt = v \o t /\ t \in Paths
        BY ConcatFacts DEF Alternatives
      <4>2. t = n \/ TermLess(n, t)
        BY <3>2
      <4>3. CASE t = n
        BY <1>2, <1>5, <3>2, <4>3, TermLessIrreflexive
      <4>4. CASE TermLess(n, t)
        <5>1. TermLess(vn, vt)
          BY <1>1, <1>2, <4>1, <4>4, ConcatLess
        <5>2. TermLess(vn, x)
          BY <1>2, <3>2, <4>1, <5>1, LessThroughNode
        <5> QED
          BY <1>2, <1>5, <5>2, OneSide
      <4> QED
        BY <4>2, <4>3, <4>4
    <3> QED
      BY <3>1, <3>2
  <2> QED
    BY <2>1, <2>2, <2>3
<1> QED
  BY <1>2, <1>4, <1>5 DEF Before, UpTo

\* The last solution.
LEMMA UpToLast ==
  ASSUME NEW U \in SUBSET Paths, NEW v \in Paths, NEW S, Alternatives(U, v, S), NEW s \in S,
         \A t \in S : ~TermLess(s, t)
  PROVE  UpTo(U, v \o s) = UpTo(U, v)
<1>1. s \in Paths
  BY DEF Alternatives
<1>2. PICK w \in Paths : w = v \o s /\ Extends(w, v)
  BY <1>1, ConcatFacts
<1>3. ASSUME NEW x \in U, TermLess(x, w) \/ Extends(x, w) PROVE TermLess(x, v) \/ Extends(x, v)
  BY <1>2, <1>3, LessThroughNode, ExtendsTransitive
<1>4. ASSUME NEW x \in U, TermLess(x, v) PROVE TermLess(x, w)
  BY <1>2, <1>4, LessThroughNode
<1>5. ASSUME NEW x \in U, Extends(x, v) PROVE TermLess(x, w) \/ Extends(x, w)
  BY <1>2, <1>5, ChoiceOrder
<1> QED
  BY <1>2, <1>3, <1>4, <1>5 DEF UpTo

\* The formulas that unify are formulas of the index.
LEMMA UnifyingFacts ==
  ASSUME SearchInv
  PROVE  /\ Unifying \in SUBSET Paths
         /\ \A x \in Unifying : x \in index /\ Unifies(x, query) /\ IsTerm(x)
  BY IndexFacts DEF SearchInv, SearchTypes, Unifying

\* The solutions of a special are the terms that unifying formulas go on with.
LEMMA SolutionsAreChoices ==
  ASSUME index \in Indexes, query \in LeafQueries, NEW i \in 1..Len(query), Fresh(query, i),
         NEW v, Placed(v, i - 1), Agree(index, query, v, i - 1)
  PROVE  Alternatives(Unifying, v, Solutions(query[i], v))
<1>1. v \in Paths
  BY DEF Placed
<1>2. \A s \in Solutions(query[i], v) : s \in Paths /\ IsTerm(s)
  BY <1>1, SolutionFacts
<1>3. \A x \in Unifying : Extends(x, v) => \E s \in Solutions(query[i], v) : Extends(x, v \o s)
  BY SolutionForced
<1> QED
  BY <1>2, <1>3 DEF Alternatives

\* The formulas that unify depend on the inputs only.
LEMMA SameUnifying == UNCHANGED <<index, query>> => Unifying' = Unifying
  BY DEF Unifying

\* The formulas visited depend on the stream only.
LEMMA SameVisited == UNCHANGED stream => Visited' = Visited
  BY DEF Visited

\* Where the invariants put the current node.
LEMMA PosOfCurrent ==
  ASSUME SearchInv, NodesSound, pc \in {"start", "match"}
  PROVE  /\ currentNode \in Paths
         /\ Pos(bkTable, lastSolved) \in Paths /\ Extends(currentNode, Pos(bkTable, lastSolved))
         /\ UpTo(Unifying, Pos(bkTable, lastSolved)) = UpTo(Unifying, currentNode)
<1>1. /\ currentNode \in Paths /\ lastSolved \in -1..lastSolved
      /\ Sound(index, query, bkTable, currentNode, currentToken - 1, lastSolved)
  BY DEF SearchInv, SearchTypes, Matched, Placed, NodesSound
<1>2. Pos(bkTable, lastSolved) \in Paths /\ Extends(currentNode, Pos(bkTable, lastSolved))
  BY <1>1, PosFacts DEF Sound
<1>3. \A x \in Unifying : Extends(x, Pos(bkTable, lastSolved)) => Extends(x, currentNode)
  BY <1>1 DEF Sound, Unifying
<1> QED
  BY <1>1, <1>2, <1>3, UnifyingFacts, BeforeNarrower

\* Giving up: no unifying formula is below the current node.
LEMMA VisitGiveUp ==
  ASSUME SearchInv, NodesSound, VisitedSoFar, AtToken, GiveUp,
         UNCHANGED <<index, query, bkTable, lastSolved, stream>>,
         \A x \in Unifying : ~Extends(x, currentNode)
  PROVE  VisitedSoFar'
<1>1. pc = "match" /\ pc' = "backtrack"
  BY DEF AtToken, GiveUp
<1>2. Visited = Before(Unifying, currentNode)
  BY <1>1 DEF VisitedSoFar
<1>3. Before(Unifying, currentNode) = UpTo(Unifying, currentNode)
  BY DEF Before, UpTo
<1>4. Visited = UpTo(Unifying, Pos(bkTable, lastSolved))
  BY <1>1, <1>2, <1>3, PosOfCurrent
<1>5. Visited' = UpTo(Unifying', Pos(bkTable', lastSolved'))
  BY <1>4, SameVisited, SameUnifying
<1> QED
  BY <1>1, <1>5 DEF VisitedSoFar

\* Going ahead: no unifying formula is between the current node and the next.
LEMMA VisitAhead ==
  ASSUME VisitedSoFar, AtToken, pc' = "match", UNCHANGED <<index, query, stream>>,
         Before(Unifying, currentNode') = Before(Unifying, currentNode)
  PROVE  VisitedSoFar'
<1>1. Visited = Before(Unifying, currentNode')
  BY DEF VisitedSoFar, AtToken
<1>2. Visited' = Before(Unifying', currentNode')
  BY <1>1, SameVisited, SameUnifying
<1> QED
  BY <1>2 DEF VisitedSoFar

\* The step to a node that all unifying formulas below the current one share.
LEMMA VisitForced ==
  ASSUME SearchInv, NodesSound, VisitedSoFar, AtToken,
         UNCHANGED <<index, query, bkTable, lastSolved, stream>>,
         NEW w \in Paths, Extends(w, currentNode),
         \A x \in Unifying : Extends(x, currentNode) => Extends(x, w),
         GoAhead(w) \/ (GiveUp /\ ~IsNode(index, w))
  PROVE  VisitedSoFar'
<1>1. currentNode \in Paths /\ Unifying \in SUBSET Paths
  BY CurrentSound, UnifyingFacts
<1>2. CASE GoAhead(w)
  BY <1>1, <1>2, BeforeNarrower, VisitAhead DEF GoAhead
<1>3. CASE GiveUp /\ ~IsNode(index, w)
  <2>1. \A x \in Unifying : ~Extends(x, currentNode)
    BY <1>3, UnifyingFacts DEF IsNode
  <2> QED
    BY <1>3, <2>1, VisitGiveUp
<1> QED
  BY <1>2, <1>3

\* A constant token skips no formula that unifies.
LEMMA VisitConst == SearchInv /\ NodesSound /\ VisitedSoFar /\ MatchConst => VisitedSoFar'
<1> SUFFICES ASSUME SearchInv, NodesSound, VisitedSoFar, MatchConst PROVE VisitedSoFar'
  OBVIOUS
<1>1. /\ AtToken /\ ~IsSpecial(query[currentToken])
      /\ UNCHANGED <<index, query, bkTable, lastSolved, stream>>
  BY DEF MatchConst, inputs
<1>2. PICK w \in Paths :
        /\ w = Append(currentNode, query[currentToken]) /\ Extends(w, currentNode)
        /\ \A x \in Unifying : Extends(x, currentNode) => Extends(x, w)
        /\ HasChild(index, currentNode, query[currentToken]) <=> IsNode(index, w)
  BY <1>1, ConstFacts
<1>3. GoAhead(w) \/ (GiveUp /\ ~IsNode(index, w))
  BY <1>2 DEF MatchConst
<1> QED
  BY <1>1, <1>2, <1>3, VisitForced

\* A repeated variable skips no formula that unifies.
LEMMA VisitReplay == SearchInv /\ NodesSound /\ VisitedSoFar /\ ReplayQvar => VisitedSoFar'
<1> SUFFICES ASSUME SearchInv, NodesSound, VisitedSoFar, ReplayQvar PROVE VisitedSoFar'
  OBVIOUS
<1> DEFINE sol == bkTable[SpecialId(query, currentToken)].sol
<1>1. /\ AtToken /\ encoded_token_is_var(query[currentToken])
      /\ bkTable[SpecialId(query, currentToken)].isSolved
      /\ UNCHANGED <<index, query, bkTable, lastSolved, stream>>
  BY DEF ReplayQvar, inputs
<1>2. PICK w \in Paths :
        /\ w = currentNode \o sol /\ Extends(w, currentNode)
        /\ \A x \in Unifying : Extends(x, currentNode) => Extends(x, w)
        /\ HasPath(currentNode, sol) <=> IsNode(index, w)
  BY <1>1, ReplayFacts
<1>3. GoAhead(w) \/ (GiveUp /\ ~IsNode(index, w))
  BY <1>2 DEF ReplayQvar
<1> QED
  BY <1>1, <1>2, <1>3, VisitForced

\* The first solution skips no formula that unifies.
LEMMA VisitSolve == SearchInv /\ NodesSound /\ VisitedSoFar /\ Solve => VisitedSoFar'
<1> SUFFICES ASSUME SearchInv, NodesSound, VisitedSoFar, Solve PROVE VisitedSoFar'
  OBVIOUS
<1>0. AtToken /\ UNCHANGED <<index, query, stream>>
  BY DEF Solve, inputs
<1>1. PICK S : S = Solutions(query[currentToken], currentNode)
  OBVIOUS
<1>2. /\ index \in Indexes /\ query \in LeafQueries /\ currentToken \in 1..Len(query)
      /\ Placed(currentNode, currentToken - 1) /\ currentNode \in Paths
      /\ Agree(index, query, currentNode, currentToken - 1)
  BY <1>0, CurrentSound
<1>3. Fresh(query, currentToken)
  BY SolveIsFresh
<1>4. Alternatives(Unifying, currentNode, S)
  BY <1>1, <1>2, <1>3, SolutionsAreChoices
<1>5. \/ /\ S # {} /\ FirstTerm(S) \in S /\ pc' = "match"
         /\ GivenSolution(lastSolved + 1, currentToken, currentNode, FirstTerm(S))
      \/ S = {} /\ GiveUp /\ UNCHANGED <<index, query, bkTable, lastSolved>>
  BY <1>1, SolveGives
<1>6. CASE /\ S # {} /\ FirstTerm(S) \in S /\ pc' = "match"
           /\ GivenSolution(lastSolved + 1, currentToken, currentNode, FirstTerm(S))
  <2>1. \A t \in S : t = FirstTerm(S) \/ TermLess(FirstTerm(S), t)
    <3>1. IsFiniteSet(S) /\ S \in SUBSET Paths /\ \A s \in S : IsTerm(s)
      BY <1>1, <1>2, SolutionFacts
    <3> QED
      BY <1>6, <3>1, FirstTermIsFirst
  <2>2. Before(Unifying, currentNode \o FirstTerm(S)) = Before(Unifying, currentNode)
    BY <1>2, <1>4, <1>6, <2>1, UnifyingFacts, BeforeFirst
  <2>3. currentNode' = currentNode \o FirstTerm(S)
    BY <1>6 DEF GivenSolution
  <2> QED
    BY <1>0, <1>6, <2>2, <2>3, VisitAhead
<1>7. CASE S = {} /\ GiveUp /\ UNCHANGED <<index, query, bkTable, lastSolved>>
  <2>1. \A x \in Unifying : ~Extends(x, currentNode)
    BY <1>4, <1>7 DEF Alternatives
  <2> QED
    BY <1>0, <1>7, <2>1, VisitGiveUp
<1> QED
  BY <1>5, <1>6, <1>7

\* The special that backtracking asks, and its solutions.
LEMMA LastSolution ==
  ASSUME SearchInv, NodesSound, lastSolved >= 0
  PROVE  \E S : LET root == bkTable[lastSolved].root
                   sol  == bkTable[lastSolved].sol
               IN  /\ root \in Paths /\ Alternatives(Unifying, root, S) /\ sol \in S
                   /\ Pos(bkTable, lastSolved) = root \o sol
                   /\ LaterSolutions(lastSolved) = { t \in S : TermLess(sol, t) }
                   /\ UpTo(Unifying, Pos(bkTable, lastSolved - 1)) = UpTo(Unifying, root)
<1>1. PICK p \in DOMAIN query :
        /\ SolvedAt(lastSolved, p) /\ FreshPosition(query, lastSolved) = p
        /\ LaterSolutions(lastSolved)
             = { t \in Solutions(query[p], bkTable[lastSolved].root) : TermLess(bkTable[lastSolved].sol, t) }
  BY LastSolvedFacts
<1>2. PICK root, sol : root = bkTable[lastSolved].root /\ sol = bkTable[lastSolved].sol
  OBVIOUS
<1>3. PICK S : S = Solutions(query[p], root)
  OBVIOUS
<1>4. index \in Indexes /\ query \in LeafQueries /\ p \in 1..Len(query)
  BY MissingFacts DEF SearchInv, SearchTypes
<1>5. lastSolved \in 0..lastSolved /\ lastSolved \in -1..lastSolved /\ lastSolved - 1 \in -1..lastSolved
      /\ lastSolved - 1 \in -1..(lastSolved - 1) /\ lastSolved # -1
  BY DEF SearchInv, SearchTypes
<1>6. Sound(index, query, bkTable, root, p - 1, lastSolved - 1)
  BY <1>1, <1>2, <1>5 DEF NodesSound
<1>7. /\ Fresh(query, p) /\ Placed(root, p - 1) /\ sol \in S /\ root \in Paths
      /\ Pos(bkTable, lastSolved) = root \o sol
  BY <1>1, <1>2, <1>3, <1>5, PosFacts DEF SolvedAt, Placed
<1>8. Alternatives(Unifying, root, S)
  BY <1>3, <1>4, <1>6, <1>7, SolutionsAreChoices DEF Sound
<1>9. UpTo(Unifying, Pos(bkTable, lastSolved - 1)) = UpTo(Unifying, root)
  <2>1. Pos(bkTable, lastSolved - 1) \in Paths /\ Extends(root, Pos(bkTable, lastSolved - 1))
    BY <1>5, <1>6, PosFacts DEF Sound
  <2>2. \A x \in Unifying : Extends(x, Pos(bkTable, lastSolved - 1)) => Extends(x, root)
    BY <1>6 DEF Sound, Unifying
  <2> QED
    BY <1>7, <2>1, <2>2, UnifyingFacts, BeforeNarrower
<1> QED
  BY <1>1, <1>2, <1>3, <1>7, <1>8, <1>9

\* The next solution skips no formula that unifies.
LEMMA VisitNext == SearchInv /\ NodesSound /\ VisitedSoFar /\ NextSol => VisitedSoFar'
<1> SUFFICES ASSUME SearchInv, NodesSound, VisitedSoFar, NextSol PROVE VisitedSoFar'
  OBVIOUS
<1>0. /\ UNCHANGED <<index, query, stream>> /\ lastSolved >= 0 /\ pc = "backtrack" /\ pc' = "match"
  BY DEF NextSol, inputs
<1>1. PICK root, sol : root = bkTable[lastSolved].root /\ sol = bkTable[lastSolved].sol
  OBVIOUS
<1>2. PICK S : /\ root \in Paths /\ Alternatives(Unifying, root, S) /\ sol \in S
               /\ Pos(bkTable, lastSolved) = root \o sol
               /\ LaterSolutions(lastSolved) = { t \in S : TermLess(sol, t) }
  BY <1>0, <1>1, LastSolution
<1>3. PICK n : n = FirstTerm(LaterSolutions(lastSolved))
  OBVIOUS
<1>4. /\ n \in LaterSolutions(lastSolved)
      /\ \A t \in LaterSolutions(lastSolved) : t = n \/ TermLess(n, t)
      /\ currentNode' = root \o n
  BY <1>1, <1>3, NextGives DEF GivenSolution
<1>5. n \in S /\ TermLess(sol, n) /\ \A t \in S : TermLess(sol, t) => t = n \/ TermLess(n, t)
  BY <1>2, <1>4
<1>6. Before(Unifying, root \o n) = UpTo(Unifying, root \o sol)
  BY <1>2, <1>5, UnifyingFacts, BeforeNext
<1>7. Visited = Before(Unifying, currentNode')
  BY <1>0, <1>2, <1>4, <1>6 DEF VisitedSoFar
<1>8. Visited' = Before(Unifying', currentNode')
  BY <1>0, <1>7, SameVisited, SameUnifying
<1> QED
  BY <1>0, <1>8 DEF VisitedSoFar

\* A special is dropped when all that unifies below it is visited.
LEMMA VisitNoNext == SearchInv /\ NodesSound /\ VisitedSoFar /\ NoNextSol => VisitedSoFar'
<1> SUFFICES ASSUME SearchInv, NodesSound, VisitedSoFar, NoNextSol PROVE VisitedSoFar'
  OBVIOUS
<1>0. /\ UNCHANGED <<index, query, stream>> /\ lastSolved >= 0 /\ pc = "backtrack" /\ pc' = "backtrack"
      /\ LaterSolutions(lastSolved) = {} /\ lastSolved' = lastSolved - 1
      /\ bkTable' = [bkTable EXCEPT ![lastSolved] = Unsolved]
  BY DEF NoNextSol, inputs
<1>1. PICK root, sol : root = bkTable[lastSolved].root /\ sol = bkTable[lastSolved].sol
  OBVIOUS
<1>2. PICK S : /\ root \in Paths /\ Alternatives(Unifying, root, S) /\ sol \in S
               /\ Pos(bkTable, lastSolved) = root \o sol
               /\ LaterSolutions(lastSolved) = { t \in S : TermLess(sol, t) }
               /\ UpTo(Unifying, Pos(bkTable, lastSolved - 1)) = UpTo(Unifying, root)
  BY <1>0, <1>1, LastSolution
<1>3. UpTo(Unifying, root \o sol) = UpTo(Unifying, root)
  BY <1>0, <1>2, UnifyingFacts, UpToLast
<1>4. Pos(bkTable', lastSolved - 1) = Pos(bkTable, lastSolved - 1)
  <2>1. lastSolved \in Int /\ bkTable \in [0..(SpecialCount(query) - 1) -> [isSolved : BOOLEAN, root : Paths, sol : Paths]]
    BY DEF SearchInv, SearchTypes
  <2>2. lastSolved - 1 # lastSolved /\ lastSolved \in -1..(SpecialCount(query) - 1)
    BY <2>1 DEF SearchInv, SearchTypes
  <2>3. SpecialCount(query) \in Nat
    BY MissingFacts, SpecialsStep DEF SpecialCount, SearchInv, SearchTypes
  <2>4. lastSolved - 1 # -1 => bkTable'[lastSolved - 1] = bkTable[lastSolved - 1]
    <3>1. lastSolved - 1 # -1 => lastSolved - 1 \in 0..(SpecialCount(query) - 1)
      BY <1>0, <2>1, <2>2, <2>3
    <3> QED
      BY <1>0, <2>1, <2>2, <3>1
  <2> QED
    BY <2>4 DEF Pos
<1>5. Visited = UpTo(Unifying, Pos(bkTable', lastSolved'))
  BY <1>0, <1>2, <1>3, <1>4 DEF VisitedSoFar
<1>6. Visited' = UpTo(Unifying', Pos(bkTable', lastSolved'))
  BY <1>0, <1>5, SameVisited, SameUnifying
<1> QED
  BY <1>0, <1>6 DEF VisitedSoFar

\* The loop is left.
LEMMA VisitDone ==
  ASSUME SearchInv, NodesSound, VisitedSoFar, LimitReached \/ Exhausted, found <= maxTotal,
         found \in Nat, maxTotal \in Nat
  PROVE  VisitedSoFar'
<1>1. UNCHANGED <<index, query, stream, found, args, currentNode>> /\ pc' = "done"
  BY DEF LimitReached, Exhausted, inputs
<1>2. CASE LimitReached
  <2>1. found = maxTotal /\ pc = "match"
    BY <1>2 DEF LimitReached
  <2>2. currentNode \in Paths /\ Visited = Before(Unifying, currentNode)
    BY <2>1, PosOfCurrent DEF VisitedSoFar
  <2>3. Visited' = Before(Unifying', currentNode') /\ found' = maxTotal' /\ currentNode' \in Paths
    BY <1>1, <2>1, <2>2, SameVisited, SameUnifying DEF maxTotal
  <2> QED
    BY <1>1, <2>3 DEF VisitedSoFar
<1>3. CASE Exhausted
  <2>1. Visited = UpTo(Unifying, RootNode)
    BY <1>3 DEF Exhausted, VisitedSoFar, Pos
  <2>2. \A x \in Unifying : Extends(x, RootNode)
    BY UnifyingFacts, ExtendsReflexive
  <2>3. Visited = Unifying
    BY <2>1, <2>2 DEF UpTo
  <2>4. Visited' = Unifying'
    BY <1>1, <2>3, SameVisited, SameUnifying
  <2> QED
    BY <1>1, <2>4 DEF VisitedSoFar
<1> QED
  BY <1>2, <1>3

\* The invariant of the traversal.
VisitInv == NodesSound /\ VisitedSoFar /\ InOrder /\ found <= maxTotal

\* The formula at the end of the query unifies with it.
LEMMA LeafUnifies ==
  ASSUME SearchInv, NodesSound, pc = "match", currentToken = Len(query) + 1
  PROVE  currentNode \in Unifying
<1>1. currentNode \in index /\ index \in Indexes /\ query \in LeafQueries
  BY SearchGivesAsserts DEF LeavesAtEnd, IsLeaf, SearchInv, SearchTypes
<1>2. currentToken - 1 = Len(query) /\ DOMAIN query = 1..Len(query) /\ currentNode \in Paths
  BY <1>1, MissingFacts, IndexFacts
<1>3. Agree(index, query, currentNode, Len(query))
  BY <1>2 DEF NodesSound, Sound
<1>4. /\ PieceEnds(currentNode, query)[Len(query)] = Len(currentNode)
      /\ \A j \in 1..Len(query) : FitsAt(currentNode, query, j)
  BY <1>1, <1>2, <1>3, ExtendsReflexive DEF Agree
<1> QED
  BY <1>1, <1>2, <1>4, UnifiesIs DEF Unifying

\* What is visited when a solution is handled: the formula reached, for the
\* first time, with all its hits.
LEMMA LeafVisited ==
  ASSUME SearchInv, PagingInv, VisitInv, HandleSolution
  PROVE  /\ currentNode \in Unifying /\ currentNode \in Paths
         /\ hitsCount \in Nat /\ hitsCount > 0
         /\ Visited' = Visited \cup {currentNode}
         /\ Visited = Before(Unifying, currentNode)
<1> DEFINE c == currentNode
<1>0. /\ pc = "match" /\ pc' = "backtrack" /\ currentToken = Len(query) + 1
      /\ UNCHANGED <<index, query, args, bkTable, lastSolved, currentNode>>
  BY DEF HandleSolution, inputs
<1>1. NodesSound /\ VisitedSoFar /\ InOrder
  BY DEF VisitInv
<1>2. c \in Unifying /\ c \in Paths /\ c \in index
  BY <1>0, <1>1, LeafUnifies, UnifyingFacts
<1>3. hitsCount \in Nat /\ hitsCount > 0
  <2>1. hitsCount \in Nat
    BY <1>1, LeafHits
  <2>2. hits \in HitCounts /\ index \in Indexes
    BY DEF PagingInv, InputsOK
  <2> QED
    BY <1>2, <2>1, <2>2, HitCountsAssumption DEF hitsCount
<1>4. PICK L \in Nat : L = Len(stream)
  BY DEF PagingInv
<1>5. PICK n \in Nat : n = hitsCount /\ n > 0
  BY <1>3
<1>6. /\ stream \in Seq(AnyHit) /\ stream' \in Seq(AnyHit) /\ Len(stream') = L + n
      /\ \A k \in 1..L : stream'[k] = stream[k]
      /\ \A k \in 1..n : stream'[L + k] = <<c, k>>
  BY <1>1, <1>4, <1>5, StreamGrows DEF PagingInv
<1>7. DOMAIN stream = 1..L /\ DOMAIN stream' = 1..(L + n)
  BY <1>4, <1>6
<1>8. ASSUME NEW k \in 1..(L + n)
      PROVE  k \in 1..L \/ (\E m \in 1..n : k = L + m)
  <2>1. CASE k > L
    <3>1. k - L \in 1..n /\ k = L + (k - L)
      BY <1>4, <1>5, <2>1
    <3> QED
      BY <3>1
  <2>2. CASE ~(k > L)
    BY <1>4, <1>5, <2>2
  <2> QED
    BY <2>1, <2>2
<1>9. Visited' = Visited \cup {c}
  <2>1. ASSUME NEW k \in 1..L PROVE stream[k][1] \in { stream'[m][1] : m \in 1..(L + n) }
    <3>1. k \in 1..(L + n) /\ stream'[k] = stream[k]
      BY <1>4, <1>5, <1>6
    <3> QED
      BY <3>1
  <2>2. c \in { stream'[m][1] : m \in 1..(L + n) }
    <3>1. L + 1 \in 1..(L + n) /\ stream'[L + 1] = <<c, 1>>
      BY <1>4, <1>5, <1>6
    <3> QED
      BY <3>1
  <2>3. ASSUME NEW k \in 1..(L + n) PROVE stream'[k][1] \in { stream[m][1] : m \in 1..L } \cup {c}
    <3>1. CASE k \in 1..L
      BY <1>6, <3>1
    <3>2. ASSUME NEW m \in 1..n, k = L + m PROVE stream'[k][1] = c
      BY <1>6, <3>2
    <3> QED
      BY <1>8, <3>1, <3>2
  <2>4. Visited = { stream[m][1] : m \in 1..L } /\ Visited' = { stream'[m][1] : m \in 1..(L + n) }
    BY <1>7 DEF Visited
  <2> QED
    BY <2>1, <2>2, <2>3, <2>4
<1>10. Visited = Before(Unifying, c)
  BY <1>0, <1>1 DEF VisitedSoFar
<1> QED
  BY <1>2, <1>3, <1>9, <1>10

\* A leaf is visited after all before it, once.
LEMMA VisitHandle ==
  ASSUME SearchInv, PagingInv, VisitInv, HandleSolution
  PROVE  VisitedSoFar' /\ InOrder' /\ found' <= maxTotal'
<1> DEFINE c == currentNode
<1>0. /\ pc = "match" /\ pc' = "backtrack"
      /\ UNCHANGED <<index, query, args, bkTable, lastSolved, currentNode>>
  BY DEF HandleSolution, inputs
<1>1. NodesSound /\ InOrder
  BY DEF VisitInv
<1>2. c \in Unifying /\ c \in Paths
  BY LeafVisited
<1>3. hitsCount \in Nat
  BY LeafVisited
<1>4. PICK L \in Nat : L = Len(stream)
  BY DEF PagingInv
<1>5. PICK n \in Nat : n = hitsCount
  BY <1>3
<1>6. /\ stream \in Seq(AnyHit) /\ stream' \in Seq(AnyHit) /\ Len(stream') = L + n
      /\ \A k \in 1..L : stream'[k] = stream[k]
      /\ \A k \in 1..n : stream'[L + k] = <<c, k>>
  BY <1>1, <1>4, <1>5, StreamGrows DEF PagingInv
<1>7. DOMAIN stream = 1..L /\ DOMAIN stream' = 1..(L + n)
  BY <1>4, <1>6
<1>8. ASSUME NEW k \in 1..(L + n)
      PROVE  k \in 1..L \/ (\E m \in 1..n : k = L + m)
  <2>1. CASE k > L
    <3>1. k - L \in 1..n /\ k = L + (k - L)
      BY <1>4, <1>5, <2>1
    <3> QED
      BY <3>1
  <2>2. CASE ~(k > L)
    BY <1>4, <1>5, <2>2
  <2> QED
    BY <2>1, <2>2
<1>9. Visited' = Visited \cup {c}
  BY LeafVisited
<1>10. Visited = Before(Unifying, c)
  BY LeafVisited
<1>11. UpTo(Unifying, c) = Before(Unifying, c) \cup {c}
  <2>1. ASSUME NEW x \in Unifying, Extends(x, c) PROVE x = c
    BY <1>2, <2>1, UnifyingFacts, TermsArePrefixFree DEF Paths
  <2>2. Extends(c, c)
    BY <1>2, ExtendsReflexive
  <2> QED
    BY <1>2, <2>1, <2>2 DEF UpTo, Before
<1>12. Visited' = UpTo(Unifying, Pos(bkTable, lastSolved))
  BY <1>0, <1>1, <1>9, <1>10, <1>11, PosOfCurrent
<1>13. VisitedSoFar'
  <2>1. Visited' = UpTo(Unifying', Pos(bkTable', lastSolved'))
    BY <1>0, <1>12, SameUnifying
  <2> QED
    BY <1>0, <2>1 DEF VisitedSoFar
<1>14. InOrder'
  <2> DEFINE Right(a, b) == \/ TermLess(a[1], b[1])
                            \/ a[1] = b[1] /\ a[2] < b[2]
  <2>1. ASSUME NEW i \in 1..(L + n), NEW j \in 1..(L + n), i < j PROVE Right(stream'[i], stream'[j])
    <3>1. CASE j \in 1..L
      <4>1. i \in 1..L
        BY <1>4, <2>1, <3>1
      <4>2. Right(stream[i], stream[j])
        BY <1>1, <1>7, <2>1, <3>1, <4>1 DEF InOrder
      <4> QED
        BY <1>6, <3>1, <4>1, <4>2
    <3>2. ASSUME NEW m \in 1..n, j = L + m PROVE Right(stream'[i], stream'[j])
      <4>1. stream'[j] = <<c, m>>
        BY <1>6, <3>2
      <4>2. CASE i \in 1..L
        <5>1. stream[i][1] \in Visited
          BY <1>7, <4>2 DEF Visited
        <5>2. TermLess(stream[i][1], c)
          BY <1>10, <5>1 DEF Before
        <5> QED
          BY <1>6, <4>1, <4>2, <5>2
      <4>3. ASSUME NEW k \in 1..n, i = L + k PROVE Right(stream'[i], stream'[j])
        <5>1. stream'[i] = <<c, k>>
          BY <1>6, <4>3
        <5>2. k < m
          BY <1>4, <1>5, <2>1, <3>2, <4>3
        <5> QED
          BY <4>1, <5>1, <5>2
      <4> QED
        BY <1>8, <4>2, <4>3
    <3> QED
      BY <1>8, <3>1, <3>2
  <2> QED
    BY <1>7, <2>1 DEF InOrder
<1>15. found' <= maxTotal'
  <2>1. UINT_MOD \in Nat /\ UINT_MOD > 0 /\ args.maxTotal \in Nat /\ found \in Nat
    BY UintAssumption, ArgumentTypes DEF PagingInv
  <2>2. (found + hitsCount) % UINT_MOD \in Nat
    BY <1>3, <2>1
  <2> QED
    BY <1>0, <2>1, <2>2 DEF HandleSolution, Minimum, maxTotal
<1> QED
  BY <1>13, <1>14, <1>15

\* Nothing is before the root.
LEMMA VisitInit == Init /\ VariablesAreLeaves(query) => VisitInv
<1> SUFFICES ASSUME Init, VariablesAreLeaves(query) PROVE VisitInv
  OBVIOUS
<1>1. NodesSound
  BY NodesInit
<1>2. stream = <<>> /\ pc = "start" /\ currentNode = RootNode /\ found = 0
  BY DEF Init
<1>3. VisitedSoFar
  <2>1. DOMAIN stream = {}
    BY <1>2
  <2>2. \A x \in Unifying : ~TermLess(x, RootNode)
    BY DEF TermLess, RootNode
  <2> QED
    BY <1>2, <2>1, <2>2 DEF VisitedSoFar, Visited, Before
<1>4. InOrder
  BY <1>2 DEF InOrder
<1>5. found <= maxTotal
  BY <1>2, PagingInit, ArgumentTypes DEF PagingInv, maxTotal
<1> QED
  BY <1>1, <1>3, <1>4, <1>5 DEF VisitInv

\* Every step keeps the invariant of the traversal.
LEMMA VisitStep ==
  SearchInv /\ PagingInv /\ VisitInv /\ [Next]_vars => VisitInv'
<1> SUFFICES ASSUME SearchInv, PagingInv, VisitInv, [Next]_vars PROVE VisitInv'
  OBVIOUS
<1>1. NodesSound /\ VisitedSoFar /\ InOrder /\ found <= maxTotal
  BY DEF VisitInv
<1>2. NodesSound'
  BY <1>1, NodesStep
<1>3. CASE HandleSolution
  BY <1>2, <1>3, VisitHandle DEF VisitInv
<1>4. CASE ~HandleSolution
  <2>1. UNCHANGED <<stream, found, args>>
    BY <1>4, QuietSteps DEF CheckArguments, inputs
  <2>2. InOrder' /\ found' <= maxTotal'
    BY <1>1, <2>1 DEF InOrder, maxTotal
  <2>3. found \in Nat /\ maxTotal \in Nat
    BY ArgumentTypes DEF PagingInv, maxTotal
  <2>4. VisitedSoFar'
    <3>1. CASE CheckArguments \/ UNCHANGED vars
      <4>1. /\ UNCHANGED <<index, query, currentNode, bkTable, lastSolved, args, found, stream>>
            /\ (pc' = "match" /\ pc = "start") \/ pc' = pc
        BY <3>1 DEF CheckArguments, inputs, vars
      <4>2. Visited' = Visited /\ Unifying' = Unifying
        BY <4>1, SameVisited, SameUnifying
      <4> QED
        BY <1>1, <4>1, <4>2 DEF VisitedSoFar, maxTotal
    <3> QED
      BY <1>1, <1>4, <2>3, <3>1, NoAssertFails, VisitConst, VisitReplay, VisitSolve, VisitNext, VisitNoNext, VisitDone
         DEF Next
  <2> QED
    BY <1>2, <2>2, <2>4 DEF VisitInv
<1> QED
  BY <1>3, <1>4

\* At the end all that unifies is visited, unless the limit was reached.
LEMMA VisitGivesFinds == SearchInv /\ VisitInv => FindsUnifyingFormulas
<1> SUFFICES ASSUME SearchInv, VisitInv, pc = "done" PROVE FindsUnifyingFormulas
  BY DEF FindsUnifyingFormulas
<1>1. /\ InOrder
      /\ \/ Visited = Unifying
         \/ found = maxTotal /\ currentNode \in Paths /\ Visited = Before(Unifying, currentNode)
  BY DEF VisitInv, VisitedSoFar
<1>2. Visited \subseteq Unifying
  BY <1>1 DEF Before
<1>3. ASSUME NEW x \in Unifying \ Visited
      PROVE  found = maxTotal /\ \A y \in Visited : TermLess(y, x)
  <2>1. found = maxTotal /\ currentNode \in Paths /\ Visited = Before(Unifying, currentNode)
    BY <1>1, <1>3
  <2>2. x \in Paths /\ IsTerm(x) /\ ~TermLess(x, currentNode)
    BY <1>3, <2>1, UnifyingFacts DEF Before
  <2>3. ASSUME NEW y \in Visited PROVE TermLess(y, x)
    <3>1. y \in Unifying /\ y \in Paths /\ IsTerm(y) /\ TermLess(y, currentNode)
      BY <2>1, <2>3, UnifyingFacts DEF Before
    <3>2. CASE Extends(x, currentNode)
      BY <2>1, <2>2, <3>1, <3>2, LessThroughNode
    <3>3. CASE TermLess(currentNode, x)
      BY <2>1, <2>2, <3>1, <3>3, TermLessTransitive
    <3>4. CASE Extends(currentNode, x)
      <4>1. TermLess(y, x) \/ Extends(y, x)
        BY <2>1, <2>2, <3>1, <3>4, LessThroughNode
      <4>2. Extends(y, x) => y = x
        BY <2>2, <3>1, TermsArePrefixFree DEF Paths
      <4> QED
        BY <2>2, <3>1, <4>1, <4>2
    <3> QED
      BY <2>1, <2>2, <3>2, <3>3, <3>4, TermLessTotal
  <2> QED
    BY <2>1, <2>3
<1> QED
  BY <1>1, <1>2, <1>3 DEF FindsUnifyingFormulas, InOrder, Visited

\* For every query without elements below its variables the backtracking of
\* getResult visits exactly the formulas that unify with the query, each once and
\* in the order of the index, or as many of them as the limit allows.
THEOREM FindsUnifyingFormulasCorrect == Spec => []FindsUnifyingFormulas
<1> DEFINE Inv == VariablesAreLeaves(query) => SearchInv /\ PagingInv /\ VisitInv
<1>1. Init => Inv
  BY SearchInit, PagingInit, VisitInit
<1>2. Inv /\ [Next]_vars => Inv'
  BY SearchStep, PagingStep, VisitStep, QueryStays
<1>3. Inv => FindsUnifyingFormulas
  BY VisitGivesFinds DEF FindsUnifyingFormulas
<1> QED
  BY <1>1, <1>2, <1>3, PTL DEF Spec

-----------------------------------------------------------------------------
(***************************************************************************)
(* The total and the ids: found counts the stream, whose length is the sum *)
(* of the hits of the formulas visited, and the ids are those of the page. *)
(***************************************************************************)
IdsOnPage == { stream[k][1] : k \in (offset + 1)..PageEnd }

\* The stream has as many hits as the formulas visited.
StreamCounts == Len(stream) = SumOf(options.includeHits, hits, Unifying)[Visited]

\* The ids collected are those of the part of the page found so far.
IdsCollected ==
  /\ pc = "start" => ids = {}
  /\ pc # "start" /\ NoWrap => size = PageSize
  /\ pc # "start" /\ NoWrap /\ options.includeMwsIds /\ size > 0 => ids = IdsOnPage

\* The invariant of the total and of the ids.
CountInv == FoundCounts /\ StreamCounts /\ IdsCollected

\* The hits that a formula counts for.
LEMMA Weights ==
  ASSUME SearchInv, PagingInv
  PROVE  /\ IsFiniteSet(Unifying)
         /\ \A x \in Unifying : Weight(options.includeHits, hits, x) \in Nat
<1>1. index \in Indexes /\ hits \in HitCounts
  BY DEF PagingInv, InputsOK
<1>2. IsFiniteSet(index) /\ Unifying \in SUBSET index
  BY <1>1, IndexFacts DEF Unifying
<1>3. \A x \in index : hits[x] \in Nat
  BY <1>1, HitCountsAssumption
<1> QED
  BY <1>2, <1>3, FS_Subset DEF Weight

\* The sum over no formula is zero.
LEMMA CountInit == Init /\ VariablesAreLeaves(query) => CountInv
<1> SUFFICES ASSUME Init, VariablesAreLeaves(query) PROVE CountInv
  OBVIOUS
<1>1. SearchInv /\ PagingInv
  BY SearchInit, PagingInit
<1>2. stream = <<>> /\ found = 0 /\ pc = "start" /\ ids = {}
  BY DEF Init
<1>3. FoundCounts
  BY <1>1, <1>2, ArgumentTypes DEF PagingInv, FoundCounts, maxTotal
<1>4. StreamCounts
  <2>1. Visited = {} /\ Len(stream) = 0
    BY <1>2 DEF Visited
  <2>2. SumOf(options.includeHits, hits, Unifying)[{}] = 0
    BY <1>1, Weights, SumRules
  <2> QED
    BY <2>1, <2>2 DEF StreamCounts
<1> QED
  BY <1>2, <1>3, <1>4 DEF CountInv, IdsCollected

\* The sums stay the same while stream and inputs do.
LEMMA SameSums ==
  ASSUME UNCHANGED <<index, query, hits, options, stream>>, StreamCounts
  PROVE  StreamCounts'
<1>1. Visited' = Visited /\ Unifying' = Unifying
  BY SameVisited, SameUnifying
<1> QED
  BY <1>1 DEF StreamCounts

\* The argument check keeps the counts.
LEMMA CountCheck ==
  ASSUME PagingInv, CountInv, CheckArguments
  PROVE  CountInv'
<1>1. /\ UNCHANGED <<index, query, hits, args, options, found, stream, ids>>
      /\ pc = "start" /\ pc' = "match" /\ size' = ClampedSize
  BY DEF CheckArguments, inputs
<1>2. size = args.size /\ stream = <<>> /\ InputsOK /\ ids = {}
  BY <1>1 DEF PagingInv, CountInv, IdsCollected
<1>3. args.offset \in Nat /\ args.size \in Nat /\ args.maxTotal \in Nat /\ UINT_MOD \in Nat
  BY <1>2, ArgumentTypes
<1>4. ASSUME NoWrap PROVE size' = PageSize /\ size' \in Nat
  <2>1. (args.offset + args.size) % UINT_MOD = args.offset + args.size
    BY <1>3, <1>4 DEF NoWrap
  <2> QED
    BY <1>1, <1>2, <1>3, <2>1 DEF ClampedSize, PageSize, offset, maxTotal
<1>5. ASSUME NoWrap PROVE IdsOnPage' = {}
  <2>1. Len(stream') = 0 /\ size' \in Nat
    BY <1>1, <1>2, <1>4, <1>5
  <2>2. PageEnd' = 0
    BY <1>1, <1>3, <2>1 DEF PageEnd, Minimum, offset
  <2>3. (args'.offset + 1)..PageEnd' = {}
    BY <1>1, <1>3, <2>2
  <2> QED
    BY <2>3 DEF IdsOnPage, offset
<1>6. FoundCounts' /\ StreamCounts'
  BY <1>1, SameSums DEF CountInv, FoundCounts, maxTotal
<1> QED
  BY <1>1, <1>2, <1>4, <1>5, <1>6 DEF CountInv, IdsCollected, NoWrap, PageSize, offset, maxTotal

\* Steps that touch neither stream nor ids keep the counts.
LEMMA CountQuiet ==
  ASSUME CountInv, [Next]_vars, ~CheckArguments, ~HandleSolution
  PROVE  CountInv'
<1>1. /\ UNCHANGED <<index, query, hits, args, options, size, found, stream, ids>>
      /\ pc' = "start" <=> pc = "start"
  BY DEF Next, vars, inputs, LimitReached, AssertFails, MatchConst, ReplayQvar, Solve, NextSol,
         NoNextSol, Exhausted, AtToken, GoAhead, GiveUp
<1>2. FoundCounts' /\ StreamCounts'
  BY <1>1, SameSums DEF CountInv, FoundCounts, maxTotal
<1>3. IdsCollected'
  BY <1>1 DEF CountInv, IdsCollected, IdsOnPage, NoWrap, PageSize, PageEnd, Minimum, offset, maxTotal
<1> QED
  BY <1>2, <1>3 DEF CountInv

\* The positions of the page that a block of n hits after L hits reaches.
LEMMA PageMeetsBlock ==
  ASSUME NEW o \in Nat, NEW z \in Nat, NEW L \in Nat, NEW n \in Nat, z > 0, n > 0
  PROVE  /\ \A k \in 1..L : k \in (o + 1)..Minimum(o + z, L) <=> k \in (o + 1)..Minimum(o + z, L + n)
         /\ (\E k \in (o + 1)..Minimum(o + z, L + n) : k > L) <=> L < o + z /\ L + n > o
<1>1. \A k \in 1..L : k \in (o + 1)..Minimum(o + z, L) <=> k \in (o + 1)..Minimum(o + z, L + n)
  BY DEF Minimum
<1>2. (\E k \in (o + 1)..Minimum(o + z, L + n) : k > L) => L < o + z /\ L + n > o
  BY DEF Minimum
<1>3. ASSUME L < o + z, L + n > o PROVE \E k \in (o + 1)..Minimum(o + z, L + n) : k > L
  <2>1. CASE L <= o
    <3>1. o + 1 \in (o + 1)..Minimum(o + z, L + n) /\ o + 1 > L
      BY <1>3, <2>1 DEF Minimum
    <3> QED
      BY <3>1
  <2>2. CASE L > o
    <3>1. L + 1 \in (o + 1)..Minimum(o + z, L + n) /\ L + 1 > L
      BY <1>3, <2>2 DEF Minimum
    <3> QED
      BY <3>1
  <2> QED
    BY <2>1, <2>2
<1> QED
  BY <1>1, <1>2, <1>3

\* A leaf adds its hits to the total and its id to those of the page.
LEMMA CountHandle ==
  ASSUME SearchInv, PagingInv, VisitInv, CountInv, HandleSolution
  PROVE  CountInv'
<1> DEFINE c == currentNode
           f == SumOf(options.includeHits, hits, Unifying)
<1>0. /\ UNCHANGED <<index, query, hits, args, options, size>>
      /\ pc = "match" /\ pc' = "backtrack" /\ found < args.maxTotal
  BY DEF HandleSolution, inputs, maxTotal
<1>L. PICK L \in Nat : L = Len(stream)
  BY DEF PagingInv
<1>n. PICK n \in Nat : n = hitsCount /\ n > 0
  BY LeafVisited
<1>M. PICK M \in Nat : M = args.maxTotal
  BY ArgumentTypes DEF PagingInv
<1>o. PICK o \in Nat : o = args.offset
  BY ArgumentTypes DEF PagingInv
<1>2. found = L /\ L < M /\ UINT_MOD \in Nat /\ args.size \in Nat
  BY <1>0, <1>L, <1>M, ArgumentTypes DEF CountInv, FoundCounts, maxTotal, PagingInv
<1>3. M + n <= UINT_MOD
  <2>1. CASE options.includeHits
    BY <1>n, <1>M, <2>1, LeafHits DEF maxTotal
  <2>2. CASE ~options.includeHits
    <3>1. n = 1 /\ M \in 0..(UINT_MOD - 1)
      BY <1>n, <1>M, <2>2, ArgumentsAssumption DEF hitsCount, PagingInv, InputsOK
    <3> QED
      BY <1>2, <3>1
  <2> QED
    BY <2>1, <2>2
<1>4. /\ stream \in Seq(AnyHit) /\ stream' \in Seq(AnyHit) /\ Len(stream') = L + n
      /\ \A k \in 1..L : stream'[k] = stream[k]
      /\ \A k \in 1..n : stream'[L + k] = <<c, k>>
  BY <1>L, <1>n, StreamGrows DEF PagingInv
<1>5. FoundCounts'
  <2>1. (L + n) % UINT_MOD = L + n
    BY <1>2, <1>3, ModSmall
  <2>2. found' = Minimum(L + n, M)
    BY <2>1, <1>2, <1>n, <1>M DEF HandleSolution, maxTotal
  <2> QED
    BY <1>0, <1>4, <1>M, <2>2 DEF FoundCounts, maxTotal, Minimum
<1>6. StreamCounts'
  <2>1. /\ c \in Unifying /\ c \in Paths /\ Visited' = Visited \cup {c}
        /\ Visited = Before(Unifying, c)
    BY LeafVisited
  <2>2. c \notin Visited /\ Visited \in SUBSET Unifying
    <3>1. Extends(c, c)
      BY <2>1, ExtendsReflexive
    <3>2. ~TermLess(c, c)
      BY <2>1, <3>1, TermLessIrreflexive
    <3> QED
      BY <2>1, <3>2 DEF Before
  <2>3. PICK s : s = Visited \cup {c}
    OBVIOUS
  <2>4. s \in SUBSET Unifying /\ c \in s /\ s \ {c} = Visited
    BY <2>1, <2>2, <2>3
  <2>5. SumRule(f, options.includeHits, hits, s)
    BY <2>4, Weights, SumRules
  <2>6. f[s] = Weight(options.includeHits, hits, c) + f[Visited]
    <3>1. f[s] = Weight(options.includeHits, hits, c) + f[s \ {c}]
      BY <2>4, <2>5 DEF SumRule
    <3> QED
      BY <2>4, <3>1
  <2>7. Weight(options.includeHits, hits, c) = n
    BY <1>n DEF Weight, hitsCount
  <2>8. f[Visited] = L
    BY <1>L DEF CountInv, StreamCounts
  <2>9. f[Visited'] = L + n
    BY <2>1, <2>3, <2>6, <2>7, <2>8
  <2>10. Unifying' = Unifying
    BY <1>0, SameUnifying
  <2> QED
    BY <1>0, <1>4, <2>9, <2>10 DEF StreamCounts
<1>7. IdsCollected'
  <2>1. ASSUME NoWrap PROVE size = PageSize /\ PageSize' = PageSize
    BY <1>0, <2>1 DEF CountInv, IdsCollected, PageSize, offset, maxTotal
  <2>2. ASSUME NoWrap, options.includeMwsIds, size > 0 PROVE ids' = IdsOnPage'
    <3>1. size \in Nat /\ size <= args.size /\ o + args.size < UINT_MOD
      BY <1>2, <1>M, <1>o, <2>1, <2>2 DEF PageSize, offset, maxTotal, NoWrap
    <3>2. PICK z \in Nat : z = size /\ z > 0
      BY <2>2, <3>1
    <3>3. (size + offset) % UINT_MOD = o + z
      <4>1. size + offset = o + z /\ o + z < UINT_MOD
        BY <1>2, <1>o, <3>1, <3>2 DEF offset
      <4> QED
        BY <1>2, <4>1, ModSmall
    <3>4. onPage <=> L < o + z /\ L + n > o
      BY <1>2, <1>n, <1>o, <3>3 DEF onPage, offset
    <3>5. ids = { stream[k][1] : k \in (o + 1)..Minimum(o + z, L) }
      BY <1>0, <1>L, <1>o, <2>2, <3>2 DEF CountInv, IdsCollected, IdsOnPage, PageEnd, offset
    <3>6. IdsOnPage' = { stream'[k][1] : k \in (o + 1)..Minimum(o + z, L + n) }
      BY <1>0, <1>4, <1>o, <3>2 DEF IdsOnPage, PageEnd, offset
    <3>7. ids' = IF onPage THEN ids \cup {c} ELSE ids
      BY <2>2 DEF HandleSolution
    <3>8. /\ \A k \in 1..L : k \in (o + 1)..Minimum(o + z, L) <=> k \in (o + 1)..Minimum(o + z, L + n)
          /\ (\E k \in (o + 1)..Minimum(o + z, L + n) : k > L) <=> onPage
      <4>1. L \in Nat /\ n \in Nat /\ o \in Nat /\ z \in Nat /\ z > 0 /\ n > 0
        BY <1>n, <3>2
      <4>2. /\ \A k \in 1..L : k \in (o + 1)..Minimum(o + z, L)
                              <=> k \in (o + 1)..Minimum(o + z, L + n)
            /\ (\E k \in (o + 1)..Minimum(o + z, L + n) : k > L) <=> L < o + z /\ L + n > o
        BY <4>1, PageMeetsBlock, Zenon
      <4> QED
        BY <3>4, <4>2, Zenon
    <3>9. ASSUME NEW k \in (o + 1)..Minimum(o + z, L + n) PROVE k \in 1..(L + n)
      BY <1>L, <1>n, <1>o, <3>2 DEF Minimum
    <3>10. ASSUME NEW k \in (o + 1)..Minimum(o + z, L) PROVE k \in 1..L
      BY <1>L, <1>o, <3>2 DEF Minimum
    <3>11. ASSUME NEW k \in 1..(L + n), k > L PROVE stream'[k][1] = c
      <4>1. k - L \in 1..n /\ L + (k - L) = k
        BY <1>L, <1>n, <3>11
      <4>2. stream'[k] = <<c, k - L>>
        BY <1>4, <4>1
      <4> QED
        BY <4>2
    <3>12. ASSUME NEW i \in ids' PROVE i \in IdsOnPage'
      <4>1. CASE i \in ids
        <5>1. PICK k \in (o + 1)..Minimum(o + z, L) : i = stream[k][1]
          BY <3>5, <4>1
        <5>2. k \in 1..L
          BY <3>10
        <5>3. k \in (o + 1)..Minimum(o + z, L + n) /\ stream'[k] = stream[k]
          BY <1>4, <3>8, <5>2
        <5> QED
          BY <3>6, <5>1, <5>3
      <4>2. CASE i = c /\ onPage
        <5>1. PICK k \in (o + 1)..Minimum(o + z, L + n) : k > L
          BY <3>8, <4>2
        <5>2. stream'[k][1] = c
          BY <3>9, <3>11, <5>1
        <5> QED
          BY <3>6, <4>2, <5>1, <5>2
      <4> QED
        BY <3>7, <4>1, <4>2
    <3>13. ASSUME NEW i \in IdsOnPage' PROVE i \in ids'
      <4>1. PICK k \in (o + 1)..Minimum(o + z, L + n) : i = stream'[k][1]
        BY <3>6
      <4>2. k \in 1..(L + n)
        BY <3>9
      <4>3. CASE k > L
        BY <3>7, <3>8, <3>11, <4>1, <4>2, <4>3
      <4>4. CASE ~(k > L)
        <5>1. k \in 1..L
          BY <1>L, <1>n, <4>2, <4>4
        <5>2. k \in (o + 1)..Minimum(o + z, L) /\ stream'[k] = stream[k]
          BY <1>4, <3>8, <4>1, <5>1
        <5>3. i \in ids
          BY <3>5, <4>1, <5>2
        <5> QED
          BY <3>7, <5>3
      <4> QED
        BY <4>3, <4>4
    <3> QED
      BY <3>12, <3>13
  <2> QED
    BY <1>0, <2>1, <2>2 DEF IdsCollected, NoWrap
<1> QED
  BY <1>5, <1>6, <1>7 DEF CountInv

\* Every step keeps the counts.
LEMMA CountStep ==
  SearchInv /\ PagingInv /\ VisitInv /\ CountInv /\ [Next]_vars => CountInv'
  BY CountCheck, CountHandle, CountQuiet

\* At the end the counts are those of the specification.
LEMMA CountGivesTotal == SearchInv /\ PagingInv /\ VisitInv /\ CountInv => TotalAndIdsExact
<1> SUFFICES ASSUME SearchInv, PagingInv, VisitInv, CountInv, pc = "done" PROVE TotalAndIdsExact
  BY DEF TotalAndIdsExact
<1> DEFINE f == SumOf(options.includeHits, hits, Unifying)
<1>1. MapThenSumSet(LAMBDA x : IF options.includeHits THEN hits[x] ELSE 1, Unifying) = f[Unifying]
  BY DEF MapThenSumSet, MapThenFoldSet, SumOf, Adds, Weight, Picked
<1>2. /\ maxTotal \in Nat /\ found \in Nat /\ found <= maxTotal
      /\ stream \in Seq(AnyHit) /\ Len(stream) \in Nat
      /\ args.offset \in Nat /\ args.size \in Nat
  BY ArgumentTypes DEF PagingInv, maxTotal, VisitInv
<1>3. Visited = Unifying \/ (found = maxTotal /\ Visited \in SUBSET Unifying)
  BY DEF VisitInv, VisitedSoFar, Before
<1>4. /\ f[Unifying] \in Nat /\ \A r \in SUBSET Unifying : f[r] \in Nat /\ f[r] <= f[Unifying]
  BY Weights, SumRules DEF SumRule
<1>5. Len(stream) = f[Visited]
  BY DEF CountInv, StreamCounts
<1>6. found = Minimum(maxTotal, f[Unifying])
  <2>1. FoundCounts
    BY DEF CountInv
  <2>2. Visited \in SUBSET Unifying
    BY <1>3
  <2>3. f[Visited] <= f[Unifying] /\ f[Visited] \in Nat
    BY <1>4, <2>2
  <2> HIDE DEF f
  <2>4. CASE found = maxTotal
    BY <1>2, <1>4, <1>5, <2>1, <2>3, <2>4 DEF FoundCounts, Minimum
  <2>5. CASE found # maxTotal
    BY <1>2, <1>3, <1>5, <1>4, <2>1, <2>5 DEF FoundCounts, Minimum
  <2> QED
    BY <2>4, <2>5
<1>7. ASSUME options.includeMwsIds, NoWrap, size > 0
      PROVE  ids = { x[1] : x \in ToSet(PageOf(stream, args.offset, args.size, maxTotal)) }
  <2> DEFINE o == args.offset
             last == Minimum(Minimum(o + args.size, maxTotal), Len(stream))
             page == SubSeq(stream, o + 1, last)
  <2>1. ids = { stream[k][1] : k \in (o + 1)..Minimum(o + size, Len(stream)) } /\ size = PageSize
    BY <1>7 DEF CountInv, IdsCollected, IdsOnPage, PageEnd, offset
  <2>2. last = Minimum(o + size, Len(stream)) /\ last \in Nat /\ last <= Len(stream)
    BY <1>2, <1>7, <2>1 DEF PageSize, offset, Minimum
  <2> HIDE DEF last
  <2>3. \A k \in (o + 1)..last : stream[k] \in AnyHit
    BY <1>2, <2>2
  <2>4. /\ page \in Seq(AnyHit)
        /\ Len(page) = IF o + 1 <= last THEN last - (o + 1) + 1 ELSE 0
        /\ \A k \in 1..(last - (o + 1) + 1) : page[k] = stream[o + 1 + k - 1]
    <3>1. stream \in Seq(AnyHit) /\ o + 1 \in Int /\ last \in Int
      BY <1>2, <2>2
    <3> HIDE DEF o
    <3> QED
      BY <2>3, <3>1, SubSeqProperties
  <2> HIDE DEF page
  <2>5. DOMAIN page = 1..Len(page) /\ Len(page) \in Nat
    BY <2>4
  <2>6. ASSUME NEW k \in 1..Len(page) PROVE o + k \in (o + 1)..last /\ page[k] = stream[o + k]
    <3>1. k \in 1..(last - (o + 1) + 1) /\ o + 1 + k - 1 = o + k /\ o + k \in (o + 1)..last
      <4>1. o + 1 <= last
        BY <1>2, <2>2, <2>4, <2>6
      <4>2. Len(page) = last - (o + 1) + 1
        BY <2>4, <4>1
      <4>3. PICK a \in Nat, l \in Nat : a = o /\ l = last
        BY <1>2, <2>2
      <4>4. k \in 1..(l - (a + 1) + 1)
        BY <2>6, <4>2, <4>3
      <4> HIDE DEF o
      <4>5. k \in 1..(l - (a + 1) + 1) /\ a + 1 + k - 1 = a + k /\ a + k \in (a + 1)..l
        BY <4>3, <4>4
      <4> QED
        BY <4>3, <4>5
    <3> QED
      BY <2>4, <3>1
  <2>7. ASSUME NEW k \in (o + 1)..last PROVE k - o \in 1..Len(page) /\ o + (k - o) = k
    <3>1. PICK a \in Nat, l \in Nat : a = o /\ l = last
      BY <1>2, <2>2
    <3>2. k \in (a + 1)..l
      BY <2>7, <3>1
    <3>3. Len(page) = IF a + 1 <= l THEN l - (a + 1) + 1 ELSE 0
      BY <2>4, <3>1
    <3> HIDE DEF o
    <3>4. k - a \in 1..Len(page) /\ a + (k - a) = k
      BY <3>2, <3>3
    <3> QED
      BY <3>1, <3>4
  <2>8. { x[1] : x \in ToSet(page) } = { stream[k][1] : k \in (o + 1)..last }
    <3>1. ASSUME NEW k \in 1..Len(page) PROVE page[k][1] \in { stream[m][1] : m \in (o + 1)..last }
      BY <2>6
    <3>2. ASSUME NEW k \in (o + 1)..last PROVE stream[k][1] \in { page[m][1] : m \in 1..Len(page) }
      <4>1. page[k - o] = stream[k]
        BY <2>6, <2>7
      <4> QED
        BY <2>7, <4>1
    <3>3. { x[1] : x \in ToSet(page) } = { page[m][1] : m \in 1..Len(page) }
      BY <2>5 DEF ToSet
    <3> QED
      BY <3>1, <3>2, <3>3
  <2> QED
    BY <2>1, <2>2, <2>8 DEF PageOf, page, last
<1> QED
  BY <1>1, <1>6, <1>7 DEF TotalAndIdsExact

\* For every query without elements below its variables the total that getResult
\* returns is the number of hits of the unifying formulas, up to the limit, and its
\* ids are those of the page.
THEOREM TotalAndIdsExactCorrect == Spec => []TotalAndIdsExact
<1> DEFINE Inv == VariablesAreLeaves(query) => SearchInv /\ PagingInv /\ VisitInv /\ CountInv
<1>1. Init => Inv
  BY SearchInit, PagingInit, VisitInit, CountInit
<1>2. Inv /\ [Next]_vars => Inv'
  BY SearchStep, PagingStep, VisitStep, CountStep, QueryStays
<1>3. Inv => TotalAndIdsExact
  BY CountGivesTotal DEF TotalAndIdsExact
<1> QED
  BY <1>1, <1>2, <1>3, PTL DEF Spec
-----------------------------------------------------------------------------
(***************************************************************************)
(* The experimental engine.  First its types and the levels of its         *)
(* recursion.                                                              *)
(***************************************************************************)
Vars == UNION { [D -> Paths] : D \in SUBSET Nat }

Calls == [toks : Paths, node : Paths, vs : Vars, id : Nat, tokens : Paths, open : Nat]

\* Instantiations.
LEMMA VarsIs ==
  /\ <<>> \in Vars
  /\ \A vs \in Vars : DOMAIN vs \subseteq Nat /\ \A i \in DOMAIN vs : vs[i] \in Paths
  /\ \A vs \in Vars, id \in Nat, tokens \in Paths : Instantiated(vs, id, tokens) \in Vars
<1>1. <<>> \in [{} -> Paths]
  OBVIOUS
<1>2. <<>> \in Vars
  BY <1>1 DEF Vars
<1>3. ASSUME NEW vs \in Vars PROVE DOMAIN vs \subseteq Nat /\ \A i \in DOMAIN vs : vs[i] \in Paths
  <2>1. PICK D \in SUBSET Nat : vs \in [D -> Paths]
    BY DEF Vars
  <2> QED
    BY <2>1
<1>4. ASSUME NEW vs \in Vars, NEW id \in Nat, NEW tokens \in Paths
      PROVE  Instantiated(vs, id, tokens) \in Vars
  <2>1. PICK D \in SUBSET Nat : vs \in [D -> Paths]
    BY DEF Vars
  <2>2. Instantiated(vs, id, tokens) \in [D \cup {id} -> Paths] /\ D \cup {id} \in SUBSET Nat
    BY <2>1 DEF Instantiated
  <2> QED
    BY <2>2 DEF Vars
<1> QED
  BY <1>2, <1>3, <1>4

\* Calls are made of what their arguments are.
LEMMA MadeCalls ==
  ASSUME NEW toks \in Paths, NEW node \in Paths, NEW vs \in Vars,
         NEW id \in Nat, NEW tokens \in Paths, NEW open \in Nat
  PROVE  ProcessCall(toks, node, vs) \in Calls /\ MatchCall(toks, node, vs, id, tokens, open) \in Calls
<1>1. ASSUME NEW ws \in Vars PROVE ProcessCall(toks, node, ws) \in Calls
  <2>1. <<>> \in Paths
    BY DEF Paths
  <2> QED
    BY <2>1 DEF ProcessCall, Calls
<1>2. ASSUME open # 0 PROVE MatchCall(toks, node, vs, id, tokens, open) \in Calls
  BY <1>2 DEF MatchCall, Calls
<1>3. ASSUME open = 0 PROVE MatchCall(toks, node, vs, id, tokens, open) \in Calls
  <2>1. Instantiated(vs, id, tokens) \in Vars
    BY VarsIs
  <2> QED
    BY <1>1, <1>3, <2>1 DEF MatchCall
<1> QED
  BY <1>1, <1>2, <1>3

\* The top of the query stack and what is below it.
LEMMA TopOf ==
  ASSUME NEW t \in Paths, t # <<>>
  PROVE  /\ Head(t) \in encoded_token_t /\ Head(t) = t[1] /\ Head(t).id \in Nat /\ Head(t).arity \in Nat
         /\ Tail(t) \in Paths /\ Len(t) \in Nat /\ Len(t) > 0 /\ Len(Tail(t)) = Len(t) - 1
         /\ \A k \in 1..(Len(t) - 1) : Tail(t)[k] = t[k + 1]
<1>1. /\ Head(t) \in encoded_token_t /\ Tail(t) \in Paths /\ Len(Tail(t)) = Len(t) - 1
      /\ \A k \in 1..Len(Tail(t)) : Tail(t)[k] = t[k + 1]
  BY HeadTailProperties DEF Paths
<1>2. Len(t) \in Nat /\ Len(t) > 0 /\ Head(t) = t[1]
  BY EmptySeq DEF Paths
<1> QED
  BY <1>1, <1>2 DEF encoded_token_t

\* The children a variable is matched with.
LEMMA EntryIs ==
  ASSUME index \in Indexes, NEW v \in Paths
  PROVE  /\ Cardinality(ChildTokens(index, v)) \in Nat
         /\ Cardinality(ChildTokens(index, v)) > 0 =>
              LET entry == FirstToken(ChildTokens(index, v))
              IN  entry \in encoded_token_t /\ HasChild(index, v, entry)
                  /\ entry.arity \in Nat /\ Append(v, entry) \in Paths
<1> DEFINE C == ChildTokens(index, v)
<1>1. C \in SUBSET encoded_token_t /\ IsFiniteSet(C)
  BY IndexFacts, ChildTokensOf
<1>2. Cardinality(C) \in Nat
  BY <1>1, FS_CardinalityType
<1>3. ASSUME Cardinality(C) > 0
      PROVE  FirstToken(C) \in C /\ FirstToken(C) \in encoded_token_t
  <2>1. C # {}
    BY <1>3, FS_EmptySet
  <2> HIDE DEF C
  <2> QED
    BY <1>1, <2>1, FirstTokenIsFirst
<1>4. ASSUME NEW e \in encoded_token_t PROVE e.arity \in Nat /\ Append(v, e) \in Paths
  BY DEF encoded_token_t, Paths
<1> QED
  BY <1>2, <1>3, <1>4 DEF HasChild

\* A call makes calls.
LEMMA CallsTyped ==
  ASSUME index \in Indexes, NEW call \in Calls
  PROVE  CallsOf(call) \in Seq(Calls)
<1>0. /\ call.toks \in Paths /\ call.node \in Paths /\ call.vs \in Vars /\ call.id \in Nat
      /\ call.tokens \in Paths /\ call.open \in Nat
  BY DEF Calls
<1>1. ASSUME call.open > 0 PROVE match_var_to_index(call) \in Seq(Calls)
  <2> DEFINE n == Cardinality(ChildTokens(index, call.node))
             e == FirstToken(ChildTokens(index, call.node))
             c == MatchCall(call.toks, Append(call.node, e), call.vs, call.id,
                            Append(call.tokens, e), call.open + e.arity - 1)
  <2>1. n \in Nat
    BY <1>0, EntryIs
  <2>2. ASSUME n > 0 PROVE c \in Calls
    <3>1. e \in encoded_token_t /\ e.arity \in Nat /\ Append(call.node, e) \in Paths
      BY <1>0, <2>2, EntryIs
    <3>2. Append(call.tokens, e) \in Paths /\ call.open + e.arity - 1 \in Nat
      BY <1>0, <1>1, <3>1 DEF Paths
    <3> QED
      BY <1>0, <3>1, <3>2, MadeCalls
  <2>3. match_var_to_index(call) = [i \in 1..n |-> c]
    BY DEF match_var_to_index
  <2> HIDE DEF n, c
  <2>4. [i \in 1..n |-> c] \in [1..n -> Calls]
    BY <2>1, <2>2
  <2> QED
    BY <2>1, <2>3, <2>4, FunctionIsSeq
<1>2. <<call>> \in Seq(Calls)
  OBVIOUS
<1>3. ASSUME call.open = 0, call.toks # <<>> PROVE process_query_token(call) \in Seq(Calls)
  <2> DEFINE token == Head(call.toks)
             rest == Tail(call.toks)
  <2>1. token \in encoded_token_t /\ token.id \in Nat /\ rest \in Paths /\ <<>> \in Paths
    BY <1>0, <1>3, TopOf DEF Paths
  <2>2. ASSUME IsSolved(call.vs, token.id)
        PROVE  <<ProcessCall(call.vs[token.id] \o rest, call.node, call.vs)>> \in Seq(Calls)
    <3>1. call.vs[token.id] \o rest \in Paths
      <4>1. call.vs[token.id] \in Paths
        BY <1>0, <2>2, VarsIs DEF IsSolved
      <4> QED
        BY <2>1, <4>1, ConcatFacts
    <3>2. ProcessCall(call.vs[token.id] \o rest, call.node, call.vs) \in Calls
      BY <1>0, <2>1, <3>1, MadeCalls
    <3> QED
      BY <3>2
  <2>3. <<MatchCall(rest, call.node, call.vs, token.id, <<>>, 1)>> \in Seq(Calls)
    <3>1. MatchCall(rest, call.node, call.vs, token.id, <<>>, 1) \in Calls
      BY <1>0, <2>1, MadeCalls
    <3> QED
      BY <3>1
  <2>4. <<ProcessCall(rest, Append(call.node, token), call.vs)>> \in Seq(Calls)
    <3>1. Append(call.node, token) \in Paths
      BY <1>0, <2>1 DEF Paths
    <3>2. ProcessCall(rest, Append(call.node, token), call.vs) \in Calls
      BY <1>0, <2>1, <3>1, MadeCalls
    <3> QED
      BY <3>2
  <2>5. <<>> \in Seq(Calls)
    OBVIOUS
  <2> QED
    BY <2>2, <2>3, <2>4, <2>5 DEF process_query_token
<1>4. CASE call.open > 0
  BY <1>1, <1>4 DEF CallsOf
<1>5. CASE call.open = 0 /\ call.toks = <<>>
  BY <1>2, <1>5 DEF CallsOf, Reports
<1>6. CASE call.open = 0 /\ call.toks # <<>>
  BY <1>3, <1>6 DEF CallsOf, Reports
<1> QED
  BY <1>0, <1>4, <1>5, <1>6

-----------------------------------------------------------------------------
\* Sequences put together: f has the sums of the first sequences.
FlattensTo(f, ss) == f = [i \in 1..Len(ss) |-> IF i = 1 THEN ss[i] ELSE f[i-1] \o ss[i]]

\* What FlattenSeq puts together, and that it does not change one sequence.
LEMMA FlattenIs ==
  ASSUME NEW T, NEW ss \in Seq(Seq(T)), NEW P \in SUBSET T,
         \A i \in 1..Len(ss) : \A j \in 1..Len(ss[i]) : ss[i][j] \in P
  PROVE  /\ FlattenSeq(ss) \in Seq(T)
         /\ \A k \in 1..Len(FlattenSeq(ss)) : FlattenSeq(ss)[k] \in P
         /\ Len(ss) = 1 => FlattenSeq(ss) = ss[1]
<1>1. Len(ss) \in Nat /\ \A i \in 1..Len(ss) : ss[i] \in Seq(T)
  OBVIOUS
<1>2. \A i \in 1..Len(ss) : ss[i] \in Seq(P)
  <2>1. ASSUME NEW i \in 1..Len(ss) PROVE ss[i] \in Seq(P)
    <3>1. Len(ss[i]) \in Nat /\ ss[i] \in [1..Len(ss[i]) -> P]
      BY <1>1
    <3> QED
      BY <3>1, FunctionIsSeq
  <2> QED
    BY <2>1
<1>3. CASE Len(ss) = 0
  <2>1. ss = <<>>
    BY <1>3
  <2>2. FlattenSeq(ss) = <<>>
    BY <1>3, <2>1 DEF FlattenSeq
  <2> QED
    BY <1>3, <2>2
<1>4. CASE Len(ss) > 0
  <2> DEFINE n == Len(ss)
             F == [p \in (1..n) \X Seq(P) |-> p[2] \o ss[p[1]]]
             Q == Seq(P)
  <2>1. F \in Steps(n, Q)
    <3>1. \A s \in Q : \A i \in 1..n : s \o ss[i] \in Q
      BY <1>2
    <3> QED
      BY <3>1 DEF Steps
  <2>2. PICK g : Recurs(g, n, Q, <<>>, F)
    <3>1. n \in Nat /\ <<>> \in Q
      BY <1>1
    <3> HIDE DEF F, Q, n
    <3> QED
      BY <2>1, <3>1, RecursionExists, Zenon
  <2>3. ASSUME NEW i \in 1..n PROVE g[i] = g[i-1] \o ss[i] /\ g[i] \in Q
    <3>1. i - 1 \in 0..n /\ i \in 0..n
      BY <1>1
    <3>2. <<i, g[i-1]>> \in (1..n) \X Q
      BY <2>2, <3>1 DEF Recurs
    <3> QED
      BY <2>2, <3>1, <3>2 DEF Recurs
  <2>4. g[0] = <<>>
    BY <2>2 DEF Recurs
  <2>5. PICK f : f = [i \in 1..n |-> g[i]]
    OBVIOUS
  <2>6. ASSUME NEW i \in 1..n PROVE f[i] = IF i = 1 THEN ss[i] ELSE f[i-1] \o ss[i]
    <3>1. CASE i = 1
      <4>0. 1 \in 1..n /\ 1 - 1 = 0
        BY <3>1
      <4>1. g[1] = <<>> \o ss[1]
        BY <2>3, <2>4, <4>0
      <4>2. <<>> \o ss[1] = ss[1]
        BY <1>2, <3>1, ConcatEmptySeq
      <4> QED
        BY <2>5, <3>1, <4>1, <4>2
    <3>2. CASE i # 1
      <4>1. i - 1 \in 1..n
        BY <1>1, <3>2
      <4> QED
        BY <2>3, <2>5, <3>2, <4>1
    <3> QED
      BY <3>1, <3>2
  <2>7. FlattensTo(f, ss)
    BY <2>5, <2>6 DEF FlattensTo
  <2>8. FlattenSeq(ss) = (CHOOSE h : FlattensTo(h, ss))[n]
    BY <1>4 DEF FlattenSeq, FlattensTo
  <2>9. PICK h : h = CHOOSE k : FlattensTo(k, ss)
    OBVIOUS
  <2>10. FlattensTo(h, ss)
    BY <2>7, <2>9
  <2>11. \A i \in 1..n : h[i] = IF i = 1 THEN ss[i] ELSE h[i-1] \o ss[i]
    BY <2>10 DEF FlattensTo
  <2> DEFINE R == { i \in Nat : i + 1 <= n => h[i + 1] \in Q }
  <2>12. 0 \in R
    BY <1>2, <1>4, <2>11
  <2>13. ASSUME NEW i \in Nat, i \in R PROVE i + 1 \in R
    <3> SUFFICES ASSUME i + 2 <= n PROVE h[i + 2] \in Q
      OBVIOUS
    <3>1. i + 2 \in 1..n /\ i + 2 - 1 = i + 1 /\ i + 1 <= n /\ i + 2 # 1
      BY <1>1
    <3>0. h[i + 1] \in Q
      BY <2>13, <3>1
    <3>2. h[i + 2] = h[i + 1] \o ss[i + 2]
      <4>1. PICK m : m = i + 2
        OBVIOUS
      <4>2. m \in 1..n /\ m # 1 /\ m - 1 = i + 1
        BY <3>1, <4>1
      <4>3. h[m] = h[m - 1] \o ss[m]
        BY <2>11, <4>2, Zenon
      <4> QED
        BY <4>1, <4>2, <4>3
    <3> QED
      BY <1>2, <3>0, <3>1, <3>2
  <2>14. Nat \subseteq R
    <3> HIDE DEF R
    <3> QED
      BY <2>12, <2>13, SetInduction
  <2>15. h[n] \in Q
    <3>1. n - 1 \in Nat /\ n - 1 + 1 = n
      BY <1>1, <1>4
    <3>2. n - 1 \in R
      BY <2>14, <3>1
    <3> QED
      BY <3>1, <3>2
  <2>16. FlattenSeq(ss) = h[n]
    BY <2>8, <2>9
  <2>17. \A s \in Seq(P) : s \in Seq(T) /\ \A k \in 1..Len(s) : s[k] \in P
    OBVIOUS
  <2>18. n = 1 => h[n] = ss[1]
    BY <2>11
  <2> QED
    BY <2>15, <2>16, <2>17, <2>18
<1> QED
  BY <1>1, <1>3, <1>4

-----------------------------------------------------------------------------
\* A finite set of numbers has a largest one.
LEMMA LargestNumber ==
  ASSUME NEW S \in SUBSET Nat, IsFiniteSet(S), S # {}
  PROVE  Max(S) \in S /\ \A y \in S : Max(S) >= y
<1> DEFINE Above(s) == { t \in S : t > s }
           T == { Above(s) : s \in S }
<1>1. T \subseteq FiniteSubsetsOf(S)
  BY FS_Subset DEF FiniteSubsetsOf
<1>2. T # {}
  OBVIOUS
<1>3. PICK b \in T : \A c \in T : ~(<<c, b>> \in StrictSubsetOrdering(S))
  <2>1. IsWellFoundedOn(StrictSubsetOrdering(S), FiniteSubsetsOf(S))
    BY FS_StrictSubsetOrderingWellFounded
  <2> HIDE DEF T
  <2> QED
    BY <1>1, <1>2, <2>1, WFMin
<1>4. PICK s \in S : b = Above(s)
  OBVIOUS
<1>5. ASSUME NEW t \in S, t > s PROVE FALSE
  <2>1. Above(t) \subseteq Above(s)
    <3>1. ASSUME NEW u \in S, u > t PROVE u > s
      <4>1. u \in Nat /\ t \in Nat /\ s \in Nat
        OBVIOUS
      <4> QED
        BY <1>5, <3>1, <4>1
    <3> QED
      BY <3>1
  <2>2. t \in Above(s) /\ t \notin Above(t)
    BY <1>5
  <2>3. <<Above(t), Above(s)>> \in StrictSubsetOrdering(S)
    BY <2>1, <2>2 DEF StrictSubsetOrdering
  <2> QED
    BY <1>3, <1>4, <2>3
<1>6. \A t \in S : s >= t
  BY <1>5
<1> QED
  BY <1>6 DEF Max

\* The depth of the recursion is more than twice the length of any formula.
LEMMA DepthIs ==
  ASSUME index \in Indexes
  PROVE  Depth \in Nat /\ Depth > 1 /\ \A f \in index : Len(f) \in Nat /\ 2 * Len(f) + 1 < Depth
<1> DEFINE L == { Len(f) : f \in index }
           S == {0} \cup L
<1>1. IsFiniteSet(index) /\ \A f \in index : Len(f) \in Nat
  BY IndexFacts, PathFacts DEF Paths
<1>2. IsFiniteSet(L)
  <2> DEFINE F == [f \in index |-> Len(f)]
  <2>1. F \in Surjection(index, L)
    BY DEF Surjection
  <2> HIDE DEF F, L
  <2> QED
    BY <1>1, <2>1, FS_Surjection
<1>3. IsFiniteSet(S) /\ S \in SUBSET Nat /\ S # {}
  <2>1. IsFiniteSet(S)
    <3> HIDE DEF L
    <3>1. IsFiniteSet({0})
      BY FS_Singleton
    <3> QED
      BY <1>2, <3>1, FS_Union
  <2> QED
    BY <1>1, <2>1
<1>4. PICK m : m = Max(S)
  OBVIOUS
<1>5. m \in Nat /\ \A y \in S : m >= y
  <2> HIDE DEF S
  <2> QED
    BY <1>3, <1>4, LargestNumber
<1>6. Depth = 2 * m + 2
  BY <1>4 DEF Depth
<1>7. ASSUME NEW f \in index PROVE Len(f) \in Nat /\ 2 * Len(f) + 1 < Depth
  <2>1. Len(f) \in S /\ Len(f) \in Nat
    BY <1>1
  <2>2. m >= Len(f)
    BY <1>5, <2>1
  <2> QED
    BY <1>5, <1>6, <2>1, <2>2
<1> QED
  BY <1>5, <1>6, <1>7

\* The calls made by a sequence of calls.
NextLevel(last) == FlattenSeq([i \in DOMAIN last |-> CallsOf(last[i])])

\* The calls of the next level are among those that the calls make.
LEMMA NextLevelIs ==
  ASSUME index \in Indexes, NEW last \in Seq(Calls), NEW P \in SUBSET Calls,
         \A i \in 1..Len(last) : \A j \in 1..Len(CallsOf(last[i])) : CallsOf(last[i])[j] \in P
  PROVE  /\ NextLevel(last) \in Seq(Calls)
         /\ \A k \in 1..Len(NextLevel(last)) : NextLevel(last)[k] \in P
         /\ Len(last) = 1 => NextLevel(last) = CallsOf(last[1])
         /\ Len(last) = 0 => NextLevel(last) = <<>>
<1>1. PICK ss : ss = [i \in DOMAIN last |-> CallsOf(last[i])]
  OBVIOUS
<1>2. Len(last) \in Nat /\ DOMAIN last = 1..Len(last) /\ \A i \in 1..Len(last) : last[i] \in Calls
  OBVIOUS
<1>3. ss \in [1..Len(last) -> Seq(Calls)]
  BY <1>1, <1>2, CallsTyped
<1>4. ss \in Seq(Seq(Calls)) /\ Len(ss) = Len(last)
  BY <1>2, <1>3, FunctionIsSeq
<1>5. \A i \in 1..Len(last) : ss[i] = CallsOf(last[i])
  BY <1>1, <1>2
<1>6. \A i \in 1..Len(ss) : \A j \in 1..Len(ss[i]) : ss[i][j] \in P
  BY <1>4, <1>5
<1>7. NextLevel(last) = FlattenSeq(ss)
  BY <1>1 DEF NextLevel
<1>8. /\ FlattenSeq(ss) \in Seq(Calls) /\ \A k \in 1..Len(FlattenSeq(ss)) : FlattenSeq(ss)[k] \in P
      /\ Len(ss) = 1 => FlattenSeq(ss) = ss[1]
  BY <1>4, <1>6, FlattenIs
<1>9. Len(last) = 0 => NextLevel(last) = <<>>
  BY <1>4, <1>7 DEF FlattenSeq
<1> QED
  BY <1>4, <1>5, <1>7, <1>8, <1>9

\* Levels satisfies the equations that define it.
LEMMA LevelsIs ==
  ASSUME index \in Indexes, NEW q \in Paths
  PROVE  /\ Levels(q)[0] = <<ProcessCall(q, RootNode, <<>>)>>
         /\ \A n \in 1..Depth : Levels(q)[n] = NextLevel(Levels(q)[n-1])
         /\ \A n \in 0..Depth : Levels(q)[n] \in Seq(Calls)
<1> DEFINE S == Seq(Calls)
           c == <<ProcessCall(q, RootNode, <<>>)>>
           Fits(f) == f = [n \in 0..Depth |-> IF n = 0 THEN c ELSE NextLevel(f[n-1])]
           F == [p \in (1..Depth) \X S |-> NextLevel(p[2])]
<1>1. Levels(q) = CHOOSE f : Fits(f)
  BY DEF Levels, NextLevel
<1>2. c \in S /\ Depth \in Nat
  <2>1. RootNode \in Paths
    BY DEF RootNode, Paths
  <2>2. ProcessCall(q, RootNode, <<>>) \in Calls
    BY <2>1, VarsIs, MadeCalls
  <2> QED
    BY <2>2, DepthIs
<1>3. \A last \in S : NextLevel(last) \in S
  <2> SUFFICES ASSUME NEW last \in S PROVE NextLevel(last) \in S
    OBVIOUS
  <2>1. \A i \in 1..Len(last) : \A j \in 1..Len(CallsOf(last[i])) : CallsOf(last[i])[j] \in Calls
    BY CallsTyped
  <2> QED
    BY <2>1, NextLevelIs
<1>4. F \in Steps(Depth, S)
  BY <1>3 DEF Steps
<1>5. PICK f : Recurs(f, Depth, S, c, F)
  <2> HIDE DEF F, S, c
  <2> QED
    BY <1>2, <1>4, RecursionExists, Zenon
<1>6. ASSUME NEW n \in 1..Depth PROVE f[n] = NextLevel(f[n-1])
  <2>1. n - 1 \in 0..Depth
    BY <1>2
  <2>2. <<n, f[n-1]>> \in (1..Depth) \X S
    BY <1>5, <2>1 DEF Recurs
  <2> HIDE DEF S, c
  <2>3. F[<<n, f[n-1]>>] = NextLevel(f[n-1])
    BY <2>2
  <2> QED
    BY <1>5, <2>3, Zenon DEF Recurs
<1>7. Fits(f)
  <2>1. f \in [0..Depth -> S] /\ f[0] = c
    BY <1>5 DEF Recurs
  <2>2. \A n \in 0..Depth : f[n] = IF n = 0 THEN c ELSE NextLevel(f[n-1])
    <3>1. ASSUME NEW n \in 0..Depth, n # 0 PROVE f[n] = NextLevel(f[n-1])
      <4>1. n \in 1..Depth
        BY <1>2, <3>1
      <4> QED
        BY <1>6, <4>1
    <3> HIDE DEF S, c
    <3> QED
      BY <2>1, <3>1
  <2>3. f = [n \in 0..Depth |-> f[n]]
    BY <2>1
  <2> HIDE DEF S, c
  <2>4. [n \in 0..Depth |-> f[n]] = [n \in 0..Depth |-> IF n = 0 THEN c ELSE NextLevel(f[n-1])]
    BY <2>2
  <2> QED
    BY <2>3, <2>4, Zenon
<1>8. PICK g : g = Levels(q)
  OBVIOUS
<1>9. Fits(g)
  <2> HIDE DEF Fits
  <2> QED
    BY <1>1, <1>7, <1>8
<1>10. g[0] = c /\ \A n \in 1..Depth : g[n] = NextLevel(g[n-1])
  <2> HIDE DEF c
  <2>1. 0 \in 0..Depth /\ \A n \in 1..Depth : n \in 0..Depth /\ n # 0
    BY <1>2
  <2>2. \A n \in 0..Depth : g[n] = IF n = 0 THEN c ELSE NextLevel(g[n-1])
    BY <1>9
  <2> QED
    BY <2>1, <2>2
<1> DEFINE P == { n \in Nat : n <= Depth => g[n] \in S }
<1>11. 0 \in P
  BY <1>2, <1>10
<1>12. ASSUME NEW n \in Nat, n \in P PROVE n + 1 \in P
  <2> SUFFICES ASSUME n + 1 <= Depth PROVE g[n + 1] \in S
    OBVIOUS
  <2>1. PICK m : m = n + 1
    OBVIOUS
  <2>2. m \in 1..Depth /\ m - 1 = n /\ n <= Depth
    BY <1>2, <2>1
  <2>3. g[n] \in S
    BY <1>12, <2>2
  <2>4. g[m] = NextLevel(g[m - 1])
    BY <1>10, <2>2
  <2> HIDE DEF S
  <2> QED
    BY <1>3, <2>1, <2>2, <2>3, <2>4
<1>13. Nat \subseteq P
  <2> HIDE DEF P
  <2> QED
    BY <1>11, <1>12, SetInduction
<1>14. \A n \in 0..Depth : g[n] \in S
  BY <1>2, <1>13
<1> QED
  BY <1>8, <1>10, <1>14

-----------------------------------------------------------------------------
(***************************************************************************)
(* Where a call is: at a token of the query, in the middle of replaying a  *)
(* solved variable, or in the middle of matching one.                      *)
(***************************************************************************)
\* The query stack holds the query from token i on.
RestOf(t, i) ==
  /\ t \in Paths /\ Len(t) = Len(query) - i + 1
  /\ \A k \in 1..Len(t) : t[k] = query[i + k - 1]

\* An instantiation is what its variable stands for in every formula below v.
StandsBelow(t, id, v, i) ==
  /\ t \in Paths /\ IsTerm(t) /\ \A k \in 1..Len(t) : ~IsSpecial(t[k])
  /\ \E j \in 1..(i - 1) : /\ Fresh(query, j) /\ query[j].id = id
                           /\ \A x \in index : Extends(x, v) => Piece(x, query, j) = t

\* The variables before token i, and no others, are solved.
VarsAt(vs, v, i) ==
  /\ vs \in Vars
  /\ \A id \in DOMAIN vs : StandsBelow(vs[id], id, v, i)
  /\ \A j \in 1..(i - 1) : encoded_token_is_var(query[j]) => query[j].id \in DOMAIN vs

\* Node v is where the tokens of the query before i lead.
LedTo(vs, v, i) == Placed(v, i - 1) /\ Agree(index, query, v, i - 1) /\ VarsAt(vs, v, i)

OnIndex(node) == node \in Paths /\ (node = RootNode \/ IsNode(index, node))

AtQueryToken(c, n, i) ==
  /\ LedTo(c.vs, c.node, i) /\ c.open = 0 /\ RestOf(c.toks, i)
  /\ c.toks # <<>> => n <= 2 * Len(c.node)

\* m tokens of the instantiation w are replayed.
Replays(c, n, i, v, w, m) ==
  /\ LedTo(c.vs, v, i) /\ c.open = 0 /\ encoded_token_is_var(query[i])
  /\ query[i].id \in DOMAIN c.vs /\ w = c.vs[query[i].id] /\ m \in Nat /\ m < Len(w)
  /\ OnIndex(c.node) /\ Len(c.node) = Len(v) + m /\ Extends(c.node, v) /\ Reads(c.node, Len(v), w, m)
  /\ c.toks \in Paths /\ Len(c.toks) = Len(w) - m + Len(query) - i
  /\ \A k \in 1..(Len(w) - m) : c.toks[k] = w[m + k]
  /\ \A k \in 1..(Len(query) - i) : c.toks[Len(w) - m + k] = query[i + k]
  /\ n <= 2 * Len(c.node) + 1

Matches(c, n, i, v) ==
  /\ LedTo(c.vs, v, i) /\ encoded_token_is_var(query[i])
  /\ c.id = query[i].id /\ c.id \notin DOMAIN c.vs /\ RestOf(c.toks, i + 1)
  /\ OnIndex(c.node) /\ c.tokens \in Paths /\ c.node = v \o c.tokens
  /\ c.open = OpenSlots(c.tokens)[Len(c.tokens)] /\ \A k \in 0..Len(c.tokens) : OpenSlots(c.tokens)[k] > 0
  /\ n <= 2 * Len(c.node) + 1

SomewhereAt(c, n) ==
  \/ \E i \in 1..(Len(query) + 1) : AtQueryToken(c, n, i)
  \/ \E i \in 1..Len(query), v \in Paths, w \in Paths, m \in Nat : Replays(c, n, i, v, w, m)
  \/ \E i \in 1..Len(query), v \in Paths : Matches(c, n, i, v)

-----------------------------------------------------------------------------
\* A path one token longer.
LEMMA OneMore ==
  ASSUME NEW v \in Paths, NEW tok \in encoded_token_t
  PROVE  /\ Append(v, tok) = v \o <<tok>> /\ Append(v, tok) \in Paths /\ Len(v) \in Nat
         /\ Len(Append(v, tok)) = Len(v) + 1 /\ Extends(Append(v, tok), v)
         /\ \A k \in 1..Len(v) : Append(v, tok)[k] = v[k]
         /\ Append(v, tok)[Len(v) + 1] = tok
<1>1. /\ Append(v, tok) \in Paths /\ Len(Append(v, tok)) = Len(v) + 1
      /\ \A k \in 1..Len(v) : Append(v, tok)[k] = v[k]
      /\ Append(v, tok)[Len(v) + 1] = tok
  BY AppendProperties DEF Paths
<1>2. Append(v, tok) = v \o <<tok>> /\ Len(v) \in Nat
  BY AppendIsConcat, LenProperties DEF Paths
<1>3. Extends(Append(v, tok), v)
  BY <1>1, <1>2 DEF Extends
<1> QED
  BY <1>1, <1>2, <1>3

\* A child of a node is on the index.
LEMMA ChildOnIndex ==
  ASSUME index \in Indexes, NEW v \in Paths, NEW tok \in encoded_token_t, HasChild(index, v, tok)
  PROVE  OnIndex(Append(v, tok)) /\ IsNode(index, Append(v, tok))
<1>1. index \in SUBSET Paths
  BY IndexFacts
<1>2. IsNode(index, v \o <<tok>>)
  BY <1>1, ChildIsNode
<1> QED
  BY <1>2, OneMore DEF OnIndex

\* No token of a formula is special, and so no child of a node.
LEMMA NoSpecialChild ==
  ASSUME index \in Indexes
  PROVE  /\ \A v \in Paths : IsNode(index, v) => \A k \in 1..Len(v) : ~IsSpecial(v[k])
         /\ \A v \in Paths, tok \in encoded_token_t : HasChild(index, v, tok) => ~IsSpecial(tok)
<1>1. ASSUME NEW v \in Paths, IsNode(index, v), NEW k \in 1..Len(v) PROVE ~IsSpecial(v[k])
  <2>1. PICK f \in index : Extends(f, v)
    BY <1>1 DEF IsNode
  <2>2. f \in Paths /\ Len(f) \in Nat /\ DOMAIN f = 1..Len(f) /\ Len(v) \in Nat
    BY IndexFacts, PathFacts DEF Paths
  <2>3. k \in 1..Len(f) /\ f[k] = v[k]
    BY <1>1, <2>1, <2>2 DEF Extends
  <2> QED
    BY <2>2, <2>3, NoHarvestedVariables
<1>2. ASSUME NEW v \in Paths, NEW tok \in encoded_token_t, HasChild(index, v, tok) PROVE ~IsSpecial(tok)
  <2>1. PICK y : y = Append(v, tok)
    OBVIOUS
  <2>2. y \in Paths /\ IsNode(index, y) /\ Len(v) \in Nat /\ Len(y) = Len(v) + 1 /\ y[Len(v) + 1] = tok
    BY <1>2, <2>1, OneMore, ChildOnIndex
  <2>3. Len(v) + 1 \in 1..Len(y)
    BY <2>2
  <2> QED
    BY <1>1, <2>2, <2>3
<1> QED
  BY <1>1, <1>2

\* The variables solved stay solved below.
LEMMA VarsBelow ==
  ASSUME index \in Indexes, query \in LeafQueries, NEW i \in 1..Len(query), NEW v \in Paths, NEW y \in Paths,
         Extends(y, v), NEW vs, VarsAt(vs, v, i)
  PROVE  \A id \in DOMAIN vs : StandsBelow(vs[id], id, y, i + 1)
<1> SUFFICES ASSUME NEW id \in DOMAIN vs PROVE StandsBelow(vs[id], id, y, i + 1)
  OBVIOUS
<1>1. PICK t : t = vs[id]
  OBVIOUS
<1>2. StandsBelow(t, id, v, i)
  BY <1>1 DEF VarsAt
<1>3. PICK j \in 1..(i - 1) : /\ Fresh(query, j) /\ query[j].id = id
                             /\ \A x \in index : Extends(x, v) => Piece(x, query, j) = t
  BY <1>2 DEF StandsBelow
<1>4. j \in 1..(i + 1 - 1)
  BY MissingFacts
<1>5. ASSUME NEW x \in index, Extends(x, y) PROVE Piece(x, query, j) = t
  <2>1. x \in Paths
    BY IndexFacts
  <2>2. Extends(x, v)
    BY <1>5, <2>1, ExtendsTransitive
  <2> QED
    BY <1>3, <2>2
<1> QED
  BY <1>1, <1>2, <1>3, <1>4, <1>5 DEF StandsBelow

\* The query stack at a token.
LEMMA RestIs ==
  ASSUME query \in LeafQueries, NEW i \in 1..(Len(query) + 1), NEW t, RestOf(t, i)
  PROVE  /\ t = <<>> <=> i = Len(query) + 1
         /\ t # <<>> => /\ i \in 1..Len(query) /\ Head(t) = query[i] /\ RestOf(Tail(t), i + 1)
                        /\ query[i] \in encoded_token_t /\ query[i].id \in Nat
<1>1. Len(query) \in Nat /\ t \in Paths /\ Len(t) = Len(query) - i + 1
      /\ \A k \in 1..Len(t) : t[k] = query[i + k - 1]
  BY MissingFacts DEF RestOf
<1>2. t = <<>> <=> Len(t) = 0
  BY <1>1, EmptySeq DEF Paths
<1>3. t = <<>> <=> i = Len(query) + 1
  BY <1>1, <1>2
<1>4. ASSUME t # <<>>
      PROVE  /\ i \in 1..Len(query) /\ Head(t) = query[i] /\ RestOf(Tail(t), i + 1)
             /\ query[i] \in encoded_token_t /\ query[i].id \in Nat
  <2>1. /\ Head(t) \in encoded_token_t /\ Head(t) = t[1] /\ Head(t).id \in Nat
        /\ Tail(t) \in Paths /\ Len(t) > 0 /\ Len(Tail(t)) = Len(t) - 1
        /\ \A k \in 1..(Len(t) - 1) : Tail(t)[k] = t[k + 1]
    BY <1>1, <1>4, TopOf
  <2>2. i \in 1..Len(query)
    BY <1>1, <1>3, <1>4
  <2>3. Head(t) = query[i]
    <3>1. 1 \in 1..Len(t) /\ i + 1 - 1 = i
      BY <1>1, <2>1
    <3> QED
      BY <1>1, <2>1, <3>1
  <2>4. ASSUME NEW k \in 1..Len(Tail(t)) PROVE Tail(t)[k] = query[(i + 1) + k - 1]
    <3>1. k \in 1..(Len(t) - 1) /\ k + 1 \in 1..Len(t) /\ i + (k + 1) - 1 = (i + 1) + k - 1
      BY <1>1, <2>1
    <3>2. Tail(t)[k] = t[k + 1] /\ t[k + 1] = query[i + (k + 1) - 1]
      BY <1>1, <2>1, <3>1
    <3> QED
      BY <3>1, <3>2
  <2>5. RestOf(Tail(t), i + 1)
    BY <1>1, <2>1, <2>4 DEF RestOf
  <2> QED
    BY <2>1, <2>2, <2>3, <2>5
<1> QED
  BY <1>3, <1>4

\* A node where one more token leads, with the variables solved so far.
LEMMA LedOn ==
  ASSUME index \in Indexes, query \in LeafQueries, NEW i \in 1..Len(query), NEW vs, NEW v \in Paths, LedTo(vs, v, i),
         NEW y \in Paths, Extends(y, v), Placed(y, i), Agree(index, query, y, i),
         encoded_token_is_var(query[i]) => query[i].id \in DOMAIN vs
  PROVE  LedTo(vs, y, i + 1)
<1>1. VarsAt(vs, v, i) /\ i + 1 - 1 = i /\ i \in Nat
  BY DEF LedTo
<1>2. \A id \in DOMAIN vs : StandsBelow(vs[id], id, y, i + 1)
  BY <1>1, VarsBelow
<1>3. ASSUME NEW j \in 1..i, encoded_token_is_var(query[j]) PROVE query[j].id \in DOMAIN vs
  <2>1. j = i \/ j \in 1..(i - 1)
    BY <1>1
  <2> QED
    BY <1>1, <1>3, <2>1 DEF VarsAt
<1>4. VarsAt(vs, y, i + 1)
  BY <1>1, <1>2, <1>3 DEF VarsAt
<1> QED
  BY <1>1, <1>4 DEF LedTo

\* The same when the token is a variable that is solved now.
LEMMA LedSolved ==
  ASSUME index \in Indexes, query \in LeafQueries, NEW i \in 1..Len(query), NEW vs, NEW v \in Paths, LedTo(vs, v, i),
         NEW t \in Paths, IsTerm(t), \A k \in 1..Len(t) : ~IsSpecial(t[k]),
         Fresh(query, i), \A x \in index : Extends(x, v \o t) => Piece(x, query, i) = t,
         query[i].id \notin DOMAIN vs,
         Placed(v \o t, i), Agree(index, query, v \o t, i)
  PROVE  LedTo(Instantiated(vs, query[i].id, t), v \o t, i + 1)
<1>1. VarsAt(vs, v, i) /\ i + 1 - 1 = i /\ i \in Nat /\ vs \in Vars
  BY DEF LedTo, VarsAt
<1>2. PICK y : y = v \o t
  OBVIOUS
<1>3. y \in Paths /\ Extends(y, v)
  BY <1>2, ConcatFacts
<1>4. PICK id : id = query[i].id
  OBVIOUS
<1>5. id \in Nat
  BY <1>4, TokenKinds DEF encoded_token_t
<1>6. PICK ws : ws = Instantiated(vs, id, t)
  OBVIOUS
<1>7. ws \in Vars /\ DOMAIN ws = DOMAIN vs \cup {id} /\ ws[id] = t
      /\ \A k \in DOMAIN vs : k # id => ws[k] = vs[k]
  <2>1. ws \in Vars
    BY <1>1, <1>5, <1>6, VarsIs
  <2> QED
    BY <1>6, <2>1 DEF Instantiated
<1>8. StandsBelow(t, id, y, i + 1)
  <2>1. i \in 1..(i + 1 - 1)
    BY <1>1
  <2> QED
    BY <1>2, <1>4, <2>1 DEF StandsBelow
<1>9. \A k \in DOMAIN vs : StandsBelow(vs[k], k, y, i + 1)
  BY <1>1, <1>3, VarsBelow
<1>10. \A k \in DOMAIN ws : StandsBelow(ws[k], k, y, i + 1)
  BY <1>4, <1>7, <1>8, <1>9
<1>11. ASSUME NEW j \in 1..i, encoded_token_is_var(query[j]) PROVE query[j].id \in DOMAIN ws
  <2>1. j = i \/ j \in 1..(i - 1)
    BY <1>1
  <2> QED
    BY <1>1, <1>4, <1>7, <1>11, <2>1 DEF VarsAt
<1>12. VarsAt(ws, y, i + 1)
  BY <1>1, <1>7, <1>10, <1>11 DEF VarsAt
<1> QED
  BY <1>1, <1>2, <1>4, <1>6, <1>12 DEF LedTo

-----------------------------------------------------------------------------
(***************************************************************************)
(* The calls that a call makes are one level further.                      *)
(***************************************************************************)
\* A constant leads to its child.
LEMMA ConstStep ==
  ASSUME index \in Indexes, query \in LeafQueries, NEW c \in Calls, NEW n \in Nat,
         NEW i \in 1..Len(query), AtQueryToken(c, n, i), ~IsSpecial(query[i]), HasChild(index, c.node, query[i])
  PROVE  AtQueryToken(ProcessCall(Tail(c.toks), Append(c.node, query[i]), c.vs), n + 1, i + 1)
<1>1. LedTo(c.vs, c.node, i) /\ RestOf(c.toks, i) /\ (c.toks # <<>> => n <= 2 * Len(c.node))
  BY DEF AtQueryToken
<1>2. PICK v : v = c.node
  OBVIOUS
<1>3. v \in Paths /\ query[i] \in encoded_token_t /\ Placed(v, i - 1) /\ Agree(index, query, v, i - 1)
  BY <1>1, <1>2, TokenKinds DEF Calls, LedTo
<1>4. PICK y : y = Append(v, query[i])
  OBVIOUS
<1>5. y = v \o <<query[i]>> /\ y \in Paths /\ Len(y) = Len(v) + 1 /\ Extends(y, v) /\ Len(v) \in Nat
  BY <1>3, <1>4, OneMore
<1>6. IsNode(index, y)
  BY <1>2, <1>3, <1>4, ChildOnIndex
<1>7. Placed(y, i)
  <2>1. OpenSlots(y)[Len(y)] = OpenSlots(v)[Len(v)] + query[i].arity - 1
    BY <1>3, <1>5, OpenAppend
  <2>2. Missing(query, i) = Missing(query, i - 1) + query[i].arity - 1
    BY MissingFacts
  <2> QED
    BY <1>3, <1>5, <1>6, <2>1, <2>2 DEF Placed
<1>8. Agree(index, query, y, i)
  BY <1>3, <1>5, ConstAgrees
<1>9. LedTo(c.vs, y, i + 1)
  BY <1>1, <1>2, <1>3, <1>5, <1>7, <1>8, LedOn DEF IsSpecial
<1>10. c.toks # <<>> /\ RestOf(Tail(c.toks), i + 1)
  <2>1. i \in 1..(Len(query) + 1) /\ i # Len(query) + 1
    BY MissingFacts
  <2> QED
    BY <1>1, <2>1, RestIs
<1>11. n + 1 <= 2 * Len(y)
  BY <1>1, <1>2, <1>5, <1>10
<1> QED
  BY <1>2, <1>4, <1>9, <1>10, <1>11 DEF AtQueryToken, ProcessCall

\* A solved variable is replaced by its instantiation.
LEMMA ReplaceStep ==
  ASSUME index \in Indexes, query \in LeafQueries, NEW c \in Calls, NEW n \in Nat,
         NEW i \in 1..Len(query), AtQueryToken(c, n, i), encoded_token_is_var(query[i]),
         query[i].id \in DOMAIN c.vs
  PROVE  Replays(ProcessCall(c.vs[query[i].id] \o Tail(c.toks), c.node, c.vs), n + 1, i,
                 c.node, c.vs[query[i].id], 0)
<1>1. LedTo(c.vs, c.node, i) /\ RestOf(c.toks, i) /\ (c.toks # <<>> => n <= 2 * Len(c.node))
  BY DEF AtQueryToken
<1>2. PICK v : v = c.node
  OBVIOUS
<1>3. v \in Paths /\ Len(v) \in Nat /\ Placed(v, i - 1)
  BY <1>1, <1>2, LenProperties DEF Calls, LedTo, Paths
<1>4. PICK w : w = c.vs[query[i].id]
  OBVIOUS
<1>5. w \in Paths /\ IsTerm(w)
  BY <1>1, <1>4 DEF LedTo, VarsAt, StandsBelow
<1>6. Len(w) \in Nat /\ 0 < Len(w)
  <2>1. Len(w) \in Nat /\ Len(w) # 0
    BY <1>5, OpenSlotsDef, LenProperties DEF IsTerm, Paths
  <2> QED
    BY <2>1
<1>7. c.toks # <<>> /\ RestOf(Tail(c.toks), i + 1)
  <2>1. i \in 1..(Len(query) + 1) /\ i # Len(query) + 1
    BY MissingFacts
  <2> QED
    BY <1>1, <2>1, RestIs
<1>8. PICK r : r = Tail(c.toks)
  OBVIOUS
<1>9. r \in Paths /\ Len(r) = Len(query) - i /\ Len(query) \in Nat /\ \A k \in 1..Len(r) : r[k] = query[i + k]
  <2>1. Len(query) \in Nat
    BY MissingFacts
  <2>2. r \in Paths /\ Len(r) = Len(query) - (i + 1) + 1 /\ \A k \in 1..Len(r) : r[k] = query[i + 1 + k - 1]
    BY <1>7, <1>8 DEF RestOf
  <2>3. ASSUME NEW k \in 1..Len(r) PROVE i + 1 + k - 1 = i + k
    BY <2>1, <2>2
  <2> QED
    BY <2>1, <2>2, <2>3
<1>10. PICK t : t = w \o r
  OBVIOUS
<1>11. t \in Paths /\ Len(t) = Len(w) + Len(r) /\ (\A k \in 1..Len(w) : t[k] = w[k])
       /\ (\A k \in 1..Len(r) : t[Len(w) + k] = r[k])
  BY <1>5, <1>9, <1>10, ConcatFacts
<1>12. /\ Len(t) = Len(w) - 0 + Len(query) - i
       /\ \A k \in 1..(Len(w) - 0) : t[k] = w[0 + k]
       /\ \A k \in 1..(Len(query) - i) : t[Len(w) - 0 + k] = query[i + k]
  <2>1. Len(w) - 0 = Len(w) /\ Len(t) = Len(w) - 0 + Len(query) - i
    BY <1>6, <1>9, <1>11
  <2>2. ASSUME NEW k \in 1..Len(w) PROVE t[k] = w[0 + k]
    BY <1>6, <1>11
  <2>3. ASSUME NEW k \in 1..(Len(query) - i) PROVE t[Len(w) + k] = query[i + k]
    BY <1>9, <1>11
  <2> QED
    BY <2>1, <2>2, <2>3
<1>13. OnIndex(v) /\ Len(v) = Len(v) + 0 /\ Extends(v, v) /\ Reads(v, Len(v), w, 0)
  BY <1>3, <1>6, ExtendsReflexive DEF OnIndex, Placed, Reads
<1>14. n + 1 <= 2 * Len(v) + 1
  BY <1>1, <1>2, <1>3, <1>7
<1> QED
  BY <1>1, <1>2, <1>4, <1>6, <1>8, <1>10, <1>11, <1>12, <1>13, <1>14 DEF Replays, ProcessCall

\* An unsolved variable begins to be matched.
LEMMA BeginStep ==
  ASSUME index \in Indexes, query \in LeafQueries, NEW c \in Calls, NEW n \in Nat,
         NEW i \in 1..Len(query), AtQueryToken(c, n, i), encoded_token_is_var(query[i]),
         query[i].id \notin DOMAIN c.vs
  PROVE  Matches(MatchCall(Tail(c.toks), c.node, c.vs, query[i].id, <<>>, 1), n + 1, i, c.node)
<1>1. LedTo(c.vs, c.node, i) /\ RestOf(c.toks, i) /\ (c.toks # <<>> => n <= 2 * Len(c.node))
  BY DEF AtQueryToken
<1>2. PICK v : v = c.node
  OBVIOUS
<1>3. v \in Paths /\ Len(v) \in Nat /\ Placed(v, i - 1)
  BY <1>1, <1>2, LenProperties DEF Calls, LedTo, Paths
<1>4. c.toks # <<>> /\ RestOf(Tail(c.toks), i + 1)
  <2>1. i \in 1..(Len(query) + 1) /\ i # Len(query) + 1
    BY MissingFacts
  <2> QED
    BY <1>1, <2>1, RestIs
<1>5. n + 1 <= 2 * Len(v) + 1
  BY <1>1, <1>2, <1>3, <1>4
<1>6. <<>> \in Paths /\ v = v \o <<>> /\ Len(<<>>) = 0
  BY <1>3, ConcatEmptySeq DEF Paths
<1>7. OpenSlots(<<>>)[0] = 1
  BY RootFacts DEF RootNode
<1>8. 1 = OpenSlots(<<>>)[Len(<<>>)] /\ \A k \in 0..Len(<<>>) : OpenSlots(<<>>)[k] > 0
  <2>1. \A k \in 0..0 : k = 0
    OBVIOUS
  <2> QED
    BY <1>6, <1>7, <2>1
<1>9. OnIndex(v)
  BY <1>3 DEF OnIndex, Placed
<1>10. PICK t : /\ t = <<>> /\ t \in Paths /\ v = v \o t /\ 1 = OpenSlots(t)[Len(t)]
                /\ \A k \in 0..Len(t) : OpenSlots(t)[k] > 0
  BY <1>6, <1>8
<1>11. PICK d : d = MatchCall(Tail(c.toks), v, c.vs, query[i].id, t, 1)
  OBVIOUS
<1>12. /\ d.toks = Tail(c.toks) /\ d.node = v /\ d.vs = c.vs /\ d.id = query[i].id
       /\ d.tokens = t /\ d.open = 1
  BY <1>11 DEF MatchCall
<1>13. Matches(d, n + 1, i, v)
  BY <1>1, <1>2, <1>4, <1>5, <1>9, <1>10, <1>12 DEF Matches
<1> QED
  BY <1>2, <1>10, <1>11, <1>13

\* What is replayed: an instantiation without specials.
LEMMA ReplayTop ==
  ASSUME query \in LeafQueries, NEW c \in Calls, NEW n \in Nat, NEW i \in 1..Len(query),
         NEW v \in Paths, NEW w \in Paths, NEW m \in Nat, Replays(c, n, i, v, w, m)
  PROVE  /\ Len(w) \in Nat /\ Len(v) \in Nat /\ Len(query) \in Nat /\ IsTerm(w)
         /\ c.toks # <<>> /\ Head(c.toks) = w[m + 1] /\ ~IsSpecial(w[m + 1]) /\ w[m + 1] \in encoded_token_t
         /\ \E j \in 1..(i - 1) : /\ Fresh(query, j) /\ query[j].id = query[i].id
                                  /\ \A x \in index : Extends(x, v) => Piece(x, query, j) = w
<1>1. Len(w) \in Nat /\ Len(v) \in Nat /\ Len(query) \in Nat
  BY MissingFacts, LenProperties DEF Paths
<1>2. /\ StandsBelow(w, query[i].id, v, i) /\ m < Len(w) /\ c.toks \in Paths
      /\ Len(c.toks) = Len(w) - m + Len(query) - i /\ \A k \in 1..(Len(w) - m) : c.toks[k] = w[m + k]
  BY DEF Replays, LedTo, VarsAt
<1>3. m + 1 \in 1..Len(w) /\ 1 \in 1..(Len(w) - m)
  BY <1>1, <1>2
<1>4. c.toks # <<>>
  <2>1. Len(c.toks) # 0
    BY <1>1, <1>2
  <2> QED
    BY <2>1
<1>5. Head(c.toks) = w[m + 1]
  BY <1>2, <1>3, <1>4, TopOf
<1>6. w[m + 1] \in encoded_token_t
  BY <1>3, PathFacts DEF Paths
<1> QED
  BY <1>1, <1>2, <1>3, <1>4, <1>5, <1>6 DEF StandsBelow

\* The next token of the instantiation leads to its child; after the last one
\* the token of the query is done.
LEMMA ReplayStep ==
  ASSUME index \in Indexes, query \in LeafQueries, NEW c \in Calls, NEW n \in Nat, NEW i \in 1..Len(query),
         NEW v \in Paths, NEW w \in Paths, NEW m \in Nat, Replays(c, n, i, v, w, m),
         HasChild(index, c.node, w[m + 1]),
         NEW d, d = ProcessCall(Tail(c.toks), Append(c.node, w[m + 1]), c.vs)
  PROVE  Replays(d, n + 1, i, v, w, m + 1) \/ AtQueryToken(d, n + 1, i + 1)
<1>1. /\ Len(w) \in Nat /\ Len(v) \in Nat /\ Len(query) \in Nat /\ IsTerm(w)
      /\ c.toks # <<>> /\ w[m + 1] \in encoded_token_t
  BY ReplayTop
<1>2. PICK j \in 1..(i - 1) : /\ Fresh(query, j) /\ query[j].id = query[i].id
                              /\ \A x \in index : Extends(x, v) => Piece(x, query, j) = w
  BY ReplayTop
<1>3. /\ LedTo(c.vs, v, i) /\ c.open = 0 /\ encoded_token_is_var(query[i])
      /\ query[i].id \in DOMAIN c.vs /\ w = c.vs[query[i].id] /\ m < Len(w)
      /\ OnIndex(c.node) /\ Len(c.node) = Len(v) + m /\ Extends(c.node, v) /\ Reads(c.node, Len(v), w, m)
      /\ c.toks \in Paths /\ Len(c.toks) = Len(w) - m + Len(query) - i
      /\ n <= 2 * Len(c.node) + 1
  BY DEF Replays
<1>4. \A k \in 1..(Len(w) - m) : c.toks[k] = w[m + k]
  BY DEF Replays
<1>5. \A k \in 1..(Len(query) - i) : c.toks[Len(w) - m + k] = query[i + k]
  BY DEF Replays
<1>6. d.toks = Tail(c.toks) /\ d.node = Append(c.node, w[m + 1]) /\ d.vs = c.vs /\ d.open = 0
  BY DEF ProcessCall
<1>7. PICK u : u = c.node
  OBVIOUS
<1>8. u \in Paths /\ Len(u) \in Nat /\ Len(u) = Len(v) + m
  BY <1>1, <1>3, <1>7 DEF Calls
<1>9. PICK y : y = Append(u, w[m + 1])
  OBVIOUS
<1>10. /\ y \in Paths /\ Len(y) = Len(v) + m + 1 /\ Extends(y, u)
       /\ \A k \in 1..Len(u) : y[k] = u[k]
       /\ y[Len(u) + 1] = w[m + 1]
  <2>1. /\ y \in Paths /\ Len(y) = Len(u) + 1 /\ Extends(y, u)
        /\ \A k \in 1..Len(u) : y[k] = u[k]
        /\ y[Len(u) + 1] = w[m + 1]
    BY <1>1, <1>8, <1>9, OneMore
  <2>2. Len(u) + 1 = Len(v) + m + 1
    BY <1>8
  <2> QED
    BY <2>1, <2>2
<1>18. PICK W \in Nat, V \in Nat, Q \in Nat, U \in Nat :
         W = Len(w) /\ V = Len(v) /\ Q = Len(query) /\ U = Len(u)
  BY <1>1, <1>8
<1>21. U = V + m /\ Len(y) = U + 1 /\ m < W /\ n <= 2 * U + 1
  <2>1. U = V + m /\ m < W
    BY <1>3, <1>8, <1>18
  <2>2. Len(y) = V + m + 1 /\ n <= 2 * U + 1
    BY <1>3, <1>7, <1>10, <1>18
  <2> QED
    BY <2>1, <2>2
<1>11. OnIndex(y) /\ IsNode(index, y) /\ Extends(y, v)
  BY <1>1, <1>3, <1>7, <1>8, <1>9, <1>10, ChildOnIndex, ExtendsTransitive
<1>12. Reads(y, Len(v), w, m + 1)
  <2>1. ASSUME NEW k \in 1..(m + 1) PROVE y[Len(v) + k] = w[k]
    <3>1. CASE k = m + 1
      BY <1>8, <1>10, <3>1
    <3>2. CASE k # m + 1
      <4>1. k \in 1..m /\ Len(v) + k \in 1..Len(u)
        BY <1>1, <1>8, <3>2
      <4> QED
        BY <1>3, <1>7, <1>10, <4>1 DEF Reads
    <3> QED
      BY <3>1, <3>2
  <2>2. Len(v) + (m + 1) <= Len(y) /\ m + 1 <= Len(w)
    BY <1>18, <1>21
  <2> QED
    BY <2>1, <2>2 DEF Reads
<1>13. n + 1 <= 2 * Len(y)
  BY <1>21
<1>14. PICK t : t = Tail(c.toks)
  OBVIOUS
<1>15. t \in Paths /\ Len(t) = Len(w) - m - 1 + Len(query) - i
       /\ \A k \in 1..Len(t) : k + 1 \in 1..Len(c.toks) /\ t[k] = c.toks[k + 1]
  <2>1. t \in Paths /\ Len(t) = Len(c.toks) - 1 /\ \A k \in 1..(Len(c.toks) - 1) : t[k] = c.toks[k + 1]
    BY <1>1, <1>3, <1>14, TopOf
  <2>2. Len(t) = Len(w) - m - 1 + Len(query) - i /\ Len(c.toks) \in Nat
    BY <1>1, <1>3, <2>1
  <2>3. ASSUME NEW k \in 1..Len(t) PROVE k + 1 \in 1..Len(c.toks) /\ t[k] = c.toks[k + 1]
    <3>0. PICK L \in Nat : L = Len(c.toks) /\ Len(t) = L - 1
      BY <2>1, <2>2
    <3>1. k \in 1..(Len(c.toks) - 1) /\ k + 1 \in 1..Len(c.toks)
      BY <3>0
    <3> QED
      BY <2>1, <3>1
  <2> QED
    BY <2>1, <2>2, <2>3
<1>19. /\ Len(t) = W - m - 1 + Q - i /\ Len(y) = V + m + 1 /\ n + 1 <= 2 * Len(y)
       /\ m < W /\ i \in 1..Q
  BY <1>3, <1>10, <1>13, <1>15, <1>18
<1>20. Len(t) \in Nat /\ Len(y) \in Nat
  BY <1>19
<1>16. CASE m + 1 < Len(w)
  <2>1. Len(t) = Len(w) - (m + 1) + Len(query) - i
    BY <1>1, <1>15
  <2>2. ASSUME NEW k \in 1..(Len(w) - (m + 1)) PROVE t[k] = w[m + 1 + k]
    <3>1. k \in 1..Len(t) /\ k + 1 \in 1..(Len(w) - m) /\ m + (k + 1) = m + 1 + k
      BY <1>1, <1>15
    <3>2. t[k] = c.toks[k + 1]
      BY <1>15, <3>1
    <3>3. c.toks[k + 1] = w[m + (k + 1)]
      BY <1>4, <3>1
    <3> QED
      BY <3>1, <3>2, <3>3
  <2>3. ASSUME NEW k \in 1..(Len(query) - i) PROVE t[Len(w) - (m + 1) + k] = query[i + k]
    <3>1. PICK a : a = Len(w) - (m + 1) + k
      OBVIOUS
    <3>2. a \in 1..Len(t) /\ a + 1 = Len(w) - m + k
      <4>1. a = W - (m + 1) + k /\ k \in 1..(Q - i)
        BY <1>18, <3>1
      <4>0. PICK T \in Nat : T = Len(t) /\ T = W - m - 1 + Q - i /\ m + 1 < W
        BY <1>16, <1>18, <1>19, <1>20
      <4>3. a \in 1..T /\ a + 1 = W - m + k
        BY <4>0, <4>1
      <4>2. a \in 1..Len(t) /\ a + 1 = W - m + k
        BY <4>0, <4>3
      <4> QED
        BY <1>18, <4>2
    <3> QED
      BY <1>5, <1>15, <3>1, <3>2
  <2>4. n + 1 <= 2 * Len(y) + 1 /\ Len(y) = Len(v) + (m + 1) /\ m + 1 \in Nat
    BY <1>18, <1>19, <1>20
  <2>5. Replays(d, n + 1, i, v, w, m + 1)
    BY <1>3, <1>6, <1>7, <1>9, <1>11, <1>12, <1>14, <1>15, <1>16, <2>1, <2>2, <2>3, <2>4 DEF Replays
  <2> QED
    BY <2>5
<1>17. CASE m + 1 = Len(w)
  <2>1. y = v \o w
    <3>1. PICK z : z = v \o w
      OBVIOUS
    <3>2. z \in Paths /\ Len(z) = Len(v) + Len(w) /\ Extends(y, z)
      BY <1>10, <1>11, <1>12, <1>17, <3>1, ConcatFacts, ExtendsConcat
    <3>3. Len(y) = Len(z) /\ \A k \in 1..Len(z) : y[k] = z[k]
      <4>1. Len(y) = Len(z) /\ Len(z) \in Nat
        <5>1. m + 1 = W /\ Len(z) = V + W /\ Len(y) = V + m + 1
          BY <1>17, <1>18, <1>19, <3>2
        <5> QED
          BY <5>1
      <4> QED
        BY <3>2, <4>1 DEF Extends
    <3> QED
      BY <1>10, <3>1, <3>2, <3>3, SeqEqual DEF Paths
  <2>2. Placed(v, i - 1) /\ Agree(index, query, v, i - 1)
    BY <1>3 DEF LedTo
  <2>3. Placed(y, i)
    BY <1>1, <1>3, <1>11, <2>1, <2>2, TermPlaced DEF IsSpecial
  <2>4. Agree(index, query, y, i)
    BY <1>1, <1>2, <1>3, <2>1, <2>2, ReplayAgrees
  <2>5. LedTo(c.vs, y, i + 1)
    BY <1>3, <1>10, <1>11, <2>3, <2>4, LedOn
  <2>6. RestOf(t, i + 1)
    <3>1. Len(t) = Len(query) - (i + 1) + 1
      <4>1. m + 1 = W /\ Len(t) = W - m - 1 + Q - i
        BY <1>17, <1>18, <1>19
      <4>2. Len(t) = Q - (i + 1) + 1
        BY <4>1
      <4> QED
        BY <1>18, <4>2
    <3>2. ASSUME NEW k \in 1..Len(t) PROVE t[k] = query[i + 1 + k - 1]
      <4>1. k \in 1..(Len(query) - i) /\ Len(w) - m + k = k + 1 /\ i + 1 + k - 1 = i + k
        <5>0. Len(t) = Q - i /\ W - m = 1
          <6>1. PICK T \in Nat : T = Len(t) /\ T = W - m - 1 + Q - i
            BY <1>19, <1>20
          <6>2. m + 1 = W
            BY <1>17, <1>18
          <6>3. T = Q - i /\ W - m = 1
            BY <6>1, <6>2
          <6> QED
            BY <6>1, <6>3
        <5>1. k \in 1..(Q - i) /\ W - m + k = k + 1 /\ i + 1 + k - 1 = i + k
          BY <5>0
        <5> QED
          BY <1>18, <5>1
      <4>2. c.toks[Len(w) - m + k] = query[i + k]
        BY <1>5, <4>1
      <4> QED
        BY <1>15, <4>1, <4>2
    <3> QED
      BY <1>15, <3>1, <3>2 DEF RestOf
  <2>7. AtQueryToken(d, n + 1, i + 1)
    BY <1>6, <1>7, <1>9, <1>13, <1>14, <2>5, <2>6 DEF AtQueryToken
  <2> QED
    BY <2>7
<1> QED
  BY <1>1, <1>3, <1>16, <1>17

\* The instantiation of an unsolved variable, with one more token.
LEMMA MatchedOn ==
  ASSUME NEW v \in Paths, NEW s \in Paths, NEW e \in encoded_token_t, NEW t, t = Append(s, e)
  PROVE  t \in Paths /\ Append(v \o s, e) = v \o t
<1>1. t = s \o <<e>> /\ t \in Paths
  BY OneMore
<1>2. v \o s \in Paths
  BY ConcatFacts
<1>3. Append(v \o s, e) = (v \o s) \o <<e>>
  BY <1>2, OneMore
<1>4. (v \o s) \o <<e>> = v \o (s \o <<e>>)
  BY ConcatAssociative DEF Paths
<1> QED
  BY <1>1, <1>3, <1>4

\* A variable that is not solved is fresh.
LEMMA UnsolvedIsFresh ==
  ASSUME query \in LeafQueries, NEW i \in 1..Len(query), encoded_token_is_var(query[i]),
         NEW vs, NEW v, VarsAt(vs, v, i), query[i].id \notin DOMAIN vs
  PROVE  Fresh(query, i)
<1>1. ASSUME NEW j \in 1..(i - 1), query[j].id = query[i].id PROVE FALSE
  <2>1. encoded_token_is_var(query[j])
    BY <1>1 DEF encoded_token_is_var
  <2> QED
    BY <1>1, <2>1 DEF VarsAt
<1> QED
  BY <1>1 DEF Fresh, IsSpecial

\* A child of the node goes on with the instantiation; when this is complete the
\* variable is solved and the token of the query is done.
LEMMA MatchStep ==
  ASSUME index \in Indexes, query \in LeafQueries, NEW c \in Calls, NEW n \in Nat, NEW i \in 1..Len(query),
         NEW v \in Paths, Matches(c, n, i, v), NEW e \in encoded_token_t, HasChild(index, c.node, e),
         NEW d, d = MatchCall(c.toks, Append(c.node, e), c.vs, c.id, Append(c.tokens, e), c.open + e.arity - 1)
  PROVE  Matches(d, n + 1, i, v) \/ AtQueryToken(d, n + 1, i + 1)
<1>1. /\ LedTo(c.vs, v, i) /\ encoded_token_is_var(query[i])
      /\ c.id = query[i].id /\ c.id \notin DOMAIN c.vs /\ RestOf(c.toks, i + 1)
      /\ OnIndex(c.node) /\ c.node = v \o c.tokens
      /\ c.open = OpenSlots(c.tokens)[Len(c.tokens)] /\ \A k \in 0..Len(c.tokens) : OpenSlots(c.tokens)[k] > 0
      /\ n <= 2 * Len(c.node) + 1
  BY DEF Matches
<1>2. PICK s : s = c.tokens
  OBVIOUS
<1>3. PICK t : t = Append(s, e)
  OBVIOUS
<1>4. PICK y : y = Append(c.node, e)
  OBVIOUS
<1>5. s \in Paths /\ c.node \in Paths /\ e.arity \in Nat
  BY <1>2 DEF Calls, encoded_token_t
<1>6. t \in Paths /\ y = v \o t /\ Len(s) \in Nat /\ Len(t) = Len(s) + 1
      /\ OpenSlots(t)[Len(s) + 1] = OpenSlots(s)[Len(s)] + e.arity - 1
      /\ \A k \in 0..Len(s) : OpenSlots(t)[k] = OpenSlots(s)[k]
  <2>1. y = Append(v \o s, e)
    BY <1>1, <1>2, <1>4
  <2>2. /\ t \in Paths /\ Append(v \o s, e) = v \o t
        /\ Len(s) \in Nat /\ Len(t) = Len(s) + 1
        /\ OpenSlots(t)[Len(s) + 1] = OpenSlots(s)[Len(s)] + e.arity - 1
        /\ \A k \in 0..Len(s) : OpenSlots(t)[k] = OpenSlots(s)[k]
    <3>1. /\ v \in Paths /\ s \in Paths /\ e \in encoded_token_t /\ t = Append(s, e)
      BY <1>3, <1>5
    <3>2. t \in Paths /\ Append(v \o s, e) = v \o t
      BY <3>1, MatchedOn
    <3>3. t = s \o <<e>> /\ Len(s) \in Nat /\ Len(t) = Len(s) + 1 /\ Extends(t, s)
      BY <3>1, OneMore
    <3>4. OpenSlots(t)[Len(s) + 1] = OpenSlots(s)[Len(s)] + e.arity - 1
      <4>1. OpenSlots(t)[Len(t)] = OpenSlots(s)[Len(s)] + e.arity - 1
        BY <3>1, <3>3, OpenAppend
      <4> QED
        BY <3>3, <4>1
    <3>5. \A k \in 0..Len(s) : OpenSlots(t)[k] = OpenSlots(s)[k]
      BY <3>1, <3>2, <3>3, OpenPrefix DEF Paths
    <3> QED
      BY <3>2, <3>3, <3>4, <3>5
  <2> QED
    BY <2>1, <2>2
<1>7. /\ y \in Paths /\ OnIndex(y) /\ IsNode(index, y) /\ Len(y) = Len(c.node) + 1
      /\ Len(c.node) \in Nat
  BY <1>4, <1>5, OneMore, ChildOnIndex
<1>8. n + 1 <= 2 * Len(y)
  BY <1>1, <1>7
<1>9. PICK o : o = c.open + e.arity - 1
  OBVIOUS
<1>10. o \in Nat /\ o = OpenSlots(t)[Len(t)] /\ \A k \in 0..Len(s) : OpenSlots(t)[k] > 0
  <2>1. \A k \in 0..Len(s) : OpenSlots(t)[k] > 0
    BY <1>1, <1>2, <1>6
  <2>2. c.open \in Nat /\ c.open > 0
    <3>1. Len(s) \in 0..Len(s)
      BY <1>6
    <3>2. c.open > 0
      BY <1>1, <1>2, <3>1
    <3> QED
      BY <3>2 DEF Calls
  <2>3. o = OpenSlots(t)[Len(t)]
    BY <1>1, <1>2, <1>6, <1>9
  <2> QED
    BY <1>5, <1>9, <2>1, <2>2, <2>3
<1>11. d = MatchCall(c.toks, y, c.vs, c.id, t, o)
  BY <1>2, <1>3, <1>4, <1>9
<1>12. CASE o > 0
  <2>1. /\ d.toks = c.toks /\ d.node = y /\ d.vs = c.vs /\ d.id = c.id
        /\ d.tokens = t /\ d.open = o
    BY <1>11, <1>12 DEF MatchCall
  <2>2. \A k \in 0..Len(t) : OpenSlots(t)[k] > 0
    <3>1. ASSUME NEW k \in 0..Len(t) PROVE k \in 0..Len(s) \/ k = Len(t)
      BY <1>6
    <3> QED
      BY <1>10, <1>12, <3>1
  <2>3. n + 1 <= 2 * Len(y) + 1
    BY <1>7, <1>8
  <2>4. Matches(d, n + 1, i, v)
    BY <1>1, <1>6, <1>7, <1>10, <2>1, <2>2, <2>3 DEF Matches
  <2> QED
    BY <2>4
<1>13. CASE o = 0
  <2>1. /\ d.toks = c.toks /\ d.node = y /\ d.vs = Instantiated(c.vs, c.id, t) /\ d.open = 0
    BY <1>11, <1>13 DEF MatchCall, ProcessCall
  <2>2. IsTerm(t)
    <3>1. Len(t) - 1 = Len(s)
      BY <1>6
    <3> QED
      BY <1>10, <1>13, <3>1 DEF IsTerm
  <2>3. VarsAt(c.vs, v, i) /\ Placed(v, i - 1) /\ Agree(index, query, v, i - 1)
    BY <1>1 DEF LedTo
  <2>4. Fresh(query, i) /\ IsSpecial(query[i])
    BY <1>1, <2>3, UnsolvedIsFresh DEF IsSpecial
  <2>5. \A k \in 1..Len(t) : ~IsSpecial(t[k])
    <3> SUFFICES ASSUME NEW k \in 1..Len(t) PROVE ~IsSpecial(t[k])
      OBVIOUS
    <3>1. Len(v) \in Nat /\ Len(t) \in Nat /\ Len(y) = Len(v) + Len(t) /\ y[Len(v) + k] = t[k]
      BY <1>6, ConcatFacts, LenProperties DEF Paths
    <3>2. Len(v) + k \in 1..Len(y)
      BY <3>1
    <3> QED
      BY <1>7, <3>1, <3>2, NoSpecialChild
  <2>6. MayStand(query[i], t)
    BY <1>1, <1>6, <2>2 DEF MayStand
  <2>7. \A x \in index : Extends(x, v \o t) => Piece(x, query, i) = t
    BY <2>3, <2>6, PieceThere
  <2>8. Placed(v \o t, i)
    BY <1>6, <1>7, <2>2, <2>3, <2>4, TermPlaced
  <2>9. t \in Solutions(query[i], v)
    <3>1. TermsFrom(index, v) = { u \in Paths : IsTerm(u) /\ IsNode(index, v \o u) }
      BY IndexFacts, TermsFromFacts
    <3> QED
      BY <1>1, <1>6, <1>7, <2>2, <3>1 DEF Solutions
  <2>10. Agree(index, query, v \o t, i)
    BY <2>3, <2>4, <2>9, SolutionAgrees
  <2>11. query[i].id \notin DOMAIN c.vs
    BY <1>1
  <2>12. LedTo(Instantiated(c.vs, query[i].id, t), v \o t, i + 1)
    BY <1>1, <1>6, <2>2, <2>4, <2>5, <2>7, <2>8, <2>10, <2>11, LedSolved
  <2>13. AtQueryToken(d, n + 1, i + 1)
    BY <1>1, <1>6, <1>8, <2>1, <2>12 DEF AtQueryToken
  <2> QED
    BY <2>13
<1> QED
  BY <1>10, <1>12, <1>13

\* The calls of process_query_token by the token on top of the stack.
LEMMA CallsAre ==
  ASSUME NEW c \in Calls, c.open = 0
  PROVE  /\ c.toks = <<>> => CallsOf(c) = <<c>>
         /\ c.toks # <<>> =>
              LET token == Head(c.toks)
              IN  /\ encoded_token_is_var(token) /\ token.id \in DOMAIN c.vs =>
                       CallsOf(c) = <<ProcessCall(c.vs[token.id] \o Tail(c.toks), c.node, c.vs)>>
                  /\ encoded_token_is_var(token) /\ token.id \notin DOMAIN c.vs =>
                       CallsOf(c) = <<MatchCall(Tail(c.toks), c.node, c.vs, token.id, <<>>, 1)>>
                  /\ ~encoded_token_is_var(token) =>
                       CallsOf(c) = IF HasChild(index, c.node, token)
                                      THEN <<ProcessCall(Tail(c.toks), Append(c.node, token), c.vs)>> ELSE <<>>
<1>1. c.toks = <<>> => CallsOf(c) = <<c>>
  BY DEF CallsOf, Reports
<1>2. c.toks # <<>> => CallsOf(c) = process_query_token(c)
  BY DEF CallsOf, Reports
<1> QED
  BY <1>1, <1>2 DEF process_query_token, IsSolved

\* Every call made is one level further.
MadeAt(c, n) == \A j \in 1..Len(CallsOf(c)) : SomewhereAt(CallsOf(c)[j], n)

\* A call made alone, and none.
LEMMA OneMade ==
  ASSUME NEW c, NEW n
  PROVE  /\ \A d : CallsOf(c) = <<d>> /\ SomewhereAt(d, n) => MadeAt(c, n)
         /\ CallsOf(c) = <<>> => MadeAt(c, n)
<1>1. ASSUME NEW d, CallsOf(c) = <<d>>, SomewhereAt(d, n) PROVE MadeAt(c, n)
  <2>1. Len(<<d>>) = 1 /\ <<d>>[1] = d
    OBVIOUS
  <2>2. \A j \in 1..1 : j = 1
    OBVIOUS
  <2> QED
    BY <1>1, <2>1, <2>2 DEF MadeAt
<1>2. ASSUME CallsOf(c) = <<>> PROVE MadeAt(c, n)
  <2>1. Len(<<>>) = 0 /\ 1..0 = {}
    OBVIOUS
  <2> QED
    BY <1>2, <2>1 DEF MadeAt
<1> QED
  BY <1>1, <1>2

\* From a call at a token of the query.
LEMMA FromQueryToken ==
  ASSUME index \in Indexes, query \in LeafQueries, NEW c \in Calls, NEW n \in Nat,
         NEW i \in 1..(Len(query) + 1), AtQueryToken(c, n, i)
  PROVE  MadeAt(c, n + 1)
<1>1. c.open = 0 /\ RestOf(c.toks, i)
  BY DEF AtQueryToken
<1>2. CASE c.toks = <<>>
  <2>1. AtQueryToken(c, n + 1, i)
    BY <1>2 DEF AtQueryToken
  <2>2. CallsOf(c) = <<c>> /\ SomewhereAt(c, n + 1)
    BY <1>1, <1>2, <2>1, CallsAre DEF SomewhereAt
  <2> QED
    BY <2>2, OneMade
<1>3. CASE c.toks # <<>>
  <2>1. i \in 1..Len(query) /\ i + 1 \in 1..(Len(query) + 1) /\ Head(c.toks) = query[i]
        /\ query[i] \in encoded_token_t /\ c.node \in Paths /\ c.vs \in Vars
    <3>1. i \in 1..Len(query) /\ Len(query) \in Nat
      BY <1>1, <1>3, RestIs, MissingFacts
    <3>2. i + 1 \in 1..(Len(query) + 1)
      BY <3>1
    <3> QED
      BY <1>1, <1>3, <3>1, <3>2, RestIs DEF Calls
  <2>2. CASE encoded_token_is_var(query[i]) /\ query[i].id \in DOMAIN c.vs
    <3>1. PICK d : d = ProcessCall(c.vs[query[i].id] \o Tail(c.toks), c.node, c.vs)
      OBVIOUS
    <3>2. CallsOf(c) = <<d>>
      BY <1>1, <1>3, <2>1, <2>2, <3>1, CallsAre
    <3>3. PICK w : w = c.vs[query[i].id]
      OBVIOUS
    <3>4. Replays(d, n + 1, i, c.node, w, 0) /\ w \in Paths
      BY <2>1, <2>2, <3>1, <3>3, ReplaceStep, VarsIs
    <3>5. SomewhereAt(d, n + 1)
      BY <2>1, <3>4 DEF SomewhereAt
    <3> QED
      BY <3>2, <3>5, OneMade
  <2>3. CASE encoded_token_is_var(query[i]) /\ query[i].id \notin DOMAIN c.vs
    <3>1. PICK d : d = MatchCall(Tail(c.toks), c.node, c.vs, query[i].id, <<>>, 1)
      OBVIOUS
    <3>2. CallsOf(c) = <<d>>
      BY <1>1, <1>3, <2>1, <2>3, <3>1, CallsAre
    <3>3. Matches(d, n + 1, i, c.node)
      BY <2>1, <2>3, <3>1, BeginStep
    <3>4. SomewhereAt(d, n + 1)
      BY <2>1, <3>3 DEF SomewhereAt
    <3> QED
      BY <3>2, <3>4, OneMade
  <2>4. CASE ~encoded_token_is_var(query[i]) /\ ~HasChild(index, c.node, query[i])
    <3>1. CallsOf(c) = <<>>
      BY <1>1, <1>3, <2>1, <2>4, CallsAre
    <3> QED
      BY <3>1, OneMade
  <2>5. CASE ~encoded_token_is_var(query[i]) /\ HasChild(index, c.node, query[i])
    <3>1. PICK d : d = ProcessCall(Tail(c.toks), Append(c.node, query[i]), c.vs)
      OBVIOUS
    <3>2. CallsOf(c) = <<d>>
      BY <1>1, <1>3, <2>1, <2>5, <3>1, CallsAre
    <3>3. ~IsSpecial(query[i])
      BY <2>1, <2>5, NoSpecialChild
    <3>4. AtQueryToken(d, n + 1, i + 1)
      BY <2>1, <2>5, <3>1, <3>3, ConstStep
    <3>5. SomewhereAt(d, n + 1)
      BY <2>1, <3>4 DEF SomewhereAt
    <3> QED
      BY <3>2, <3>5, OneMade
  <2> QED
    BY <2>2, <2>3, <2>4, <2>5
<1> QED
  BY <1>2, <1>3

\* From a call that replays a solved variable.
LEMMA FromReplay ==
  ASSUME index \in Indexes, query \in LeafQueries, NEW c \in Calls, NEW n \in Nat, NEW i \in 1..Len(query),
         NEW v \in Paths, NEW w \in Paths, NEW m \in Nat, Replays(c, n, i, v, w, m)
  PROVE  MadeAt(c, n + 1)
<1>1. c.toks # <<>> /\ Head(c.toks) = w[m + 1] /\ ~IsSpecial(w[m + 1]) /\ c.open = 0
      /\ i + 1 \in 1..(Len(query) + 1) /\ m + 1 \in Nat
  <2>1. Len(query) \in Nat
    BY MissingFacts
  <2>2. i + 1 \in 1..(Len(query) + 1)
    BY <2>1
  <2>3. c.open = 0 /\ m + 1 \in Nat
    <3>1. c.open = 0
      BY Zenon DEF Replays
    <3> QED
      BY <3>1
  <2>4. c.toks # <<>> /\ Head(c.toks) = w[m + 1] /\ ~IsSpecial(w[m + 1])
    BY ReplayTop
  <2> QED
    BY <2>2, <2>3, <2>4
<1>2. CASE ~HasChild(index, c.node, w[m + 1])
  <2>1. CallsOf(c) = <<>>
    BY <1>1, <1>2, CallsAre DEF IsSpecial
  <2> QED
    BY <2>1, OneMade
<1>3. CASE HasChild(index, c.node, w[m + 1])
  <2>1. PICK d : d = ProcessCall(Tail(c.toks), Append(c.node, w[m + 1]), c.vs)
    OBVIOUS
  <2>2. CallsOf(c) = <<d>>
    BY <1>1, <1>3, <2>1, CallsAre DEF IsSpecial
  <2>3. Replays(d, n + 1, i, v, w, m + 1) \/ AtQueryToken(d, n + 1, i + 1)
    BY <1>3, <2>1, ReplayStep
  <2>4. SomewhereAt(d, n + 1)
    BY <1>1, <2>3 DEF SomewhereAt
  <2> QED
    BY <2>2, <2>4, OneMade
<1> QED
  BY <1>2, <1>3

\* From a call that matches a variable.
LEMMA FromMatch ==
  ASSUME index \in Indexes, query \in LeafQueries, NEW c \in Calls, NEW n \in Nat, NEW i \in 1..Len(query),
         NEW v \in Paths, Matches(c, n, i, v)
  PROVE  MadeAt(c, n + 1)
<1>1. c.open > 0 /\ c.node \in Paths /\ i + 1 \in 1..(Len(query) + 1)
  <2>1. Len(c.tokens) \in 0..Len(c.tokens)
    BY LenProperties DEF Calls, Paths
  <2>2. c.open > 0
    BY <2>1 DEF Matches
  <2>3. Len(query) \in Nat
    BY MissingFacts
  <2>4. i + 1 \in 1..(Len(query) + 1)
    BY <2>3
  <2> QED
    BY <2>2, <2>4 DEF Calls
<1>2. PICK C : C = ChildTokens(index, c.node)
  OBVIOUS
<1>3. PICK e : e = FirstToken(C)
  OBVIOUS
<1>4. PICK d : d = MatchCall(c.toks, Append(c.node, e), c.vs, c.id, Append(c.tokens, e), c.open + e.arity - 1)
  OBVIOUS
<1>5. CallsOf(c) = [j \in 1..Cardinality(C) |-> d]
  <2>1. CallsOf(c) = match_var_to_index(c)
    BY <1>1 DEF CallsOf, Reports
  <2>2. match_var_to_index(c) = [j \in 1..Cardinality(C) |-> d]
    BY <1>2, <1>3, <1>4, Zenon DEF match_var_to_index
  <2> QED
    BY <2>1, <2>2
<1>6. Cardinality(C) \in Nat /\ (Cardinality(C) > 0 => e \in encoded_token_t /\ HasChild(index, c.node, e))
  BY <1>1, <1>2, <1>3, EntryIs
<1>7. ASSUME Cardinality(C) > 0 PROVE SomewhereAt(d, n + 1)
  <2>1. Matches(d, n + 1, i, v) \/ AtQueryToken(d, n + 1, i + 1)
    BY <1>4, <1>6, <1>7, MatchStep
  <2> QED
    BY <1>1, <2>1 DEF SomewhereAt
<1>8. PICK N \in Nat : N = Cardinality(C)
  BY <1>6
<1>9. [j \in 1..N |-> d] \in Seq({d}) /\ Len([j \in 1..N |-> d]) = N
  <2>1. [j \in 1..N |-> d] \in [1..N -> {d}]
    OBVIOUS
  <2> QED
    BY <2>1, FunctionIsSeq
<1>10. ASSUME NEW j \in 1..Len(CallsOf(c)) PROVE CallsOf(c)[j] = d /\ Cardinality(C) > 0
  <2>1. j \in 1..N
    BY <1>5, <1>8, <1>9
  <2> QED
    BY <1>5, <1>8, <2>1
<1> QED
  BY <1>7, <1>10 DEF MadeAt

\* The calls that a call makes are one level further than it is.
LEMMA MadeCallsAt ==
  ASSUME index \in Indexes, query \in LeafQueries, NEW c \in Calls, NEW n \in Nat, SomewhereAt(c, n)
  PROVE  MadeAt(c, n + 1)
<1>1. ASSUME NEW i \in 1..(Len(query) + 1), AtQueryToken(c, n, i) PROVE MadeAt(c, n + 1)
  BY <1>1, FromQueryToken
<1>2. ASSUME NEW i \in 1..Len(query), NEW v \in Paths, NEW w \in Paths, NEW m \in Nat,
             Replays(c, n, i, v, w, m)
      PROVE  MadeAt(c, n + 1)
  BY <1>2, FromReplay
<1>3. ASSUME NEW i \in 1..Len(query), NEW v \in Paths, Matches(c, n, i, v) PROVE MadeAt(c, n + 1)
  BY <1>3, FromMatch
<1> QED
  BY <1>1, <1>2, <1>3 DEF SomewhereAt

\* The first call is at the first token of the query.
LEMMA FirstCallAt ==
  ASSUME index \in Indexes, query \in LeafQueries
  PROVE  SomewhereAt(ProcessCall(query, RootNode, <<>>), 0)
<1>1. PICK c : c = ProcessCall(query, RootNode, <<>>)
  OBVIOUS
<1>2. c.toks = query /\ c.node = RootNode /\ c.vs = <<>> /\ c.open = 0
  BY <1>1 DEF ProcessCall
<1>3. /\ query \in Paths /\ Len(query) \in Nat /\ Missing(query, 0) = 1 /\ index \in SUBSET Paths
      /\ \A f \in index : IsTerm(f)
  BY MissingFacts, IndexFacts
<1>4. RootNode \in Paths /\ Len(RootNode) = 0 /\ OpenSlots(RootNode)[0] = 1 /\ 1 - 1 = 0
  BY RootFacts
<1>5. Placed(RootNode, 1 - 1)
  BY <1>3, <1>4 DEF Placed
<1>6. Agree(index, query, RootNode, 1 - 1)
  <2>1. \A x \in index : PieceEnds(x, query)[0] = 0
    BY <1>3, PieceEndsDef
  <2>2. \A j \in 1..0 : FALSE
    OBVIOUS
  <2> QED
    BY <1>4, <2>1, <2>2 DEF Agree
<1>7. VarsAt(<<>>, RootNode, 1)
  <2>1. <<>> \in Vars /\ DOMAIN <<>> = {}
    BY VarsIs
  <2>2. \A j \in 1..(1 - 1) : FALSE
    OBVIOUS
  <2> QED
    BY <2>1, <2>2 DEF VarsAt
<1>8. RestOf(query, 1)
  <2>1. Len(query) = Len(query) - 1 + 1
    BY <1>3
  <2>2. ASSUME NEW k \in 1..Len(query) PROVE query[k] = query[1 + k - 1]
    <3>1. 1 + k - 1 = k
      BY <1>3
    <3> QED
      BY <3>1
  <2> QED
    BY <1>3, <2>1, <2>2 DEF RestOf
<1>9. AtQueryToken(c, 0, 1)
  BY <1>2, <1>4, <1>5, <1>6, <1>7, <1>8 DEF AtQueryToken, LedTo
<1>10. 1 \in 1..(Len(query) + 1)
  BY <1>3
<1> QED
  BY <1>1, <1>9, <1>10 DEF SomewhereAt

\* The calls of every level are where they should be.
LEMMA LevelsAt ==
  ASSUME index \in Indexes, query \in LeafQueries
  PROVE  \A n \in 0..Depth : \A k \in 1..Len(Levels(query)[n]) : SomewhereAt(Levels(query)[n][k], n)
<1>0. query \in Paths /\ Depth \in Nat
  BY MissingFacts, DepthIs
<1>1. PICK g : g = Levels(query)
  OBVIOUS
<1>2. /\ g[0] = <<ProcessCall(query, RootNode, <<>>)>>
      /\ \A n \in 1..Depth : g[n] = NextLevel(g[n-1])
      /\ \A n \in 0..Depth : g[n] \in Seq(Calls)
  BY <1>0, <1>1, LevelsIs
<1> DEFINE P == { n \in Nat : n <= Depth => \A k \in 1..Len(g[n]) : SomewhereAt(g[n][k], n) }
<1>3. 0 \in P
  <2>1. ASSUME NEW k \in 1..Len(g[0]) PROVE SomewhereAt(g[0][k], 0)
    <3>1. PICK c : c = ProcessCall(query, RootNode, <<>>)
      OBVIOUS
    <3>2. k = 1 /\ g[0][1] = c
      BY <1>2, <2>1, <3>1
    <3> QED
      BY <3>1, <3>2, FirstCallAt
  <2> QED
    BY <2>1
<1>4. ASSUME NEW n \in Nat, n \in P PROVE n + 1 \in P
  <2> SUFFICES ASSUME n + 1 <= Depth
               PROVE  \A k \in 1..Len(g[n + 1]) : SomewhereAt(g[n + 1][k], n + 1)
    OBVIOUS
  <2>1. n \in 0..Depth /\ n + 1 \in 1..Depth /\ n + 1 - 1 = n /\ n <= Depth
    BY <1>0
  <2>2. g[n] \in Seq(Calls) /\ \A k \in 1..Len(g[n]) : SomewhereAt(g[n][k], n)
    BY <1>2, <1>4, <2>1
  <2>3. PICK l : l = g[n]
    OBVIOUS
  <2> DEFINE S == { c \in Calls : SomewhereAt(c, n + 1) }
  <2>4. \A k \in 1..Len(l) : \A j \in 1..Len(CallsOf(l[k])) : CallsOf(l[k])[j] \in S
    <3> SUFFICES ASSUME NEW k \in 1..Len(l), NEW j \in 1..Len(CallsOf(l[k])) PROVE CallsOf(l[k])[j] \in S
      OBVIOUS
    <3>1. PICK c : c = l[k]
      OBVIOUS
    <3>2. c \in Calls /\ SomewhereAt(c, n)
      BY <2>2, <2>3, <3>1
    <3>3. CallsOf(c) \in Seq(Calls) /\ MadeAt(c, n + 1)
      BY <3>2, CallsTyped, MadeCallsAt
    <3> QED
      BY <3>1, <3>3 DEF MadeAt
  <2>5. \A k \in 1..Len(NextLevel(l)) : NextLevel(l)[k] \in S
    <3>1. S \in SUBSET Calls /\ l \in Seq(Calls)
      BY <2>2, <2>3
    <3> HIDE DEF S
    <3> QED
      BY <2>4, <3>1, NextLevelIs
  <2>6. g[n + 1] = NextLevel(l)
    <3>1. PICK m : m = n + 1
      OBVIOUS
    <3>2. m \in 1..Depth /\ m - 1 = n
      BY <2>1, <3>1
    <3>3. g[m] = NextLevel(g[m - 1])
      BY <1>2, <3>2
    <3> QED
      BY <2>3, <3>1, <3>2, <3>3
  <2> QED
    BY <2>5, <2>6
<1>5. Nat \subseteq P
  <2> HIDE DEF P
  <2> QED
    BY <1>3, <1>4, SetInduction
<1> QED
  BY <1>0, <1>1, <1>5

\* At the last level every call reports a formula that unifies.
LEMMA LastCalls ==
  ASSUME index \in Indexes, query \in LeafQueries, NEW c \in Calls, SomewhereAt(c, Depth)
  PROVE  Reports(c) /\ c.node \in Unifying
<1>0. /\ query \in Paths /\ Len(query) \in Nat /\ DOMAIN query = 1..Len(query) /\ index \in SUBSET Paths
      /\ Depth \in Nat /\ c.node \in Paths /\ Len(c.node) \in Nat
  BY MissingFacts, IndexFacts, DepthIs, LenProperties DEF Calls, Paths
<1>1. ASSUME OnIndex(c.node) PROVE ~(Depth <= 2 * Len(c.node) + 1)
  <2>1. CASE c.node = RootNode
    <3>1. Len(c.node) = 0
      BY <2>1, RootFacts
    <3> QED
      BY <3>1, DepthIs
  <2>2. CASE IsNode(index, c.node)
    <3>1. PICK f \in index : Len(c.node) <= Len(f)
      BY <2>2 DEF IsNode, Extends
    <3>2. Len(f) \in Nat /\ 2 * Len(f) + 1 < Depth
      BY DepthIs
    <3> QED
      BY <1>0, <3>1, <3>2
  <2> QED
    BY <1>1, <2>1, <2>2 DEF OnIndex
<1>2. ASSUME NEW i \in 1..Len(query), NEW v \in Paths, NEW w \in Paths, NEW m \in Nat,
             Replays(c, Depth, i, v, w, m)
      PROVE  FALSE
  BY <1>1, <1>2 DEF Replays
<1>3. ASSUME NEW i \in 1..Len(query), NEW v \in Paths, Matches(c, Depth, i, v) PROVE FALSE
  BY <1>1, <1>3 DEF Matches
<1>4. ASSUME NEW i \in 1..(Len(query) + 1), AtQueryToken(c, Depth, i)
      PROVE  Reports(c) /\ c.node \in Unifying
  <2>1. LedTo(c.vs, c.node, i) /\ c.open = 0 /\ RestOf(c.toks, i) /\ (c.toks # <<>> => Depth <= 2 * Len(c.node))
    BY <1>4 DEF AtQueryToken
  <2>2. Placed(c.node, i - 1) /\ Agree(index, query, c.node, i - 1)
    BY <2>1 DEF LedTo
  <2>3. c.toks = <<>>
    <3>1. OnIndex(c.node)
      BY <1>0, <2>2 DEF OnIndex, Placed
    <3>2. ~(Depth <= 2 * Len(c.node) + 1)
      BY <1>1, <3>1
    <3>3. ~(Depth <= 2 * Len(c.node))
      BY <1>0, <3>2
    <3> QED
      BY <2>1, <3>3
  <2>4. i = Len(query) + 1 /\ i - 1 = Len(query)
    <3>1. i = Len(query) + 1
      BY <2>1, <2>3, RestIs
    <3> QED
      BY <1>0, <3>1
  <2>5. c.node \in index
    <3>1. Missing(query, Len(query)) = 0
      <4>1. Len(query) \in 0..Len(query)
        BY <1>0
      <4> QED
        BY <4>1, MissingFacts
    <3> QED
      BY <1>0, <2>2, <2>4, <3>1, LeafIsComplete DEF Placed
  <2>6. /\ PieceEnds(c.node, query)[Len(query)] = Len(c.node)
        /\ \A j \in 1..Len(query) : FitsAt(c.node, query, j)
    BY <1>0, <2>2, <2>4, <2>5, ExtendsReflexive DEF Agree
  <2> QED
    BY <1>0, <2>1, <2>3, <2>5, <2>6, UnifiesIs DEF Unifying, Reports
<1> QED
  BY <1>2, <1>3, <1>4 DEF SomewhereAt

\* The leaves that the engine reports unify with the query.
LEMMA LeavesUnify ==
  ASSUME index \in Indexes, query \in LeafQueries
  PROVE  /\ query_engine_run(query) \in Seq(Unifying)
         /\ Len(query_engine_run(query)) = Len(Levels(query)[Depth])
         /\ \A k \in 1..Len(query_engine_run(query)) : query_engine_run(query)[k] = Levels(query)[Depth][k].node
<1>1. PICK l : l = Levels(query)[Depth]
  OBVIOUS
<1>2. Depth \in 0..Depth /\ query \in Paths
  BY DepthIs, MissingFacts
<1>3. l \in Seq(Calls) /\ \A k \in 1..Len(l) : SomewhereAt(l[k], Depth)
  BY <1>1, <1>2, LevelsIs, LevelsAt
<1>4. Len(l) \in Nat /\ DOMAIN l = 1..Len(l) /\ \A k \in 1..Len(l) : l[k] \in Calls
  BY <1>3
<1>5. \A k \in 1..Len(l) : l[k].node \in Unifying
  BY <1>3, <1>4, LastCalls
<1>6. PICK r : r = query_engine_run(query)
  OBVIOUS
<1>7. r = [k \in 1..Len(l) |-> l[k].node]
  BY <1>1, <1>4, <1>6 DEF query_engine_run
<1>8. r \in [1..Len(l) -> Unifying]
  BY <1>5, <1>7
<1>9. r \in Seq(Unifying) /\ Len(r) = Len(l)
  BY <1>4, <1>8, FunctionIsSeq
<1> QED
  BY <1>1, <1>6, <1>7, <1>9

-----------------------------------------------------------------------------
(***************************************************************************)
(* Queries without variables and ranges: the only formula that unifies     *)
(* with one is the query itself, and the engine reports it once.           *)
(***************************************************************************)
Plain == \A i \in DOMAIN query : ~IsSpecial(query[i])

\* A formula that unifies with such a query has its tokens.
LEMMA PlainUnifies ==
  ASSUME index \in Indexes, query \in LeafQueries, Plain, NEW x \in Unifying
  PROVE  x = query
<1>0. query \in Paths /\ Len(query) \in Nat /\ DOMAIN query = 1..Len(query)
  BY MissingFacts
<1>1. x \in index /\ Unifies(x, query) /\ x \in Paths /\ IsTerm(x) /\ Len(x) \in Nat
  BY IndexFacts, LenProperties DEF Unifying, Paths
<1>2. PICK end : end = PieceEnds(x, query)
  OBVIOUS
<1>3. end[0] = 0 /\ \A i \in 1..Len(query) : end[i] = NextEnd(x, query[i], end[i-1])
  BY <1>0, <1>1, <1>2, PieceEndsDef
<1>4. end[Len(query)] = Len(x) /\ \A i \in 1..Len(query) : FitsAt(x, query, i)
  BY <1>0, <1>1, <1>2, UnifiesIs
<1> DEFINE P == { i \in Nat : i <= Len(query) => end[i] = -1 \/ \A j \in 0..i : end[j] = j }
<1>5. 0 \in P
  BY <1>3
<1>6. ASSUME NEW i \in Nat, i \in P PROVE i + 1 \in P
  <2> SUFFICES ASSUME i + 1 <= Len(query) PROVE end[i + 1] = -1 \/ \A j \in 0..(i + 1) : end[j] = j
    OBVIOUS
  <2>1. i + 1 \in 1..Len(query) /\ i + 1 - 1 = i /\ i <= Len(query) /\ i \in 0..i
    BY <1>0
  <2>2. end[i] = -1 \/ \A j \in 0..i : end[j] = j
    BY <1>6, <2>1
  <2>3. end[i + 1] = NextEnd(x, query[i + 1], end[i])
    <3>1. PICK m : m = i + 1
      OBVIOUS
    <3>2. m \in 1..Len(query) /\ m - 1 = i
      BY <2>1, <3>1
    <3>3. end[m] = NextEnd(x, query[m], end[m - 1])
      BY <1>3, <3>2
    <3> QED
      BY <3>1, <3>2, <3>3
  <2>4. ~encoded_token_is_var(query[i + 1])
    BY <1>0, <2>1 DEF Plain, IsSpecial
  <2>5. CASE end[i] = -1
    BY <2>3, <2>5 DEF NextEnd
  <2>6. CASE \A j \in 0..i : end[j] = j
    <3>1. end[i + 1] = -1 \/ end[i + 1] = i + 1
      BY <2>1, <2>3, <2>4, <2>6 DEF NextEnd
    <3>2. \A j \in 0..(i + 1) : j \in 0..i \/ j = i + 1
      OBVIOUS
    <3> QED
      BY <2>6, <3>1, <3>2
  <2> QED
    BY <2>2, <2>5, <2>6
<1>7. Nat \subseteq P
  <2> HIDE DEF P
  <2> QED
    BY <1>5, <1>6, SetInduction
<1>8. \A j \in 0..Len(query) : end[j] = j
  <2>1. Len(query) \in P /\ end[Len(query)] # -1
    BY <1>0, <1>1, <1>4, <1>7
  <2> QED
    BY <1>0, <2>1
<1>9. Len(x) = Len(query)
  BY <1>0, <1>4, <1>8
<1>10. ASSUME NEW j \in 1..Len(query) PROVE x[j] = query[j]
  <2>1. end[j] = j /\ ~IsSpecial(query[j]) /\ FitsAt(x, query, j)
    BY <1>0, <1>4, <1>8 DEF Plain
  <2> QED
    BY <1>2, <2>1 DEF FitsAt
<1> QED
  BY <1>0, <1>1, <1>9, <1>10, SeqEqual DEF Paths

\* A call on the way to the query.
OnTheWay(c) ==
  \E i \in 1..(Len(query) + 1) :
    c.open = 0 /\ RestOf(c.toks, i) /\ Len(c.node) = i - 1 /\ Extends(query, c.node)

\* It makes one call, which is on the way too.
LEMMA PlainStep ==
  ASSUME index \in Indexes, query \in LeafQueries, Plain, query \in index, NEW c \in Calls, OnTheWay(c)
  PROVE  \E d : CallsOf(c) = <<d>> /\ OnTheWay(d)
<1>0. query \in Paths /\ Len(query) \in Nat /\ DOMAIN query = 1..Len(query) /\ index \in SUBSET Paths
  BY MissingFacts, IndexFacts
<1>1. PICK i \in 1..(Len(query) + 1) :
        c.open = 0 /\ RestOf(c.toks, i) /\ Len(c.node) = i - 1 /\ Extends(query, c.node)
  BY DEF OnTheWay
<1>2. CASE c.toks = <<>>
  BY <1>1, <1>2, CallsAre
<1>3. CASE c.toks # <<>>
  <2>1. /\ i \in 1..Len(query) /\ Head(c.toks) = query[i] /\ RestOf(Tail(c.toks), i + 1)
        /\ query[i] \in encoded_token_t
    BY <1>1, <1>3, RestIs
  <2>2. PICK v : v = c.node
    OBVIOUS
  <2>3. v \in Paths /\ Len(v) = i - 1 /\ Extends(query, v)
    BY <1>1, <2>2 DEF Calls
  <2>4. PICK y : y = Append(v, query[i])
    OBVIOUS
  <2>5. /\ y = v \o <<query[i]>> /\ y \in Paths /\ Len(y) = Len(v) + 1
        /\ \A k \in 1..Len(v) : y[k] = v[k]
        /\ y[Len(v) + 1] = query[i]
    BY <2>1, <2>3, <2>4, OneMore
  <2>6. Len(y) = i /\ Len(v) + 1 = i
    BY <2>3, <2>5
  <2>7. Extends(query, y)
    <3>1. ASSUME NEW k \in 1..i PROVE query[k] = y[k]
      <4>1. CASE k = i
        BY <2>5, <2>6, <4>1
      <4>2. CASE k # i
        <5>1. k \in 1..Len(v)
          BY <2>3, <4>2
        <5> QED
          BY <2>3, <2>5, <5>1 DEF Extends
      <4> QED
        BY <4>1, <4>2
    <3>2. i <= Len(query)
      BY <2>1
    <3> QED
      BY <2>6, <3>1, <3>2 DEF Extends
  <2>8. HasChild(index, v, query[i])
    <3>1. IsNode(index, y)
      BY <2>5, <2>7 DEF IsNode
    <3> QED
      BY <1>0, <2>1, <2>3, <2>5, <3>1, ChildIsNode
  <2>9. PICK d : d = ProcessCall(Tail(c.toks), y, c.vs)
    OBVIOUS
  <2>10. CallsOf(c) = <<d>>
    <3>1. ~encoded_token_is_var(query[i])
      BY <1>0, <2>1 DEF Plain, IsSpecial
    <3> QED
      BY <1>1, <1>3, <2>1, <2>2, <2>4, <2>8, <2>9, <3>1, CallsAre
  <2>11. d.open = 0 /\ d.toks = Tail(c.toks) /\ d.node = y
    BY <2>9 DEF ProcessCall
  <2>12. i + 1 \in 1..(Len(query) + 1) /\ i + 1 - 1 = i
    BY <1>0, <2>1
  <2>13. OnTheWay(d)
    BY <2>1, <2>6, <2>7, <2>11, <2>12 DEF OnTheWay
  <2> QED
    BY <2>10, <2>13
<1> QED
  BY <1>2, <1>3

\* There is one call on every level.
LEMMA PlainLevels ==
  ASSUME index \in Indexes, query \in LeafQueries, Plain, query \in index
  PROVE  Len(Levels(query)[Depth]) = 1
<1>0. query \in Paths /\ Depth \in Nat /\ Len(query) \in Nat
  BY MissingFacts, DepthIs
<1>1. PICK g : g = Levels(query)
  OBVIOUS
<1>2. /\ g[0] = <<ProcessCall(query, RootNode, <<>>)>>
      /\ \A n \in 1..Depth : g[n] = NextLevel(g[n-1])
      /\ \A n \in 0..Depth : g[n] \in Seq(Calls)
  BY <1>0, <1>1, LevelsIs
<1> DEFINE P == { n \in Nat : n <= Depth => \E d : g[n] = <<d>> /\ OnTheWay(d) }
<1>3. 0 \in P
  <2>1. PICK c : c = ProcessCall(query, RootNode, <<>>)
    OBVIOUS
  <2>2. c.toks = query /\ c.node = RootNode /\ c.open = 0
    BY <2>1 DEF ProcessCall
  <2>3. RestOf(query, 1)
    <3>1. Len(query) = Len(query) - 1 + 1
      BY <1>0
    <3>2. ASSUME NEW k \in 1..Len(query) PROVE query[k] = query[1 + k - 1]
      <4>1. 1 + k - 1 = k
        BY <1>0
      <4> QED
        BY <4>1
    <3> QED
      BY <1>0, <3>1, <3>2 DEF RestOf
  <2>4. Len(RootNode) = 1 - 1 /\ Extends(query, RootNode) /\ 1 \in 1..(Len(query) + 1)
    BY <1>0, RootFacts, ExtendsReflexive
  <2>5. OnTheWay(c)
    BY <2>2, <2>3, <2>4 DEF OnTheWay
  <2> QED
    BY <1>2, <2>1, <2>5
<1>4. ASSUME NEW n \in Nat, n \in P PROVE n + 1 \in P
  <2> SUFFICES ASSUME n + 1 <= Depth PROVE \E d : g[n + 1] = <<d>> /\ OnTheWay(d)
    OBVIOUS
  <2>1. n \in 0..Depth /\ n + 1 \in 1..Depth /\ n + 1 - 1 = n /\ n <= Depth
    BY <1>0
  <2>2. PICK c : g[n] = <<c>> /\ OnTheWay(c)
    BY <1>4, <2>1
  <2>3. PICK l : l = g[n]
    OBVIOUS
  <2>4. l \in Seq(Calls) /\ Len(l) = 1 /\ l[1] = c
    <3>1. l \in Seq(Calls)
      BY <1>2, <2>1, <2>3
    <3> QED
      BY <2>2, <2>3, <3>1
  <2>5. c \in Calls /\ \A k \in 1..Len(l) : l[k] = c
    <3>1. 1 \in 1..Len(l) /\ \A k \in 1..Len(l) : k = 1
      BY <2>4
    <3>2. l[1] \in Calls
      BY <2>4, <3>1, ElementOfSeq
    <3> QED
      BY <2>4, <3>1, <3>2
  <2>6. NextLevel(l) = CallsOf(c)
    <3>1. \A k \in 1..Len(l) : \A j \in 1..Len(CallsOf(l[k])) : CallsOf(l[k])[j] \in Calls
      BY <2>5, CallsTyped
    <3> QED
      BY <2>4, <3>1, NextLevelIs
  <2>7. g[n + 1] = NextLevel(l)
    <3>1. PICK m : m = n + 1
      OBVIOUS
    <3>2. m \in 1..Depth /\ m - 1 = n
      BY <2>1, <3>1
    <3>3. g[m] = NextLevel(g[m - 1])
      BY <1>2, <3>2
    <3> QED
      BY <2>3, <3>1, <3>2, <3>3
  <2> QED
    BY <2>2, <2>5, <2>6, <2>7, PlainStep
<1>5. Nat \subseteq P
  <2> HIDE DEF P
  <2> QED
    BY <1>3, <1>4, SetInduction
<1>6. PICK d : g[Depth] = <<d>>
  BY <1>0, <1>5
<1> QED
  BY <1>1, <1>6

\* The engine reports the query when the index has it, and nothing else.
LEMMA PlainRun ==
  ASSUME index \in Indexes, query \in LeafQueries, Plain
  PROVE  \/ query_engine_run(query) = <<query>> /\ Unifying = {query}
         \/ query_engine_run(query) = <<>> /\ Unifying = {}
<1>1. PICK r : r = query_engine_run(query)
  OBVIOUS
<1>2. r \in Seq(Unifying) /\ Len(r) = Len(Levels(query)[Depth]) /\ Len(r) \in Nat
  BY <1>1, LeavesUnify
<1>3. \A x \in Unifying : x = query
  BY PlainUnifies
<1>4. CASE query \in index
  <2>1. Len(r) = 1
    BY <1>2, <1>4, PlainLevels
  <2>2. r[1] \in Unifying /\ r = <<r[1]>>
    BY <1>2, <2>1
  <2>3. r[1] = query
    BY <1>3, <2>2
  <2>4. Unifying = {query}
    BY <1>3, <2>2, <2>3
  <2> QED
    BY <1>1, <2>2, <2>3, <2>4
<1>5. CASE query \notin index
  <2>1. Unifying = {}
    BY <1>3, <1>5 DEF Unifying
  <2>2. r = <<>>
    <3>1. Len(r) = 0
      BY <1>2, <2>1
    <3> QED
      BY <1>2, <3>1
  <2> QED
    BY <1>1, <2>1, <2>2
<1> QED
  BY <1>4, <1>5

-----------------------------------------------------------------------------
(***************************************************************************)
(* The stream of SearchContext holds the hits of a formula one after the   *)
(* other.                                                                  *)
(***************************************************************************)
Consecutive ==
  \A k \in 1..Len(stream) :
    stream[k][2] = 1 \/ (k > 1 /\ stream[k-1] = <<stream[k][1], stream[k][2] - 1>>)

\* HandleSolution appends the hits of a leaf in their order.
LEMMA ConsecutiveHandle ==
  ASSUME PagingInv, HandleSolution, Consecutive
  PROVE  Consecutive'
<1>1. PICK L \in Nat, n \in Nat : L = Len(stream) /\ n = hitsCount
  BY LeafHits DEF PagingInv
<1>2. PICK s, t : s = stream /\ t = stream'
  OBVIOUS
<1>3. PICK c : c = currentNode
  OBVIOUS
<1>4. /\ Len(t) = L + n /\ \A k \in 1..L : t[k] = s[k]
      /\ \A k \in 1..n : t[L + k] = <<c, k>>
  BY <1>1, <1>2, <1>3, StreamGrows
<1>5. \A k \in 1..L : s[k][2] = 1 \/ (k > 1 /\ s[k-1] = <<s[k][1], s[k][2] - 1>>)
  BY <1>1, <1>2 DEF Consecutive
<1>6. ASSUME NEW k \in 1..(L + n)
      PROVE  t[k][2] = 1 \/ (k > 1 /\ t[k-1] = <<t[k][1], t[k][2] - 1>>)
  <2>1. CASE k \in 1..L
    <3>1. t[k] = s[k]
      BY <1>4, <2>1
    <3>2. ASSUME k > 1 PROVE t[k-1] = s[k-1]
      <4>1. k - 1 \in 1..L
        BY <2>1, <3>2
      <4> QED
        BY <1>4, <4>1
    <3> QED
      BY <1>5, <2>1, <3>1, <3>2
  <2>2. CASE ~(k \in 1..L)
    <3>1. PICK m : m = k - L
      OBVIOUS
    <3>2. m \in 1..n /\ k = L + m
      BY <2>2, <3>1
    <3>3. t[k] = <<c, m>>
      BY <1>4, <3>2
    <3>4. ASSUME m # 1 PROVE k > 1 /\ t[k-1] = <<c, m - 1>>
      <4>1. k > 1 /\ k - 1 = L + (m - 1) /\ m - 1 \in 1..n
        BY <3>2, <3>4
      <4> QED
        BY <1>4, <4>1
    <3> QED
      BY <3>3, <3>4
  <2> QED
    BY <2>1, <2>2
<1> QED
  BY <1>2, <1>4, <1>6 DEF Consecutive

\* The other steps leave the stream alone.
LEMMA ConsecutiveStep == PagingInv /\ Consecutive /\ [Next]_vars => Consecutive'
<1>1. CASE CheckArguments
  BY <1>1 DEF CheckArguments, Consecutive
<1>2. CASE ~CheckArguments /\ ~HandleSolution
  BY <1>2, QuietSteps DEF Consecutive
<1> QED
  BY <1>1, <1>2, ConsecutiveHandle

\* At first the stream is empty.
LEMMA ConsecutiveInit == Init => Consecutive
<1>1. ASSUME Init PROVE Consecutive
  <2>1. Len(stream) = 0
    BY <1>1 DEF Init
  <2> QED
    BY <2>1 DEF Consecutive
<1> QED
  BY <1>1

\* A stream of the hits of one formula has the hits in their order.
LEMMA OneFormulaStream ==
  ASSUME PagingInv, InOrder, Consecutive, NEW f, \A k \in 1..Len(stream) : stream[k][1] = f
  PROVE  \A k \in 1..Len(stream) : stream[k] = <<f, k>>
<1>1. PICK s : s = stream
  OBVIOUS
<1>2. PICK L \in Nat : L = Len(s) /\ s \in Seq(AnyHit) /\ DOMAIN s = 1..L
  BY <1>1 DEF PagingInv
<1>3. ASSUME NEW k \in 1..L PROVE s[k][1] = f /\ s[k][2] \in Nat /\ s[k] = <<s[k][1], s[k][2]>>
  <2>1. s[k] \in AnyHit
    BY <1>2
  <2> QED
    BY <1>1, <1>2, <2>1 DEF AnyHit
<1>4. ASSUME NEW i \in 1..L, NEW j \in 1..L, i < j PROVE s[i][2] < s[j][2]
  <2>1. f \in Paths
    <3>1. s[i] \in AnyHit
      BY <1>2
    <3>2. f \in AllFormulas
      BY <1>3, <3>1 DEF AnyHit
    <3> QED
      BY <3>2, IndexFacts DEF AllFormulas
  <2>2. ~TermLess(f, f)
    BY <2>1, TermLessIrreflexive, ExtendsReflexive
  <2>3. TermLess(s[i][1], s[j][1]) \/ (s[i][1] = s[j][1] /\ s[i][2] < s[j][2])
    BY <1>1, <1>2, <1>4 DEF InOrder
  <2> QED
    BY <1>3, <2>2, <2>3
<1> DEFINE P == { k \in Nat : k + 1 <= L => s[k + 1][2] = k + 1 }
<1>5. 0 \in P
  <2>1. ASSUME 1 <= L PROVE s[1][2] = 1
    <3>1. 1 \in 1..Len(stream)
      BY <1>1, <1>2, <2>1
    <3> QED
      BY <1>1, <3>1 DEF Consecutive
  <2> QED
    BY <2>1
<1>6. ASSUME NEW k \in Nat, k \in P PROVE k + 1 \in P
  <2> SUFFICES ASSUME k + 2 <= L PROVE s[k + 2][2] = k + 2
    OBVIOUS
  <2>1. PICK m : m = k + 2
    OBVIOUS
  <2>2. m \in 1..L /\ m - 1 = k + 1 /\ k + 1 \in 1..L /\ m - 1 < m
    BY <2>1
  <2>3. s[m - 1][2] = k + 1
    BY <1>6, <2>2
  <2>4. s[m - 1][2] < s[m][2]
    BY <1>4, <2>2
  <2>5. s[m][2] = 1 \/ s[m-1] = <<s[m][1], s[m][2] - 1>>
    BY <1>1, <1>2, <2>2 DEF Consecutive
  <2>6. s[m][2] \in Nat
    BY <1>3, <2>2
  <2>7. s[m][2] # 1
    BY <2>3, <2>4, <2>6
  <2>8. s[m - 1][2] = s[m][2] - 1
    BY <2>5, <2>7
  <2> QED
    BY <2>1, <2>3, <2>6, <2>8
<1>7. Nat \subseteq P
  <2> HIDE DEF P
  <2> QED
    BY <1>5, <1>6, SetInduction
<1>8. ASSUME NEW k \in 1..L PROVE s[k] = <<f, k>>
  <2>1. PICK m : m = k - 1
    OBVIOUS
  <2>2. m \in Nat /\ m + 1 = k /\ m + 1 <= L
    BY <2>1
  <2>3. m \in P
    BY <1>7, <2>2
  <2>4. s[k][2] = k
    BY <2>2, <2>3
  <2> QED
    BY <1>3, <2>4
<1> QED
  BY <1>1, <1>2, <1>8

-----------------------------------------------------------------------------
(***************************************************************************)
(* The answers of the engine.                                              *)
(***************************************************************************)
Totals(f, leaves) == f = [n \in 0..Len(leaves) |-> IF n = 0 THEN 0 ELSE f[n-1] + hits[leaves[n]]]

\* The total over one leaf, and over none.
LEMMA TotalOf ==
  ASSUME NEW leaves, NEW f, f = CHOOSE g : Totals(g, leaves)
  PROVE  /\ leaves = <<>> => f[Len(leaves)] = 0
         /\ \A x : leaves = <<x>> /\ hits[x] \in Nat => f[Len(leaves)] = hits[x]
<1>1. ASSUME leaves = <<>> PROVE f[Len(leaves)] = 0
  <2>1. Len(leaves) = 0
    BY <1>1
  <2>2. PICK g : g = [n \in 0..0 |-> 0]
    OBVIOUS
  <2>3. g = [n \in 0..0 |-> IF n = 0 THEN 0 ELSE g[n-1] + hits[leaves[n]]]
    <3>1. \A n \in 0..0 : n = 0
      OBVIOUS
    <3> QED
      BY <2>2, <3>1
  <2>4. Totals(g, leaves)
    BY <2>1, <2>3 DEF Totals
  <2>5. Totals(f, leaves)
    BY <2>4
  <2> QED
    BY <2>1, <2>5 DEF Totals
<1>2. ASSUME NEW x, leaves = <<x>>, hits[x] \in Nat PROVE f[Len(leaves)] = hits[x]
  <2>1. Len(leaves) = 1 /\ leaves[1] = x
    BY <1>2
  <2>2. PICK g : g = [n \in 0..1 |-> IF n = 0 THEN 0 ELSE hits[x]]
    OBVIOUS
  <2>3. ASSUME NEW n \in 0..1
        PROVE  g[n] = IF n = 0 THEN 0 ELSE g[n-1] + hits[leaves[n]]
    <3>1. CASE n = 0
      BY <2>2, <3>1
    <3>2. CASE n = 1
      <4>1. n - 1 = 0 /\ g[0] = 0 /\ g[1] = hits[x]
        BY <2>2, <3>2
      <4> QED
        BY <1>2, <2>1, <3>2, <4>1
    <3> QED
      BY <3>1, <3>2
  <2>4. g = [n \in 0..1 |-> IF n = 0 THEN 0 ELSE g[n-1] + hits[leaves[n]]]
    BY <2>2, <2>3
  <2>5. Totals(g, leaves)
    BY <2>1, <2>4 DEF Totals
  <2>6. Totals(f, leaves)
    BY <2>5
  <2>7. f[0] = 0 /\ f[1] = f[0] + hits[x]
    <3>1. \A n \in 0..1 : f[n] = IF n = 0 THEN 0 ELSE f[n-1] + hits[leaves[n]]
      BY <2>1, <2>6 DEF Totals
    <3>2. 0 \in 0..1 /\ 1 \in 0..1 /\ 1 - 1 = 0
      OBVIOUS
    <3> QED
      BY <2>1, <3>1, <3>2
  <2> QED
    BY <1>2, <2>1, <2>7
<1> QED
  BY <1>1, <1>2

\* The parts of the engine's answer.
LEMMA AnswerIs ==
  ASSUME NEW leaves, leaves = query_engine_run(query)
  PROVE  /\ EngineAnswer.leaves = ToSet(leaves)
         /\ EngineAnswer.answers =
              FlattenSeq([i \in DOMAIN leaves |-> DbPage(leaves[i], hits[leaves[i]], offset, args.size)])
         /\ EngineAnswer.total = (CHOOSE g : Totals(g, leaves))[Len(leaves)]
  BY DEF EngineAnswer, Totals

\* The answer without a leaf.
LEMMA NoLeaf ==
  ASSUME query_engine_run(query) = <<>>
  PROVE  EngineAnswer.leaves = {} /\ EngineAnswer.answers = <<>> /\ EngineAnswer.total = 0
<1>1. PICK r : r = query_engine_run(query)
  OBVIOUS
<1>2. r = <<>> /\ DOMAIN r = {} /\ Len(r) = 0
  BY <1>1
<1>3. PICK s : s = [i \in DOMAIN r |-> DbPage(r[i], hits[r[i]], offset, args.size)]
  OBVIOUS
<1>4. s = <<>>
  BY <1>2, <1>3
<1>5. FlattenSeq(s) = <<>>
  BY <1>4 DEF FlattenSeq
<1>6. ToSet(r) = {}
  BY <1>2 DEF ToSet
<1>7. EngineAnswer.total = 0
  BY <1>1, <1>2, AnswerIs, TotalOf
<1> QED
  BY <1>1, <1>3, <1>5, <1>6, <1>7, AnswerIs

\* The answer with one leaf: a page of its hits.
LEMMA OneLeaf ==
  ASSUME PagingInv, NEW x \in index, query_engine_run(query) = <<x>>
  PROVE  /\ EngineAnswer.leaves = {x}
         /\ EngineAnswer.answers = DbPage(x, hits[x], offset, args.size)
         /\ EngineAnswer.total = hits[x]
<1>1. PICK r : r = query_engine_run(query)
  OBVIOUS
<1>2. r = <<x>> /\ DOMAIN r = {1} /\ Len(r) = 1 /\ r[1] = x
  BY <1>1
<1>3. hits[x] \in Nat /\ x \in AllFormulas /\ offset \in Nat /\ args.size \in Nat
  BY ArgumentTypes, HitCountsAssumption DEF PagingInv, InputsOK, AllFormulas, offset
<1>4. PICK s : s = [i \in DOMAIN r |-> DbPage(r[i], hits[r[i]], offset, args.size)]
  OBVIOUS
<1>5. PICK p : p = DbPage(x, hits[x], offset, args.size)
  OBVIOUS
<1>6. p \in Seq(AnyHit)
  BY <1>3, <1>5, DbPageProperties
<1>7. s = <<p>>
  <2>1. DOMAIN s = 1..1 /\ s[1] = p
    BY <1>2, <1>4, <1>5
  <2>2. s = [i \in 1..1 |-> s[i]]
    BY <1>4, <2>1
  <2> QED
    BY <2>1, <2>2
<1>8. FlattenSeq(s) = p
  <2>1. s \in Seq(Seq(AnyHit)) /\ Len(s) = 1 /\ s[1] = p
    BY <1>6, <1>7
  <2>2. \A i \in 1..Len(s) : \A j \in 1..Len(s[i]) : s[i][j] \in AnyHit
    <3>1. \A i \in 1..1 : i = 1
      OBVIOUS
    <3>2. \A j \in 1..Len(p) : p[j] \in AnyHit
      BY <1>6
    <3> QED
      BY <2>1, <3>1, <3>2
  <2>3. PICK A : A = AnyHit
    OBVIOUS
  <2>4. A \in SUBSET A
    OBVIOUS
  <2> QED
    BY <2>1, <2>2, <2>3, <2>4, FlattenIs
<1>9. ToSet(r) = {x}
  BY <1>2 DEF ToSet
<1>10. EngineAnswer.total = hits[x]
  <2>1. PICK f : f = CHOOSE g : Totals(g, r)
    OBVIOUS
  <2>2. EngineAnswer.total = f[Len(r)]
    BY <1>1, <2>1, AnswerIs
  <2>3. f[Len(r)] = hits[x]
    <3>1. \A y : r = <<y>> /\ hits[y] \in Nat => f[Len(r)] = hits[y]
      BY <2>1, TotalOf
    <3> QED
      BY <1>2, <1>3, <3>1
  <2> QED
    BY <2>2, <2>3
<1> QED
  BY <1>1, <1>4, <1>5, <1>8, <1>9, <1>10, AnswerIs

\* The page of one formula's hits, when the limit on the total does not cut it.
LEMMA PageOfOne ==
  ASSUME NEW o \in Nat, NEW a \in Nat, NEW m \in Nat, NEW h \in Nat, NEW z,
         z = IF o + a > m THEN IF m <= o THEN 0 ELSE m - o ELSE a,
         m >= Minimum(o + a, h)
  PROVE  Reached(o, z, h) = Returned(h, o, a)
<1>1. z \in Nat
  OBVIOUS
<1> QED
  BY <1>1 DEF Reached, Returned, Minimum

\* The search has answered with nothing, when nothing unifies.
LEMMA EmptyStream ==
  ASSUME PagingInv, options.includeHits, NoWrap, pc = "done", Visited = {}
  PROVE  Len(stream) = 0 /\ answers = <<>>
<1>1. /\ stream \in Seq(AnyHit) /\ AnswersOnPage /\ size = PageSize
      /\ args.offset \in Nat /\ args.size \in Nat /\ args.maxTotal \in Nat
  BY ArgumentTypes DEF PagingInv
<1>2. Len(stream) = 0
  <2>1. Len(stream) \in Nat /\ DOMAIN stream = 1..Len(stream)
    BY <1>1
  <2>2. ASSUME Len(stream) # 0 PROVE FALSE
    <3>1. 1 \in DOMAIN stream
      BY <2>1, <2>2
    <3> QED
      BY <3>1 DEF Visited
  <2> QED
    BY <2>2
<1>3. Len(answers) = 0
  <2>1. size \in Nat
    BY <1>1 DEF PageSize, offset, maxTotal
  <2> QED
    BY <1>1, <1>2, <2>1 DEF AnswersOnPage, PageLength, PageEnd, offset, Minimum
<1> QED
  BY <1>1, <1>2, <1>3 DEF AnswersOnPage

\* The hits of the formulas that unify, when there is one.
LEMMA SumOfOne ==
  ASSUME SearchInv, PagingInv, NEW x, Unifying = {x}, options.includeHits
  PROVE  SumOf(options.includeHits, hits, Unifying)[{x}] = hits[x] /\ hits[x] \in Nat /\ hits[x] > 0
<1>1. /\ IsFiniteSet(Unifying) /\ \A y \in Unifying : Weight(options.includeHits, hits, y) \in Nat
  BY Weights
<1>2. PICK f : f = SumOf(options.includeHits, hits, Unifying)
  OBVIOUS
<1>3. f[{}] = 0 /\ SumRule(f, options.includeHits, hits, {x})
  BY <1>1, <1>2, SumRules
<1>4. {x} \ {x} = {} /\ x \in {x}
  OBVIOUS
<1>5. f[{x}] = Weight(options.includeHits, hits, x) + 0
  BY <1>3, <1>4 DEF SumRule
<1>6. Weight(options.includeHits, hits, x) = hits[x]
  BY DEF Weight
<1>7. hits[x] \in Nat \ {0}
  <2>1. x \in index /\ hits \in HitCounts /\ index \in Indexes
    BY DEF Unifying, PagingInv, InputsOK
  <2> QED
    BY <2>1, HitCountsAssumption
<1>8. f[{x}] = hits[x]
  <2>1. PICK h : h = hits[x]
    OBVIOUS
  <2>2. h \in Nat /\ f[{x}] = h + 0
    BY <1>5, <1>6, <1>7, <2>1
  <2> QED
    BY <2>1, <2>2
<1>9. hits[x] \in Nat /\ hits[x] > 0
  BY <1>7
<1> QED
  BY <1>2, <1>8, <1>9, Zenon

\* The total of the search, when one formula unifies, and when none does.
LEMMA TotalFound ==
  ASSUME SearchInv, PagingInv, VisitInv, CountInv, pc = "done", options.includeHits
  PROVE  /\ \A x : Unifying = {x} => found = Minimum(maxTotal, hits[x])
         /\ Unifying = {} => found = Minimum(maxTotal, 0)
<1>1. TotalAndIdsExact /\ VariablesAreLeaves(query)
  BY CountGivesTotal DEF SearchInv, SearchTypes, LeafQueries
<1>2. found = Minimum(maxTotal, SumOf(options.includeHits, hits, Unifying)[Unifying])
  <2>1. MapThenSumSet(LAMBDA x : IF options.includeHits THEN hits[x] ELSE 1, Unifying)
          = SumOf(options.includeHits, hits, Unifying)[Unifying]
    BY SumIs
  <2> QED
    BY <1>1, <2>1 DEF TotalAndIdsExact
<1>3. SumOf(options.includeHits, hits, Unifying)[{}] = 0
  BY Weights, SumRules
<1> QED
  BY <1>2, <1>3, SumOfOne

\* The answers of the search, when one formula unifies and the limit on the
\* total does not cut them.
LEMMA AnswersOfOne ==
  ASSUME SearchInv, PagingInv, VisitInv, CountInv, Consecutive, pc = "done", options.includeHits, NoWrap,
         NEW x, Unifying = {x}, maxTotal >= Minimum(offset + args.size, hits[x])
  PROVE  answers = DbPage(x, hits[x], offset, args.size)
<1>1. PICK o \in Nat, a \in Nat, m \in Nat, h \in Nat :
        o = offset /\ a = args.size /\ m = maxTotal /\ h = hits[x] /\ h > 0
  BY SumOfOne, ArgumentTypes DEF PagingInv, offset, maxTotal
<1>2. /\ stream \in Seq(AnyHit) /\ AnswersOnPage /\ FoundCounts /\ found \in Nat
      /\ size = IF o + a > m THEN IF m <= o THEN 0 ELSE m - o ELSE a
  BY <1>1 DEF PagingInv, PageSize
<1>3. x \in AllFormulas
  BY DEF Unifying, AllFormulas, PagingInv, InputsOK
<1>4. PICK p : p = DbPage(x, h, o, a)
  OBVIOUS
<1>5. p \in Seq(AnyHit) /\ Len(p) = Returned(h, o, a) /\ \A k \in 1..Returned(h, o, a) : p[k] = <<x, o + k>>
  <2>1. /\ DbPage(x, h, o, a) \in Seq(AnyHit)
        /\ Len(DbPage(x, h, o, a)) = Returned(h, o, a)
        /\ \A k \in 1..Returned(h, o, a) : DbPage(x, h, o, a)[k] = <<x, o + k>>
    BY <1>3, DbPageProperties
  <2> QED
    BY <1>4, <2>1
<1>6. Visited = {x} \/ (Visited = {} /\ found = m)
  BY <1>1 DEF VisitInv, VisitedSoFar, Before
<1>7. CASE Visited = {x}
  <2>1. Len(stream) = h
    BY <1>1, <1>7, SumOfOne DEF CountInv, StreamCounts
  <2>2. \A k \in 1..Len(stream) : stream[k][1] = x
    <3>1. DOMAIN stream = 1..Len(stream)
      BY <1>2
    <3> QED
      BY <1>7, <3>1 DEF Visited
  <2>3. \A k \in 1..Len(stream) : stream[k] = <<x, k>>
    BY <2>2, OneFormulaStream DEF VisitInv
  <2>4. Reached(o, size, h) = Returned(h, o, a)
    <3>1. PICK z : z = size
      OBVIOUS
    <3>2. /\ z = IF o + a > m THEN IF m <= o THEN 0 ELSE m - o ELSE a
          /\ m >= Minimum(o + a, h)
      BY <1>1, <1>2, <3>1
    <3>3. Reached(o, z, h) = Returned(h, o, a)
      BY <3>2, PageOfOne
    <3> QED
      BY <3>1, <3>3
  <2>5. answers \in Seq(AnyHit) /\ Len(answers) = Reached(o, size, h)
        /\ \A k \in 1..Len(answers) : answers[k] = stream[o + k]
    BY <1>1, <1>2, <2>1 DEF AnswersOnPage, PageLength, PageEnd, Reached
  <2>6. size \in Nat
    BY <1>1, <1>2
  <2>7. ASSUME NEW k \in 1..Len(answers) PROVE answers[k] = p[k]
    <3>1. k \in 1..Reached(o, size, h) /\ k \in 1..Returned(h, o, a)
      BY <2>4, <2>5
    <3>2. o + k \in 1..h
      BY <2>6, <3>1, ReachedBound
    <3> QED
      BY <1>5, <2>1, <2>3, <2>5, <3>1, <3>2
  <2>8. answers = p
    BY <1>5, <2>4, <2>5, <2>7, SeqEqual
  <2> QED
    BY <1>1, <1>4, <2>8
<1>8. CASE Visited = {} /\ found = m
  <2>1. Len(stream) = 0 /\ answers = <<>>
    BY <1>8, EmptyStream
  <2>2. m = 0
    BY <1>1, <1>2, <1>8, <2>1 DEF FoundCounts
  <2>3. a = 0
    BY <1>1, <2>2 DEF Minimum
  <2>4. Len(p) = 0
    BY <1>1, <1>5, <2>3 DEF Returned
  <2> QED
    BY <1>1, <1>4, <1>5, <2>1, <2>4
<1> QED
  BY <1>6, <1>7, <1>8

\* The invariants give the agreement of the two ways to answer.
LEMMA EngineAgrees ==
  SearchInv /\ PagingInv /\ VisitInv /\ CountInv /\ Consecutive => EngineAgreesWithSearch
<1> SUFFICES ASSUME SearchInv, PagingInv, VisitInv, CountInv, Consecutive, pc = "done"
             PROVE  EngineAgreesWithSearch
  BY DEF EngineAgreesWithSearch
<1>0. index \in Indexes /\ query \in LeafQueries
  BY DEF SearchInv, SearchTypes
<1>1. EngineAnswer.leaves \subseteq Unifying
  <2>1. PICK r : r = query_engine_run(query)
    OBVIOUS
  <2>2. r \in Seq(Unifying)
    BY <1>0, <2>1, LeavesUnify
  <2>3. ToSet(r) \subseteq Unifying
    BY <2>2 DEF ToSet
  <2> QED
    BY <2>1, <2>3, AnswerIs
<1>2. ASSUME Plain
      PROVE  /\ EngineAnswer.leaves = Unifying
             /\ options.includeHits /\ NoWrap /\ maxTotal >= Minimum(offset + args.size, EngineAnswer.total) =>
                  EngineAnswer.answers = answers
             /\ options.includeHits => found = Minimum(maxTotal, EngineAnswer.total)
  <2>1. CASE query_engine_run(query) = <<query>> /\ Unifying = {query}
    <3>1. query \in index
      BY <2>1 DEF Unifying
    <3>2. /\ EngineAnswer.leaves = {query}
          /\ EngineAnswer.answers = DbPage(query, hits[query], offset, args.size)
          /\ EngineAnswer.total = hits[query]
      BY <2>1, <3>1, OneLeaf
    <3> QED
      BY <2>1, <3>2, AnswersOfOne, TotalFound
  <2>2. CASE query_engine_run(query) = <<>> /\ Unifying = {}
    <3>1. EngineAnswer.leaves = {} /\ EngineAnswer.answers = <<>> /\ EngineAnswer.total = 0
      BY <2>2, NoLeaf
    <3>2. Visited = {}
      BY <2>2 DEF VisitInv, VisitedSoFar, Before
    <3>3. options.includeHits /\ NoWrap => answers = <<>>
      BY <3>2, EmptyStream
    <3> QED
      BY <2>2, <3>1, <3>3, TotalFound
  <2> QED
    BY <1>0, <1>2, <2>1, <2>2, PlainRun
<1> QED
  BY <1>1, <1>2 DEF EngineAgreesWithSearch, Plain

\* Whenever getResult returns for a query without elements below its variables, the
\* engine has for its answer only formulas that unify with the query, and the same
\* answers and total as getResult for a query without variables and ranges.
THEOREM EngineAgreesWithSearchCorrect == Spec => []EngineAgreesWithSearch
<1> DEFINE Inv == VariablesAreLeaves(query) =>
                    SearchInv /\ PagingInv /\ VisitInv /\ CountInv /\ Consecutive
<1>1. Init => Inv
  BY SearchInit, PagingInit, VisitInit, CountInit, ConsecutiveInit
<1>2. Inv /\ [Next]_vars => Inv'
  BY SearchStep, PagingStep, VisitStep, CountStep, ConsecutiveStep, QueryStays
<1>3. Inv => EngineAgreesWithSearch
  BY EngineAgrees DEF EngineAgreesWithSearch
<1> QED
  BY <1>1, <1>2, <1>3, PTL DEF Spec
=============================================================================

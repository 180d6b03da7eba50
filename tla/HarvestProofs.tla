--------------------------- MODULE HarvestProofs ---------------------------
(***************************************************************************)
(* Proofs about loadHarvests and the SAX handlers (HarvestDirectory and    *)
(* HarvestLoader), for any directories, documents with or without errors,  *)
(* tags, ids and bounds; with the proofs about IndexBuilder, which the     *)
(* handlers are shown to use as specified.                                 *)
(***************************************************************************)
EXTENDS HarvestDirectory, SequenceTheorems, FiniteSetTheorems, TLAPS

-----------------------------------------------------------------------------
(***************************************************************************)
(* IndexBuilder, for any formulas, any expressions and any number of them. *)
(***************************************************************************)
\* A call of indexContentMath in progress is one for the last expression.
Called == ~Idle => processed # <<>> /\ current.pos \in 1..(Len(Expr) + 1)

Base == TypeOK /\ Called

\* The subexpression at hand is a formula that can be encoded, or is not.
LEMMA SubType ==
  ASSUME Base, MoreSubexpressions
  PROVE  /\ Sub \in Formulas \cup {Unencodable}
         /\ Expr \in Seq(Formulas \cup {Unencodable})
         /\ processed \in Seq(Expressions) /\ Len(processed) \in Nat /\ Len(processed) > 0
         /\ current.pos \in 1..Len(Expr)
<1>1. processed \in Seq(Expressions) /\ processed # <<>> /\ current.pos \in 1..Len(Expr)
  BY DEF Base, TypeOK, Called, MoreSubexpressions, Idle
<1>2. Len(processed) \in Nat /\ Len(processed) > 0
  BY <1>1
<1>3. Expr \in Expressions
  BY <1>1, <1>2 DEF Expr
<1>4. Expr \in Seq(Formulas \cup {Unencodable})
  BY <1>3, ExpressionsAssumption
<1>5. Sub \in Formulas \cup {Unencodable}
  BY <1>1, <1>4 DEF Sub
<1> QED
  BY <1>1, <1>2, <1>4, <1>5

\* What insertData does to the leaves: the others keep their ids, and a new
\* leaf gets an id never used before.
LEMMA InsertLeaf ==
  ASSUME Base, InsertSubexpression
  PROVE  /\ Sub \in Formulas
         /\ Leaves' = Leaves \cup {Sub}
         /\ nextId' \in Nat /\ nextId <= nextId'
         /\ leafId' \in [Leaves \cup {Sub} -> 1..nextId']
         /\ \A x \in Leaves : leafId'[x] = leafId[x]
         /\ Sub \notin Leaves => leafId'[Sub] = nextId + 1
<1>1. Sub \in Formulas
  BY SubType DEF InsertSubexpression, CountSolution
<1>2. nextId \in Nat /\ leafId \in [Leaves -> 1..nextId]
  BY DEF Base, TypeOK
<1>3. CASE Sub \in Leaves
  <2>1. leafId' = leafId /\ nextId' = nextId
    BY <1>3 DEF InsertSubexpression, CountSolution, insertData
  <2> QED
    BY <1>1, <1>2, <1>3, <2>1 DEF Leaves
<1>4. CASE Sub \notin Leaves
  <2>1. /\ nextId' = nextId + 1
        /\ leafId' = [x \in Leaves \cup {Sub} |-> IF x = Sub THEN nextId + 1 ELSE leafId[x]]
    BY <1>4 DEF InsertSubexpression, CountSolution, insertData
  <2>2. Leaves' = Leaves \cup {Sub}
    BY <2>1 DEF Leaves
  <2> QED
    BY <1>1, <1>2, <1>4, <2>1, <2>2
<1> QED
  BY <1>3, <1>4

\* The hit that indexContentMath stores for the subexpression at hand.
NewHit == [crawlId |-> current.crawlId, expr |-> Len(processed), path |-> current.pos]

\* What insertFormula does to the lists of hits.
LEMMA InsertHit ==
  ASSUME Base, InsertSubexpression
  PROVE  /\ NewHit \in Hit
         /\ \/ UNCHANGED formulaDb /\ lost' = lost + 1
            \/ /\ lost' = lost
               /\ DOMAIN formulaDb' = DOMAIN formulaDb \cup {leafId'[Sub]}
               /\ formulaDb'[leafId'[Sub]] = Append(HitsOf(leafId'[Sub]), NewHit)
               /\ \A k \in DOMAIN formulaDb \ {leafId'[Sub]} : formulaDb'[k] = formulaDb[k]
<1>1. NewHit \in Hit
  BY SubType DEF NewHit, Hit, Base, TypeOK, InsertSubexpression, CountSolution
<1>2. insertFormula(leafId'[Sub])
  BY DEF InsertSubexpression, CountSolution
<1> QED
  BY <1>1, <1>2 DEF insertFormula, NewHit

\* HitsOf is a sequence of hits.
LEMMA HitsOfType ==
  ASSUME TypeOK, NEW id
  PROVE  HitsOf(id) \in Seq(Hit)
  BY DEF TypeOK, HitsOf

-----------------------------------------------------------------------------
\* Base holds when building begins.
LEMMA BaseInit == Init => Base
  BY FS_EmptySet DEF Init, Base, TypeOK, Called, Idle, Leaves, EmptyMap, CRAWLID_NULL

\* Every step preserves Base.
LEMMA BaseStep == Base /\ [Next]_vars => Base'
<1> SUFFICES ASSUME Base, [Next]_vars PROVE Base'
  OBVIOUS
<1>t. /\ processed \in Seq(Expressions) /\ current \in [crawlId : Nat, pos : Nat]
      /\ Expressions \subseteq Seq(Formulas \cup {Unencodable})
      /\ crawlDb \subseteq Nat /\ IsFiniteSet(crawlDb)
  BY ExpressionsAssumption DEF Base, TypeOK
<1>1. CASE indexCrawlData
  <2>1. Cardinality(crawlDb) + 1 \in Nat
    BY <1>t, FS_CardinalityType
  <2>2. crawlDb' \subseteq Nat /\ IsFiniteSet(crawlDb')
    BY <1>1, <1>t, <2>1, FS_AddElement DEF indexCrawlData, putData
  <2> QED
    BY <1>1, <2>2 DEF indexCrawlData, putData, Base, TypeOK, Called, Idle, Leaves, Expr
<1>2. ASSUME NEW e \in Expressions, NEW c \in crawlDb \cup {CRAWLID_NULL}, BeginExpression(e, c)
      PROVE  Base'
  <2>1. processed' = Append(processed, e) /\ current' = [crawlId |-> c, pos |-> 1]
    BY <1>2 DEF BeginExpression
  <2>2. /\ processed' \in Seq(Expressions) /\ processed' # <<>> /\ Expr' = e
        /\ current' \in [crawlId : Nat, pos : Nat]
    BY <2>1, <1>t DEF Expr, CRAWLID_NULL
  <2>3. Len(e) \in Nat
    BY <1>t
  <2>4. TypeOK'
    BY <1>2, <2>2 DEF BeginExpression, Base, TypeOK, Leaves
  <2>5. Called'
    BY <2>1, <2>2, <2>3 DEF Called
  <2> QED
    BY <2>4, <2>5 DEF Base
<1>3. CASE SkipSubexpression \/ RepeatedSubexpression
  <2>1. MoreSubexpressions /\ Advance
    BY <1>3 DEF SkipSubexpression, RepeatedSubexpression
  <2>2. /\ current' \in [crawlId : Nat, pos : Nat] /\ current'.pos = current.pos + 1
        /\ processed' = processed /\ Expr' = Expr
    BY <1>3, <2>1, <1>t DEF SkipSubexpression, RepeatedSubexpression, Advance, Expr
  <2>3. TypeOK'
    BY <1>3, <2>2 DEF SkipSubexpression, RepeatedSubexpression, Base, TypeOK, Leaves
  <2>4. Called'
    BY <2>1, <2>2, SubType DEF Called
  <2> QED
    BY <2>3, <2>4 DEF Base
<1>4. CASE InsertSubexpression
  <2>1. MoreSubexpressions /\ Advance /\ crawlDb' = crawlDb /\ processed' = processed
    BY <1>4 DEF InsertSubexpression, CountSolution
  <2>2. /\ current' \in [crawlId : Nat, pos : Nat] /\ current'.pos = current.pos + 1
        /\ Expr' = Expr
    BY <2>1, <1>t DEF Advance, Expr
  <2>a. /\ Sub \in Formulas
        /\ Leaves' = Leaves \cup {Sub}
        /\ nextId' \in Nat /\ nextId <= nextId'
        /\ leafId' \in [Leaves \cup {Sub} -> 1..nextId']
    BY <1>4, InsertLeaf
  <2>b. /\ nextId \in Nat /\ Leaves \subseteq Formulas /\ solutions \in [Leaves -> Nat]
        /\ DOMAIN formulaDb \subseteq 1..nextId /\ unique \subseteq 1..nextId
        /\ \A id \in DOMAIN formulaDb : formulaDb[id] \in Seq(Hit)
        /\ numExpressions \in Nat /\ lost \in Nat
    BY DEF Base, TypeOK
  <2>3. /\ nextId' \in Nat /\ Leaves' \subseteq Formulas /\ leafId' \in [Leaves' -> 1..nextId']
        /\ leafId'[Sub] \in 1..nextId' /\ 1..nextId \subseteq 1..nextId'
    BY <2>a, <2>b
  <2>4. solutions' \in [Leaves' -> Nat]
    BY <1>4, <2>a, <2>b DEF InsertSubexpression, CountSolution
  <2>5. /\ DOMAIN formulaDb' \subseteq 1..nextId'
        /\ \A id \in DOMAIN formulaDb' : formulaDb'[id] \in Seq(Hit)
    <3>1. NewHit \in Hit /\ HitsOf(leafId'[Sub]) \in Seq(Hit)
      BY <1>4, InsertHit, HitsOfType DEF Base
    <3>2. Append(HitsOf(leafId'[Sub]), NewHit) \in Seq(Hit)
      BY <3>1
    <3>3. CASE UNCHANGED formulaDb
      BY <3>3, <2>b, <2>3
    <3>4. CASE /\ DOMAIN formulaDb' = DOMAIN formulaDb \cup {leafId'[Sub]}
               /\ formulaDb'[leafId'[Sub]] = Append(HitsOf(leafId'[Sub]), NewHit)
               /\ \A k \in DOMAIN formulaDb \ {leafId'[Sub]} : formulaDb'[k] = formulaDb[k]
      BY <3>2, <3>4, <2>b, <2>3
    <3> QED
      BY <1>4, <3>3, <3>4, InsertHit
  <2>6. unique' \subseteq 1..nextId' /\ numExpressions' \in Nat
    <3>1. unique' = unique \cup {leafId'[Sub]} /\ numExpressions' = numExpressions + 1
      BY <1>4 DEF InsertSubexpression, CountSolution
    <3>2. unique \subseteq 1..nextId'
      BY <2>b, <2>3
    <3>3. leafId'[Sub] \in 1..nextId'
      BY <2>3
    <3>4. unique' \subseteq 1..nextId'
      BY <3>1, <3>2, <3>3, Zenon
    <3> QED
      BY <3>1, <3>4, <2>b
  <2>l. lost' \in Nat
    BY <1>4, <2>b, InsertHit
  <2>7. TypeOK'
    BY <1>t, <2>1, <2>2, <2>3, <2>4, <2>5, <2>6, <2>l DEF TypeOK
  <2>8. Called'
    BY <2>1, <2>2, SubType DEF Called
  <2> QED
    BY <2>7, <2>8 DEF Base
<1>5. CASE EndExpression
  BY <1>5 DEF EndExpression, Base, TypeOK, Called, Idle, Leaves, CRAWLID_NULL
<1>6. CASE UNCHANGED vars
  BY <1>6 DEF vars, Base, TypeOK, Called, Idle, Leaves, Expr
<1> QED
  BY <1>1, <1>2, <1>3, <1>4, <1>5, <1>6 DEF Next

\* Type correctness of the trie's leaves, the databases and the call in
\* progress, for every sequence of indexCrawlData and indexContentMath calls.
THEOREM TypeCorrect == Spec => []TypeOK
<1>1. Base => TypeOK
  BY DEF Base
<1> QED
  BY <1>1, BaseInit, BaseStep, PTL DEF Spec

-----------------------------------------------------------------------------
(***************************************************************************)
(* The number of hits a leaf announces and the number it stores.  A new    *)
(* leaf takes an id above all those in use, so its list of hits is empty   *)
(* and the ids stay distinct; an insertion changes one list and one count. *)
(***************************************************************************)
DistinctIds == \A x, y \in Leaves : leafId[x] = leafId[y] => x = y

\* The list of an id after a step.
ListAfter(id) == IF id \in DOMAIN formulaDb' THEN formulaDb'[id] ELSE <<>>

\* An insertion changes the hits of one leaf: one more, or one lost.
LEMMA ListsAfterInsert ==
  ASSUME Base, InsertSubexpression
  PROVE  /\ \A id : id # leafId'[Sub] => ListAfter(id) = HitsOf(id)
         /\ \/ ListAfter(leafId'[Sub]) = Append(HitsOf(leafId'[Sub]), NewHit) /\ lost' = lost
            \/ ListAfter(leafId'[Sub]) = HitsOf(leafId'[Sub]) /\ lost' = lost + 1
         /\ NewHit \in Hit /\ HitsOf(leafId'[Sub]) \in Seq(Hit)
<1>1. NewHit \in Hit /\ HitsOf(leafId'[Sub]) \in Seq(Hit)
  BY InsertHit, HitsOfType DEF Base
<1>2. CASE UNCHANGED formulaDb /\ lost' = lost + 1
  BY <1>1, <1>2 DEF ListAfter, HitsOf
<1>3. CASE /\ lost' = lost
           /\ DOMAIN formulaDb' = DOMAIN formulaDb \cup {leafId'[Sub]}
           /\ formulaDb'[leafId'[Sub]] = Append(HitsOf(leafId'[Sub]), NewHit)
           /\ \A k \in DOMAIN formulaDb \ {leafId'[Sub]} : formulaDb'[k] = formulaDb[k]
  BY <1>1, <1>3 DEF ListAfter, HitsOf
<1> QED
  BY <1>2, <1>3, InsertHit

\* The steps that leave leaves, counts and lists alone.
LEMMA OtherSteps ==
  ASSUME [Next]_vars, ~InsertSubexpression
  PROVE  UNCHANGED <<leafId, nextId, solutions, formulaDb, lost>>
  BY DEF Next, vars, indexCrawlData, putData, BeginExpression, SkipSubexpression, RepeatedSubexpression,
         EndExpression

\* Leaves keep ids of their own.
LEMMA DistinctStep == Base /\ DistinctIds /\ [Next]_vars => DistinctIds'
<1> SUFFICES ASSUME Base, DistinctIds, [Next]_vars PROVE DistinctIds'
  OBVIOUS
<1>1. CASE InsertSubexpression
  <2>1. /\ Leaves' = Leaves \cup {Sub}
        /\ \A x \in Leaves : leafId'[x] = leafId[x]
        /\ Sub \notin Leaves => leafId'[Sub] = nextId + 1
    BY <1>1, InsertLeaf
  <2>2. nextId \in Nat /\ \A x \in Leaves : leafId[x] \in 1..nextId
    BY DEF Base, TypeOK
  <2>3. \A x \in Leaves : leafId[x] # nextId + 1
    BY <2>2
  <2> QED
    BY <2>1, <2>3 DEF DistinctIds
<1>2. CASE ~InsertSubexpression
  BY <1>2, OtherSteps DEF DistinctIds, Leaves
<1> QED
  BY <1>1, <1>2

\* Before x got its leaf it had neither hits nor a count.
CountBefore(x) == IF x \in Leaves THEN solutions[x] ELSE 0
HitsBefore(x) == IF x \in Leaves THEN Len(HitsOf(leafId[x])) ELSE 0

\* The list of one leaf and its count grow together, if the insertion succeeds.
LEMMA InsertCounts ==
  ASSUME Base, DistinctIds, InsertSubexpression, NEW x \in Leaves'
  PROVE  LET hits == Len(ListAfter(leafId'[x]))
         IN  \/ hits = HitsBefore(x) /\ solutions'[x] = CountBefore(x)
             \/ hits = HitsBefore(x) + 1 /\ solutions'[x] = CountBefore(x) + 1
             \/ /\ hits = HitsBefore(x) /\ solutions'[x] = CountBefore(x) + 1
                /\ lost' = lost + 1
<1>1. /\ Leaves' = Leaves \cup {Sub}
      /\ \A y \in Leaves : leafId'[y] = leafId[y]
      /\ Sub \notin Leaves => leafId'[Sub] = nextId + 1
  BY InsertLeaf
<1>2. /\ nextId \in Nat /\ solutions \in [Leaves -> Nat] /\ DOMAIN formulaDb \subseteq 1..nextId
      /\ \A y \in Leaves : leafId[y] \in 1..nextId
  BY DEF Base, TypeOK
<1>3. solutions'[x] = (IF x \in Leaves THEN solutions[x] ELSE 0) + (IF x = Sub THEN 1 ELSE 0)
  BY <1>1 DEF InsertSubexpression, CountSolution
<1>e. Len(<<>>) = 0
  OBVIOUS
<1>4. CASE x # Sub
  <2>1. x \in Leaves /\ leafId'[x] = leafId[x]
    BY <1>1, <1>4
  <2>2. leafId[x] # leafId'[Sub]
    <3>1. CASE Sub \in Leaves
      BY <3>1, <1>1, <1>4, <2>1 DEF DistinctIds
    <3>2. CASE Sub \notin Leaves
      BY <3>2, <1>1, <1>2, <2>1
    <3> QED
      BY <3>1, <3>2
  <2>3. ListAfter(leafId'[x]) = HitsOf(leafId[x])
    BY <2>1, <2>2, ListsAfterInsert
  <2> QED
    BY <1>2, <1>3, <1>4, <2>1, <2>3 DEF CountBefore, HitsBefore
<1>5. CASE x = Sub
  <2>1. /\ \/ ListAfter(leafId'[x]) = Append(HitsOf(leafId'[x]), NewHit)
           \/ ListAfter(leafId'[x]) = HitsOf(leafId'[x]) /\ lost' = lost + 1
        /\ NewHit \in Hit /\ HitsOf(leafId'[x]) \in Seq(Hit)
    BY <1>5, ListsAfterInsert
  <2>2. solutions'[x] = CountBefore(x) + 1
    BY <1>3, <1>5 DEF CountBefore
  <2>3. Len(HitsOf(leafId'[x])) = HitsBefore(x)
    <3>1. CASE x \in Leaves
      BY <3>1, <1>1 DEF HitsBefore
    <3>2. CASE x \notin Leaves
      <4>1. HitsOf(leafId'[x]) = <<>>
        BY <1>1, <1>2, <1>5, <3>2 DEF HitsOf
      <4> QED
        BY <4>1, <1>e, <3>2 DEF HitsBefore
    <3> QED
      BY <3>1, <3>2
  <2>4. CASE ListAfter(leafId'[x]) = Append(HitsOf(leafId'[x]), NewHit)
    BY <2>1, <2>2, <2>3, <2>4
  <2>5. CASE ListAfter(leafId'[x]) = HitsOf(leafId'[x]) /\ lost' = lost + 1
    BY <2>2, <2>3, <2>5
  <2> QED
    BY <2>1, <2>4, <2>5
<1> QED
  BY <1>4, <1>5

\* Every step preserves StoreWithinCount.
LEMMA StoreStep == Base /\ StoreWithinCount /\ [Next]_vars => StoreWithinCount'
<1> SUFFICES ASSUME Base, StoreWithinCount, [Next]_vars PROVE StoreWithinCount'
  OBVIOUS
<1>1. DistinctIds /\ DistinctIds'
  BY DistinctStep DEF StoreWithinCount, DistinctIds
<1>2. CASE InsertSubexpression
  <2> SUFFICES ASSUME NEW x \in Leaves' PROVE Len(ListAfter(leafId'[x])) <= solutions'[x]
    BY <1>1 DEF StoreWithinCount, DistinctIds, HitsOf, ListAfter
  <2>1. HitsBefore(x) \in Nat /\ CountBefore(x) \in Nat /\ HitsBefore(x) <= CountBefore(x)
    <3>1. CASE x \in Leaves
      <4>1. HitsOf(leafId[x]) \in Seq(Hit)
        BY HitsOfType DEF Base
      <4> QED
        BY <3>1, <4>1 DEF Base, TypeOK, StoreWithinCount, HitsBefore, CountBefore
    <3>2. CASE x \notin Leaves
      BY <3>2 DEF HitsBefore, CountBefore
    <3> QED
      BY <3>1, <3>2
  <2>2. \/ /\ Len(ListAfter(leafId'[x])) = HitsBefore(x)
           /\ solutions'[x] \in {CountBefore(x), CountBefore(x) + 1}
        \/ /\ Len(ListAfter(leafId'[x])) = HitsBefore(x) + 1
           /\ solutions'[x] = CountBefore(x) + 1
    BY <1>1, <1>2, InsertCounts
  <2> QED
    BY <2>1, <2>2
<1>3. CASE ~InsertSubexpression
  BY <1>3, OtherSteps DEF StoreWithinCount, Leaves, HitsOf
<1> QED
  BY <1>2, <1>3

\* Failed insertions never make the database hold more hits than announced.
THEOREM StoreWithinCountCorrect == Spec => []StoreWithinCount
<1>1. Init => StoreWithinCount
  BY DEF Init, StoreWithinCount, Leaves, EmptyMap
<1> QED
  BY <1>1, BaseInit, BaseStep, StoreStep, PTL DEF Spec

\* Every step preserves HitsMatchStore.
LEMMA MatchStep == Base /\ DistinctIds /\ HitsMatchStore /\ [Next]_vars => HitsMatchStore'
<1> SUFFICES ASSUME Base, DistinctIds, HitsMatchStore, [Next]_vars, lost' = 0, NEW x \in Leaves'
             PROVE  solutions'[x] = Len(ListAfter(leafId'[x]))
  BY DEF HitsMatchStore, HitsOf, ListAfter
<1>1. lost \in Nat
  BY DEF Base, TypeOK
<1>2. CASE InsertSubexpression
  <2>1. lost = 0 /\ lost' # lost + 1
    BY <1>1, <1>2, ListsAfterInsert
  <2>2. HitsBefore(x) = CountBefore(x)
    BY <2>1 DEF HitsMatchStore, HitsBefore, CountBefore
  <2>3. \/ Len(ListAfter(leafId'[x])) = HitsBefore(x) /\ solutions'[x] = CountBefore(x)
        \/ /\ Len(ListAfter(leafId'[x])) = HitsBefore(x) + 1
           /\ solutions'[x] = CountBefore(x) + 1
    BY <1>2, <2>1, InsertCounts
  <2> QED
    BY <2>2, <2>3
<1>3. CASE ~InsertSubexpression
  BY <1>3, OtherSteps DEF HitsMatchStore, Leaves, HitsOf, ListAfter
<1> QED
  BY <1>2, <1>3

\* As long as no insertion failed, every leaf announces exactly the hits
\* stored for it: getResult may count with the trie and page through the
\* database.
THEOREM HitsMatchStoreCorrect == Spec => []HitsMatchStore
<1>1. Init => DistinctIds /\ HitsMatchStore
  BY DEF Init, DistinctIds, HitsMatchStore, Leaves, EmptyMap
<1> QED
  BY <1>1, BaseInit, BaseStep, DistinctStep, MatchStep, PTL DEF Spec

-----------------------------------------------------------------------------
(***************************************************************************)
(* Crawl data.  Stored ids and the id of the call in progress all come     *)
(* from indexCrawlData, whose data is never removed.                       *)
(***************************************************************************)
CurrentResolvable == current.crawlId \in crawlDb \cup {CRAWLID_NULL}

\* Crawl data stays resolvable.
LEMMA CrawlStep ==
  Base /\ CurrentResolvable /\ CrawlDataResolvable /\ [Next]_vars
    => CurrentResolvable' /\ CrawlDataResolvable'
<1> SUFFICES ASSUME Base, CurrentResolvable, CrawlDataResolvable, [Next]_vars
             PROVE  CurrentResolvable' /\ CrawlDataResolvable'
  OBVIOUS
<1>1. crawlDb \subseteq crawlDb'
  BY DEF Next, vars, indexCrawlData, putData, BeginExpression, SkipSubexpression, RepeatedSubexpression,
         InsertSubexpression, EndExpression
<1>2. CurrentResolvable'
  <2>t. current \in [crawlId : Nat, pos : Nat]
    BY DEF Base, TypeOK
  <2>1. ASSUME NEW e \in Expressions, NEW c \in crawlDb \cup {CRAWLID_NULL}, BeginExpression(e, c)
        PROVE  CurrentResolvable'
    BY <2>1, <1>1 DEF BeginExpression, CurrentResolvable
  <2>2. CASE EndExpression
    BY <2>2 DEF EndExpression, CurrentResolvable
  <2>3. CASE indexCrawlData \/ UNCHANGED vars
    BY <2>3, <1>1 DEF indexCrawlData, putData, vars, CurrentResolvable
  <2>4. CASE SkipSubexpression \/ RepeatedSubexpression \/ InsertSubexpression
    <3>1. Advance
      BY <2>4 DEF SkipSubexpression, RepeatedSubexpression, InsertSubexpression, CountSolution
    <3>2. current'.crawlId = current.crawlId
      BY <3>1, <2>t DEF Advance
    <3> QED
      BY <3>2, <1>1 DEF CurrentResolvable
  <2> QED
    BY <2>1, <2>2, <2>3, <2>4 DEF Next
<1>3. CASE InsertSubexpression
  <2> SUFFICES ASSUME NEW id \in DOMAIN formulaDb', NEW i \in DOMAIN formulaDb'[id]
               PROVE  formulaDb'[id][i].crawlId \in crawlDb' \cup {CRAWLID_NULL}
    BY <1>2 DEF CrawlDataResolvable, getDataFinds
  <2>1. ListAfter(id) = formulaDb'[id]
    BY DEF ListAfter
  <2>2. CASE ListAfter(id) = HitsOf(id)
    <3>1. id \in DOMAIN formulaDb /\ formulaDb[id] = formulaDb'[id]
      BY <2>1, <2>2 DEF HitsOf
    <3> QED
      BY <3>1, <1>1 DEF CrawlDataResolvable, getDataFinds
  <2>3. CASE ListAfter(id) = Append(HitsOf(id), NewHit) /\ HitsOf(id) \in Seq(Hit)
    <3>1. i \in 1..(Len(HitsOf(id)) + 1)
      BY <2>1, <2>3
    <3>2. CASE i = Len(HitsOf(id)) + 1
      <4>1. formulaDb'[id][i] = NewHit
        BY <2>1, <2>3, <3>2
      <4> QED
        BY <4>1, <1>1 DEF NewHit, CurrentResolvable
    <3>3. CASE i \in 1..Len(HitsOf(id))
      <4>1. formulaDb'[id][i] = HitsOf(id)[i]
        BY <2>1, <2>3, <3>3
      <4>2. id \in DOMAIN formulaDb /\ HitsOf(id) = formulaDb[id] /\ i \in DOMAIN formulaDb[id]
        BY <2>3, <3>3 DEF HitsOf
      <4> QED
        BY <4>1, <4>2, <1>1 DEF CrawlDataResolvable, getDataFinds
    <3> QED
      BY <2>3, <3>1, <3>2, <3>3
  <2> QED
    BY <1>3, <2>2, <2>3, ListsAfterInsert
<1>4. CASE ~InsertSubexpression
  BY <1>1, <1>2, <1>4, OtherSteps DEF CrawlDataResolvable, getDataFinds
<1> QED
  BY <1>2, <1>3, <1>4

\* The crawl id of every stored hit is one indexCrawlData stored, or null.
THEOREM CrawlDataCorrect == Spec => []CrawlDataResolvable
<1>1. Init => CurrentResolvable /\ CrawlDataResolvable
  BY DEF Init, CurrentResolvable, CrawlDataResolvable, getDataFinds, EmptyMap
<1> QED
  BY <1>1, BaseInit, BaseStep, CrawlStep, PTL DEF Spec
-----------------------------------------------------------------------------
(***************************************************************************)
(* One hit per expression.  A hit stored during a call has its formula in  *)
(* uniqueFormulaIds until the call returns, and a new call has a new       *)
(* number, so that a hit is appended only where all others are older.      *)
(***************************************************************************)
HitsRemembered ==
  \A id \in DOMAIN formulaDb : \A i \in DOMAIN formulaDb[id] :
    /\ formulaDb[id][i].expr <= Len(processed)
    /\ ~Idle /\ formulaDb[id][i].expr = Len(processed) => id \in unique

\* What a list of hits looks like after InsertSubexpression, hit by hit.
LEMMA HitAfterInsert ==
  ASSUME Base, InsertSubexpression, NEW id \in DOMAIN formulaDb', NEW i \in DOMAIN formulaDb'[id]
  PROVE  \/ /\ id \in DOMAIN formulaDb /\ i \in DOMAIN formulaDb[id] /\ i \in Nat
            /\ formulaDb'[id][i] = formulaDb[id][i] /\ formulaDb[id][i] \in Hit
         \/ /\ id = leafId'[Sub] /\ formulaDb'[id][i] = NewHit
            /\ i = Len(formulaDb'[id]) /\ DOMAIN formulaDb'[id] = 1..i /\ i \in Nat
<1>1. ListAfter(id) = formulaDb'[id]
  BY DEF ListAfter
<1>t. \A k \in DOMAIN formulaDb : formulaDb[k] \in Seq(Hit)
  BY DEF Base, TypeOK
<1>2. CASE ListAfter(id) = HitsOf(id)
  <2>1. id \in DOMAIN formulaDb /\ formulaDb[id] = formulaDb'[id]
    BY <1>1, <1>2 DEF HitsOf
  <2> QED
    BY <2>1, <1>t
<1>3. CASE /\ id = leafId'[Sub] /\ ListAfter(id) = Append(HitsOf(id), NewHit)
           /\ HitsOf(id) \in Seq(Hit) /\ NewHit \in Hit
  <2>1. /\ i \in 1..(Len(HitsOf(id)) + 1) /\ DOMAIN formulaDb'[id] = 1..(Len(HitsOf(id)) + 1)
        /\ Len(formulaDb'[id]) = Len(HitsOf(id)) + 1 /\ Len(HitsOf(id)) \in Nat
    BY <1>1, <1>3
  <2>2. CASE i = Len(HitsOf(id)) + 1
    <3>1. formulaDb'[id][i] = NewHit
      BY <1>1, <1>3, <2>2
    <3> QED
      BY <3>1, <1>3, <2>1, <2>2
  <2>3. CASE i \in 1..Len(HitsOf(id))
    <3>1. formulaDb'[id][i] = HitsOf(id)[i]
      BY <1>1, <1>3, <2>3
    <3>2. id \in DOMAIN formulaDb /\ HitsOf(id) = formulaDb[id] /\ i \in DOMAIN formulaDb[id]
      BY <1>3, <2>3 DEF HitsOf
    <3> QED
      BY <3>1, <3>2, <1>t, <2>3
  <2> QED
    BY <2>1, <2>2, <2>3
<1> QED
  BY <1>2, <1>3, ListsAfterInsert

\* Every step preserves HitsRemembered and OneHitPerExpression.
LEMMA RememberedStep ==
  ASSUME Base, HitsRemembered, OneHitPerExpression, [Next]_vars
  PROVE  HitsRemembered' /\ OneHitPerExpression'
<1>t. /\ processed \in Seq(Expressions) /\ Len(processed) \in Nat
      /\ current \in [crawlId : Nat, pos : Nat]
      /\ \A id \in DOMAIN formulaDb : formulaDb[id] \in Seq(Hit)
  BY DEF Base, TypeOK
<1>e. \A id \in DOMAIN formulaDb : \A i \in DOMAIN formulaDb[id] : formulaDb[id][i].expr \in Nat
  <2> SUFFICES ASSUME NEW id \in DOMAIN formulaDb, NEW i \in DOMAIN formulaDb[id]
               PROVE  formulaDb[id][i].expr \in Nat
    OBVIOUS
  <2>1. formulaDb[id][i] \in Hit
    BY <1>t
  <2> QED
    BY <2>1 DEF Hit
<1>1. CASE InsertSubexpression
  <2>1. /\ ~Idle /\ leafId'[Sub] \notin unique /\ unique' = unique \cup {leafId'[Sub]}
        /\ processed' = processed
    BY <1>1 DEF InsertSubexpression, CountSolution, MoreSubexpressions
  <2>2. NewHit.expr = Len(processed)
    BY DEF NewHit
  <2>3. HitsRemembered'
    <3> SUFFICES ASSUME NEW id \in DOMAIN formulaDb', NEW i \in DOMAIN formulaDb'[id]
                 PROVE  /\ formulaDb'[id][i].expr <= Len(processed')
                        /\ formulaDb'[id][i].expr = Len(processed') => id \in unique'
      BY DEF HitsRemembered
    <3> QED
      BY <1>1, <1>t, <2>1, <2>2, HitAfterInsert DEF HitsRemembered
  <2>4. OneHitPerExpression'
    <3> SUFFICES ASSUME NEW id \in DOMAIN formulaDb', NEW i \in DOMAIN formulaDb'[id],
                        NEW j \in DOMAIN formulaDb'[id], i < j
                 PROVE  formulaDb'[id][i].expr < formulaDb'[id][j].expr
      BY DEF OneHitPerExpression
    <3>1. \/ /\ id \in DOMAIN formulaDb /\ i \in DOMAIN formulaDb[id] /\ i \in Nat
             /\ formulaDb'[id][i] = formulaDb[id][i]
          \/ i = Len(formulaDb'[id]) /\ DOMAIN formulaDb'[id] = 1..i /\ i \in Nat
      BY <1>1, HitAfterInsert
    <3>2. /\ id \in DOMAIN formulaDb /\ i \in DOMAIN formulaDb[id]
          /\ formulaDb'[id][i] = formulaDb[id][i]
      BY <3>1
    <3>3. CASE id \in DOMAIN formulaDb /\ j \in DOMAIN formulaDb[id] /\ formulaDb'[id][j] = formulaDb[id][j]
      BY <3>2, <3>3 DEF OneHitPerExpression
    <3>4. CASE id = leafId'[Sub] /\ formulaDb'[id][j] = NewHit
      BY <3>2, <3>4, <1>e, <1>t, <2>1, <2>2 DEF HitsRemembered
    <3> QED
      BY <1>1, <3>3, <3>4, HitAfterInsert
  <2> QED
    BY <2>3, <2>4
<1>2. CASE ~InsertSubexpression
  <2>1. formulaDb' = formulaDb
    BY <1>2, OtherSteps
  <2>o. OneHitPerExpression'
    BY <2>1 DEF OneHitPerExpression
  <2>2. ASSUME NEW e \in Expressions, NEW c \in crawlDb \cup {CRAWLID_NULL}, BeginExpression(e, c)
        PROVE  HitsRemembered'
    <3>1. Len(processed') = Len(processed) + 1
      BY <2>2, <1>t DEF BeginExpression
    <3> QED
      BY <3>1, <2>1, <1>t, <1>e DEF HitsRemembered
  <2>3. CASE SkipSubexpression \/ RepeatedSubexpression
    <3>1. ~Idle /\ UNCHANGED <<processed, unique>>
      BY <2>3 DEF SkipSubexpression, RepeatedSubexpression, MoreSubexpressions
    <3> QED
      BY <3>1, <2>1, <2>o DEF HitsRemembered
  <2>4. CASE EndExpression
    BY <2>4, <2>1, <2>o DEF EndExpression, HitsRemembered, Idle
  <2>5. CASE indexCrawlData \/ UNCHANGED vars
    BY <2>5, <2>o DEF indexCrawlData, vars, HitsRemembered, Idle
  <2>6. HitsRemembered'
    BY <1>2, <2>2, <2>3, <2>4, <2>5 DEF Next
  <2> QED
    BY <2>6, <2>o
<1> QED
  BY <1>1, <1>2

\* The hits of a formula are in the order of the expressions, at most one for
\* each, for any expressions and whichever insertions fail.
THEOREM OneHitPerExpressionCorrect == Spec => []OneHitPerExpression
<1>1. Init => HitsRemembered /\ OneHitPerExpression
  BY DEF Init, HitsRemembered, OneHitPerExpression, EmptyMap
<1>2. Base /\ HitsRemembered /\ OneHitPerExpression /\ [Next]_vars
        => HitsRemembered' /\ OneHitPerExpression'
  BY RememberedStep
<1> QED
  BY <1>1, <1>2, BaseInit, BaseStep, PTL DEF Spec
-----------------------------------------------------------------------------
(***************************************************************************)
(* No subexpression is left out.  Hits and leaves are never removed, and a *)
(* subexpression is passed over as a repetition only when its formula got  *)
(* its hit earlier in the same call.                                       *)
(***************************************************************************)
HasHit(n, x, i) ==
  /\ x \in Leaves
  /\ \E h \in ToSet(HitsOf(leafId[x])) : h.expr = n /\ h.path <= i /\ processed[n][h.path] = x

\* The subexpressions passed so far, and the formulas of the call in progress.
StoredSoFar ==
  lost = 0 =>
    /\ \A n \in DOMAIN processed : \A i \in DOMAIN processed[n] :
         (Idle \/ n < Len(processed) \/ i < current.pos) /\ processed[n][i] # Unencodable
           => HasHit(n, processed[n][i], i)
    /\ ~Idle => \A x \in Leaves : leafId[x] \in unique => HasHit(Len(processed), x, current.pos)

\* The members of a list of hits are hits.
LEMMA HitMembers ==
  ASSUME TypeOK, NEW id, NEW h \in ToSet(HitsOf(id))
  PROVE  h \in Hit /\ h.path \in Nat
<1>1. HitsOf(id) \in Seq(Hit)
  BY HitsOfType
<1>2. h \in Hit
  BY <1>1 DEF ToSet
<1> QED
  BY <1>2 DEF Hit

\* A hit stays, and so does the leaf it is stored under.
LEMMA HitKept ==
  ASSUME Base, [Next]_vars, NEW n \in DOMAIN processed, NEW x, NEW i \in Nat, NEW j \in Nat,
         HasHit(n, x, i), i <= j
  PROVE  HasHit(n, x, j)'
<1>t. processed \in Seq(Expressions)
  BY DEF Base, TypeOK
<1>1. n \in DOMAIN processed' /\ processed'[n] = processed[n]
  <2>1. ASSUME NEW e \in Expressions, NEW c \in crawlDb \cup {CRAWLID_NULL}, BeginExpression(e, c)
        PROVE  n \in DOMAIN processed' /\ processed'[n] = processed[n]
    BY <2>1, <1>t DEF BeginExpression
  <2>2. CASE ~\E e \in Expressions, c \in crawlDb \cup {CRAWLID_NULL} : BeginExpression(e, c)
    BY <2>2 DEF Next, vars, indexCrawlData, SkipSubexpression, RepeatedSubexpression, InsertSubexpression,
       EndExpression
  <2> QED
    BY <2>1, <2>2
<1>2. x \in Leaves' /\ leafId'[x] = leafId[x]
  <2>1. CASE InsertSubexpression
    BY <2>1, InsertLeaf DEF HasHit
  <2>2. CASE ~InsertSubexpression
    BY <2>2, OtherSteps DEF HasHit, Leaves
  <2> QED
    BY <2>1, <2>2
<1>3. PICK h \in ToSet(HitsOf(leafId[x])) : h.expr = n /\ h.path <= i /\ processed[n][h.path] = x
  BY DEF HasHit
<1>4. h \in ToSet(ListAfter(leafId[x]))
  <2>1. CASE InsertSubexpression
    <3>1. HitsOf(leafId[x]) \in Seq(Hit)
      BY HitsOfType DEF Base
    <3>2. CASE ListAfter(leafId[x]) = HitsOf(leafId[x])
      BY <3>2
    <3>3. CASE ListAfter(leafId[x]) = Append(HitsOf(leafId[x]), NewHit) /\ NewHit \in Hit
      BY <3>1, <3>3 DEF ToSet
    <3> QED
      BY <2>1, <3>2, <3>3, ListsAfterInsert
  <2>2. CASE ~InsertSubexpression
    BY <2>2, OtherSteps DEF ListAfter, HitsOf
  <2> QED
    BY <2>1, <2>2
<1>5. h.path \in Nat
  BY HitMembers DEF Base
<1>6. h.path <= j
  BY <1>3, <1>5
<1>7. \E k \in ToSet(ListAfter(leafId'[x])) : k.expr = n /\ k.path <= j /\ processed'[n][k.path] = x
  BY <1>1, <1>2, <1>3, <1>4, <1>6
<1> QED
  BY <1>2, <1>7 DEF HasHit, HitsOf, ListAfter

\* Where no insertion fails, the subexpression at hand gets its hit.
LEMMA HitAdded ==
  ASSUME Base, InsertSubexpression, lost' = 0, NEW n, n = Len(processed), NEW j \in Nat, current.pos <= j,
         NEW x, x = Sub
  PROVE  HasHit(n, x, j)'
<1>1. MoreSubexpressions /\ processed' = processed
  BY DEF InsertSubexpression, CountSolution
<1>2. /\ processed \in Seq(Expressions) /\ n \in DOMAIN processed /\ current.pos \in Nat
      /\ processed[n][current.pos] = x
  BY <1>1, SubType DEF Expr, Sub
<1>3. x \in Leaves'
  BY InsertLeaf
<1>4. ListAfter(leafId'[x]) = Append(HitsOf(leafId'[x]), NewHit) /\ HitsOf(leafId'[x]) \in Seq(Hit)
  <2>1. lost' # lost + 1
    BY DEF Base, TypeOK
  <2> QED
    BY <2>1, ListsAfterInsert
<1>5. NewHit \in ToSet(ListAfter(leafId'[x]))
  <2> DEFINE s == HitsOf(leafId'[x])
  <2>1. Append(s, NewHit)[Len(s) + 1] = NewHit /\ Len(s) + 1 \in DOMAIN Append(s, NewHit)
    BY <1>4
  <2> QED
    BY <1>4, <2>1 DEF ToSet
<1>6. NewHit.expr = n /\ NewHit.path <= j /\ processed'[n][NewHit.path] = x
  BY <1>1, <1>2 DEF NewHit
<1>7. \E k \in ToSet(ListAfter(leafId'[x])) : k.expr = n /\ k.path <= j /\ processed'[n][k.path] = x
  BY <1>5, <1>6
<1> QED
  BY <1>3, <1>7 DEF HasHit, HitsOf, ListAfter

\* Every step preserves StoredSoFar.
LEMMA StoredStep ==
  ASSUME Base, DistinctIds, StoredSoFar, [Next]_vars
  PROVE  StoredSoFar'
<1> SUFFICES ASSUME lost' = 0
             PROVE  /\ \A n \in DOMAIN processed' : \A i \in DOMAIN processed'[n] :
                         /\ Idle' \/ n < Len(processed') \/ i < current'.pos
                         /\ processed'[n][i] # Unencodable
                         => HasHit(n, processed[n][i], i)'
                    /\ ~Idle' => \A x \in Leaves' : leafId'[x] \in unique'
                                     => HasHit(Len(processed), x, current.pos)'
  BY DEF StoredSoFar
<1>t. /\ processed \in Seq(Expressions) /\ Len(processed) \in Nat
      /\ current \in [crawlId : Nat, pos : Nat] /\ lost \in Nat
  BY DEF Base, TypeOK
<1>e. \A n \in DOMAIN processed : \A i \in DOMAIN processed[n] : i \in Nat
  BY <1>t, ExpressionsAssumption
<1>0. lost = 0
  BY <1>t, OtherSteps, ListsAfterInsert
<1>1. CASE InsertSubexpression \/ SkipSubexpression \/ RepeatedSubexpression
  <2>1. /\ MoreSubexpressions /\ ~Idle /\ processed' = processed
        /\ current'.pos = current.pos + 1 /\ ~Idle'
    BY <1>1, <1>t DEF InsertSubexpression, CountSolution, SkipSubexpression, RepeatedSubexpression,
       MoreSubexpressions, Advance, Idle
  <2>2. /\ current.pos \in Nat /\ Len(processed) \in DOMAIN processed
        /\ current.pos \in DOMAIN processed[Len(processed)]
    BY <2>1, <1>t, SubType DEF Expr
  <2>3. ASSUME NEW n \in DOMAIN processed, NEW i \in DOMAIN processed[n],
               n < Len(processed) \/ i < current.pos + 1, processed[n][i] # Unencodable,
               NEW x, x = processed[n][i]
        PROVE  HasHit(n, x, i)'
    <3>1. CASE n < Len(processed) \/ i < current.pos
      BY <3>1, <2>3, <1>0, <1>e, HitKept DEF StoredSoFar
    <3>2. CASE ~(n < Len(processed) \/ i < current.pos)
      <4>1. n = Len(processed) /\ i = current.pos /\ x = Sub
        BY <3>2, <2>2, <2>3, <1>t, <1>e DEF Sub, Expr
      <4>2. CASE InsertSubexpression
        BY <4>1, <4>2, <2>2, HitAdded
      <4>3. CASE SkipSubexpression
        BY <4>1, <4>3, <2>3 DEF SkipSubexpression
      <4>4. CASE RepeatedSubexpression
        BY <4>1, <4>4, <2>1, <2>2, <1>0, HitKept DEF RepeatedSubexpression, StoredSoFar
      <4> QED
        BY <1>1, <4>2, <4>3, <4>4
    <3> QED
      BY <3>1, <3>2
  <2>4. ASSUME NEW x \in Leaves', leafId'[x] \in unique', NEW n, n = Len(processed),
               NEW j, j = current.pos + 1
        PROVE  HasHit(n, x, j)'
    <3>1. CASE x \in Leaves /\ leafId[x] \in unique
      BY <3>1, <2>1, <2>2, <2>4, <1>0, HitKept DEF StoredSoFar
    <3>2. CASE InsertSubexpression /\ ~(x \in Leaves /\ leafId[x] \in unique)
      <4>1. /\ Leaves' = Leaves \cup {Sub}
            /\ \A y \in Leaves : leafId'[y] = leafId[y]
            /\ Sub \notin Leaves => leafId'[Sub] = nextId + 1
        BY <3>2, InsertLeaf
      <4>2. unique' = unique \cup {leafId'[Sub]}
        BY <3>2 DEF InsertSubexpression
      <4>3. nextId \in Nat /\ unique \subseteq 1..nextId
        BY DEF Base, TypeOK
      <4>4. DistinctIds'
        BY DistinctStep
      <4>5. leafId'[x] = leafId'[Sub]
        BY <2>4, <3>2, <4>1, <4>2, <4>3
      <4>6. x = Sub
        BY <2>4, <4>1, <4>4, <4>5 DEF DistinctIds
      <4> QED
        BY <2>2, <2>4, <3>2, <4>6, HitAdded
    <3>3. CASE ~InsertSubexpression /\ ~(x \in Leaves /\ leafId[x] \in unique)
      BY <1>1, <2>4, <3>3, OtherSteps DEF SkipSubexpression, RepeatedSubexpression, Leaves
    <3> QED
      BY <3>1, <3>2, <3>3
  <2> QED
    BY <2>1, <2>3, <2>4
<1>2. ASSUME NEW e \in Expressions, NEW c \in crawlDb \cup {CRAWLID_NULL}, BeginExpression(e, c)
      PROVE  StoredSoFar'
  <2>1. /\ Idle /\ processed' = Append(processed, e) /\ current'.pos = 1 /\ unique' = {}
        /\ leafId' = leafId
    BY <1>2 DEF BeginExpression
  <2>2. /\ Len(processed') = Len(processed) + 1
        /\ \A n \in DOMAIN processed' : n < Len(processed') =>
              n \in DOMAIN processed /\ processed'[n] = processed[n]
    BY <1>t, <2>1
  <2>3. \A n \in DOMAIN processed' : n \in 1..Len(processed')
    BY <1>t, <2>1
  <2>4. \A i \in DOMAIN e : ~(i < 1)
    BY ExpressionsAssumption
  <2>5. processed'[Len(processed')] = e
    BY <1>t, <2>1
  <2>6. ASSUME NEW n \in DOMAIN processed', NEW i \in DOMAIN processed'[n],
               n < Len(processed') \/ i < current'.pos, processed'[n][i] # Unencodable,
               NEW x, x = processed'[n][i]
        PROVE  HasHit(n, x, i)'
    <3>1. n < Len(processed')
      BY <1>t, <2>1, <2>2, <2>3, <2>4, <2>5, <2>6
    <3>2. n \in DOMAIN processed /\ processed'[n] = processed[n] /\ i \in DOMAIN processed[n] /\ i \in Nat
      BY <3>1, <2>2, <1>e
    <3>3. HasHit(n, x, i)
      BY <3>2, <2>1, <2>6, <1>0 DEF StoredSoFar
    <3> QED
      BY <3>2, <3>3, HitKept
  <2> QED
    BY <2>1, <2>6 DEF StoredSoFar, Idle
<1>3. CASE EndExpression
  <2>1. ~Idle /\ current.pos = Len(Expr) + 1 /\ processed' = processed /\ Idle'
    BY <1>3 DEF EndExpression, Idle
  <2>2. /\ Len(processed) \in DOMAIN processed /\ Expr \in Seq(Formulas \cup {Unencodable})
        /\ \A n \in DOMAIN processed : n < Len(processed) \/ n = Len(processed)
    <3>1. processed # <<>>
      BY <2>1 DEF Base, Called
    <3>2. Expr \in Expressions
      BY <1>t, <3>1 DEF Expr
    <3> QED
      BY <1>t, <3>1, <3>2, ExpressionsAssumption
  <2>3. \A i \in DOMAIN Expr : i < current.pos
    BY <2>1, <2>2
  <2>4. ASSUME NEW n \in DOMAIN processed, NEW i \in DOMAIN processed[n],
               processed[n][i] # Unencodable, NEW x, x = processed[n][i]
        PROVE  HasHit(n, x, i)'
    <3>1. n < Len(processed) \/ i < current.pos
      BY <2>2, <2>3, <2>4 DEF Expr
    <3> QED
      BY <3>1, <2>4, <1>0, <1>e, HitKept DEF StoredSoFar
  <2> QED
    BY <2>1, <2>4
<1>4. CASE indexCrawlData \/ UNCHANGED vars
  BY <1>0, <1>4 DEF indexCrawlData, vars, StoredSoFar, HasHit, HitsOf, Leaves, Idle
<1> QED
  BY <1>1, <1>2, <1>3, <1>4 DEF Next, StoredSoFar

\* Between two calls, and if no insertion failed, every encodable subexpression
\* of every expression has its hit, under the id of its own formula and at a
\* place no later than its own: indexContentMath leaves out only repetitions.
THEOREM EverySubexpressionStoredCorrect == Spec => []EverySubexpressionStored
<1>1. Init => DistinctIds /\ StoredSoFar
  BY DEF Init, DistinctIds, StoredSoFar, Leaves, EmptyMap, Idle
<1>2. Base /\ DistinctIds /\ StoredSoFar /\ [Next]_vars => StoredSoFar'
  BY StoredStep
<1>3. StoredSoFar => EverySubexpressionStored
  BY DEF StoredSoFar, EverySubexpressionStored, HasHit
<1> QED
  BY <1>1, <1>2, <1>3, BaseInit, BaseStep, DistinctStep, PTL DEF Spec

-----------------------------------------------------------------------------
(***************************************************************************)
(* The SAX handlers.                                                       *)
(***************************************************************************)
Element == [name : Tags \cup {"mws:harvest", "mws:expr", "mws:data"}, id : LocalIds \cup {NoId}]

Token == [tag : Tags, xref : {NoId}, depth : 1..(MaxDepth - 2)]

DocumentTypes ==
  /\ doc \in {"closed", "prolog", "root", "epilog", "aborted"}
  /\ open \in Seq(Element) /\ elements \in 0..MaxElements /\ file \in Nat

SaxTypes ==
  /\ state \in {"DEFAULT", "IN_MWS_HARVEST", "IN_MWS_EXPR", "IN_MWS_DATA", "UNKNOWN"}
  /\ prevState \in {"DEFAULT", "IN_MWS_HARVEST"}
  /\ unknownDepth \in Nat /\ copyDepth \in Nat /\ currentToken \in Nat
  /\ localId \in LocalIds \cup {NoId}

\* The ids that were handed out are ids of stored data.
IdsStored ==
  /\ DOMAIN localIdToCrawlIds \subseteq LocalIds
  /\ \A l \in DOMAIN localIdToCrawlIds : localIdToCrawlIds[l] \in crawlDb

\* What the handlers take for open is never more than what is: an error makes
\* them forget tokens, and nothing makes them invent any.
DepthFits ==
  /\ state = "IN_MWS_HARVEST" => 1 <= Len(open)
  /\ state = "IN_MWS_EXPR" => 2 + currentToken <= Len(open)
  /\ state = "IN_MWS_DATA" => 1 <= copyDepth /\ 1 + copyDepth <= Len(open)
  /\ state = "UNKNOWN" => /\ 1 <= unknownDepth
                          /\ unknownDepth + (IF prevState = "DEFAULT" THEN 0 ELSE 1) <= Len(open)
  /\ state # "IN_MWS_EXPR" => currentToken = 0

\* The tree under construction is a tree, and the current token is on its last branch.
TreeFits ==
  /\ state \in {"IN_MWS_HARVEST", "IN_MWS_DATA"} => 1 <= elements
  /\ state = "UNKNOWN" /\ prevState = "IN_MWS_HARVEST" => 1 <= elements
  /\ state = "IN_MWS_EXPR" => 2 <= elements
  /\ state = "IN_MWS_DATA" => localId # NoId
  /\ currentToken > 0 => /\ tokens \in Trees
                         /\ currentToken <= tokens[Len(tokens)].depth
                         /\ Len(tokens) + 2 <= elements

SaxInv == DocumentTypes /\ SaxTypes /\ DepthFits /\ TreeFits

-----------------------------------------------------------------------------
(***************************************************************************)
(* Trees and elements.                                                     *)
(***************************************************************************)
\* The bounds are numbers.
LEMMA Bounds == MaxElements \in Nat /\ MaxDepth \in Nat
  BY LoaderAssumption

\* A sequence without its last element.
LEMMA Shortened ==
  ASSUME NEW S, NEW s \in Seq(S), Len(s) >= 1
  PROVE  /\ SubSeq(s, 1, Len(s) - 1) \in Seq(S)
         /\ Len(SubSeq(s, 1, Len(s) - 1)) = Len(s) - 1
         /\ \A i \in 1..(Len(s) - 1) : SubSeq(s, 1, Len(s) - 1)[i] = s[i]
<1>1. ASSUME NEW n \in Nat, \A i \in 1..n : s[i] \in S
      PROVE  /\ SubSeq(s, 1, n) \in Seq(S) /\ Len(SubSeq(s, 1, n)) = n
             /\ \A i \in 1..n : SubSeq(s, 1, n)[i] = s[i]
  <2>1. /\ SubSeq(s, 1, n) \in Seq(S)
        /\ Len(SubSeq(s, 1, n)) = IF 1 <= n THEN n - 1 + 1 ELSE 0
        /\ \A i \in 1..(n - 1 + 1) : SubSeq(s, 1, n)[i] = s[1 + i - 1]
    BY <1>1, SubSeqProperties
  <2> QED
    BY <2>1
<1>2. Len(s) - 1 \in Nat /\ \A i \in 1..(Len(s) - 1) : s[i] \in S
  OBVIOUS
<1> QED
  BY <1>1, <1>2

\* Trees without the bounded quantifier over lengths.
LEMMA TreesAreSequences ==
  ASSUME NEW t
  PROVE  t \in Trees <=> /\ t \in Seq(Token) /\ Len(t) \in 1..(MaxElements - 2)
                         /\ t[1].depth = 1
                         /\ \A i \in 2..Len(t) : t[i].depth \in 2..(t[i-1].depth + 1)
<1>1. ASSUME NEW n \in 1..(MaxElements - 2), t \in [1..n -> Token]
      PROVE  t \in Seq(Token) /\ Len(t) = n
  BY <1>1, LoaderAssumption
<1>2. ASSUME t \in Seq(Token), Len(t) \in 1..(MaxElements - 2)
      PROVE  t \in [1..Len(t) -> Token]
  BY <1>2
<1> QED
  BY <1>1, <1>2 DEF Trees, Token

\* A root of its own is a tree, and so is one with a child on its last branch.
LEMMA RootIsTree ==
  ASSUME NEW name \in Tags, NEW tree, 3 <= MaxElements, 3 <= MaxDepth,
         NEW new, new = newChildNode(tree, 0, name, NoId)
  PROVE  new \in Trees /\ new[Len(new)].depth = 1 /\ Len(new) = 1
<1> DEFINE token == [tag |-> name, xref |-> NoId, depth |-> 1]
<1>1. new = <<token>>
  BY DEF newChildNode, newToken
<1>2. token \in Token /\ token.depth = 1
  BY Bounds DEF Token
<1>3. new \in Seq(Token) /\ Len(new) = 1 /\ new[1] = token
  BY <1>1, <1>2
<1> HIDE DEF token
<1>4. new[1].depth = 1
  BY <1>2, <1>3
<1>l. Len(new) = 1
  BY <1>3
<1>a. 1 \in 1..(MaxElements - 2) /\ \A i \in 2..1 : FALSE
  BY Bounds
<1>5. Len(new) \in 1..(MaxElements - 2)
  BY <1>l, <1>a, Zenon
<1>6. \A i \in 2..Len(new) : FALSE
  BY <1>l, <1>a, Zenon
<1> QED
  BY <1>3, <1>4, <1>5, <1>6, TreesAreSequences

\* newChildNode makes a tree of a tree.
LEMMA ChildMakesTree ==
  ASSUME NEW name \in Tags, NEW level \in Nat \ {0}, NEW tree \in Trees,
         level + 3 <= MaxDepth, level <= tree[Len(tree)].depth, Len(tree) + 3 <= MaxElements,
         NEW new, new = newChildNode(tree, level, name, NoId)
  PROVE  new \in Trees /\ new[Len(new)].depth = level + 1 /\ Len(new) = Len(tree) + 1
<1> DEFINE token == [tag |-> name, xref |-> NoId, depth |-> level + 1]
<1>1. new = Append(tree, token)
  BY DEF newChildNode, newToken
<1>2. token \in Token /\ token.depth = level + 1
  BY Bounds DEF Token
<1>3. /\ tree \in Seq(Token) /\ Len(tree) \in 1..(MaxElements - 2)
      /\ tree[1].depth = 1
      /\ \A i \in 2..Len(tree) : tree[i].depth \in 2..(tree[i-1].depth + 1)
  BY TreesAreSequences
<1>4. /\ new \in Seq(Token) /\ Len(new) = Len(tree) + 1 /\ new[Len(new)] = token
      /\ \A i \in 1..Len(tree) : new[i] = tree[i]
  BY <1>1, <1>2, <1>3
<1> HIDE DEF token
<1>5. Len(tree) \in Nat /\ Len(tree) >= 1
  BY <1>3, Bounds
<1>6. ASSUME NEW i \in 2..Len(new) PROVE new[i].depth \in 2..(new[i-1].depth + 1)
  <2>1. CASE i = Len(new)
    <3>1. new[i-1] = tree[Len(tree)] /\ tree[Len(tree)] \in Token
      BY <1>3, <1>4, <1>5, <2>1
    <3>2. tree[Len(tree)].depth \in Int
      BY <3>1 DEF Token
    <3> QED
      BY <1>2, <1>4, <2>1, <3>1, <3>2
  <2>2. CASE i # Len(new)
    <3>1. i \in 1..Len(tree) /\ i-1 \in 1..Len(tree) /\ i \in 2..Len(tree)
      BY <1>4, <1>5, <2>2
    <3>2. new[i] = tree[i] /\ new[i-1] = tree[i-1]
      BY <1>4, <3>1
    <3> QED
      BY <1>3, <3>1, <3>2
  <2> QED
    BY <2>1, <2>2
<1>7. new[1].depth = 1 /\ Len(new) \in 1..(MaxElements - 2)
  BY <1>3, <1>4, <1>5, Bounds
<1>8. new \in Trees
  BY <1>4, <1>6, <1>7, TreesAreSequences
<1> QED
  BY <1>2, <1>4, <1>8

\* In an expression the names of elements are tags; data and expressions may
\* have an id.
LEMMA ElementTypes ==
  ASSUME SaxTypes, NEW e \in Elements
  PROVE  e \in Element /\ (state = "IN_MWS_EXPR" => e.name \in Tags)
<1>1. CASE state = "IN_MWS_EXPR"
  BY <1>1 DEF Elements, Element
<1>2. CASE state \in {"IN_MWS_DATA", "UNKNOWN"}
  BY <1>2 DEF Elements, Element
<1>3. CASE state \in {"DEFAULT", "IN_MWS_HARVEST"}
  BY <1>3 DEF Elements, Element
<1> QED
  BY <1>1, <1>2, <1>3 DEF SaxTypes
-----------------------------------------------------------------------------
(***************************************************************************)
(* The steps, one by one: a file is opened, an element starts, an element  *)
(* ends, an error, the end of a document, a step of indexContentMath.      *)
(***************************************************************************)

\* What a step of loadHarvests does to the parser and the index.
LEMMA LoaderSteps ==
  ASSUME [loadHarvests]_harvestVars
  PROVE  ParseStep \/ processHarvestFromFd \/ UNCHANGED loadVars
  BY DEF loadHarvests, StartVisit, PassOverFile, LoadFile, OpenFails, NextDirectory, VisitEnds,
     harvestVars

\* SaxInv holds when loading begins.
LEMMA SaxInit == HarvestInit => SaxInv
  BY LoaderAssumption DEF HarvestInit, LoadInit, SaxInv, DocumentTypes, SaxTypes, DepthFits, TreeFits

\* startElement preserves SaxInv.
LEMMA SaxStart ==
  ASSUME SaxInv, NEW e \in Elements, startElement(e)
  PROVE  SaxInv'
<1> USE Bounds DEF SaxTypes, DepthFits
<1>1. /\ doc' = "root" /\ open' = Append(open, e) /\ elements' = elements + 1 /\ file' = file
      /\ elements < MaxElements /\ Len(open) < MaxDepth
  BY DEF startElement
<1>2. e \in Element /\ (state = "IN_MWS_EXPR" => e.name \in Tags) /\ e.id \in LocalIds \cup {NoId}
  BY ElementTypes DEF SaxInv, Element
<1>3. DocumentTypes' /\ Len(open') = Len(open) + 1 /\ Len(open) \in Nat /\ elements \in Nat
  BY <1>1, <1>2 DEF SaxInv, DocumentTypes
<1>4. SaxTypes /\ DepthFits /\ TreeFits
  BY DEF SaxInv
<1>5. CASE StartInDefault(e)
  BY <1>1, <1>3, <1>4, <1>5 DEF StartInDefault, SkipElement, SaxInv, TreeFits
<1>6. CASE StartExpr(e)
  BY <1>1, <1>2, <1>3, <1>4, <1>6 DEF StartExpr, SaxInv, TreeFits
<1>7. CASE StartData(e)
  BY <1>1, <1>2, <1>3, <1>4, <1>7 DEF StartData, SkipElement, SaxInv, TreeFits
<1>8. CASE StartIgnored(e)
  BY <1>1, <1>3, <1>4, <1>8 DEF StartIgnored, SkipElement, SaxInv, TreeFits
<1>9. CASE StartToken(e)
  <2>1. /\ state = "IN_MWS_EXPR" /\ currentToken' = currentToken + 1
        /\ tokens' = newChildNode(tokens, currentToken, e.name, NoId)
        /\ UNCHANGED <<state, prevState, unknownDepth, copyDepth, localId>>
    BY <1>9 DEF StartToken
  <2>2. currentToken \in Nat /\ currentToken + 3 <= MaxDepth /\ e.name \in Tags
    BY <1>1, <1>2, <1>3, <1>4, <2>1
  <2>3. CASE currentToken = 0
    <3>1. 3 <= MaxElements /\ 2 <= elements
      BY <1>1, <1>3, <1>4, <2>1 DEF TreeFits
    <3>2. tokens' \in Trees /\ tokens'[Len(tokens')].depth = 1 /\ Len(tokens') = 1
      BY <2>1, <2>2, <2>3, <3>1, RootIsTree
    <3> QED
      BY <1>1, <1>3, <1>4, <2>1, <2>2, <2>3, <3>1, <3>2 DEF SaxInv, TreeFits
  <2>4. CASE currentToken > 0
    <3>1. /\ tokens \in Trees /\ currentToken <= tokens[Len(tokens)].depth
          /\ Len(tokens) + 2 <= elements
      BY <1>4, <2>4 DEF TreeFits
    <3>2. Len(tokens) \in Nat
      BY <3>1, TreesAreSequences
    <3>3. Len(tokens) + 3 <= MaxElements /\ currentToken \in Nat \ {0}
      BY <1>1, <1>3, <2>2, <2>4, <3>1, <3>2
    <3>4. /\ tokens' \in Trees /\ tokens'[Len(tokens')].depth = currentToken + 1
          /\ Len(tokens') = Len(tokens) + 1
      BY <2>1, <2>2, <3>1, <3>3, ChildMakesTree
    <3> QED
      BY <1>1, <1>3, <1>4, <2>1, <2>2, <2>4, <3>1, <3>2, <3>4 DEF SaxInv, TreeFits
  <2> QED
    BY <2>2, <2>3, <2>4
<1>10. CASE StartNested
  BY <1>1, <1>3, <1>4, <1>10 DEF StartNested, SaxInv, TreeFits
<1> QED
  BY <1>5, <1>6, <1>7, <1>8, <1>9, <1>10 DEF startElement

\* So does endElement.
LEMMA SaxEnd ==
  ASSUME SaxInv, endElement
  PROVE  SaxInv'
<1> USE DEF SaxTypes, DepthFits, TreeFits
<1>1. SaxTypes /\ DepthFits /\ TreeFits /\ DocumentTypes
  BY DEF SaxInv
<1>2. CASE EndInDefault \/ PutDataFails
  BY <1>1, <1>2 DEF EndInDefault, PutDataFails, SaxInv, DocumentTypes, saxData
<1>3. CASE ~EndInDefault /\ ~PutDataFails
  <2>1. Parent /\ state # "DEFAULT"
    BY <1>3 DEF endElement, EndHarvest, EndExpr, EndRootToken, EndToken, EndInData, EndUnknown
  <2>2. Len(open) \in Nat /\ Len(open) >= 1
    BY <1>1, <2>1 DEF DocumentTypes
  <2>3. DocumentTypes' /\ Len(open') = Len(open) - 1
    <3>1. open' = SubSeq(open, 1, Len(open) - 1) /\ open \in Seq(Element)
      BY <1>1, <2>1 DEF Parent, DocumentTypes
    <3>2. open' \in Seq(Element) /\ Len(open') = Len(open) - 1
      BY <2>2, <3>1, Shortened
    <3> QED
      BY <1>1, <2>1, <3>2 DEF Parent, DocumentTypes
  <2>4. elements' = elements
    BY <2>1 DEF Parent
  <2>5. CASE EndHarvest
    BY <1>1, <2>2, <2>3, <2>4, <2>5 DEF EndHarvest, SaxInv
  <2>6. CASE EndExpr
    BY <1>1, <2>2, <2>3, <2>4, <2>6 DEF EndExpr, SaxInv, DocumentTypes
  <2>7. CASE EndRootToken
    BY <1>1, <2>2, <2>3, <2>4, <2>7 DEF EndRootToken, SaxInv
  <2>8. CASE EndToken
    <3>1. currentToken > 0 /\ tokens \in Trees /\ currentToken <= tokens[Len(tokens)].depth
      BY <1>1, <2>8 DEF EndToken
    <3>2. tokens[Len(tokens)].depth \in Nat
      <4>1. tokens \in Seq(Token) /\ Len(tokens) \in 1..(MaxElements - 2)
        BY <3>1, TreesAreSequences
      <4>2. tokens[Len(tokens)] \in Token
        BY <4>1
      <4> QED
        BY <4>2 DEF Token
    <3> QED
      BY <1>1, <2>2, <2>3, <2>4, <2>8, <3>1, <3>2 DEF EndToken, SaxInv
  <2>9. CASE EndInData
    BY <1>1, <2>2, <2>3, <2>4, <2>9 DEF EndInData, SaxInv
  <2>10. CASE EndUnknown
    BY <1>1, <2>2, <2>3, <2>4, <2>10 DEF EndUnknown, SaxInv
  <2> QED
    BY <1>3, <2>5, <2>6, <2>7, <2>8, <2>9, <2>10 DEF endElement
<1> QED
  BY <1>2, <1>3

\* Every step preserves SaxInv.
LEMMA SaxStep == SaxInv /\ [loadHarvests]_harvestVars => SaxInv'
<1> SUFFICES ASSUME SaxInv, [loadHarvests]_harvestVars PROVE SaxInv'
  OBVIOUS
<1>1. CASE IndexStep \/ UNCHANGED loadVars
  BY <1>1 DEF IndexStep, loadVars, document, saxData, SaxInv, DocumentTypes, SaxTypes, DepthFits, TreeFits
<1>2. CASE processHarvestFromFd
  BY <1>2 DEF processHarvestFromFd, NewSaxData, SaxInv, DocumentTypes, SaxTypes, DepthFits, TreeFits
<1>3. CASE EndDocument
  BY <1>3 DEF EndDocument, saxData, SaxInv, DocumentTypes, SaxTypes, DepthFits, TreeFits
<1>4. ASSUME NEW fatal \in BOOLEAN, error(fatal) PROVE SaxInv'
  BY <1>4 DEF error, SaxInv, DocumentTypes, SaxTypes, DepthFits, TreeFits
<1> QED
  BY <1>1, <1>2, <1>3, <1>4, SaxStart, SaxEnd, LoaderSteps DEF ParseStep
-----------------------------------------------------------------------------
(***************************************************************************)
(* The handlers and IndexBuilder.                                          *)
(***************************************************************************)

\* What the end of an mws:data element does to the ids.
LEMMA DataEnds ==
  ASSUME SaxInv, EndInData
  PROVE  \/ UNCHANGED <<vars, localIdToCrawlIds, dataLabel>>
         \/ /\ indexCrawlData /\ copyDepth = 1 /\ shouldProcessData /\ HasCrawlDb
            /\ localId \in LocalIds
            /\ DOMAIN localIdToCrawlIds' = {localId} \cup DOMAIN localIdToCrawlIds
            /\ localIdToCrawlIds'[localId] = Cardinality(crawlDb) + 1
            /\ \A l \in DOMAIN localIdToCrawlIds \ {localId} :
                 localIdToCrawlIds'[l] = localIdToCrawlIds[l]
            /\ dataLabel' = Append(dataLabel, <<file, open[2].id>>)
<1>1. CASE copyDepth = 1 /\ shouldProcessData /\ HasCrawlDb
  <2>1. /\ indexCrawlData /\ state = "IN_MWS_DATA"
        /\ localIdToCrawlIds' = idsWith(Cardinality(crawlDb) + 1)
        /\ dataLabel' = Append(dataLabel, <<file, open[2].id>>)
    BY <1>1 DEF EndInData, processData
  <2>2. localId \in LocalIds
    BY <2>1 DEF SaxInv, SaxTypes, TreeFits
  <2> QED
    BY <1>1, <2>1, <2>2 DEF idsWith
<1>2. CASE ~(copyDepth = 1 /\ shouldProcessData /\ HasCrawlDb)
  BY <1>2 DEF EndInData, processData
<1> QED
  BY <1>1, <1>2

\* The steps that leave data and ids alone.
LEMMA OtherLoads ==
  ASSUME [loadHarvests]_harvestVars, ~EndInData
  PROVE  /\ UNCHANGED <<crawlDb, dataLabel>>
         /\ UNCHANGED localIdToCrawlIds \/ (processHarvestFromFd /\ localIdToCrawlIds' = EmptyMap)
<1>1. CASE UNCHANGED loadVars
  BY <1>1 DEF loadVars, vars, saxData
<1>2. CASE processHarvestFromFd
  BY <1>2 DEF processHarvestFromFd, NewSaxData, vars
<1>3. CASE IndexStep
  BY <1>3 DEF IndexStep, SkipSubexpression, InsertSubexpression, RepeatedSubexpression, EndExpression, saxData
<1>4. CASE EndDocument
  BY <1>4 DEF EndDocument, vars, saxData
<1>5. ASSUME NEW e \in Elements, startElement(e)
      PROVE  UNCHANGED <<crawlDb, dataLabel, localIdToCrawlIds>>
  BY <1>5 DEF startElement, StartInDefault, StartExpr, StartData, StartIgnored, StartToken, StartNested,
     SkipElement, vars
<1>6. ASSUME NEW fatal \in BOOLEAN, error(fatal)
      PROVE  UNCHANGED <<crawlDb, dataLabel, localIdToCrawlIds>>
  BY <1>6 DEF error, vars
<1>7. CASE endElement
  BY <1>7 DEF endElement, EndInDefault, PutDataFails, EndHarvest, EndExpr, EndRootToken, BeginExpression, EndToken,
     EndUnknown, vars, saxData
<1> QED
  BY <1>1, <1>2, <1>3, <1>4, <1>5, <1>6, <1>7, LoaderSteps DEF ParseStep

\* The crawl ids of the map stay in the database.
LEMMA IdsStep == SaxInv /\ IdsStored /\ [loadHarvests]_harvestVars => IdsStored'
<1> SUFFICES ASSUME SaxInv, IdsStored, [loadHarvests]_harvestVars PROVE IdsStored'
  OBVIOUS
<1>1. CASE EndInData
  <2>1. CASE UNCHANGED <<vars, localIdToCrawlIds, dataLabel>>
    BY <2>1 DEF vars, IdsStored
  <2>2. CASE /\ indexCrawlData /\ localId \in LocalIds
             /\ DOMAIN localIdToCrawlIds' = {localId} \cup DOMAIN localIdToCrawlIds
             /\ localIdToCrawlIds'[localId] = Cardinality(crawlDb) + 1
             /\ \A l \in DOMAIN localIdToCrawlIds \ {localId} :
                  localIdToCrawlIds'[l] = localIdToCrawlIds[l]
    <3>1. crawlDb' = crawlDb \cup {Cardinality(crawlDb) + 1}
      BY <2>2 DEF indexCrawlData, putData
    <3> QED
      BY <2>2, <3>1 DEF IdsStored
  <2> QED
    BY <1>1, <2>1, <2>2, DataEnds
<1>2. CASE ~EndInData
  BY <1>2, OtherLoads DEF IdsStored, EmptyMap
<1> QED
  BY <1>1, <1>2

\* Every step of loadHarvests is one of IndexBuilder, or none of its concern.
LEMMA UseStep == SaxInv /\ IdsStored /\ [loadHarvests]_harvestVars => [Next]_vars
<1> SUFFICES ASSUME SaxInv, IdsStored, [loadHarvests]_harvestVars PROVE [Next]_vars
  OBVIOUS
<1>1. CASE UNCHANGED loadVars \/ processHarvestFromFd \/ EndDocument
  BY <1>1 DEF loadVars, processHarvestFromFd, EndDocument
<1>2. CASE IndexStep
  BY <1>2 DEF IndexStep, Next
<1>3. ASSUME NEW e \in Elements, startElement(e) PROVE UNCHANGED vars
  BY <1>3 DEF startElement
<1>4. ASSUME NEW fatal \in BOOLEAN, error(fatal) PROVE UNCHANGED vars
  BY <1>4 DEF error
<1>5. CASE EndInDefault \/ PutDataFails \/ EndHarvest \/ EndExpr \/ EndToken \/ EndUnknown
  BY <1>5 DEF EndInDefault, PutDataFails, EndHarvest, EndExpr, EndToken, EndUnknown
<1>6. CASE EndInData
  BY <1>6, DataEnds DEF Next
<1>7. CASE EndRootToken
  <2>1. currentToken = 1 /\ BeginExpression(Subexpressions(tokens), crawlIdOfExpr)
    BY <1>7 DEF EndRootToken
  <2>2. tokens \in Trees
    BY <2>1 DEF SaxInv, TreeFits
  <2>3. Subexpressions(tokens) \in Expressions
    BY <2>2, TreesAssumption
  <2>4. crawlIdOfExpr \in crawlDb \cup {CRAWLID_NULL}
    BY DEF crawlIdOfExpr, IdsStored
  <2> QED
    BY <2>1, <2>3, <2>4 DEF Next
<1> QED
  BY <1>1, <1>2, <1>3, <1>4, <1>5, <1>6, <1>7, LoaderSteps DEF ParseStep, endElement

\* loadHarvests with its handlers implements IndexBuilder: expressions are of
\* whole trees, crawl ids are of stored data, calls do not overlap, whatever
\* directories, files, documents and errors there are.
THEOREM UsesIndexBuilderCorrect == HarvestSpec => UsesIndexBuilder
<1>1. HarvestInit => Init /\ IdsStored
  BY DEF HarvestInit, LoadInit, IdsStored, EmptyMap
<1>2. HarvestInit /\ [][loadHarvests]_harvestVars => [](SaxInv /\ IdsStored)
  BY <1>1, SaxInit, SaxStep, IdsStep, PTL
<1> QED
  BY <1>1, <1>2, UseStep, PTL DEF HarvestSpec, UsesIndexBuilder, Spec

\* What is proved about IndexBuilder holds of every load of harvests: counts
\* and stores agree, hits resolve, and nothing that can be encoded is left out.
THEOREM LoadedIndexCorrect ==
  HarvestSpec => []( /\ HitsMatchStore /\ OneHitPerExpression
                     /\ EverySubexpressionStored /\ CrawlDataResolvable )
  BY UsesIndexBuilderCorrect, HitsMatchStoreCorrect, OneHitPerExpressionCorrect,
     EverySubexpressionStoredCorrect, CrawlDataCorrect, PTL DEF UsesIndexBuilder
-----------------------------------------------------------------------------
(***************************************************************************)
(* The state of the handlers and the document.                             *)
(***************************************************************************)

isHarvest(e) == e.name = "mws:harvest"
isExpr(e)    == e.name = "mws:expr"
isData(e)    == e.name # "mws:expr" /\ e.name = "mws:data" /\ e.id # NoId

\* The state in words of the document: in which element of the second level.
LEMMA StateCases ==
  ASSUME NEW s \in Seq(Element)
  PROVE  /\ Len(s) = 0 => StateOf(s) = "DEFAULT"
         /\ Len(s) >= 1 /\ ~isHarvest(s[1]) => StateOf(s) = "UNKNOWN"
         /\ Len(s) = 1 /\ isHarvest(s[1]) => StateOf(s) = "IN_MWS_HARVEST"
         /\ Len(s) >= 2 /\ isHarvest(s[1]) /\ isExpr(s[2]) => StateOf(s) = "IN_MWS_EXPR"
         /\ Len(s) >= 2 /\ isHarvest(s[1]) /\ isData(s[2]) => StateOf(s) = "IN_MWS_DATA"
         /\ Len(s) >= 2 /\ isHarvest(s[1]) /\ ~isExpr(s[2]) /\ ~isData(s[2]) =>
              StateOf(s) = "UNKNOWN"
<1>1. Len(s) \in Nat /\ (s = <<>> <=> Len(s) = 0)
  OBVIOUS
<1>2. CASE s = <<>>
  BY <1>1, <1>2 DEF StateOf
<1>3. CASE Len(s) >= 1 /\ ~isHarvest(s[1])
  BY <1>1, <1>3 DEF StateOf, isHarvest
<1>4. CASE Len(s) = 1 /\ isHarvest(s[1])
  BY <1>1, <1>4 DEF StateOf, isHarvest
<1>5. CASE Len(s) >= 2 /\ isHarvest(s[1])
  <2>1. StateOf(s) = CASE s[2].name = "mws:expr" -> "IN_MWS_EXPR"
                       [] s[2].name = "mws:data" /\ s[2].id # NoId -> "IN_MWS_DATA"
                       [] OTHER -> "UNKNOWN"
    BY <1>1, <1>5 DEF StateOf, isHarvest
  <2> QED
    BY <1>1, <1>5, <2>1 DEF isExpr, isData
<1> QED
  BY <1>1, <1>2, <1>3, <1>4, <1>5

\* t is s with e on top.
OnTop(t, s, e) ==
  /\ s \in Seq(Element) /\ t \in Seq(Element) /\ Len(s) \in Nat /\ Len(t) = Len(s) + 1
  /\ t[Len(t)] = e /\ \A i \in 1..Len(s) : t[i] = s[i]

\* How the state changes with one more element.
Moves(t, s, e) ==
  /\ StateOf(s) \in {"DEFAULT", "IN_MWS_HARVEST", "IN_MWS_EXPR", "IN_MWS_DATA", "UNKNOWN"}
  /\ StateOf(s) = "DEFAULT" =>
       /\ Len(s) = 0 /\ t[1] = e
       /\ isHarvest(e) => StateOf(t) = "IN_MWS_HARVEST"
       /\ ~isHarvest(e) => StateOf(t) = "UNKNOWN"
  /\ StateOf(s) = "IN_MWS_HARVEST" =>
       /\ Len(s) = 1 /\ t[1] = s[1] /\ t[2] = e /\ isHarvest(t[1])
       /\ isExpr(e) => StateOf(t) = "IN_MWS_EXPR"
       /\ isData(e) => StateOf(t) = "IN_MWS_DATA"
       /\ ~isExpr(e) /\ ~isData(e) => StateOf(t) = "UNKNOWN"
  /\ StateOf(s) = "UNKNOWN" => Len(s) >= 1 /\ StateOf(t) = "UNKNOWN" /\ t[1] = s[1]
  /\ StateOf(s) \in {"IN_MWS_EXPR", "IN_MWS_DATA"} =>
       Len(s) >= 2 /\ StateOf(t) = StateOf(s) /\ t[1] = s[1] /\ t[2] = s[2]

\* How the state of the parser moves when an element is opened.
LEMMA OneMore ==
  ASSUME NEW s, NEW e, NEW t, OnTop(t, s, e)
  PROVE  Moves(t, s, e)
<1>1. /\ s \in Seq(Element) /\ t \in Seq(Element) /\ Len(t) = Len(s) + 1 /\ Len(s) \in Nat
      /\ t[Len(t)] = e /\ \A i \in 1..Len(s) : t[i] = s[i]
  BY DEF OnTop
<1>2. CASE Len(s) = 0
  <2>1. t[1] = e /\ Len(t) = 1
    BY <1>1, <1>2
  <2>2. StateOf(s) = "DEFAULT"
    BY <1>1, <1>2, StateCases
  <2>3. (isHarvest(e) => StateOf(t) = "IN_MWS_HARVEST") /\ (~isHarvest(e) => StateOf(t) = "UNKNOWN")
    BY <1>1, <2>1, StateCases
  <2> QED
    BY <1>2, <2>1, <2>2, <2>3 DEF Moves
<1>3. CASE Len(s) >= 1 /\ ~isHarvest(s[1])
  <2>1. t[1] = s[1] /\ Len(t) >= 1
    BY <1>1, <1>3
  <2>2. StateOf(s) = "UNKNOWN"
    BY <1>1, <1>3, StateCases
  <2>3. StateOf(t) = "UNKNOWN"
    BY <1>1, <1>3, <2>1, StateCases
  <2> QED
    BY <1>3, <2>1, <2>2, <2>3 DEF Moves
<1>4. CASE Len(s) = 1 /\ isHarvest(s[1])
  <2>1. t[1] = s[1] /\ t[2] = e /\ Len(t) = 2
    BY <1>1, <1>4
  <2>2. StateOf(s) = "IN_MWS_HARVEST"
    BY <1>1, <1>4, StateCases
  <2>3. /\ isExpr(e) => StateOf(t) = "IN_MWS_EXPR"
        /\ isData(e) => StateOf(t) = "IN_MWS_DATA"
        /\ ~isExpr(e) /\ ~isData(e) => StateOf(t) = "UNKNOWN"
    BY <1>1, <1>4, <2>1, StateCases
  <2> QED
    BY <1>4, <2>1, <2>2, <2>3 DEF Moves
<1>5. CASE Len(s) >= 2 /\ isHarvest(s[1])
  <2>1. t[1] = s[1] /\ t[2] = s[2] /\ Len(t) >= 2
    BY <1>1, <1>5
  <2>2. CASE isExpr(s[2])
    BY <1>1, <1>5, <2>1, <2>2, StateCases DEF Moves
  <2>3. CASE isData(s[2])
    BY <1>1, <1>5, <2>1, <2>3, StateCases DEF Moves
  <2>4. CASE ~isExpr(s[2]) /\ ~isData(s[2])
    BY <1>1, <1>5, <2>1, <2>4, StateCases DEF Moves
  <2> QED
    BY <2>2, <2>3, <2>4
<1>n. Len(s) \in Nat
  BY <1>1
<1>6. Len(s) = 0 \/ Len(s) = 1 \/ Len(s) >= 2
  <2>1. \A n \in Nat : n = 0 \/ n = 1 \/ n >= 2
    OBVIOUS
  <2> QED
    BY <1>n, <2>1, Zenon
<1>7. Len(s) = 1 => Len(s) >= 1
  BY <1>n
<1>8. Len(s) >= 2 => Len(s) >= 1
  BY <1>n
<1> QED
  BY <1>2, <1>3, <1>4, <1>5, <1>6, <1>7, <1>8, Zenon

\* What the handlers know of the open elements.
Knows(s) ==
  /\ state = StateOf(s)
  /\ state = "UNKNOWN" =>
       /\ prevState = IF isHarvest(s[1]) THEN "IN_MWS_HARVEST" ELSE "DEFAULT"
       /\ unknownDepth = Len(s) - (IF prevState = "DEFAULT" THEN 0 ELSE 1)
  /\ state = "IN_MWS_DATA" => copyDepth = Len(s) - 1
  /\ currentToken = IF state = "IN_MWS_EXPR" THEN Len(s) - 2 ELSE 0

Follows ==
  ~errorDetected =>
    /\ doc \in {"closed", "prolog", "epilog"} => open = <<>>
    /\ doc = "root" => open # <<>>
    /\ doc # "closed" => Knows(open)

\* startElement keeps the state in step with the document.
LEMMA FollowsStart ==
  ASSUME SaxInv, Follows, NEW e \in Elements, startElement(e)
  PROVE  Follows'
<1> SUFFICES ASSUME ~errorDetected' PROVE open' # <<>> /\ doc' = "root" /\ Knows(open)'
  BY DEF Follows
<1>1. /\ doc \in {"prolog", "root"} /\ doc' = "root" /\ open' = Append(open, e)
      /\ open \in Seq(Element) /\ e \in Element
  BY ElementTypes DEF startElement, SaxInv, DocumentTypes
<1>2. open' # <<>>
  BY <1>1
<1>3. ~errorDetected
  BY DEF startElement, StartInDefault, StartExpr, StartData, StartIgnored, StartToken, StartNested, SkipElement
<1>4. Knows(open) /\ SaxTypes /\ DepthFits
  BY <1>1, <1>3 DEF Follows, SaxInv
<1>o. OnTop(open', open, e)
  BY <1>1 DEF OnTop
<1>5. Moves(open', open, e) /\ Len(open') = Len(open) + 1 /\ Len(open) \in Nat
  BY <1>o, OneMore DEF OnTop
<1> SUFFICES Knows(open)'
  BY <1>1, <1>2
<1>6. CASE StartInDefault(e)
  <2>1. /\ Len(open) = 0 /\ open'[1] = e /\ currentToken = 0
        /\ isHarvest(e) => StateOf(open') = "IN_MWS_HARVEST"
        /\ ~isHarvest(e) => StateOf(open') = "UNKNOWN"
    BY <1>4, <1>5, <1>6 DEF Knows, Moves, StartInDefault
  <2>2. CASE isHarvest(e)
    BY <1>6, <2>1, <2>2 DEF Knows, StartInDefault, isHarvest
  <2>3. CASE ~isHarvest(e)
    BY <1>5, <1>6, <2>1, <2>3 DEF Knows, StartInDefault, SkipElement, isHarvest
  <2> QED
    BY <2>2, <2>3
<1>7. CASE StartExpr(e)
  <2>1. isExpr(e) /\ Len(open) = 1 /\ StateOf(open') = "IN_MWS_EXPR" /\ currentToken = 0
    BY <1>4, <1>5, <1>7 DEF Knows, Moves, StartExpr, isExpr
  <2> QED
    BY <1>5, <1>7, <2>1 DEF Knows, StartExpr
<1>8. CASE StartData(e)
  <2>1. /\ Len(open) = 1 /\ isHarvest(open'[1]) /\ ~isExpr(e) /\ currentToken = 0
        /\ isData(e) => StateOf(open') = "IN_MWS_DATA"
        /\ ~isData(e) => StateOf(open') = "UNKNOWN"
        /\ isData(e) <=> e.id # NoId
    BY <1>4, <1>5, <1>8 DEF Knows, Moves, StartData, isExpr, isData
  <2>2. CASE isData(e)
    BY <1>5, <1>8, <2>1, <2>2 DEF Knows, StartData, SkipElement
  <2>3. CASE ~isData(e)
    BY <1>4, <1>5, <1>8, <2>1, <2>3 DEF Knows, StartData, SkipElement
  <2> QED
    BY <2>2, <2>3
<1>9. CASE StartIgnored(e)
  <2>1. /\ Len(open) = 1 /\ isHarvest(open'[1]) /\ StateOf(open') = "UNKNOWN" /\ currentToken = 0
    BY <1>4, <1>5, <1>9 DEF Knows, Moves, StartIgnored, isExpr, isData
  <2>2. /\ state' = "UNKNOWN" /\ prevState' = "IN_MWS_HARVEST" /\ unknownDepth' = 1
        /\ currentToken' = 0
    BY <1>9, <2>1 DEF StartIgnored, SkipElement
  <2> QED
    BY <1>5, <2>1, <2>2 DEF Knows
<1>10. CASE StartToken(e)
  <2>1. Len(open) >= 2 /\ StateOf(open') = "IN_MWS_EXPR" /\ currentToken = Len(open) - 2
    BY <1>4, <1>5, <1>10 DEF Knows, Moves, StartToken
  <2> QED
    BY <1>5, <1>10, <2>1 DEF Knows, StartToken
<1>11. CASE StartNested
  <2>1. CASE state = "UNKNOWN"
    <3>1. Len(open) >= 1 /\ StateOf(open') = "UNKNOWN" /\ open'[1] = open[1]
      BY <1>4, <1>5, <2>1 DEF Knows, Moves
    <3> QED
      BY <1>4, <1>5, <1>11, <2>1, <3>1 DEF Knows, StartNested
  <2>2. CASE state = "IN_MWS_DATA"
    <3>1. Len(open) >= 2 /\ StateOf(open') = "IN_MWS_DATA"
      BY <1>4, <1>5, <2>2 DEF Knows, Moves
    <3> QED
      BY <1>4, <1>5, <1>11, <2>2, <3>1 DEF Knows, StartNested
  <2> QED
    BY <1>11, <2>1, <2>2 DEF StartNested
<1> QED
  BY <1>6, <1>7, <1>8, <1>9, <1>10, <1>11 DEF startElement

\* So does endElement.
LEMMA FollowsEnd ==
  ASSUME SaxInv, Follows, endElement
  PROVE  Follows'
<1>p. CASE PutDataFails
  <2>1. doc = "root" /\ doc' = "aborted" /\ open' = open /\ UNCHANGED saxData
    BY <1>p DEF endElement, PutDataFails
  <2>2. ~errorDetected => Knows(open)'
    BY <2>1 DEF Follows, Knows, saxData
  <2> QED
    BY <2>1, <2>2 DEF Follows, saxData
<1> SUFFICES ASSUME ~errorDetected', ~PutDataFails PROVE Follows'
  BY <1>p DEF Follows
<1>1. ~errorDetected
  BY DEF endElement, EndInDefault, PutDataFails, EndHarvest, EndExpr, EndRootToken, EndToken, EndInData, EndUnknown, saxData
<1>2. /\ doc = "root" /\ open # <<>> /\ Knows(open) /\ open \in Seq(Element)
      /\ SaxTypes /\ DepthFits
  BY <1>1 DEF endElement, Follows, SaxInv, DocumentTypes
<1>3. Len(open) \in Nat /\ Len(open) >= 1
  BY <1>2
<1> DEFINE rest == SubSeq(open, 1, Len(open) - 1)
<1> DEFINE top == open[Len(open)]
<1>4. OnTop(open, rest, top) /\ Len(rest) = Len(open) - 1
  BY <1>2, <1>3, Shortened DEF OnTop
<1>5. Moves(open, rest, top) /\ Len(open) = Len(rest) + 1 /\ Len(rest) \in Nat
  BY <1>4, OneMore DEF OnTop
<1> HIDE DEF rest, top
<1>6. state # "DEFAULT"
  <2>1. StateOf(open) # "DEFAULT"
    BY <1>5 DEF Moves
  <2> QED
    BY <1>2, <2>1 DEF Knows
<1>7. Parent /\ open' = rest /\ doc' = (IF Len(open) = 1 THEN "epilog" ELSE "root")
  BY <1>2, <1>6 DEF endElement, EndInDefault, PutDataFails, EndHarvest, EndExpr, EndRootToken, EndToken, EndInData,
     EndUnknown, Parent, rest
<1>e. (Len(rest) = 0 <=> rest = <<>>) /\ (Len(open) = 1 <=> Len(rest) = 0)
  BY <1>4, <1>5 DEF OnTop
<1>8. /\ doc' = "root" => open' # <<>>
      /\ doc' = "epilog" => open' = <<>>
      /\ doc' \in {"root", "epilog"}
  BY <1>7, <1>e
<1> SUFFICES Knows(open)'
  BY <1>8 DEF Follows
<1>9. state = StateOf(open) /\ state' = StateOf(rest) => state' = StateOf(open')
  BY <1>7
<1>10. CASE EndHarvest
  <2>1. StateOf(rest) = "DEFAULT"
    BY <1>2, <1>5, <1>10 DEF Knows, Moves, EndHarvest
  <2> QED
    BY <1>2, <1>7, <1>10, <2>1 DEF Knows, EndHarvest
<1>11. CASE EndExpr
  <2>a. currentToken = 0 /\ currentToken = Len(open) - 2
    BY <1>2, <1>11 DEF Knows, EndExpr
  <2>b. \A m, n \in Nat : m = n + 1 /\ m - 2 = 0 => m = 2 /\ n = 1
    OBVIOUS
  <2>1. Len(open) = 2 /\ Len(rest) = 1
    BY <1>3, <1>5, <2>a, <2>b, Zenon
  <2>2. StateOf(rest) = "IN_MWS_HARVEST"
    BY <1>2, <1>5, <1>11, <2>1 DEF Knows, Moves, EndExpr
  <2> QED
    BY <1>7, <1>11, <2>2 DEF Knows, EndExpr
<1>12. CASE EndRootToken \/ EndToken
  <2>a. /\ state = "IN_MWS_EXPR" /\ state' = state /\ currentToken \in Nat /\ currentToken >= 1
        /\ currentToken' = currentToken - 1
    <3>1. CASE EndRootToken
      BY <3>1 DEF EndRootToken
    <3>2. CASE EndToken
      BY <1>2, <3>2 DEF EndToken, SaxTypes
    <3> QED
      BY <1>12, <3>1, <3>2
  <2>b. currentToken = Len(open) - 2
    BY <1>2, <2>a DEF Knows
  <2>1. /\ Len(rest) >= 2 /\ state = "IN_MWS_EXPR" /\ state' = state
        /\ currentToken' = currentToken - 1 /\ currentToken = Len(open) - 2
    BY <1>5, <2>a, <2>b
  <2>2. StateOf(rest) = "IN_MWS_EXPR"
    BY <1>2, <1>5, <2>1 DEF Knows, Moves
  <2> QED
    BY <1>5, <1>7, <2>1, <2>2 DEF Knows
<1>13. CASE EndInData
  <2>1. state = "IN_MWS_DATA" /\ copyDepth = Len(open) - 1 /\ currentToken' = 0 /\ copyDepth' = copyDepth - 1
    BY <1>2, <1>13 DEF Knows, EndInData
  <2>2. CASE copyDepth = 1
    <3>1. Len(rest) = 1 /\ state' = "IN_MWS_HARVEST"
      BY <1>5, <1>13, <2>1, <2>2 DEF EndInData
    <3>2. StateOf(rest) = "IN_MWS_HARVEST"
      BY <1>2, <1>5, <2>1, <3>1 DEF Knows, Moves
    <3> QED
      BY <1>7, <2>1, <3>1, <3>2 DEF Knows
  <2>3. CASE copyDepth # 1
    <3>1. Len(rest) >= 2 /\ state' = "IN_MWS_DATA"
      BY <1>2, <1>5, <1>13, <2>1, <2>3 DEF EndInData, DepthFits
    <3>2. StateOf(rest) = "IN_MWS_DATA"
      BY <1>2, <1>5, <2>1, <3>1 DEF Knows, Moves
    <3> QED
      BY <1>5, <1>7, <2>1, <3>1, <3>2 DEF Knows
  <2> QED
    BY <2>2, <2>3
<1>14. CASE EndUnknown
  <2>1. /\ state = "UNKNOWN" /\ currentToken' = 0 /\ unknownDepth' = unknownDepth - 1
        /\ prevState' = prevState
        /\ prevState = IF isHarvest(open[1]) THEN "IN_MWS_HARVEST" ELSE "DEFAULT"
        /\ unknownDepth = Len(open) - (IF prevState = "DEFAULT" THEN 0 ELSE 1)
    BY <1>2, <1>14 DEF Knows, EndUnknown
  <2>2. CASE unknownDepth = 1 /\ prevState = "DEFAULT"
    <3>1. Len(rest) = 0 /\ state' = "DEFAULT"
      BY <1>5, <1>14, <2>1, <2>2 DEF EndUnknown
    <3>2. StateOf(rest) = "DEFAULT"
      BY <1>5, <3>1 DEF Moves
    <3> QED
      BY <1>7, <2>1, <3>1, <3>2 DEF Knows
  <2>3. CASE unknownDepth = 1 /\ prevState = "IN_MWS_HARVEST"
    <3>a. state' = "IN_MWS_HARVEST" /\ isHarvest(open[1])
      BY <1>14, <2>1, <2>3 DEF EndUnknown
    <3>b. Len(open) - 1 = 1
      BY <2>1, <2>3
    <3>1. Len(rest) = 1 /\ state' = "IN_MWS_HARVEST" /\ isHarvest(open[1])
      BY <1>5, <3>a, <3>b
    <3>2. rest[1] = open[1] /\ rest \in Seq(Element)
      BY <1>4, <3>1 DEF OnTop
    <3>3. StateOf(rest) = "IN_MWS_HARVEST"
      BY <3>1, <3>2, StateCases
    <3> QED
      BY <1>7, <2>1, <3>1, <3>3 DEF Knows
  <2>4. CASE unknownDepth # 1
    <3>1. /\ Len(rest) >= 1 /\ state' = "UNKNOWN" /\ (prevState # "DEFAULT" => Len(rest) >= 2)
          /\ prevState = "DEFAULT" <=> ~isHarvest(open[1])
      BY <1>2, <1>5, <1>14, <2>1, <2>4 DEF EndUnknown, DepthFits, SaxTypes
    <3>2. rest[1] = open[1] /\ rest \in Seq(Element)
      BY <1>4, <3>1 DEF OnTop
    <3>3. StateOf(rest) = "UNKNOWN"
      <4>1. CASE ~isHarvest(open[1])
        BY <3>1, <3>2, <4>1, StateCases
      <4>2. CASE isHarvest(open[1])
        <5>1. StateOf(open) = "UNKNOWN" /\ Len(rest) >= 2
          BY <1>2, <2>1, <3>1, <4>2 DEF Knows
        <5>2. Len(rest) >= 2 /\ isHarvest(rest[1]) /\ rest \in Seq(Element)
          BY <3>1, <3>2, <4>2
        <5>3. isExpr(rest[2]) => StateOf(rest) = "IN_MWS_EXPR"
          BY <5>2, StateCases
        <5>4. isData(rest[2]) => StateOf(rest) = "IN_MWS_DATA"
          BY <5>2, StateCases
        <5>5. ~isExpr(rest[2]) /\ ~isData(rest[2]) => StateOf(rest) = "UNKNOWN"
          BY <5>2, StateCases
        <5> QED
          BY <1>5, <5>1, <5>3, <5>4, <5>5 DEF Moves
      <4> QED
        BY <4>1, <4>2
    <3> QED
      BY <1>5, <1>7, <2>1, <3>1, <3>2, <3>3 DEF Knows
  <2> QED
    BY <1>2, <2>2, <2>3, <2>4 DEF SaxTypes
<1> QED
  BY <1>6, <1>10, <1>11, <1>12, <1>13, <1>14 DEF endElement, EndInDefault

\* So does every step.
LEMMA FollowsStep == SaxInv /\ Follows /\ [loadHarvests]_harvestVars => Follows'
<1> SUFFICES ASSUME SaxInv, Follows, [loadHarvests]_harvestVars PROVE Follows'
  OBVIOUS
<1>1. CASE IndexStep \/ UNCHANGED loadVars
  BY <1>1 DEF IndexStep, loadVars, document, saxData, Follows, Knows
<1>2. CASE processHarvestFromFd
  <2>1. StateOf(<<>>) = "DEFAULT"
    BY DEF StateOf
  <2> QED
    BY <1>2, <2>1 DEF processHarvestFromFd, NewSaxData, Follows, Knows
<1>3. CASE EndDocument
  <2>1. ~errorDetected => open = <<>>
    BY <1>3 DEF EndDocument, Follows
  <2> QED
    BY <1>3, <2>1 DEF EndDocument, saxData, Follows
<1>4. ASSUME NEW fatal \in BOOLEAN, error(fatal) PROVE Follows'
  BY <1>4 DEF error, Follows
<1> QED
  BY <1>1, <1>2, <1>3, <1>4, FollowsStart, FollowsEnd, LoaderSteps DEF ParseStep

\* The state of the handlers is that of the document, and the assertion of
\* my_endElement holds, for every sequence of elements libxml2 can deliver
\* without an error, in any files of any directories.
THEOREM StateFollowsDocumentCorrect == HarvestSpec => []StateFollowsDocument
<1>1. HarvestInit => Follows
  BY DEF HarvestInit, LoadInit, Follows
<1>2. Follows => StateFollowsDocument
  BY DEF Follows, Knows, StateFollowsDocument
<1> QED
  BY <1>1, <1>2, SaxInit, SaxStep, FollowsStep, PTL DEF HarvestSpec
-----------------------------------------------------------------------------
(***************************************************************************)
(* The data of the hits.  While a document has no error, localIdToCrawlIds *)
(* gives for every id the latest data element of this file with this id,   *)
(* and localId is the id of the element at hand; so that the crawl id of   *)
(* an expression is that of the element it refers to.                      *)
(***************************************************************************)

\* Every stored item has its label, and none is of a file to come.
Labels ==
  /\ dataLabel \in Seq(Nat \X (LocalIds \cup {NoId}))
  /\ crawlDb = 1..Len(dataLabel)
  /\ \A c \in 1..Len(dataLabel) : dataLabel[c][1] <= file
  /\ Len(dataLabel) > 0 => shouldProcessData

Latest ==
  /\ \A c \in 1..Len(dataLabel) : \A l \in LocalIds :
       dataLabel[c] = <<file, l>> => l \in DOMAIN localIdToCrawlIds /\ c <= localIdToCrawlIds[l]
  /\ \A l \in DOMAIN localIdToCrawlIds :
       /\ localIdToCrawlIds[l] \in 1..Len(dataLabel)
       /\ dataLabel[localIdToCrawlIds[l]] = <<file, l>>
  /\ \A c \in 1..Len(dataLabel) : dataLabel[c] # <<file, NoId>>

ElementId ==
  /\ state = "IN_MWS_DATA" => localId = open[2].id
  /\ state = "IN_MWS_EXPR" =>
       localId = IF shouldProcessData /\ open[2].id \notin DOMAIN localIdToCrawlIds
                   THEN NoId ELSE open[2].id

IdsFollow == ~errorDetected => Latest /\ ElementId

\* Only processHarvestFromFd begins a file.
LEMMA FileStep ==
  ASSUME [loadHarvests]_harvestVars
  PROVE  file' = file \/ (processHarvestFromFd /\ file' = file + 1)
<1>1. CASE UNCHANGED loadVars
  BY <1>1 DEF loadVars, document
<1>2. CASE processHarvestFromFd
  BY <1>2 DEF processHarvestFromFd
<1>3. CASE IndexStep \/ EndDocument
  BY <1>3 DEF IndexStep, EndDocument, document
<1>4. ASSUME NEW e \in Elements, startElement(e) PROVE file' = file
  BY <1>4 DEF startElement
<1>5. ASSUME NEW fatal \in BOOLEAN, error(fatal) PROVE file' = file
  BY <1>5 DEF error
<1>6. CASE endElement
  BY <1>6 DEF endElement, EndInDefault, PutDataFails, EndHarvest, EndExpr, EndRootToken, EndToken, EndInData, EndUnknown,
     Parent
<1> QED
  BY <1>1, <1>2, <1>3, <1>4, <1>5, <1>6, LoaderSteps DEF ParseStep

\* The label of a data element that ends, in what the crawl database numbers.
LEMMA NewLabel ==
  ASSUME SaxInv, Labels, state = "IN_MWS_DATA",
         crawlDb' = crawlDb \cup {Cardinality(crawlDb) + 1},
         dataLabel' = Append(dataLabel, <<file, open[2].id>>)
  PROVE  /\ Len(dataLabel) \in Nat /\ Cardinality(crawlDb) = Len(dataLabel)
         /\ Len(dataLabel') = Len(dataLabel) + 1
         /\ crawlDb' = 1..Len(dataLabel')
         /\ dataLabel' \in Seq(Nat \X (LocalIds \cup {NoId}))
         /\ dataLabel'[Len(dataLabel')] = <<file, open[2].id>>
         /\ \A c \in 1..Len(dataLabel) : dataLabel'[c] = dataLabel[c]
<1>1. Len(dataLabel) \in Nat /\ crawlDb = 1..Len(dataLabel)
  BY DEF Labels
<1>c. ASSUME NEW n \in Nat PROVE Cardinality(1..n) = n
  <2>1. Cardinality(1..n) = IF 1 > n THEN 0 ELSE n - 1 + 1
    BY FS_Interval
  <2> QED
    BY <2>1
<1>2. Cardinality(crawlDb) = Len(dataLabel)
  BY <1>1, <1>c, Zenon
<1>3. open[2] \in Element
  <2>1. open \in Seq(Element) /\ Len(open) \in Nat
    BY DEF SaxInv, DocumentTypes
  <2>2. Len(open) >= 2
    BY <2>1 DEF SaxInv, SaxTypes, DepthFits
  <2> QED
    BY <2>1, <2>2
<1>4. <<file, open[2].id>> \in Nat \X (LocalIds \cup {NoId})
  BY <1>3 DEF SaxInv, DocumentTypes, Element
<1>5. /\ dataLabel' \in Seq(Nat \X (LocalIds \cup {NoId})) /\ Len(dataLabel') = Len(dataLabel) + 1
      /\ dataLabel'[Len(dataLabel')] = <<file, open[2].id>>
      /\ \A c \in 1..Len(dataLabel) : dataLabel'[c] = dataLabel[c]
  BY <1>4 DEF Labels
<1>6. \A n \in Nat : 1..(n + 1) = (1..n) \cup {n + 1}
  OBVIOUS
<1>7. crawlDb' = 1..Len(dataLabel')
  BY <1>1, <1>2, <1>5, <1>6, Zenon
<1> QED
  BY <1>1, <1>2, <1>5, <1>7

\* Every step preserves Labels.
LEMMA LabelsStep ==
  ASSUME SaxInv, Labels, [loadHarvests]_harvestVars
  PROVE  Labels'
<1>n. /\ file \in Nat /\ Len(dataLabel) \in Nat
      /\ \A c \in 1..Len(dataLabel) : dataLabel[c][1] \in Nat
  BY DEF SaxInv, DocumentTypes, Labels
<1>1. CASE UNCHANGED <<crawlDb, dataLabel>>
  <2>1. \A c \in 1..Len(dataLabel) : dataLabel[c][1] <= file'
    BY <1>n, FileStep DEF Labels
  <2> QED
    BY <1>1, <2>1 DEF Labels
<1>2. CASE /\ EndInData /\ indexCrawlData /\ shouldProcessData
           /\ dataLabel' = Append(dataLabel, <<file, open[2].id>>)
  <2>1. /\ state = "IN_MWS_DATA" /\ file' = file
        /\ crawlDb' = crawlDb \cup {Cardinality(crawlDb) + 1}
    BY <1>2 DEF EndInData, Parent, indexCrawlData, putData
  <2>2. /\ Len(dataLabel') = Len(dataLabel) + 1 /\ crawlDb' = 1..Len(dataLabel')
        /\ dataLabel' \in Seq(Nat \X (LocalIds \cup {NoId}))
        /\ dataLabel'[Len(dataLabel')] = <<file, open[2].id>>
        /\ \A c \in 1..Len(dataLabel) : dataLabel'[c] = dataLabel[c]
    BY <1>2, <2>1, NewLabel
  <2>3. dataLabel'[Len(dataLabel')][1] = file
    BY <2>2
  <2>4. ASSUME NEW c \in 1..Len(dataLabel') PROVE dataLabel'[c][1] <= file'
    <3>1. c = Len(dataLabel') \/ c \in 1..Len(dataLabel)
      BY <1>n, <2>2
    <3>2. CASE c = Len(dataLabel')
      BY <1>n, <2>1, <2>3, <3>2
    <3>3. CASE c \in 1..Len(dataLabel)
      <4>1. dataLabel[c][1] <= file
        BY <3>3 DEF Labels
      <4> QED
        BY <2>1, <2>2, <3>3, <4>1, Zenon
    <3> QED
      BY <3>1, <3>2, <3>3
  <2> QED
    BY <1>2, <2>2, <2>4 DEF Labels
<1>3. CASE EndInData
  BY <1>1, <1>2, <1>3, DataEnds DEF vars
<1> QED
  BY <1>1, <1>3, OtherLoads

\* Within a file, an error stays.
LEMMA ErrorStays ==
  ASSUME [loadHarvests]_harvestVars, ~errorDetected'
  PROVE  processHarvestFromFd \/ ~errorDetected
<1>1. CASE UNCHANGED loadVars \/ IndexStep \/ EndDocument
  BY <1>1 DEF loadVars, IndexStep, EndDocument, saxData
<1>2. ASSUME NEW e \in Elements, startElement(e) PROVE ~errorDetected
  BY <1>2 DEF startElement, StartInDefault, StartExpr, StartData, StartIgnored, StartToken, StartNested,
     SkipElement
<1>3. ASSUME NEW fatal \in BOOLEAN, error(fatal) PROVE FALSE
  BY <1>3 DEF error
<1>4. CASE endElement
  BY <1>4 DEF endElement, EndInDefault, PutDataFails, EndHarvest, EndExpr, EndRootToken, EndToken, EndInData, EndUnknown,
     saxData
<1> QED
  BY <1>1, <1>2, <1>3, <1>4, LoaderSteps DEF ParseStep

\* Every step preserves Latest: the map has the latest data of an id.
LEMMA LatestStep ==
  ASSUME SaxInv, Labels, IdsStored, IdsFollow, [loadHarvests]_harvestVars, ~errorDetected'
  PROVE  Latest'
<1>n. /\ file \in Nat /\ Len(dataLabel) \in Nat
      /\ \A c \in 1..Len(dataLabel) : dataLabel[c][1] \in Nat /\ dataLabel[c][1] <= file
  BY DEF SaxInv, DocumentTypes, Labels
<1>1. CASE processHarvestFromFd
  <2>1. dataLabel' = dataLabel /\ file' = file + 1 /\ localIdToCrawlIds' = EmptyMap
    BY <1>1 DEF processHarvestFromFd, NewSaxData
  <2>2. \A c \in 1..Len(dataLabel) : dataLabel[c][1] # file'
    BY <1>n, <2>1
  <2>3. \A c \in 1..Len(dataLabel) : \A l : dataLabel[c] # <<file', l>>
    BY <2>2
  <2>4. DOMAIN localIdToCrawlIds' = {}
    BY <2>1 DEF EmptyMap
  <2> QED
    BY <2>1, <2>3, <2>4, Zenon DEF Latest
<1>2. CASE ~processHarvestFromFd
  <2>1. Latest /\ ElementId /\ file' = file
    BY <1>2, ErrorStays, FileStep DEF IdsFollow
  <2>2. CASE UNCHANGED <<dataLabel, localIdToCrawlIds>>
    BY <2>1, <2>2 DEF Latest
  <2>3. CASE /\ EndInData /\ indexCrawlData /\ localId \in LocalIds
             /\ DOMAIN localIdToCrawlIds' = {localId} \cup DOMAIN localIdToCrawlIds
             /\ localIdToCrawlIds'[localId] = Cardinality(crawlDb) + 1
             /\ \A l \in DOMAIN localIdToCrawlIds \ {localId} :
                  localIdToCrawlIds'[l] = localIdToCrawlIds[l]
             /\ dataLabel' = Append(dataLabel, <<file, open[2].id>>)
    <3> DEFINE n == Len(dataLabel)
    <3>1. /\ state = "IN_MWS_DATA" /\ crawlDb' = crawlDb \cup {Cardinality(crawlDb) + 1}
      BY <2>3 DEF EndInData, indexCrawlData, putData
    <3>2. localId = open[2].id
      BY <2>1, <3>1 DEF ElementId
    <3>3. /\ Len(dataLabel') = n + 1 /\ Cardinality(crawlDb) = n
          /\ dataLabel'[Len(dataLabel')] = <<file, open[2].id>>
          /\ \A c \in 1..n : dataLabel'[c] = dataLabel[c]
      BY <2>3, <3>1, NewLabel
    <3>4. n \in Nat
      BY <1>n
    <3> HIDE DEF n
    <3>5. /\ Len(dataLabel') = n + 1 /\ localIdToCrawlIds'[localId] = n + 1
          /\ dataLabel'[n + 1] = <<file, localId>>
      BY <2>3, <3>2, <3>3
    <3>6. localId # NoId
      BY <2>3, LoaderAssumption
    <3>7. \A c \in 1..(n + 1) : c = n + 1 \/ c \in 1..n
      BY <3>4
    <3>8. \A c \in 1..n : c \in 1..(n + 1) /\ c <= n + 1
      BY <3>4
    <3>9. n + 1 <= n + 1 /\ n + 1 \in 1..(n + 1)
      BY <3>4
    <3>10. ASSUME NEW c \in 1..(n + 1), NEW l \in LocalIds, dataLabel'[c] = <<file, l>>
           PROVE  l \in DOMAIN localIdToCrawlIds' /\ c <= localIdToCrawlIds'[l]
      <4>1. CASE l = localId
        BY <2>3, <3>5, <3>7, <3>8, <3>9, <4>1
      <4>2. CASE l # localId
        <5>1. c # n + 1
          BY <3>5, <3>10, <4>2
        <5>2. c \in 1..n /\ dataLabel[c] = <<file, l>>
          BY <3>3, <3>7, <3>10, <5>1
        <5>3. l \in DOMAIN localIdToCrawlIds /\ c <= localIdToCrawlIds[l]
          BY <2>1, <5>2 DEF Latest, n
        <5> QED
          BY <2>3, <4>2, <5>3
      <4> QED
        BY <4>1, <4>2
    <3>11. ASSUME NEW l \in DOMAIN localIdToCrawlIds'
           PROVE  /\ localIdToCrawlIds'[l] \in 1..(n + 1)
                  /\ dataLabel'[localIdToCrawlIds'[l]] = <<file, l>>
      <4>1. CASE l = localId
        BY <3>5, <3>9, <4>1
      <4>2. CASE l # localId
        <5>1. l \in DOMAIN localIdToCrawlIds /\ localIdToCrawlIds'[l] = localIdToCrawlIds[l]
          BY <2>3, <4>2
        <5>2. localIdToCrawlIds[l] \in 1..n /\ dataLabel[localIdToCrawlIds[l]] = <<file, l>>
          BY <2>1, <5>1 DEF Latest, n
        <5> QED
          BY <3>3, <3>8, <5>1, <5>2
      <4> QED
        BY <4>1, <4>2
    <3>12. ASSUME NEW c \in 1..(n + 1) PROVE dataLabel'[c] # <<file, NoId>>
      <4>1. CASE c = n + 1
        BY <3>5, <3>6, <4>1
      <4>2. CASE c \in 1..n
        BY <2>1, <3>3, <4>2 DEF Latest, n
      <4> QED
        BY <3>7, <4>1, <4>2
    <3> QED
      BY <2>1, <3>3, <3>10, <3>11, <3>12 DEF Latest
  <2>4. CASE EndInData
    BY <2>2, <2>3, <2>4, DataEnds
  <2> QED
    BY <1>2, <2>2, <2>4, OtherLoads
<1> QED
  BY <1>1, <1>2

\* The element of the second level, which the end of a deeper one leaves alone.
LEMMA SecondStays ==
  ASSUME SaxInv, Parent, NEW n \in Nat, n >= 1, Len(open) = n + 2
  PROVE  open'[2] = open[2]
<1>1. open \in Seq(Element) /\ open' = SubSeq(open, 1, Len(open) - 1)
  BY DEF SaxInv, DocumentTypes, Parent
<1>2. Len(open) >= 1 /\ 2 \in 1..(Len(open) - 1)
  OBVIOUS
<1> QED
  BY <1>1, <1>2, Shortened

\* Every step preserves ElementId: the id at hand is the one of the open element.
LEMMA ElementIdStep ==
  ASSUME SaxInv, Follows, IdsFollow, [loadHarvests]_harvestVars, ~errorDetected'
  PROVE  ElementId'
<1>1. CASE processHarvestFromFd
  BY <1>1 DEF processHarvestFromFd, NewSaxData, ElementId
<1>2. CASE ~processHarvestFromFd
  <2>1. ElementId /\ ~errorDetected
    BY <1>2, ErrorStays DEF IdsFollow
  <2>2. CASE UNCHANGED loadVars \/ IndexStep \/ EndDocument
    BY <2>1, <2>2 DEF loadVars, IndexStep, EndDocument, saxData, document, ElementId
  <2>3. ASSUME NEW fatal \in BOOLEAN, error(fatal) PROVE FALSE
    BY <2>3 DEF error
  <2>4. ASSUME NEW e \in Elements, startElement(e) PROVE ElementId'
    <3>1. /\ doc \in {"prolog", "root"} /\ open' = Append(open, e)
          /\ open \in Seq(Element) /\ e \in Element
      BY <2>4, ElementTypes DEF startElement, SaxInv, DocumentTypes
    <3>2. Knows(open)
      BY <2>1, <3>1 DEF Follows
    <3>3. OnTop(open', open, e)
      BY <3>1 DEF OnTop
    <3>4. Moves(open', open, e) /\ state = StateOf(open)
      BY <3>2, <3>3, OneMore DEF Knows
    <3>5. CASE StartInDefault(e) \/ StartIgnored(e)
      BY <3>5 DEF StartInDefault, StartIgnored, SkipElement, ElementId
    <3>6. CASE StartExpr(e)
      BY <3>4, <3>6 DEF StartExpr, ElementId, Moves
    <3>7. CASE StartData(e)
      BY <3>4, <3>7 DEF StartData, SkipElement, ElementId, Moves
    <3>8. CASE StartToken(e) \/ StartNested
      BY <2>1, <3>4, <3>8 DEF StartToken, StartNested, ElementId, Moves
    <3> QED
      BY <2>4, <3>5, <3>6, <3>7, <3>8 DEF startElement
  <2>5. CASE endElement
    <3>1. doc = "root" /\ Knows(open) /\ DepthFits /\ SaxTypes
      BY <2>1, <2>5 DEF endElement, Follows, SaxInv
    <3>2. CASE EndInDefault \/ PutDataFails
      BY <2>1, <3>2 DEF EndInDefault, PutDataFails, saxData, ElementId
    <3>3. CASE EndHarvest \/ EndExpr
      BY <3>3 DEF EndHarvest, EndExpr, ElementId
    <3>4. CASE EndRootToken \/ EndToken
      <4>1. /\ state = "IN_MWS_EXPR" /\ state' = state /\ localId' = localId /\ Parent
            /\ localIdToCrawlIds' = localIdToCrawlIds
        BY <3>4 DEF EndRootToken, EndToken
      <4>2. currentToken \in Nat /\ currentToken >= 1
        BY <3>1, <3>4 DEF EndRootToken, EndToken, SaxTypes
      <4>3. Len(open) \in Nat /\ currentToken = Len(open) - 2
        BY <3>1, <4>1 DEF Knows, SaxInv, DocumentTypes
      <4>4. Len(open) = currentToken + 2
        BY <4>2, <4>3
      <4>5. open'[2] = open[2]
        BY <4>1, <4>2, <4>4, SecondStays
      <4> QED
        BY <2>1, <4>1, <4>5 DEF ElementId
    <3>5. CASE EndInData
      <4>1. CASE copyDepth = 1
        BY <3>5, <4>1 DEF EndInData, ElementId
      <4>2. CASE copyDepth # 1
        <5>1. /\ state = "IN_MWS_DATA" /\ state' = state /\ localId' = localId /\ Parent
          BY <3>5, <4>2 DEF EndInData
        <5>2. copyDepth \in Nat /\ copyDepth >= 1
          BY <3>1, <5>1 DEF SaxTypes, DepthFits
        <5>3. Len(open) \in Nat /\ copyDepth = Len(open) - 1
          BY <3>1, <5>1 DEF Knows, SaxInv, DocumentTypes
        <5>4. copyDepth - 1 \in Nat /\ copyDepth - 1 >= 1 /\ Len(open) = (copyDepth - 1) + 2
          BY <4>2, <5>2, <5>3
        <5>5. open'[2] = open[2]
          BY <5>1, <5>4, SecondStays
        <5> QED
          BY <2>1, <5>1, <5>5 DEF ElementId
      <4> QED
        BY <4>1, <4>2
    <3>6. CASE EndUnknown
      BY <3>1, <3>6 DEF EndUnknown, ElementId, SaxTypes
    <3> QED
      BY <2>5, <3>2, <3>3, <3>4, <3>5, <3>6 DEF endElement
  <2> QED
    BY <1>2, <2>2, <2>3, <2>4, <2>5, LoaderSteps DEF ParseStep
<1> QED
  BY <1>1, <1>2

\* The maximum of a set with a greatest element.
LEMMA MaxIs ==
  ASSUME NEW S \in SUBSET Int, NEW m \in S, \A y \in S : m >= y
  PROVE  Max(S) = m
<1>1. Max(S) \in S /\ \A y \in S : Max(S) >= y
  BY DEF Max
<1>2. Max(S) \in Int /\ m \in Int /\ Max(S) >= m /\ m >= Max(S)
  BY <1>1
<1>3. \A a, b \in Int : a >= b /\ b >= a => a = b
  OBVIOUS
<1> QED
  BY <1>2, <1>3, Zenon

\* The crawl id of an expression is that of the element it refers to.
LEMMA RefersRight ==
  ASSUME SaxInv, Labels, IdsStored, IdsFollow, ~errorDetected, state = "IN_MWS_EXPR"
  PROVE  Referred = crawlIdOfExpr
<1> DEFINE id == open[2].id
<1> DEFINE items == { c \in DOMAIN dataLabel : dataLabel[c] = <<file, id>> }
<1>1. /\ Latest /\ NoId \notin LocalIds
      /\ localId = IF shouldProcessData /\ id \notin DOMAIN localIdToCrawlIds THEN NoId ELSE id
  BY LoaderAssumption DEF IdsFollow, ElementId
<1>2. DOMAIN dataLabel = 1..Len(dataLabel) /\ Len(dataLabel) \in Nat
  BY DEF Labels
<1>3. id \in LocalIds \cup {NoId}
  <2>1. open \in Seq(Element) /\ Len(open) \in Nat
    BY DEF SaxInv, DocumentTypes
  <2>2. Len(open) >= 2
    BY <2>1 DEF SaxInv, SaxTypes, DepthFits
  <2>3. open[2] \in Element
    BY <2>1, <2>2
  <2> QED
    BY <2>3 DEF Element
<1>4. Referred = Max({0} \cup items)
  BY DEF Referred, CRAWLID_NULL
<1> HIDE DEF id
<1>5. {0} \cup items \in SUBSET Int /\ 0 \in {0} \cup items
  BY <1>2
<1>6. CASE shouldProcessData /\ id \in DOMAIN localIdToCrawlIds
  <2>1. localId = id /\ crawlIdOfExpr = localIdToCrawlIds[id]
    BY <1>1, <1>6 DEF crawlIdOfExpr
  <2>2. /\ localIdToCrawlIds[id] \in 1..Len(dataLabel) /\ id \in LocalIds
        /\ dataLabel[localIdToCrawlIds[id]] = <<file, id>>
    BY <1>1, <1>6 DEF Latest, IdsStored
  <2>3. localIdToCrawlIds[id] \in {0} \cup items
    BY <1>2, <2>2
  <2>4. \A c \in items : c \in Int /\ c <= localIdToCrawlIds[id]
    BY <1>1, <1>2, <2>2 DEF Latest
  <2>5. \A y \in {0} \cup items : localIdToCrawlIds[id] >= y
    BY <1>2, <2>2, <2>4
  <2> HIDE DEF items
  <2>6. Max({0} \cup items) = localIdToCrawlIds[id]
    BY <1>5, <2>3, <2>5, MaxIs
  <2> QED
    BY <1>4, <2>1, <2>6
<1>7. CASE ~(shouldProcessData /\ id \in DOMAIN localIdToCrawlIds)
  <2>1. crawlIdOfExpr = 0
    BY <1>1, <1>7 DEF crawlIdOfExpr, CRAWLID_NULL, IdsStored
  <2>2. items = {}
    <3>1. CASE ~shouldProcessData
      BY <1>2, <3>1 DEF Labels
    <3>2. CASE id \notin DOMAIN localIdToCrawlIds
      BY <1>1, <1>2, <1>3, <3>2 DEF Latest
    <3> QED
      BY <1>7, <3>1, <3>2
  <2>3. \A y \in {0} \cup items : 0 >= y
    BY <2>2
  <2> HIDE DEF items
  <2>4. Max({0} \cup items) = 0
    BY <1>5, <2>3, MaxIs
  <2> QED
    BY <1>4, <2>1, <2>4
<1> QED
  BY <1>6, <1>7

\* What the hits of an expression refer to is noted once per call.
Noted ==
  /\ due \in Seq(Int) /\ Len(due) = Len(processed)
  /\ ~Idle => due[Len(due)] \in {Unknown, current.crawlId}
  /\ \A id \in DOMAIN formulaDb : \A i \in DOMAIN formulaDb[id] :
       formulaDb[id][i].expr \in 1..Len(due)

\* What the steps of the parser do to the index and to due.
LEMMA DueSteps ==
  ASSUME SaxInv, Labels, IdsStored, IdsFollow, [loadHarvests]_harvestVars
  PROVE  \/ /\ UNCHANGED <<formulaDb, processed, current, due>>
         \/ /\ SkipSubexpression \/ RepeatedSubexpression \/ InsertSubexpression \/ EndExpression
            /\ UNCHANGED due
         \/ \E c \in {Unknown, crawlIdOfExpr} :
              BeginExpression(Subexpressions(tokens), crawlIdOfExpr) /\ due' = Append(due, c)
<1>1. CASE UNCHANGED loadVars \/ processHarvestFromFd \/ EndDocument
  BY <1>1 DEF loadVars, processHarvestFromFd, EndDocument, vars
<1>2. CASE IndexStep
  BY <1>2 DEF IndexStep
<1>3. ASSUME NEW e \in Elements, startElement(e) PROVE UNCHANGED <<formulaDb, processed, current, due>>
  BY <1>3 DEF startElement, vars
<1>4. ASSUME NEW fatal \in BOOLEAN, error(fatal) PROVE UNCHANGED <<formulaDb, processed, current, due>>
  BY <1>4 DEF error, vars
<1>5. CASE EndInDefault \/ PutDataFails \/ EndHarvest \/ EndExpr \/ EndToken \/ EndUnknown
  BY <1>5 DEF EndInDefault, PutDataFails, EndHarvest, EndExpr, EndToken, EndUnknown, vars
<1>6. CASE EndInData
  BY <1>6, DataEnds DEF EndInData, indexCrawlData, vars
<1>7. CASE EndRootToken
  <2>1. /\ state = "IN_MWS_EXPR" /\ BeginExpression(Subexpressions(tokens), crawlIdOfExpr)
        /\ due' = Append(due, IF errorDetected THEN Unknown ELSE Referred)
    BY <1>7 DEF EndRootToken
  <2> QED
    BY <2>1, RefersRight
<1> QED
  BY <1>1, <1>2, <1>3, <1>4, <1>5, <1>6, <1>7, LoaderSteps DEF ParseStep, endElement

\* Every step preserves Noted, and with it HitsPointToTheirData.
LEMMA NotedStep ==
  ASSUME SaxInv, Labels, IdsStored, IdsFollow, Base, Noted, HitsPointToTheirData,
         [loadHarvests]_harvestVars
  PROVE  Noted' /\ HitsPointToTheirData'
<1>t. /\ processed \in Seq(Expressions) /\ Len(processed) \in Nat
      /\ current \in [crawlId : Nat, pos : Nat]
      /\ due \in Seq(Int) /\ Len(due) = Len(processed)
  BY DEF Base, TypeOK, Noted
<1>1. CASE UNCHANGED <<formulaDb, processed, current, due>>
  BY <1>1 DEF Noted, HitsPointToTheirData, Idle
<1>2. CASE (SkipSubexpression \/ RepeatedSubexpression) /\ UNCHANGED due
  <2>1. ~Idle /\ UNCHANGED <<processed, formulaDb>> /\ Advance
    BY <1>2 DEF SkipSubexpression, RepeatedSubexpression, MoreSubexpressions
  <2>2. current'.crawlId = current.crawlId
    BY <1>t, <2>1 DEF Advance
  <2> QED
    BY <1>2, <2>1, <2>2 DEF Noted, HitsPointToTheirData
<1>3. CASE EndExpression /\ UNCHANGED due
  BY <1>3 DEF EndExpression, Noted, HitsPointToTheirData, Idle
<1>4. CASE InsertSubexpression /\ UNCHANGED due
  <2>1. ~Idle /\ processed' = processed /\ Advance /\ processed # <<>>
    BY <1>4 DEF InsertSubexpression, CountSolution, MoreSubexpressions, Base, Called
  <2>2. current'.crawlId = current.crawlId
    BY <1>t, <2>1 DEF Advance
  <2>3. NewHit.expr = Len(due) /\ NewHit.crawlId = current.crawlId
    BY <1>t DEF NewHit
  <2>4. Len(due) \in 1..Len(due)
    BY <1>t, <2>1
  <2>5. ASSUME NEW id \in DOMAIN formulaDb', NEW i \in DOMAIN formulaDb'[id]
        PROVE  /\ formulaDb'[id][i].expr \in 1..Len(due)
               /\ due[formulaDb'[id][i].expr] \in {Unknown, formulaDb'[id][i].crawlId}
    <3>1. CASE formulaDb'[id][i] = NewHit
      BY <2>1, <2>3, <2>4, <3>1 DEF Noted
    <3>2. CASE /\ id \in DOMAIN formulaDb /\ i \in DOMAIN formulaDb[id]
               /\ formulaDb'[id][i] = formulaDb[id][i]
      BY <3>2 DEF Noted, HitsPointToTheirData
    <3> QED
      BY <1>4, <3>1, <3>2, HitAfterInsert
  <2>6. HitsPointToTheirData'
    BY <1>4, <2>5 DEF HitsPointToTheirData
  <2> QED
    BY <1>4, <2>1, <2>2, <2>5, <2>6 DEF Noted
<1>5. ASSUME NEW c \in {Unknown, crawlIdOfExpr},
             BeginExpression(Subexpressions(tokens), crawlIdOfExpr), due' = Append(due, c)
      PROVE  Noted' /\ HitsPointToTheirData'
  <2>1. /\ formulaDb' = formulaDb /\ processed' = Append(processed, Subexpressions(tokens))
        /\ current'.crawlId = crawlIdOfExpr
    BY <1>5 DEF BeginExpression
  <2>2. c \in Int
    <3>1. Unknown \in Int
      BY DEF Unknown
    <3>2. crawlIdOfExpr \in crawlDb \cup {0} /\ crawlDb \subseteq Int
      BY DEF crawlIdOfExpr, CRAWLID_NULL, IdsStored, Base, TypeOK
    <3> QED
      BY <3>1, <3>2
  <2>3. /\ due' \in Seq(Int) /\ Len(due') = Len(due) + 1 /\ due'[Len(due')] = c
        /\ \A n \in 1..Len(due) : due'[n] = due[n]
    BY <1>5, <1>t, <2>2
  <2>4. Len(processed') = Len(processed) + 1
    BY <2>1, <1>t
  <2>5. \A n \in 1..Len(due) : n \in 1..Len(due')
    BY <1>t, <2>3
  <2>6. HitsPointToTheirData'
    BY <2>1, <2>3 DEF Noted, HitsPointToTheirData
  <2> QED
    BY <1>5, <1>t, <2>1, <2>3, <2>4, <2>5, <2>6 DEF Noted
<1> QED
  BY <1>1, <1>2, <1>3, <1>4, <1>5, DueSteps

\* Every stored hit leads to the data its expression referred to in its own
\* file, for any number of files, elements and ids, with and without a crawl
\* database or --ignore-data.
THEOREM HitsPointToTheirDataCorrect == HarvestSpec => []HitsPointToTheirData
<1> DEFINE Inv == SaxInv /\ Follows /\ Labels /\ IdsStored /\ IdsFollow /\ Base /\ Noted /\ HitsPointToTheirData
<1>1. HarvestInit => Inv
  <2> SUFFICES ASSUME HarvestInit PROVE Inv
    OBVIOUS
  <2>1. SaxInv /\ Base
    BY SaxInit, BaseInit DEF HarvestInit, LoadInit
  <2>2. Follows /\ IdsStored
    BY DEF HarvestInit, LoadInit, Follows, IdsStored, EmptyMap
  <2>3. Labels
    BY DEF HarvestInit, LoadInit, Init, Labels
  <2>4. IdsFollow
    BY DEF HarvestInit, LoadInit, Init, IdsFollow, Latest, ElementId, EmptyMap
  <2>5. Noted /\ HitsPointToTheirData
    BY DEF HarvestInit, LoadInit, Init, Noted, HitsPointToTheirData, EmptyMap, Idle
  <2> QED
    BY <2>1, <2>2, <2>3, <2>4, <2>5
<1>2. Inv /\ [loadHarvests]_harvestVars => Inv'
  BY SaxStep, FollowsStep, LabelsStep, IdsStep, LatestStep, ElementIdStep, UseStep, BaseStep, NotedStep
     DEF IdsFollow
<1> QED
  BY <1>1, <1>2, PTL DEF HarvestSpec

-----------------------------------------------------------------------------
(***************************************************************************)
(* Sets of numbers in increasing order.                                    *)
(***************************************************************************)
Rank(S, i) == Cardinality({ j \in S : j <= i })

\* Ranks are 1 to the size of the set, and grow with the numbers.
LEMMA RankIs ==
  ASSUME NEW S, IsFiniteSet(S), S \subseteq Int
  PROVE  /\ Cardinality(S) \in Nat
         /\ \A i \in S : Rank(S, i) \in 1..Cardinality(S)
         /\ \A i, j \in S : i < j => Rank(S, i) < Rank(S, j)
<1> DEFINE Upto(i) == { j \in S : j <= i }
<1>0. Cardinality(S) \in Nat
  BY FS_CardinalityType
<1>1. ASSUME NEW i \in S
      PROVE  IsFiniteSet(Upto(i)) /\ Rank(S, i) = Cardinality(Upto(i)) /\ Rank(S, i) \in 1..Cardinality(S)
  <2>1. Upto(i) \subseteq S /\ i \in Upto(i)
    OBVIOUS
  <2>r. Rank(S, i) = Cardinality(Upto(i))
    BY DEF Rank
  <2> HIDE DEF Upto
  <2>2. IsFiniteSet(Upto(i)) /\ Cardinality(Upto(i)) <= Cardinality(S)
    BY <2>1, FS_Subset
  <2>3. Cardinality(Upto(i)) \in Nat /\ Cardinality(Upto(i)) # 0
    BY <2>1, <2>2, FS_CardinalityType, FS_EmptySet
  <2> QED
    BY <1>0, <2>r, <2>2, <2>3
<1>2. ASSUME NEW i \in S, NEW j \in S, i < j PROVE Rank(S, i) < Rank(S, j)
  <2>1. Upto(i) \subseteq Upto(j) /\ j \in Upto(j) /\ j \notin Upto(i)
    <3>1. i \in Int /\ j \in Int /\ \A k \in S : k \in Int
      OBVIOUS
    <3>2. \A k \in S : k <= i => k <= j
      BY <1>2, <3>1
    <3>3. j <= j /\ ~(j <= i)
      BY <1>2, <3>1
    <3> QED
      BY <3>2, <3>3
  <2> HIDE DEF Upto
  <2>2. Cardinality(Upto(i)) <= Cardinality(Upto(j)) /\ Cardinality(Upto(i)) # Cardinality(Upto(j))
    BY <1>1, <2>1, FS_Subset
  <2>3. Rank(S, i) \in Nat /\ Rank(S, j) \in Nat
    BY <1>0, <1>1
  <2> QED
    BY <1>1, <2>2, <2>3
<1> QED
  BY <1>0, <1>1, <1>2

\* InOrder(S)[n] is the element of rank n.
LEMMA InOrderIs ==
  ASSUME NEW S, IsFiniteSet(S), S \subseteq Int
  PROVE  /\ Cardinality(S) \in Nat /\ DOMAIN InOrder(S) = 1..Cardinality(S)
         /\ \A n \in 1..Cardinality(S) : InOrder(S)[n] \in S /\ Rank(S, InOrder(S)[n]) = n
<1> DEFINE N == Cardinality(S)
           f == [i \in S |-> Rank(S, i)]
<1>1. N \in Nat /\ \A i \in S : Rank(S, i) \in 1..N
  BY RankIs
<1>2. ASSUME NEW n \in 1..N PROVE \E i \in S : Rank(S, i) = n
  <2>1. f \in [S -> 1..N]
    BY <1>1
  <2>2. \A i, j \in S : Rank(S, i) = Rank(S, j) => i = j
    <3>1. ASSUME NEW i \in S, NEW j \in S, i # j PROVE Rank(S, i) # Rank(S, j)
      <4>1. i < j \/ j < i
        BY <3>1
      <4> QED
        <5>1. Rank(S, i) < Rank(S, j) \/ Rank(S, j) < Rank(S, i)
          BY <4>1, RankIs
        <5>2. Rank(S, i) \in Int /\ Rank(S, j) \in Int
          BY <1>1
        <5> QED
          BY <5>1, <5>2
    <3> QED
      BY <3>1
  <2>3. f \in Injection(S, 1..N)
    BY <2>1, <2>2 DEF Injection, IsInjective
  <2>4. IsFiniteSet(1..N) /\ Cardinality(1..N) = N
    <3>1. 1 \in Int /\ N \in Int /\ (1 > N => N = 0)
      BY <1>1
    <3> QED
      BY <3>1, FS_Interval
  <2>5. f \in Surjection(S, 1..N)
    <3> HIDE DEF f
    <3> QED
      BY <2>3, <2>4, FS_Injection DEF N
  <2> QED
    BY <2>5 DEF Surjection
<1>3. ASSUME NEW n \in 1..N PROVE InOrder(S)[n] \in S /\ Rank(S, InOrder(S)[n]) = n
  <2>1. InOrder(S)[n] = CHOOSE i \in S : Rank(S, i) = n
    BY DEF InOrder, Rank
  <2> QED
    BY <1>2, <2>1
<1>4. DOMAIN InOrder(S) = 1..N
  BY DEF InOrder
<1> QED
  BY <1>1, <1>3, <1>4

\* Every number is there, and smaller ones come first.
LEMMA InOrderAll ==
  ASSUME NEW S, IsFiniteSet(S), S \subseteq Int
  PROVE  /\ InOrder(S) \in Seq(S) /\ DOMAIN InOrder(S) = 1..Cardinality(S) /\ Cardinality(S) \in Nat
         /\ ToSet(InOrder(S)) = S
         /\ \A m, n \in DOMAIN InOrder(S) : m < n => InOrder(S)[m] < InOrder(S)[n]
<1>1. PICK s : s = InOrder(S)
  OBVIOUS
<1>2. PICK N : N = Cardinality(S)
  OBVIOUS
<1>3. N \in Nat /\ DOMAIN s = 1..N /\ \A n \in 1..N : s[n] \in S /\ Rank(S, s[n]) = n
  BY <1>1, <1>2, InOrderIs
<1>4. /\ \A i \in S : Rank(S, i) \in 1..N
      /\ \A i, j \in S : i < j => Rank(S, i) < Rank(S, j)
  BY <1>2, RankIs
<1>5. ASSUME NEW i \in S PROVE \E n \in 1..N : s[n] = i
  <2>1. PICK n : n = Rank(S, i)
    OBVIOUS
  <2>2. n \in 1..N /\ s[n] \in S /\ Rank(S, s[n]) = Rank(S, i)
    BY <1>3, <1>4, <2>1
  <2>3. ~(s[n] < i) /\ ~(i < s[n])
    <3>1. Rank(S, i) \in Int
      BY <1>3, <1>4
    <3>2. s[n] < i => Rank(S, s[n]) < Rank(S, i)
      BY <1>4, <2>2, Zenon
    <3>3. i < s[n] => Rank(S, i) < Rank(S, s[n])
      BY <1>4, <2>2, Zenon
    <3> QED
      BY <2>2, <3>1, <3>2, <3>3
  <2>4. s[n] \in Int /\ i \in Int
    BY <2>2
  <2>5. s[n] = i
    BY <2>3, <2>4
  <2> QED
    BY <2>2, <2>5
<1>6. ASSUME NEW m \in 1..N, NEW n \in 1..N, m < n PROVE s[m] < s[n]
  <2>1. s[m] \in S /\ s[n] \in S /\ Rank(S, s[m]) = m /\ Rank(S, s[n]) = n
    BY <1>3
  <2>2. s[n] < s[m] => Rank(S, s[n]) < Rank(S, s[m])
    BY <1>4, <2>1, Zenon
  <2>3. ~(s[n] < s[m]) /\ s[m] # s[n]
    BY <1>6, <2>1, <2>2
  <2>4. s[n] \in Int /\ s[m] \in Int
    BY <2>1
  <2> QED
    BY <2>3, <2>4
<1>7. s \in Seq(S)
  <2> DEFINE F(n) == CHOOSE i \in S : Cardinality({ j \in S : j <= i }) = n
  <2>1. s = [n \in 1..N |-> F(n)]
    BY <1>1, <1>2, Zenon DEF InOrder
  <2> HIDE DEF F
  <2>2. s = [n \in 1..N |-> s[n]]
    BY <2>1
  <2> QED
    BY <1>3, <2>2
<1>8. ToSet(s) = S
  BY <1>3, <1>5, Zenon DEF ToSet
<1> QED
  BY <1>1, <1>2, <1>3, <1>6, <1>7, <1>8

-----------------------------------------------------------------------------
(***************************************************************************)
(* The order of paths.                                                     *)
(***************************************************************************)
\* A path and one below it.
LEMMA Longer ==
  ASSUME NEW f \in Seq(Int), NEW n \in Int, NEW g, g = Append(f, n)
  PROVE  /\ g \in Seq(Int) /\ Len(g) = Len(f) + 1 /\ Len(f) \in Nat /\ DOMAIN g = 1..(Len(f) + 1)
         /\ g[Len(f) + 1] = n /\ \A k \in 1..Len(f) : g[k] = f[k]
         /\ DOMAIN f = 1..Len(f) /\ Front(g) = f /\ Last(g) = n
<1>1. /\ g \in Seq(Int) /\ Len(g) = Len(f) + 1 /\ Len(f) \in Nat /\ DOMAIN g = 1..(Len(f) + 1)
      /\ g[Len(f) + 1] = n /\ \A k \in 1..Len(f) : g[k] = f[k]
      /\ DOMAIN f = 1..Len(f)
  OBVIOUS
<1>2. Last(g) = n
  BY <1>1 DEF Last
<1>3. Front(g) = f
  <2>1. Front(g) = SubSeq(g, 1, Len(f))
    BY <1>1 DEF Front
  <2>2. SubSeq(g, 1, Len(f)) = [k \in 1..Len(f) |-> g[k]]
    BY <1>1
  <2>3. f = [k \in 1..Len(f) |-> f[k]]
    OBVIOUS
  <2> QED
    BY <1>1, <2>1, <2>2, <2>3
<1> QED
  BY <1>1, <1>2, <1>3

\* What comes before is not longer.
LEMMA BeforeLen ==
  ASSUME NEW f \in Seq(Int), NEW g \in Seq(Int), Before(f, g)
  PROVE  Len(f) <= Len(g)
BY DEF Before

\* Of two paths at most one comes before the other.
LEMMA BeforeOnce ==
  ASSUME NEW f \in Seq(Int), NEW g \in Seq(Int), Before(f, g), Before(g, f)
  PROVE  FALSE
<1>0. Len(f) <= Len(g) /\ Len(g) <= Len(f)
  BY BeforeLen
<1>1. Len(f) = Len(g) /\ Len(f) \in Nat /\ DOMAIN f = 1..Len(f) /\ DOMAIN g = 1..Len(f) /\ ~(Len(f) < Len(g))
      /\ ~(Len(g) < Len(f))
  BY <1>0
<1>2. PICK i \in 1..Len(f) : f[i] < g[i] /\ \A k \in 1..(i - 1) : f[k] = g[k]
  BY <1>1, Zenon DEF Before
<1>3. PICK j \in 1..Len(f) : g[j] < f[j] /\ \A k \in 1..(j - 1) : g[k] = f[k]
  BY <1>1, Zenon DEF Before
<1>4. f[i] \in Int /\ g[i] \in Int /\ f[j] \in Int /\ g[j] \in Int
  BY <1>1
<1>5. i < j \/ i = j \/ j < i
  OBVIOUS
<1>6. CASE i < j
  <2>1. i \in 1..(j - 1)
    BY <1>6
  <2> QED
    BY <1>2, <1>3, <1>4, <2>1
<1>7. CASE j < i
  <2>1. j \in 1..(i - 1)
    BY <1>7
  <2> QED
    BY <1>2, <1>3, <1>4, <2>1
<1> QED
  BY <1>2, <1>3, <1>4, <1>5, <1>6, <1>7

\* A shorter path comes first.
LEMMA BeforeDeeper ==
  ASSUME NEW f \in Seq(Int), NEW g \in Seq(Int), Len(f) < Len(g)
  PROVE  Before(f, g)
BY DEF Before

\* What is in one directory comes before what is in a later one.
LEMMA BeforeChild ==
  ASSUME NEW x \in Seq(Int), NEW y \in Seq(Int), Before(x, y), NEW m \in Int, NEW n \in Int
  PROVE  Before(Append(x, m), Append(y, n))
<1>1. PICK f, g : f = Append(x, m) /\ g = Append(y, n)
  OBVIOUS
<1>2. /\ f \in Seq(Int) /\ Len(f) = Len(x) + 1 /\ Len(x) \in Nat /\ DOMAIN f = 1..(Len(x) + 1)
      /\ \A k \in 1..Len(x) : f[k] = x[k]
  BY <1>1, Longer
<1>3. /\ g \in Seq(Int) /\ Len(g) = Len(y) + 1 /\ Len(y) \in Nat
      /\ \A k \in 1..Len(y) : g[k] = y[k]
  BY <1>1, Longer
<1>4. CASE Len(x) < Len(y)
  <2>1. Len(f) < Len(g)
    BY <1>2, <1>3, <1>4
  <2>2. Before(f, g)
    BY <1>2, <1>3, <2>1, BeforeDeeper
  <2> QED
    BY <1>1, <2>2
<1>5. CASE Len(x) = Len(y)
  <2>1. PICK i \in DOMAIN x : x[i] < y[i] /\ \A k \in 1..(i - 1) : x[k] = y[k]
    BY <1>5 DEF Before
  <2>2. i \in 1..Len(x) /\ i \in DOMAIN f
    BY <1>2, <2>1
  <2>3. \A k \in 1..(i - 1) : k \in 1..Len(x)
    BY <1>2, <2>2
  <2>4. f[i] = x[i] /\ g[i] = y[i] /\ \A k \in 1..(i - 1) : f[k] = x[k] /\ g[k] = y[k]
    BY <1>2, <1>3, <1>5, <2>2, <2>3
  <2>5. f[i] < g[i] /\ \A k \in 1..(i - 1) : f[k] = g[k]
    BY <2>1, <2>4
  <2> QED
    BY <1>1, <1>2, <1>3, <1>5, <2>2, <2>5 DEF Before
<1> QED
  BY <1>2, <1>3, <1>4, <1>5, BeforeLen

\* The entries of a directory come in the order of their names.
LEMMA BeforeName ==
  ASSUME NEW x \in Seq(Int), NEW m \in Int, NEW n \in Int, m < n
  PROVE  Before(Append(x, m), Append(x, n))
<1>1. PICK f, g : f = Append(x, m) /\ g = Append(x, n)
  OBVIOUS
<1>2. /\ f \in Seq(Int) /\ Len(f) = Len(x) + 1 /\ Len(x) \in Nat /\ DOMAIN f = 1..(Len(x) + 1)
      /\ f[Len(x) + 1] = m /\ \A k \in 1..Len(x) : f[k] = x[k]
  BY <1>1, Longer
<1>3. g \in Seq(Int) /\ Len(g) = Len(x) + 1 /\ g[Len(x) + 1] = n /\ \A k \in 1..Len(x) : g[k] = x[k]
  BY <1>1, Longer
<1>4. Len(x) + 1 \in DOMAIN f /\ (Len(x) + 1) - 1 = Len(x)
  BY <1>2
<1> QED
  BY <1>1, <1>2, <1>3, <1>4 DEF Before

-----------------------------------------------------------------------------
(***************************************************************************)
(* Queues.                                                                 *)
(***************************************************************************)
Increasing(s) == \A i, j \in DOMAIN s : i < j => Before(s[i], s[j])

\* One queue behind another.
LEMMA QueueJoin ==
  ASSUME NEW T, NEW s \in Seq(T), NEW t \in Seq(T)
  PROVE  /\ s \o t \in Seq(T) /\ ToSet(s \o t) = ToSet(s) \cup ToSet(t)
         /\ Increasing(s) /\ Increasing(t) /\ (\A x \in ToSet(s), y \in ToSet(t) : Before(x, y)) =>
              Increasing(s \o t)
<1>1. PICK u : u = s \o t
  OBVIOUS
<1>2. /\ u \in Seq(T) /\ Len(u) = Len(s) + Len(t) /\ Len(s) \in Nat /\ Len(t) \in Nat
      /\ DOMAIN u = 1..(Len(s) + Len(t)) /\ DOMAIN s = 1..Len(s) /\ DOMAIN t = 1..Len(t)
      /\ \A i \in 1..Len(s) : u[i] = s[i]
      /\ \A i \in 1..Len(t) : u[Len(s) + i] = t[i]
  BY <1>1
<1>3. ASSUME NEW i \in 1..Len(u)
      PROVE  i \in 1..Len(s) \/ (i > Len(s) /\ i - Len(s) \in 1..Len(t) /\ u[i] = t[i - Len(s)])
  <2>1. i \in 1..Len(s) \/ (i > Len(s) /\ i - Len(s) \in 1..Len(t) /\ Len(s) + (i - Len(s)) = i)
    BY <1>2
  <2> QED
    BY <1>2, <2>1
<1>4. ToSet(u) = ToSet(s) \cup ToSet(t)
  <2>1. ASSUME NEW x \in ToSet(u) PROVE x \in ToSet(s) \cup ToSet(t)
    <3>1. PICK i \in 1..Len(u) : x = u[i]
      BY <1>2 DEF ToSet
    <3> QED
      BY <1>2, <1>3, <3>1 DEF ToSet
  <2>2. ASSUME NEW x \in ToSet(s) PROVE x \in ToSet(u)
    <3>1. PICK i \in 1..Len(s) : x = s[i]
      BY <1>2 DEF ToSet
    <3>2. i \in DOMAIN u /\ u[i] = x
      BY <1>2, <3>1
    <3> QED
      BY <3>2 DEF ToSet
  <2>3. ASSUME NEW x \in ToSet(t) PROVE x \in ToSet(u)
    <3>1. PICK i \in 1..Len(t) : x = t[i]
      BY <1>2 DEF ToSet
    <3>2. Len(s) + i \in DOMAIN u /\ u[Len(s) + i] = x
      BY <1>2, <3>1
    <3> QED
      BY <3>2 DEF ToSet
  <2> QED
    BY <2>1, <2>2, <2>3
<1>5. ASSUME Increasing(s), Increasing(t), \A x \in ToSet(s), y \in ToSet(t) : Before(x, y),
             NEW i \in DOMAIN u, NEW j \in DOMAIN u, i < j
      PROVE  Before(u[i], u[j])
  <2>1. CASE i \in 1..Len(s) /\ j \in 1..Len(s)
    BY <1>2, <1>5, <2>1 DEF Increasing
  <2>2. CASE i \in 1..Len(s) /\ ~(j \in 1..Len(s))
    <3>1. u[i] \in ToSet(s)
      BY <1>2, <2>2 DEF ToSet
    <3>2. u[j] \in ToSet(t)
      BY <1>2, <1>3, <2>2 DEF ToSet
    <3> QED
      BY <1>5, <3>1, <3>2
  <2>3. CASE ~(i \in 1..Len(s))
    <3>1. i - Len(s) \in 1..Len(t) /\ u[i] = t[i - Len(s)] /\ i > Len(s)
      BY <1>2, <1>3, <2>3
    <3>2. ~(j \in 1..Len(s))
      BY <1>2, <1>5, <3>1
    <3>3. j - Len(s) \in 1..Len(t) /\ u[j] = t[j - Len(s)]
      BY <1>2, <1>3, <3>2
    <3>4. i - Len(s) < j - Len(s)
      BY <1>2, <1>5
    <3>5. Before(t[i - Len(s)], t[j - Len(s)])
      BY <1>2, <1>5, <3>1, <3>3, <3>4 DEF Increasing
    <3> QED
      BY <3>1, <3>3, <3>5
  <2> QED
    BY <2>1, <2>2, <2>3
<1>6. Increasing(s) /\ Increasing(t) /\ (\A x \in ToSet(s), y \in ToSet(t) : Before(x, y)) => Increasing(u)
  BY <1>5 DEF Increasing
<1> QED
  BY <1>1, <1>2, <1>4, <1>6

\* A queue without its head.
LEMMA QueueTail ==
  ASSUME NEW T, NEW s \in Seq(T), s # <<>>
  PROVE  /\ Tail(s) \in Seq(T) /\ Head(s) \in T /\ Head(s) \in ToSet(s)
         /\ ToSet(s) = {Head(s)} \cup ToSet(Tail(s))
         /\ Increasing(s) => Increasing(Tail(s)) /\ \A x \in ToSet(Tail(s)) : Before(Head(s), x)
<1>1. PICK u : u = Tail(s)
  OBVIOUS
<1>2. /\ u \in Seq(T) /\ Len(s) \in Nat /\ Len(s) > 0 /\ Len(u) = Len(s) - 1 /\ DOMAIN s = 1..Len(s)
      /\ DOMAIN u = 1..(Len(s) - 1) /\ \A i \in 1..(Len(s) - 1) : u[i] = s[i + 1]
      /\ Head(s) = s[1] /\ Head(s) \in T
  BY <1>1
<1>3. Head(s) \in ToSet(s)
  BY <1>2 DEF ToSet
<1>4. ASSUME NEW x \in ToSet(s) PROVE x = Head(s) \/ x \in ToSet(u)
  <2>1. PICK i \in 1..Len(s) : x = s[i]
    BY <1>2 DEF ToSet
  <2>2. CASE i = 1
    BY <1>2, <2>1, <2>2
  <2>3. CASE i # 1
    <3>1. i - 1 \in DOMAIN u /\ u[i - 1] = s[i]
      BY <1>2, <2>3
    <3> QED
      BY <2>1, <3>1 DEF ToSet
  <2> QED
    BY <2>2, <2>3
<1>5. ASSUME NEW x \in ToSet(u) PROVE x \in ToSet(s) /\ (Increasing(s) => Before(Head(s), x))
  <2>1. PICK i \in 1..(Len(s) - 1) : x = s[i + 1]
    BY <1>2 DEF ToSet
  <2>2. i + 1 \in DOMAIN s /\ 1 \in DOMAIN s /\ 1 < i + 1
    BY <1>2
  <2> QED
    BY <1>2, <2>1, <2>2 DEF ToSet, Increasing
<1>6. Increasing(s) => Increasing(u)
  <2> SUFFICES ASSUME Increasing(s), NEW i \in DOMAIN u, NEW j \in DOMAIN u, i < j PROVE Before(u[i], u[j])
    BY DEF Increasing
  <2>1. i + 1 \in DOMAIN s /\ j + 1 \in DOMAIN s /\ i + 1 < j + 1 /\ u[i] = s[i + 1] /\ u[j] = s[j + 1]
    BY <1>2
  <2> QED
    BY <2>1 DEF Increasing
<1> QED
  BY <1>1, <1>2, <1>3, <1>4, <1>5, <1>6

-----------------------------------------------------------------------------
(***************************************************************************)
(* Directories and their entries.                                          *)
(***************************************************************************)
\* A directory that the visit of p would come to, were it recursive.
Below(cfg, p, d) ==
  /\ d \in DOMAIN cfg.tree /\ IsPrefix(p, d)
  /\ \A n \in (Len(p) + 1)..Len(d) : IsDirectory(cfg.tree, SubSeq(d, 1, n))

\* The first names of a path.
LEMMA PrefixIs ==
  ASSUME NEW s \in Seq(Int), NEW t \in Seq(Int)
  PROVE  /\ IsPrefix(s, t) => Len(s) <= Len(t) /\ \A k \in 1..Len(s) : s[k] = t[k]
         /\ Len(s) <= Len(t) /\ (\A k \in 1..Len(s) : s[k] = t[k]) => IsPrefix(s, t)
<1>1. Len(s) \in Nat /\ Len(t) \in Nat
  OBVIOUS
<1>2. SubSeq(s, 1, Len(s)) = [k \in 1..Len(s) |-> s[k]]
  BY <1>1
<1>3. ASSUME Len(s) <= Len(t) PROVE SubSeq(t, 1, Len(s)) = [k \in 1..Len(s) |-> t[k]]
  BY <1>1, <1>3
<1>4. ASSUME IsPrefix(s, t) PROVE Len(s) <= Len(t) /\ \A k \in 1..Len(s) : s[k] = t[k]
  <2>1. Len(s) <= Len(t) /\ [k \in 1..Len(s) |-> s[k]] = [k \in 1..Len(s) |-> t[k]]
    BY <1>2, <1>3, <1>4 DEF IsPrefix
  <2> QED
    BY <2>1
<1>5. ASSUME Len(s) <= Len(t), \A k \in 1..Len(s) : s[k] = t[k] PROVE IsPrefix(s, t)
  <2>1. [k \in 1..Len(s) |-> s[k]] = [k \in 1..Len(s) |-> t[k]]
    BY <1>5
  <2> QED
    BY <1>2, <1>3, <1>5, <2>1 DEF IsPrefix
<1> QED
  BY <1>4, <1>5

\* The first names of a path, with one more.
LEMMA PrefixNext ==
  ASSUME NEW s \in Seq(Int), NEW t \in Seq(Int), IsPrefix(s, t), Len(s) < Len(t)
  PROVE  /\ SubSeq(t, 1, Len(s) + 1) = Append(s, t[Len(s) + 1])
         /\ t[Len(s) + 1] \in Int /\ IsPrefix(Append(s, t[Len(s) + 1]), t)
<1>1. PICK n : n = t[Len(s) + 1]
  OBVIOUS
<1>2. PICK u : u = Append(s, n)
  OBVIOUS
<1>3. Len(s) \in Nat /\ Len(t) \in Nat /\ Len(s) + 1 \in 1..Len(t)
  OBVIOUS
<1>4. n \in Int
  BY <1>1, <1>3
<1>5. /\ u \in Seq(Int) /\ Len(u) = Len(s) + 1 /\ u[Len(s) + 1] = n /\ \A k \in 1..Len(s) : u[k] = s[k]
  BY <1>2, <1>4, Longer
<1>6. \A k \in 1..Len(s) : s[k] = t[k]
  BY PrefixIs
<1>7. ASSUME NEW k \in 1..(Len(s) + 1) PROVE u[k] = t[k]
  <2>1. k \in 1..Len(s) \/ k = Len(s) + 1
    BY <1>3
  <2> QED
    BY <1>1, <1>5, <1>6, <2>1
<1>8. IsPrefix(u, t)
  <2>1. Len(u) <= Len(t) /\ \A k \in 1..Len(u) : u[k] = t[k]
    BY <1>3, <1>5, <1>7
  <2> QED
    BY <1>5, <2>1, PrefixIs
<1>9. SubSeq(t, 1, Len(s) + 1) = u
  <2>1. SubSeq(t, 1, Len(s) + 1) = [k \in 1..(Len(s) + 1) |-> t[k]]
    BY <1>3
  <2>2. u = [k \in 1..(Len(s) + 1) |-> u[k]]
    <3>1. u = [k \in 1..Len(u) |-> u[k]]
      BY <1>5
    <3> QED
      BY <1>5, <3>1
  <2> QED
    BY <1>7, <2>1, <2>2
<1> QED
  BY <1>1, <1>2, <1>4, <1>8, <1>9

\* Nothing has the length of a path it begins with but itself.
LEMMA PrefixSame ==
  ASSUME NEW s \in Seq(Int), NEW t \in Seq(Int), IsPrefix(s, t), Len(s) = Len(t)
  PROVE  s = t
<1>1. \A k \in 1..Len(s) : s[k] = t[k]
  BY PrefixIs
<1>2. s = [k \in 1..Len(s) |-> s[k]] /\ t = [k \in 1..Len(t) |-> t[k]]
  OBVIOUS
<1> QED
  BY <1>1, <1>2

\* What is assumed of a directory.
LEMMA DirIs ==
  ASSUME NEW cfg \in Configs, NEW d \in DOMAIN cfg.tree
  PROVE  /\ d \in Seq(Int) /\ d # <<>> /\ IsFiniteSet(cfg.tree[d]) /\ cfg.recursive \in BOOLEAN
         /\ \A e \in cfg.tree[d] : e.name \in Int /\ e.harvest \in BOOLEAN
         /\ \A e \in cfg.tree[d] : e.type = "DT_DIR" => Append(d, e.name) \in DOMAIN cfg.tree
         /\ \A e, f \in cfg.tree[d] : e.name = f.name => e = f
BY DirectoryAssumption

\* What a path and one name more begin with.
LEMMA PrefixMore ==
  ASSUME NEW p \in Seq(Int), NEW d \in Seq(Int), NEW m \in Int, NEW y, y = Append(d, m), IsPrefix(p, d)
  PROVE  /\ IsPrefix(p, y) /\ Len(y) > Len(p) /\ Front(y) = d /\ Last(y) = m
         /\ \A n \in (Len(p) + 1)..Len(y) :
              \/ SubSeq(y, 1, n) = y
              \/ n \in (Len(p) + 1)..Len(d) /\ SubSeq(y, 1, n) = SubSeq(d, 1, n)
<1>3. /\ y \in Seq(Int) /\ Len(y) = Len(d) + 1 /\ Len(d) \in Nat
      /\ \A k \in 1..Len(d) : y[k] = d[k]
      /\ Front(y) = d /\ Last(y) = m
  <2>1. y \in Seq(Int) /\ Len(y) = Len(d) + 1 /\ Len(d) \in Nat
    BY Longer
  <2>2. \A k \in 1..Len(d) : y[k] = d[k]
    BY Longer
  <2>3. Front(y) = d
    BY Longer
  <2>4. Last(y) = m
    BY Longer
  <2> QED
    BY <2>1, <2>2, <2>3, <2>4
<1>4. Len(p) \in Nat /\ Len(p) <= Len(d) /\ \A k \in 1..Len(p) : p[k] = d[k]
  BY PrefixIs
<1>5. IsPrefix(p, y)
  <2>1. \A k \in 1..Len(p) : k \in 1..Len(d)
    BY <1>3, <1>4
  <2>2. \A k \in 1..Len(p) : p[k] = y[k]
    BY <1>3, <1>4, <2>1
  <2>3. Len(p) <= Len(y)
    BY <1>3, <1>4
  <2> QED
    BY <1>3, <2>2, <2>3, PrefixIs
<1>6. ASSUME NEW n \in (Len(p) + 1)..Len(y)
      PROVE  \/ SubSeq(y, 1, n) = y
             \/ n \in (Len(p) + 1)..Len(d) /\ SubSeq(y, 1, n) = SubSeq(d, 1, n)
  <2>1. CASE n = Len(d) + 1
    BY <1>3, <2>1
  <2>2. CASE n # Len(d) + 1
    <3>1. n \in (Len(p) + 1)..Len(d) /\ n \in Nat /\ n <= Len(d)
      BY <1>3, <1>4, <2>2
    <3>2. SubSeq(y, 1, n) = [k \in 1..n |-> y[k]] /\ SubSeq(d, 1, n) = [k \in 1..n |-> d[k]]
      BY <1>3, <3>1
    <3>3. \A k \in 1..n : k \in 1..Len(d)
      BY <1>3, <3>1
    <3>4. SubSeq(y, 1, n) = SubSeq(d, 1, n)
      BY <1>3, <3>2, <3>3
    <3> QED
      BY <3>1, <3>4
  <2> QED
    BY <2>1, <2>2
<1>7. Len(y) > Len(p)
  BY <1>3, <1>4
<1> QED
  BY <1>3, <1>5, <1>6, <1>7

\* The directories below a path are closed under their own.
LEMMA BelowNext ==
  ASSUME NEW cfg \in Configs, NEW p \in DOMAIN cfg.tree, NEW d, Below(cfg, p, d),
         NEW e \in cfg.tree[d], e.type = "DT_DIR"
  PROVE  Below(cfg, p, Append(d, e.name)) /\ Len(Append(d, e.name)) > Len(p)
<1>1. PICK m : m = e.name
  OBVIOUS
<1>2. PICK y : y = Append(d, m)
  OBVIOUS
<1>3. d \in Seq(Int) /\ p \in Seq(Int) /\ m \in Int /\ y \in DOMAIN cfg.tree
  BY <1>1, <1>2, DirIs DEF Below
<1>4. IsPrefix(p, d) /\ \A n \in (Len(p) + 1)..Len(d) : IsDirectory(cfg.tree, SubSeq(d, 1, n))
  BY DEF Below
<1>5. /\ IsPrefix(p, y) /\ Len(y) > Len(p) /\ Front(y) = d /\ Last(y) = m
      /\ \A n \in (Len(p) + 1)..Len(y) :
           \/ SubSeq(y, 1, n) = y
           \/ n \in (Len(p) + 1)..Len(d) /\ SubSeq(y, 1, n) = SubSeq(d, 1, n)
  <2>1. IsPrefix(p, y) /\ Len(y) > Len(p)
    BY <1>2, <1>3, <1>4, PrefixMore
  <2>3. d \in Seq(Int) /\ p \in Seq(Int) /\ m \in Int /\ IsPrefix(p, d)
    BY <1>3, <1>4
  <2>2. Front(y) = d
    BY <1>2, <2>3, Longer
  <2>5. Last(y) = m
    BY <1>2, <2>3, Longer
  <2>4. \A n \in (Len(p) + 1)..Len(y) :
          \/ SubSeq(y, 1, n) = y
          \/ n \in (Len(p) + 1)..Len(d) /\ SubSeq(y, 1, n) = SubSeq(d, 1, n)
    BY <1>2, <2>3, PrefixMore
  <2> QED
    BY <2>1, <2>2, <2>4, <2>5
<1>6. IsDirectory(cfg.tree, y)
  BY <1>1, <1>5 DEF IsDirectory
<1>7. ASSUME NEW n \in (Len(p) + 1)..Len(y) PROVE IsDirectory(cfg.tree, SubSeq(y, 1, n))
  BY <1>4, <1>5, <1>6, Zenon
<1> QED
  BY <1>1, <1>2, <1>3, <1>5, <1>7 DEF Below

\* A path itself is where its visit begins.
LEMMA BelowFirst ==
  ASSUME NEW cfg \in Configs, NEW p \in DOMAIN cfg.tree
  PROVE  Below(cfg, p, p) /\ p \in Reached(cfg, p)
<1>1. p \in Seq(Int) /\ Len(p) \in Nat
  BY DirIs
<1>2. IsPrefix(p, p)
  BY <1>1, PrefixIs
<1>3. \A n \in (Len(p) + 1)..Len(p) : FALSE
  BY <1>1
<1> QED
  BY <1>1, <1>2, <1>3 DEF Below, Reached

\* What is reached is below the path.
LEMMA ReachedIs ==
  ASSUME NEW cfg \in Configs, NEW p \in DOMAIN cfg.tree, NEW d
  PROVE  /\ d \in Reached(cfg, p) => Below(cfg, p, d) /\ (Len(d) > Len(p) => cfg.recursive)
         /\ Below(cfg, p, d) /\ (Len(d) > Len(p) => cfg.recursive) => d \in Reached(cfg, p)
BY DEF Below, Reached

\* A directory reached below another one is that one, or is reached through an
\* entry of it.
LEMMA ReachedThrough ==
  ASSUME NEW cfg \in Configs, NEW p \in DOMAIN cfg.tree, NEW d \in Reached(cfg, p),
         NEW y, Below(cfg, p, y), IsPrefix(y, d)
  PROVE  \/ d = y
         \/ /\ cfg.recursive
            /\ \E e \in cfg.tree[y] : e.type = "DT_DIR" /\ IsPrefix(Append(y, e.name), d)
<1>1. /\ d \in Seq(Int) /\ y \in Seq(Int) /\ p \in Seq(Int) /\ y \in DOMAIN cfg.tree
      /\ Len(d) \in Nat /\ Len(y) \in Nat /\ Len(p) \in Nat
  BY DirIs DEF Below, Reached
<1>2. Len(p) <= Len(y) /\ Len(y) <= Len(d)
  BY <1>1, PrefixIs DEF Below
<1>3. CASE Len(y) = Len(d)
  BY <1>1, <1>3, PrefixSame
<1>4. CASE Len(y) < Len(d)
  <2>1. PICK n : n = d[Len(y) + 1]
    OBVIOUS
  <2>2. SubSeq(d, 1, Len(y) + 1) = Append(y, n) /\ n \in Int /\ IsPrefix(Append(y, n), d)
    BY <1>1, <1>4, <2>1, PrefixNext
  <2>3. Len(y) + 1 \in (Len(p) + 1)..Len(d) /\ Len(d) > Len(p)
    BY <1>1, <1>2, <1>4
  <2>4. IsDirectory(cfg.tree, Append(y, n)) /\ cfg.recursive
    BY <2>2, <2>3 DEF Reached
  <2>5. Front(Append(y, n)) = y /\ Last(Append(y, n)) = n
    BY <1>1, <2>2, Longer
  <2>6. \E e \in cfg.tree[y] : e.name = n /\ e.type = "DT_DIR"
    BY <2>4, <2>5 DEF IsDirectory
  <2> QED
    BY <2>2, <2>4, <2>6
<1> QED
  BY <1>1, <1>2, <1>3, <1>4

-----------------------------------------------------------------------------
(***************************************************************************)
(* The queues of a visit: ds and fs of the path p, with P the files parsed *)
(* for it.                                                                 *)
(***************************************************************************)
IsFile(cfg, p, f) ==
  \E d \in Reached(cfg, p) : \E e \in cfg.tree[d] : e.type = "DT_REG" /\ f = Append(d, e.name)

QueuesOK(cfg, p, ds, fs) ==
  /\ ds \in Seq(Seq(Int)) /\ fs \in Seq(Seq(Int))
  /\ \A y \in ToSet(ds) : Below(cfg, p, y) /\ Len(y) > Len(p)
  /\ \A f \in ToSet(fs) : IsFile(cfg, p, f)

\* What the directories that wait lead to comes after all that is known.
OrderOK(P, ds, fs) ==
  /\ Increasing(ds) /\ Increasing(fs)
  /\ \A f \in P \cup ToSet(fs) \cup ToSet(ds) : \A y \in ToSet(ds) : \A n \in Int : Before(f, Append(y, n))
  /\ \A f \in P : \A g \in ToSet(fs) : Before(f, g)

\* A harvest is parsed, or waits, or is below a directory that does.
CompleteOK(cfg, p, P, ds, fs) ==
  \A d \in Reached(cfg, p) : \A e \in cfg.tree[d] :
    e.type = "DT_REG" /\ e.harvest =>
      \/ Append(d, e.name) \in P \cup ToSet(fs)
      \/ cfg.recursive /\ \E y \in ToSet(ds) : IsPrefix(y, d)

\* The entries of a directory, in the order of their names.
LEMMA SortedIs ==
  ASSUME config \in Configs, NEW d \in DOMAIN config.tree, NEW type, NEW s, s = Sorted(d, type)
  PROVE  /\ s \in Seq(Seq(Int)) /\ Increasing(s) /\ Names(d, type) \subseteq Int
         /\ ToSet(s) = { Append(d, n) : n \in Names(d, type) }
<1>1. PICK N : N = Names(d, type)
  OBVIOUS
<1>2. PICK t : t = InOrder(N)
  OBVIOUS
<1>3. d \in Seq(Int) /\ IsFiniteSet(config.tree[d]) /\ \A e \in config.tree[d] : e.name \in Int
  BY DirIs
<1>4. N \subseteq Int
  BY <1>1, <1>3 DEF Names
<1>5. IsFiniteSet(N)
  <2> DEFINE S == { x \in config.tree[d] : x.type = type }
  <2>1. IsFiniteSet(S)
    BY <1>3, FS_Subset
  <2>2. N = { e.name : e \in S }
    BY <1>1 DEF Names
  <2> HIDE DEF S
  <2>3. IsFiniteSet({ e.name : e \in S })
    <3> DEFINE F == [e \in S |-> e.name]
               T == { F[e] : e \in S }
    <3>1. F \in Surjection(S, T)
      BY DEF Surjection
    <3>2. IsFiniteSet(T)
      <4> HIDE DEF F, T
      <4> QED
        BY <2>1, <3>1, FS_Surjection
    <3>3. T = { e.name : e \in S }
      OBVIOUS
    <3> QED
      BY <3>2, <3>3
  <2> QED
    BY <2>2, <2>3
<1>6. PICK k : k = Cardinality(N)
  OBVIOUS
<1>7. /\ DOMAIN t = 1..k /\ k \in Nat /\ ToSet(t) = N
      /\ \A m, n \in DOMAIN t : m < n => t[m] < t[n]
  BY <1>2, <1>4, <1>5, <1>6, InOrderAll
<1>8. s = [i \in 1..k |-> Append(d, t[i])]
  BY <1>1, <1>2, <1>7 DEF Sorted
<1>9. \A i \in 1..k : t[i] \in N /\ t[i] \in Int
  BY <1>4, <1>7 DEF ToSet
<1>10. s \in Seq(Seq(Int)) /\ DOMAIN s = 1..k
  BY <1>3, <1>7, <1>8, <1>9
<1>11. Increasing(s)
  <2> SUFFICES ASSUME NEW i \in 1..k, NEW j \in 1..k, i < j PROVE Before(s[i], s[j])
    BY <1>10 DEF Increasing
  <2>1. t[i] < t[j] /\ t[i] \in Int /\ t[j] \in Int
    BY <1>7, <1>9
  <2>2. Before(Append(d, t[i]), Append(d, t[j]))
    BY <1>3, <2>1, BeforeName
  <2> QED
    BY <1>8, <2>2
<1>12. ToSet(s) = { Append(d, n) : n \in N }
  <2>1. ASSUME NEW x \in ToSet(s) PROVE \E n \in N : x = Append(d, n)
    <3>1. PICK i \in 1..k : x = s[i]
      BY <1>10 DEF ToSet
    <3> QED
      BY <1>8, <1>9, <3>1
  <2>2. ASSUME NEW n \in N PROVE Append(d, n) \in ToSet(s)
    <3>1. PICK i \in 1..k : n = t[i]
      BY <1>7 DEF ToSet
    <3>2. s[i] = Append(d, n) /\ i \in DOMAIN s
      BY <1>8, <3>1
    <3> QED
      BY <3>2 DEF ToSet
  <2> QED
    BY <2>1, <2>2
<1> QED
  BY <1>1, <1>4, <1>10, <1>11, <1>12

\* The order when the entries of a directory join the queues.
LEMMA OrderEnter ==
  ASSUME NEW P, P \subseteq Seq(Int), NEW d \in Seq(Int), NEW w \in Seq(Seq(Int)),
         NEW sd \in Seq(Seq(Int)), NEW sf \in Seq(Seq(Int)),
         \A x \in ToSet(sd) \cup ToSet(sf) : \E n \in Int : x = Append(d, n),
         Increasing(sd), Increasing(sf), OrderOK(P, w, <<>>),
         \A f \in P \cup ToSet(w) : \A n \in Int : Before(f, Append(d, n)),
         \A y \in ToSet(w) : Before(d, y)
  PROVE  OrderOK(P, w \o sd, sf)
<1>1. PICK ds : ds = w \o sd
  OBVIOUS
<1>2. /\ ds \in Seq(Seq(Int)) /\ ToSet(ds) = ToSet(w) \cup ToSet(sd)
      /\ Increasing(w) /\ Increasing(sd) /\ (\A x \in ToSet(w), y \in ToSet(sd) : Before(x, y)) =>
           Increasing(ds)
  BY <1>1, QueueJoin
<1>3. \A x \in ToSet(w), y \in ToSet(sd) : Before(x, y)
  <2> TAKE x \in ToSet(w), y \in ToSet(sd)
  <2>1. PICK n \in Int : y = Append(d, n)
    OBVIOUS
  <2> QED
    BY <2>1
<1>4. Increasing(ds)
  BY <1>2, <1>3 DEF OrderOK
<1>5. \A f \in ToSet(w) \cup ToSet(sd) \cup ToSet(sf) : f \in Seq(Int)
  <2>1. DOMAIN w = 1..Len(w) /\ DOMAIN sd = 1..Len(sd) /\ DOMAIN sf = 1..Len(sf)
    OBVIOUS
  <2> QED
    BY <2>1 DEF ToSet
<1>6. ASSUME NEW f \in P \cup ToSet(sf) \cup ToSet(ds), NEW y \in ToSet(ds), NEW n \in Int
      PROVE  Before(f, Append(y, n))
  <2>1. f \in Seq(Int) /\ y \in Seq(Int)
    BY <1>2, <1>5
  <2>2. CASE y \in ToSet(w) /\ f \in P \cup ToSet(w)
    BY <2>2 DEF OrderOK
  <2>3. CASE y \in ToSet(w) /\ f \in ToSet(sd) \cup ToSet(sf)
    <3>1. PICK m \in Int : f = Append(d, m)
      BY <2>3
    <3>2. Before(d, y)
      BY <2>3
    <3> QED
      BY <2>1, <3>1, <3>2, BeforeChild
  <2>4. CASE y \in ToSet(sd)
    <3>1. PICK m \in Int : y = Append(d, m)
      BY <2>4
    <3>2. Len(y) = Len(d) + 1 /\ Len(d) \in Nat
      BY <3>1, Longer
    <3>3. Append(y, n) \in Seq(Int) /\ Len(Append(y, n)) = Len(y) + 1
      BY <2>1
    <3>4. Len(f) \in Nat /\ Len(f) <= Len(y)
      <4>1. CASE f \in P \cup ToSet(w)
        <5>1. Before(f, y)
          BY <3>1, <4>1
        <5> QED
          BY <2>1, <5>1, BeforeLen
      <4>2. CASE f \in ToSet(sd) \cup ToSet(sf)
        <5>1. PICK k \in Int : f = Append(d, k)
          BY <4>2
        <5>2. Len(f) = Len(d) + 1
          BY <5>1, Longer
        <5> QED
          BY <3>2, <5>2
      <4> QED
        BY <1>2, <4>1, <4>2
    <3>5. Len(f) < Len(Append(y, n))
      BY <3>2, <3>3, <3>4
    <3> QED
      BY <2>1, <3>3, <3>5, BeforeDeeper
  <2> QED
    BY <1>2, <2>2, <2>3, <2>4
<1>7. ASSUME NEW f \in P, NEW g \in ToSet(sf) PROVE Before(f, g)
  <2>1. PICK n \in Int : g = Append(d, n)
    OBVIOUS
  <2> QED
    BY <2>1
<1> QED
  BY <1>1, <1>4, <1>6, <1>7 DEF OrderOK

\* The order when heads leave the queues, a file perhaps to be parsed.
LEMMA OrderLess ==
  ASSUME NEW P, NEW Q, NEW ds \in Seq(Seq(Int)), NEW fs \in Seq(Seq(Int)), OrderOK(P, ds, fs), fs # <<>>,
         Q = P \/ Q = P \cup {Head(fs)}
  PROVE  OrderOK(Q, ds, Tail(fs))
<1>1. PICK gs : gs = Tail(fs)
  OBVIOUS
<1>2. /\ ToSet(fs) = {Head(fs)} \cup ToSet(gs) /\ Increasing(gs)
      /\ \A x \in ToSet(gs) : Before(Head(fs), x)
  BY <1>1, QueueTail DEF OrderOK
<1>3. \A f \in Q \cup ToSet(gs) \cup ToSet(ds) : f \in P \cup ToSet(fs) \cup ToSet(ds)
  BY <1>2
<1>4. \A f \in Q : \A g \in ToSet(gs) : Before(f, g)
  BY <1>2 DEF OrderOK
<1> QED
  BY <1>1, <1>2, <1>3, <1>4 DEF OrderOK

Visit(cfg, p, P, ds, fs) ==
  QueuesOK(cfg, p, ds, fs) /\ OrderOK(P, ds, fs) /\ CompleteOK(cfg, p, P, ds, fs)

\* The entries of a directory join the queues.
LEMMA Enter ==
  ASSUME config \in Configs, NEW p \in DOMAIN config.tree, NEW d \in Reached(config, p),
         NEW P, P \subseteq Seq(Int), NEW w, QueuesOK(config, p, w, <<>>), OrderOK(P, w, <<>>),
         \A f \in P \cup ToSet(w) : \A n \in Int : Before(f, Append(d, n)),
         \A y \in ToSet(w) : Before(d, y),
         \A c \in Reached(config, p) : \A e \in config.tree[c] :
           e.type = "DT_REG" /\ e.harvest =>
             Append(c, e.name) \in P \/ IsPrefix(d, c) \/ (config.recursive /\ \E y \in ToSet(w) : IsPrefix(y, c)),
         NEW ds, ds = w \o Sorted(d, "DT_DIR"), NEW fs, fs = Sorted(d, "DT_REG")
  PROVE  Visit(config, p, P, ds, fs)
<1>1. PICK sd : sd = Sorted(d, "DT_DIR")
  OBVIOUS
<1>2. Below(config, p, d) /\ d \in DOMAIN config.tree
  BY ReachedIs DEF Below
<1>3. d \in Seq(Int)
  BY <1>2, DirIs
<1>4. /\ sd \in Seq(Seq(Int)) /\ Increasing(sd) /\ Names(d, "DT_DIR") \subseteq Int
      /\ ToSet(sd) = { Append(d, n) : n \in Names(d, "DT_DIR") }
  BY <1>1, <1>2, SortedIs
<1>5. /\ fs \in Seq(Seq(Int)) /\ Increasing(fs) /\ Names(d, "DT_REG") \subseteq Int
      /\ ToSet(fs) = { Append(d, n) : n \in Names(d, "DT_REG") }
  BY <1>2, SortedIs
<1>6. w \in Seq(Seq(Int))
  BY DEF QueuesOK
<1>7. ds \in Seq(Seq(Int)) /\ ToSet(ds) = ToSet(w) \cup ToSet(sd)
  BY <1>1, <1>4, <1>6, QueueJoin
<1>8. OrderOK(P, ds, fs)
  <2>1. \A x \in ToSet(sd) \cup ToSet(fs) : \E n \in Int : x = Append(d, n)
    BY <1>4, <1>5
  <2>2. OrderOK(P, w \o sd, fs)
    BY <1>3, <1>4, <1>5, <1>6, <2>1, OrderEnter
  <2> QED
    BY <1>1, <2>2
<1>9. QueuesOK(config, p, ds, fs)
  <2>1. ASSUME NEW y \in ToSet(ds) PROVE Below(config, p, y) /\ Len(y) > Len(p)
    <3>1. CASE y \in ToSet(w)
      BY <3>1 DEF QueuesOK
    <3>2. CASE y \in ToSet(sd)
      <4>1. PICK n \in Names(d, "DT_DIR") : y = Append(d, n)
        BY <1>4, <3>2
      <4>2. PICK e \in config.tree[d] : e.type = "DT_DIR" /\ n = e.name
        BY <4>1 DEF Names
      <4>3. Below(config, p, Append(d, e.name)) /\ Len(Append(d, e.name)) > Len(p)
        BY <1>2, <4>2, BelowNext
      <4> QED
        BY <4>1, <4>2, <4>3
    <3> QED
      BY <1>7, <3>1, <3>2
  <2>2. ASSUME NEW f \in ToSet(fs) PROVE IsFile(config, p, f)
    <3>1. PICK n \in Names(d, "DT_REG") : f = Append(d, n)
      BY <1>5
    <3>2. PICK e \in config.tree[d] : e.type = "DT_REG" /\ n = e.name
      BY <3>1 DEF Names
    <3> QED
      BY <3>1, <3>2 DEF IsFile
  <2> QED
    BY <1>5, <1>7, <2>1, <2>2 DEF QueuesOK
<1>10. CompleteOK(config, p, P, ds, fs)
  <2> SUFFICES ASSUME NEW c \in Reached(config, p), NEW e \in config.tree[c], e.type = "DT_REG", e.harvest
               PROVE  \/ Append(c, e.name) \in P \cup ToSet(fs)
                      \/ config.recursive /\ \E y \in ToSet(ds) : IsPrefix(y, c)
    BY DEF CompleteOK
  <2>1. Append(c, e.name) \in P \/ IsPrefix(d, c) \/ (config.recursive /\ \E y \in ToSet(w) : IsPrefix(y, c))
    OBVIOUS
  <2>2. CASE IsPrefix(d, c)
    <3>1. \/ c = d
          \/ config.recursive /\ \E x \in config.tree[d] : x.type = "DT_DIR" /\ IsPrefix(Append(d, x.name), c)
      BY <1>2, <2>2, ReachedThrough
    <3>2. CASE c = d
      <4>1. e.name \in Names(d, "DT_REG")
        BY <3>2 DEF Names
      <4> QED
        BY <1>5, <3>2, <4>1
    <3>3. CASE config.recursive /\ \E x \in config.tree[d] : x.type = "DT_DIR" /\ IsPrefix(Append(d, x.name), c)
      <4>1. PICK x \in config.tree[d] : x.type = "DT_DIR" /\ IsPrefix(Append(d, x.name), c)
        BY <3>3
      <4>2. x.name \in Names(d, "DT_DIR")
        BY <4>1 DEF Names
      <4>3. Append(d, x.name) \in ToSet(ds)
        BY <1>4, <1>7, <4>2
      <4> QED
        BY <3>3, <4>1, <4>3
    <3> QED
      BY <3>1, <3>2, <3>3
  <2> QED
    BY <1>7, <2>1, <2>2
<1> QED
  BY <1>8, <1>9, <1>10 DEF Visit

\* The queued file that is a harvest is one that the path leads to.
LEMMA HasSuffix ==
  ASSUME config \in Configs, NEW d \in DOMAIN config.tree, NEW e \in config.tree[d]
  PROVE  hasSuffix(Append(d, e.name)) = (e.harvest = TRUE)
<1>1. PICK n : n = e.name
  OBVIOUS
<1>2. d \in Seq(Int) /\ n \in Int
  BY <1>1, DirIs
<1>3. Front(Append(d, n)) = d /\ Last(Append(d, n)) = n
  BY <1>2, Longer
<1>4. \A x \in config.tree[d] : x.name = n => x = e
  BY <1>1, DirIs
<1>5. hasSuffix(Append(d, n)) = (\E x \in config.tree[d] : x.name = n /\ x.harvest)
  BY <1>3 DEF hasSuffix
<1>6. e.harvest \in BOOLEAN
  BY DirIs
<1>7. (\E x \in config.tree[d] : x.name = n /\ x.harvest) = (e.harvest = TRUE)
  BY <1>1, <1>4, <1>6
<1> QED
  BY <1>1, <1>5, <1>7

\* A file leaves its queue: one that is no harvest, or one that is parsed.
LEMMA Leave ==
  ASSUME config \in Configs, NEW p \in DOMAIN config.tree, NEW P, NEW ds, NEW fs, Visit(config, p, P, ds, fs),
         fs # <<>>, NEW Q, (Q = P /\ ~hasSuffix(Head(fs))) \/ Q = P \cup {Head(fs)}
  PROVE  Visit(config, p, Q, ds, Tail(fs))
<1>1. ds \in Seq(Seq(Int)) /\ fs \in Seq(Seq(Int))
  BY DEF Visit, QueuesOK
<1>2. PICK gs : gs = Tail(fs)
  OBVIOUS
<1>3. gs \in Seq(Seq(Int)) /\ ToSet(fs) = {Head(fs)} \cup ToSet(gs)
  BY <1>1, <1>2, QueueTail
<1>4. OrderOK(Q, ds, gs)
  BY <1>1, <1>2, OrderLess DEF Visit
<1>5. QueuesOK(config, p, ds, gs)
  BY <1>3 DEF Visit, QueuesOK
<1>6. CompleteOK(config, p, Q, ds, gs)
  <2> SUFFICES ASSUME NEW c \in Reached(config, p), NEW e \in config.tree[c], e.type = "DT_REG", e.harvest
               PROVE  \/ Append(c, e.name) \in Q \cup ToSet(gs)
                      \/ config.recursive /\ \E y \in ToSet(ds) : IsPrefix(y, c)
    BY DEF CompleteOK
  <2>1. c \in DOMAIN config.tree
    BY DEF Reached
  <2>2. hasSuffix(Append(c, e.name))
    BY <2>1, HasSuffix
  <2>3. \/ Append(c, e.name) \in P \cup ToSet(fs)
        \/ config.recursive /\ \E y \in ToSet(ds) : IsPrefix(y, c)
    BY DEF Visit, CompleteOK
  <2>4. Append(c, e.name) \in P \cup ToSet(fs) => Append(c, e.name) \in Q \cup ToSet(gs)
    BY <1>3, <2>2
  <2> QED
    BY <2>3, <2>4
<1> QED
  BY <1>2, <1>4, <1>5, <1>6 DEF Visit

\* The file to parse next is a harvest of the path, and all those before it are parsed.
LEMMA InTurnNext ==
  ASSUME config \in Configs, NEW p \in DOMAIN config.tree, NEW P, P \subseteq Seq(Int), NEW ds, NEW fs,
         Visit(config, p, P, ds, fs), fs # <<>>, hasSuffix(Head(fs))
  PROVE  /\ Head(fs) \in Harvests(config, p) /\ \A f \in P : Before(f, Head(fs))
         /\ \A f \in Harvests(config, p) : Before(f, Head(fs)) => f \in P
<1>1. ds \in Seq(Seq(Int)) /\ fs \in Seq(Seq(Int))
  BY DEF Visit, QueuesOK
<1>2. PICK g : g = Head(fs)
  OBVIOUS
<1>3. PICK gs : gs = Tail(fs)
  OBVIOUS
<1>4. g \in Seq(Int) /\ g \in ToSet(fs) /\ ToSet(fs) = {g} \cup ToSet(gs) /\ \A x \in ToSet(gs) : Before(g, x)
  BY <1>1, <1>2, <1>3, QueueTail DEF Visit, OrderOK
<1>5. g \in Harvests(config, p)
  <2>1. PICK d \in Reached(config, p) : \E e \in config.tree[d] : e.type = "DT_REG" /\ g = Append(d, e.name)
    BY <1>4 DEF Visit, QueuesOK, IsFile
  <2>2. PICK e \in config.tree[d] : e.type = "DT_REG" /\ g = Append(d, e.name)
    BY <2>1
  <2>3. e.harvest
    <3>1. d \in DOMAIN config.tree
      BY DEF Reached
    <3>2. hasSuffix(Append(d, e.name)) = (e.harvest = TRUE)
      BY <3>1, HasSuffix
    <3>3. e.harvest = TRUE
      BY <1>2, <2>2, <3>2
    <3> QED
      BY <3>3
  <2> QED
    BY <2>2, <2>3 DEF Harvests
<1>6. \A f \in P : Before(f, g)
  BY <1>4 DEF Visit, OrderOK
<1>7. ASSUME NEW f \in Harvests(config, p), Before(f, g) PROVE f \in P
  <2>1. PICK d \in Reached(config, p) :
          f \in { Append(d, e.name) : e \in { x \in config.tree[d] : x.type = "DT_REG" /\ x.harvest } }
    BY <1>7 DEF Harvests
  <2>2. PICK e \in config.tree[d] : e.type = "DT_REG" /\ e.harvest /\ f = Append(d, e.name)
    BY <2>1
  <2>3. d \in DOMAIN config.tree
    BY DEF Reached
  <2>4. PICK n : n = e.name
    OBVIOUS
  <2>5. d \in Seq(Int) /\ n \in Int /\ f = Append(d, n)
    BY <2>2, <2>3, <2>4, DirIs
  <2>6. f \in Seq(Int) /\ Len(f) = Len(d) + 1 /\ Len(d) \in Nat
    BY <2>5, Longer
  <2>7. \/ f \in P \cup ToSet(fs)
        \/ \E y \in ToSet(ds) : IsPrefix(y, d)
    BY <2>2 DEF Visit, CompleteOK
  <2>8. CASE f \in ToSet(fs)
    <3>1. f = g \/ Before(g, f)
      BY <1>4, <2>8
    <3> QED
      BY <1>4, <1>7, <2>6, <3>1, BeforeOnce
  <2>9. CASE \E y \in ToSet(ds) : IsPrefix(y, d)
    <3>1. PICK y \in ToSet(ds) : IsPrefix(y, d)
      BY <2>9
    <3>2. y \in Seq(Int)
      BY <1>1, <3>1 DEF ToSet
    <3>3. Len(y) \in Nat /\ Len(y) <= Len(d) /\ Len(g) \in Nat
      BY <1>4, <2>5, <3>1, <3>2, PrefixIs
    <3>4. \A m \in Int : Before(g, Append(y, m))
      BY <1>4 DEF Visit, OrderOK
    <3>5. CASE Len(y) = Len(d)
      <4>1. y = d
        BY <2>5, <3>1, <3>2, <3>5, PrefixSame
      <4>2. Before(g, f)
        BY <2>5, <3>4, <4>1
      <4> QED
        BY <1>4, <1>7, <2>6, <4>2, BeforeOnce
    <3>6. CASE Len(y) < Len(d)
      <4>1. Append(y, 0) \in Seq(Int) /\ Len(Append(y, 0)) = Len(y) + 1 /\ Before(g, Append(y, 0))
        BY <3>2, <3>4
      <4>2. Len(g) <= Len(Append(y, 0))
        BY <1>4, <4>1, BeforeLen
      <4>3. Len(g) < Len(f)
        BY <2>6, <3>3, <3>6, <4>1, <4>2
      <4>4. Len(f) <= Len(g)
        BY <1>4, <1>7, <2>6, BeforeLen
      <4> QED
        BY <2>6, <3>3, <4>3, <4>4
    <3> QED
      BY <2>5, <3>3, <3>5, <3>6
  <2> QED
    BY <2>7, <2>8, <2>9
<1> QED
  BY <1>2, <1>5, <1>6, <1>7

-----------------------------------------------------------------------------
(***************************************************************************)
(* The visit of the paths.                                                 *)
(***************************************************************************)
Parsed(nth) == { loaded[k].name : k \in ParsedFor(nth) }

ConfigInv ==
  /\ config \in Configs
  /\ paths \in Seq(DOMAIN config.tree) /\ Len(paths) <= Len(config.paths)
  /\ \A j \in 1..Len(paths) : paths[j] = config.paths[Nth + j]
  /\ loaded \in Seq([nth : Nat, name : Seq(Int)])
  /\ \A k \in DOMAIN loaded : loaded[k].nth <= Nth

VisitInv ==
  /\ path = NoPath => directories = <<>> /\ files = <<>>
  /\ path # NoPath => /\ Nth \in DOMAIN config.paths /\ path = config.paths[Nth]
                      /\ Visit(config, path, Parsed(Nth), directories, files)

\* EveryHarvestOnce for one path: its parts that only loaded is about, and the last one.
InTurn(nth) ==
  LET all == Harvests(config, config.paths[nth])
  IN  /\ \A k \in ParsedFor(nth) : loaded[k].name \in all
      /\ \A k, l \in ParsedFor(nth) : k < l => Before(loaded[k].name, loaded[l].name)
      /\ \A k \in ParsedFor(nth), f \in all :
           Before(f, loaded[k].name) => \E l \in ParsedFor(nth) : loaded[l].name = f

Visited(nth) == nth < Nth \/ (nth = Nth /\ path = NoPath)

AllParsed(nth) == \A f \in Harvests(config, config.paths[nth]) : f \in Parsed(nth)

PathsInv ==
  /\ \A nth \in DOMAIN config.paths : InTurn(nth)
  /\ \A nth \in DOMAIN config.paths : Visited(nth) /\ nth \notin broken => AllParsed(nth)

DirectoryInv == ConfigInv /\ VisitInv /\ PathsInv

\* Types of what the visit knows.
LEMMA ConfigIs ==
  ASSUME ConfigInv
  PROVE  /\ config.paths \in Seq(DOMAIN config.tree) /\ Len(config.paths) \in Nat /\ Len(paths) \in Nat
         /\ DOMAIN config.paths = 1..Len(config.paths) /\ Nth \in Nat /\ Nth <= Len(config.paths)
         /\ \A nth \in DOMAIN config.paths : config.paths[nth] \in DOMAIN config.tree
         /\ NoPath \notin DOMAIN config.tree
         /\ \A nth : Parsed(nth) \subseteq Seq(Int)
<1>1. config \in Configs /\ config.paths \in Seq(DOMAIN config.tree) /\ NoPath \notin DOMAIN config.tree
  BY DirectoryAssumption DEF ConfigInv, NoPath
<1>2. Len(config.paths) \in Nat /\ Len(paths) \in Nat /\ Len(paths) <= Len(config.paths)
  BY <1>1 DEF ConfigInv
<1>3. Nth \in Nat /\ Nth <= Len(config.paths)
  BY <1>2 DEF Nth
<1>4. DOMAIN config.paths = 1..Len(config.paths) /\ \A nth \in 1..Len(config.paths) : config.paths[nth] \in DOMAIN config.tree
  BY <1>1
<1>5. \A k \in DOMAIN loaded : loaded[k].name \in Seq(Int)
  <2>1. PICK T : T = [nth : Nat, name : Seq(Int)]
    OBVIOUS
  <2>t. loaded \in Seq(T)
    BY <2>1, Zenon DEF ConfigInv
  <2>u. \A k \in DOMAIN loaded : loaded[k] \in T
    BY <2>t
  <2>2. \A k \in DOMAIN loaded : loaded[k] \in [nth : Nat, name : Seq(Int)]
    BY <2>1, <2>u, Zenon
  <2>3. \A r \in [nth : Nat, name : Seq(Int)] : r.name \in Seq(Int)
    OBVIOUS
  <2> QED
    BY <2>2, <2>3
<1>6. \A nth : Parsed(nth) \subseteq Seq(Int)
  BY <1>5 DEF Parsed, ParsedFor
<1> QED
  BY <1>1, <1>2, <1>3, <1>4, <1>6

\* The files of a path are those of the same name.
LEMMA ParsedIs ==
  ASSUME NEW nth, NEW f
  PROVE  f \in Parsed(nth) <=> \E k \in ParsedFor(nth) : loaded[k].name = f
BY Zenon DEF Parsed

\* The invariant implies the property.
LEMMA DirectoryImplies == DirectoryInv => EveryHarvestOnce
<1> SUFFICES ASSUME DirectoryInv, NEW nth \in DOMAIN config.paths
             PROVE  LET mine == ParsedFor(nth)
                        all  == Harvests(config, config.paths[nth])
                    IN  /\ \A k \in mine : loaded[k].name \in all /\ nth <= Nth
                        /\ \A k, l \in mine : k < l => Before(loaded[k].name, loaded[l].name)
                        /\ \A k \in mine, f \in all : Before(f, loaded[k].name) => \E l \in mine : loaded[l].name = f
                        /\ (nth < Nth \/ (nth = Nth /\ path = NoPath)) /\ nth \notin broken =>
                             \A f \in all : \E k \in mine : loaded[k].name = f
  BY Zenon DEF EveryHarvestOnce
<1>1. InTurn(nth)
  BY DEF DirectoryInv, PathsInv
<1>2. ASSUME NEW k \in ParsedFor(nth) PROVE nth <= Nth
  BY DEF DirectoryInv, ConfigInv, ParsedFor
<1>3. Visited(nth) /\ nth \notin broken =>
        \A f \in Harvests(config, config.paths[nth]) : \E k \in ParsedFor(nth) : loaded[k].name = f
  BY ParsedIs DEF DirectoryInv, PathsInv, AllParsed
<1> QED
  BY <1>1, <1>2, <1>3 DEF InTurn, Visited

\* At the beginning.
LEMMA DirectoryInit == HarvestInit => DirectoryInv
<1> SUFFICES ASSUME HarvestInit PROVE DirectoryInv
  OBVIOUS
<1>1. /\ config \in Configs /\ paths = config.paths /\ path = NoPath
      /\ directories = <<>> /\ files = <<>> /\ loaded = <<>> /\ broken = {}
  BY DEF HarvestInit
<1>2. config.paths \in Seq(DOMAIN config.tree) /\ Len(config.paths) \in Nat
  BY <1>1, DirectoryAssumption
<1>3. Nth = 0
  BY <1>1, <1>2 DEF Nth
<1>4. DOMAIN loaded = {} /\ \A nth : ParsedFor(nth) = {}
  BY <1>1 DEF ParsedFor
<1>5. ConfigInv
  BY <1>1, <1>2, <1>3, <1>4 DEF ConfigInv
<1>6. VisitInv
  BY <1>1 DEF VisitInv
<1>7. \A nth \in DOMAIN config.paths : InTurn(nth)
  BY <1>4 DEF InTurn
<1>8. \A nth \in DOMAIN config.paths : ~Visited(nth)
  BY <1>2, <1>3 DEF Visited
<1> QED
  BY <1>5, <1>6, <1>7, <1>8 DEF DirectoryInv, PathsInv

\* A step that parses no file keeps what is known of the files.
LEMMA SameFiles ==
  ASSUME config' = config, loaded' = loaded
  PROVE  /\ \A nth : ParsedFor(nth)' = ParsedFor(nth) /\ Parsed(nth)' = Parsed(nth)
         /\ \A nth : InTurn(nth)' = InTurn(nth) /\ AllParsed(nth)' = AllParsed(nth)
<1>1. ASSUME NEW nth PROVE ParsedFor(nth)' = ParsedFor(nth) /\ Parsed(nth)' = Parsed(nth)
  BY DEF ParsedFor, Parsed
<1>2. ASSUME NEW nth PROVE InTurn(nth)' = InTurn(nth)
  BY Zenon DEF InTurn, ParsedFor
<1>3. ASSUME NEW nth PROVE AllParsed(nth)' = AllParsed(nth)
  BY <1>1 DEF AllParsed
<1> QED
  BY <1>1, <1>2, <1>3

\* A step with the same path or without one.
LEMMA SamePaths ==
  ASSUME DirectoryInv, config' = config, paths' = paths, loaded' = loaded, broken \subseteq broken',
         path' = path \/ (path' = NoPath /\ (Nth \in broken' \/ AllParsed(Nth)))
  PROVE  ConfigInv' /\ PathsInv' /\ Nth' = Nth /\ \A nth : Parsed(nth)' = Parsed(nth)
<1>1. Nth' = Nth
  BY DEF Nth
<1>2. ConfigInv'
  BY <1>1 DEF DirectoryInv, ConfigInv
<1>3. \A nth : InTurn(nth)' = InTurn(nth) /\ AllParsed(nth)' = AllParsed(nth) /\ Parsed(nth)' = Parsed(nth)
  BY SameFiles
<1>4. \A nth \in DOMAIN config'.paths : InTurn(nth)'
  BY <1>3 DEF DirectoryInv, PathsInv
<1>5. ASSUME NEW nth \in DOMAIN config.paths, Visited(nth)', nth \notin broken' PROVE AllParsed(nth)
  <2>1. Visited(nth) \/ (nth = Nth /\ path' = NoPath /\ path' # path)
    BY <1>1, <1>5 DEF Visited
  <2> QED
    BY <1>5, <2>1 DEF DirectoryInv, PathsInv
<1>6. \A nth \in DOMAIN config'.paths : Visited(nth)' /\ nth \notin broken' => AllParsed(nth)'
  BY <1>3, <1>5
<1> QED
  BY <1>1, <1>2, <1>3, <1>4, <1>6 DEF PathsInv

\* The path at hand.
LEMMA PathIs ==
  ASSUME DirectoryInv, path # NoPath
  PROVE  /\ config \in Configs /\ path \in DOMAIN config.tree /\ Nth \in DOMAIN config.paths
         /\ path = config.paths[Nth] /\ Visit(config, path, Parsed(Nth), directories, files)
         /\ Parsed(Nth) \subseteq Seq(Int)
<1>1. ConfigInv /\ VisitInv
  BY DEF DirectoryInv
<1> QED
  BY <1>1, ConfigIs DEF ConfigInv, VisitInv

\* A file that is no harvest is passed over.
LEMMA PassOverStep == DirectoryInv /\ PassOverFile => DirectoryInv'
<1> SUFFICES ASSUME DirectoryInv, PassOverFile PROVE DirectoryInv'
  OBVIOUS
<1>1. /\ path # NoPath /\ files # <<>> /\ ~hasSuffix(Head(files)) /\ files' = Tail(files)
      /\ UNCHANGED <<config, paths, path, directories, loaded, broken>>
  BY DEF PassOverFile, Visiting
<1>2. ConfigInv' /\ PathsInv' /\ Nth' = Nth /\ Parsed(Nth)' = Parsed(Nth)
  <2>2. ConfigInv' /\ PathsInv' /\ Nth' = Nth
    BY <1>1, SamePaths
  <2>3. Parsed(Nth)' = Parsed(Nth)
    BY <1>1 DEF Parsed, ParsedFor, Nth
  <2> QED
    BY <2>2, <2>3
<1>3. Visit(config, path, Parsed(Nth), directories, Tail(files))
  BY <1>1, PathIs, Leave
<1>4. VisitInv'
  BY <1>1, <1>2, <1>3, PathIs DEF VisitInv
<1> QED
  BY <1>2, <1>4 DEF DirectoryInv

\* A visit that a failure ends, or that comes to its end.
LEMMA EndStep == DirectoryInv /\ (OpenFails \/ VisitEnds \/ (NextDirectory /\ EndVisit(Nth))) => DirectoryInv'
<1> SUFFICES ASSUME DirectoryInv, OpenFails \/ VisitEnds \/ (NextDirectory /\ EndVisit(Nth)) PROVE DirectoryInv'
  OBVIOUS
<1>1. path # NoPath /\ UNCHANGED <<config, paths, loaded>> /\ path' = NoPath
  BY DEF OpenFails, VisitEnds, NextDirectory, EndVisit, Visiting
<1>2. \/ directories' = <<>> /\ files' = <<>> /\ broken' = broken \cup {Nth}
      \/ directories = <<>> /\ files = <<>> /\ UNCHANGED <<directories, files, broken>>
  BY DEF OpenFails, VisitEnds, EndVisit, queues
<1>3. ASSUME directories = <<>>, files = <<>> PROVE AllParsed(Nth)
  <2> SUFFICES ASSUME NEW f \in Harvests(config, path) PROVE f \in Parsed(Nth)
    BY <1>1, PathIs DEF AllParsed
  <2>1. PICK d \in Reached(config, path) :
          f \in { Append(d, e.name) : e \in { x \in config.tree[d] : x.type = "DT_REG" /\ x.harvest } }
    BY DEF Harvests
  <2>2. PICK e \in config.tree[d] : e.type = "DT_REG" /\ e.harvest /\ f = Append(d, e.name)
    BY <2>1
  <2>3. CompleteOK(config, path, Parsed(Nth), <<>>, <<>>)
    BY <1>1, <1>3, PathIs DEF Visit
  <2>4. ToSet(<<>>) = {}
    BY DEF ToSet
  <2> QED
    BY <2>2, <2>3, <2>4 DEF CompleteOK
<1>4. broken \subseteq broken' /\ (Nth \in broken' \/ AllParsed(Nth))
  BY <1>2, <1>3
<1>5. ConfigInv' /\ PathsInv'
  BY <1>1, <1>4, SamePaths
<1>6. VisitInv'
  BY <1>1, <1>2 DEF VisitInv
<1> QED
  BY <1>5, <1>6 DEF DirectoryInv

\* The next directory, when no file is left.
LEMMA NextDirectoryStep == DirectoryInv /\ NextDirectory /\ ~EndVisit(Nth) => DirectoryInv'
<1> SUFFICES ASSUME DirectoryInv, NextDirectory, ~EndVisit(Nth) PROVE DirectoryInv'
  OBVIOUS
<1>1. /\ path # NoPath /\ files = <<>> /\ directories # <<>>
      /\ UNCHANGED <<config, paths, path, loaded, broken>>
      /\ \/ config.recursive /\ getPathsInDirectory(Head(directories), Tail(directories))
         \/ ~config.recursive /\ directories' = Tail(directories) /\ files' = files
  BY DEF NextDirectory, Visiting
<1>2. ConfigInv' /\ PathsInv' /\ Nth' = Nth /\ Parsed(Nth)' = Parsed(Nth)
  <2>2. ConfigInv' /\ PathsInv' /\ Nth' = Nth
    BY <1>1, SamePaths
  <2>3. Parsed(Nth)' = Parsed(Nth)
    BY <1>1 DEF Parsed, ParsedFor, Nth
  <2> QED
    BY <2>2, <2>3
<1>3. PICK w : w = Tail(directories)
  OBVIOUS
<1>4. PICK d : d = Head(directories)
  OBVIOUS
<1>5. PICK P : P = Parsed(Nth)
  OBVIOUS
<1>6. /\ config \in Configs /\ path \in DOMAIN config.tree /\ P \subseteq Seq(Int)
      /\ QueuesOK(config, path, directories, <<>>) /\ OrderOK(P, directories, <<>>)
      /\ CompleteOK(config, path, P, directories, <<>>)
  BY <1>1, <1>5, PathIs DEF Visit
<1>7. directories \in Seq(Seq(Int))
  BY <1>6 DEF QueuesOK
<1>8. /\ w \in Seq(Seq(Int)) /\ d \in ToSet(directories)
      /\ ToSet(directories) = {d} \cup ToSet(w)
      /\ Increasing(w) /\ \A x \in ToSet(w) : Before(d, x)
  BY <1>1, <1>3, <1>4, <1>6, <1>7, QueueTail DEF OrderOK
<1>9. QueuesOK(config, path, w, <<>>)
  BY <1>6, <1>8 DEF QueuesOK
<1>10. OrderOK(P, w, <<>>)
  BY <1>6, <1>8 DEF OrderOK
<1>11. ASSUME config.recursive, getPathsInDirectory(d, w)
       PROVE  Visit(config, path, P, directories', files')
  <2>1. \A f \in P \cup ToSet(w) : \A n \in Int : Before(f, Append(d, n))
    BY <1>6, <1>8 DEF OrderOK
  <2>2. d \in Reached(config, path)
    BY <1>6, <1>8, <1>11, ReachedIs DEF QueuesOK
  <2>3. \A c \in Reached(config, path) : \A e \in config.tree[c] :
           e.type = "DT_REG" /\ e.harvest =>
             Append(c, e.name) \in P \/ IsPrefix(d, c) \/ (config.recursive /\ \E y \in ToSet(w) : IsPrefix(y, c))
    <3> SUFFICES ASSUME NEW c \in Reached(config, path), NEW e \in config.tree[c], e.type = "DT_REG", e.harvest
                 PROVE  Append(c, e.name) \in P \/ IsPrefix(d, c) \/ (config.recursive /\ \E y \in ToSet(w) : IsPrefix(y, c))
      OBVIOUS
    <3>1. ToSet(<<>>) = {}
      BY DEF ToSet
    <3>2. \/ Append(c, e.name) \in P \cup ToSet(<<>>)
          \/ config.recursive /\ \E y \in ToSet(directories) : IsPrefix(y, c)
      BY <1>6 DEF CompleteOK
    <3> QED
      BY <1>8, <3>1, <3>2
  <2>4. directories' = w \o Sorted(d, "DT_DIR") /\ files' = <<>> \o Sorted(d, "DT_REG")
    BY <1>1, <1>11 DEF getPathsInDirectory
  <2>5. files' = Sorted(d, "DT_REG")
    <3>1. d \in DOMAIN config.tree
      BY <2>2 DEF Reached
    <3>2. Sorted(d, "DT_REG") \in Seq(Seq(Int))
      BY <1>6, <3>1, SortedIs
    <3> QED
      BY <2>4, <3>2
  <2>6. directories' = w \o Sorted(d, "DT_DIR")
    BY <2>4
  <2> QED
    BY <1>6, <1>8, <1>9, <1>10, <2>1, <2>2, <2>3, <2>5, <2>6, Enter
<1>12. ASSUME ~config.recursive, directories' = w, files' = files
       PROVE  Visit(config, path, P, directories', files')
  <2>1. CompleteOK(config, path, P, w, <<>>)
    BY <1>6, <1>12 DEF CompleteOK
  <2> QED
    BY <1>1, <1>9, <1>10, <1>12, <2>1 DEF Visit
<1>13. Visit(config, path, P, directories', files')
  BY <1>1, <1>3, <1>4, <1>11, <1>12
<1>14. VisitInv'
  BY <1>1, <1>2, <1>5, <1>13, PathIs DEF VisitInv
<1> QED
  BY <1>2, <1>14 DEF DirectoryInv

\* The visit of the next path begins, or fails at once.
LEMMA StartStep == DirectoryInv /\ StartVisit => DirectoryInv'
<1> SUFFICES ASSUME DirectoryInv, StartVisit PROVE DirectoryInv'
  OBVIOUS
<1>1. path = NoPath /\ paths # <<>> /\ paths' = Tail(paths) /\ UNCHANGED <<config, loaded>>
  BY DEF StartVisit
<1>2. ConfigInv /\ config \in Configs /\ paths \in Seq(DOMAIN config.tree)
  BY DEF DirectoryInv, ConfigInv
<1>3. /\ config.paths \in Seq(DOMAIN config.tree) /\ Len(config.paths) \in Nat /\ Len(paths) \in Nat
      /\ DOMAIN config.paths = 1..Len(config.paths) /\ Nth \in Nat /\ NoPath \notin DOMAIN config.tree
  BY <1>2, ConfigIs
<1>4. /\ Tail(paths) \in Seq(DOMAIN config.tree) /\ Len(Tail(paths)) = Len(paths) - 1 /\ Len(paths) > 0
      /\ Head(paths) = paths[1] /\ Head(paths) \in DOMAIN config.tree
      /\ \A j \in 1..(Len(paths) - 1) : Tail(paths)[j] = paths[j + 1]
  BY <1>1, <1>2
<1>5. Nth = Len(config.paths) - Len(paths) /\ Nth' = Nth + 1 /\ Nth + 1 \in DOMAIN config.paths
  <2>1. Len(paths) <= Len(config.paths)
    BY <1>2 DEF ConfigInv
  <2> QED
    BY <1>1, <1>3, <1>4, <2>1 DEF Nth
<1>6. Head(paths) = config.paths[Nth + 1]
  BY <1>2, <1>3, <1>4 DEF ConfigInv
<1>7. ConfigInv'
  <2>1. ASSUME NEW j \in 1..Len(paths') PROVE paths'[j] = config'.paths[Nth' + j]
    <3>0. Len(paths') = Len(paths) - 1
      BY <1>1, <1>4
    <3>a. j \in 1..(Len(paths) - 1) /\ j \in Nat
      BY <1>3, <3>0
    <3>b. j + 1 \in 1..Len(paths)
      BY <1>3, <3>a
    <3>c. Nth' + j = Nth + (j + 1)
      <4>1. PICK n, q : n = Nth /\ q = Nth'
        OBVIOUS
      <4>2. n \in Nat /\ q = n + 1
        BY <1>3, <1>5, <4>1
      <4>3. q + j = n + (j + 1)
        BY <3>a, <4>2
      <4> QED
        BY <4>1, <4>3
    <3>1. j \in 1..(Len(paths) - 1) /\ j + 1 \in 1..Len(paths) /\ Nth' + j = Nth + (j + 1)
      BY <3>a, <3>b, <3>c
    <3>2. paths[j + 1] = config.paths[Nth + (j + 1)]
      BY <1>2, <3>1 DEF ConfigInv
    <3> QED
      BY <1>1, <1>4, <3>1, <3>2
  <2>2. Len(paths') <= Len(config'.paths)
    BY <1>1, <1>2, <1>3, <1>4 DEF ConfigInv
  <2>3. \A k \in DOMAIN loaded : loaded[k].nth \in Nat
    <3>1. PICK T : T = [nth : Nat, name : Seq(Int)]
      OBVIOUS
    <3>2. loaded \in Seq(T)
      BY <1>2, <3>1, Zenon DEF ConfigInv
    <3>3. \A k \in DOMAIN loaded : loaded[k] \in T
      BY <3>2
    <3> QED
      BY <3>1, <3>3
  <2>4. \A k \in DOMAIN loaded : loaded[k].nth <= Nth + 1
    BY <1>2, <1>3, <2>3 DEF ConfigInv
  <2> QED
    BY <1>1, <1>2, <1>4, <1>5, <2>1, <2>2, <2>4 DEF ConfigInv
<1>8. \A nth : InTurn(nth)' = InTurn(nth) /\ AllParsed(nth)' = AllParsed(nth) /\ Parsed(nth)' = Parsed(nth)
  BY <1>1, SameFiles
<1>9. \/ path' = Head(paths) /\ getPathsInDirectory(Head(paths), <<>>) /\ UNCHANGED broken
      \/ EndVisit(Nth + 1)
  BY DEF StartVisit
<1>10. PathsInv'
  <2>1. ASSUME NEW nth \in DOMAIN config.paths, Visited(nth)', nth \notin broken' PROVE AllParsed(nth)
    <3>1. nth < Nth + 1 \/ (nth = Nth + 1 /\ path' = NoPath)
      BY <1>5, <2>1 DEF Visited
    <3>2. ~(nth = Nth + 1 /\ path' = NoPath)
      BY <1>3, <1>4, <1>9, <2>1 DEF EndVisit
    <3>3. nth \in Nat /\ (nth < Nth \/ nth = Nth)
      BY <1>3, <3>1, <3>2
    <3>4. Visited(nth) /\ nth \notin broken
      BY <1>1, <1>9, <2>1, <3>3 DEF Visited, EndVisit
    <3> QED
      BY <3>4 DEF DirectoryInv, PathsInv
  <2>2. \A nth \in DOMAIN config'.paths : InTurn(nth)'
    BY <1>1, <1>8 DEF DirectoryInv, PathsInv
  <2>3. \A nth \in DOMAIN config'.paths : Visited(nth)' /\ nth \notin broken' => AllParsed(nth)'
    BY <1>1, <1>8, <2>1
  <2> QED
    BY <2>2, <2>3 DEF PathsInv
<1>11. CASE EndVisit(Nth + 1)
  <2>1. VisitInv'
    BY <1>11 DEF EndVisit, VisitInv
  <2> QED
    BY <1>7, <1>10, <2>1 DEF DirectoryInv
<1>12. CASE path' = Head(paths) /\ getPathsInDirectory(Head(paths), <<>>)
  <2>1. PICK p : p = Head(paths)
    OBVIOUS
  <2>2. p \in DOMAIN config.tree /\ p \in Reached(config, p) /\ p # NoPath
    BY <1>2, <1>3, <1>4, <2>1, BelowFirst
  <2>3. ToSet(<<>>) = {} /\ <<>> \in Seq(Seq(Int))
    BY DEF ToSet
  <2>4. QueuesOK(config, p, <<>>, <<>>)
    BY <2>3 DEF QueuesOK
  <2>5. OrderOK({}, <<>>, <<>>)
    BY <2>3 DEF OrderOK, Increasing
  <2>6. files = <<>>
    BY <1>1 DEF DirectoryInv, VisitInv
  <2>7. directories' = <<>> \o Sorted(p, "DT_DIR") /\ files' = Sorted(p, "DT_REG")
    <3>1. Sorted(p, "DT_REG") \in Seq(Seq(Int))
      BY <1>2, <2>2, SortedIs
    <3>2. files' = <<>> \o Sorted(p, "DT_REG") /\ directories' = <<>> \o Sorted(p, "DT_DIR")
      BY <1>12, <2>1, <2>6 DEF getPathsInDirectory
    <3> QED
      BY <3>1, <3>2
  <2>8. \A c \in Reached(config, p) : IsPrefix(p, c)
    BY DEF Reached
  <2>9. Visit(config, p, {}, directories', files')
    BY <1>2, <2>2, <2>3, <2>4, <2>5, <2>7, <2>8, Enter
  <2>10. ASSUME NEW k \in DOMAIN loaded, loaded[k].nth = Nth + 1 PROVE FALSE
    BY <1>2, <1>3, <2>10 DEF ConfigInv
  <2>11. Parsed(Nth)' = {}
    <3>1. ParsedFor(Nth)' = { k \in DOMAIN loaded : loaded[k].nth = Nth + 1 }
      BY <1>1, <1>5 DEF ParsedFor
    <3>2. ParsedFor(Nth)' = {}
      BY <2>10, <3>1
    <3> QED
      BY <3>2 DEF Parsed
  <2>12. VisitInv'
    BY <1>1, <1>5, <1>6, <1>12, <2>1, <2>2, <2>9, <2>11 DEF VisitInv
  <2> QED
    BY <1>7, <1>10, <2>12 DEF DirectoryInv
<1> QED
  BY <1>9, <1>11, <1>12

\* A harvest is parsed.
LEMMA LoadStep == DirectoryInv /\ LoadFile => DirectoryInv'
<1> SUFFICES ASSUME DirectoryInv, LoadFile PROVE DirectoryInv'
  OBVIOUS
<1>1. /\ path # NoPath /\ files # <<>> /\ hasSuffix(Head(files)) /\ files' = Tail(files)
      /\ loaded' = Append(loaded, [nth |-> Nth, name |-> Head(files)])
      /\ UNCHANGED <<config, paths, path, directories, broken>>
  BY DEF LoadFile, Visiting
<1>2. /\ config \in Configs /\ path \in DOMAIN config.tree /\ Nth \in DOMAIN config.paths
      /\ path = config.paths[Nth] /\ Visit(config, path, Parsed(Nth), directories, files)
      /\ Parsed(Nth) \subseteq Seq(Int)
  BY <1>1, PathIs
<1>3. PICK g : g = Head(files)
  OBVIOUS
<1>4. g \in Seq(Int)
  BY <1>1, <1>2, <1>3, QueueTail DEF Visit, QueuesOK
<1>5. PICK P : P = Parsed(Nth)
  OBVIOUS
<1>6. /\ g \in Harvests(config, path) /\ \A f \in P : Before(f, g)
      /\ \A f \in Harvests(config, path) : Before(f, g) => f \in P
  BY <1>1, <1>2, <1>3, <1>5, InTurnNext
<1>7. PICK T : T = [nth : Nat, name : Seq(Int)]
  OBVIOUS
<1>8. PICK r : r = [nth |-> Nth, name |-> g]
  OBVIOUS
<1>9. Nth \in Nat /\ Nth' = Nth
  BY <1>1, ConfigIs DEF DirectoryInv, Nth
<1>10. r \in T /\ loaded \in Seq(T) /\ r.nth = Nth /\ r.name = g
  <2>1. r \in T
    BY <1>4, <1>7, <1>8, <1>9
  <2>2. loaded \in Seq(T)
    BY <1>7, Zenon DEF DirectoryInv, ConfigInv
  <2> QED
    BY <1>8, <2>1, <2>2
<1>11. PICK m : m = Len(loaded) + 1
  OBVIOUS
<1>12. /\ loaded' \in Seq(T) /\ DOMAIN loaded = 1..Len(loaded) /\ Len(loaded) \in Nat
       /\ DOMAIN loaded' = 1..m /\ loaded'[m] = r /\ \A k \in DOMAIN loaded : loaded'[k] = loaded[k]
  <2>1. loaded' = Append(loaded, r)
    BY <1>1, <1>3, <1>8
  <2> QED
    BY <1>10, <1>11, <2>1
<1>13. m \notin DOMAIN loaded /\ DOMAIN loaded' = DOMAIN loaded \cup {m} /\ \A k \in DOMAIN loaded : k < m /\ ~(m < k)
  BY <1>11, <1>12
<1>14. ASSUME NEW nth, nth # Nth PROVE ParsedFor(nth)' = ParsedFor(nth)
  BY <1>10, <1>12, <1>13, <1>14 DEF ParsedFor
<1>15. \A k \in DOMAIN loaded' : k \in ParsedFor(Nth)' <=> k \in ParsedFor(Nth) \/ k = m
  BY <1>9, <1>10, <1>12, <1>13 DEF ParsedFor
<1>16. ParsedFor(Nth)' = ParsedFor(Nth) \cup {m} /\ ParsedFor(Nth) \subseteq DOMAIN loaded
  BY <1>13, <1>15 DEF ParsedFor
<1>17. Parsed(Nth)' = P \cup {g}
  <2>1. Parsed(Nth)' = { loaded'[k].name : k \in ParsedFor(Nth) \cup {m} }
    BY <1>16 DEF Parsed
  <2>2. \A k \in ParsedFor(Nth) : loaded'[k].name = loaded[k].name
    BY <1>12, <1>16
  <2>3. loaded'[m].name = g
    BY <1>10, <1>12
  <2>4. P = { loaded[k].name : k \in ParsedFor(Nth) }
    BY <1>5 DEF Parsed
  <2> QED
    BY <2>1, <2>2, <2>3, <2>4
<1>18. ConfigInv'
  <2>1. loaded' \in Seq([nth : Nat, name : Seq(Int)])
    BY <1>7, <1>12, Zenon
  <2>2. \A k \in DOMAIN loaded : loaded[k].nth <= Nth
    BY DEF DirectoryInv, ConfigInv
  <2>3. \A k \in DOMAIN loaded' : loaded'[k].nth <= Nth
    <3>1. loaded'[m].nth <= Nth
      BY <1>9, <1>10, <1>12
    <3>2. \A k \in DOMAIN loaded : loaded'[k].nth <= Nth
      BY <1>12, <2>2
    <3> QED
      BY <1>13, <3>1, <3>2
  <2> QED
    BY <1>1, <1>9, <2>1, <2>3 DEF DirectoryInv, ConfigInv
<1>19. VisitInv'
  <2>1. Visit(config, path, P \cup {g}, directories, Tail(files))
    BY <1>1, <1>2, <1>3, <1>5, Leave
  <2> QED
    BY <1>1, <1>2, <1>9, <1>17, <2>1 DEF VisitInv
<1>20. ASSUME NEW nth \in DOMAIN config.paths, nth # Nth
       PROVE  (InTurn(nth) => InTurn(nth)') /\ (AllParsed(nth) => AllParsed(nth)')
  <2>1. ParsedFor(nth)' = ParsedFor(nth) /\ ParsedFor(nth) \subseteq DOMAIN loaded
    BY <1>14, <1>20 DEF ParsedFor
  <2>2. \A k \in ParsedFor(nth) : loaded'[k] = loaded[k]
    BY <1>12, <2>1
  <2>3. Parsed(nth)' = Parsed(nth)
    BY <2>1, <2>2 DEF Parsed
  <2>4. InTurn(nth) => InTurn(nth)'
    BY <1>1, <2>1, <2>2 DEF InTurn
  <2>5. AllParsed(nth) => AllParsed(nth)'
    BY <1>1, <2>3 DEF AllParsed
  <2> QED
    BY <2>4, <2>5
<1>21. InTurn(Nth) => InTurn(Nth)'
  <2> SUFFICES ASSUME InTurn(Nth) PROVE InTurn(Nth)'
    OBVIOUS
  <2>1. PICK all : all = Harvests(config, path)
    OBVIOUS
  <2>2. /\ \A k \in ParsedFor(Nth) : loaded[k].name \in all
        /\ \A k, l \in ParsedFor(Nth) : k < l => Before(loaded[k].name, loaded[l].name)
        /\ \A k \in ParsedFor(Nth), f \in all :
             Before(f, loaded[k].name) => \E l \in ParsedFor(Nth) : loaded[l].name = f
    BY <1>2, <2>1 DEF InTurn
  <2>3. \A k \in ParsedFor(Nth) : loaded'[k].name = loaded[k].name /\ loaded[k].name \in P /\ k < m /\ ~(m < k)
    BY <1>5, <1>12, <1>13, <1>16 DEF Parsed
  <2>4. loaded'[m].name = g /\ ~(m < m)
    BY <1>10, <1>11, <1>12
  <2>5. \A k \in ParsedFor(Nth) \cup {m} : loaded'[k].name \in all
    BY <1>6, <2>1, <2>2, <2>3, <2>4
  <2>6. \A k, l \in ParsedFor(Nth) \cup {m} : k < l => Before(loaded'[k].name, loaded'[l].name)
    BY <1>6, <2>2, <2>3, <2>4
  <2>7. ASSUME NEW k \in ParsedFor(Nth) \cup {m}, NEW f \in all, Before(f, loaded'[k].name)
        PROVE  \E l \in ParsedFor(Nth) \cup {m} : loaded'[l].name = f
    <3>1. \E l \in ParsedFor(Nth) : loaded[l].name = f
      <4>1. CASE k = m
        <5>1. f \in P
          BY <1>6, <2>1, <2>4, <2>7, <4>1
        <5> QED
          BY <1>5, <5>1 DEF Parsed
      <4>2. CASE k \in ParsedFor(Nth)
        BY <2>2, <2>3, <2>7, <4>2
      <4> QED
        BY <4>1, <4>2
    <3> QED
      BY <2>3, <3>1
  <2> QED
    BY <1>1, <1>2, <1>9, <1>16, <2>1, <2>5, <2>6, <2>7 DEF InTurn
<1>22. PathsInv'
  <2>1. \A nth \in DOMAIN config.paths : InTurn(nth)
    BY DEF DirectoryInv, PathsInv
  <2>2. ASSUME NEW nth \in DOMAIN config.paths PROVE InTurn(nth)'
    <3>1. CASE nth = Nth
      <4>1. InTurn(nth)' = InTurn(Nth)'
        BY <1>9, <3>1 DEF InTurn, ParsedFor
      <4> QED
        BY <1>21, <2>1, <3>1, <4>1
    <3> QED
      BY <1>20, <2>1, <3>1
  <2>3. ASSUME NEW nth \in DOMAIN config.paths, Visited(nth)', nth \notin broken' PROVE AllParsed(nth)'
    <3>1. nth # Nth /\ nth < Nth
      BY <1>1, <1>9, <2>3 DEF Visited
    <3>2. AllParsed(nth)
      BY <1>1, <2>3, <3>1 DEF Visited, DirectoryInv, PathsInv
    <3> QED
      BY <1>20, <3>1, <3>2
  <2> QED
    BY <1>1, <2>2, <2>3 DEF PathsInv
<1> QED
  BY <1>18, <1>19, <1>22 DEF DirectoryInv

\* Every step keeps the invariant.
LEMMA DirectoryStep == DirectoryInv /\ [loadHarvests]_harvestVars => DirectoryInv'
<1> SUFFICES ASSUME DirectoryInv, [loadHarvests]_harvestVars PROVE DirectoryInv'
  OBVIOUS
<1>1. CASE UNCHANGED visitVars
  <2>1. UNCHANGED <<config, paths, path, directories, files, loaded, broken>>
    BY <1>1 DEF visitVars, queues
  <2>2. ConfigInv' /\ PathsInv' /\ Nth' = Nth
    BY <2>1, SamePaths
  <2>3. Parsed(Nth)' = Parsed(Nth)
    BY <2>1 DEF Parsed, ParsedFor, Nth
  <2>4. VisitInv'
    BY <2>1, <2>2, <2>3 DEF DirectoryInv, VisitInv
  <2> QED
    BY <2>2, <2>4 DEF DirectoryInv
<1>2. CASE NextDirectory
  BY <1>2, EndStep, NextDirectoryStep
<1> QED
  BY <1>1, <1>2, StartStep, PassOverStep, LoadStep, EndStep DEF loadHarvests, harvestVars

\* Whatever the directories, the paths and the calls that fail: the files of a
\* path are parsed level by level and in the order of their names, each once, and
\* a failure costs no harvest of another path (foreachEntryInDirectory).
THEOREM EveryHarvestOnceCorrect == HarvestSpec => []EveryHarvestOnce
  BY DirectoryInit, DirectoryStep, DirectoryImplies, PTL DEF HarvestSpec
=============================================================================

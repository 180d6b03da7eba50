---------------------------- MODULE IndexBuilder ----------------------------
(***************************************************************************)
(* IndexBuilder: what indexing a harvest does to the formula trie          *)
(* (TmpIndex), the formula database and the crawl database.  An expression *)
(* is the sequence of its subexpressions in the order of                   *)
(* foreachSubexpression, each given by its encoded formula, or Unencodable *)
(* where HarvestEncoder::encode fails.  indexContentMath handles one       *)
(* subexpression per step.                                                 *)
(***************************************************************************)
EXTENDS Integers, Sequences, FiniteSets, SequencesExt

CONSTANTS
  Formulas,        \* encoded formulas
  Unencodable,     \* stands for a subexpression that cannot be encoded
  Expressions,     \* expressions of the harvests
  HasCrawlDb,      \* FALSE when the builder is given no CrawlDb
  PutMayFail,      \* whether a database can refuse an item
  MaxExpressions,  \* bound: number of expressions indexed
  MaxData          \* bound: number of crawl data items

ASSUME ExpressionsAssumption ==
  /\ Expressions \subseteq Seq(Formulas \cup {Unencodable})
  /\ Unencodable \notin Formulas
  /\ HasCrawlDb \in BOOLEAN /\ PutMayFail \in BOOLEAN

CRAWLID_NULL == 0

VARIABLES
  leafId,      \* leaf of the trie (a formula) -> formula id
  nextId,      \* TmpLeafNode::nextId
  solutions,   \* leaf -> number of hits counted in it
  formulaDb,   \* formula id -> sequence of stored hits [crawlId, expr, path]
  crawlDb,     \* set of crawl ids with stored data; ids are 1..Cardinality(crawlDb)
  processed,   \* history: the expressions passed to indexContentMath
  current,     \* [crawlId, pos] of the call in progress; pos = 0 when there is none
  unique,      \* uniqueFormulaIds of that call
  numExpressions, \* sum of the values indexContentMath returned, and of its counter so far
  lost         \* history: number of insertions that failed

vars == <<leafId, nextId, solutions, formulaDb, crawlDb, processed, current, unique,
          numExpressions, lost>>

Leaves == DOMAIN leafId

Idle == current.pos = 0

EmptyMap == [x \in {} |-> 0]

Init ==
  /\ leafId = EmptyMap /\ nextId = 0 /\ solutions = EmptyMap /\ formulaDb = EmptyMap
  /\ crawlDb = {} /\ processed = <<>>
  /\ current = [crawlId |-> CRAWLID_NULL, pos |-> 0]
  /\ unique = {} /\ numExpressions = 0 /\ lost = 0

\* The crawl database numbers its items, and getData finds the ones it stored:
\* it throws for any other id.  (An item that is refused ends the process.)
putData == crawlDb' = crawlDb \cup {Cardinality(crawlDb) + 1}

getDataFinds(crawlId) == crawlId \in crawlDb

\* The data of a harvest entry is stored; its id is handed to the expressions
\* that refer to it.
indexCrawlData ==
  /\ Idle /\ HasCrawlDb
  /\ Cardinality(crawlDb) < MaxData
  /\ putData
  /\ UNCHANGED <<leafId, nextId, solutions, formulaDb, processed, current, unique,
                 numExpressions, lost>>

\* Mutant: the id of the next item is handed on.
BeginExpressionNextId(expr, crawlId) ==
  /\ Idle
  /\ Len(processed) < MaxExpressions
  /\ processed' = Append(processed, expr)
  /\ current' = [crawlId |-> crawlId + 1, pos |-> 1]
  /\ unique' = {}
  /\ UNCHANGED <<leafId, nextId, solutions, formulaDb, crawlDb, numExpressions, lost>>

\* indexContentMath is called for an expression.
BeginExpression(expr, crawlId) ==
  /\ Idle
  /\ Len(processed) < MaxExpressions
  /\ processed' = Append(processed, expr)
  /\ current' = [crawlId |-> crawlId, pos |-> 1]
  /\ unique' = {}
  /\ UNCHANGED <<leafId, nextId, solutions, formulaDb, crawlDb, numExpressions, lost>>

Expr == processed[Len(processed)]

Sub == Expr[current.pos]

MoreSubexpressions == ~Idle /\ current.pos <= Len(Expr)

Advance == current' = [current EXCEPT !.pos = @ + 1]

\* Mutant: the rest of the expression is skipped too.
SkipExpression ==
  /\ MoreSubexpressions
  /\ Sub = Unencodable
  /\ current' = [current EXCEPT !.pos = Len(Expr) + 1]
  /\ UNCHANGED <<leafId, nextId, solutions, formulaDb, crawlDb, processed, unique,
                 numExpressions, lost>>

\* "Skipping a formula (could not encode)".
SkipSubexpression ==
  /\ MoreSubexpressions
  /\ Sub = Unencodable
  /\ Advance
  /\ UNCHANGED <<leafId, nextId, solutions, formulaDb, crawlDb, processed, unique,
                 numExpressions, lost>>

\* TmpIndex::insertData: the leaf of the formula, created if need be.
insertData(f) ==
  IF f \in Leaves
    THEN UNCHANGED <<leafId, nextId>>
    ELSE /\ nextId' = nextId + 1
         /\ leafId' = [x \in Leaves \cup {f} |-> IF x = f THEN nextId + 1 ELSE leafId[x]]

HitsOf(id) == IF id \in DOMAIN formulaDb THEN formulaDb[id] ELSE <<>>

\* FormulaDb::insertFormula; its return value is ignored by the caller.
insertFormula(id) ==
  \/ /\ formulaDb' = [i \in DOMAIN formulaDb \cup {id} |->
                        IF i = id
                          THEN Append(HitsOf(id), [crawlId |-> current.crawlId,
                                                   expr |-> Len(processed),
                                                   path |-> current.pos])
                          ELSE formulaDb[i]]
     /\ UNCHANGED lost
  \/ /\ PutMayFail
     /\ lost' = lost + 1
     /\ UNCHANGED formulaDb

CountSolution(f) ==
  solutions' = [x \in Leaves \cup {f} |->
                  (IF x \in Leaves THEN solutions[x] ELSE 0) + (IF x = f THEN 1 ELSE 0)]

\* Mutant: the formula is not remembered in uniqueFormulaIds.
InsertUnremembered ==
  /\ MoreSubexpressions
  /\ Sub # Unencodable
  /\ insertData(Sub)
  /\ insertFormula(leafId'[Sub])
  /\ CountSolution(Sub)
  /\ numExpressions' = numExpressions + 1
  /\ Advance
  /\ UNCHANGED <<crawlDb, processed, unique>>

\* The first occurrence of a formula in this expression is a new hit.
InsertSubexpression ==
  /\ MoreSubexpressions
  /\ Sub # Unencodable
  /\ insertData(Sub)
  /\ leafId'[Sub] \notin unique
  /\ unique' = unique \cup {leafId'[Sub]}
  /\ insertFormula(leafId'[Sub])
  /\ CountSolution(Sub)
  /\ numExpressions' = numExpressions + 1
  /\ Advance
  /\ UNCHANGED <<crawlDb, processed>>

\* Mutant: a repeated formula is counted in its leaf.
RepeatedIsSolution ==
  /\ MoreSubexpressions
  /\ Sub \in Leaves /\ leafId[Sub] \in unique
  /\ CountSolution(Sub)
  /\ Advance
  /\ UNCHANGED <<leafId, nextId, formulaDb, crawlDb, processed, unique, numExpressions, lost>>

\* A later occurrence of the same formula in the same expression is not.
RepeatedSubexpression ==
  /\ MoreSubexpressions
  /\ Sub \in Leaves
  /\ leafId[Sub] \in unique
  /\ Advance
  /\ UNCHANGED <<leafId, nextId, solutions, formulaDb, crawlDb, processed, unique,
                 numExpressions, lost>>

\* indexContentMath returns.
EndExpression ==
  /\ ~Idle
  /\ current.pos = Len(Expr) + 1
  /\ current' = [crawlId |-> CRAWLID_NULL, pos |-> 0]
  /\ unique' = {}
  /\ UNCHANGED <<leafId, nextId, solutions, formulaDb, crawlDb, processed, numExpressions, lost>>

Next ==
  \/ indexCrawlData
  \/ \E e \in Expressions, c \in crawlDb \cup {CRAWLID_NULL} : BeginExpression(e, c)
  \/ SkipSubexpression \/ InsertSubexpression \/ RepeatedSubexpression \/ EndExpression

Spec == Init /\ [][Next]_vars

-----------------------------------------------------------------------------
(***************************************************************************)
(* Properties.                                                             *)
(***************************************************************************)
Hit == [crawlId : Nat, expr : Nat, path : Nat]

\* The maps have the domains and ranges the classes declare.
TypeOK ==
  /\ nextId \in Nat
  /\ leafId \in [Leaves -> 1..nextId] /\ Leaves \subseteq Formulas
  /\ solutions \in [Leaves -> Nat]
  /\ DOMAIN formulaDb \subseteq 1..nextId
  /\ \A id \in DOMAIN formulaDb : formulaDb[id] \in Seq(Hit)
  /\ crawlDb \subseteq Nat /\ IsFiniteSet(crawlDb)
  /\ processed \in Seq(Expressions)
  /\ current \in [crawlId : Nat, pos : Nat]
  /\ unique \subseteq 1..nextId
  /\ numExpressions \in Nat /\ lost \in Nat

\* As long as no insertion failed, the number of hits a leaf announces
\* (num_hits in the exported index) is the number of hits the formula database
\* holds under the leaf's id: the paging of SearchContext::getResult counts
\* with the one and reads the other.
HitsMatchStore ==
  lost = 0 => \A x \in Leaves : solutions[x] = Len(HitsOf(leafId[x]))

\* When FormulaDb::insertFormula fails, which indexContentMath does not notice,
\* the announced number of hits can only exceed the stored one: a query may
\* return fewer answers than its total says, never one that was not counted.
StoreWithinCount ==
  /\ \A x, y \in Leaves : leafId[x] = leafId[y] => x = y
  /\ \A x \in Leaves : Len(HitsOf(leafId[x])) <= solutions[x]

\* A formula has at most one hit per expression, however often it occurs.
OneHitPerExpression ==
  \A id \in DOMAIN formulaDb : \A i, j \in DOMAIN formulaDb[id] :
    i < j => formulaDb[id][i].expr < formulaDb[id][j].expr

\* Between two expressions, and if no insertion failed, every encodable
\* subexpression that was passed to indexContentMath has its hit.
EverySubexpressionStored ==
  Idle /\ lost = 0 => \A n \in DOMAIN processed : \A i \in DOMAIN processed[n] :
    processed[n][i] # Unencodable =>
      /\ processed[n][i] \in Leaves
      /\ \E h \in ToSet(HitsOf(leafId[processed[n][i]])) :
            h.expr = n /\ h.path <= i /\ processed[n][h.path] = processed[n][i]

\* DbQueryManager::query finds the crawl data of every stored hit, so that
\* CrawlDb::getData never throws while a query is answered.
CrawlDataResolvable ==
  \A id \in DOMAIN formulaDb : \A i \in DOMAIN formulaDb[id] :
    \/ formulaDb[id][i].crawlId = CRAWLID_NULL
    \/ getDataFinds(formulaDb[id][i].crawlId)

=============================================================================

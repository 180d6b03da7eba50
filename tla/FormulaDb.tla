----------------------------- MODULE FormulaDb ------------------------------
(***************************************************************************)
(* The contract of mws::dbc::FormulaDb.  Every formula id owns a list of   *)
(* stored hits.  insertFormula adds one hit to one list, at a place the    *)
(* implementation chooses; queryFormula hands to its callback the hits of  *)
(* that list from limitMin on, limitSize of them at most.  Pages with      *)
(* consecutive limits therefore show every hit of a formula exactly once,  *)
(* which is what SearchContext::getResult relies on.                       *)
(***************************************************************************)
EXTENDS Integers, Sequences, SequencesExt

CONSTANTS FormulaIds, Hits
VARIABLE lists     \* formula id -> sequence of its hits

Init == lists = [id \in FormulaIds |-> <<>>]

insertFormula(id, hit) ==
  \E i \in 1..(Len(lists[id]) + 1) : lists' = [lists EXCEPT ![id] = InsertAt(@, i, hit)]

Next == \E id \in FormulaIds, hit \in Hits : insertFormula(id, hit)

Spec == Init /\ [][Next]_lists

queryFormula(id, limitMin, limitSize) ==
  LET hits == lists[id]
      last == limitMin + limitSize
  IN  SubSeq(hits, limitMin + 1, IF last <= Len(hits) THEN last ELSE Len(hits))
=============================================================================

--------------------------- MODULE MemFormulaDb ----------------------------
(***************************************************************************)
(* MemFormulaDb: the FormulaDb of a daemon that indexes its harvests in    *)
(* memory.  mData maps a formula id to the vector of its hits; a hit is    *)
(* named by the number of its insertion.                                   *)
(***************************************************************************)
EXTENDS Integers, Sequences, FiniteSets, SequencesExt

CONSTANTS FormulaIds, MaxInserts, MaxLimit
VARIABLES mData, inserted

vars == <<mData, inserted>>

Init == mData = <<>> /\ inserted = 0

HitsOf(id) == IF id \in DOMAIN mData THEN mData[id] ELSE <<>>

insertFormula(id) ==
  /\ inserted < MaxInserts
  /\ inserted' = inserted + 1
  /\ mData' = [k \in DOMAIN mData \cup {id} |->
                 IF k = id THEN Append(HitsOf(id), inserted + 1) ELSE mData[k]]

Next == \E id \in FormulaIds : insertFormula(id)

Spec == Init /\ [][Next]_vars

\* Nothing for an unknown formula or a limitMin past the end; otherwise the
\* elements from limitMin on until limitSize are read or the vector ends.
queryFormula(id, limitMin, limitSize) ==
  LET infos == HitsOf(id)
      last  == limitMin + limitSize
  IN  IF id \notin DOMAIN mData \/ limitMin >= Len(infos) THEN <<>>
      ELSE SubSeq(infos, limitMin + 1, IF last < Len(infos) THEN last ELSE Len(infos))
-----------------------------------------------------------------------------
Contract == INSTANCE FormulaDb WITH
  Hits <- 1..MaxInserts, lists <- [id \in FormulaIds |-> HitsOf(id)]

\* insertFormula keeps the FormulaDb contract: one hit is added to one list.
InsertKeepsContract == Contract!Spec

\* queryFormula keeps the FormulaDb contract: consecutive pages of a query
\* show each hit of the formula exactly once.
QueryKeepsContract ==
  \A id \in FormulaIds, limitMin, limitSize \in 0..MaxLimit :
    queryFormula(id, limitMin, limitSize) = Contract!queryFormula(id, limitMin, limitSize)
=============================================================================

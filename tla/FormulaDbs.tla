----------------------------- MODULE FormulaDbs -----------------------------
(***************************************************************************)
(* The two implementations of FormulaDb side by side, given the same       *)
(* insertions.                                                             *)
(***************************************************************************)
EXTENDS Integers

CONSTANTS FormulaIds, MaxInserts, MaxLimit

ASSUME FormulaDbAssumption == FormulaIds \subseteq Nat /\ MaxInserts \in Nat /\ MaxLimit \in Nat

VARIABLES mDatabase, mCounter,   \* LevFormulaDb
          mData, inserted        \* MemFormulaDb

Lev == INSTANCE LevFormulaDb
Mem == INSTANCE MemFormulaDb

dbVars == <<mDatabase, mCounter, mData, inserted>>

DbInit == Lev!Init /\ Mem!Init

insertFormula(id) == Lev!insertFormula(id) /\ Mem!insertFormula(id)

DbNext == \E id \in FormulaIds : insertFormula(id)

DbSpec == DbInit /\ [][DbNext]_dbVars

-----------------------------------------------------------------------------
\* In both databases insertFormula changes the list of its own formula only, by
\* one hit: in LevFormulaDb whatever the decimal texts of the keys.
InsertsKeepContract == Lev!InsertKeepsContract /\ Mem!InsertKeepsContract

\* In both databases queryFormula never shows the hits of another formula (in
\* LevFormulaDb one whose key text is near), and consecutive pages show each
\* hit of the formula exactly once.
QueriesKeepContract == Lev!QueryKeepsContract /\ Mem!QueryKeepsContract
=============================================================================

-------------------------- MODULE MCIndexIterator --------------------------
EXTENDS Memsector
Universe == INSTANCE MCFormulas

\* Every non-empty index over the universe.
MCIndexes == Universe!IndexesUpTo(9)

\* The numbers of hits, one of them beyond the width of the field.
MCHitCounts == [formula \in Universe!FormulaUniverse |-> 2 * Len(formula) - 1]
=============================================================================

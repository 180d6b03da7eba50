-------------------------- MODULE MCSearchContext --------------------------
(***************************************************************************)
(* Small instances of SearchContext.  Query tokens: x is a named variable, *)
(* any1 and any2 are anonymous ones, rng1 and rng2 are ranges.             *)
(***************************************************************************)
EXTENDS QueryEngine
Universe == INSTANCE MCFormulas

x    == encoded_token(HVAR_ID_MIN + 1, 1)
y    == encoded_token(HVAR_ID_MIN + 2, 1)
any1 == encoded_token(ANON_HVAR_ID_MIN, 1)
any2 == encoded_token(ANON_HVAR_ID_MIN + 1, 1)
rng1 == encoded_token(RANGE_ID_MIN, 1)
rng2 == encoded_token(RANGE_ID_MIN + 1, 1)

MCNumValue    == 170 :> 1 @@ 171 :> 5
MCRangeBounds == 129 :> <<0, 9>> @@ 130 :> <<3, 9>>

\* Every index of up to three formulas, and the whole universe.
MCIndexes == Universe!IndexesUpTo(3) \cup {Universe!FormulaUniverse}

\* The last two have an element below the variable x.
MCQueries ==
  LET f == Universe!f
      g == Universe!g
  IN  { <<Universe!a>>, <<f, g, Universe!a, Universe!a>>, <<x>>, <<rng1>>, <<g, x>>, <<g, rng2>>, <<f, x, x>>, <<f, x, y>>,
        <<f, any1, any2>>, <<f, rng1, rng2>>, <<f, x, g, x>>, <<f, g, x, x>>, <<f, x, rng1>>,
        <<g, x, Universe!a>>, <<f, x, Universe!a, y>> }

\* One hit per formula, or two for the formulas of more than two tokens.
MCHitCounts ==
  { [z \in Universe!FormulaUniverse |-> IF Len(z) > 2 THEN 2 ELSE 1] }

MCOptions == { [includeHits |-> TRUE, includeMwsIds |-> TRUE],
               [includeHits |-> FALSE, includeMwsIds |-> TRUE] }

Args(o, s, m) == [offset |-> o, size |-> s, maxTotal |-> m]

\* Pages before, across and after the end of the hits, an empty page, a limit
\* that cuts a page, a limit below the offset and no limit.
MCArguments == { Args(0, 30, 60), Args(1, 2, 60), Args(1, 3, 3), Args(3, 2, 2), Args(2, 0, 60),
                 Args(0, 1, 1), Args(0, 2, 0) }

=============================================================================

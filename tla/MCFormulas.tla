----------------------------- MODULE MCFormulas -----------------------------
(***************************************************************************)
(* A small universe of encoded formulas shared by the model-checking       *)
(* modules: constants a, b, the numbers one and five, a unary g, a binary  *)
(* f, and formulas nested up to depth three.  Ids 300 and 513 make the     *)
(* byte order of VectorMap differ from the numeric order of the ids.       *)
(***************************************************************************)
EXTENDS IndexTrie

a    == encoded_token(513, 0)
b    == encoded_token(300, 0)
one  == encoded_token(170, 0)
five == encoded_token(171, 0)
g    == encoded_token(180, 1)
f    == encoded_token(181, 2)

FormulaUniverse ==
  { <<a>>, <<one>>, <<g, a>>, <<g, five>>, <<f, a, a>>, <<f, a, b>>,
    <<f, one, five>>, <<f, g, a, g, a>>, <<f, g, a, a>> }

\* Every non-empty index over the universe with at most n formulas.
IndexesUpTo(n) == { S \in SUBSET FormulaUniverse : S # {} /\ Cardinality(S) <= n }
=============================================================================

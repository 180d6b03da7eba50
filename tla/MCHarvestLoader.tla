-------------------------- MODULE MCHarvestLoader --------------------------
EXTENDS HarvestDirectory
CONSTANTS x, d1, d2

\* With ENC_TOK_MAX_ARITY = 1 a token with two children cannot be encoded, and
\* its children still are.
MCExpressions == { Subexpressions(t) : t \in Trees }

MCFormulas == UNION { ToSet(e) : e \in MCExpressions } \ {Unencodable}

\* Directory <<1>> has a file that is no harvest, a harvest in a subdirectory's
\* subdirectory (<<1, 2, 2>>) and one in the second subdirectory (<<1, 3>>), with
\* a hidden directory and an entry of another type; directories <<4>> and <<5>>
\* each hold a harvest, <<4>> also one in a subdirectory.
Entry(n, kind, isHarvest) == [name |-> n, type |-> kind, harvest |-> isHarvest]

DeepTree ==
  (<<1>>       :> {Entry(1, "DT_REG", FALSE), Entry(2, "DT_DIR", FALSE), Entry(3, "DT_DIR", FALSE),
                   Entry(4, "hidden", TRUE)}) @@
  (<<1, 2>>    :> {Entry(2, "DT_DIR", FALSE), Entry(3, "other", TRUE)}) @@
  (<<1, 2, 2>> :> {Entry(1, "DT_REG", TRUE)}) @@
  (<<1, 3>>    :> {Entry(1, "DT_REG", TRUE)}) @@
  (<<1, 4>>    :> {Entry(1, "DT_REG", TRUE)})

TwoTrees ==
  (<<4>>    :> {Entry(1, "DT_DIR", FALSE), Entry(2, "DT_REG", TRUE)}) @@
  (<<4, 1>> :> {Entry(1, "DT_REG", TRUE)}) @@
  (<<5>>    :> {Entry(1, "DT_REG", TRUE)})

MCConfigs ==
  { [paths |-> <<<<1>>>>, recursive |-> TRUE, tree |-> DeepTree],
    [paths |-> <<<<4>>, <<5>>>>, recursive |-> FALSE, tree |-> TwoTrees] }

\* The ids are compared for equality only.
MCSymmetry == Permutations({d1, d2})
=============================================================================

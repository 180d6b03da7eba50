----------------------------- MODULE CmmlTokens -----------------------------
(***************************************************************************)
(* Content MathML terms.  A CmmlToken tree is the sequence of its tokens   *)
(* in document order, each with its depth below the root, which has depth  *)
(* 1.  The parsers only ever add below the latest token of a depth, so a   *)
(* current token is given by that depth, and nullptr by 0.  A tag stands   *)
(* for tag and text: for the meaning of the token.                         *)
(***************************************************************************)
EXTENDS Integers, Sequences, FiniteSets, SequencesExt

\* A token has the name of its element and, of its attributes, the xref.
newToken(name, attribute, level) == [tag |-> name, xref |-> attribute, depth |-> level]

\* newChildNode of the current token, or newRoot where there is none.
newChildNode(tree, current, name, attribute) ==
  Append(IF current = 0 THEN <<>> ELSE tree, newToken(name, attribute, current + 1))

\* The numbers of S in increasing order.
InOrder(S) == [n \in 1..Cardinality(S) |-> CHOOSE i \in S : Cardinality({ j \in S : j <= i }) = n]

\* The last token of the subtree of token i.
SubtreeEnd(tree, i) ==
  CHOOSE j \in i..Len(tree) :
    /\ \A k \in (i+1)..j : tree[k].depth > tree[i].depth
    /\ j < Len(tree) => tree[j+1].depth <= tree[i].depth

\* The positions of the child nodes of token i, in their order.
getChildNodes(tree, i) ==
  InOrder({ k \in (i+1)..SubtreeEnd(tree, i) : tree[k].depth = tree[i].depth + 1 })

getArity(tree, i) ==
  Cardinality({ k \in (i+1)..SubtreeEnd(tree, i) : tree[k].depth = tree[i].depth + 1 })

\* The number of tokens of the subtree of token i.
getExprSize(tree, i) == SubtreeEnd(tree, i) - i + 1

\* Levels below the root.
getExprDepth(tree) == Max({ tree[k].depth : k \in DOMAIN tree }) - 1

\* The place of token i below the root: a child number for each level.
getXpathRelative(tree, i) ==
  LET ancestors == InOrder({ k \in 2..i : SubtreeEnd(tree, k) >= i })
      parent(k) == Max({ p \in 1..(k-1) : tree[p].depth < tree[k].depth })
      number(k) == CHOOSE n \in 1..Len(tree) : n \in DOMAIN getChildNodes(tree, parent(k))
                                               /\ getChildNodes(tree, parent(k))[n] = k
  IN  [n \in DOMAIN ancestors |-> number(ancestors[n])]

\* HarvestEncoder::encode of the subtree of token i: its tokens, each with its
\* arity, in document order, which is the order of its stack; the meaning
\* dictionary gives different meanings different ids.  A term with a token of
\* more children than maxArity has no encoding.
HasEncoding(tree, i, maxArity) == \A k \in i..SubtreeEnd(tree, i) : getArity(tree, k) <= maxArity

encodeToken(tree, i) ==
  [k \in 1..getExprSize(tree, i) |-> <<tree[i+k-1].tag, getArity(tree, i+k-1)>>]
=============================================================================

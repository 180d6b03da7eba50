----------------------------- MODULE IndexTrie -----------------------------
(***************************************************************************)
(* The formula index as a value.  An encoded formula is the sequence of    *)
(* encoded tokens [id, arity] of its depth-first traversal; the index is a *)
(* trie over these sequences.  A trie node is identified by the sequence   *)
(* of tokens on the path from the root, the root being <<>> and a leaf     *)
(* being a whole formula, so an index IS the set of its formulas.          *)
(***************************************************************************)
EXTENDS Integers, Sequences, FiniteSets, SequencesExt

(***************************************************************************)
(* Identifier ranges of encoded_token.h.                                   *)
(***************************************************************************)
HVAR_ID_MIN      == 1
ANON_HVAR_ID_MIN == 33
ANON_HVAR_ID_MAX == 64
ANON_QVAR_ID_MIN == 97
ANON_QVAR_ID_MAX == 128
VAR_ID_MAX       == 128
RANGE_ID_MIN     == 129
RANGE_ID_MAX     == 160
CONSTANT_ID_MIN  == 161

encoded_token_t == [id : Nat, arity : Nat]

encoded_token(id, arity) == [id |-> id, arity |-> arity]

encoded_token_is_var(t) == t.id <= VAR_ID_MAX

encoded_token_is_range(t) == RANGE_ID_MIN <= t.id /\ t.id <= RANGE_ID_MAX

\* The upper bounds are strict in the code: ids 64 and 128 are not anonymous.
encoded_token_is_anon_var(t) ==
  \/ ANON_HVAR_ID_MIN <= t.id /\ t.id < ANON_HVAR_ID_MAX
  \/ ANON_QVAR_ID_MIN <= t.id /\ t.id < ANON_QVAR_ID_MAX

(***************************************************************************)
(* The order of a node's children: VectorMap keeps its keys sorted by      *)
(* memcmp on the packed token, that is, by the bytes <<arity, id mod 256,  *)
(* id / 256 mod 256, id / 65536>> (little endian).                         *)
(***************************************************************************)
TokenBytes(t) == <<t.arity, t.id % 256, (t.id \div 256) % 256, t.id \div 65536>>

TokenLess(t, u) ==
  \E i \in 1..4 : /\ TokenBytes(t)[i] < TokenBytes(u)[i]
                  /\ \A j \in 1..(i-1) : TokenBytes(t)[j] = TokenBytes(u)[j]

\* The smallest token of a non-empty set: where a children iterator starts.
FirstToken(S) == CHOOSE t \in S : \A u \in S : u = t \/ TokenLess(t, u)

(***************************************************************************)
(* Accessor operations (TmpIndexAccessor and IndexAccessor alike).         *)
(***************************************************************************)
RootNode == <<>>

IsLeaf(index, node) == node \in index

ChildTokens(index, node) ==
  { f[Len(node) + 1] : f \in { g \in index : IsStrictPrefix(node, g) } }

HasChild(index, node, token) == token \in ChildTokens(index, node)

(***************************************************************************)
(* Terms.  OpenSlots(s)[i] is the number of subterms still missing after   *)
(* the first i tokens of s; s is a complete term when the last token, and  *)
(* no earlier one, brings it to zero.  (IndexIterator's _arity counter.)   *)
(***************************************************************************)
OpenSlots(s) ==
  LET open[i \in 0..Len(s)] == IF i = 0 THEN 1 ELSE open[i-1] + s[i].arity - 1
  IN  open

IsTerm(s) == /\ OpenSlots(s)[Len(s)] = 0
             /\ \A i \in 0..(Len(s) - 1) : OpenSlots(s)[i] > 0

(***************************************************************************)
(* The complete terms that start at a node of the index, and their order   *)
(* of enumeration: depth first, children in token order.                   *)
(***************************************************************************)
TermsFrom(index, node) ==
  LET below == { f \in index : IsStrictPrefix(node, f) }
      cuts  == UNION { { SubSeq(f, Len(node) + 1, k) : k \in (Len(node) + 1)..Len(f) }
                       : f \in below }
  IN  { s \in cuts : IsTerm(s) }

TermLess(s, t) ==
  \E i \in DOMAIN s \cap DOMAIN t :
      /\ TokenLess(s[i], t[i])
      /\ \A j \in 1..(i-1) : s[j] = t[j]

FirstTerm(S) == CHOOSE s \in S : \A t \in S : t = s \/ TermLess(s, t)

=============================================================================

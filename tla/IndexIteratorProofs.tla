------------------------ MODULE IndexIteratorProofs ------------------------
(***************************************************************************)
(* IndexIterator::next(), for every index: between two calls of set() it   *)
(* returns the terms below the root in the order of the index, none of     *)
(* them skipped and none repeated.  The invariant says where the iterators *)
(* on the stack are, how many subterms the path lacks, and which terms are *)
(* still to come.                                                          *)
(*                                                                         *)
(* On top of it the export of the index: the file that the callbacks of    *)
(* this walk write holds the nodes that the iterator has left, dfsStack    *)
(* the places of the children written so far of the nodes it is below, and *)
(* a file that is saved reads back as the index.                           *)
(***************************************************************************)
EXTENDS Memsector, IndexTrieProofs

\* An iterator over the children of a node.
Entries == [node : Paths, tok : encoded_token_t]

\* The node is the one that the first n tokens of p lead to from r.
OnPath(node, r, p, n) ==
  /\ Len(node) = Len(r) + n
  /\ \A k \in 1..Len(r) : node[k] = r[k]
  /\ \A k \in 1..n : node[Len(r) + k] = p[k]

\* The stack holds the iterators that were taken along the path p.
Follows(st, r, p) ==
  /\ Len(st) = Len(p)
  /\ \A i \in 1..Len(p) : st[i].tok = p[i] /\ OnPath(st[i].node, r, p, i - 1)

\* What is left of a term after the path p.
Incomplete(p, open) ==
  /\ open = OpenSlots(p)[Len(p)]
  /\ \A k \in 0..(Len(p) - 1) : OpenSlots(p)[k] > 0

\* The terms at or after the node of p, and those after all that is below it.
Ahead(p, t)  == Extends(t, p) \/ TermLess(p, t)
Beyond(p, t) == TermLess(p, t)

\* Has the term t not been returned yet?
ToCome(l, t) == l = <<>> \/ TermLess(l, t)

\* The iterators of the stack lie on one path below the root, of nodes of the index.
StackInv ==
  /\ index \in Indexes /\ root \in Paths /\ root \notin index
  /\ stack \in Seq(Entries) /\ Path \in Paths
  /\ Follows(stack, root, Path) /\ IsNode(index, root \o Path)

\* _arity is the number of subterms that the path lacks; it lacked some before
\* every token.
ArityInv == Incomplete(Path, arity)

\* What is still to be returned: while the iterator looks for an unexplored branch,
\* what is beyond the path; while it completes an expression, what is at or beyond it.
OrderInv ==
  /\ pc \in {"idle", "retreat", "descend", "end"}
  /\ pc = "idle" => last = Path /\ (Path = <<>> \/ IsTerm(Path))
  /\ pc = "end" => last = <<>> /\ Path = <<>>
  /\ pc \in {"retreat", "descend"} => Path # <<>>
  /\ pc = "retreat" => last # <<>> /\ \A t \in TermsFrom(index, root) : ToCome(last, t) <=> Beyond(Path, t)
  /\ pc = "descend" => \A t \in TermsFrom(index, root) : ToCome(last, t) <=> Ahead(Path, t)

\* The inductive invariant.
IterInv == StackInv /\ ArityInv /\ OrderInv

-----------------------------------------------------------------------------
\* An index is a finite set of terms.
LEMMA IndexFacts ==
  ASSUME NEW ix \in Indexes
  PROVE  IsFiniteSet(ix) /\ ix \in SUBSET Paths /\ \A f \in ix : IsTerm(f)
  BY IndexesAssumption DEF Paths

\* The children of a node have tokens, finitely many of them.
LEMMA ChildTokensFacts ==
  ASSUME NEW ix \in Indexes, NEW v \in Paths
  PROVE  ChildTokens(ix, v) \in SUBSET encoded_token_t /\ IsFiniteSet(ChildTokens(ix, v))
  BY IndexFacts, ChildTokensOf

\* A path one token longer.
LEMMA Longer ==
  ASSUME NEW q \in Paths, NEW tok \in encoded_token_t
  PROVE  /\ q \o <<tok>> \in Paths /\ Len(q \o <<tok>>) = Len(q) + 1
         /\ \A k \in 1..Len(q) : (q \o <<tok>>)[k] = q[k]
         /\ (q \o <<tok>>)[Len(q) + 1] = tok
<1>1. <<tok>> \in Paths /\ Len(<<tok>>) = 1 /\ <<tok>>[1] = tok
  BY DEF Paths
<1> QED
  BY <1>1, ConcatFacts

\* A path that is not empty has a last token.
LEMMA SplitLast ==
  ASSUME NEW p \in Paths, p # <<>>
  PROVE  \E q \in Paths, tok \in encoded_token_t : p = q \o <<tok>>
<1>1. Len(p) \in Nat /\ Len(p) # 0
  BY PathFacts DEF Paths
<1>2. PICK n \in Nat : Len(p) = n + 1
  <2>1. Len(p) - 1 \in Nat /\ Len(p) = (Len(p) - 1) + 1
    BY <1>1
  <2> QED
    BY <2>1
<1>3. PICK q : q = SubSeq(p, 0 + 1, n)
  OBVIOUS
<1>4. q \in Paths /\ Len(q) = n /\ \A j \in 1..n : q[j] = p[j]
  <2>1. /\ SubSeq(p, 0 + 1, n) \in Paths /\ Len(SubSeq(p, 0 + 1, n)) = n - 0
        /\ \A j \in 1..(n - 0) : SubSeq(p, 0 + 1, n)[j] = p[0 + j]
    BY <1>2, SubSeqFacts DEF Paths
  <2> QED
    BY <1>3, <2>1
<1>5. PICK tok \in encoded_token_t : tok = p[n + 1]
  BY <1>2, PathFacts DEF Paths
<1>6. PICK y : y = q \o <<tok>>
  OBVIOUS
<1>7. y \in Paths /\ Len(y) = n + 1 /\ y[n + 1] = tok /\ \A k \in 1..n : y[k] = q[k]
  BY <1>4, <1>6, Longer
<1>8. \A k \in 1..Len(y) : y[k] = p[k]
  BY <1>4, <1>5, <1>7
<1>9. y = p
  BY <1>2, <1>7, <1>8, SeqEqual DEF Paths
<1> QED
  BY <1>4, <1>6, <1>9

\* The order of a term t relative to a path whose last token is tok.
LEMMA OrderAtLast ==
  ASSUME NEW q \in Paths, NEW tok \in encoded_token_t, NEW t \in Paths
  PROVE  /\ Extends(t, q \o <<tok>>) <=> Extends(t, q) /\ Len(t) > Len(q) /\ t[Len(q) + 1] = tok
         /\ TermLess(q \o <<tok>>, t)
              <=> \/ TermLess(q, t)
                  \/ Extends(t, q) /\ Len(t) > Len(q) /\ TokenLess(tok, t[Len(q) + 1])
<1>1. PICK p : p = q \o <<tok>>
  OBVIOUS
<1>2. PICK n \in Nat : n = Len(q)
  BY PathFacts DEF Paths
<1>3. /\ p \in Paths /\ Len(p) = n + 1 /\ (\A k \in 1..n : p[k] = q[k])
      /\ Len(t) \in Nat /\ DOMAIN t = 1..Len(t) /\ DOMAIN p = 1..(n + 1) /\ DOMAIN q = 1..n
  BY <1>1, <1>2, Longer, PathFacts DEF Paths
<1>t. n + 1 \in 1..(n + 1) /\ p[n + 1] = tok
  BY <1>1, <1>2, Longer
<1>4. Extends(t, p) <=> Extends(t, q) /\ Len(t) > n /\ t[n + 1] = tok
  <2>1. \A k \in 1..(n + 1) : k \in 1..n \/ k = n + 1
    OBVIOUS
  <2>2. ASSUME Extends(t, p) PROVE Extends(t, q) /\ Len(t) > n /\ t[n + 1] = tok
    <3>1. n + 1 <= Len(t) /\ \A k \in 1..(n + 1) : t[k] = p[k]
      BY <1>3, <2>2 DEF Extends
    <3>2. \A k \in 1..n : k \in 1..(n + 1)
      OBVIOUS
    <3>3. \A k \in 1..n : t[k] = q[k]
      BY <1>3, <3>1, <3>2
    <3> QED
      BY <1>2, <1>3, <1>t, <3>1, <3>3 DEF Extends
  <2>3. ASSUME Extends(t, q), Len(t) > n, t[n + 1] = tok PROVE Extends(t, p)
    <3>1. \A k \in 1..n : t[k] = q[k]
      BY <1>2, <2>3 DEF Extends
    <3>2. \A k \in 1..(n + 1) : t[k] = p[k]
      BY <1>3, <1>t, <2>1, <2>3, <3>1
    <3> QED
      BY <1>3, <2>3, <3>2 DEF Extends
  <2> QED
    BY <2>2, <2>3
<1>5. ASSUME TermLess(p, t)
      PROVE  TermLess(q, t) \/ (Extends(t, q) /\ Len(t) > n /\ TokenLess(tok, t[n + 1]))
  <2>1. PICK i \in DOMAIN p \cap DOMAIN t : TokenLess(p[i], t[i]) /\ \A j \in 1..(i-1) : p[j] = t[j]
    BY <1>5 DEF TermLess
  <2>2. CASE i \in 1..n
    <3>1. \A j \in 1..(i-1) : j \in 1..n
      BY <2>2
    <3> QED
      BY <1>3, <2>1, <2>2, <3>1 DEF TermLess
  <2>3. CASE i = n + 1
    <3>1. /\ TokenLess(tok, t[n + 1]) /\ n + 1 \in 1..Len(t) /\ (n + 1) - 1 = n
          /\ \A j \in 1..n : p[j] = t[j]
      BY <1>3, <1>t, <2>1, <2>3
    <3>2. Extends(t, q)
      BY <1>2, <1>3, <3>1 DEF Extends
    <3> QED
      BY <1>3, <3>1, <3>2
  <2> QED
    BY <1>3, <2>1, <2>2, <2>3
<1>6. ASSUME TermLess(q, t) PROVE TermLess(p, t)
  <2>1. Extends(p, q)
    BY <1>2, <1>3 DEF Extends
  <2> QED
    BY <1>3, <1>6, <2>1, LessThroughNode
<1>7. ASSUME Extends(t, q), Len(t) > n, TokenLess(tok, t[n + 1]) PROVE TermLess(p, t)
  <2>1. n + 1 \in DOMAIN p \cap DOMAIN t /\ (n + 1) - 1 = n
    BY <1>3, <1>7
  <2>2. \A j \in 1..n : p[j] = t[j]
    BY <1>2, <1>3, <1>7 DEF Extends
  <2>3. TokenLess(p[n + 1], t[n + 1]) /\ \A j \in 1..((n + 1) - 1) : p[j] = t[j]
    BY <1>3, <1>t, <1>7, <2>1, <2>2
  <2> QED
    BY <2>1, <2>3 DEF TermLess
<1> QED
  BY <1>1, <1>2, <1>4, <1>5, <1>6, <1>7

\* A term below the root that goes through a node goes on to a child of it.
LEMMA TermGoesOn ==
  ASSUME NEW ix \in Indexes, NEW r \in Paths, NEW q \in Paths, NEW t \in TermsFrom(ix, r)
  PROVE  /\ t \in Paths /\ IsTerm(t)
         /\ Extends(t, q) /\ Len(t) > Len(q) => t[Len(q) + 1] \in ChildTokens(ix, r \o q)
<1>1. ix \in SUBSET Paths /\ t \in Paths /\ IsTerm(t) /\ IsNode(ix, r \o t)
  BY IndexFacts, TermsFromFacts
<1>2. PICK f \in ix : Extends(f, r \o t)
  BY <1>1 DEF IsNode
<1>3. Extends(f, r) /\ Reads(f, Len(r), t, Len(t)) /\ f \in Paths
  BY <1>1, <1>2, ExtendsConcat
<1>4. ASSUME Extends(t, q), Len(t) > Len(q) PROVE t[Len(q) + 1] \in ChildTokens(ix, r \o q)
  <2>1. PICK n \in Nat, m \in Nat, l \in Nat : n = Len(q) /\ m = Len(t) /\ l = Len(r)
    BY <1>1, PathFacts DEF Paths
  <2>2. Len(f) \in Nat /\ n < m /\ l + m <= Len(f) /\ \A k \in 1..m : f[l + k] = t[k]
    BY <1>1, <1>3, <1>4, <2>1, PathFacts DEF Reads, Paths
  <2>3. PICK v : v = r \o q
    OBVIOUS
  <2>4. v \in Paths /\ Len(v) = l + n
    BY <2>1, <2>3, ConcatFacts
  <2>5. Reads(f, Len(r), q, Len(q))
    BY <1>4, <2>1, <2>2 DEF Reads, Extends
  <2>6. Extends(f, v)
    BY <1>3, <2>3, <2>5, ExtendsConcat
  <2>7. IsStrictPrefix(v, f)
    <3>1. Len(v) # Len(f)
      BY <2>1, <2>2, <2>4
    <3> QED
      BY <1>3, <2>4, <2>6, <3>1, PrefixIsExtends DEF IsStrictPrefix
  <2>8. f[Len(v) + 1] = t[Len(q) + 1]
    <3>1. n + 1 \in 1..m /\ (l + n) + 1 = l + (n + 1)
      BY <2>2
    <3> QED
      BY <2>1, <2>2, <2>4, <3>1
  <2> QED
    BY <2>3, <2>7, <2>8 DEF ChildTokens
<1> QED
  BY <1>1, <1>4

-----------------------------------------------------------------------------
\* The node of an iterator is where the path leads to.
LEMMA OnPathIs ==
  ASSUME NEW r \in Paths, NEW q \in Paths, NEW p, NEW node \in Paths,
         \A k \in 1..Len(q) : p[k] = q[k]
  PROVE  OnPath(node, r, p, Len(q)) <=> node = r \o q
<1>1. PICK v : v = r \o q
  OBVIOUS
<1>2. PICK n \in Nat, l \in Nat : n = Len(q) /\ l = Len(r)
  BY PathFacts DEF Paths
<1>3. v \in Paths /\ Len(v) = l + n /\ (\A k \in 1..l : v[k] = r[k]) /\ \A k \in 1..n : v[l + k] = q[k]
  BY <1>1, <1>2, ConcatFacts
<1>4. OnPath(v, r, p, n)
  BY <1>2, <1>3 DEF OnPath
<1>5. ASSUME OnPath(node, r, p, n) PROVE node = v
  <2>1. /\ Len(node) = l + n /\ (\A k \in 1..l : node[k] = r[k])
        /\ \A k \in 1..n : node[l + k] = q[k]
    BY <1>2, <1>5 DEF OnPath
  <2>2. ASSUME NEW k \in 1..(l + n) PROVE node[k] = v[k]
    <3>1. CASE k \in 1..l
      BY <1>3, <2>1, <3>1
    <3>2. CASE k \notin 1..l
      <4>1. k - l \in 1..n /\ l + (k - l) = k
        BY <3>2
      <4> QED
        BY <1>3, <2>1, <4>1
    <3> QED
      BY <3>1, <3>2
  <2> QED
    BY <1>3, <2>1, <2>2, SeqEqual DEF Paths
<1> QED
  BY <1>1, <1>2, <1>4, <1>5

\* The tokens of the stack are the path it follows.
LEMMA PathIs ==
  ASSUME NEW st \in Seq(Entries), NEW p \in Paths, NEW r, Follows(st, r, p)
  PROVE  [i \in DOMAIN st |-> st[i].tok] = p
<1>1. DOMAIN st = 1..Len(p) /\ DOMAIN p = 1..Len(p) /\ \A i \in 1..Len(p) : st[i].tok = p[i]
  BY PathFacts, LenProperties DEF Paths, Follows
<1>2. p = [i \in 1..Len(p) |-> p[i]]
  BY <1>1 DEF Paths
<1> QED
  BY <1>1, <1>2

\* Pushing an iterator.
LEMMA FollowsPush ==
  ASSUME NEW st \in Seq(Entries), NEW r \in Paths, NEW q \in Paths, Follows(st, r, q),
         NEW tok \in encoded_token_t, NEW e, e = [node |-> r \o q, tok |-> tok]
  PROVE  Append(st, e) \in Seq(Entries) /\ Follows(Append(st, e), r, q \o <<tok>>)
<1>1. PICK v : v = r \o q
  OBVIOUS
<1>2. v \in Paths
  BY <1>1, ConcatFacts
<1>3. e \in Entries /\ e.node = v /\ e.tok = tok
  BY <1>1, <1>2 DEF Entries
<1>4. PICK n \in Nat : n = Len(q)
  BY PathFacts DEF Paths
<1>5. PICK p : p = q \o <<tok>>
  OBVIOUS
<1>6. p \in Paths /\ Len(p) = n + 1 /\ (\A k \in 1..n : p[k] = q[k]) /\ p[n + 1] = tok
  BY <1>4, <1>5, Longer
<1>7. PICK u : u = Append(st, e)
  OBVIOUS
<1>8. /\ u \in Seq(Entries) /\ Len(u) = n + 1 /\ (\A k \in 1..n : u[k] = st[k]) /\ u[n + 1] = e
  BY <1>3, <1>4, <1>7, AppendProperties DEF Follows
<1>9. ASSUME NEW i \in 1..(n + 1) PROVE u[i].tok = p[i] /\ OnPath(u[i].node, r, p, i - 1)
  <2>1. CASE i \in 1..n
    <3>1. u[i] = st[i] /\ st[i].tok = q[i] /\ p[i] = q[i] /\ OnPath(st[i].node, r, q, i - 1)
      BY <1>4, <1>6, <1>8, <2>1 DEF Follows
    <3>2. \A k \in 1..(i - 1) : k \in 1..n
      BY <2>1
    <3>3. OnPath(st[i].node, r, p, i - 1)
      BY <1>6, <3>1, <3>2 DEF OnPath
    <3> QED
      BY <3>1, <3>3
  <2>2. CASE i = n + 1
    <3>1. i - 1 = n
      BY <2>2
    <3>2. OnPath(v, r, p, n)
      BY <1>1, <1>2, <1>4, <1>6, OnPathIs
    <3> QED
      BY <1>3, <1>6, <1>8, <2>2, <3>1, <3>2
  <2> QED
    BY <2>1, <2>2
<1> QED
  BY <1>5, <1>6, <1>7, <1>8, <1>9 DEF Follows

\* The top of the stack, the stack without it, and the stack with another one.
LEMMA FollowsPop ==
  ASSUME NEW st \in Seq(Entries), NEW r \in Paths, NEW q \in Paths, NEW tok \in encoded_token_t,
         Follows(st, r, q \o <<tok>>)
  PROVE  /\ Last(st) = [node |-> r \o q, tok |-> tok] /\ Len(st) = Len(q) + 1
         /\ Front(st) \in Seq(Entries) /\ Follows(Front(st), r, q)
<1>1. PICK n \in Nat : n = Len(q)
  BY PathFacts DEF Paths
<1>2. PICK p : p = q \o <<tok>>
  OBVIOUS
<1>3. p \in Paths /\ Len(p) = n + 1 /\ (\A k \in 1..n : p[k] = q[k]) /\ p[n + 1] = tok
  BY <1>1, <1>2, Longer
<1>4. Len(st) = n + 1 /\ \A i \in 1..(n + 1) : st[i].tok = p[i] /\ OnPath(st[i].node, r, p, i - 1)
  BY <1>2, <1>3 DEF Follows
<1>5. PICK v : v = r \o q
  OBVIOUS
<1>6. v \in Paths
  BY <1>5, ConcatFacts
<1>7. st[n + 1] = [node |-> v, tok |-> tok]
  <2>1. n + 1 \in 1..(n + 1) /\ (n + 1) - 1 = n
    OBVIOUS
  <2>2. st[n + 1] \in Entries /\ st[n + 1].tok = tok /\ OnPath(st[n + 1].node, r, p, n)
    BY <1>3, <1>4, <2>1, ElementOfSeq
  <2>3. st[n + 1].node \in Paths
    BY <2>2 DEF Entries
  <2>4. st[n + 1].node = v
    <3>1. PICK w \in Paths : w = st[n + 1].node
      BY <2>3
    <3>2. OnPath(w, r, p, n) <=> w = v
      BY <1>1, <1>3, <1>5, OnPathIs
    <3> QED
      BY <2>2, <3>1, <3>2
  <2> QED
    BY <2>2, <2>4 DEF Entries
<1>8. PICK u : u = SubSeq(st, 1, n)
  OBVIOUS
<1>9. u \in Seq(Entries) /\ Len(u) = n /\ \A i \in 1..n : u[i] = st[i]
  <2>1. 1 \in Int /\ n \in Int /\ \A i \in 1..n : st[i] \in Entries
    BY <1>4, ElementOfSeq
  <2>2. /\ SubSeq(st, 1, n) \in Seq(Entries)
        /\ Len(SubSeq(st, 1, n)) = IF 1 <= n THEN n - 1 + 1 ELSE 0
        /\ \A i \in 1..(n - 1 + 1) : SubSeq(st, 1, n)[i] = st[1 + i - 1]
    BY <2>1, SubSeqProperties
  <2>3. n - 1 + 1 = n /\ \A i \in 1..n : 1 + i - 1 = i
    OBVIOUS
  <2> QED
    BY <1>8, <2>2, <2>3
<1>10. ASSUME NEW i \in 1..n PROVE u[i].tok = q[i] /\ OnPath(u[i].node, r, q, i - 1)
  <2>1. /\ i \in 1..(n + 1) /\ u[i] = st[i] /\ p[i] = q[i]
        /\ \A k \in 1..(i - 1) : k \in 1..n
    BY <1>3, <1>9
  <2>2. st[i].tok = p[i] /\ OnPath(st[i].node, r, p, i - 1)
    BY <1>4, <2>1
  <2>3. OnPath(st[i].node, r, q, i - 1)
    BY <1>3, <2>1, <2>2 DEF OnPath
  <2> QED
    BY <2>1, <2>2, <2>3
<1>11. Last(st) = st[n + 1] /\ Front(st) = u
  <2>1. Len(st) - 1 = n
    BY <1>4
  <2> QED
    BY <1>4, <1>8, <2>1 DEF Last, Front
<1> QED
  BY <1>1, <1>4, <1>5, <1>7, <1>9, <1>10, <1>11 DEF Follows

\* Moving the top iterator to another child.
LEMMA FollowsAdvance ==
  ASSUME NEW st \in Seq(Entries), NEW r \in Paths, NEW q \in Paths, NEW tok \in encoded_token_t,
         Follows(st, r, q \o <<tok>>), NEW u \in encoded_token_t,
         NEW e, e = [node |-> r \o q, tok |-> u]
  PROVE  /\ [st EXCEPT ![Len(st)] = e] \in Seq(Entries)
         /\ Follows([st EXCEPT ![Len(st)] = e], r, q \o <<u>>)
<1>1. PICK n \in Nat : n = Len(q)
  BY PathFacts DEF Paths
<1>2. PICK p : p = q \o <<tok>>
  OBVIOUS
<1>3. p \in Paths /\ Len(p) = n + 1 /\ (\A k \in 1..n : p[k] = q[k]) /\ p[n + 1] = tok
  BY <1>1, <1>2, Longer
<1>4. Len(st) = n + 1 /\ \A i \in 1..(n + 1) : st[i].tok = p[i] /\ OnPath(st[i].node, r, p, i - 1)
  BY <1>2, <1>3 DEF Follows
<1>5. PICK v : v = r \o q
  OBVIOUS
<1>6. v \in Paths
  BY <1>5, ConcatFacts
<1>7. e \in Entries /\ e.node = v /\ e.tok = u
  BY <1>5, <1>6 DEF Entries
<1>8. PICK p2 : p2 = q \o <<u>>
  OBVIOUS
<1>9. p2 \in Paths /\ Len(p2) = n + 1 /\ (\A k \in 1..n : p2[k] = q[k]) /\ p2[n + 1] = u
  BY <1>1, <1>8, Longer
<1>10. PICK w : w = [st EXCEPT ![n + 1] = e]
  OBVIOUS
<1>11. /\ w \in Seq(Entries) /\ Len(w) = n + 1
       /\ \A j \in 1..(n + 1) : w[j] = IF j = n + 1 THEN e ELSE st[j]
  <2>1. n + 1 \in 1..Len(st)
    BY <1>4
  <2> QED
    BY <1>4, <1>7, <1>10, <2>1, ExceptSeq
<1>12. ASSUME NEW i \in 1..(n + 1) PROVE w[i].tok = p2[i] /\ OnPath(w[i].node, r, p2, i - 1)
  <2>1. CASE i \in 1..n
    <3>1. i # n + 1 /\ \A k \in 1..(i - 1) : k \in 1..n
      BY <2>1
    <3>2. w[i] = st[i] /\ st[i].tok = p[i] /\ p2[i] = p[i] /\ OnPath(st[i].node, r, p, i - 1)
      BY <1>3, <1>4, <1>9, <1>11, <2>1, <3>1
    <3>3. OnPath(st[i].node, r, p2, i - 1)
      BY <1>3, <1>9, <3>1, <3>2 DEF OnPath
    <3> QED
      BY <3>2, <3>3
  <2>2. CASE i = n + 1
    <3>1. i - 1 = n /\ w[i] = e
      <4>1. n + 1 \in 1..(n + 1) /\ (n + 1) - 1 = n
        OBVIOUS
      <4> QED
        BY <1>11, <2>2, <4>1
    <3>2. OnPath(v, r, p2, n)
      BY <1>1, <1>5, <1>6, <1>9, OnPathIs
    <3> QED
      BY <1>7, <1>9, <2>2, <3>1, <3>2
  <2> QED
    BY <2>1, <2>2
<1> QED
  BY <1>4, <1>8, <1>9, <1>10, <1>11, <1>12 DEF Follows

-----------------------------------------------------------------------------
\* The counter _arity when the path grows by a token.
LEMMA CountLast ==
  ASSUME NEW q \in Paths, NEW tok \in encoded_token_t
  PROVE  /\ OpenSlots(q)[Len(q)] \in Int /\ tok.arity \in Nat
         /\ OpenSlots(q \o <<tok>>)[Len(q) + 1] = OpenSlots(q)[Len(q)] + tok.arity - 1
         /\ \A k \in 0..Len(q) : OpenSlots(q \o <<tok>>)[k] = OpenSlots(q)[k]
<1>1. PICK p : p = q \o <<tok>>
  OBVIOUS
<1>2. PICK n \in Nat : n = Len(q)
  BY PathFacts DEF Paths
<1>3. p \in Paths /\ Len(p) = n + 1 /\ (\A k \in 1..n : p[k] = q[k]) /\ p[n + 1] = tok
  BY <1>1, <1>2, Longer
<1>4. \A k \in 0..n : OpenSlots(p)[k] = OpenSlots(q)[k]
  <2>1. Extends(p, q)
    BY <1>2, <1>3 DEF Extends
  <2> QED
    BY <1>2, <1>3, <2>1, OpenPrefix DEF Paths
<1>5. OpenSlots(p)[n + 1] = OpenSlots(p)[n] + tok.arity - 1
  <2>1. n + 1 \in 1..Len(p) /\ (n + 1) - 1 = n
    BY <1>3
  <2>2. OpenSlots(p)[n + 1] = OpenSlots(p)[(n + 1) - 1] + p[n + 1].arity - 1
    BY <1>3, <2>1, OpenSlotsDef DEF Paths
  <2> QED
    BY <1>3, <2>1, <2>2
<1>6. n \in 0..n /\ OpenSlots(q)[n] \in Int
  BY <1>2, PathFacts DEF Paths
<1> QED
  BY <1>1, <1>2, <1>4, <1>5, <1>6 DEF encoded_token_t

\* What was missing before the last token.
LEMMA IncompleteLast ==
  ASSUME NEW q \in Paths, NEW tok \in encoded_token_t, NEW open, Incomplete(q \o <<tok>>, open)
  PROVE  /\ open \in Int /\ tok.arity \in Nat /\ open - (tok.arity - 1) > 0 /\ open >= 0
         /\ Incomplete(q, open - (tok.arity - 1))
<1>1. PICK p : p = q \o <<tok>>
  OBVIOUS
<1>2. PICK n \in Nat : n = Len(q)
  BY PathFacts DEF Paths
<1>3. PICK m \in Int, a \in Nat : m = OpenSlots(q)[n] /\ a = tok.arity
  BY <1>2, CountLast
<1>4. p \in Paths /\ Len(p) = n + 1
  BY <1>1, <1>2, Longer
<1>5. OpenSlots(p)[n + 1] = m + a - 1 /\ \A k \in 0..n : OpenSlots(p)[k] = OpenSlots(q)[k]
  BY <1>1, <1>2, <1>3, CountLast
<1>6. open = m + a - 1 /\ \A k \in 0..n : OpenSlots(p)[k] > 0
  <2>1. open = OpenSlots(p)[Len(p)] /\ \A k \in 0..(Len(p) - 1) : OpenSlots(p)[k] > 0
    BY <1>1 DEF Incomplete
  <2>2. (n + 1) - 1 = n
    OBVIOUS
  <2> QED
    BY <1>4, <1>5, <2>1, <2>2
<1>7. m > 0
  <2>1. n \in 0..n
    OBVIOUS
  <2> QED
    BY <1>3, <1>5, <1>6, <2>1
<1>8. open \in Int /\ open >= 0 /\ open - (a - 1) = m
  BY <1>6, <1>7
<1>9. \A k \in 0..(n - 1) : OpenSlots(q)[k] > 0
  <2>1. \A k \in 0..(n - 1) : k \in 0..n
    OBVIOUS
  <2> QED
    BY <1>5, <1>6, <2>1
<1> QED
  BY <1>2, <1>3, <1>7, <1>8, <1>9 DEF Incomplete

\* What is missing after one more token.
LEMMA IncompletePush ==
  ASSUME NEW q \in Paths, NEW tok \in encoded_token_t, NEW open, Incomplete(q, open), open > 0
  PROVE  Incomplete(q \o <<tok>>, open + tok.arity - 1)
<1>1. PICK p : p = q \o <<tok>>
  OBVIOUS
<1>2. PICK n \in Nat : n = Len(q)
  BY PathFacts DEF Paths
<1>3. open = OpenSlots(q)[n] /\ open \in Int /\ \A k \in 0..(n - 1) : OpenSlots(q)[k] > 0
  BY <1>2, CountLast DEF Incomplete
<1>4. p \in Paths /\ Len(p) = n + 1
  BY <1>1, <1>2, Longer
<1>5. /\ OpenSlots(p)[n + 1] = open + tok.arity - 1
      /\ \A k \in 0..n : OpenSlots(p)[k] = OpenSlots(q)[k]
  BY <1>1, <1>2, <1>3, CountLast
<1>6. \A k \in 0..n : OpenSlots(p)[k] > 0
  <2>1. \A k \in 0..n : k \in 0..(n - 1) \/ k = n
    OBVIOUS
  <2> QED
    BY <1>3, <1>5, <2>1
<1>7. (n + 1) - 1 = n
  OBVIOUS
<1> QED
  BY <1>1, <1>4, <1>5, <1>6, <1>7 DEF Incomplete

\* A node that is no leaf has a child.
LEMMA NodeHasChild ==
  ASSUME NEW ix \in Indexes, NEW v \in Paths, IsNode(ix, v), v \notin ix
  PROVE  ChildTokens(ix, v) # {}
<1>1. PICK f \in ix : Extends(f, v)
  BY DEF IsNode
<1>2. f \in Paths /\ v # f
  BY IndexFacts
<1>3. IsStrictPrefix(v, f)
  BY <1>1, <1>2, PrefixIsExtends DEF IsStrictPrefix
<1> QED
  BY <1>3 DEF ChildTokens

\* A node with subterms missing is no leaf.
LEMMA OpenIsNoLeaf ==
  ASSUME NEW ix \in Indexes, NEW r \in Paths, NEW p \in Paths, r \notin ix,
         IsNode(ix, r \o p), OpenSlots(p)[Len(p)] > 0
  PROVE  r \o p \notin ix
<1>1. PICK f \in ix : Extends(f, r \o p)
  BY DEF IsNode
<1>2. f \in Paths /\ IsTerm(f) /\ f # r /\ Extends(f, r)
  BY <1>1, IndexFacts, ExtendsConcat
<1>3. PICK l \in Nat, n \in Nat : l = Len(r) /\ n = Len(p)
  BY PathFacts DEF Paths
<1>4. Len(f) \in Nat /\ l < Len(f)
  <2>1. Len(f) \in Nat /\ l <= Len(f)
    BY <1>2, <1>3, PathFacts DEF Extends, Paths
  <2>2. Len(f) # l
    BY <1>2, <1>3, SeqEqual DEF Extends, Paths
  <2> QED
    BY <2>1, <2>2
<1>5. PICK v : v = r \o p
  OBVIOUS
<1>6. /\ v \in Paths /\ Len(v) = l + n /\ (\A k \in 1..l : v[k] = r[k])
      /\ \A k \in 1..n : v[l + k] = p[k]
  BY <1>3, <1>5, ConcatFacts
<1>7. OpenSlots(v)[l] > 0 /\ OpenSlots(v)[l] \in Int
  <2>1. OpenSlots(f)[l] > 0
    <3>1. l \in 0..(Len(f) - 1)
      BY <1>4
    <3> QED
      BY <1>2, <3>1 DEF IsTerm
  <2>2. l \in 0..Len(v)
    BY <1>6
  <2>3. OpenSlots(f)[l] = OpenSlots(v)[l]
    BY <1>1, <1>2, <1>5, <1>6, <2>2, OpenPrefix DEF Paths
  <2> QED
    BY <1>6, <2>1, <2>2, <2>3, PathFacts DEF Paths
<1>8. OpenSlots(v)[l + n] = OpenSlots(v)[l] + OpenSlots(p)[n] - 1
  <2>1. Reads(v, l, p, n)
    BY <1>3, <1>6 DEF Reads
  <2>2. n \in 0..n
    OBVIOUS
  <2> QED
    BY <1>6, <2>1, <2>2, OpenShift DEF Paths
<1>9. OpenSlots(p)[n] \in Int /\ OpenSlots(p)[n] > 0
  BY <1>3, PathFacts DEF Paths
<1>10. OpenSlots(v)[l + n] # 0
  BY <1>7, <1>8, <1>9
<1> QED
  BY <1>5, <1>6, <1>10, IndexFacts DEF IsTerm

-----------------------------------------------------------------------------
\* The iterator is set on a node that is no leaf.
LEMMA RootNodes ==
  ASSUME NEW ix \in Indexes,
         NEW v \in { p \in UNION { Prefixes(f) : f \in ix } : ~IsLeaf(ix, p) }
  PROVE  v \in Paths /\ v \notin ix /\ IsNode(ix, v)
<1>1. PICK f \in ix : v \in Prefixes(f)
  OBVIOUS
<1>2. f \in Paths /\ Len(f) \in Nat
  BY IndexFacts, PathFacts DEF Paths
<1>3. PICK n \in 0..Len(f) : v = SubSeq(f, 1, n)
  BY <1>1 DEF Prefixes
<1>4. n \in Nat /\ 0 + 1 = 1 /\ n - 0 = n /\ n <= Len(f)
  BY <1>2
<1>5. /\ SubSeq(f, 0 + 1, n) \in Paths /\ Len(SubSeq(f, 0 + 1, n)) = n - 0
      /\ \A j \in 1..(n - 0) : SubSeq(f, 0 + 1, n)[j] = f[0 + j]
  BY <1>2, <1>4, SubSeqFacts DEF Paths
<1>6. v \in Paths /\ Len(v) = n /\ \A j \in 1..n : v[j] = f[0 + j]
  BY <1>3, <1>4, <1>5
<1>7. \A j \in 1..n : 0 + j = j
  OBVIOUS
<1>8. Extends(f, v)
  BY <1>4, <1>6, <1>7 DEF Extends
<1> QED
  BY <1>6, <1>8 DEF IsNode, IsLeaf

\* The empty path lacks one term.
LEMMA EmptyPath ==
  /\ <<>> \in Paths /\ Len(<<>>) = 0 /\ Incomplete(<<>>, 1)
  /\ \A r \in Paths : r \o <<>> = r
<1>1. <<>> \in Paths /\ Len(<<>>) = 0
  BY DEF Paths
<1>2. \A r \in Paths : r \o <<>> = r
  BY ConcatEmptySeq DEF Paths
<1>3. OpenSlots(<<>>)[0] = 1
  BY <1>1, OpenSlotsDef DEF Paths
<1> QED
  BY <1>1, <1>2, <1>3 DEF Incomplete

\* The invariant holds when the iterator is made.
LEMMA IterInit == Init => IterInv
<1> SUFFICES ASSUME Init PROVE IterInv
  OBVIOUS
<1>1. index \in Indexes /\ stack = <<>> /\ arity = 1 /\ pc = "idle" /\ last = <<>>
  BY DEF Init
<1>2. root \in Paths /\ root \notin index /\ IsNode(index, root)
  BY <1>1, RootNodes DEF Init
<1>3. Path = <<>> /\ stack \in Seq(Entries) /\ Follows(stack, root, <<>>)
  BY <1>1 DEF Path, Follows
<1>4. StackInv
  BY <1>1, <1>2, <1>3, EmptyPath DEF StackInv
<1>5. ArityInv
  BY <1>1, <1>3, EmptyPath DEF ArityInv
<1>6. OrderInv
  BY <1>1, <1>3 DEF OrderInv
<1> QED
  BY <1>4, <1>5, <1>6 DEF IterInv

\* _push: the path goes to the first child; the terms ahead stay the same.
LEMMA PushKeeps ==
  ASSUME StackInv, ArityInv, arity > 0, Push(ChildrenIterator(root \o Path)), UNCHANGED <<index, root>>
  PROVE  /\ StackInv' /\ ArityInv' /\ Path' # <<>>
         /\ \A t \in TermsFrom(index, root) : Ahead(Path, t) <=> Ahead(Path', t)
         /\ \E tok \in ChildTokens(index, root \o Path) :
              /\ Path' = Path \o <<tok>>
              /\ \A u \in ChildTokens(index, root \o Path) : u = tok \/ TokenLess(tok, u)
<1>1. PICK q : q = Path
  OBVIOUS
<1>2. PICK v : v = root \o q
  OBVIOUS
<1>3. /\ index \in Indexes /\ root \in Paths /\ root \notin index
      /\ stack \in Seq(Entries) /\ q \in Paths /\ Follows(stack, root, q) /\ IsNode(index, v)
      /\ Incomplete(q, arity)
  BY <1>1, <1>2 DEF StackInv, ArityInv
<1>4. v \in Paths /\ v \notin index
  BY <1>2, <1>3, OpenIsNoLeaf DEF Incomplete, IsNode
<1>5. PICK tok : tok = FirstToken(ChildTokens(index, v))
  OBVIOUS
<1>6. /\ tok \in encoded_token_t /\ tok \in ChildTokens(index, v)
      /\ \A u \in ChildTokens(index, v) : u = tok \/ TokenLess(tok, u)
  <2>1. /\ ChildTokens(index, v) \in SUBSET encoded_token_t /\ IsFiniteSet(ChildTokens(index, v))
        /\ ChildTokens(index, v) # {}
    BY <1>3, <1>4, ChildTokensFacts, NodeHasChild
  <2> QED
    BY <1>5, <2>1, FirstTokenIsFirst
<1>7. PICK e : e = [node |-> v, tok |-> tok]
  OBVIOUS
<1>8. ChildrenIterator(root \o Path) = e
  BY <1>1, <1>2, <1>5, <1>7 DEF ChildrenIterator
<1>9. arity' = arity + tok.arity - 1 /\ stack' = Append(stack, e)
  <2>1. e.tok = tok
    BY <1>7
  <2> QED
    BY <1>8, <2>1 DEF Push
<1>10. PICK p : p = q \o <<tok>>
  OBVIOUS
<1>11. p \in Paths /\ Len(p) = Len(q) + 1
  BY <1>3, <1>6, <1>10, Longer
<1>12. stack' \in Seq(Entries) /\ Follows(stack', root, p)
  BY <1>2, <1>3, <1>6, <1>7, <1>9, <1>10, FollowsPush
<1>13. Path' = p
  BY <1>11, <1>12, PathIs DEF Path
<1>14. IsNode(index, root \o p)
  <2>1. PICK w : w = v \o <<tok>>
    OBVIOUS
  <2>2. IsNode(index, w)
    BY <1>3, <1>4, <1>6, <2>1, ChildIsNode, IndexFacts DEF HasChild
  <2>3. w = root \o p
    <3>1. <<tok>> \in Paths
      BY <1>6 DEF Paths
    <3> QED
      BY <1>2, <1>3, <1>10, <2>1, <3>1, ConcatAssociative DEF Paths
  <2> QED
    BY <2>2, <2>3
<1>15. StackInv'
  BY <1>3, <1>11, <1>12, <1>13, <1>14 DEF StackInv
<1>16. ArityInv'
  BY <1>3, <1>6, <1>9, <1>10, <1>13, IncompletePush DEF ArityInv
<1>17. Path' # <<>>
  <2>1. Len(p) # 0
    BY <1>3, <1>11, PathFacts DEF Paths
  <2> QED
    BY <1>13, <2>1
<1>18. ASSUME NEW t \in TermsFrom(index, root) PROVE Ahead(q, t) <=> Ahead(p, t)
  <2>1. t \in Paths /\ IsTerm(t)
    BY <1>3, TermGoesOn
  <2>2. Extends(t, q) /\ Len(t) > Len(q) => t[Len(q) + 1] \in ChildTokens(index, v)
    BY <1>2, <1>3, TermGoesOn
  <2>3. Extends(t, q) => Len(t) > Len(q)
    <3> SUFFICES ASSUME Extends(t, q), ~(Len(t) > Len(q)) PROVE FALSE
      OBVIOUS
    <3>1. Len(t) \in Nat /\ Len(q) \in Nat
      BY <1>3, <2>1, PathFacts DEF Paths
    <3>2. Len(t) = Len(q)
      BY <3>1 DEF Extends
    <3>3. t = q
      BY <1>3, <2>1, <3>2, SeqEqual DEF Extends, Paths
    <3> QED
      BY <1>3, <2>1, <3>3 DEF IsTerm, Incomplete
  <2>4. /\ Extends(t, p) <=> Extends(t, q) /\ Len(t) > Len(q) /\ t[Len(q) + 1] = tok
        /\ TermLess(p, t) <=> \/ TermLess(q, t)
                              \/ Extends(t, q) /\ Len(t) > Len(q) /\ TokenLess(tok, t[Len(q) + 1])
    BY <1>3, <1>6, <1>10, <2>1, OrderAtLast
  <2> QED
    BY <1>6, <2>2, <2>3, <2>4 DEF Ahead
<1> QED
  BY <1>1, <1>2, <1>6, <1>10, <1>13, <1>15, <1>16, <1>17, <1>18

\* The iterator on top of the stack, at the last token of the path.
LEMMA TopIs ==
  ASSUME StackInv, NEW q \in Paths, NEW tok \in encoded_token_t, Path = q \o <<tok>>
  PROVE  /\ Last(stack) = [node |-> root \o q, tok |-> tok] /\ Len(stack) = Len(q) + 1
         /\ Front(stack) \in Seq(Entries) /\ Follows(Front(stack), root, q)
         /\ root \o q \in Paths /\ IsNode(index, root \o q)
         /\ NodeOf(Last(stack)) = root \o Path
         /\ LaterTokens(Last(stack)) = { t \in ChildTokens(index, root \o q) : TokenLess(tok, t) }
<1>1. PICK v : v = root \o q
  OBVIOUS
<1>2. /\ Last(stack) = [node |-> v, tok |-> tok] /\ Len(stack) = Len(q) + 1
      /\ Front(stack) \in Seq(Entries) /\ Follows(Front(stack), root, q)
  BY <1>1, FollowsPop DEF StackInv
<1>3. <<tok>> \in Paths /\ root \in Paths /\ v \in Paths
  BY <1>1, ConcatFacts DEF Paths, StackInv
<1>4. v \o <<tok>> = root \o Path
  BY <1>1, <1>3, ConcatAssociative DEF Paths
<1>5. IsNode(index, v)
  <2>1. PICK f \in index : Extends(f, v \o <<tok>>)
    BY <1>4 DEF StackInv, IsNode
  <2>2. f \in Paths
    BY <2>1, IndexFacts DEF StackInv
  <2>3. Extends(f, v)
    BY <1>3, <2>1, <2>2, ExtendsConcat
  <2> QED
    BY <1>3, <2>3 DEF IsNode
<1>6. Append(v, tok) = v \o <<tok>>
  BY <1>3, AppendIsConcat DEF Paths
<1>7. Last(stack).node = v /\ Last(stack).tok = tok
  BY <1>2
<1>8. NodeOf(Last(stack)) = root \o Path
  BY <1>4, <1>6, <1>7 DEF NodeOf
<1>9. LaterTokens(Last(stack)) = { t \in ChildTokens(index, v) : TokenLess(tok, t) }
  BY <1>7 DEF LaterTokens
<1> QED
  BY <1>1, <1>2, <1>3, <1>5, <1>8, <1>9

\* The first call of next() keeps it.
LEMMA IterStart == IterInv /\ Start => IterInv'
<1> SUFFICES ASSUME IterInv, Start PROVE IterInv'
  OBVIOUS
<1>1. StackInv /\ ArityInv /\ OrderInv /\ stack = <<>> /\ pc = "idle" /\ pc' = "descend"
      /\ UNCHANGED <<index, root, last>> /\ Push(ChildrenIterator(root))
  BY DEF IterInv, Start
<1>2. Path = <<>> /\ last = <<>>
  BY <1>1 DEF Path, OrderInv
<1>3. root \o Path = root /\ arity > 0
  <2>1. arity = OpenSlots(<<>>)[0] /\ OpenSlots(<<>>)[0] = 1
    BY <1>1, <1>2, EmptyPath DEF ArityInv, Incomplete
  <2> QED
    BY <1>1, <1>2, <2>1, EmptyPath DEF StackInv
<1>4. /\ StackInv' /\ ArityInv' /\ Path' # <<>>
      /\ \A t \in TermsFrom(index, root) : Ahead(Path, t) <=> Ahead(Path', t)
  BY <1>1, <1>3, PushKeeps
<1>5. \A t \in TermsFrom(index, root) : ToCome(last, t) <=> Ahead(Path', t)
  BY <1>2, <1>4 DEF ToCome, Ahead, Extends
<1>6. OrderInv'
  BY <1>1, <1>4, <1>5 DEF OrderInv
<1> QED
  BY <1>4, <1>6 DEF IterInv

\* Completing the expression keeps it.
LEMMA IterDescend == IterInv /\ Descend => IterInv'
<1> SUFFICES ASSUME IterInv, Descend PROVE IterInv'
  OBVIOUS
<1>1. StackInv /\ ArityInv /\ OrderInv /\ pc = "descend" /\ arity > 0
      /\ UNCHANGED <<index, root, pc, last>> /\ Push(ChildrenIterator(NodeOf(Last(stack))))
  BY DEF IterInv, Descend
<1>2. Path # <<>> /\ Path \in Paths
  BY <1>1 DEF OrderInv, StackInv
<1>3. PICK q \in Paths, tok \in encoded_token_t : Path = q \o <<tok>>
  BY <1>2, SplitLast
<1>4. NodeOf(Last(stack)) = root \o Path
  BY <1>1, <1>3, TopIs
<1>5. /\ StackInv' /\ ArityInv' /\ Path' # <<>>
      /\ \A t \in TermsFrom(index, root) : Ahead(Path, t) <=> Ahead(Path', t)
  BY <1>1, <1>4, PushKeeps
<1>6. OrderInv'
  BY <1>1, <1>5 DEF OrderInv
<1> QED
  BY <1>5, <1>6 DEF IterInv

\* The path is complete when no subterm is missing.
LEMMA PathComplete ==
  ASSUME IterInv, pc = "descend", arity <= 0
  PROVE  IsTerm(Path) /\ Path \in Paths /\ Path \in TermsFrom(index, root)
<1>1. StackInv /\ ArityInv /\ OrderInv /\ Path \in Paths /\ Path # <<>>
  BY DEF IterInv, StackInv, OrderInv
<1>2. PICK q \in Paths, tok \in encoded_token_t : Path = q \o <<tok>>
  BY <1>1, SplitLast
<1>3. arity \in Int /\ arity >= 0
  BY <1>1, <1>2, IncompleteLast DEF ArityInv
<1>4. arity = 0
  BY <1>3
<1>5. IsTerm(Path)
  BY <1>1, <1>4 DEF ArityInv, Incomplete, IsTerm
<1>6. index \in SUBSET Paths /\ root \in Paths /\ IsNode(index, root \o Path)
  BY <1>1, IndexFacts DEF StackInv
<1> QED
  BY <1>1, <1>5, <1>6, TermsFromFacts

\* Returning the node keeps it.
LEMMA IterYield == IterInv /\ Yield => IterInv'
<1> SUFFICES ASSUME IterInv, Yield PROVE IterInv'
  OBVIOUS
<1>1. /\ UNCHANGED <<index, root, stack, arity>> /\ pc = "descend" /\ arity <= 0
      /\ last' = Path /\ pc' = "idle" /\ Path' = Path
  BY DEF Yield, Path
<1>2. IsTerm(Path)
  BY <1>1, PathComplete
<1> QED
  BY <1>1, <1>2 DEF IterInv, StackInv, ArityInv, OrderInv

\* A further call of next() keeps it.
LEMMA IterResume == IterInv /\ Resume => IterInv'
<1> SUFFICES ASSUME IterInv, Resume PROVE IterInv'
  OBVIOUS
<1>1. /\ UNCHANGED <<index, root, stack, arity, last>> /\ pc = "idle" /\ pc' = "retreat"
      /\ stack # <<>> /\ Path' = Path
  BY DEF Resume, Path
<1>2. last = Path /\ Path \in Paths /\ Len(stack) = Len(Path)
  BY <1>1 DEF IterInv, OrderInv, StackInv, Follows
<1>3. Path # <<>>
  BY <1>1, <1>2, EmptySeq DEF IterInv, StackInv
<1>4. \A t \in TermsFrom(index, root) : ToCome(last, t) <=> Beyond(Path, t)
  BY <1>2, <1>3 DEF ToCome, Beyond
<1>5. OrderInv'
  BY <1>1, <1>2, <1>3, <1>4 DEF OrderInv
<1> QED
  BY <1>1, <1>5 DEF IterInv, StackInv, ArityInv

\* set() keeps it: the stack is empty when the enumeration has ended.
LEMMA IterSet == IterInv /\ Set => IterInv'
<1> SUFFICES ASSUME IterInv, Set PROVE IterInv'
  OBVIOUS
<1>1. /\ UNCHANGED <<index, stack, last>> /\ pc = "end" /\ pc' = "idle" /\ arity' = 1
      /\ root' \in { p \in UNION { Prefixes(f) : f \in index } : ~IsLeaf(index, p) }
  BY DEF Set
<1>2. index \in Indexes /\ Path = <<>> /\ last = <<>> /\ stack \in Seq(Entries) /\ Len(stack) = 0
  BY <1>1, EmptyPath DEF IterInv, StackInv, OrderInv, Follows
<1>3. root' \in Paths /\ root' \notin index /\ IsNode(index, root')
  BY <1>1, <1>2, RootNodes
<1>4. Path' = <<>>
  BY <1>1, <1>2 DEF Path
<1>5. StackInv'
  BY <1>1, <1>2, <1>3, <1>4, EmptyPath DEF StackInv, Follows
<1>6. ArityInv' /\ OrderInv'
  BY <1>1, <1>2, <1>4, EmptyPath DEF ArityInv, OrderInv
<1> QED
  BY <1>5, <1>6 DEF IterInv

\* _pop: nothing is left beyond the child the path went to.
LEMMA RetreatOrder ==
  ASSUME StackInv, NEW q \in Paths, NEW tok \in encoded_token_t, Path = q \o <<tok>>,
         ~HasNext(Last(stack)), NEW t \in TermsFrom(index, root)
  PROVE  Beyond(Path, t) <=> Beyond(q, t)
<1>1. index \in Indexes /\ root \in Paths
  BY DEF StackInv
<1>2. t \in Paths /\ (Extends(t, q) /\ Len(t) > Len(q) => t[Len(q) + 1] \in ChildTokens(index, root \o q))
  BY <1>1, TermGoesOn
<1>3. \A u \in ChildTokens(index, root \o q) : ~TokenLess(tok, u)
  BY TopIs DEF HasNext
<1>4. TermLess(Path, t) <=> \/ TermLess(q, t)
                            \/ Extends(t, q) /\ Len(t) > Len(q) /\ TokenLess(tok, t[Len(q) + 1])
  BY <1>2, OrderAtLast
<1> QED
  BY <1>2, <1>3, <1>4 DEF Beyond

\* _pop() keeps it.
LEMMA IterRetreat == IterInv /\ Retreat => IterInv'
<1> SUFFICES ASSUME IterInv, Retreat PROVE IterInv'
  OBVIOUS
<1>1. /\ StackInv /\ ArityInv /\ OrderInv /\ pc = "retreat" /\ ~HasNext(Last(stack))
      /\ UNCHANGED <<index, root>> /\ stack' = Front(stack)
      /\ arity' = arity - (Last(stack).tok.arity - 1)
  BY DEF IterInv, Retreat
<1>2. Path # <<>> /\ Path \in Paths
  BY <1>1 DEF OrderInv, StackInv
<1>3. PICK q \in Paths, tok \in encoded_token_t : Path = q \o <<tok>>
  BY <1>2, SplitLast
<1>4. /\ Last(stack) = [node |-> root \o q, tok |-> tok] /\ Len(stack) = Len(q) + 1
      /\ stack' \in Seq(Entries) /\ Follows(stack', root, q) /\ IsNode(index, root \o q)
  BY <1>1, <1>3, TopIs
<1>5. Path' = q
  BY <1>3, <1>4, PathIs DEF Path
<1>6. StackInv'
  BY <1>1, <1>3, <1>4, <1>5 DEF StackInv
<1>7. arity' = arity - (tok.arity - 1)
  BY <1>1, <1>4
<1>8. ArityInv'
  BY <1>1, <1>3, <1>5, <1>7, IncompleteLast DEF ArityInv
<1>9. OrderInv'
  <2>1. CASE Len(stack) = 1
    <3>1. Len(q) = 0 /\ pc' = "end" /\ last' = <<>>
      BY <1>3, <1>4, <2>1, PathFacts DEF Retreat, Paths
    <3>2. q = <<>>
      BY <1>3, <3>1, EmptySeq DEF Paths
    <3> QED
      BY <1>5, <3>1, <3>2 DEF OrderInv
  <2>2. CASE Len(stack) # 1
    <3>1. UNCHANGED <<pc, last>> /\ Len(q) # 0
      BY <1>3, <1>4, <2>2, PathFacts DEF Retreat, Paths
    <3>2. q # <<>>
      BY <3>1, EmptyPath
    <3>3. \A t \in TermsFrom(index, root) : ToCome(last, t) <=> Beyond(q, t)
      BY <1>1, <1>3, RetreatOrder DEF OrderInv
    <3> QED
      BY <1>1, <1>5, <3>1, <3>2, <3>3 DEF OrderInv
  <2> QED
    BY <2>1, <2>2
<1> QED
  BY <1>6, <1>8, <1>9 DEF IterInv

\* _next: the path goes to the next child.
LEMMA AdvancePath ==
  ASSUME StackInv, Path # <<>>, Advance
  PROVE  \E q \in Paths, tok \in encoded_token_t, u \in encoded_token_t :
           /\ Path = q \o <<tok>> /\ Path' = q \o <<u>>
           /\ Last(stack).tok = tok /\ NextOf(Last(stack)).tok = u
           /\ u \in ChildTokens(index, root \o q) /\ TokenLess(tok, u)
           /\ \A w \in ChildTokens(index, root \o q) : TokenLess(tok, w) => w = u \/ TokenLess(u, w)
           /\ stack' \in Seq(Entries) /\ Follows(stack', root, q \o <<u>>)
<1> DEFINE it == NextOf(Last(stack))
<1>1. HasNext(Last(stack)) /\ stack' = [stack EXCEPT ![Len(stack)] = it]
  BY DEF Advance
<1>2. Path \in Paths /\ index \in Indexes /\ root \in Paths /\ stack \in Seq(Entries)
      /\ Follows(stack, root, Path)
  BY DEF StackInv
<1>3. PICK q \in Paths, tok \in encoded_token_t : Path = q \o <<tok>>
  BY <1>2, SplitLast
<1>4. PICK v : v = root \o q
  OBVIOUS
<1>5. /\ Last(stack) = [node |-> v, tok |-> tok] /\ v \in Paths
      /\ LaterTokens(Last(stack)) = { t \in ChildTokens(index, v) : TokenLess(tok, t) }
  BY <1>3, <1>4, TopIs
<1>6. PICK S : S = LaterTokens(Last(stack))
  OBVIOUS
<1>7. PICK u : u = FirstToken(S)
  OBVIOUS
<1>8. /\ u \in encoded_token_t /\ u \in ChildTokens(index, v) /\ TokenLess(tok, u)
      /\ \A w \in ChildTokens(index, v) : TokenLess(tok, w) => w = u \/ TokenLess(u, w)
  <2>1. ChildTokens(index, v) \in SUBSET encoded_token_t /\ IsFiniteSet(ChildTokens(index, v))
    BY <1>2, <1>5, ChildTokensFacts
  <2>2. S \in SUBSET ChildTokens(index, v) /\ S # {}
    BY <1>1, <1>5, <1>6 DEF HasNext
  <2>3. S \in SUBSET encoded_token_t /\ IsFiniteSet(S)
    BY <2>1, <2>2, FS_Subset
  <2>4. u \in S /\ \A w \in S : w = u \/ TokenLess(u, w)
    BY <1>7, <2>2, <2>3, FirstTokenIsFirst
  <2> QED
    BY <1>5, <1>6, <2>3, <2>4
<1>9. it = [node |-> v, tok |-> u]
  <2>1. PICK e : e = Last(stack)
    OBVIOUS
  <2>2. e = [node |-> v, tok |-> tok] /\ S = LaterTokens(e)
    BY <1>5, <1>6, <2>1
  <2>3. [e EXCEPT !.tok = u] = [node |-> v, tok |-> u]
    BY <2>2
  <2>4. NextOf(e) = [e EXCEPT !.tok = u]
    BY <1>7, <2>2, Zenon DEF NextOf
  <2> QED
    BY <2>1, <2>3, <2>4
<1>10. PICK p : p = q \o <<u>>
  OBVIOUS
<1>11. p \in Paths /\ Len(p) = Len(q) + 1
  BY <1>3, <1>8, <1>10, Longer
<1>12. stack' \in Seq(Entries) /\ Follows(stack', root, p)
  <2> HIDE DEF it
  <2> QED
    BY <1>1, <1>2, <1>3, <1>4, <1>8, <1>9, <1>10, FollowsAdvance
<1>13. Path' = p
  BY <1>11, <1>12, PathIs DEF Path
<1> QED
  <2>1. Last(stack).tok = tok /\ it.tok = u
    BY <1>5, <1>9
  <2> HIDE DEF it
  <2> QED
    BY <1>3, <1>4, <1>8, <1>10, <1>12, <1>13, <2>1 DEF it

\* _next() keeps it.
LEMMA IterAdvance == IterInv /\ Advance => IterInv'
<1> SUFFICES ASSUME IterInv, Advance PROVE IterInv'
  OBVIOUS
<1> DEFINE it == NextOf(Last(stack))
<1>1. /\ StackInv /\ ArityInv /\ OrderInv /\ pc = "retreat" /\ Path # <<>>
      /\ UNCHANGED <<index, root, last>> /\ pc' = "descend"
      /\ arity' = arity + it.tok.arity - Last(stack).tok.arity
  BY DEF IterInv, OrderInv, Advance
<1>2. index \in Indexes /\ root \in Paths
  BY <1>1 DEF StackInv
<1>3. PICK q \in Paths, tok \in encoded_token_t, u \in encoded_token_t :
        /\ Path = q \o <<tok>> /\ Path' = q \o <<u>> /\ Last(stack).tok = tok /\ it.tok = u
        /\ u \in ChildTokens(index, root \o q) /\ TokenLess(tok, u)
        /\ \A w \in ChildTokens(index, root \o q) : TokenLess(tok, w) => w = u \/ TokenLess(u, w)
        /\ stack' \in Seq(Entries) /\ Follows(stack', root, q \o <<u>>)
  BY <1>1, AdvancePath
<1>4. PICK v : v = root \o q
  OBVIOUS
<1>5. v \in Paths
  BY <1>2, <1>3, <1>4, ConcatFacts
<1>8. /\ u \in encoded_token_t /\ u \in ChildTokens(index, v) /\ TokenLess(tok, u)
      /\ \A w \in ChildTokens(index, v) : TokenLess(tok, w) => w = u \/ TokenLess(u, w)
  BY <1>3, <1>4
<1>10. PICK p : p = q \o <<u>>
  OBVIOUS
<1>11. p \in Paths /\ Len(p) = Len(q) + 1
  BY <1>3, <1>8, <1>10, Longer
<1>12. stack' \in Seq(Entries) /\ Follows(stack', root, p)
  BY <1>3, <1>10
<1>13. Path' = p
  BY <1>3, <1>10
<1>14. IsNode(index, root \o p)
  <2>1. PICK w : w = v \o <<u>>
    OBVIOUS
  <2>2. IsNode(index, w)
    BY <1>2, <1>5, <1>8, <2>1, ChildIsNode, IndexFacts DEF HasChild
  <2>3. <<u>> \in Paths
    BY <1>8 DEF Paths
  <2>4. w = root \o p
    BY <1>2, <1>3, <1>4, <1>10, <2>1, <2>3, ConcatAssociative DEF Paths
  <2> QED
    BY <2>2, <2>4
<1>15. StackInv'
  BY <1>1, <1>11, <1>12, <1>13, <1>14 DEF StackInv
<1>16. ArityInv'
  <2>1. PICK m : m = arity - (tok.arity - 1)
    OBVIOUS
  <2>2. arity \in Int /\ tok.arity \in Nat /\ u.arity \in Nat /\ m > 0 /\ Incomplete(q, m)
    BY <1>1, <1>3, <1>8, <2>1, IncompleteLast, CountLast DEF ArityInv
  <2>3. Incomplete(p, m + u.arity - 1)
    BY <1>3, <1>8, <1>10, <2>2, IncompletePush
  <2>4. arity' = arity + u.arity - tok.arity
    BY <1>1, <1>3
  <2>5. arity' = m + u.arity - 1
    BY <2>1, <2>2, <2>4
  <2> QED
    BY <1>13, <2>3, <2>5 DEF ArityInv
<1>17. ASSUME NEW t \in TermsFrom(index, root) PROVE Beyond(Path, t) <=> Ahead(p, t)
  <2>1. t \in Paths /\ (Extends(t, q) /\ Len(t) > Len(q) => t[Len(q) + 1] \in ChildTokens(index, v))
    BY <1>2, <1>3, <1>4, TermGoesOn
  <2>2. TermLess(Path, t) <=> \/ TermLess(q, t)
                              \/ Extends(t, q) /\ Len(t) > Len(q) /\ TokenLess(tok, t[Len(q) + 1])
    BY <1>3, <2>1, OrderAtLast
  <2>3. /\ Extends(t, p) <=> Extends(t, q) /\ Len(t) > Len(q) /\ t[Len(q) + 1] = u
        /\ TermLess(p, t) <=> \/ TermLess(q, t)
                              \/ Extends(t, q) /\ Len(t) > Len(q) /\ TokenLess(u, t[Len(q) + 1])
    BY <1>3, <1>8, <1>10, <2>1, OrderAtLast
  <2>4. \A w \in ChildTokens(index, v) : TokenLess(u, w) => TokenLess(tok, w)
    BY <1>2, <1>3, <1>5, <1>8, ChildTokensFacts, TokenLessTransitive
  <2> QED
    BY <1>8, <2>1, <2>2, <2>3, <2>4 DEF Beyond, Ahead
<1>18. OrderInv'
  <2>1. p # <<>>
    BY <1>3, <1>11, PathFacts DEF Paths
  <2>2. \A t \in TermsFrom(index, root) : ToCome(last, t) <=> Ahead(p, t)
    BY <1>1, <1>17 DEF OrderInv
  <2> QED
    BY <1>1, <1>13, <2>1, <2>2 DEF OrderInv
<1> QED
  BY <1>15, <1>16, <1>18 DEF IterInv

\* Every step keeps it.
LEMMA IterStep == IterInv /\ [Next]_vars => IterInv'
<1>1. ASSUME IterInv, UNCHANGED vars PROVE IterInv'
  BY <1>1 DEF vars, IterInv, StackInv, ArityInv, OrderInv, Path
<1> QED
  BY <1>1, IterStart, IterResume, IterRetreat, IterAdvance, IterDescend, IterYield, IterSet DEF Next

-----------------------------------------------------------------------------
\* The terms of the abstract specification, and their order, are those of the
\* iterator.
LEMMA SameTerms ==
  /\ Enumerator!Later = { t \in TermsFrom(index, root) : ToCome(last, t) }
  /\ \A S : Enumerator!FirstTerm(S) = FirstTerm(S)
<1>1. \A t, u : Enumerator!TokenLess(t, u) <=> TokenLess(t, u)
  BY DEF TokenLess, TokenBytes, Enumerator!TokenLess, Enumerator!TokenBytes
<1>2. \A s, t : Enumerator!TermLess(s, t) <=> TermLess(s, t)
  BY <1>1 DEF TermLess, Enumerator!TermLess
<1>3. \A S : Enumerator!FirstTerm(S) = FirstTerm(S)
  BY <1>2 DEF FirstTerm, Enumerator!FirstTerm
<1>4. \A s : Enumerator!OpenSlots(s) = OpenSlots(s)
  BY DEF OpenSlots, Enumerator!OpenSlots
<1>5. \A s : Enumerator!IsTerm(s) <=> IsTerm(s)
  BY <1>4 DEF IsTerm, Enumerator!IsTerm
<1>6. Enumerator!TermsFrom(index, root) = TermsFrom(index, root)
  <2>1. \A s, t : Enumerator!IsStrictPrefix(s, t) <=> IsStrictPrefix(s, t)
    BY DEF IsStrictPrefix, IsPrefix, Enumerator!IsStrictPrefix, Enumerator!IsPrefix
  <2>2. PICK B : B = { f \in index : IsStrictPrefix(root, f) }
    OBVIOUS
  <2>3. B = { f \in index : Enumerator!IsStrictPrefix(root, f) }
    BY <2>1, <2>2
  <2>4. PICK C : C = UNION { { SubSeq(f, Len(root) + 1, k) : k \in (Len(root) + 1)..Len(f) } : f \in B }
    OBVIOUS
  <2>5. TermsFrom(index, root) = { s \in C : IsTerm(s) }
    BY <2>2, <2>4, Zenon DEF TermsFrom
  <2>6. Enumerator!TermsFrom(index, root) = { s \in C : Enumerator!IsTerm(s) }
    BY <2>3, <2>4, Zenon DEF Enumerator!TermsFrom
  <2> QED
    BY <1>5, <2>5, <2>6
<1> QED
  BY <1>2, <1>3, <1>6 DEF Enumerator!Later, ToCome

\* A completed path is the next term to return.
LEMMA YieldIsNext == IterInv /\ Yield => Enumerator!NextTerm
<1> SUFFICES ASSUME IterInv, Yield PROVE Enumerator!NextTerm
  OBVIOUS
<1>1. /\ UNCHANGED <<index, root>> /\ pc = "descend" /\ arity <= 0 /\ last' = Path /\ pc' = "idle"
  BY DEF Yield
<1>2. IsTerm(Path) /\ Path \in Paths /\ Path \in TermsFrom(index, root)
  BY <1>1, PathComplete
<1>3. PICK S : S = { t \in TermsFrom(index, root) : ToCome(last, t) }
  OBVIOUS
<1>4. S \in SUBSET Paths /\ IsFiniteSet(S) /\ \A s \in S : IsTerm(s)
  <2>1. index \in SUBSET Paths /\ IsFiniteSet(index) /\ root \in Paths
    BY IndexFacts DEF IterInv, StackInv
  <2>2. IsFiniteSet(TermsFrom(index, root))
    BY <2>1, TermsFromFinite
  <2>3. S \in SUBSET TermsFrom(index, root)
    BY <1>3
  <2>4. \A s \in TermsFrom(index, root) : s \in Paths /\ IsTerm(s)
    BY <2>1, TermsFromFacts
  <2> QED
    BY <2>2, <2>3, <2>4, FS_Subset
<1>5. \A t \in S : Extends(t, Path) \/ TermLess(Path, t)
  BY <1>1, <1>3 DEF IterInv, OrderInv, Ahead
<1>6. Extends(Path, Path)
  BY <1>2, PathFacts DEF Extends, Paths
<1>7. Path \in S
  BY <1>1, <1>2, <1>3, <1>6 DEF IterInv, OrderInv, Ahead
<1>8. FirstTerm(S) = Path
  <2>1. PICK f : f = FirstTerm(S)
    OBVIOUS
  <2>2. f \in S /\ \A t \in S : t = f \/ TermLess(f, t)
    BY <1>4, <1>7, <2>1, FirstTermIsFirst
  <2>3. f \in Paths /\ IsTerm(f)
    BY <1>4, <2>2
  <2>4. ASSUME Extends(f, Path) PROVE f = Path
    BY <1>2, <2>3, <2>4, TermsArePrefixFree DEF Paths
  <2>5. ASSUME TermLess(Path, f), TermLess(f, Path) PROVE FALSE
    BY <1>2, <1>6, <2>3, <2>5, TermLessTransitive, TermLessIrreflexive
  <2> QED
    BY <1>5, <1>7, <2>1, <2>2, <2>4, <2>5
<1>9. Enumerator!Later = S /\ Enumerator!FirstTerm(S) = Path
  BY <1>3, <1>8, SameTerms
<1> QED
  BY <1>1, <1>7, <1>9 DEF Enumerator!NextTerm

\* nullptr is returned when no term is left.
LEMMA RetreatEnds == IterInv /\ Retreat /\ Len(stack) = 1 => Enumerator!Exhausted
<1> SUFFICES ASSUME IterInv, Retreat, Len(stack) = 1 PROVE Enumerator!Exhausted
  OBVIOUS
<1>1. /\ UNCHANGED <<index, root>> /\ pc = "retreat" /\ ~HasNext(Last(stack))
      /\ pc' = "end" /\ last' = <<>>
  BY DEF Retreat
<1>2. StackInv /\ Path # <<>> /\ Path \in Paths
      /\ \A t \in TermsFrom(index, root) : ToCome(last, t) <=> Beyond(Path, t)
  BY <1>1 DEF IterInv, OrderInv, StackInv
<1>3. PICK q \in Paths, tok \in encoded_token_t : Path = q \o <<tok>>
  BY <1>2, SplitLast
<1>4. DOMAIN q = {}
  <2>1. Len(stack) = Len(q) + 1
    BY <1>2, <1>3, TopIs
  <2>2. Len(q) = 0 /\ DOMAIN q = 1..Len(q)
    BY <1>3, <2>1, PathFacts DEF Paths
  <2> QED
    BY <2>2
<1>5. \A t \in TermsFrom(index, root) : ~Beyond(q, t)
  BY <1>4 DEF Beyond, TermLess
<1>6. \A t \in TermsFrom(index, root) : ~ToCome(last, t)
  BY <1>1, <1>2, <1>3, <1>5, RetreatOrder
<1>7. Enumerator!Later = {}
  BY <1>6, SameTerms
<1> QED
  BY <1>1, <1>7 DEF Enumerator!Exhausted

\* Every step is a step of the abstract specification or leaves its variables alone.
LEMMA StepRefines == IterInv /\ [Next]_vars => [Enumerator!Next]_(Enumerator!vars)
<1> SUFFICES ASSUME IterInv, [Next]_vars PROVE [Enumerator!Next]_(Enumerator!vars)
  OBVIOUS
<1>1. CASE Start \/ Resume \/ Advance \/ Descend
  BY <1>1 DEF Start, Resume, Advance, Descend, Enumerator!vars
<1>2. CASE Retreat
  <2>1. CASE Len(stack) = 1
    BY <1>2, <2>1, RetreatEnds DEF Enumerator!Next
  <2>2. CASE Len(stack) # 1
    BY <1>2, <2>2 DEF Retreat, Enumerator!vars
  <2> QED
    BY <2>1, <2>2
<1>3. CASE Yield
  BY <1>3, YieldIsNext DEF Enumerator!Next
<1>4. CASE Set
  BY <1>4 DEF Set, Enumerator!Next, Enumerator!SetRoot
<1>5. CASE UNCHANGED vars
  BY <1>5 DEF vars, Enumerator!vars
<1> QED
  BY <1>1, <1>2, <1>3, <1>4, <1>5 DEF Next

\* Initial states are initial states of the abstract specification.
LEMMA InitRefines == Init => Enumerator!Init
  BY DEF Init, Enumerator!Init

\* The stack of IndexIterator::next() enumerates the index: every call returns
\* the next term below _root in the order of the index, none is skipped or
\* repeated, nullptr comes after the last one, and set() starts again.
THEOREM EnumeratesAllTermsCorrect == Spec => EnumeratesAllTerms
<1>1. Init => IterInv
  BY IterInit
<1>2. IterInv /\ [Next]_vars => IterInv'
  BY IterStep
<1>3. IterInv /\ [Next]_vars => [Enumerator!Next]_(Enumerator!vars)
  BY StepRefines
<1>4. Init => Enumerator!Init
  BY InitRefines
<1> QED
  BY <1>1, <1>2, <1>3, <1>4, PTL DEF Spec, EnumeratesAllTerms, Enumerator!Spec

\* The same for exportToMemsector, whose callbacks write the nodes of the file
\* while the iterator enumerates.
THEOREM ExportEnumeratesCorrect == ExportSpec => EnumeratesAllTerms
<1>1. ExportInit => Init
  BY DEF ExportInit
<1>2. [ExportNext]_memsectorVars => [Next]_vars
  BY DEF ExportNext, exportToMemsector, Pushes, Pops, Advances, Returns, memsector_save,
         memsectorVars, Next, vars
<1>3. Init => IterInv /\ Enumerator!Init
  BY IterInit, InitRefines
<1>4. IterInv /\ [Next]_vars => IterInv'
  BY IterStep
<1>5. IterInv /\ [Next]_vars => [Enumerator!Next]_(Enumerator!vars)
  BY StepRefines
<1> QED
  BY <1>1, <1>2, <1>3, <1>4, <1>5, PTL DEF ExportSpec, EnumeratesAllTerms, Enumerator!Spec

-----------------------------------------------------------------------------
(***************************************************************************)
(* The memsector.  What the proofs say of the index at hand is stated for  *)
(* any index ix.                                                           *)
(***************************************************************************)

\* s lists the tokens of S in the order in which VectorMap holds them.
Lists(s, S) ==
  /\ s \in [1..Cardinality(S) -> S]
  /\ \A i, j \in 1..Cardinality(S) : i < j => TokenLess(s[i], s[j])

\* The tokens of a finite set can be listed in order.
LEMMA ListExists ==
  ASSUME NEW S \in SUBSET encoded_token_t, IsFiniteSet(S)
  PROVE  \E s : Lists(s, S)
<1> DEFINE P == { n \in Nat : \A T \in SUBSET encoded_token_t :
                    IsFiniteSet(T) /\ Cardinality(T) = n => \E s : Lists(s, T) }
<1>1. 0 \in P
  <2>1. ASSUME NEW T \in SUBSET encoded_token_t, IsFiniteSet(T), Cardinality(T) = 0
        PROVE  \E s : Lists(s, T)
    <3>1. Lists([i \in 1..0 |-> i], T)
      BY <2>1 DEF Lists
    <3> QED
      BY <3>1
  <2> QED
    BY <2>1
<1>2. ASSUME NEW n \in Nat, n \in P PROVE n + 1 \in P
  <2> SUFFICES ASSUME NEW T \in SUBSET encoded_token_t, IsFiniteSet(T), Cardinality(T) = n + 1
               PROVE  \E s : Lists(s, T)
    OBVIOUS
  <2>1. T # {}
    BY FS_EmptySet
  <2>2. PICK t \in T : \A u \in T : u = t \/ TokenLess(t, u)
    BY <2>1, FirstTokenIsFirst
  <2> DEFINE R == T \ {t}
  <2>3. R \in SUBSET encoded_token_t /\ IsFiniteSet(R) /\ Cardinality(R) = n
    <3>1. IsFiniteSet(R) /\ Cardinality(R) = Cardinality(T) - 1
      BY FS_RemoveElement
    <3>2. Cardinality(R) = n
      BY <3>1
    <3> QED
      BY <3>1, <3>2
  <2>4. PICK r : Lists(r, R)
    BY <1>2, <2>3
  <2>5. r \in [1..n -> R] /\ \A i, j \in 1..n : i < j => TokenLess(r[i], r[j])
    BY <2>3, <2>4 DEF Lists
  <2> DEFINE s == [i \in 1..(n + 1) |-> IF i = 1 THEN t ELSE r[i - 1]]
  <2>6. \A i \in 1..(n + 1) : i # 1 => i - 1 \in 1..n
    OBVIOUS
  <2>7. s \in [1..(n + 1) -> T]
    BY <2>5, <2>6
  <2>8. ASSUME NEW i \in 1..(n + 1), NEW j \in 1..(n + 1), i < j PROVE TokenLess(s[i], s[j])
    <3>1. j # 1 /\ j - 1 \in 1..n /\ s[j] = r[j - 1] /\ r[j - 1] \in R
      BY <2>5, <2>6, <2>8
    <3>2. CASE i = 1
      BY <2>2, <3>1, <3>2
    <3>3. CASE i # 1
      <4>1. i - 1 \in 1..n /\ i - 1 < j - 1 /\ s[i] = r[i - 1]
        BY <2>6, <2>8, <3>3
      <4> QED
        BY <2>5, <3>1, <4>1
    <3> QED
      BY <3>2, <3>3
  <2> HIDE DEF s
  <2> QED
    BY <2>7, <2>8 DEF Lists
<1>3. Nat \subseteq P
  <2> HIDE DEF P
  <2> QED
    BY <1>1, <1>2, SetInduction
<1> QED
  BY <1>3, FS_CardinalityType

\* A list in order has every token of the set, once.
LEMMA ListFacts ==
  ASSUME NEW S \in SUBSET encoded_token_t, IsFiniteSet(S), NEW s, Lists(s, S)
  PROVE  /\ s \in Seq(encoded_token_t) /\ Len(s) = Cardinality(S) /\ Len(s) \in Nat
         /\ DOMAIN s = 1..Len(s)
         /\ \A i \in 1..Len(s) : s[i] \in S
         /\ \A t \in S : \E i \in 1..Len(s) : s[i] = t
         /\ \A i, j \in 1..Len(s) : i < j <=> TokenLess(s[i], s[j])
<1> DEFINE n == Cardinality(S)
<1>1. n \in Nat /\ s \in [1..n -> S]
  BY FS_CardinalityType DEF Lists
<1>2. s \in Seq(encoded_token_t) /\ Len(s) = n /\ DOMAIN s = 1..n
  <2>1. s \in Seq(S)
    BY <1>1, SeqDef
  <2>2. DOMAIN s = 1..n
    BY <1>1
  <2> HIDE DEF n
  <2>3. Len(s) = n
    BY <1>1, <2>1, <2>2
  <2> QED
    BY <2>1, <2>2, <2>3
<1>3. ASSUME NEW i \in 1..n, NEW j \in 1..n, TokenLess(s[i], s[j]) PROVE i < j
  <2>1. s[i] \in encoded_token_t /\ s[j] \in encoded_token_t
    BY <1>1
  <2>2. i # j
    BY <1>3, <2>1, TokenLessIrreflexive
  <2>3. ~(j < i)
    <3>1. ASSUME j < i PROVE FALSE
      <4>1. TokenLess(s[j], s[i])
        BY <3>1 DEF Lists
      <4>2. TokenLess(s[i], s[i])
        BY <1>3, <2>1, <4>1, TokenLessTransitive
      <4> QED
        BY <2>1, <4>2, TokenLessIrreflexive
    <3> QED
      BY <3>1
  <2> QED
    BY <1>1, <2>2, <2>3
<1>4. \A i, j \in 1..n : s[i] = s[j] => i = j
  <2>1. ASSUME NEW i \in 1..n, NEW j \in 1..n, s[i] = s[j], i # j PROVE FALSE
    <3>1. s[i] \in encoded_token_t
      BY <1>1
    <3>2. i < j \/ j < i
      BY <1>1, <2>1
    <3>3. TokenLess(s[i], s[j]) \/ TokenLess(s[j], s[i])
      BY <3>2 DEF Lists
    <3> QED
      BY <2>1, <3>1, <3>3, TokenLessIrreflexive
  <2> QED
    BY <2>1
<1>5. \A t \in S : \E i \in 1..n : s[i] = t
  <2>1. s \in Injection(1..n, S)
    BY <1>1, <1>4, Fun_IsInj
  <2>2. IsFiniteSet(1..n) /\ Cardinality(1..n) = n
    BY <1>1, FS_Interval
  <2>3. s \in Surjection(1..n, S)
    BY <2>1, <2>2, FS_Injection
  <2> QED
    BY <2>3 DEF Surjection
<1> QED
  BY <1>1, <1>2, <1>3, <1>5 DEF Lists

-----------------------------------------------------------------------------
\* The nodes of an index, and the children of one in order.
NodesOf(ix) == UNION { Prefixes(formula) : formula \in ix }

ChildList(ix, v) ==
  CHOOSE s \in [1..Cardinality(ChildTokens(ix, v)) -> ChildTokens(ix, v)] :
    \A i, j \in DOMAIN s : i < j => TokenLess(s[i], s[j])

\* They are the paths that lead to a node of the trie.
LEMMA NodesAre ==
  ASSUME NEW ix \in Indexes
  PROVE  NodesOf(ix) = { v \in Paths : IsNode(ix, v) }
<1>1. ix \in SUBSET Paths
  BY IndexFacts
<1>2. ASSUME NEW f \in ix, NEW l \in 0..Len(f)
      PROVE  SubSeq(f, 1, l) \in Paths /\ IsNode(ix, SubSeq(f, 1, l))
  <2>1. f \in Paths /\ Len(f) \in Nat /\ l \in Nat /\ 0 <= l /\ l <= Len(f)
    BY <1>1, PathFacts DEF Paths
  <2>2. PICK y : y = SubSeq(f, 0 + 1, l)
    OBVIOUS
  <2>3. y \in Paths /\ Len(y) = l /\ \A j \in 1..l : y[j] = f[j]
    BY <2>1, <2>2, SubSeqFacts DEF Paths
  <2>4. Extends(f, y)
    BY <2>1, <2>3 DEF Extends
  <2> QED
    BY <2>2, <2>3, <2>4 DEF IsNode
<1>3. ASSUME NEW v \in Paths, IsNode(ix, v) PROVE v \in NodesOf(ix)
  <2>1. PICK f \in ix : Extends(f, v)
    BY <1>3 DEF IsNode
  <2>2. f \in Paths /\ Len(f) \in Nat /\ Len(v) \in Nat /\ 0 <= Len(v) /\ Len(v) <= Len(f)
    BY <1>1, <2>1, PathFacts DEF Paths, Extends
  <2>3. PICK y : y = SubSeq(f, 0 + 1, Len(v))
    OBVIOUS
  <2>4. y \in Paths /\ Len(y) = Len(v) /\ \A j \in 1..Len(v) : y[j] = f[j]
    BY <2>2, <2>3, SubSeqFacts DEF Paths
  <2>5. y = v
    BY <2>1, <2>4, SeqEqual DEF Extends, Paths
  <2>6. SubSeq(f, 1, Len(v)) = v /\ Len(v) \in 0..Len(f)
    BY <2>2, <2>3, <2>5
  <2>7. v \in Prefixes(f)
    BY <2>6, Zenon DEF Prefixes
  <2> QED
    BY <2>1, <2>7 DEF NodesOf
<1>4. ASSUME NEW v \in NodesOf(ix) PROVE v \in Paths /\ IsNode(ix, v)
  <2>1. PICK f \in ix : v \in Prefixes(f)
    BY DEF NodesOf
  <2>2. PICK l \in 0..Len(f) : v = SubSeq(f, 1, l)
    BY <2>1 DEF Prefixes
  <2> QED
    BY <1>2, <2>2
<1> QED
  BY <1>3, <1>4

\* An index has finitely many nodes.
LEMMA NodesFinite ==
  ASSUME NEW ix \in Indexes
  PROVE  IsFiniteSet(NodesOf(ix))
<1>1. IsFiniteSet(ix) /\ ix \in SUBSET Paths
  BY IndexFacts
<1>2. ASSUME NEW f \in ix PROVE IsFiniteSet(Prefixes(f))
  <2>1. Len(f) \in Nat
    BY <1>1, PathFacts DEF Paths
  <2> DEFINE g == [l \in 0..Len(f) |-> SubSeq(f, 1, l)]
  <2>2. g \in Surjection(0..Len(f), Prefixes(f))
    BY DEF Surjection, Prefixes
  <2>3. IsFiniteSet(0..Len(f))
    BY <2>1, FS_Interval
  <2> QED
    BY <2>2, <2>3, FS_Surjection
<1> DEFINE S == { Prefixes(f) : f \in ix }
           g == [f \in ix |-> Prefixes(f)]
<1>3. g \in Surjection(ix, S)
  BY DEF Surjection
<1>4. IsFiniteSet(S)
  BY <1>1, <1>3, FS_Surjection
<1> QED
  BY <1>2, <1>4, FS_UNION DEF NodesOf

\* The list of children has every child once, in the order of the tokens.
LEMMA ChildListFacts ==
  ASSUME NEW ix \in Indexes, NEW v \in Paths
  PROVE  /\ ChildList(ix, v) \in Seq(encoded_token_t)
         /\ Len(ChildList(ix, v)) = Cardinality(ChildTokens(ix, v)) /\ Len(ChildList(ix, v)) \in Nat
         /\ DOMAIN ChildList(ix, v) = 1..Len(ChildList(ix, v))
         /\ \A i \in 1..Len(ChildList(ix, v)) : ChildList(ix, v)[i] \in ChildTokens(ix, v)
         /\ \A t \in ChildTokens(ix, v) : \E i \in 1..Len(ChildList(ix, v)) : ChildList(ix, v)[i] = t
         /\ \A i, j \in 1..Len(ChildList(ix, v)) :
              i < j <=> TokenLess(ChildList(ix, v)[i], ChildList(ix, v)[j])
<1> DEFINE S == ChildTokens(ix, v)
<1>1. S \in SUBSET encoded_token_t /\ IsFiniteSet(S)
  BY ChildTokensFacts
<1>2. PICK s : Lists(s, S)
  BY <1>1, ListExists
<1>3. s \in [1..Cardinality(S) -> S] /\ \A i, j \in DOMAIN s : i < j => TokenLess(s[i], s[j])
  BY <1>2 DEF Lists
<1>4. PICK c : c = ChildList(ix, v)
  OBVIOUS
<1>5. c \in [1..Cardinality(S) -> S] /\ \A i, j \in DOMAIN c : i < j => TokenLess(c[i], c[j])
  BY <1>3, <1>4 DEF ChildList
<1>6. Lists(c, S)
  BY <1>5 DEF Lists
<1> HIDE DEF S
<1>7. /\ c \in Seq(encoded_token_t) /\ Len(c) = Cardinality(S) /\ Len(c) \in Nat
      /\ DOMAIN c = 1..Len(c)
      /\ \A i \in 1..Len(c) : c[i] \in S
      /\ \A t \in S : \E i \in 1..Len(c) : c[i] = t
      /\ \A i, j \in 1..Len(c) : i < j <=> TokenLess(c[i], c[j])
  BY <1>1, <1>6, ListFacts
<1> QED
  BY <1>4, <1>7, Zenon DEF S

-----------------------------------------------------------------------------
(***************************************************************************)
(* Sizes.                                                                  *)
(***************************************************************************)
SizeOf(ix) ==
  [v \in NodesOf(ix) |-> IF v \in ix THEN memsector_leaf_size
                         ELSE memsector_inode_size(Cardinality(ChildTokens(ix, v)))]

\* The sizes of a set of nodes together.
TotalOf(ix, S) == SumOf(TRUE, SizeOf(ix), NodesOf(ix))[S]

\* The sum is zero for no node, grows with the set, and splits off any node.
LEMMA TotalFacts ==
  ASSUME NEW ix \in Indexes
  PROVE  /\ TotalOf(ix, {}) = 0
         /\ \A v \in NodesOf(ix) : SizeOf(ix)[v] \in Nat
         /\ \A S \in SUBSET NodesOf(ix) :
              /\ TotalOf(ix, S) \in Nat
              /\ \A v \in S : TotalOf(ix, S) = SizeOf(ix)[v] + TotalOf(ix, S \ {v})
              /\ \A T \in SUBSET S : TotalOf(ix, T) <= TotalOf(ix, S)
<1> DEFINE N == NodesOf(ix)
           w == SizeOf(ix)
<1>1. IsFiniteSet(N)
  BY NodesFinite
<1>2. ASSUME NEW v \in N PROVE w[v] \in Nat
  <2>1. v \in Paths
    BY NodesAre
  <2>2. Cardinality(ChildTokens(ix, v)) \in Nat
    BY <2>1, ChildTokensFacts, FS_CardinalityType
  <2>3. 2 + 2 * Cardinality(ChildTokens(ix, v)) \in Nat
    BY <2>2
  <2> QED
    BY <2>3 DEF SizeOf, memsector_leaf_size, memsector_inode_size
<1> HIDE DEF N, w
<1>3. \A x \in N : Weight(TRUE, w, x) \in Nat /\ Weight(TRUE, w, x) = w[x]
  BY <1>2 DEF Weight
<1>4. SumOf(TRUE, w, N)[{}] = 0 /\ \A s \in SUBSET N : SumRule(SumOf(TRUE, w, N), TRUE, w, s)
  BY <1>1, <1>3, SumRules
<1>5. PICK f : f = SumOf(TRUE, w, N)
  OBVIOUS
<1>6. \A s \in SUBSET N : SumRule(f, TRUE, w, s)
  BY <1>4, <1>5
<1>7. ASSUME NEW S \in SUBSET N
      PROVE  /\ f[S] \in Nat
             /\ \A v \in S : f[S] = w[v] + f[S \ {v}]
             /\ \A T \in SUBSET S : f[T] <= f[S]
  <2>1. SumRule(f, TRUE, w, S)
    BY <1>6
  <2> QED
    BY <1>3, <2>1 DEF SumRule
<1> QED
  BY <1>2, <1>4, <1>5, <1>7, Zenon DEF TotalOf, N, w

\* Of these, computeMemsectorSize is the one of all nodes.
LEMMA SizeIs == /\ Nodes = NodesOf(index)
                /\ computeMemsectorSize = TotalOf(index, NodesOf(index))
<1>1. Nodes = NodesOf(index)
  BY DEF Nodes, NodesOf
<1>2. NodeSize = SizeOf(index)
  BY <1>1 DEF NodeSize, SizeOf, IsLeaf
<1>3. computeMemsectorSize = SumOf(TRUE, NodeSize, Nodes)[Nodes]
  BY DEF computeMemsectorSize, MapThenSumSet, MapThenFoldSet, SumOf, Adds, Weight, Picked
<1> QED
  BY <1>1, <1>2, <1>3 DEF TotalOf

-----------------------------------------------------------------------------
(***************************************************************************)
(* The binary search of inode_get_child.                                   *)
(***************************************************************************)

\* The entries of a node, sorted.
Sorted(data) ==
  /\ Len(data) \in Nat /\ DOMAIN data = 1..Len(data)
  /\ \A i \in 1..Len(data) : data[i].token \in encoded_token_t
  /\ \A i, j \in 1..Len(data) : i < j => TokenLess(data[i].token, data[j].token)

Bounds(data) == (0..Len(data)) \X (-1..(Len(data) - 1))

\* One step of the search between lr[1] and lr[2].
FindStep(f, data, token, lr) ==
  LET c == lr[1] + (lr[2] - lr[1]) \div 2
  IN  IF lr[1] > lr[2] THEN MEMSECTOR_OFF_NULL
      ELSE IF TokenLess(token, data[c + 1].token) THEN f[<<lr[1], c - 1>>]
      ELSE IF token = data[c + 1].token THEN data[c + 1].off
      ELSE f[<<c + 1, lr[2]>>]

Finds(f, data, token) == f = [lr \in Bounds(data) |-> FindStep(f, data, token, lr)]

\* What it is to find between lr[1] and lr[2].
Entry(data, token, lr) ==
  IF \E i \in (lr[1] + 1)..(lr[2] + 1) : data[i].token = token
    THEN data[CHOOSE i \in (lr[1] + 1)..(lr[2] + 1) : data[i].token = token].off
    ELSE MEMSECTOR_OFF_NULL

\* inode_get_child is the search between the first and the last entry.
LEMMA SearchIs ==
  ASSUME NEW data, NEW token
  PROVE  inode_get_child(data, token) = (CHOOSE f : Finds(f, data, token))[<<0, Len(data) - 1>>]
  BY DEF inode_get_child, Finds, FindStep, Bounds

\* Tokens are different, so there is one entry to find or none.
LEMMA EntryIs ==
  ASSUME NEW data, Sorted(data), NEW token, NEW l \in Nat, NEW r \in Int, r < Len(data)
  PROVE  /\ \A i \in (l + 1)..(r + 1) : data[i].token = token => Entry(data, token, <<l, r>>) = data[i].off
         /\ (\A i \in (l + 1)..(r + 1) : data[i].token # token)
              => Entry(data, token, <<l, r>>) = MEMSECTOR_OFF_NULL
<1>1. ASSUME NEW i \in (l + 1)..(r + 1), data[i].token = token
      PROVE  Entry(data, token, <<l, r>>) = data[i].off
  <2>1. PICK j \in (l + 1)..(r + 1) :
          j = (CHOOSE k \in (l + 1)..(r + 1) : data[k].token = token) /\ data[j].token = token
    BY <1>1
  <2>2. i \in 1..Len(data) /\ j \in 1..Len(data) /\ (i # j => i < j \/ j < i)
    BY DEF Sorted
  <2>3. token \in encoded_token_t
    BY <1>1, <2>2 DEF Sorted
  <2>4. ~TokenLess(token, token)
    BY <2>3, TokenLessIrreflexive
  <2>5. i = j
    BY <1>1, <2>1, <2>2, <2>4 DEF Sorted
  <2>6. Entry(data, token, <<l, r>>) = data[j].off
    BY <1>1, <2>1 DEF Entry
  <2> QED
    BY <2>5, <2>6
<1> QED
  BY <1>1 DEF Entry

\* The two halves of a search.
LEMMA Halves ==
  ASSUME NEW data, Sorted(data), NEW token \in encoded_token_t,
         NEW l \in Nat, NEW r \in Int, l <= r, r < Len(data), NEW c, c = l + (r - l) \div 2
  PROVE  /\ c \in l..r /\ c + 1 \in 1..Len(data)
         /\ <<l, c - 1>> \in Bounds(data) /\ <<c + 1, r>> \in Bounds(data)
         /\ Entry(data, token, <<l, r>>)
              = IF TokenLess(token, data[c + 1].token) THEN Entry(data, token, <<l, c - 1>>)
                ELSE IF token = data[c + 1].token THEN data[c + 1].off
                ELSE Entry(data, token, <<c + 1, r>>)
<1>1. Len(data) \in Nat
  BY DEF Sorted
<1>2. (r - l) \div 2 \in 0..(r - l)
  OBVIOUS
<1>3. c \in l..r /\ c \in Nat
  BY <1>2
<1>4. c + 1 \in 1..Len(data) /\ c + 1 \in (l + 1)..(r + 1)
  BY <1>1, <1>3
<1>5. <<l, c - 1>> \in Bounds(data) /\ <<c + 1, r>> \in Bounds(data)
  BY <1>1, <1>3 DEF Bounds
<1>6. data[c + 1].token \in encoded_token_t
  BY <1>4 DEF Sorted
<1>7. c - 1 \in Int /\ c - 1 < Len(data) /\ c + 1 \in Nat
  BY <1>1, <1>3
<1> SUFFICES Entry(data, token, <<l, r>>)
              = IF TokenLess(token, data[c + 1].token) THEN Entry(data, token, <<l, c - 1>>)
                ELSE IF token = data[c + 1].token THEN data[c + 1].off
                ELSE Entry(data, token, <<c + 1, r>>)
  BY <1>3, <1>4, <1>5
<1>8. CASE TokenLess(token, data[c + 1].token)
  <2>1. ASSUME NEW i \in (c + 1)..(r + 1) PROVE data[i].token # token
    <3>1. i \in 1..Len(data) /\ (i = c + 1 \/ c + 1 < i)
      BY <1>1, <1>3
    <3>2. data[i].token \in encoded_token_t
      BY <3>1 DEF Sorted
    <3>3. data[i].token = data[c + 1].token \/ TokenLess(data[c + 1].token, data[i].token)
      BY <1>4, <3>1 DEF Sorted
    <3>4. TokenLess(token, data[i].token)
      BY <1>6, <1>8, <3>2, <3>3, TokenLessTransitive
    <3> QED
      BY <3>4, TokenLessIrreflexive
  <2>2. CASE \E i \in (l + 1)..(r + 1) : data[i].token = token
    <3>1. PICK i \in (l + 1)..(r + 1) : data[i].token = token
      BY <2>2
    <3>2. i \in (l + 1)..((c - 1) + 1)
      BY <1>3, <2>1, <3>1
    <3>3. Entry(data, token, <<l, r>>) = data[i].off
      BY <3>1, EntryIs
    <3>4. Entry(data, token, <<l, c - 1>>) = data[i].off
      BY <1>7, <3>1, <3>2, EntryIs
    <3> QED
      BY <1>8, <3>3, <3>4
  <2>3. CASE \A i \in (l + 1)..(r + 1) : data[i].token # token
    <3>1. \A i \in (l + 1)..((c - 1) + 1) : data[i].token # token
      BY <1>3, <2>3
    <3>2. Entry(data, token, <<l, r>>) = MEMSECTOR_OFF_NULL
      BY <2>3, EntryIs
    <3>3. Entry(data, token, <<l, c - 1>>) = MEMSECTOR_OFF_NULL
      BY <1>7, <3>1, EntryIs
    <3> QED
      BY <1>8, <3>2, <3>3
  <2> QED
    BY <2>2, <2>3
<1>9. CASE ~TokenLess(token, data[c + 1].token) /\ token = data[c + 1].token
  <2>1. Entry(data, token, <<l, r>>) = data[c + 1].off
    BY <1>4, <1>9, EntryIs
  <2> QED
    BY <1>9, <2>1
<1>10. CASE ~TokenLess(token, data[c + 1].token) /\ token # data[c + 1].token
  <2>1. TokenLess(data[c + 1].token, token)
    BY <1>6, <1>10, TokenLessTotal
  <2>2. ASSUME NEW i \in (l + 1)..(c + 1) PROVE data[i].token # token
    <3>1. i \in 1..Len(data) /\ (i = c + 1 \/ i < c + 1)
      BY <1>1, <1>3
    <3>2. data[i].token \in encoded_token_t
      BY <3>1 DEF Sorted
    <3>3. data[i].token = data[c + 1].token \/ TokenLess(data[i].token, data[c + 1].token)
      BY <1>4, <3>1 DEF Sorted
    <3>4. TokenLess(data[i].token, token)
      BY <1>6, <2>1, <3>2, <3>3, TokenLessTransitive
    <3> QED
      BY <3>4, TokenLessIrreflexive
  <2>3. CASE \E i \in (l + 1)..(r + 1) : data[i].token = token
    <3>1. PICK i \in (l + 1)..(r + 1) : data[i].token = token
      BY <2>3
    <3>2. i \in ((c + 1) + 1)..(r + 1)
      BY <1>3, <2>2, <3>1
    <3>3. Entry(data, token, <<l, r>>) = data[i].off
      BY <3>1, EntryIs
    <3>4. Entry(data, token, <<c + 1, r>>) = data[i].off
      BY <1>7, <3>1, <3>2, EntryIs
    <3> QED
      BY <1>10, <3>3, <3>4
  <2>4. CASE \A i \in (l + 1)..(r + 1) : data[i].token # token
    <3>1. \A i \in ((c + 1) + 1)..(r + 1) : data[i].token # token
      BY <1>3, <2>4
    <3>2. Entry(data, token, <<l, r>>) = MEMSECTOR_OFF_NULL
      BY <2>4, EntryIs
    <3>3. Entry(data, token, <<c + 1, r>>) = MEMSECTOR_OFF_NULL
      BY <1>7, <3>1, EntryIs
    <3> QED
      BY <1>10, <3>2, <3>3
  <2> QED
    BY <2>3, <2>4
<1> QED
  BY <1>8, <1>9, <1>10

\* Outside the bounds there is nothing to find.
LEMMA EmptySearch ==
  ASSUME NEW data, NEW token, NEW l \in Nat, NEW r \in Int, l > r
  PROVE  Entry(data, token, <<l, r>>) = MEMSECTOR_OFF_NULL
  BY DEF Entry

\* What the search finds.
LEMMA BinarySearch ==
  ASSUME NEW data, Sorted(data), NEW token \in encoded_token_t
  PROVE  inode_get_child(data, token) = Entry(data, token, <<0, Len(data) - 1>>)
<1> DEFINE g == [lr \in Bounds(data) |-> Entry(data, token, lr)]
<1>1. Len(data) \in Nat
  BY DEF Sorted
<1>2. ASSUME NEW lr \in Bounds(data)
      PROVE  lr[1] \in Nat /\ lr[2] \in Int /\ lr[2] < Len(data) /\ lr = <<lr[1], lr[2]>>
  BY <1>1 DEF Bounds
<1>3. ASSUME NEW lr \in Bounds(data) PROVE Entry(data, token, lr) = FindStep(g, data, token, lr)
  <2>1. PICK l \in Nat, r \in Int : r < Len(data) /\ lr = <<l, r>>
    BY <1>2
  <2>2. CASE l > r
    BY <2>1, <2>2, EmptySearch DEF FindStep
  <2>3. CASE l <= r
    <3>1. PICK c : c = l + (r - l) \div 2
      OBVIOUS
    <3>2. /\ <<l, c - 1>> \in Bounds(data) /\ <<c + 1, r>> \in Bounds(data)
          /\ Entry(data, token, <<l, r>>)
               = IF TokenLess(token, data[c + 1].token) THEN Entry(data, token, <<l, c - 1>>)
                 ELSE IF token = data[c + 1].token THEN data[c + 1].off
                 ELSE Entry(data, token, <<c + 1, r>>)
      BY <2>1, <2>3, <3>1, Halves
    <3>3. g[<<l, c - 1>>] = Entry(data, token, <<l, c - 1>>) /\ g[<<c + 1, r>>] = Entry(data, token, <<c + 1, r>>)
      BY <3>2
    <3> HIDE DEF g
    <3>4. lr[1] = l /\ lr[2] = r
      BY <2>1
    <3>5. FindStep(g, data, token, lr)
            = IF TokenLess(token, data[c + 1].token) THEN g[<<l, c - 1>>]
              ELSE IF token = data[c + 1].token THEN data[c + 1].off
              ELSE g[<<c + 1, r>>]
      BY <2>3, <3>1, <3>4 DEF FindStep
    <3> QED
      BY <2>1, <3>2, <3>3, <3>5, Zenon
  <2> QED
    BY <2>1, <2>2, <2>3
<1>4. Finds(g, data, token)
  <2>1. [lr \in Bounds(data) |-> Entry(data, token, lr)] = [lr \in Bounds(data) |-> FindStep(g, data, token, lr)]
    BY <1>3
  <2> QED
    BY <2>1, Zenon DEF Finds
<1>5. PICK f : f = (CHOOSE h : Finds(h, data, token))
  OBVIOUS
<1> HIDE DEF g
<1>6. Finds(f, data, token)
  BY <1>4, <1>5
<1>7. ASSUME NEW lr \in Bounds(data) PROVE f[lr] = FindStep(f, data, token, lr)
  <2> DEFINE V(x) == FindStep(f, data, token, x)
  <2>1. f = [x \in Bounds(data) |-> V(x)]
    BY <1>6, Zenon DEF Finds
  <2> HIDE DEF V
  <2>2. [x \in Bounds(data) |-> V(x)][lr] = V(lr)
    OBVIOUS
  <2>3. f[lr] = V(lr)
    BY <2>1, <2>2, Zenon
  <2> QED
    BY <2>3 DEF V
<1> DEFINE P == { n \in Nat : \A l \in Nat : \A r \in Int :
                    <<l, r>> \in Bounds(data) /\ r - l + 1 <= n => f[<<l, r>>] = Entry(data, token, <<l, r>>) }
<1>8. ASSUME NEW l \in Nat, NEW r \in Int, <<l, r>> \in Bounds(data), l > r
      PROVE  f[<<l, r>>] = Entry(data, token, <<l, r>>)
  <2>1. f[<<l, r>>] = FindStep(f, data, token, <<l, r>>)
    BY <1>7, <1>8
  <2> QED
    BY <1>8, <2>1, EmptySearch DEF FindStep
<1>9. 0 \in P
  <2>1. ASSUME NEW l \in Nat, NEW r \in Int, <<l, r>> \in Bounds(data), r - l + 1 <= 0
        PROVE  f[<<l, r>>] = Entry(data, token, <<l, r>>)
    <3>1. l > r
      BY <2>1
    <3> QED
      BY <1>8, <2>1, <3>1
  <2> QED
    BY <2>1
<1>10. ASSUME NEW n \in Nat, n \in P PROVE n + 1 \in P
  <2>1. \A l \in Nat : \A r \in Int :
          <<l, r>> \in Bounds(data) /\ r - l + 1 <= n => f[<<l, r>>] = Entry(data, token, <<l, r>>)
    BY <1>10
  <2>2. ASSUME NEW l \in Nat, NEW r \in Int, <<l, r>> \in Bounds(data), r - l + 1 <= n + 1
        PROVE  f[<<l, r>>] = Entry(data, token, <<l, r>>)
    <3>1. CASE l > r
      BY <1>8, <2>2, <3>1
    <3>2. CASE l <= r
      <4>1. r < Len(data)
        BY <1>1, <2>2 DEF Bounds
      <4>2. PICK c : c = l + (r - l) \div 2
        OBVIOUS
      <4>3. /\ c \in l..r
            /\ <<l, c - 1>> \in Bounds(data) /\ <<c + 1, r>> \in Bounds(data)
            /\ Entry(data, token, <<l, r>>)
                 = IF TokenLess(token, data[c + 1].token) THEN Entry(data, token, <<l, c - 1>>)
                   ELSE IF token = data[c + 1].token THEN data[c + 1].off
                   ELSE Entry(data, token, <<c + 1, r>>)
        BY <3>2, <4>1, <4>2, Halves
      <4>4. /\ c - 1 \in Int /\ (c - 1) - l + 1 <= n
            /\ c + 1 \in Nat /\ r - (c + 1) + 1 <= n
        BY <2>2, <4>3
      <4>5. f[<<l, c - 1>>] = Entry(data, token, <<l, c - 1>>)
        BY <2>1, <4>3, <4>4
      <4>6. f[<<c + 1, r>>] = Entry(data, token, <<c + 1, r>>)
        BY <2>1, <4>3, <4>4
      <4>7. f[<<l, r>>] = FindStep(f, data, token, <<l, r>>)
        BY <1>7, <2>2
      <4>8. FindStep(f, data, token, <<l, r>>)
              = IF TokenLess(token, data[c + 1].token) THEN f[<<l, c - 1>>]
                ELSE IF token = data[c + 1].token THEN data[c + 1].off
                ELSE f[<<c + 1, r>>]
        BY <3>2, <4>2 DEF FindStep
      <4> QED
        BY <4>3, <4>5, <4>6, <4>7, <4>8, Zenon
    <3> QED
      BY <3>1, <3>2
  <2> QED
    BY <2>2
<1>11. Nat \subseteq P
  <2> HIDE DEF P
  <2> QED
    BY <1>9, <1>10, SetInduction
<1>12. <<0, Len(data) - 1>> \in Bounds(data) /\ Len(data) - 1 \in Int /\ (Len(data) - 1) - 0 + 1 <= Len(data)
  BY <1>1 DEF Bounds
<1>13. Len(data) \in P
  BY <1>1, <1>11
<1>14. f[<<0, Len(data) - 1>>] = Entry(data, token, <<0, Len(data) - 1>>)
  BY <1>12, <1>13
<1> QED
  BY <1>5, <1>14, SearchIs, Zenon

-----------------------------------------------------------------------------
(***************************************************************************)
(* The nodes that the export has left and written when the iterator is at  *)
(* path p: those before p and, when it comes back to p, those below p.     *)
(***************************************************************************)
DoneOf(ix, p, back) ==
  { v \in NodesOf(ix) : TermLess(v, p) \/ (back /\ Extends(v, p) /\ v # p) }

\* Those that are written when the iterator has left p.
LeftOf(ix, p) == DoneOf(ix, p, TRUE) \cup {p}

\* A path before or after one that ends with tok.
LEMMA LessAtLast ==
  ASSUME NEW q \in Paths, NEW tok \in encoded_token_t, NEW x \in Paths
  PROVE  TermLess(x, q \o <<tok>>)
           <=> \/ TermLess(x, q)
               \/ Extends(x, q) /\ Len(x) > Len(q) /\ TokenLess(x[Len(q) + 1], tok)
<1>1. PICK p : p = q \o <<tok>>
  OBVIOUS
<1>2. PICK n \in Nat : n = Len(q)
  BY PathFacts DEF Paths
<1>3. p \in Paths /\ Len(p) = n + 1 /\ p[n + 1] = tok /\ Extends(p, q)
  BY <1>1, <1>2, Longer DEF Extends
<1>4. Len(x) \in Nat /\ \A k \in 1..Len(x) : x[k] \in encoded_token_t
  BY PathFacts DEF Paths
<1>5. ASSUME TermLess(x, q) PROVE TermLess(x, p)
  BY <1>3, <1>5, LessThroughNode
<1>6. ASSUME Extends(x, q), Len(x) > n, TokenLess(x[n + 1], tok) PROVE TermLess(x, p)
  <2>1. x[n + 1] \in encoded_token_t
    BY <1>2, <1>4, <1>6
  <2>2. PICK y : y = q \o <<x[n + 1]>>
    OBVIOUS
  <2>3. y \in Paths
    BY <2>1, <2>2, Longer
  <2>4. Extends(x, y)
    BY <1>2, <1>6, <2>1, <2>2, OrderAtLast
  <2>5. TermLess(y, p)
    BY <1>2, <1>3, <1>6, <2>1, <2>2, OrderAtLast
  <2> QED
    BY <1>3, <2>3, <2>4, <2>5, LessThroughNode
<1>7. ASSUME TermLess(x, p), ~TermLess(x, q)
      PROVE  Extends(x, q) /\ Len(x) > n /\ TokenLess(x[n + 1], tok)
  <2>1. Extends(x, q)
    BY <1>3, <1>7, LessThroughNode
  <2>2. Len(x) > n
    <3>1. ASSUME Len(x) <= n PROVE FALSE
      <4>1. Len(x) = n /\ \A k \in 1..n : p[k] = x[k]
        BY <1>2, <1>3, <1>4, <2>1, <3>1 DEF Extends
      <4>2. Extends(p, x)
        BY <1>3, <4>1 DEF Extends
      <4> QED
        BY <1>3, <1>7, <4>2, TermLessIrreflexive
    <3> QED
      BY <1>2, <1>4, <3>1
  <2>3. x[n + 1] \in encoded_token_t
    BY <1>2, <1>4, <2>2
  <2>4. x[n + 1] # tok
    <3>1. ASSUME x[n + 1] = tok PROVE FALSE
      <4>1. Extends(x, p)
        BY <1>1, <1>2, <2>1, <2>2, <3>1, OrderAtLast
      <4> QED
        BY <1>3, <1>7, <4>1, TermLessIrreflexive
    <3> QED
      BY <3>1
  <2>5. ~TokenLess(tok, x[n + 1])
    <3>1. ASSUME TokenLess(tok, x[n + 1]) PROVE FALSE
      <4>1. TermLess(p, x)
        BY <1>1, <1>2, <2>1, <2>2, <3>1, OrderAtLast
      <4>2. TermLess(x, x)
        BY <1>3, <1>7, <4>1, TermLessTransitive
      <4>3. Extends(x, x)
        BY <1>4 DEF Extends
      <4> QED
        BY <4>2, <4>3, TermLessIrreflexive
    <3> QED
      BY <3>1
  <2> QED
    BY <2>1, <2>2, <2>3, <2>4, <2>5, TokenLessTotal
<1> QED
  BY <1>1, <1>2, <1>5, <1>6, <1>7

\* A node below another one goes through a child of it.
LEMMA NodeGoesOn ==
  ASSUME NEW ix \in Indexes, NEW q \in Paths, NEW x \in NodesOf(ix), Extends(x, q), Len(x) > Len(q)
  PROVE  x[Len(q) + 1] \in ChildTokens(ix, q) /\ x[Len(q) + 1] \in encoded_token_t
<1>1. x \in Paths /\ IsNode(ix, x) /\ ix \in SUBSET Paths
  BY NodesAre, IndexFacts
<1>2. PICK tok : tok = x[Len(q) + 1]
  OBVIOUS
<1>3. tok \in encoded_token_t
  BY <1>1, <1>2, PathFacts DEF Paths
<1>4. PICK y : y = q \o <<tok>>
  OBVIOUS
<1>5. y \in Paths /\ Extends(x, y)
  BY <1>1, <1>2, <1>3, <1>4, Longer, OrderAtLast
<1>6. PICK f \in ix : Extends(f, x)
  BY <1>1 DEF IsNode
<1>7. Extends(f, y)
  BY <1>1, <1>5, <1>6, ExtendsTransitive
<1>8. IsNode(ix, y)
  BY <1>5, <1>7 DEF IsNode
<1> QED
  BY <1>1, <1>2, <1>3, <1>4, <1>8, ChildIsNode DEF HasChild

\* The children of a node are nodes below it.
LEMMA ChildNode ==
  ASSUME NEW ix \in Indexes, NEW q \in Paths, NEW tok \in ChildTokens(ix, q)
  PROVE  /\ tok \in encoded_token_t /\ q \o <<tok>> \in Paths /\ q \o <<tok>> \in NodesOf(ix)
         /\ Len(q \o <<tok>>) = Len(q) + 1 /\ Extends(q \o <<tok>>, q)
<1>1. tok \in encoded_token_t /\ ix \in SUBSET Paths
  BY ChildTokensFacts, IndexFacts
<1>2. IsNode(ix, q \o <<tok>>)
  BY <1>1, ChildIsNode DEF HasChild
<1>3. q \o <<tok>> \in Paths /\ Len(q \o <<tok>>) = Len(q) + 1 /\ \A k \in 1..Len(q) : (q \o <<tok>>)[k] = q[k]
  BY <1>1, Longer
<1>4. Len(q) \in Nat
  BY PathFacts DEF Paths
<1>5. Extends(q \o <<tok>>, q)
  BY <1>3, <1>4 DEF Extends
<1> QED
  BY <1>1, <1>2, <1>3, <1>5, NodesAre

\* Below no formula is a node.
LEMMA LeafEnds ==
  ASSUME NEW ix \in Indexes, NEW p \in ix, NEW x \in NodesOf(ix), Extends(x, p)
  PROVE  x = p
<1>1. x \in Paths /\ p \in Paths /\ IsTerm(p) /\ ix \in SUBSET Paths
  BY NodesAre, IndexFacts
<1>2. PICK f \in ix : Extends(f, x)
  BY NodesAre DEF IsNode
<1>3. f \in Paths /\ IsTerm(f) /\ Extends(f, p)
  BY <1>1, <1>2, IndexFacts, ExtendsTransitive
<1>4. f = p
  BY <1>1, <1>3, TermsArePrefixFree DEF Paths
<1>5. Len(x) = Len(p) /\ \A k \in 1..Len(p) : x[k] = p[k]
  BY <1>1, <1>2, <1>4, PathFacts DEF Extends, Paths
<1> QED
  BY <1>1, <1>5, SeqEqual DEF Paths

\* When the iterator goes down to the first child, no node is left.
LEMMA DoneDown ==
  ASSUME NEW ix \in Indexes, NEW q \in Paths, NEW tok \in ChildTokens(ix, q),
         \A u \in ChildTokens(ix, q) : u = tok \/ TokenLess(tok, u)
  PROVE  DoneOf(ix, q \o <<tok>>, FALSE) = DoneOf(ix, q, FALSE)
<1>1. tok \in encoded_token_t
  BY ChildNode
<1>2. ASSUME NEW x \in NodesOf(ix) PROVE TermLess(x, q \o <<tok>>) <=> TermLess(x, q)
  <2>1. x \in Paths
    BY NodesAre
  <2>2. ASSUME Extends(x, q), Len(x) > Len(q), TokenLess(x[Len(q) + 1], tok) PROVE FALSE
    <3>1. x[Len(q) + 1] \in ChildTokens(ix, q) /\ x[Len(q) + 1] \in encoded_token_t
      BY <2>2, NodeGoesOn
    <3>2. TokenLess(tok, tok)
      BY <1>1, <2>2, <3>1, TokenLessTransitive
    <3> QED
      BY <1>1, <3>2, TokenLessIrreflexive
  <2> QED
    BY <1>1, <2>1, <2>2, LessAtLast
<1> QED
  BY <1>2 DEF DoneOf

\* When it leaves the last child, that child is left and nothing else.
LEMMA DoneBack ==
  ASSUME NEW ix \in Indexes, NEW q \in Paths, NEW tok \in ChildTokens(ix, q),
         \A u \in ChildTokens(ix, q) : ~TokenLess(tok, u)
  PROVE  DoneOf(ix, q, TRUE) = LeftOf(ix, q \o <<tok>>)
<1>1. PICK p : p = q \o <<tok>>
  OBVIOUS
<1>2. /\ tok \in encoded_token_t /\ p \in Paths /\ p \in NodesOf(ix) /\ Len(p) = Len(q) + 1 /\ Extends(p, q)
      /\ Len(q) \in Nat /\ p # q
  BY <1>1, ChildNode, PathFacts DEF Paths
<1>3. ASSUME NEW x \in NodesOf(ix)
      PROVE  TermLess(x, q) \/ (Extends(x, q) /\ x # q)
               <=> TermLess(x, p) \/ (Extends(x, p) /\ x # p) \/ x = p
  <2>1. x \in Paths /\ Len(x) \in Nat
    BY NodesAre, PathFacts DEF Paths
  <2>2. /\ TermLess(x, p) <=> TermLess(x, q) \/ (Extends(x, q) /\ Len(x) > Len(q) /\ TokenLess(x[Len(q) + 1], tok))
        /\ Extends(x, p) <=> Extends(x, q) /\ Len(x) > Len(q) /\ x[Len(q) + 1] = tok
    BY <1>1, <1>2, <2>1, LessAtLast, OrderAtLast
  <2>3. ASSUME Extends(x, q), x # q
        PROVE  Len(x) > Len(q) /\ (TokenLess(x[Len(q) + 1], tok) \/ x[Len(q) + 1] = tok)
    <3>1. Len(x) > Len(q)
      <4>1. ASSUME Len(x) <= Len(q) PROVE FALSE
        <5>1. Len(x) = Len(q) /\ \A k \in 1..Len(q) : x[k] = q[k]
          BY <1>2, <2>1, <2>3, <4>1 DEF Extends
        <5>2. x = q
          BY <2>1, <5>1, SeqEqual DEF Paths
        <5> QED
          BY <2>3, <5>2
      <4> QED
        BY <1>2, <2>1, <4>1
    <3>2. x[Len(q) + 1] \in ChildTokens(ix, q) /\ x[Len(q) + 1] \in encoded_token_t
      BY <2>3, <3>1, NodeGoesOn
    <3> QED
      BY <1>2, <3>1, <3>2, TokenLessTotal
  <2>4. Extends(x, q) /\ Len(x) > Len(q) => x # q
    BY <1>2, <2>1
  <2>5. Extends(p, p)
    BY <1>2 DEF Extends
  <2> QED
    BY <1>2, <2>2, <2>3, <2>4, <2>5
<1>4. DoneOf(ix, q, TRUE) = DoneOf(ix, p, TRUE) \cup {p}
  BY <1>2, <1>3 DEF DoneOf
<1> QED
  BY <1>1, <1>4 DEF LeftOf

\* When it goes on to the next child, the child before is left and nothing else.
LEMMA DoneNext ==
  ASSUME NEW ix \in Indexes, NEW q \in Paths, NEW tok \in ChildTokens(ix, q),
         NEW nxt \in ChildTokens(ix, q), TokenLess(tok, nxt),
         \A u \in ChildTokens(ix, q) : TokenLess(tok, u) => u = nxt \/ TokenLess(nxt, u)
  PROVE  DoneOf(ix, q \o <<nxt>>, FALSE) = LeftOf(ix, q \o <<tok>>)
<1>1. PICK p : p = q \o <<tok>>
  OBVIOUS
<1>2. /\ tok \in encoded_token_t /\ nxt \in encoded_token_t /\ p \in Paths /\ p \in NodesOf(ix)
      /\ Len(p) = Len(q) + 1 /\ Extends(p, q) /\ Len(q) \in Nat
  BY <1>1, ChildNode, PathFacts DEF Paths
<1>3. ASSUME NEW x \in NodesOf(ix)
      PROVE  TermLess(x, q \o <<nxt>>)
               <=> TermLess(x, p) \/ (Extends(x, p) /\ x # p) \/ x = p
  <2>1. x \in Paths /\ Len(x) \in Nat
    BY NodesAre, PathFacts DEF Paths
  <2>2. /\ TermLess(x, p) <=> TermLess(x, q) \/ (Extends(x, q) /\ Len(x) > Len(q) /\ TokenLess(x[Len(q) + 1], tok))
        /\ Extends(x, p) <=> Extends(x, q) /\ Len(x) > Len(q) /\ x[Len(q) + 1] = tok
        /\ TermLess(x, q \o <<nxt>>)
             <=> TermLess(x, q) \/ (Extends(x, q) /\ Len(x) > Len(q) /\ TokenLess(x[Len(q) + 1], nxt))
    BY <1>1, <1>2, <2>1, LessAtLast, OrderAtLast
  <2>3. ASSUME Extends(x, q), Len(x) > Len(q)
        PROVE  TokenLess(x[Len(q) + 1], nxt) <=> TokenLess(x[Len(q) + 1], tok) \/ x[Len(q) + 1] = tok
    <3>1. PICK u : u = x[Len(q) + 1]
      OBVIOUS
    <3>2. u \in ChildTokens(ix, q) /\ u \in encoded_token_t
      BY <2>3, <3>1, NodeGoesOn
    <3>3. ASSUME TokenLess(u, nxt), TokenLess(tok, u) PROVE FALSE
      <4>1. TokenLess(nxt, nxt)
        BY <1>2, <3>2, <3>3, TokenLessTransitive
      <4> QED
        BY <1>2, <4>1, TokenLessIrreflexive
    <3>4. ASSUME TokenLess(u, tok) PROVE TokenLess(u, nxt)
      BY <1>2, <3>2, <3>4, TokenLessTransitive
    <3>5. u = tok \/ TokenLess(u, tok) \/ TokenLess(tok, u)
      BY <1>2, <3>2, TokenLessTotal
    <3> QED
      BY <3>1, <3>3, <3>4, <3>5
  <2>5. Extends(p, p)
    BY <1>2 DEF Extends
  <2> QED
    BY <2>2, <2>3, <2>5
<1>4. DoneOf(ix, q \o <<nxt>>, FALSE) = DoneOf(ix, p, TRUE) \cup {p}
  BY <1>2, <1>3 DEF DoneOf
<1> QED
  BY <1>1, <1>4 DEF LeftOf

\* At a formula there is nothing below, at the root nothing before.
LEMMA DoneEnds ==
  ASSUME NEW ix \in Indexes
  PROVE  /\ \A p \in ix : DoneOf(ix, p, TRUE) = DoneOf(ix, p, FALSE)
         /\ DoneOf(ix, <<>>, FALSE) = {}
         /\ DoneOf(ix, <<>>, TRUE) = NodesOf(ix) \ {<<>>}
<1>1. \A x \in NodesOf(ix) : ~TermLess(x, <<>>) /\ Extends(x, <<>>)
  <2>1. ASSUME NEW x \in NodesOf(ix) PROVE ~TermLess(x, <<>>) /\ Extends(x, <<>>)
    <3>1. x \in Paths /\ Len(x) \in Nat /\ Len(<<>>) = 0
      BY NodesAre, PathFacts DEF Paths
    <3> QED
      BY <3>1 DEF TermLess, Extends
  <2> QED
    BY <2>1
<1> QED
  BY <1>1, LeafEnds DEF DoneOf

\* Which nodes near the path are left.
LEMMA DoneNear ==
  ASSUME NEW ix \in Indexes, NEW q \in Paths, NEW tok \in ChildTokens(ix, q), NEW back \in BOOLEAN
  PROVE  /\ q \o <<tok>> \in DoneOf(ix, q, back) <=> back
         /\ q \notin DoneOf(ix, q, back)
         /\ \A u \in ChildTokens(ix, q) : q \o <<u>> \in DoneOf(ix, q \o <<tok>>, back) <=> TokenLess(u, tok)
<1>1. /\ tok \in encoded_token_t /\ q \o <<tok>> \in Paths /\ q \o <<tok>> \in NodesOf(ix)
      /\ Len(q \o <<tok>>) = Len(q) + 1 /\ Extends(q \o <<tok>>, q) /\ Len(q) \in Nat
  BY ChildNode, PathFacts DEF Paths
<1>2. ~TermLess(q \o <<tok>>, q)
  BY <1>1, TermLessIrreflexive
<1>3. q \o <<tok>> # q
  BY <1>1
<1>4. Extends(q, q)
  BY <1>1 DEF Extends
<1>5. ~TermLess(q, q)
  BY <1>4, TermLessIrreflexive
<1>6. ASSUME NEW u \in ChildTokens(ix, q)
      PROVE  q \o <<u>> \in DoneOf(ix, q \o <<tok>>, back) <=> TokenLess(u, tok)
  <2>1. PICK x : x = q \o <<u>>
    OBVIOUS
  <2>2. /\ u \in encoded_token_t /\ x \in Paths /\ x \in NodesOf(ix)
        /\ Len(x) = Len(q) + 1 /\ Extends(x, q)
    BY <2>1, ChildNode
  <2>3. x[Len(q) + 1] = u
    BY <2>1, <2>2, Longer
  <2>4. ~TermLess(x, q)
    BY <2>2, TermLessIrreflexive
  <2>5. TermLess(x, q \o <<tok>>) <=> TokenLess(u, tok)
    BY <1>1, <2>2, <2>3, <2>4, LessAtLast
  <2>6. Extends(x, q \o <<tok>>) => x = q \o <<tok>>
    <3>1. ASSUME Extends(x, q \o <<tok>>) PROVE u = tok
      BY <1>1, <2>2, <2>3, <3>1, OrderAtLast
    <3> QED
      BY <2>1, <3>1
  <2> QED
    BY <2>1, <2>2, <2>5, <2>6 DEF DoneOf
<1> QED
  BY <1>1, <1>2, <1>3, <1>5, <1>6 DEF DoneOf

\* The writer of the export, field by field.
Writer(m, o, D, r) == [mem |-> m, offset |-> o, dfsStack |-> D, root_off |-> r]

\* The file with a node at o.
WithNode(m, o, node) == [pos \in DOMAIN m \cup {o} |-> IF pos = o THEN node ELSE m[pos]]

\* What the parts of the export do to its fields.
LEMMA WriterParts ==
  ASSUME NEW m, NEW o, NEW D, NEW r
  PROVE  /\ \A node, size : WriteNode(Writer(m, o, D, r), node, size)
                              = Writer(WithNode(m, o, node), o + size, D, r)
         /\ \A off : AddOffset(Writer(m, o, D, r), off)
                       = Writer(m, o, Append(Front(D), Append(Last(D), off)), r)
         /\ PopOffsets(Writer(m, o, D, r)) = Writer(m, o, Front(D), r)
         /\ \A node : onPush(Writer(m, o, D, r), node)
                        = IF IsLeaf(index, node) THEN Writer(m, o, D, r) ELSE Writer(m, o, Append(D, <<>>), r)
<1>1. ASSUME NEW node, NEW size
      PROVE  WriteNode(Writer(m, o, D, r), node, size) = Writer(WithNode(m, o, node), o + size, D, r)
  <2>1. PICK w : w = Writer(m, o, D, r)
    OBVIOUS
  <2>2. w.mem = m /\ w.offset = o
    BY <2>1 DEF Writer
  <2>3. PICK M : M = WithNode(m, o, node)
    OBVIOUS
  <2>4. [pos \in DOMAIN w.mem \cup {w.offset} |-> IF pos = w.offset THEN node ELSE w.mem[pos]] = M
    BY <2>2, <2>3, Zenon DEF WithNode
  <2>5. WriteNode(w, node, size) = [w EXCEPT !.mem = M, !.offset = w.offset + size]
    BY <2>4, Zenon DEF WriteNode
  <2>6. PICK n : n = o + size
    OBVIOUS
  <2>7. [w EXCEPT !.mem = M, !.offset = n] = Writer(M, n, D, r)
    <3>1. PICK v : v = [w EXCEPT !.mem = M]
      OBVIOUS
    <3>2. v = Writer(M, o, D, r)
      BY <2>1, <3>1 DEF Writer
    <3>3. [v EXCEPT !.offset = n] = Writer(M, n, D, r)
      BY <3>2 DEF Writer
    <3>4. [w EXCEPT !.mem = M, !.offset = n] = [v EXCEPT !.offset = n]
      BY <3>1
    <3> QED
      BY <3>3, <3>4
  <2> QED
    BY <2>1, <2>2, <2>3, <2>5, <2>6, <2>7, Zenon
<1>2. ASSUME NEW off
      PROVE  AddOffset(Writer(m, o, D, r), off) = Writer(m, o, Append(Front(D), Append(Last(D), off)), r)
  <2>1. PICK w : w = Writer(m, o, D, r)
    OBVIOUS
  <2>2. w.dfsStack = D
    BY <2>1 DEF Writer
  <2>3. PICK E : E = Append(Front(D), Append(Last(D), off))
    OBVIOUS
  <2>4. AddOffset(w, off) = [w EXCEPT !.dfsStack = E]
    BY <2>2, <2>3, Zenon DEF AddOffset
  <2>5. [w EXCEPT !.dfsStack = E] = Writer(m, o, E, r)
    BY <2>1 DEF Writer
  <2> QED
    BY <2>1, <2>3, <2>4, <2>5, Zenon
<1>3. PopOffsets(Writer(m, o, D, r)) = Writer(m, o, Front(D), r)
  BY DEF PopOffsets, Writer
<1>4. ASSUME NEW node
      PROVE  onPush(Writer(m, o, D, r), node)
               = IF IsLeaf(index, node) THEN Writer(m, o, D, r) ELSE Writer(m, o, Append(D, <<>>), r)
  BY DEF onPush, Writer
<1> QED
  BY <1>1, <1>2, <1>3, <1>4

\* Writing a node leaves the others as they are.
LEMMA MemFacts ==
  ASSUME NEW m, NEW o, NEW node
  PROVE  /\ o \in DOMAIN (WithNode(m, o, node)) /\ (WithNode(m, o, node))[o] = node
         /\ \A x \in DOMAIN m : x # o => x \in DOMAIN (WithNode(m, o, node)) /\ (WithNode(m, o, node))[x] = m[x]
  BY DEF WithNode

-----------------------------------------------------------------------------
\* The i-th child of a node.
Child(ix, v, i) == v \o <<ChildList(ix, v)[i]>>

\* A node of the file is v: a leaf with its hits, or an inode whose entries lead to
\* the places at which its children are.
NodeIs(ix, node, pos, v, done, at) ==
  /\ v \in ix => node = leaf_s(HitCounts[v], v)
  /\ v \notin ix =>
       /\ node.type = "INTERNAL_NODE"
       /\ node.data = [i \in 1..Len(ChildList(ix, v)) |->
                         [token |-> ChildList(ix, v)[i], off |-> pos - at[Child(ix, v, i)]]]
       /\ \A i \in 1..Len(ChildList(ix, v)) : Child(ix, v, i) \in done /\ at[Child(ix, v, i)] < pos

\* The file m, which ends at o, holds the nodes done, each of them at its place.
FileOf(ix, m, o, done, at) ==
  /\ o = HEADER_SIZE + TotalOf(ix, done)
  /\ at \in [done -> Nat]
  /\ \A v \in done : /\ HEADER_SIZE <= at[v] /\ at[v] < o /\ at[v] \in DOMAIN m
                     /\ NodeIs(ix, m[at[v]], at[v], v, done, at)

\* The places of the children of v that are written.
KidsOf(ix, offs, v, done, at) ==
  /\ offs \in Seq(Nat) /\ Len(offs) <= Len(ChildList(ix, v))
  /\ \A i \in 1..Len(ChildList(ix, v)) : Child(ix, v, i) \in done <=> i <= Len(offs)
  /\ \A i \in 1..Len(offs) : offs[i] = at[Child(ix, v, i)]

\* dfsStack has one list of places for each of the n nodes on the path from the root.
LevelsOf(ix, D, p, n, done, at) ==
  /\ D \in Seq(Seq(Nat)) /\ Len(D) = n
  /\ \A v \in Paths : Len(v) < n /\ Extends(p, v) => KidsOf(ix, D[Len(v) + 1], v, done, at)

\* A path to an inner node has a list for that node too.
LevelCount(ix, p) == IF p \in ix THEN Len(p) ELSE Len(p) + 1

\* The file is small enough for short offsets.
FitsIn(ix) ==
  HEADER_SIZE + TotalOf(ix, NodesOf(ix)) - memsector_inode_size(Cardinality(ChildTokens(ix, <<>>))) < OFF_MOD

\* It says the same of the index at hand.
LEMMA FitsIs == Fits <=> FitsIn(index)
  BY SizeIs DEF Fits, FitsIn, RootNode

\* Then no node but the root, which is the last, ends beyond the range of an offset.
LEMMA OffsetFits ==
  ASSUME NEW ix \in Indexes, <<>> \in NodesOf(ix), <<>> \notin ix, FitsIn(ix),
         NEW done \in SUBSET NodesOf(ix), <<>> \notin done
  PROVE  /\ HEADER_SIZE + TotalOf(ix, done) \in 0..(OFF_MOD - 1)
         /\ (HEADER_SIZE + TotalOf(ix, done)) % OFF_MOD = HEADER_SIZE + TotalOf(ix, done)
<1> DEFINE N == NodesOf(ix)
           c == memsector_inode_size(Cardinality(ChildTokens(ix, <<>>)))
<1>1. SizeOf(ix)[<<>>] = c
  BY DEF SizeOf
<1>2. TotalOf(ix, N) = c + TotalOf(ix, N \ {<<>>}) /\ TotalOf(ix, N) \in Nat /\ c \in Nat
  BY <1>1, TotalFacts
<1>3. TotalOf(ix, N \ {<<>>}) \in Nat /\ TotalOf(ix, done) \in Nat
  BY TotalFacts
<1>4. TotalOf(ix, done) <= TotalOf(ix, N \ {<<>>})
  <2>1. N \ {<<>>} \in SUBSET NodesOf(ix) /\ done \in SUBSET (N \ {<<>>})
    OBVIOUS
  <2> QED
    BY <2>1, TotalFacts
<1>5. HEADER_SIZE + TotalOf(ix, N) - c < OFF_MOD
  BY DEF FitsIn
<1>6. OFF_MOD \in Nat /\ HEADER_SIZE \in Nat
  BY MemsectorAssumption DEF HEADER_SIZE
<1> HIDE DEF N, c
<1>7. HEADER_SIZE + TotalOf(ix, done) \in 0..(OFF_MOD - 1)
  BY <1>2, <1>3, <1>4, <1>5, <1>6
<1>8. \A x \in 0..(OFF_MOD - 1) : x % OFF_MOD = x
  BY <1>6
<1> QED
  BY <1>7, <1>8

\* Nodes stay what they are when others are added.
LEMMA NodeStays ==
  ASSUME NEW ix, NEW node, NEW pos, NEW v, NEW done, NEW at, NEW done2, NEW at2,
         NodeIs(ix, node, pos, v, done, at), \A x \in done : x \in done2 /\ at2[x] = at[x]
  PROVE  NodeIs(ix, node, pos, v, done2, at2)
<1>1. CASE v \in ix
  BY <1>1 DEF NodeIs
<1>2. CASE v \notin ix
  <2> DEFINE n == Len(ChildList(ix, v))
  <2>1. \A i \in 1..n : Child(ix, v, i) \in done /\ at[Child(ix, v, i)] < pos
    BY <1>2 DEF NodeIs
  <2>2. \A i \in 1..n : Child(ix, v, i) \in done2 /\ at2[Child(ix, v, i)] = at[Child(ix, v, i)]
    BY <2>1
  <2>3. [i \in 1..n |-> [token |-> ChildList(ix, v)[i], off |-> pos - at[Child(ix, v, i)]]]
          = [i \in 1..n |-> [token |-> ChildList(ix, v)[i], off |-> pos - at2[Child(ix, v, i)]]]
    <3> DEFINE e(i) == [token |-> ChildList(ix, v)[i], off |-> pos - at[Child(ix, v, i)]]
               e2(i) == [token |-> ChildList(ix, v)[i], off |-> pos - at2[Child(ix, v, i)]]
    <3>1. \A i \in 1..n : e(i) = e2(i)
      BY <2>2
    <3> HIDE DEF e, e2, n
    <3>2. [i \in 1..n |-> e(i)] = [i \in 1..n |-> e2(i)]
      BY <3>1
    <3> QED
      BY <3>2 DEF e, e2
  <2>4. node.type = "INTERNAL_NODE"
    BY <1>2 DEF NodeIs
  <2>5. node.data = [i \in 1..n |-> [token |-> ChildList(ix, v)[i], off |-> pos - at[Child(ix, v, i)]]]
    BY <1>2 DEF NodeIs
  <2>6. node.data = [i \in 1..n |-> [token |-> ChildList(ix, v)[i], off |-> pos - at2[Child(ix, v, i)]]]
    BY <2>3, <2>5, Zenon
  <2>7. \A i \in 1..n : Child(ix, v, i) \in done2 /\ at2[Child(ix, v, i)] < pos
    BY <2>1, <2>2
  <2> QED
    BY <1>2, <2>4, <2>6, <2>7, Zenon DEF NodeIs
<1> QED
  BY <1>1, <1>2

\* A node is added to the file.
LEMMA FileAdd ==
  ASSUME NEW ix \in Indexes, NEW done \in SUBSET NodesOf(ix), NEW v \in NodesOf(ix), v \notin done,
         NEW m, NEW o, NEW at, FileOf(ix, m, o, done, at),
         NEW node, NodeIs(ix, node, o, v, done, at),
         NEW at2, at2 = [x \in done \cup {v} |-> IF x = v THEN o ELSE at[x]]
  PROVE  FileOf(ix, WithNode(m, o, node), o + SizeOf(ix)[v], done \cup {v}, at2)
<1> DEFINE done2 == done \cup {v}
<1>1. done2 \in SUBSET NodesOf(ix) /\ done2 \ {v} = done
  OBVIOUS
<1>2. /\ TotalOf(ix, done) \in Nat /\ TotalOf(ix, done2) = SizeOf(ix)[v] + TotalOf(ix, done)
      /\ SizeOf(ix)[v] \in Nat
  <2>1. TotalOf(ix, done2) = SizeOf(ix)[v] + TotalOf(ix, done2 \ {v})
    BY <1>1, TotalFacts
  <2> QED
    BY <1>1, <2>1, TotalFacts
<1>3. SizeOf(ix)[v] > 0
  <2>1. Cardinality(ChildTokens(ix, v)) \in Nat
    BY NodesAre, ChildTokensFacts, FS_CardinalityType
  <2>2. 2 + 2 * Cardinality(ChildTokens(ix, v)) > 0
    BY <2>1
  <2> QED
    BY <2>2 DEF SizeOf, memsector_leaf_size, memsector_inode_size
<1>4. o = HEADER_SIZE + TotalOf(ix, done) /\ at \in [done -> Nat] /\ o \in Nat /\ HEADER_SIZE \in Nat
  BY <1>2 DEF FileOf, HEADER_SIZE
<1>5. o + SizeOf(ix)[v] = HEADER_SIZE + TotalOf(ix, done2)
  BY <1>2, <1>4
<1>6. at2 \in [done2 -> Nat] /\ at2[v] = o /\ \A x \in done : x \in done2 /\ at2[x] = at[x]
  BY <1>4
<1> HIDE DEF done2
<1>7. ASSUME NEW x \in done2
      PROVE  /\ HEADER_SIZE <= at2[x] /\ at2[x] < o + SizeOf(ix)[v] /\ at2[x] \in DOMAIN WithNode(m, o, node)
             /\ NodeIs(ix, WithNode(m, o, node)[at2[x]], at2[x], x, done2, at2)
  <2>1. CASE x = v
    <3>1. o \in DOMAIN WithNode(m, o, node) /\ WithNode(m, o, node)[o] = node
      BY MemFacts
    <3>2. NodeIs(ix, node, o, v, done2, at2)
      BY <1>6, NodeStays
    <3>3. HEADER_SIZE <= o /\ o < o + SizeOf(ix)[v]
      BY <1>2, <1>3, <1>4
    <3> QED
      BY <1>6, <2>1, <3>1, <3>2, <3>3
  <2>2. CASE x # v
    <3>1. x \in done
      BY <2>2 DEF done2
    <3>2. /\ HEADER_SIZE <= at[x] /\ at[x] < o /\ at[x] \in DOMAIN m /\ at[x] \in Nat
          /\ NodeIs(ix, m[at[x]], at[x], x, done, at)
      BY <1>4, <3>1 DEF FileOf
    <3>3. at[x] # o /\ at[x] < o + SizeOf(ix)[v]
      BY <1>2, <1>4, <3>2
    <3>4. at[x] \in DOMAIN WithNode(m, o, node) /\ WithNode(m, o, node)[at[x]] = m[at[x]]
      BY <3>2, <3>3, MemFacts
    <3>5. NodeIs(ix, m[at[x]], at[x], x, done2, at2)
      BY <1>6, <3>2, NodeStays
    <3> QED
      BY <1>6, <3>1, <3>2, <3>3, <3>4, <3>5
  <2> QED
    BY <2>1, <2>2
<1>8. FileOf(ix, WithNode(m, o, node), o + SizeOf(ix)[v], done2, at2)
  BY <1>5, <1>6, <1>7 DEF FileOf
<1> QED
  BY <1>8 DEF done2

\* v can be written at o as an inode with the offsets offs.
Writable(m, o, v, offs, done, at) ==
  \E node : /\ NodeIs(index, node, o, v, done, at)
            /\ \A D, r : memsector_write_inode(Writer(m, o, D, r), v, offs, o)
                           = Writer(WithNode(m, o, node), o + SizeOf(index)[v], D, r)

\* An inode is written when its children are: its offsets lead to them.
LEMMA InodeIs ==
  ASSUME index \in Indexes, NEW v \in NodesOf(index), v \notin index,
         NEW m, NEW o, NEW done \in SUBSET NodesOf(index), NEW at,
         FileOf(index, m, o, done, at), o \in 0..(OFF_MOD - 1),
         NEW offs, KidsOf(index, offs, v, done, at), Len(offs) = Len(ChildList(index, v))
  PROVE  Writable(m, o, v, offs, done, at)
<1> DEFINE c == Children(v)
           n == Len(ChildList(index, v))
           L == o - Head(offs) \notin 0..(OFF_MOD - 1)
           E(i) == encoded_token_dict_entry_s(L, c[i], o - offs[i])
           node == inode_s(L, [i \in DOMAIN c |-> E(i)])
           size == memsector_inode_size(Len(c)) + (IF L THEN Len(c) ELSE 0)
<1>1. \A D, r : memsector_write_inode(Writer(m, o, D, r), v, offs, o) = WriteNode(Writer(m, o, D, r), node, size)
  BY DEF memsector_write_inode
<1>2. v \in Paths /\ IsNode(index, v)
  BY NodesAre
<1>3. c = ChildList(index, v)
  BY DEF Children, ChildList
<1>4. DOMAIN c = 1..n /\ Len(c) = n /\ n \in Nat /\ n = Cardinality(ChildTokens(index, v))
  BY <1>2, <1>3, ChildListFacts
<1>5. n # 0
  <2>1. PICK t : t \in ChildTokens(index, v)
    BY <1>2, NodeHasChild
  <2>2. PICK i \in 1..n : ChildList(index, v)[i] = t
    BY <1>2, <2>1, ChildListFacts
  <2> QED
    BY <1>4, <2>2
<1>6. offs \in Seq(Nat) /\ Len(offs) = n
  BY DEF KidsOf
<1>7. ASSUME NEW i \in 1..n
      PROVE  /\ Child(index, v, i) \in done /\ at[Child(index, v, i)] < o
             /\ offs[i] = at[Child(index, v, i)] /\ offs[i] \in Nat
  <2>1. Child(index, v, i) \in done /\ offs[i] = at[Child(index, v, i)]
    BY <1>4, <1>6 DEF KidsOf
  <2>2. at[Child(index, v, i)] < o /\ at[Child(index, v, i)] \in Nat
    BY <2>1 DEF FileOf
  <2> QED
    BY <2>1, <2>2
<1>8. OFF_MOD \in Nat /\ o \in Nat
  BY MemsectorAssumption
<1>9. \A i \in 1..n : o - offs[i] \in 0..(OFF_MOD - 1)
  <2>1. ASSUME NEW i \in 1..n PROVE o - offs[i] \in 0..(OFF_MOD - 1)
    <3>1. offs[i] < o /\ offs[i] \in Nat /\ o <= OFF_MOD - 1
      BY <1>7
    <3> QED
      BY <1>8, <3>1
  <2> QED
    BY <2>1
<1>10. L = FALSE
  <2>1. 1 \in 1..n /\ Head(offs) = offs[1]
    BY <1>4, <1>5, <1>6
  <2> QED
    BY <1>9, <2>1
<1>11. \A x \in 0..(OFF_MOD - 1) : x % OFF_MOD = x
  BY <1>8
<1>12. ASSUME NEW i \in 1..n
       PROVE  E(i) = [token |-> ChildList(index, v)[i], off |-> o - at[Child(index, v, i)]]
  <2>1. o - offs[i] = o - at[Child(index, v, i)] /\ (o - offs[i]) % OFF_MOD = o - offs[i]
    BY <1>7, <1>9, <1>11
  <2> HIDE DEF L, c
  <2> QED
    BY <1>3, <1>10, <2>1 DEF encoded_token_dict_entry_s
<1>13. [i \in DOMAIN c |-> E(i)]
         = [i \in 1..n |-> [token |-> ChildList(index, v)[i], off |-> o - at[Child(index, v, i)]]]
  <2> DEFINE G(i) == [token |-> ChildList(index, v)[i], off |-> o - at[Child(index, v, i)]]
  <2>1. \A i \in 1..n : E(i) = G(i)
    BY <1>12
  <2> HIDE DEF E, c, n, G
  <2>2. [i \in DOMAIN c |-> E(i)] = [i \in 1..n |-> G(i)]
    BY <1>4, <2>1
  <2> QED
    BY <2>2 DEF G
<1>14. node.type = "INTERNAL_NODE" /\ node.data = [i \in DOMAIN c |-> E(i)]
  <2> HIDE DEF L, E, c
  <2> QED
    BY <1>10 DEF inode_s
<1>15. NodeIs(index, node, o, v, done, at)
  <2> HIDE DEF node, E, c, L
  <2>1. node.data = [i \in 1..n |-> [token |-> ChildList(index, v)[i], off |-> o - at[Child(index, v, i)]]]
    BY <1>13, <1>14, Zenon
  <2>2. node.type = "INTERNAL_NODE"
    BY <1>14
  <2>3. \A i \in 1..n : Child(index, v, i) \in done /\ at[Child(index, v, i)] < o
    BY <1>7
  <2> QED
    BY <2>1, <2>2, <2>3, Zenon DEF NodeIs
<1>16. size = SizeOf(index)[v]
  <2>1. SizeOf(index)[v] = memsector_inode_size(n)
    BY <1>4 DEF SizeOf
  <2>2. memsector_inode_size(n) + 0 = memsector_inode_size(n)
    BY <1>4 DEF memsector_inode_size
  <2> HIDE DEF L, c, n
  <2> QED
    BY <1>4, <1>10, <2>1, <2>2
<1> HIDE DEF node, size
<1>17. \A D, r : WriteNode(Writer(m, o, D, r), node, size) = Writer(WithNode(m, o, node), o + size, D, r)
  BY WriterParts
<1> QED
  BY <1>1, <1>15, <1>16, <1>17 DEF Writable

-----------------------------------------------------------------------------
\* A sequence without its last element.
LEMMA FrontFacts ==
  ASSUME NEW S, NEW s \in Seq(S), NEW n \in Nat, Len(s) = n + 1
  PROVE  /\ Front(s) \in Seq(S) /\ Len(Front(s)) = n /\ \A i \in 1..n : Front(s)[i] = s[i]
         /\ Last(s) = s[n + 1] /\ Last(s) \in S
<1>1. \A i \in 1..(n + 1) : s[i] \in S
  BY ElementOfSeq
<1>2. PICK u : u = SubSeq(s, 1, n)
  OBVIOUS
<1>3. u \in Seq(S) /\ Len(u) = n /\ \A i \in 1..n : u[i] = s[i]
  <2>1. 1 \in Int /\ n \in Int /\ \A i \in 1..n : s[i] \in S
    BY <1>1
  <2>2. /\ SubSeq(s, 1, n) \in Seq(S)
        /\ Len(SubSeq(s, 1, n)) = IF 1 <= n THEN n - 1 + 1 ELSE 0
        /\ \A i \in 1..(n - 1 + 1) : SubSeq(s, 1, n)[i] = s[1 + i - 1]
    BY <2>1, SubSeqProperties
  <2>3. n - 1 + 1 = n /\ \A i \in 1..n : 1 + i - 1 = i
    OBVIOUS
  <2> QED
    BY <1>2, <2>2, <2>3
<1>4. Len(s) - 1 = n /\ n + 1 \in 1..(n + 1)
  OBVIOUS
<1> QED
  BY <1>1, <1>2, <1>3, <1>4 DEF Front, Last

\* The nodes on the way to a child are the child and those on the way to its parent.
LEMMA PathTo ==
  ASSUME NEW q \in Paths, NEW t \in encoded_token_t, NEW x \in Paths, Extends(q \o <<t>>, x)
  PROVE  /\ Len(x) \in Nat /\ Len(x) <= Len(q) + 1
         /\ Len(x) = Len(q) + 1 => x = q \o <<t>>
         /\ Len(x) # Len(q) + 1 => Extends(q, x)
<1>1. PICK v : v = q \o <<t>>
  OBVIOUS
<1>2. PICK n \in Nat, l \in Nat : n = Len(q) /\ l = Len(x)
  BY PathFacts DEF Paths
<1>3. v \in Paths /\ Len(v) = n + 1 /\ \A k \in 1..n : v[k] = q[k]
  BY <1>1, <1>2, Longer
<1>4. l <= n + 1 /\ \A k \in 1..l : v[k] = x[k]
  BY <1>1, <1>2, <1>3 DEF Extends
<1>5. ASSUME l = n + 1 PROVE x = v
  BY <1>2, <1>3, <1>4, <1>5, SeqEqual DEF Paths
<1>6. ASSUME l # n + 1 PROVE Extends(q, x)
  <2>1. l <= n /\ \A k \in 1..l : k \in 1..n
    BY <1>4, <1>6
  <2>2. \A k \in 1..l : q[k] = x[k]
    BY <1>3, <1>4, <2>1
  <2> QED
    BY <1>2, <2>1, <2>2 DEF Extends
<1> QED
  BY <1>1, <1>2, <1>4, <1>5, <1>6

\* And those on the way to the parent are on the way to the child.
LEMMA PathFrom ==
  ASSUME NEW q \in Paths, NEW t \in encoded_token_t, NEW x \in Paths, Extends(q, x)
  PROVE  /\ Len(x) \in Nat /\ Len(q) \in Nat /\ Len(x) <= Len(q) /\ Extends(q \o <<t>>, x)
         /\ Len(x) = Len(q) => x = q
<1>1. Len(x) \in Nat /\ Len(q) \in Nat /\ Len(x) <= Len(q)
  BY PathFacts DEF Paths, Extends
<1>2. q \o <<t>> \in Paths /\ Extends(q \o <<t>>, q)
  BY <1>1, Longer DEF Extends
<1>3. Extends(q \o <<t>>, x)
  BY <1>2, ExtendsTransitive
<1>4. ASSUME Len(x) = Len(q) PROVE x = q
  BY <1>4, SeqEqual DEF Extends, Paths
<1> QED
  BY <1>1, <1>3, <1>4

\* The lists of the nodes on the way when the last one is dropped.
LEMMA LevelsDrop ==
  ASSUME NEW ix, NEW q \in Paths, NEW t \in encoded_token_t, NEW D, NEW done, NEW at,
         LevelsOf(ix, D, q \o <<t>>, Len(q) + 2, done, at)
  PROVE  /\ Last(D) \in Seq(Nat) /\ KidsOf(ix, Last(D), q \o <<t>>, done, at)
         /\ LevelsOf(ix, Front(D), q, Len(q) + 1, done, at)
<1>1. PICK n \in Nat : n = Len(q)
  BY PathFacts DEF Paths
<1>2. PICK v : v = q \o <<t>>
  OBVIOUS
<1>3. v \in Paths /\ Len(v) = n + 1 /\ Extends(v, v)
  BY <1>1, <1>2, Longer DEF Extends
<1>4. /\ D \in Seq(Seq(Nat)) /\ Len(D) = (n + 1) + 1
      /\ \A x \in Paths : Len(x) < n + 2 /\ Extends(v, x) => KidsOf(ix, D[Len(x) + 1], x, done, at)
  <2>1. n + 2 = (n + 1) + 1
    OBVIOUS
  <2> QED
    BY <1>1, <1>2, <2>1 DEF LevelsOf
<1>5. /\ Front(D) \in Seq(Seq(Nat)) /\ Len(Front(D)) = n + 1 /\ \A i \in 1..(n + 1) : Front(D)[i] = D[i]
      /\ Last(D) = D[(n + 1) + 1] /\ Last(D) \in Seq(Nat)
  <2>1. n + 1 \in Nat
    OBVIOUS
  <2> QED
    BY <1>4, <2>1, FrontFacts
<1>6. KidsOf(ix, Last(D), v, done, at)
  <2>1. n + 1 < n + 2
    OBVIOUS
  <2> QED
    BY <1>3, <1>4, <1>5, <2>1
<1>7. ASSUME NEW x \in Paths, Len(x) < n + 1, Extends(q, x)
      PROVE  KidsOf(ix, Front(D)[Len(x) + 1], x, done, at)
  <2>1. Len(x) \in Nat /\ Extends(v, x)
    BY <1>2, <1>7, PathFrom
  <2>2. Len(x) + 1 \in 1..(n + 1) /\ Len(x) < n + 2
    BY <1>7, <2>1
  <2> QED
    BY <1>4, <1>5, <2>1, <2>2
<1> QED
  BY <1>1, <1>2, <1>5, <1>6, <1>7 DEF LevelsOf

\* The lists above a node are those of the nodes on the way to its parent.
LEMMA LevelsSame ==
  ASSUME NEW ix, NEW q \in Paths, NEW t \in encoded_token_t, NEW D, NEW done, NEW at
  PROVE  LevelsOf(ix, D, q, Len(q) + 1, done, at) <=> LevelsOf(ix, D, q \o <<t>>, Len(q) + 1, done, at)
<1>1. ASSUME NEW x \in Paths, Len(x) < Len(q) + 1 PROVE Extends(q, x) <=> Extends(q \o <<t>>, x)
  <2>1. Len(x) \in Nat /\ Len(q) \in Nat /\ Len(x) # Len(q) + 1
    BY <1>1, PathFacts DEF Paths
  <2> QED
    BY <2>1, PathTo, PathFrom
<1> QED
  BY <1>1 DEF LevelsOf

\* A node none of whose children is written begins with an empty list.
LEMMA LevelsBegin ==
  ASSUME NEW ix \in Indexes, NEW q \in Paths, NEW t \in encoded_token_t, NEW D, NEW done, NEW at,
         LevelsOf(ix, D, q, Len(q) + 1, done, at),
         \A u \in ChildTokens(ix, q \o <<t>>) : (q \o <<t>>) \o <<u>> \notin done
  PROVE  LevelsOf(ix, Append(D, <<>>), q \o <<t>>, Len(q \o <<t>>) + 1, done, at)
<1>1. PICK n \in Nat : n = Len(q)
  BY PathFacts DEF Paths
<1>2. PICK v : v = q \o <<t>>
  OBVIOUS
<1>3. v \in Paths /\ Len(v) = n + 1
  BY <1>1, <1>2, Longer
<1>4. /\ D \in Seq(Seq(Nat)) /\ Len(D) = n + 1
      /\ \A x \in Paths : Len(x) < n + 1 /\ Extends(q, x) => KidsOf(ix, D[Len(x) + 1], x, done, at)
  BY <1>1 DEF LevelsOf
<1>5. PICK E : E = Append(D, <<>>)
  OBVIOUS
<1>6. /\ E \in Seq(Seq(Nat)) /\ Len(E) = (n + 1) + 1 /\ E[(n + 1) + 1] = <<>>
      /\ \A i \in 1..(n + 1) : E[i] = D[i]
  <2>1. <<>> \in Seq(Nat)
    OBVIOUS
  <2> QED
    BY <1>4, <1>5, <2>1, AppendProperties
<1>7. KidsOf(ix, <<>>, v, done, at)
  <2>1. \A i \in 1..Len(ChildList(ix, v)) : ChildList(ix, v)[i] \in ChildTokens(ix, v)
    BY <1>3, ChildListFacts
  <2>2. \A i \in 1..Len(ChildList(ix, v)) : Child(ix, v, i) \notin done
    BY <1>2, <2>1 DEF Child
  <2>3. Len(ChildList(ix, v)) \in Nat
    BY <1>3, ChildListFacts
  <2> QED
    BY <2>2, <2>3 DEF KidsOf
<1>8. ASSUME NEW x \in Paths, Len(x) < (n + 1) + 1, Extends(v, x)
      PROVE  KidsOf(ix, E[Len(x) + 1], x, done, at)
  <2>1. CASE Len(x) = n + 1
    <3>1. x = v
      BY <1>1, <1>2, <1>8, <2>1, PathTo
    <3> QED
      BY <1>6, <1>7, <2>1, <3>1
  <2>2. CASE Len(x) # n + 1
    <3>1. Extends(q, x) /\ Len(x) \in Nat
      BY <1>1, <1>2, <1>8, <2>2, PathTo
    <3>2. Len(x) < n + 1 /\ Len(x) + 1 \in 1..(n + 1)
      BY <1>8, <2>2, <3>1
    <3> QED
      BY <1>4, <1>6, <3>1, <3>2
  <2> QED
    BY <2>1, <2>2
<1> QED
  BY <1>2, <1>3, <1>5, <1>6, <1>8 DEF LevelsOf

\* The places after one more node is written.
Placed(at, done, v, o) == [x \in done \cup {v} |-> IF x = v THEN o ELSE at[x]]

\* The child that is written next joins the list of its parent.
LEMMA KidsAdd ==
  ASSUME NEW ix \in Indexes, NEW q \in Paths, NEW t \in ChildTokens(ix, q), NEW offs, NEW done, NEW at,
         NEW o \in Nat, KidsOf(ix, offs, q, done, at),
         \A u \in ChildTokens(ix, q) : q \o <<u>> \in done <=> TokenLess(u, t)
  PROVE  KidsOf(ix, Append(offs, o), q, done \cup {q \o <<t>>}, Placed(at, done, q \o <<t>>, o))
<1> DEFINE c == ChildList(ix, q)
           n == Len(c)
           v == q \o <<t>>
           K(i) == Child(ix, q, i)
<1>1. /\ n \in Nat /\ (\A i \in 1..n : c[i] \in ChildTokens(ix, q) /\ c[i] \in encoded_token_t)
      /\ \A i, j \in 1..n : i < j <=> TokenLess(c[i], c[j])
  BY ChildListFacts, ChildNode
<1>2. PICK j \in 1..n : c[j] = t
  BY ChildListFacts
<1>3. PICK k \in Nat : k = Len(offs) /\ k <= n /\ offs \in Seq(Nat)
  BY DEF KidsOf
<1>4. /\ \A i \in 1..n : K(i) \in done <=> i <= k
      /\ \A i \in 1..k : offs[i] = at[K(i)]
  BY <1>3 DEF KidsOf
<1>5. \A i \in 1..n : K(i) \in done <=> i < j
  BY <1>1, <1>2 DEF Child
<1>6. \A i \in 1..n : K(i) = v <=> i = j
  <2>1. ASSUME NEW i \in 1..n, K(i) = v PROVE i = j
    <3>1. c[i] = t
      <4>1. K(i)[Len(q) + 1] = c[i] /\ v[Len(q) + 1] = t
        BY <1>1, <1>2, Longer DEF Child
      <4> QED
        BY <2>1, <4>1
    <3>2. ~(i < j) /\ ~(j < i)
      BY <1>1, <1>2, <3>1, TokenLessIrreflexive
    <3> QED
      BY <1>1, <3>2
  <2>2. K(j) = v
    BY <1>2 DEF Child
  <2> QED
    BY <2>1, <2>2
<1> HIDE DEF K, c, v, n
<1>7. k + 1 = j
  <2>1. ~(j <= k)
    BY <1>4, <1>5
  <2>2. ASSUME j - 1 > k PROVE FALSE
    <3>1. j - 1 \in 1..n /\ j - 1 < j /\ ~(j - 1 <= k)
      BY <1>1, <1>3, <2>2
    <3> QED
      BY <1>4, <1>5, <3>1
  <2> QED
    BY <1>1, <1>3, <2>1, <2>2
<1>8. PICK s : s = Append(offs, o)
  OBVIOUS
<1>9. s \in Seq(Nat) /\ Len(s) = k + 1 /\ s[k + 1] = o /\ \A i \in 1..k : s[i] = offs[i]
  BY <1>3, <1>8, AppendProperties
<1>10. PICK done2 : done2 = done \cup {v}
  OBVIOUS
<1>11. PICK at2 : at2 = Placed(at, done, v, o)
  OBVIOUS
<1>12. at2[v] = o /\ \A x \in done : x # v => at2[x] = at[x]
  BY <1>11 DEF Placed
<1>13. \A i \in 1..n : K(i) \in done2 <=> i <= k + 1
  <2>1. ASSUME NEW i \in 1..n PROVE K(i) \in done2 <=> i <= k + 1
    <3>1. K(i) \in done2 <=> i <= k \/ i = k + 1
      BY <1>4, <1>6, <1>7, <1>10
    <3> QED
      BY <1>1, <3>1
  <2> QED
    BY <2>1
<1>14. ASSUME NEW i \in 1..(k + 1) PROVE s[i] = at2[K(i)]
  <2>1. CASE i = k + 1
    BY <1>6, <1>7, <1>9, <1>12, <2>1
  <2>2. CASE i # k + 1
    <3>1. i \in 1..k /\ i \in 1..n /\ i <= k
      BY <1>1, <1>3, <2>2
    <3>2. K(i) \in done /\ K(i) # v
      BY <1>4, <1>6, <1>7, <2>2, <3>1
    <3> QED
      BY <1>4, <1>9, <1>12, <3>1, <3>2
  <2> QED
    BY <2>1, <2>2
<1>15. k + 1 <= n
  BY <1>1, <1>7
<1> QED
  BY <1>8, <1>9, <1>10, <1>11, <1>13, <1>14, <1>15 DEF KidsOf, K, c, v, n

\* The lists further up stay what they are.
LEMMA KidsStay ==
  ASSUME NEW ix \in Indexes, NEW x \in Paths, NEW v, Len(v) # Len(x) + 1, NEW offs, NEW done, NEW at,
         NEW o, KidsOf(ix, offs, x, done, at)
  PROVE  KidsOf(ix, offs, x, done \cup {v}, Placed(at, done, v, o))
<1> DEFINE n == Len(ChildList(ix, x))
           K(i) == Child(ix, x, i)
<1>1. \A i \in 1..n : K(i) # v
  <2>1. \A i \in 1..n : ChildList(ix, x)[i] \in ChildTokens(ix, x)
    BY ChildListFacts
  <2>2. \A i \in 1..n : Len(K(i)) = Len(x) + 1
    BY <2>1, ChildNode DEF Child
  <2> QED
    BY <2>2
<1>2. n \in Nat
  BY ChildListFacts
<1>3. PICK k \in Nat : k = Len(offs) /\ k <= n /\ offs \in Seq(Nat)
  BY DEF KidsOf
<1>4. /\ \A i \in 1..n : K(i) \in done <=> i <= k
      /\ \A i \in 1..k : offs[i] = at[K(i)]
  BY <1>3 DEF KidsOf
<1> HIDE DEF K, n
<1>5. \A i \in 1..n : K(i) \in done \cup {v} <=> i <= k
  BY <1>1, <1>4
<1>6. ASSUME NEW i \in 1..k PROVE offs[i] = Placed(at, done, v, o)[K(i)]
  <2>1. i \in 1..n /\ i <= k
    BY <1>2, <1>3
  <2>2. K(i) \in done /\ K(i) # v
    BY <1>1, <1>4, <2>1
  <2> QED
    BY <1>4, <2>2 DEF Placed
<1> QED
  BY <1>3, <1>5, <1>6 DEF KidsOf, K, n

\* The lists after a child is written: that of its parent grows by its place.
LEMMA LevelsAdd ==
  ASSUME NEW ix \in Indexes, NEW q \in Paths, NEW t \in ChildTokens(ix, q), NEW D, NEW done, NEW at,
         NEW o \in Nat, LevelsOf(ix, D, q, Len(q) + 1, done, at),
         \A u \in ChildTokens(ix, q) : q \o <<u>> \in done <=> TokenLess(u, t)
  PROVE  LevelsOf(ix, Append(Front(D), Append(Last(D), o)), q, Len(q) + 1,
                  done \cup {q \o <<t>>}, Placed(at, done, q \o <<t>>, o))
<1>1. PICK n \in Nat : n = Len(q)
  BY PathFacts DEF Paths
<1>2. PICK v : v = q \o <<t>>
  OBVIOUS
<1>3. t \in encoded_token_t /\ Len(v) = n + 1
  BY <1>1, <1>2, ChildNode
<1>4. /\ D \in Seq(Seq(Nat)) /\ Len(D) = n + 1
      /\ \A x \in Paths : Len(x) < n + 1 /\ Extends(q, x) => KidsOf(ix, D[Len(x) + 1], x, done, at)
  BY <1>1 DEF LevelsOf
<1>5. /\ Front(D) \in Seq(Seq(Nat)) /\ Len(Front(D)) = n /\ (\A i \in 1..n : Front(D)[i] = D[i])
      /\ Last(D) = D[n + 1] /\ Last(D) \in Seq(Nat)
  BY <1>4, FrontFacts
<1>6. PICK s : s = Append(Last(D), o)
  OBVIOUS
<1>7. s \in Seq(Nat)
  BY <1>5, <1>6, AppendProperties
<1>8. PICK E : E = Append(Front(D), s)
  OBVIOUS
<1>9. E \in Seq(Seq(Nat)) /\ Len(E) = n + 1 /\ E[n + 1] = s /\ \A i \in 1..n : E[i] = D[i]
  BY <1>5, <1>7, <1>8, AppendProperties
<1>10. ASSUME NEW x \in Paths, Len(x) < n + 1, Extends(q, x)
       PROVE  KidsOf(ix, E[Len(x) + 1], x, done \cup {v}, Placed(at, done, v, o))
  <2>1. Len(x) \in Nat /\ (Len(x) = n => x = q)
    BY <1>1, <1>3, <1>10, PathFrom
  <2>2. KidsOf(ix, D[Len(x) + 1], x, done, at)
    BY <1>4, <1>10
  <2>3. CASE Len(x) = n
    <3>1. x = q /\ KidsOf(ix, Last(D), q, done, at)
      BY <1>5, <2>1, <2>2, <2>3
    <3>2. KidsOf(ix, s, q, done \cup {v}, Placed(at, done, v, o))
      BY <1>2, <1>6, <3>1, KidsAdd
    <3> QED
      BY <1>9, <2>3, <3>1, <3>2
  <2>4. CASE Len(x) # n
    <3>1. Len(x) + 1 \in 1..n /\ Len(v) # Len(x) + 1
      BY <1>3, <1>10, <2>1, <2>4
    <3>2. KidsOf(ix, D[Len(x) + 1], x, done \cup {v}, Placed(at, done, v, o))
      BY <2>2, <3>1, KidsStay
    <3> QED
      BY <1>9, <3>1, <3>2
  <2> QED
    BY <2>3, <2>4
<1>11. LevelsOf(ix, E, q, n + 1, done \cup {v}, Placed(at, done, v, o))
  BY <1>9, <1>10 DEF LevelsOf
<1> QED
  BY <1>1, <1>2, <1>6, <1>8, <1>11, Zenon

\* The export has written the nodes done, and has lists for the n nodes on the way to p.
Exported(ix, w, p, n, done) ==
  \E m, o, D, at : /\ w = Writer(m, o, D, NoRoot)
                   /\ FileOf(ix, m, o, done, at)
                   /\ LevelsOf(ix, D, p, n, done, at)

\* The file is complete.
Finished(ix, w) ==
  \E m, o, D, at : w = Writer(m, o, D, at[<<>>]) /\ FileOf(ix, m, o, NodesOf(ix), at)

\* onPop writes the node that the iterator leaves.
LEMMA Closes ==
  ASSUME index \in Indexes, <<>> \in NodesOf(index), <<>> \notin index, FitsIn(index),
         NEW q \in Paths, NEW t \in ChildTokens(index, q), NEW w,
         Exported(index, w, q \o <<t>>, LevelCount(index, q \o <<t>>), DoneOf(index, q \o <<t>>, TRUE))
  PROVE  Exported(index, onPop(w, q \o <<t>>), q, Len(q) + 1, LeftOf(index, q \o <<t>>))
<1>1. PICK v : v = q \o <<t>>
  OBVIOUS
<1>2. /\ t \in encoded_token_t /\ v \in Paths /\ v \in NodesOf(index) /\ Len(v) = Len(q) + 1
      /\ Len(q) \in Nat /\ v # <<>>
  BY <1>1, ChildNode, PathFacts DEF Paths
<1>3. PICK done : done = DoneOf(index, v, TRUE)
  OBVIOUS
<1>4. PICK m, o, D, at : /\ w = Writer(m, o, D, NoRoot) /\ FileOf(index, m, o, done, at)
                         /\ LevelsOf(index, D, v, LevelCount(index, v), done, at)
  BY <1>1, <1>3 DEF Exported
<1>5. done \in SUBSET NodesOf(index)
  BY <1>3 DEF DoneOf
<1>6. <<>> \notin done
  <2>1. <<>> \in Paths /\ Len(<<>>) = 0
    BY EmptyPath
  <2>2. ~TermLess(<<>>, v)
    BY DEF TermLess
  <2>3. ~Extends(<<>>, v)
    BY <1>2, <2>1 DEF Extends
  <2> QED
    BY <1>3, <2>2, <2>3 DEF DoneOf
<1>7. v \notin done
  <2>1. Extends(v, v)
    BY <1>2 DEF Extends
  <2>2. ~TermLess(v, v)
    BY <1>2, <2>1, TermLessIrreflexive
  <2> QED
    BY <1>3, <2>2 DEF DoneOf
<1>8. \A u \in ChildTokens(index, q) : q \o <<u>> \in done <=> TokenLess(u, t)
  BY <1>1, <1>3, DoneNear
<1>9. o \in 0..(OFF_MOD - 1) /\ o % OFF_MOD = o
  BY <1>4, <1>5, <1>6, OffsetFits DEF FileOf
<1>10. memsector_get_current_offset(w) = o
  <2>1. w.offset = o
    BY <1>4 DEF Writer
  <2> QED
    BY <1>9, <2>1 DEF memsector_get_current_offset
<1>11. o \in Nat
  BY <1>9, MemsectorAssumption
<1>12. PICK at2 : at2 = Placed(at, done, v, o)
  OBVIOUS
<1>13. \A node : NodeIs(index, node, o, v, done, at) =>
                   FileOf(index, WithNode(m, o, node), o + SizeOf(index)[v], done \cup {v}, at2)
  BY <1>2, <1>4, <1>5, <1>7, <1>12, FileAdd DEF Placed
<1>14. done \cup {v} = LeftOf(index, q \o <<t>>)
  BY <1>1, <1>3, Zenon DEF LeftOf
<1>15. \A E : LevelsOf(index, E, q, Len(q) + 1, done, at) =>
                LevelsOf(index, Append(Front(E), Append(Last(E), o)), q, Len(q) + 1, done \cup {v}, at2)
  BY <1>1, <1>8, <1>11, <1>12, LevelsAdd
<1>16. CASE v \in index
  <2>1. LevelsOf(index, D, q, Len(q) + 1, done, at)
    <3>1. LevelsOf(index, D, v, Len(q) + 1, done, at)
      BY <1>2, <1>4, <1>16 DEF LevelCount
    <3> QED
      BY <1>1, <1>2, <3>1, LevelsSame
  <2>2. PICK node : node = leaf_s(HitCounts[v], v)
    OBVIOUS
  <2>3. NodeIs(index, node, o, v, done, at)
    BY <1>16, <2>2 DEF NodeIs
  <2>4. SizeOf(index)[v] = memsector_leaf_size
    BY <1>2, <1>16 DEF SizeOf
  <2>5. memsector_write_leaf(w, v) = Writer(WithNode(m, o, node), o + SizeOf(index)[v], D, NoRoot)
    BY <1>4, <2>2, <2>4, WriterParts DEF memsector_write_leaf
  <2>6. onPop(w, v) = AddOffset(memsector_write_leaf(w, v), o)
    BY <1>10, <1>16 DEF onPop, IsLeaf
  <2>7. onPop(w, v) = Writer(WithNode(m, o, node), o + SizeOf(index)[v], Append(Front(D), Append(Last(D), o)), NoRoot)
    BY <2>5, <2>6, WriterParts
  <2>8. FileOf(index, WithNode(m, o, node), o + SizeOf(index)[v], done \cup {v}, at2)
    BY <1>13, <2>3
  <2>9. LevelsOf(index, Append(Front(D), Append(Last(D), o)), q, Len(q) + 1, done \cup {v}, at2)
    BY <1>15, <2>1
  <2> QED
    BY <1>1, <1>14, <2>7, <2>8, <2>9, Zenon DEF Exported
<1>17. CASE v \notin index
  <2>1. /\ KidsOf(index, Last(D), v, done, at)
        /\ LevelsOf(index, Front(D), q, Len(q) + 1, done, at)
    <3>1. (Len(q) + 1) + 1 = Len(q) + 2
      BY <1>2
    <3>2. LevelsOf(index, D, v, Len(q) + 2, done, at)
      BY <1>2, <1>4, <1>17, <3>1 DEF LevelCount
    <3> QED
      BY <1>1, <1>2, <3>2, LevelsDrop
  <2>2. Len(Last(D)) = Len(ChildList(index, v))
    <3>1. PICK n \in Nat : n = Len(ChildList(index, v))
      BY <1>2, ChildListFacts
    <3>2. \A i \in 1..n : Child(index, v, i) \in done
      <4>1. \A i \in 1..n : ChildList(index, v)[i] \in ChildTokens(index, v)
        BY <1>2, <3>1, ChildListFacts
      <4>2. \A u \in ChildTokens(index, v) : v \o <<u>> \in done
        BY <1>2, <1>3, DoneNear
      <4> QED
        BY <4>1, <4>2 DEF Child
    <3>3. Len(Last(D)) \in Nat /\ Len(Last(D)) <= n /\ \A i \in 1..n : i <= Len(Last(D))
      BY <2>1, <3>1, <3>2 DEF KidsOf
    <3>4. n = 0 \/ n \in 1..n
      BY <3>1
    <3> QED
      BY <3>1, <3>3, <3>4
  <2>3. PICK node : /\ NodeIs(index, node, o, v, done, at)
                    /\ memsector_write_inode(Writer(m, o, D, NoRoot), v, Last(D), o)
                         = Writer(WithNode(m, o, node), o + SizeOf(index)[v], D, NoRoot)
    <3>1. PICK offs : offs = Last(D)
      OBVIOUS
    <3>2. KidsOf(index, offs, v, done, at) /\ Len(offs) = Len(ChildList(index, v))
      BY <2>1, <2>2, <3>1
    <3>3. FileOf(index, m, o, done, at) /\ o \in 0..(OFF_MOD - 1) /\ v \in NodesOf(index)
      BY <1>2, <1>4, <1>9
    <3>4. Writable(m, o, v, offs, done, at)
      BY <1>5, <1>17, <3>2, <3>3, InodeIs
    <3> QED
      BY <3>1, <3>4, Zenon DEF Writable
  <2>4. writeChildrenOffsets(w, v) = Writer(WithNode(m, o, node), o + SizeOf(index)[v], D, NoRoot)
    <3>1. w.dfsStack = D
      BY <1>4 DEF Writer
    <3> QED
      BY <1>4, <1>10, <2>3, <3>1, Zenon DEF writeChildrenOffsets
  <2>5. onPop(w, v) = AddOffset(PopOffsets(writeChildrenOffsets(w, v)), o)
    BY <1>10, <1>17 DEF onPop, IsLeaf
  <2>6. PICK E : E = Front(D)
    OBVIOUS
  <2>7. PopOffsets(writeChildrenOffsets(w, v)) = Writer(WithNode(m, o, node), o + SizeOf(index)[v], E, NoRoot)
    BY <2>4, <2>6, WriterParts
  <2>8. onPop(w, v) = Writer(WithNode(m, o, node), o + SizeOf(index)[v], Append(Front(E), Append(Last(E), o)), NoRoot)
    BY <2>5, <2>7, WriterParts
  <2>9. FileOf(index, WithNode(m, o, node), o + SizeOf(index)[v], done \cup {v}, at2)
    BY <1>13, <2>3
  <2>10. LevelsOf(index, Append(Front(E), Append(Last(E), o)), q, Len(q) + 1, done \cup {v}, at2)
    BY <1>15, <2>1, <2>6
  <2> QED
    BY <1>1, <1>14, <2>8, <2>9, <2>10, Zenon DEF Exported
<1> QED
  BY <1>16, <1>17

\* onPush begins the list of an inner node.
LEMMA Opens ==
  ASSUME index \in Indexes, NEW q \in Paths, NEW t \in ChildTokens(index, q), NEW w,
         Exported(index, w, q, Len(q) + 1, DoneOf(index, q \o <<t>>, FALSE))
  PROVE  Exported(index, onPush(w, q \o <<t>>), q \o <<t>>,
                  LevelCount(index, q \o <<t>>), DoneOf(index, q \o <<t>>, FALSE))
<1>1. PICK v : v = q \o <<t>>
  OBVIOUS
<1>2. t \in encoded_token_t /\ v \in Paths /\ Len(v) = Len(q) + 1
  BY <1>1, ChildNode
<1>3. PICK done : done = DoneOf(index, v, FALSE)
  OBVIOUS
<1>4. PICK m, o, D, at : /\ w = Writer(m, o, D, NoRoot) /\ FileOf(index, m, o, done, at)
                         /\ LevelsOf(index, D, q, Len(q) + 1, done, at)
  BY <1>1, <1>3 DEF Exported
<1>5. CASE v \in index
  <2>1. LevelsOf(index, D, v, LevelCount(index, v), done, at)
    BY <1>1, <1>2, <1>4, <1>5, LevelsSame DEF LevelCount
  <2>2. onPush(w, v) = Writer(m, o, D, NoRoot)
    BY <1>4, <1>5, WriterParts DEF IsLeaf
  <2> QED
    BY <1>1, <1>3, <1>4, <2>1, <2>2, Zenon DEF Exported
<1>6. CASE v \notin index
  <2>1. \A u \in ChildTokens(index, v) : v \o <<u>> \notin done
    BY <1>2, <1>3, DoneNear
  <2>2. LevelsOf(index, Append(D, <<>>), v, Len(v) + 1, done, at)
    BY <1>1, <1>2, <1>4, <2>1, LevelsBegin
  <2>3. LevelsOf(index, Append(D, <<>>), v, LevelCount(index, v), done, at)
    BY <1>6, <2>2 DEF LevelCount
  <2>4. onPush(w, v) = Writer(m, o, Append(D, <<>>), NoRoot)
    BY <1>4, <1>6, WriterParts DEF IsLeaf
  <2> QED
    BY <1>1, <1>3, <1>4, <2>3, <2>4, Zenon DEF Exported
<1> QED
  BY <1>5, <1>6

\* Which nodes are written depends on whether the iterator is on its way back.
Back(at) == at \in {"retreat", "end"}

\* What the export has written so far; whoever does not export writes nothing.
ExportInv ==
  /\ ~exporting => writer.root_off = NoRoot
  /\ exporting => root = <<>>
  /\ exporting /\ FitsIn(index) =>
       \/ Exported(index, writer, Path, LevelCount(index, Path), DoneOf(index, Path, Back(pc)))
       \/ pc = "end" /\ Finished(index, writer)

\* The iterator of the export walks from the root.
LEMMA AtRoot ==
  ASSUME IterInv, ExportInv, exporting
  PROVE  /\ root = <<>> /\ index \in Indexes /\ <<>> \in NodesOf(index) /\ <<>> \notin index
         /\ Path \in Paths /\ \A p \in Paths : root \o p = p
<1>1. root = <<>> /\ index \in Indexes /\ root \notin index /\ Path \in Paths /\ IsNode(index, root \o Path)
  BY DEF IterInv, StackInv, ExportInv
<1>2. \A p \in Paths : <<>> \o p = p
  BY ConcatEmptySeq DEF Paths
<1>3. PICK f \in index : Extends(f, Path)
  BY <1>1, <1>2 DEF IsNode
<1>4. <<>> \in Paths /\ Len(<<>>) = 0 /\ f \in Paths /\ Len(f) \in Nat
  BY <1>1, EmptyPath, IndexFacts, PathFacts DEF Paths
<1>5. Extends(f, <<>>)
  BY <1>4 DEF Extends
<1>6. <<>> \in NodesOf(index)
  BY <1>1, <1>4, <1>5, NodesAre DEF IsNode
<1> QED
  BY <1>1, <1>2, <1>6

\* The node of the iterator on top of a stack.
LEMMA TopNode ==
  ASSUME NEW st \in Seq(Entries), NEW r \in Paths, NEW q \in Paths, NEW tok \in encoded_token_t,
         Follows(st, r, q \o <<tok>>)
  PROVE  NodeOf(Last(st)) = r \o (q \o <<tok>>)
<1>1. Last(st) = [node |-> r \o q, tok |-> tok]
  BY FollowsPop
<1>2. PICK v : v = r \o q
  OBVIOUS
<1>3. v \in Paths /\ <<tok>> \in Paths
  BY <1>2, ConcatFacts DEF Paths
<1>4. NodeOf(Last(st)) = Append(v, tok)
  BY <1>1, <1>2 DEF NodeOf
<1>5. Append(v, tok) = v \o <<tok>>
  BY <1>3, AppendIsConcat DEF Paths
<1>6. v \o <<tok>> = r \o (q \o <<tok>>)
  BY <1>2, <1>3, ConcatAssociative DEF Paths
<1> QED
  BY <1>4, <1>5, <1>6

\* The file is empty at first.
LEMMA ExportStarts == ExportInit => ExportInv
<1> SUFFICES ASSUME ExportInit PROVE ExportInv
  OBVIOUS
<1>1. /\ IterInv /\ index \in Indexes /\ Path = <<>> /\ pc = "idle" /\ writer = NewWriter
      /\ exporting => root = <<>>
  BY IterInit DEF ExportInit, Init, Path, RootNode
<1>2. writer = Writer(<<>>, HEADER_SIZE, <<<<>>>>, NoRoot)
  BY <1>1 DEF NewWriter, Writer
<1>3. writer.root_off = NoRoot
  BY <1>1 DEF NewWriter
<1>4. ASSUME exporting, FitsIn(index)
      PROVE  Exported(index, writer, <<>>, LevelCount(index, <<>>), DoneOf(index, <<>>, Back(pc)))
  <2>1. <<>> \notin index /\ root = <<>>
    BY <1>1, <1>4 DEF IterInv, StackInv
  <2>2. Back(pc) = FALSE /\ DoneOf(index, <<>>, FALSE) = {}
    <3>1. Back(pc) = FALSE
      BY <1>1 DEF Back
    <3>2. DoneOf(index, <<>>, FALSE) = {}
      BY <1>1, DoneEnds
    <3> QED
      BY <3>1, <3>2
  <2>3. PICK at : at \in [{} -> Nat]
    <3>1. [x \in {} |-> 0] \in [{} -> Nat]
      OBVIOUS
    <3> QED
      BY <3>1
  <2>4. FileOf(index, <<>>, HEADER_SIZE, {}, at)
    <3>1. TotalOf(index, {}) = 0
      BY <1>1, TotalFacts
    <3> QED
      BY <2>3, <3>1 DEF FileOf, HEADER_SIZE
  <2>5. LevelCount(index, <<>>) = 1
    BY <2>1 DEF LevelCount
  <2>6. LevelsOf(index, <<<<>>>>, <<>>, 1, {}, at)
    <3>1. <<<<>>>> \in Seq(Seq(Nat)) /\ Len(<<<<>>>>) = 1 /\ <<<<>>>>[1] = <<>>
      OBVIOUS
    <3>2. ASSUME NEW v \in Paths, Len(v) < 1 PROVE KidsOf(index, <<<<>>>>[Len(v) + 1], v, {}, at)
      <4>1. Len(v) = 0
        BY <3>2, PathFacts DEF Paths
      <4>2. Len(ChildList(index, v)) \in Nat
        BY <1>1, ChildListFacts
      <4>3. KidsOf(index, <<>>, v, {}, at)
        BY <4>2 DEF KidsOf
      <4> QED
        BY <3>1, <4>1, <4>3
    <3> QED
      BY <3>1, <3>2 DEF LevelsOf
  <2> QED
    BY <1>2, <2>2, <2>4, <2>5, <2>6, Zenon DEF Exported
<1> QED
  BY <1>1, <1>3, <1>4 DEF ExportInv

\* Going down to the first child.
LEMMA ExportPush ==
  ASSUME IterInv, ExportInv, exporting, FitsIn(index), pc # "end", ~Back(pc), arity > 0,
         Push(ChildrenIterator(root \o Path)), UNCHANGED <<index, root>>, ~Back(pc'),
         writer' = onPush(writer, NodeOf(Last(stack')))
  PROVE  Exported(index, writer', Path', LevelCount(index, Path'), DoneOf(index, Path', Back(pc')))
<1>1. /\ root = <<>> /\ index \in Indexes /\ Path \in Paths /\ root \o Path = Path
      /\ StackInv /\ ArityInv /\ root \in Paths
  BY AtRoot, EmptyPath DEF IterInv
<1>2. StackInv' /\ \E tok \in ChildTokens(index, Path) :
                      /\ Path' = Path \o <<tok>>
                      /\ \A u \in ChildTokens(index, Path) : u = tok \/ TokenLess(tok, u)
  BY <1>1, PushKeeps
<1>3. PICK q \in Paths : q = Path
  BY <1>1
<1>4. PICK tok \in ChildTokens(index, q) : /\ Path' = q \o <<tok>>
                                           /\ \A u \in ChildTokens(index, q) : u = tok \/ TokenLess(tok, u)
  BY <1>2, <1>3
<1>5. tok \in encoded_token_t /\ q \o <<tok>> \in Paths
  BY <1>1, ChildNode
<1>6. NodeOf(Last(stack')) = q \o <<tok>>
  <2>1. stack' \in Seq(Entries) /\ Follows(stack', root, q \o <<tok>>)
    BY <1>2, <1>4 DEF StackInv
  <2>2. NodeOf(Last(stack')) = root \o (q \o <<tok>>)
    BY <1>1, <1>5, <2>1, TopNode
  <2> QED
    BY <1>5, <2>2, AtRoot
<1>7. q \notin index
  <2>1. root \o Path \notin index
    BY <1>1, OpenIsNoLeaf DEF StackInv, ArityInv, Incomplete
  <2> QED
    BY <1>1, <1>3, <2>1
<1>8. LevelCount(index, q) = Len(q) + 1 /\ Back(pc) = FALSE /\ Back(pc') = FALSE
  BY <1>7 DEF LevelCount
<1>9. Exported(index, writer, q, Len(q) + 1, DoneOf(index, q, FALSE))
  BY <1>3, <1>8 DEF ExportInv
<1>10. DoneOf(index, q \o <<tok>>, FALSE) = DoneOf(index, q, FALSE)
  BY <1>1, <1>4, DoneDown
<1>11. Exported(index, onPush(writer, q \o <<tok>>), q \o <<tok>>,
                LevelCount(index, q \o <<tok>>), DoneOf(index, q \o <<tok>>, FALSE))
  BY <1>1, <1>9, <1>10, Opens
<1> QED
  BY <1>4, <1>6, <1>8, <1>11

\* A node with a child is no leaf.
LEMMA ParentIsNoLeaf ==
  ASSUME NEW ix \in Indexes, NEW q \in Paths, NEW tok \in ChildTokens(ix, q)
  PROVE  q \notin ix
<1> SUFFICES ASSUME q \in ix PROVE FALSE
  OBVIOUS
<1>1. /\ q \o <<tok>> \in NodesOf(ix) /\ Extends(q \o <<tok>>, q) /\ Len(q \o <<tok>>) = Len(q) + 1
      /\ Len(q) \in Nat
  BY ChildNode, PathFacts DEF Paths
<1>2. q \o <<tok>> = q
  BY <1>1, LeafEnds
<1> QED
  BY <1>1, <1>2

\* The last token of the path is that of a child, on the way back and forth.
LEMMA LastIsChild ==
  ASSUME IterInv, ExportInv, exporting, NEW q \in Paths, NEW tok \in encoded_token_t, Path = q \o <<tok>>
  PROVE  /\ tok \in ChildTokens(index, q) /\ root \o q = q
         /\ NodeOf(Last(stack)) = q \o <<tok>>
<1>1. /\ root = <<>> /\ index \in Indexes /\ index \in SUBSET Paths /\ root \o Path = Path /\ root \o q = q
      /\ StackInv
  BY AtRoot, IndexFacts DEF IterInv
<1>2. IsNode(index, q \o <<tok>>)
  BY <1>1 DEF StackInv
<1>3. tok \in ChildTokens(index, q)
  BY <1>1, <1>2, ChildIsNode DEF HasChild
<1>4. NodeOf(Last(stack)) = root \o Path
  BY <1>1, TopIs
<1> QED
  BY <1>1, <1>3, <1>4

\* Leaving the last child.
LEMMA ExportPop ==
  ASSUME IterInv, ExportInv, exporting, FitsIn(index), Retreat,
         writer' = onPop(writer, NodeOf(Last(stack)))
  PROVE  Exported(index, writer', Path', LevelCount(index, Path'), DoneOf(index, Path', Back(pc')))
<1>1. /\ root = <<>> /\ index \in Indexes /\ <<>> \in NodesOf(index) /\ <<>> \notin index
      /\ Path \in Paths /\ StackInv
  BY AtRoot DEF IterInv
<1>2. pc = "retreat" /\ ~HasNext(Last(stack)) /\ stack' = Front(stack) /\ pc' \in {"retreat", "end"}
  BY DEF Retreat
<1>3. Path # <<>>
  BY <1>2 DEF IterInv, OrderInv
<1>4. PICK q \in Paths, tok \in encoded_token_t : Path = q \o <<tok>>
  BY <1>1, <1>3, SplitLast
<1>5. tok \in ChildTokens(index, q) /\ root \o q = q /\ NodeOf(Last(stack)) = q \o <<tok>>
  BY <1>4, LastIsChild
<1>6. /\ stack' \in Seq(Entries) /\ Follows(stack', root, q)
      /\ LaterTokens(Last(stack)) = { t \in ChildTokens(index, q) : TokenLess(tok, t) }
  BY <1>1, <1>2, <1>4, <1>5, TopIs
<1>7. Path' = q
  BY <1>4, <1>6, PathIs DEF Path
<1>8. \A u \in ChildTokens(index, q) : ~TokenLess(tok, u)
  BY <1>2, <1>6 DEF HasNext
<1>9. Back(pc) = TRUE /\ Back(pc') = TRUE
  BY <1>2 DEF Back
<1>10. Exported(index, writer, q \o <<tok>>, LevelCount(index, q \o <<tok>>), DoneOf(index, q \o <<tok>>, TRUE))
  <2>1. pc # "end"
    BY <1>2
  <2> QED
    BY <1>4, <1>9, <2>1, Zenon DEF ExportInv
<1>11. Exported(index, onPop(writer, q \o <<tok>>), q, Len(q) + 1, LeftOf(index, q \o <<tok>>))
  BY <1>1, <1>4, <1>5, <1>10, Closes
<1>12. DoneOf(index, q, TRUE) = LeftOf(index, q \o <<tok>>)
  BY <1>1, <1>4, <1>5, <1>8, DoneBack
<1>13. LevelCount(index, q) = Len(q) + 1
  <2>1. q \notin index
    BY <1>1, <1>5, ParentIsNoLeaf
  <2> QED
    BY <2>1 DEF LevelCount
<1> QED
  BY <1>5, <1>7, <1>9, <1>11, <1>12, <1>13, Zenon

\* Going on to the next child.
LEMMA ExportAdvance ==
  ASSUME IterInv, ExportInv, exporting, FitsIn(index), Advance,
         writer' = onPush(onPop(writer, NodeOf(Last(stack))), NodeOf(Last(stack')))
  PROVE  Exported(index, writer', Path', LevelCount(index, Path'), DoneOf(index, Path', Back(pc')))
<1>1. /\ root = <<>> /\ index \in Indexes /\ <<>> \in NodesOf(index) /\ <<>> \notin index
      /\ Path \in Paths /\ StackInv /\ root \in Paths
  BY AtRoot, EmptyPath DEF IterInv
<1>2. pc = "retreat" /\ pc' = "descend"
  BY DEF Advance
<1>3. Path # <<>>
  BY <1>2 DEF IterInv, OrderInv
<1>4. PICK q \in Paths, tok \in encoded_token_t, u \in encoded_token_t :
        /\ Path = q \o <<tok>> /\ Path' = q \o <<u>>
        /\ u \in ChildTokens(index, root \o q) /\ TokenLess(tok, u)
        /\ \A w \in ChildTokens(index, root \o q) : TokenLess(tok, w) => w = u \/ TokenLess(u, w)
        /\ stack' \in Seq(Entries) /\ Follows(stack', root, q \o <<u>>)
  BY <1>1, <1>3, AdvancePath
<1>5. tok \in ChildTokens(index, q) /\ root \o q = q /\ NodeOf(Last(stack)) = q \o <<tok>>
  BY <1>4, LastIsChild
<1>6. u \in ChildTokens(index, q) /\ \A w \in ChildTokens(index, q) : TokenLess(tok, w) => w = u \/ TokenLess(u, w)
  BY <1>4, <1>5
<1>7. NodeOf(Last(stack')) = q \o <<u>>
  <2>1. NodeOf(Last(stack')) = root \o (q \o <<u>>)
    BY <1>1, <1>4, TopNode
  <2>2. q \o <<u>> \in Paths
    BY <1>4, Longer
  <2> QED
    BY <2>1, <2>2, AtRoot
<1>8. Back(pc) = TRUE /\ Back(pc') = FALSE
  BY <1>2 DEF Back
<1>9. Exported(index, writer, q \o <<tok>>, LevelCount(index, q \o <<tok>>), DoneOf(index, q \o <<tok>>, TRUE))
  <2>1. pc # "end"
    BY <1>2
  <2> QED
    BY <1>4, <1>8, <2>1, Zenon DEF ExportInv
<1>10. PICK w : w = onPop(writer, q \o <<tok>>)
  OBVIOUS
<1>11. Exported(index, w, q, Len(q) + 1, LeftOf(index, q \o <<tok>>))
  BY <1>1, <1>4, <1>5, <1>9, <1>10, Closes
<1>12. DoneOf(index, q \o <<u>>, FALSE) = LeftOf(index, q \o <<tok>>)
  BY <1>1, <1>4, <1>5, <1>6, DoneNext
<1>13. Exported(index, onPush(w, q \o <<u>>), q \o <<u>>,
                LevelCount(index, q \o <<u>>), DoneOf(index, q \o <<u>>, FALSE))
  BY <1>1, <1>4, <1>6, <1>11, <1>12, Opens
<1> QED
  BY <1>4, <1>5, <1>7, <1>8, <1>10, <1>13, Zenon

\* Returning a node and being called again writes nothing.
LEMMA ExportReturn ==
  ASSUME IterInv, ExportInv, exporting, FitsIn(index), Resume \/ Yield, UNCHANGED writer
  PROVE  Exported(index, writer', Path', LevelCount(index, Path'), DoneOf(index, Path', Back(pc')))
<1>1. /\ index \in Indexes /\ Path' = Path /\ pc # "end" /\ root \o Path = Path /\ Path \in Paths
  BY AtRoot DEF Resume, Yield, Path
<1>2. Exported(index, writer, Path, LevelCount(index, Path), DoneOf(index, Path, Back(pc)))
  BY <1>1 DEF ExportInv
<1>3. DoneOf(index, Path, Back(pc')) = DoneOf(index, Path, Back(pc))
  <2>1. CASE Yield
    <3>1. Back(pc) = FALSE /\ Back(pc') = FALSE
      BY <2>1 DEF Yield, Back
    <3> QED
      BY <3>1
  <2>2. CASE Resume
    <3>1. pc = "idle" /\ stack # <<>> /\ Back(pc) = FALSE /\ Back(pc') = TRUE
      BY <2>2 DEF Resume, Back
    <3>2. Path # <<>> /\ IsTerm(Path)
      <4>1. Len(stack) = Len(Path) /\ stack \in Seq(Entries)
        BY DEF IterInv, StackInv, Follows
      <4>2. Path # <<>>
        BY <1>1, <3>1, <4>1, EmptySeq, EmptyPath
      <4> QED
        BY <3>1, <4>2 DEF IterInv, OrderInv
    <3>3. Path \in index
      <4>1. PICK f \in index : Extends(f, Path)
        BY <1>1 DEF IterInv, StackInv, IsNode
      <4>2. f \in Paths /\ IsTerm(f)
        BY <1>1, <4>1, IndexFacts
      <4>3. f = Path
        BY <1>1, <3>2, <4>1, <4>2, TermsArePrefixFree DEF Paths
      <4> QED
        BY <4>1, <4>3
    <3> QED
      BY <1>1, <3>1, <3>3, DoneEnds
  <2> QED
    BY <2>1, <2>2
<1> QED
  BY <1>1, <1>2, <1>3

\* The root is written when all others are.
LEMMA ExportSave ==
  ASSUME IterInv, ExportInv, exporting, FitsIn(index), memsector_save
  PROVE  Finished(index, writer')
<1>1. index \in Indexes /\ <<>> \in NodesOf(index) /\ <<>> \notin index /\ <<>> \in Paths /\ Len(<<>>) = 0
  BY AtRoot, EmptyPath
<1>2. /\ pc = "end" /\ writer.root_off = NoRoot /\ Path = <<>>
      /\ writer' = [PopOffsets(writeChildrenOffsets(writer, <<>>))
                      EXCEPT !.root_off = memsector_get_current_offset(writer)]
  BY DEF memsector_save, RootNode, IterInv, OrderInv
<1>3. PICK done : done = DoneOf(index, <<>>, TRUE)
  OBVIOUS
<1>4. done = NodesOf(index) \ {<<>>} /\ done \in SUBSET NodesOf(index) /\ <<>> \notin done
      /\ done \cup {<<>>} = NodesOf(index)
  <2>1. DoneOf(index, <<>>, TRUE) = NodesOf(index) \ {<<>>}
    BY <1>1, DoneEnds
  <2> QED
    BY <1>1, <1>3, <2>1
<1>5. ~Finished(index, writer)
  <2> SUFFICES ASSUME Finished(index, writer) PROVE FALSE
    OBVIOUS
  <2>1. PICK m, o, D, at : writer = Writer(m, o, D, at[<<>>]) /\ FileOf(index, m, o, NodesOf(index), at)
    BY DEF Finished
  <2>2. at[<<>>] \in Nat
    BY <1>1, <2>1 DEF FileOf
  <2>3. writer.root_off = at[<<>>]
    BY <2>1 DEF Writer
  <2> QED
    BY <1>2, <2>2, <2>3, MemsectorAssumption
<1>6. Exported(index, writer, <<>>, LevelCount(index, <<>>), done)
  <2>1. Back(pc) = TRUE
    BY <1>2 DEF Back
  <2> QED
    BY <1>2, <1>3, <1>5, <2>1, Zenon DEF ExportInv
<1>7. LevelCount(index, <<>>) = 1
  BY <1>1 DEF LevelCount
<1>8. PICK m, o, D, at : /\ writer = Writer(m, o, D, NoRoot) /\ FileOf(index, m, o, done, at)
                         /\ LevelsOf(index, D, <<>>, 1, done, at)
  BY <1>6, <1>7 DEF Exported
<1>9. o \in 0..(OFF_MOD - 1) /\ o % OFF_MOD = o
  BY <1>1, <1>4, <1>8, OffsetFits DEF FileOf
<1>10. memsector_get_current_offset(writer) = o
  <2>1. writer.offset = o
    BY <1>8 DEF Writer
  <2> QED
    BY <1>9, <2>1 DEF memsector_get_current_offset
<1>11. KidsOf(index, Last(D), <<>>, done, at)
  <2>1. D \in Seq(Seq(Nat)) /\ Len(D) = 0 + 1 /\ 0 \in Nat
    BY <1>8 DEF LevelsOf
  <2>2. Last(D) = D[0 + 1]
    BY <2>1, FrontFacts
  <2>3. Extends(<<>>, <<>>) /\ Len(<<>>) < 1
    BY <1>1 DEF Extends
  <2>4. KidsOf(index, D[Len(<<>>) + 1], <<>>, done, at)
    BY <1>1, <1>8, <2>3 DEF LevelsOf
  <2> QED
    BY <1>1, <2>2, <2>4
<1>12. Len(Last(D)) = Len(ChildList(index, <<>>))
  <2>1. PICK n \in Nat : n = Len(ChildList(index, <<>>))
    BY <1>1, ChildListFacts
  <2>2. \A i \in 1..n : Child(index, <<>>, i) \in done
    <3>1. \A i \in 1..n : ChildList(index, <<>>)[i] \in ChildTokens(index, <<>>)
      BY <1>1, <2>1, ChildListFacts
    <3>2. \A u \in ChildTokens(index, <<>>) : <<>> \o <<u>> \in done
      BY <1>1, <1>3, DoneNear
    <3> QED
      BY <3>1, <3>2 DEF Child
  <2>3. Len(Last(D)) \in Nat /\ Len(Last(D)) <= n /\ \A i \in 1..n : i <= Len(Last(D))
    BY <1>11, <2>1, <2>2 DEF KidsOf
  <2>4. n = 0 \/ n \in 1..n
    BY <2>1
  <2> QED
    BY <2>1, <2>3, <2>4
<1>13. PICK offs : offs = Last(D)
  OBVIOUS
<1>14. Writable(m, o, <<>>, offs, done, at)
  <2>1. KidsOf(index, offs, <<>>, done, at) /\ Len(offs) = Len(ChildList(index, <<>>))
    BY <1>11, <1>12, <1>13
  <2> QED
    BY <1>1, <1>4, <1>8, <1>9, <2>1, InodeIs
<1>15. PICK node : /\ NodeIs(index, node, o, <<>>, done, at)
                   /\ \A E, r : memsector_write_inode(Writer(m, o, E, r), <<>>, offs, o)
                                  = Writer(WithNode(m, o, node), o + SizeOf(index)[<<>>], E, r)
  BY <1>14 DEF Writable
<1>16. writeChildrenOffsets(writer, <<>>) = Writer(WithNode(m, o, node), o + SizeOf(index)[<<>>], D, NoRoot)
  <2>1. writer.dfsStack = D
    BY <1>8 DEF Writer
  <2> QED
    BY <1>8, <1>10, <1>13, <1>15, <2>1, Zenon DEF writeChildrenOffsets
<1>17. PICK M, n, E : M = WithNode(m, o, node) /\ n = o + SizeOf(index)[<<>>] /\ E = Front(D)
  OBVIOUS
<1>18. PopOffsets(writeChildrenOffsets(writer, <<>>)) = Writer(M, n, E, NoRoot)
  BY <1>16, <1>17, WriterParts
<1>19. writer' = [Writer(M, n, E, NoRoot) EXCEPT !.root_off = o]
  BY <1>2, <1>10, <1>18, Zenon
<1>20. writer' = Writer(M, n, E, o)
  BY <1>19 DEF Writer
<1>21. PICK at2 : at2 = [x \in done \cup {<<>>} |-> IF x = <<>> THEN o ELSE at[x]]
  OBVIOUS
<1>22. FileOf(index, WithNode(m, o, node), o + SizeOf(index)[<<>>], done \cup {<<>>}, at2)
  BY <1>1, <1>4, <1>8, <1>15, <1>21, FileAdd
<1>23. FileOf(index, M, n, NodesOf(index), at2)
  BY <1>4, <1>17, <1>22, Zenon
<1>24. at2[<<>>] = o
  BY <1>21
<1> QED
  BY <1>20, <1>23, <1>24, Zenon DEF Finished

\* Every step of the export and of other iterators keeps the invariant.
LEMMA ExportStep == IterInv /\ ExportInv /\ [ExportNext]_memsectorVars => ExportInv'
<1> SUFFICES ASSUME IterInv, ExportInv, [ExportNext]_memsectorVars PROVE ExportInv'
  OBVIOUS
<1>1. CASE UNCHANGED memsectorVars
  BY <1>1 DEF ExportInv, memsectorVars, vars, Path
<1>2. CASE ~exporting /\ Next /\ UNCHANGED <<exporting, writer>>
  BY <1>2 DEF ExportInv
<1>3. CASE exportToMemsector
  <2>1. exporting /\ exporting' = exporting /\ root = <<>>
    BY <1>3 DEF exportToMemsector, ExportInv
  <2>2. index' = index /\ root' = root
    BY <1>3 DEF exportToMemsector, Pushes, Pops, Advances, Returns, memsector_save, Start, Descend, Retreat,
                Advance, Resume, Yield, vars
  <2>3. ASSUME FitsIn(index)
        PROVE  \/ Exported(index, writer', Path', LevelCount(index, Path'), DoneOf(index, Path', Back(pc')))
               \/ pc' = "end" /\ Finished(index, writer')
    <3>1. CASE Pushes
      <4>1. writer' = onPush(writer, NodeOf(Last(stack')))
        BY <3>1 DEF Pushes
      <4>2. CASE Start
        <5>1. /\ pc = "idle" /\ pc' = "descend" /\ Path = <<>> /\ Push(ChildrenIterator(root))
              /\ UNCHANGED <<index, root>>
          BY <4>2 DEF Start, Path
        <5>2. root \o Path = root /\ arity > 0
          <6>1. arity = OpenSlots(<<>>)[0] /\ OpenSlots(<<>>)[0] = 1
            BY <5>1, EmptyPath DEF IterInv, ArityInv, Incomplete
          <6> QED
            BY <5>1, <6>1, EmptyPath DEF IterInv, StackInv
        <5>3. pc # "end" /\ ~Back(pc) /\ ~Back(pc')
          BY <5>1 DEF Back
        <5> QED
          BY <2>1, <2>3, <4>1, <5>1, <5>2, <5>3, ExportPush
      <4>3. CASE Descend
        <5>1. /\ pc = "descend" /\ pc' = "descend" /\ Push(ChildrenIterator(NodeOf(Last(stack))))
              /\ UNCHANGED <<index, root>> /\ arity > 0
          BY <4>3 DEF Descend
        <5>2. Path # <<>> /\ Path \in Paths
          BY <5>1 DEF IterInv, OrderInv, StackInv
        <5>3. PICK q \in Paths, tok \in encoded_token_t : Path = q \o <<tok>>
          BY <5>2, SplitLast
        <5>4. NodeOf(Last(stack)) = root \o Path
          BY <5>3, TopIs DEF IterInv
        <5>5. pc # "end" /\ ~Back(pc) /\ ~Back(pc')
          BY <5>1 DEF Back
        <5> QED
          BY <2>1, <2>3, <4>1, <5>1, <5>4, <5>5, ExportPush
      <4> QED
        BY <3>1, <4>2, <4>3 DEF Pushes
    <3>2. CASE Pops
      BY <2>1, <2>3, <3>2, ExportPop DEF Pops
    <3>3. CASE Advances
      BY <2>1, <2>3, <3>3, ExportAdvance DEF Advances
    <3>4. CASE Returns
      BY <2>1, <2>3, <3>4, ExportReturn DEF Returns
    <3>5. CASE memsector_save
      <4>1. pc' = "end"
        BY <3>5 DEF memsector_save, vars
      <4> QED
        BY <2>1, <2>3, <3>5, <4>1, ExportSave
    <3> QED
      BY <1>3, <3>1, <3>2, <3>3, <3>4, <3>5 DEF exportToMemsector
  <2>4. FitsIn(index)' <=> FitsIn(index)
    BY <2>2
  <2>5. FitsIn(index) =>
          \/ Exported(index, writer, Path, LevelCount(index, Path), DoneOf(index, Path, Back(pc)))'
          \/ (pc = "end" /\ Finished(index, writer))'
    BY <2>2, <2>3
  <2> QED
    BY <2>1, <2>2, <2>4, <2>5, Zenon DEF ExportInv
<1> QED
  BY <1>1, <1>2, <1>3 DEF ExportNext

-----------------------------------------------------------------------------
(***************************************************************************)
(* Reading the finished file.                                              *)
(***************************************************************************)

\* The writer has a file with every node at its place.
Complete(m, o, D, at) ==
  /\ index \in Indexes /\ <<>> \in NodesOf(index)
  /\ writer = Writer(m, o, D, at[<<>>]) /\ FileOf(index, m, o, NodesOf(index), at)

\* What IndexAccessor reads at the place of a node is that node.
LEMMA NodeRead ==
  ASSUME NEW m, NEW o, NEW D, NEW at, Complete(m, o, D, at), NEW v \in NodesOf(index)
  PROVE  at[v] \in Nat /\ at[v] # 0 /\ NodeIs(index, NodeAt(at[v]), at[v], v, NodesOf(index), at)
<1>1. writer.mem = m
  BY DEF Complete, Writer
<1>2. /\ at[v] \in Nat /\ HEADER_SIZE <= at[v] /\ at[v] \in DOMAIN m
      /\ NodeIs(index, m[at[v]], at[v], v, NodesOf(index), at)
  BY DEF Complete, FileOf
<1>3. NodeAt(at[v]) = m[at[v]]
  BY <1>1, <1>2 DEF NodeAt
<1>4. at[v] # 0
  BY <1>2 DEF HEADER_SIZE
<1> QED
  BY <1>2, <1>3, <1>4

\* The entries of an inode are sorted and lead to its children.
LEMMA EntriesRead ==
  ASSUME NEW m, NEW o, NEW D, NEW at, Complete(m, o, D, at), NEW v \in NodesOf(index), v \notin index
  PROVE  /\ NodeAt(at[v]).type = "INTERNAL_NODE" /\ Sorted(NodeAt(at[v]).data)
         /\ Len(NodeAt(at[v]).data) = Len(ChildList(index, v))
         /\ \A i \in 1..Len(ChildList(index, v)) :
              /\ NodeAt(at[v]).data[i].token = ChildList(index, v)[i]
              /\ NodeAt(at[v]).data[i].off = at[v] - at[Child(index, v, i)]
              /\ Child(index, v, i) \in NodesOf(index) /\ at[Child(index, v, i)] < at[v]
<1> DEFINE c == ChildList(index, v)
           n == Len(c)
           G(i) == [token |-> c[i], off |-> at[v] - at[Child(index, v, i)]]
<1>1. PICK node : node = NodeAt(at[v])
  OBVIOUS
<1>2. NodeIs(index, node, at[v], v, NodesOf(index), at)
  BY <1>1, NodeRead
<1>3. node.type = "INTERNAL_NODE"
  BY <1>2 DEF NodeIs
<1>4. node.data = [i \in 1..n |-> G(i)]
  BY <1>2 DEF NodeIs
<1>5. \A i \in 1..n : Child(index, v, i) \in NodesOf(index) /\ at[Child(index, v, i)] < at[v]
  BY <1>2 DEF NodeIs
<1>6. \A i \in 1..n : G(i).token = c[i] /\ G(i).off = at[v] - at[Child(index, v, i)]
  OBVIOUS
<1>7. v \in Paths /\ index \in Indexes
  BY NodesAre DEF Complete
<1>8. /\ n \in Nat /\ (\A i \in 1..n : c[i] \in encoded_token_t)
      /\ \A i, j \in 1..n : i < j => TokenLess(c[i], c[j])
  BY <1>7, ChildListFacts, ChildTokensFacts
<1> HIDE DEF c, n, G
<1>9. PICK data : data = node.data
  OBVIOUS
<1>10. DOMAIN data = 1..n /\ \A i \in 1..n : data[i] = G(i)
  BY <1>4, <1>9
<1>11. Len(data) = n
  <2>1. data \in Seq({ G(i) : i \in 1..n })
    <3>1. data \in [1..n -> { G(i) : i \in 1..n }]
      BY <1>4, <1>9
    <3> QED
      BY <1>8, <3>1, SeqDef
  <2> QED
    BY <1>8, <1>10, <2>1
<1>12. \A i \in 1..n : data[i].token = c[i] /\ data[i].off = at[v] - at[Child(index, v, i)]
  BY <1>6, <1>10
<1>13. Sorted(data)
  BY <1>8, <1>10, <1>11, <1>12 DEF Sorted
<1> QED
  BY <1>1, <1>3, <1>5, <1>9, <1>11, <1>12, <1>13 DEF c, n

\* getChild finds the place of a child, and nothing when there is none.
Leads(at, v, t) ==
  /\ t \in ChildTokens(index, v) => getChild(at[v], t) = at[v \o <<t>>]
  /\ t \notin ChildTokens(index, v) => getChild(at[v], t) = MEMSECTOR_OFF_NULL

\* This holds for every token at every inode of a complete file.
LEMMA GetChildIs ==
  ASSUME NEW m, NEW o, NEW D, NEW at, Complete(m, o, D, at), NEW v \in NodesOf(index), v \notin index,
         NEW t \in encoded_token_t
  PROVE  Leads(at, v, t)
<1> DEFINE c == ChildList(index, v)
           n == Len(c)
<1>1. PICK data : data = NodeAt(at[v]).data
  OBVIOUS
<1>2. /\ NodeAt(at[v]).type = "INTERNAL_NODE" /\ Sorted(data) /\ Len(data) = n
      /\ \A i \in 1..n : /\ data[i].token = c[i] /\ data[i].off = at[v] - at[Child(index, v, i)]
                         /\ Child(index, v, i) \in NodesOf(index) /\ at[Child(index, v, i)] < at[v]
  BY <1>1, EntriesRead
<1>3. inode_get_child(data, t) = Entry(data, t, <<0, n - 1>>)
  BY <1>2, BinarySearch
<1>4. v \in Paths /\ index \in Indexes /\ at[v] \in Nat
  BY NodesAre, NodeRead DEF Complete
<1>5. n \in Nat
  BY <1>4, ChildListFacts
<1>6. getChild(at[v], t) = IF Entry(data, t, <<0, n - 1>>) = MEMSECTOR_OFF_NULL THEN MEMSECTOR_OFF_NULL
                           ELSE at[v] - Entry(data, t, <<0, n - 1>>)
  <2>1. IsInode(at[v])
    BY <1>2 DEF IsInode
  <2> QED
    BY <1>1, <1>3, <2>1, Zenon DEF getChild
<1>7. /\ \A i \in 1..n : data[i].token = t => Entry(data, t, <<0, n - 1>>) = data[i].off
      /\ (\A i \in 1..n : data[i].token # t) => Entry(data, t, <<0, n - 1>>) = MEMSECTOR_OFF_NULL
  <2>1. PICK r \in Int : r = n - 1 /\ r < Len(data)
    BY <1>2, <1>5
  <2>2. 0 \in Nat /\ (0 + 1)..(r + 1) = 1..n
    BY <1>5, <2>1
  <2> HIDE DEF n
  <2>3. /\ \A i \in (0 + 1)..(r + 1) : data[i].token = t => Entry(data, t, <<0, r>>) = data[i].off
        /\ (\A i \in (0 + 1)..(r + 1) : data[i].token # t) => Entry(data, t, <<0, r>>) = MEMSECTOR_OFF_NULL
    BY <1>2, <2>1, <2>2, EntryIs
  <2> QED
    BY <2>1, <2>2, <2>3, Zenon
<1>8. ASSUME t \in ChildTokens(index, v)
      PROVE  getChild(at[v], t) = at[v \o <<t>>]
  <2>1. PICK i \in 1..n : c[i] = t
    BY <1>4, <1>8, ChildListFacts
  <2>2. Child(index, v, i) = v \o <<t>>
    BY <2>1 DEF Child
  <2>3. PICK u : u = v \o <<t>>
    OBVIOUS
  <2>4. Entry(data, t, <<0, n - 1>>) = at[v] - at[u] /\ u \in NodesOf(index) /\ at[u] < at[v]
    BY <1>2, <1>7, <2>1, <2>2, <2>3
  <2>5. at[u] \in Nat
    BY <2>4, NodeRead
  <2>6. at[v] - at[u] # 0 /\ at[v] - (at[v] - at[u]) = at[u]
    BY <1>4, <2>4, <2>5
  <2> QED
    BY <1>6, <2>3, <2>4, <2>6 DEF MEMSECTOR_OFF_NULL
<1>9. ASSUME t \notin ChildTokens(index, v) PROVE getChild(at[v], t) = MEMSECTOR_OFF_NULL
  <2>1. \A i \in 1..n : c[i] \in ChildTokens(index, v)
    BY <1>4, ChildListFacts
  <2>2. \A i \in 1..n : data[i].token # t
    BY <1>2, <1>9, <2>1
  <2> QED
    BY <1>6, <1>7, <2>2
<1> QED
  BY <1>8, <1>9 DEF Leads

-----------------------------------------------------------------------------
\* The recursion of Reached.
Walks(f, v) == f = [n \in 0..Len(v) |-> IF n = 0 THEN writer.root_off ELSE getChild(f[n - 1], v[n])]

\* Reached is the last value of that recursion.
LEMMA WalkIs ==
  ASSUME NEW v
  PROVE  Reached(v) = (CHOOSE f : Walks(f, v))[Len(v)]
  BY DEF Reached, Walks

\* The first n tokens of a node are a node, the next token is that of a child.
LEMMA WayTo ==
  ASSUME NEW ix \in Indexes, NEW v \in NodesOf(ix), NEW n \in 0..Len(v)
  PROVE  /\ SubSeq(v, 1, n) \in NodesOf(ix)
         /\ n = 0 => SubSeq(v, 1, n) = <<>>
         /\ n = Len(v) => SubSeq(v, 1, n) = v
         /\ n # Len(v) => /\ v[n + 1] \in encoded_token_t /\ v[n + 1] \in ChildTokens(ix, SubSeq(v, 1, n))
                          /\ SubSeq(v, 1, n + 1) = SubSeq(v, 1, n) \o <<v[n + 1]>>
<1>1. v \in Paths /\ IsNode(ix, v) /\ ix \in SUBSET Paths /\ Len(v) \in Nat /\ n \in Nat /\ n <= Len(v)
  BY NodesAre, IndexFacts, PathFacts DEF Paths
<1>2. ASSUME NEW l \in Nat, l <= Len(v)
      PROVE  /\ SubSeq(v, 1, l) \in Paths /\ Len(SubSeq(v, 1, l)) = l
             /\ \A k \in 1..l : SubSeq(v, 1, l)[k] = v[k]
  <2>1. PICK y : y = SubSeq(v, 0 + 1, l)
    OBVIOUS
  <2>2. 0 \in Nat /\ 0 <= l /\ l - 0 = l /\ 0 + 1 = 1 /\ \A k \in 1..l : 0 + k = k
    OBVIOUS
  <2>3. y \in Paths /\ Len(y) = l /\ \A k \in 1..l : y[k] = v[k]
    BY <1>1, <1>2, <2>1, <2>2, SubSeqFacts DEF Paths
  <2> QED
    BY <2>1, <2>2, <2>3
<1>3. PICK x : x = SubSeq(v, 1, n)
  OBVIOUS
<1>4. x \in Paths /\ Len(x) = n /\ (\A k \in 1..n : x[k] = v[k]) /\ Extends(v, x)
  BY <1>1, <1>2, <1>3 DEF Extends
<1>5. x \in NodesOf(ix)
  <2>1. PICK f \in ix : Extends(f, v)
    BY <1>1 DEF IsNode
  <2>2. Extends(f, x)
    BY <1>1, <1>4, <2>1, ExtendsTransitive
  <2> QED
    BY <1>4, <2>1, <2>2, NodesAre DEF IsNode
<1>6. ASSUME n = 0 PROVE x = <<>>
  BY <1>4, <1>6, EmptySeq DEF Paths
<1>7. ASSUME n = Len(v) PROVE x = v
  BY <1>1, <1>4, <1>7, SeqEqual DEF Paths
<1>8. ASSUME n # Len(v)
      PROVE  /\ v[n + 1] \in encoded_token_t /\ v[n + 1] \in ChildTokens(ix, x)
             /\ SubSeq(v, 1, n + 1) = x \o <<v[n + 1]>>
  <2>1. n + 1 \in Nat /\ n + 1 <= Len(v) /\ Len(v) > n
    BY <1>1, <1>8
  <2>2. v[n + 1] \in ChildTokens(ix, x) /\ v[n + 1] \in encoded_token_t
    BY <1>4, <2>1, NodeGoesOn
  <2>3. PICK y : y = SubSeq(v, 1, n + 1)
    OBVIOUS
  <2>4. y \in Paths /\ Len(y) = n + 1 /\ \A k \in 1..(n + 1) : y[k] = v[k]
    BY <1>2, <2>1, <2>3
  <2>5. PICK z : z = x \o <<v[n + 1]>>
    OBVIOUS
  <2>6. z \in Paths /\ Len(z) = n + 1 /\ (\A k \in 1..n : z[k] = x[k]) /\ z[n + 1] = v[n + 1]
    BY <1>4, <2>2, <2>5, Longer
  <2>7. \A k \in 1..(n + 1) : k \in 1..n \/ k = n + 1
    BY <1>1
  <2>8. \A k \in 1..(n + 1) : y[k] = z[k]
    BY <1>4, <2>4, <2>6, <2>7
  <2>9. y = z
    BY <2>4, <2>6, <2>8, SeqEqual DEF Paths
  <2> QED
    BY <2>2, <2>3, <2>5, <2>9
<1> QED
  BY <1>3, <1>5, <1>6, <1>7, <1>8

\* Following the tokens of a node leads to its place.
LEMMA ReachedIs ==
  ASSUME NEW m, NEW o, NEW D, NEW at, Complete(m, o, D, at), NEW v \in NodesOf(index)
  PROVE  Reached(v) = at[v]
<1> DEFINE W(n) == at[SubSeq(v, 1, n)]
           g == [n \in 0..Len(v) |-> W(n)]
<1>1. v \in Paths /\ index \in Indexes /\ Len(v) \in Nat
  BY NodesAre, PathFacts DEF Complete, Paths
<1>2. W(0) = writer.root_off
  <2>1. 0 \in 0..Len(v)
    BY <1>1
  <2>2. SubSeq(v, 1, 0) = <<>>
    BY <1>1, <2>1, WayTo
  <2>3. writer.root_off = at[<<>>]
    BY DEF Complete, Writer
  <2> QED
    BY <2>2, <2>3
<1>3. ASSUME NEW n \in 1..Len(v) PROVE W(n) = getChild(W(n - 1), v[n])
  <2>1. n - 1 \in 0..Len(v) /\ n - 1 # Len(v) /\ (n - 1) + 1 = n
    BY <1>1
  <2>2. PICK x : x = SubSeq(v, 1, n - 1)
    OBVIOUS
  <2>3. /\ x \in NodesOf(index) /\ v[n] \in encoded_token_t /\ v[n] \in ChildTokens(index, x)
        /\ SubSeq(v, 1, n) = x \o <<v[n]>>
    <3>1. PICK k \in 0..Len(v) : k = n - 1
      BY <2>1
    <3>2. k # Len(v) /\ k + 1 = n /\ x = SubSeq(v, 1, k)
      BY <2>1, <2>2, <3>1
    <3>3. /\ SubSeq(v, 1, k) \in NodesOf(index)
          /\ v[k + 1] \in encoded_token_t /\ v[k + 1] \in ChildTokens(index, SubSeq(v, 1, k))
          /\ SubSeq(v, 1, k + 1) = SubSeq(v, 1, k) \o <<v[k + 1]>>
      BY <1>1, <3>2, WayTo
    <3> QED
      BY <3>2, <3>3
  <2>4. x \notin index
    BY <1>1, <2>3, NodesAre, ParentIsNoLeaf
  <2>5. getChild(at[x], v[n]) = at[x \o <<v[n]>>]
    <3>1. Leads(at, x, v[n])
      BY <2>3, <2>4, GetChildIs
    <3> QED
      BY <2>3, <3>1 DEF Leads
  <2> QED
    BY <2>2, <2>3, <2>5
<1> HIDE DEF W
<1>4. Walks(g, v)
  <2>1. ASSUME NEW n \in 0..Len(v)
        PROVE  W(n) = IF n = 0 THEN writer.root_off ELSE getChild(g[n - 1], v[n])
    <3>1. CASE n = 0
      BY <1>2, <3>1
    <3>2. CASE n # 0
      <4>1. n \in 1..Len(v) /\ n - 1 \in 0..Len(v)
        BY <1>1, <3>2
      <4>2. g[n - 1] = W(n - 1)
        BY <4>1
      <4> QED
        BY <1>3, <3>2, <4>1, <4>2
    <3> QED
      BY <3>1, <3>2
  <2> DEFINE R(n) == IF n = 0 THEN writer.root_off ELSE getChild(g[n - 1], v[n])
  <2>2. \A n \in 0..Len(v) : W(n) = R(n)
    BY <2>1
  <2> HIDE DEF R
  <2>3. g = [n \in 0..Len(v) |-> R(n)]
    BY <2>2
  <2> QED
    BY <2>3 DEF Walks, R
<1> HIDE DEF g
<1>5. PICK f : f = (CHOOSE h : Walks(h, v))
  OBVIOUS
<1>6. Walks(f, v)
  BY <1>4, <1>5
<1>7. ASSUME NEW n \in 0..Len(v)
      PROVE  f[n] = IF n = 0 THEN writer.root_off ELSE getChild(f[n - 1], v[n])
  <2> DEFINE R(k) == IF k = 0 THEN writer.root_off ELSE getChild(f[k - 1], v[k])
  <2>1. f = [k \in 0..Len(v) |-> R(k)]
    BY <1>6, Zenon DEF Walks
  <2> HIDE DEF R
  <2>2. [k \in 0..Len(v) |-> R(k)][n] = R(n)
    OBVIOUS
  <2>3. f[n] = R(n)
    BY <2>1, <2>2, Zenon
  <2> QED
    BY <2>3 DEF R
<1> DEFINE P == { n \in Nat : n <= Len(v) => f[n] = W(n) }
<1>8. 0 \in P
  <2>1. 0 \in 0..Len(v)
    BY <1>1
  <2> QED
    BY <1>2, <1>7, <2>1
<1>9. ASSUME NEW n \in Nat, n \in P PROVE n + 1 \in P
  <2> SUFFICES ASSUME n + 1 <= Len(v) PROVE f[n + 1] = W(n + 1)
    OBVIOUS
  <2>1. n <= Len(v) /\ n + 1 \in 1..Len(v) /\ n + 1 \in 0..Len(v) /\ n + 1 # 0 /\ (n + 1) - 1 = n
    BY <1>1
  <2>2. f[n] = W(n)
    BY <1>9, <2>1
  <2>3. f[n + 1] = getChild(f[(n + 1) - 1], v[n + 1])
    BY <1>7, <2>1
  <2>4. W(n + 1) = getChild(W((n + 1) - 1), v[n + 1])
    BY <1>3, <2>1
  <2> QED
    BY <2>1, <2>2, <2>3, <2>4
<1>10. Nat \subseteq P
  <2> HIDE DEF P
  <2> QED
    BY <1>8, <1>9, SetInduction
<1>11. f[Len(v)] = W(Len(v))
  BY <1>1, <1>10
<1>12. SubSeq(v, 1, Len(v)) = v
  <2>1. Len(v) \in 0..Len(v)
    BY <1>1
  <2> QED
    BY <1>1, <2>1, WayTo
<1>13. f[Len(v)] = at[v]
  BY <1>11, <1>12 DEF W
<1> QED
  BY <1>5, <1>13, WalkIs, Zenon

\* A finished file is the index.
LEMMA FileIsIndex ==
  ASSUME NEW m, NEW o, NEW D, NEW at, Complete(m, o, D, at)
  PROVE  MemsectorIsIndex
<1>1. index \in Indexes /\ Nodes = NodesOf(index) /\ index \in SUBSET Paths
  BY SizeIs, IndexFacts DEF Complete
<1>2. writer.offset = HEADER_SIZE + computeMemsectorSize
  <2>1. writer.offset = o
    BY DEF Complete, Writer
  <2> QED
    BY <2>1, SizeIs DEF Complete, FileOf
<1>3. ASSUME NEW v \in Nodes, v \in index
      PROVE  /\ NodeAt(Reached(v)).type = "LEAF_NODE"
             /\ getFormulaId(Reached(v)) = v
             /\ HitCounts[v] < HITS_MOD => getHitsCount(Reached(v)) = HitCounts[v]
  <2>1. Reached(v) = at[v] /\ NodeIs(index, NodeAt(at[v]), at[v], v, NodesOf(index), at)
    BY <1>1, ReachedIs, NodeRead
  <2>2. NodeAt(at[v]) = leaf_s(HitCounts[v], v)
    BY <1>3, <2>1 DEF NodeIs
  <2>3. PICK node : node = NodeAt(at[v])
    OBVIOUS
  <2>4. node.type = "LEAF_NODE" /\ node.formula_id = v /\ node.num_hits = HitCounts[v] % HITS_MOD
    BY <2>2, <2>3 DEF leaf_s
  <2>5. HitCounts[v] \in Nat /\ HITS_MOD \in Nat \ {0}
    BY <1>1, <1>3, MemsectorAssumption
  <2>6. \A x \in Nat : x < HITS_MOD => x % HITS_MOD = x
    BY <2>5
  <2>7. HitCounts[v] < HITS_MOD => node.num_hits = HitCounts[v]
    BY <2>4, <2>5, <2>6
  <2> QED
    BY <2>1, <2>3, <2>4, <2>7, Zenon DEF getFormulaId, getHitsCount
<1>4. ASSUME NEW v \in Nodes, v \notin index
      PROVE  /\ NodeAt(Reached(v)).type = "INTERNAL_NODE"
             /\ getChildren(Reached(v)) =
                  [i \in DOMAIN Children(v) |-> <<Children(v)[i], Reached(Append(v, Children(v)[i]))>>]
             /\ \A formula \in DOMAIN HitCounts : \A i \in DOMAIN formula :
                  ~HasChild(index, v, formula[i]) => getChild(Reached(v), formula[i]) = MEMSECTOR_OFF_NULL
  <2>1. v \in NodesOf(index) /\ v \in Paths /\ Reached(v) = at[v]
    BY <1>1, ReachedIs, NodesAre
  <2>2. PICK data : data = NodeAt(at[v]).data
    OBVIOUS
  <2> DEFINE c == ChildList(index, v)
             n == Len(c)
  <2>3. /\ NodeAt(at[v]).type = "INTERNAL_NODE" /\ Sorted(data) /\ Len(data) = n
        /\ \A i \in 1..n : /\ data[i].token = c[i] /\ data[i].off = at[v] - at[Child(index, v, i)]
                           /\ Child(index, v, i) \in NodesOf(index) /\ at[Child(index, v, i)] < at[v]
    BY <1>4, <2>1, <2>2, EntriesRead
  <2>4. Children(v) = c /\ DOMAIN c = 1..n /\ n \in Nat
    <3>1. Children(v) = c
      BY DEF Children, ChildList
    <3> QED
      BY <1>1, <2>1, <3>1, ChildListFacts
  <2>5. DOMAIN data = 1..n
    BY <2>3 DEF Sorted
  <2>6. ASSUME NEW i \in 1..n
        PROVE  <<data[i].token, at[v] - data[i].off>> = <<c[i], Reached(Append(v, c[i]))>>
    <3>1. c[i] \in encoded_token_t
      BY <1>1, <2>1, ChildListFacts, ChildTokensFacts
    <3>2. Append(v, c[i]) = Child(index, v, i)
      BY <2>1, <3>1, AppendIsConcat DEF Child, Paths
    <3>3. PICK u : u = Child(index, v, i)
      OBVIOUS
    <3>4. u \in NodesOf(index) /\ data[i].token = c[i] /\ data[i].off = at[v] - at[u]
      BY <2>3, <3>3
    <3>5. Reached(u) = at[u] /\ at[u] \in Nat /\ at[v] \in Nat
      BY <2>1, <3>4, ReachedIs, NodeRead
    <3>6. at[v] - (at[v] - at[u]) = at[u]
      BY <3>5
    <3> QED
      BY <3>2, <3>3, <3>4, <3>5, <3>6, Zenon
  <2>7. getChildren(at[v]) = [i \in 1..n |-> <<data[i].token, at[v] - data[i].off>>]
    BY <2>2, <2>5, Zenon DEF getChildren
  <2>8. [i \in 1..n |-> <<data[i].token, at[v] - data[i].off>>] = [i \in 1..n |-> <<c[i], Reached(Append(v, c[i]))>>]
    <3> DEFINE A(i) == <<data[i].token, at[v] - data[i].off>>
               B(i) == <<c[i], Reached(Append(v, c[i]))>>
    <3>1. \A i \in 1..n : A(i) = B(i)
      BY <2>6
    <3> HIDE DEF A, B, n, c
    <3>2. [i \in 1..n |-> A(i)] = [i \in 1..n |-> B(i)]
      BY <3>1
    <3> QED
      BY <3>2 DEF A, B
  <2>9. [i \in DOMAIN Children(v) |-> <<Children(v)[i], Reached(Append(v, Children(v)[i]))>>]
          = [i \in 1..n |-> <<c[i], Reached(Append(v, c[i]))>>]
    <3> HIDE DEF n, c
    <3> QED
      BY <2>4, Zenon
  <2>10. ASSUME NEW t \in encoded_token_t, t \notin ChildTokens(index, v)
        PROVE  getChild(at[v], t) = MEMSECTOR_OFF_NULL
    <3>1. v \in NodesOf(index) /\ v \notin index
      BY <1>4, <2>1
    <3>2. Leads(at, v, t)
      BY <3>1, GetChildIs
    <3> QED
      BY <2>10, <3>2 DEF Leads
  <2>11. ASSUME NEW formula \in DOMAIN HitCounts, NEW i \in DOMAIN formula, ~HasChild(index, v, formula[i])
         PROVE  getChild(at[v], formula[i]) = MEMSECTOR_OFF_NULL
    <3>1. formula \in Paths
      BY MemsectorAssumption DEF Paths
    <3>2. formula[i] \in encoded_token_t
      BY <3>1, PathFacts DEF Paths
    <3> QED
      BY <2>11, <3>2, <2>10 DEF HasChild
  <2> HIDE DEF n, c
  <2>12. NodeAt(Reached(v)).type = "INTERNAL_NODE"
    BY <2>1, <2>3
  <2>13. getChildren(Reached(v)) =
           [i \in DOMAIN Children(v) |-> <<Children(v)[i], Reached(Append(v, Children(v)[i]))>>]
    BY <2>1, <2>7, <2>8, <2>9, Zenon
  <2> QED
    BY <2>1, <2>11, <2>12, <2>13, Zenon
<1> QED
  BY <1>2, <1>3, <1>4, Zenon DEF MemsectorIsIndex, IsLeaf

\* A saved file is complete, when its offsets fit.
LEMMA SavedIsIndex == IterInv /\ ExportInv => MemsectorIsIndex
<1> SUFFICES ASSUME IterInv, ExportInv, Saved, Fits PROVE MemsectorIsIndex
  BY DEF MemsectorIsIndex
<1>1. exporting /\ FitsIn(index)
  BY FitsIs DEF ExportInv, Saved
<1>2. index \in Indexes /\ <<>> \in NodesOf(index)
  BY <1>1, AtRoot
<1>3. ~Exported(index, writer, Path, LevelCount(index, Path), DoneOf(index, Path, Back(pc)))
  BY DEF Exported, Writer, Saved
<1>4. Finished(index, writer)
  BY <1>1, <1>3 DEF ExportInv
<1>5. PICK m, o, D, at : Complete(m, o, D, at)
  BY <1>2, <1>4 DEF Finished, Complete
<1> QED
  BY <1>5, FileIsIndex

\* The file that exportToMemsector saves is the index it walked over, for every
\* index whose file keeps its offsets below 2^32: what IndexAccessor reads from
\* it, the children of every node and their order, what getChild finds and does
\* not find, the ids and the hits of the leaves, and the size of the file.
THEOREM MemsectorIsIndexCorrect == ExportSpec => []MemsectorIsIndex
<1>1. ExportInit => IterInv /\ ExportInv
  BY IterInit, ExportStarts DEF ExportInit
<1>2. [ExportNext]_memsectorVars => [Next]_vars
  BY DEF ExportNext, exportToMemsector, Pushes, Pops, Advances, Returns, memsector_save,
         memsectorVars, Next, vars
<1>3. IterInv /\ [Next]_vars => IterInv'
  BY IterStep
<1>4. IterInv /\ ExportInv /\ [ExportNext]_memsectorVars => ExportInv'
  BY ExportStep
<1>5. IterInv /\ ExportInv => MemsectorIsIndex
  BY SavedIsIndex
<1> QED
  BY <1>1, <1>2, <1>3, <1>4, <1>5, PTL DEF ExportSpec

=============================================================================

-------------------------- MODULE IndexTrieProofs --------------------------
(***************************************************************************)
(* Facts about the index as a value: the number of subterms a path lacks,  *)
(* the order of tokens and of paths, the nodes of an index and the terms   *)
(* below them.  Inductions over natural numbers are written with sets: a   *)
(* non-empty set of numbers has a least element.                           *)
(***************************************************************************)
EXTENDS IndexTrie, SequenceTheorems, FunctionTheorems, FiniteSetTheorems,
        WellFoundedInduction, TLAPS

\* A non-empty set of natural numbers has a least element.
LEMMA LeastNatural ==
  ASSUME NEW B \in SUBSET Nat, B # {}
  PROVE  \E m \in B : \A k \in B : m <= k
<1> DEFINE T == { 0..n : n \in B }
<1>1. T \subseteq FiniteSubsetsOf(Nat)
  <2>1. ASSUME NEW n \in B PROVE IsFiniteSet(0..n) /\ 0..n \in SUBSET Nat
    BY FS_Interval
  <2> QED
    BY <2>1 DEF FiniteSubsetsOf
<1>2. T # {}
  OBVIOUS
<1>3. PICK x \in T : \A y \in T : ~(<<y, x>> \in StrictSubsetOrdering(Nat))
  <2>1. IsWellFoundedOn(StrictSubsetOrdering(Nat), FiniteSubsetsOf(Nat))
    BY FS_StrictSubsetOrderingWellFounded
  <2> HIDE DEF T
  <2> QED
    BY <1>1, <1>2, <2>1, WFMin
<1>4. PICK m \in B : x = 0..m
  OBVIOUS
<1>5. ASSUME NEW k \in B, k < m PROVE FALSE
  <2>1. 0..k \subseteq 0..m /\ 0..k # 0..m
    BY <1>5
  <2>2. 0..k \in SUBSET Nat /\ 0..m \in SUBSET Nat
    OBVIOUS
  <2>3. <<0..k, 0..m>> \in StrictSubsetOrdering(Nat)
    BY <2>1, <2>2 DEF StrictSubsetOrdering
  <2> QED
    BY <1>3, <1>4, <2>3
<1> QED
  BY <1>5

\* Induction, for a property written as a set of numbers.
LEMMA SetInduction ==
  ASSUME NEW P, 0 \in P, \A n \in Nat : n \in P => n + 1 \in P
  PROVE  Nat \subseteq P
<1> SUFFICES ASSUME Nat \ P # {} PROVE FALSE
  OBVIOUS
<1>1. PICK m \in Nat \ P : \A k \in Nat \ P : m <= k
  BY LeastNatural
<1>2. m - 1 \in Nat /\ m - 1 + 1 = m
  BY <1>1
<1> QED
  BY <1>1, <1>2

\* The function f on 0..n is defined by a start value and a step.
Steps(n, S) == [(1..n) \X S -> S]

Recurs(f, n, S, c, F) ==
  f \in [0..n -> S] /\ f[0] = c /\ \A i \in 1..n : f[i] = F[<<i, f[i-1]>>]

\* Such a function exists.
LEMMA RecursionExists ==
  ASSUME NEW n \in Nat, NEW S, NEW c \in S, NEW F \in Steps(n, S)
  PROVE  \E f : Recurs(f, n, S, c, F)
<1> DEFINE Upto(m, f) == f[0] = c /\ \A i \in 1..m : f[i] = F[<<i, f[i-1]>>]
           P == { m \in Nat : m <= n => \E f \in [0..m -> S] : Upto(m, f) }
<1>1. 0 \in P
  <2>1. [i \in 0..0 |-> c] \in [0..0 -> S] /\ Upto(0, [i \in 0..0 |-> c])
    OBVIOUS
  <2> QED
    BY <2>1
<1>2. ASSUME NEW m \in Nat, m \in P PROVE m + 1 \in P
  <2> SUFFICES ASSUME m + 1 <= n PROVE \E f \in [0..(m+1) -> S] : Upto(m + 1, f)
    OBVIOUS
  <2>1. PICK f \in [0..m -> S] : Upto(m, f)
    BY <1>2
  <2> DEFINE g == [i \in 0..(m+1) |-> IF i <= m THEN f[i] ELSE F[<<m + 1, f[m]>>]]
  <2>2. F[<<m + 1, f[m]>>] \in S
    <3>1. <<m + 1, f[m]>> \in (1..n) \X S
      OBVIOUS
    <3> QED
      BY <3>1 DEF Steps
  <2>3. g \in [0..(m+1) -> S]
    BY <2>2
  <2>4. ASSUME NEW i \in 1..(m+1) PROVE g[i] = F[<<i, g[i-1]>>]
    <3>1. CASE i <= m
      <4>1. i \in 1..m /\ g[i] = f[i] /\ g[i-1] = f[i-1]
        BY <3>1
      <4> QED
        BY <2>1, <4>1
    <3>2. CASE i = m + 1
      <4>1. m + 1 \in 0..(m+1) /\ m \in 0..(m+1) /\ ~(m + 1 <= m) /\ i - 1 = m
        BY <3>2
      <4>2. g[m+1] = F[<<m + 1, f[m]>>] /\ g[m] = f[m]
        BY <4>1
      <4> QED
        BY <3>2, <4>1, <4>2
    <3> QED
      BY <3>1, <3>2
  <2>5. g[0] = c
    BY <2>1
  <2> QED
    BY <2>3, <2>4, <2>5
<1>3. Nat \subseteq P
  <2> HIDE DEF P
  <2> QED
    BY <1>1, <1>2, SetInduction
<1>4. PICK f \in [0..n -> S] : Upto(n, f)
  <2>1. n \in P
    BY <1>3
  <2> QED
    BY <2>1
<1> QED
  BY <1>4 DEF Recurs

\* OpenSlots satisfies the equations that define it: IndexIterator's _arity starts at
\* 1 and every token adds its arity less one.
LEMMA OpenSlotsDef ==
  ASSUME NEW s \in Seq(encoded_token_t)
  PROVE  /\ OpenSlots(s) \in [0..Len(s) -> Int]
         /\ OpenSlots(s)[0] = 1
         /\ \A i \in 1..Len(s) : OpenSlots(s)[i] = OpenSlots(s)[i-1] + s[i].arity - 1
<1> DEFINE Fits(f) == f = [i \in 0..Len(s) |-> IF i = 0 THEN 1 ELSE f[i-1] + s[i].arity - 1]
           F == [p \in (1..Len(s)) \X Int |-> p[2] + s[p[1]].arity - 1]
<1>1. OpenSlots(s) = CHOOSE f : Fits(f)
  BY DEF OpenSlots
<1>2. Len(s) \in Nat /\ \A i \in 1..Len(s) : s[i].arity \in Nat
  <2>1. Len(s) \in Nat /\ \A i \in 1..Len(s) : s[i] \in encoded_token_t
    BY LenProperties, ElementOfSeq
  <2> QED
    BY <2>1 DEF encoded_token_t
<1>3. F \in Steps(Len(s), Int)
  BY <1>2 DEF Steps
<1>4. PICK f : Recurs(f, Len(s), Int, 1, F)
  <2>1. Len(s) \in Nat /\ 1 \in Int
    BY <1>2
  <2> HIDE DEF F, Fits
  <2> QED
    BY <1>3, <2>1, RecursionExists, Zenon
<1>5. Fits(f)
  <2>1. ASSUME NEW i \in 1..Len(s) PROVE f[i] = f[i-1] + s[i].arity - 1
    <3>1. i - 1 \in 0..Len(s)
      BY <1>2
    <3>2. <<i, f[i-1]>> \in (1..Len(s)) \X Int
      BY <1>4, <3>1 DEF Recurs
    <3> QED
      BY <1>4, <3>2 DEF Recurs
  <2> QED
    BY <1>4, <2>1 DEF Recurs
<1>6. Fits(OpenSlots(s))
  BY <1>1, <1>5
<1>7. /\ OpenSlots(s)[0] = 1
      /\ \A i \in 1..Len(s) : OpenSlots(s)[i] = OpenSlots(s)[i-1] + s[i].arity - 1
  BY <1>2, <1>6
<1> DEFINE P == { i \in Nat : i <= Len(s) => OpenSlots(s)[i] \in Int }
<1>8. 0 \in P
  BY <1>7
<1>9. ASSUME NEW i \in Nat, i \in P PROVE i + 1 \in P
  <2> SUFFICES ASSUME i + 1 <= Len(s) PROVE OpenSlots(s)[i + 1] \in Int
    OBVIOUS
  <2>1. i + 1 \in 1..Len(s) /\ i + 1 - 1 = i /\ i <= Len(s)
    BY <1>2
  <2>2. OpenSlots(s)[i] \in Int
    BY <1>9, <2>1
  <2>3. OpenSlots(s)[i + 1] = OpenSlots(s)[i] + s[i + 1].arity - 1
    BY <1>7, <2>1
  <2>4. s[i + 1].arity \in Nat
    BY <1>2, <2>1
  <2> QED
    BY <2>2, <2>3, <2>4
<1>10. Nat \subseteq P
  <2> HIDE DEF P
  <2> QED
    BY <1>8, <1>9, SetInduction
<1>11. \A i \in 0..Len(s) : OpenSlots(s)[i] \in Int
  BY <1>2, <1>10
<1>12. OpenSlots(s) = [i \in 0..Len(s) |-> OpenSlots(s)[i]]
  BY <1>6
<1>13. OpenSlots(s) \in [0..Len(s) -> Int]
  <2> HIDE DEF Fits, P
  <2> QED
    BY <1>11, <1>12, Zenon
<1> QED
  BY <1>7, <1>13

\* The part of a path after its first a tokens, up to token k.
LEMMA SubSeqFacts ==
  ASSUME NEW x \in Seq(encoded_token_t), NEW a \in Nat, NEW k \in Nat, a <= k, k <= Len(x)
  PROVE  /\ SubSeq(x, a + 1, k) \in Seq(encoded_token_t)
         /\ Len(SubSeq(x, a + 1, k)) = k - a
         /\ \A j \in 1..(k - a) : SubSeq(x, a + 1, k)[j] = x[a + j]
<1>1. Len(x) \in Nat /\ \A i \in 1..Len(x) : x[i] \in encoded_token_t
  BY LenProperties, ElementOfSeq
<1>2. \A i \in (a + 1)..k : x[i] \in encoded_token_t
  BY <1>1
<1>3. a + 1 \in Int /\ k \in Int
  OBVIOUS
<1>4. /\ SubSeq(x, a + 1, k) \in Seq(encoded_token_t)
      /\ Len(SubSeq(x, a + 1, k)) = IF a + 1 <= k THEN k - (a + 1) + 1 ELSE 0
      /\ \A j \in 1..(k - (a + 1) + 1) : SubSeq(x, a + 1, k)[j] = x[(a + 1) + j - 1]
  BY <1>2, <1>3, SubSeqProperties
<1>5. ASSUME NEW j \in 1..(k - a) PROVE SubSeq(x, a + 1, k)[j] = x[a + j]
  <2>1. j \in 1..(k - (a + 1) + 1) /\ (a + 1) + j - 1 = a + j
    OBVIOUS
  <2> QED
    BY <1>4, <2>1
<1> QED
  BY <1>4, <1>5

-----------------------------------------------------------------------------
\* Tokens and counts of a path.
LEMMA PathFacts ==
  ASSUME NEW s \in Seq(encoded_token_t)
  PROVE  /\ Len(s) \in Nat /\ DOMAIN s = 1..Len(s)
         /\ \A i \in 1..Len(s) : s[i] \in encoded_token_t /\ s[i].arity \in Nat /\ s[i].id \in Nat
         /\ \A i \in 0..Len(s) : OpenSlots(s)[i] \in Int
         /\ \A i \in 1..Len(s) : OpenSlots(s)[i] >= OpenSlots(s)[i-1] - 1
<1>1. Len(s) \in Nat /\ DOMAIN s = 1..Len(s) /\ \A i \in 1..Len(s) : s[i] \in encoded_token_t
  BY LenProperties, ElementOfSeq
<1>2. \A i \in 1..Len(s) : s[i].arity \in Nat /\ s[i].id \in Nat
  BY <1>1 DEF encoded_token_t
<1>3. \A i \in 0..Len(s) : OpenSlots(s)[i] \in Int
  BY OpenSlotsDef
<1>4. ASSUME NEW i \in 1..Len(s) PROVE OpenSlots(s)[i] >= OpenSlots(s)[i-1] - 1
  <2>1. i \in 0..Len(s) /\ i - 1 \in 0..Len(s)
    BY <1>1
  <2>2. OpenSlots(s)[i] = OpenSlots(s)[i-1] + s[i].arity - 1
    BY OpenSlotsDef
  <2> QED
    BY <1>2, <1>3, <2>1, <2>2
<1> QED
  BY <1>1, <1>2, <1>3, <1>4

\* x holds the first n tokens of t after its first a tokens.
Reads(x, a, t, n) == a + n <= Len(x) /\ n <= Len(t) /\ \A k \in 1..n : x[a + k] = t[k]

\* What follows position a of x is counted from there as from a root.
LEMMA OpenShift ==
  ASSUME NEW x \in Seq(encoded_token_t), NEW t \in Seq(encoded_token_t),
         NEW a \in Nat, NEW n \in Nat, Reads(x, a, t, n)
  PROVE  \A k \in 0..n : OpenSlots(x)[a + k] = OpenSlots(x)[a] + OpenSlots(t)[k] - 1
<1> DEFINE P == { k \in Nat : k <= n => OpenSlots(x)[a + k] = OpenSlots(x)[a] + OpenSlots(t)[k] - 1 }
<1>1. Len(x) \in Nat /\ Len(t) \in Nat /\ a + n <= Len(x) /\ n <= Len(t)
  BY PathFacts DEF Reads
<1>2. \A k \in 0..n : OpenSlots(x)[a + k] \in Int /\ OpenSlots(t)[k] \in Int
  <2>1. \A k \in 0..n : a + k \in 0..Len(x) /\ k \in 0..Len(t)
    BY <1>1
  <2> QED
    BY <2>1, PathFacts
<1>3. 0 \in P
  <2>1. OpenSlots(t)[0] = 1 /\ a + 0 = a /\ OpenSlots(x)[a + 0] \in Int
    BY <1>2, OpenSlotsDef
  <2> QED
    BY <2>1
<1>4. ASSUME NEW k \in Nat, k \in P PROVE k + 1 \in P
  <2> SUFFICES ASSUME k + 1 <= n
               PROVE  OpenSlots(x)[a + (k + 1)] = OpenSlots(x)[a] + OpenSlots(t)[k + 1] - 1
    OBVIOUS
  <2>1. /\ k + 1 \in 1..Len(t) /\ (k + 1) - 1 = k /\ k \in 0..n /\ k + 1 \in 1..n
        /\ a + (k + 1) \in 1..Len(x) /\ (a + (k + 1)) - 1 = a + k
    BY <1>1
  <2>2. OpenSlots(x)[a + k] = OpenSlots(x)[a] + OpenSlots(t)[k] - 1
    BY <1>4, <2>1
  <2>3. OpenSlots(x)[a + (k + 1)] = OpenSlots(x)[a + k] + x[a + (k + 1)].arity - 1
    BY <2>1, OpenSlotsDef
  <2>4. OpenSlots(t)[k + 1] = OpenSlots(t)[k] + t[k + 1].arity - 1
    BY <2>1, OpenSlotsDef
  <2>5. x[a + (k + 1)].arity = t[k + 1].arity /\ t[k + 1].arity \in Nat
    BY <2>1, PathFacts DEF Reads
  <2>6. OpenSlots(t)[k] \in Int /\ OpenSlots(x)[a + k] \in Int /\ OpenSlots(x)[a] \in Int
    <3>1. a \in 0..Len(x)
      BY <1>1
    <3> QED
      BY <1>2, <2>1, <3>1, PathFacts
  <2>7. PICK r \in Nat : r = x[a + (k + 1)].arity /\ r = t[k + 1].arity
    BY <2>5
  <2>8. PICK u \in Int, v \in Int : u = OpenSlots(x)[a] /\ v = OpenSlots(t)[k]
    BY <2>6
  <2>9. OpenSlots(x)[a + (k + 1)] = (u + v - 1) + r - 1 /\ OpenSlots(t)[k + 1] = v + r - 1
    BY <2>2, <2>3, <2>4, <2>7, <2>8
  <2>10. (u + v - 1) + r - 1 = u + (v + r - 1) - 1
    OBVIOUS
  <2> HIDE DEF P
  <2> QED
    BY <2>8, <2>9, <2>10, Zenon
<1>5. Nat \subseteq P
  <2> HIDE DEF P
  <2> QED
    BY <1>3, <1>4, SetInduction
<1> QED
  BY <1>5

\* The node v is on the path x.
Extends(x, v) == Len(v) <= Len(x) /\ \A k \in 1..Len(v) : x[k] = v[k]

\* A path that begins another one counts as that one does.
LEMMA OpenPrefix ==
  ASSUME NEW x \in Seq(encoded_token_t), NEW v \in Seq(encoded_token_t), Extends(x, v)
  PROVE  \A k \in 0..Len(v) : OpenSlots(x)[k] = OpenSlots(v)[k]
<1>1. Len(v) \in Nat
  BY PathFacts
<1>2. \A k \in 0..Len(v) : OpenSlots(x)[0 + k] = OpenSlots(x)[0] + OpenSlots(v)[k] - 1
  <2>1. Reads(x, 0, v, Len(v))
    BY <1>1 DEF Reads, Extends
  <2> QED
    BY <1>1, <2>1, OpenShift
<1>3. OpenSlots(x)[0] = 1 /\ \A k \in 0..Len(v) : OpenSlots(v)[k] \in Int
  BY OpenSlotsDef, PathFacts
<1> QED
  BY <1>1, <1>2, <1>3

\* No term is the beginning of another one.
LEMMA TermsArePrefixFree ==
  ASSUME NEW x \in Seq(encoded_token_t), NEW v \in Seq(encoded_token_t),
         IsTerm(x), IsTerm(v), Extends(x, v)
  PROVE  x = v
<1>1. Len(x) \in Nat /\ Len(v) \in Nat /\ Len(v) <= Len(x)
  BY PathFacts DEF Extends
<1>2. OpenSlots(x)[Len(v)] = 0
  BY <1>1, OpenPrefix DEF IsTerm
<1>3. Len(v) = Len(x)
  BY <1>1, <1>2 DEF IsTerm
<1> QED
  BY <1>1, <1>3, SeqEqual DEF Extends

\* A term begins wherever a term is not complete.
LEMMA SubtermAt ==
  ASSUME NEW x \in Seq(encoded_token_t), IsTerm(x), NEW a \in Nat, a < Len(x)
  PROVE  \E k \in (a+1)..Len(x) : IsTerm(SubSeq(x, a + 1, k))
<1>1. Len(x) \in Nat /\ a \in 0..Len(x) /\ OpenSlots(x)[a] > 0 /\ OpenSlots(x)[Len(x)] = 0
  BY PathFacts DEF IsTerm
<1>2. \A k \in 0..Len(x) : OpenSlots(x)[k] \in Int
  BY PathFacts
<1> DEFINE B == { k \in (a+1)..Len(x) : OpenSlots(x)[k] < OpenSlots(x)[a] }
<1>3. Len(x) \in B /\ B \in SUBSET Nat
  BY <1>1
<1>4. PICK k \in B : \A j \in B : k <= j
  <2> HIDE DEF B
  <2> QED
    BY <1>3, LeastNatural
<1>5. k \in (a+1)..Len(x) /\ OpenSlots(x)[k] < OpenSlots(x)[a]
  OBVIOUS
<1>6. ASSUME NEW j \in a..(k-1) PROVE OpenSlots(x)[j] >= OpenSlots(x)[a]
  <2>1. j \in 0..Len(x) /\ j # k /\ j < k
    BY <1>1, <1>5
  <2>2. CASE j = a
    BY <2>2, <1>1, <1>2
  <2>3. CASE j # a
    <3>1. j \in (a+1)..Len(x) /\ j \notin B
      BY <2>1, <2>3, <1>4, <1>5
    <3> QED
      BY <3>1, <2>1, <1>1, <1>2
  <2> QED
    BY <2>2, <2>3
<1>7. OpenSlots(x)[k] = OpenSlots(x)[a] - 1
  <2>1. k \in 1..Len(x) /\ k - 1 \in a..(k-1) /\ k - 1 \in 0..Len(x) /\ k \in 0..Len(x)
    BY <1>1, <1>5
  <2>2. OpenSlots(x)[k] >= OpenSlots(x)[k-1] - 1
    BY <2>1, PathFacts
  <2>3. OpenSlots(x)[k-1] >= OpenSlots(x)[a]
    BY <2>1, <1>6
  <2> QED
    BY <1>1, <1>2, <1>5, <2>1, <2>2, <2>3
<1> DEFINE t == SubSeq(x, a + 1, k)
           n == k - a
<1>8. t \in Seq(encoded_token_t) /\ Len(t) = n /\ \A j \in 1..n : t[j] = x[a + j]
  BY <1>1, <1>5, SubSeqFacts
<1>9. Reads(x, a, t, n) /\ n \in Nat
  BY <1>1, <1>5, <1>8 DEF Reads
<1> HIDE DEF B, t, n
<1>10. ASSUME NEW j \in 0..n PROVE OpenSlots(t)[j] = OpenSlots(x)[a + j] - OpenSlots(x)[a] + 1
  <2>1. OpenSlots(x)[a + j] = OpenSlots(x)[a] + OpenSlots(t)[j] - 1
    BY <1>8, <1>9, OpenShift
  <2>2. OpenSlots(t)[j] \in Int
    BY <1>8, PathFacts
  <2> QED
    BY <1>1, <1>2, <2>1, <2>2
<1>11. OpenSlots(t)[n] = 0
  <2>1. a + n = k /\ n \in 0..n
    BY <1>5, <1>9 DEF n
  <2>2. OpenSlots(t)[n] = OpenSlots(x)[k] - OpenSlots(x)[a] + 1
    BY <1>10, <2>1
  <2> QED
    BY <1>1, <1>2, <1>7, <2>2
<1>12. ASSUME NEW j \in 0..(n - 1) PROVE OpenSlots(t)[j] > 0
  <2>1. a + j \in a..(k-1) /\ a + j \in 0..Len(x) /\ j \in 0..n
    BY <1>1, <1>5, <1>9 DEF n
  <2> QED
    BY <1>1, <1>2, <1>6, <1>10, <2>1
<1> QED
  BY <1>5, <1>8, <1>11, <1>12 DEF IsTerm, t

-----------------------------------------------------------------------------
\* The byte order of tokens is a strict total order.
LEMMA BytesType ==
  ASSUME NEW t \in encoded_token_t
  PROVE  \A i \in 1..4 : TokenBytes(t)[i] \in Nat
<1>1. t.arity \in Nat /\ t.id \in Nat
  BY DEF encoded_token_t
<1>2. t.id % 256 \in Nat /\ (t.id \div 256) % 256 \in Nat /\ t.id \div 65536 \in Nat
  BY <1>1
<1> QED
  BY <1>1, <1>2 DEF TokenBytes

\* Two tokens with the same bytes are the same.
LEMMA BytesDetermine ==
  ASSUME NEW t \in encoded_token_t, NEW u \in encoded_token_t,
         \A i \in 1..4 : TokenBytes(t)[i] = TokenBytes(u)[i]
  PROVE  t = u
<1>1. /\ t.arity = u.arity /\ t.id % 256 = u.id % 256
      /\ (t.id \div 256) % 256 = (u.id \div 256) % 256 /\ t.id \div 65536 = u.id \div 65536
  BY DEF TokenBytes
<1>2. t.id \in Nat /\ u.id \in Nat
  BY DEF encoded_token_t
<1>3. t.id = u.id
  BY <1>1, <1>2
<1> QED
  BY <1>1, <1>3 DEF encoded_token_t

\* No token is before itself.
LEMMA TokenLessIrreflexive ==
  ASSUME NEW t \in encoded_token_t
  PROVE  ~TokenLess(t, t)
  BY BytesType DEF TokenLess

\* The order of tokens is transitive.
LEMMA TokenLessTransitive ==
  ASSUME NEW t \in encoded_token_t, NEW u \in encoded_token_t, NEW w \in encoded_token_t,
         TokenLess(t, u), TokenLess(u, w)
  PROVE  TokenLess(t, w)
<1>1. PICK i \in 1..4 : /\ TokenBytes(t)[i] < TokenBytes(u)[i]
                       /\ \A j \in 1..(i-1) : TokenBytes(t)[j] = TokenBytes(u)[j]
  BY DEF TokenLess
<1>2. PICK k \in 1..4 : /\ TokenBytes(u)[k] < TokenBytes(w)[k]
                       /\ \A j \in 1..(k-1) : TokenBytes(u)[j] = TokenBytes(w)[j]
  BY DEF TokenLess
<1>3. \A j \in 1..4 : TokenBytes(t)[j] \in Nat /\ TokenBytes(u)[j] \in Nat /\ TokenBytes(w)[j] \in Nat
  BY BytesType
<1>4. CASE i <= k
  <2>1. TokenBytes(t)[i] < TokenBytes(w)[i]
    BY <1>1, <1>2, <1>3, <1>4
  <2>2. \A j \in 1..(i-1) : TokenBytes(t)[j] = TokenBytes(w)[j]
    BY <1>1, <1>2, <1>3, <1>4
  <2> QED
    BY <2>1, <2>2 DEF TokenLess
<1>5. CASE k < i
  <2>1. TokenBytes(t)[k] < TokenBytes(w)[k]
    BY <1>1, <1>2, <1>3, <1>5
  <2>2. \A j \in 1..(k-1) : TokenBytes(t)[j] = TokenBytes(w)[j]
    BY <1>1, <1>2, <1>3, <1>5
  <2> QED
    BY <2>1, <2>2 DEF TokenLess
<1> QED
  BY <1>4, <1>5

\* Of two tokens one is before the other.
LEMMA TokenLessTotal ==
  ASSUME NEW t \in encoded_token_t, NEW u \in encoded_token_t, t # u
  PROVE  TokenLess(t, u) \/ TokenLess(u, t)
<1> DEFINE B == { i \in 1..4 : TokenBytes(t)[i] # TokenBytes(u)[i] }
<1>1. B # {} /\ B \in SUBSET Nat
  BY BytesDetermine
<1>2. PICK i \in B : \A j \in B : i <= j
  <2> HIDE DEF B
  <2> QED
    BY <1>1, LeastNatural
<1>3. i \in 1..4 /\ TokenBytes(t)[i] # TokenBytes(u)[i]
  OBVIOUS
<1>4. \A j \in 1..(i-1) : TokenBytes(t)[j] = TokenBytes(u)[j]
  BY <1>2, <1>3
<1>5. TokenBytes(t)[i] \in Nat /\ TokenBytes(u)[i] \in Nat
  BY <1>3, BytesType
<1>6. TokenBytes(t)[i] < TokenBytes(u)[i] \/ TokenBytes(u)[i] < TokenBytes(t)[i]
  BY <1>3, <1>5
<1> QED
  BY <1>3, <1>4, <1>6 DEF TokenLess

-----------------------------------------------------------------------------
\* The order of paths: that of their first different tokens.
Paths == Seq(encoded_token_t)

\* A path is neither before nor after one that it extends.
LEMMA TermLessIrreflexive ==
  ASSUME NEW s \in Paths, NEW t \in Paths, Extends(s, t)
  PROVE  ~TermLess(s, t) /\ ~TermLess(t, s)
<1>1. ASSUME NEW i \in DOMAIN s \cap DOMAIN t
      PROVE  ~TokenLess(s[i], t[i]) /\ ~TokenLess(t[i], s[i])
  <2>1. i \in 1..Len(t) /\ s[i] = t[i] /\ t[i] \in encoded_token_t
    BY PathFacts DEF Paths, Extends
  <2> QED
    BY <2>1, TokenLessIrreflexive
<1> QED
  BY <1>1 DEF TermLess

\* The order of paths is transitive.
LEMMA TermLessTransitive ==
  ASSUME NEW s \in Paths, NEW t \in Paths, NEW u \in Paths, TermLess(s, t), TermLess(t, u)
  PROVE  TermLess(s, u)
<1>0. /\ DOMAIN s = 1..Len(s) /\ DOMAIN t = 1..Len(t) /\ DOMAIN u = 1..Len(u)
      /\ Len(s) \in Nat /\ Len(t) \in Nat /\ Len(u) \in Nat
  BY PathFacts DEF Paths
<1>t. /\ \A i \in 1..Len(s) : s[i] \in encoded_token_t
      /\ \A i \in 1..Len(t) : t[i] \in encoded_token_t
      /\ \A i \in 1..Len(u) : u[i] \in encoded_token_t
  BY PathFacts DEF Paths
<1>1. PICK i \in DOMAIN s \cap DOMAIN t : TokenLess(s[i], t[i]) /\ \A j \in 1..(i-1) : s[j] = t[j]
  BY DEF TermLess
<1>2. PICK k \in DOMAIN t \cap DOMAIN u : TokenLess(t[k], u[k]) /\ \A j \in 1..(k-1) : t[j] = u[j]
  BY DEF TermLess
<1>3. i \in 1..Len(s) /\ i \in 1..Len(t) /\ k \in 1..Len(t) /\ k \in 1..Len(u)
  BY <1>0
<1>4. CASE i < k
  <2>1. t[i] = u[i] /\ i \in DOMAIN s \cap DOMAIN u /\ \A j \in 1..(i-1) : s[j] = u[j]
    BY <1>0, <1>1, <1>2, <1>3, <1>4
  <2> QED
    BY <1>1, <2>1 DEF TermLess
<1>5. CASE k < i
  <2>1. s[k] = t[k] /\ k \in DOMAIN s \cap DOMAIN u /\ \A j \in 1..(k-1) : s[j] = u[j]
    BY <1>0, <1>1, <1>2, <1>3, <1>5
  <2> QED
    BY <1>2, <2>1 DEF TermLess
<1>6. CASE k = i
  <2>1. k \in DOMAIN s \cap DOMAIN u /\ \A j \in 1..(k-1) : s[j] = u[j]
    BY <1>0, <1>1, <1>2, <1>3, <1>6
  <2>2. TokenLess(s[k], u[k])
    <3>1. s[k] \in encoded_token_t /\ t[k] \in encoded_token_t /\ u[k] \in encoded_token_t
      BY <1>t, <1>3, <1>6
    <3> QED
      BY <1>1, <1>2, <1>6, <3>1, TokenLessTransitive
  <2> QED
    BY <2>1, <2>2 DEF TermLess
<1> QED
  BY <1>3, <1>4, <1>5, <1>6

\* Of two paths one is before the other or extends it.
LEMMA TermLessTotal ==
  ASSUME NEW s \in Paths, NEW t \in Paths
  PROVE  TermLess(s, t) \/ TermLess(t, s) \/ Extends(s, t) \/ Extends(t, s)
<1>0. /\ DOMAIN s = 1..Len(s) /\ DOMAIN t = 1..Len(t) /\ Len(s) \in Nat /\ Len(t) \in Nat
      /\ \A i \in 1..Len(s) : s[i] \in encoded_token_t
      /\ \A i \in 1..Len(t) : t[i] \in encoded_token_t
  BY PathFacts DEF Paths
<1> DEFINE B == { i \in DOMAIN s \cap DOMAIN t : s[i] # t[i] }
<1>1. CASE B = {}
  <2>1. \A i \in DOMAIN s \cap DOMAIN t : s[i] = t[i]
    BY <1>1
  <2>2. CASE Len(s) <= Len(t)
    BY <1>0, <2>1, <2>2 DEF Extends
  <2>3. CASE Len(t) <= Len(s)
    BY <1>0, <2>1, <2>3 DEF Extends
  <2> QED
    BY <1>0, <2>2, <2>3
<1>2. CASE B # {}
  <2>1. B \in SUBSET Nat
    BY <1>0
  <2>2. PICK i \in B : \A j \in B : i <= j
    <3> HIDE DEF B
    <3> QED
      BY <1>2, <2>1, LeastNatural
  <2>3. i \in DOMAIN s \cap DOMAIN t /\ s[i] # t[i]
    OBVIOUS
  <2>4. \A j \in 1..(i-1) : s[j] = t[j]
    BY <1>0, <2>2, <2>3
  <2>5. TokenLess(s[i], t[i]) \/ TokenLess(t[i], s[i])
    BY <1>0, <2>3, TokenLessTotal
  <2> QED
    BY <2>3, <2>4, <2>5 DEF TermLess
<1> QED
  BY <1>1, <1>2

\* What is below or above a node is below or above every path through it.
LEMMA LessThroughNode ==
  ASSUME NEW s \in Paths, NEW v \in Paths, NEW x \in Paths, Extends(x, v)
  PROVE  /\ TermLess(s, v) => TermLess(s, x)
         /\ TermLess(v, s) => TermLess(x, s)
         /\ TermLess(s, x) => TermLess(s, v) \/ Extends(s, v)
<1>0. /\ DOMAIN s = 1..Len(s) /\ DOMAIN v = 1..Len(v) /\ DOMAIN x = 1..Len(x)
      /\ Len(s) \in Nat /\ Len(v) \in Nat /\ Len(x) \in Nat
  BY PathFacts DEF Paths
<1>1. Len(v) <= Len(x) /\ \A i \in 1..Len(v) : x[i] = v[i]
  BY DEF Extends
<1>2. ASSUME TermLess(s, v) PROVE TermLess(s, x)
  <2>1. PICK i \in DOMAIN s \cap DOMAIN v : TokenLess(s[i], v[i]) /\ \A j \in 1..(i-1) : s[j] = v[j]
    BY <1>2 DEF TermLess
  <2>2. i \in DOMAIN s \cap DOMAIN x /\ x[i] = v[i] /\ \A j \in 1..(i-1) : s[j] = x[j]
    BY <1>0, <1>1, <2>1
  <2> QED
    BY <2>1, <2>2 DEF TermLess
<1>3. ASSUME TermLess(v, s) PROVE TermLess(x, s)
  <2>1. PICK i \in DOMAIN v \cap DOMAIN s : TokenLess(v[i], s[i]) /\ \A j \in 1..(i-1) : v[j] = s[j]
    BY <1>3 DEF TermLess
  <2>2. i \in DOMAIN x \cap DOMAIN s /\ x[i] = v[i] /\ \A j \in 1..(i-1) : x[j] = s[j]
    BY <1>0, <1>1, <2>1
  <2> QED
    BY <2>1, <2>2 DEF TermLess
<1>4. ASSUME TermLess(s, x) PROVE TermLess(s, v) \/ Extends(s, v)
  <2>1. PICK i \in DOMAIN s \cap DOMAIN x : TokenLess(s[i], x[i]) /\ \A j \in 1..(i-1) : s[j] = x[j]
    BY <1>4 DEF TermLess
  <2>2. CASE i <= Len(v)
    <3>1. i \in DOMAIN s \cap DOMAIN v /\ x[i] = v[i] /\ \A j \in 1..(i-1) : s[j] = v[j]
      BY <1>0, <1>1, <2>1, <2>2
    <3> QED
      BY <2>1, <3>1 DEF TermLess
  <2>3. CASE Len(v) < i
    <3>1. Len(v) <= Len(s) /\ \A j \in 1..Len(v) : s[j] = v[j]
      BY <1>0, <1>1, <2>1, <2>3
    <3> QED
      BY <3>1 DEF Extends
  <2> QED
    BY <1>0, <2>2, <2>3
<1> QED
  BY <1>2, <1>3, <1>4

-----------------------------------------------------------------------------
\* Nodes, and the paths below them.
LEMMA PrefixIsExtends ==
  ASSUME NEW v \in Paths, NEW x \in Paths
  PROVE  IsPrefix(v, x) <=> Extends(x, v)
<1>0. Len(v) \in Nat /\ Len(x) \in Nat
  BY PathFacts DEF Paths
<1>1. CASE ~(Len(v) <= Len(x))
  BY <1>1 DEF IsPrefix, Extends
<1>2. CASE Len(v) <= Len(x)
  <2>1. SubSeq(v, 1, Len(v)) = v
    BY SubSeqFull DEF Paths
  <2>2. /\ SubSeq(x, 0 + 1, Len(v)) \in Paths /\ Len(SubSeq(x, 0 + 1, Len(v))) = Len(v) - 0
        /\ \A j \in 1..(Len(v) - 0) : SubSeq(x, 0 + 1, Len(v))[j] = x[0 + j]
    BY <1>0, <1>2, SubSeqFacts DEF Paths
  <2>3. PICK y : y = SubSeq(x, 1, Len(v))
    OBVIOUS
  <2>4. y \in Paths /\ Len(y) = Len(v) /\ \A j \in 1..Len(v) : y[j] = x[j]
    BY <1>0, <2>2, <2>3
  <2>5. v = y <=> \A j \in 1..Len(v) : v[j] = y[j]
    BY <2>4, SeqEqual DEF Paths
  <2> QED
    BY <1>2, <2>1, <2>3, <2>4, <2>5 DEF IsPrefix, Extends
<1> QED
  BY <1>1, <1>2

\* A node on the way to a node on a path is on the path.
LEMMA ExtendsTransitive ==
  ASSUME NEW u \in Paths, NEW v \in Paths, NEW x \in Paths, Extends(x, v), Extends(v, u)
  PROVE  Extends(x, u)
<1>0. Len(u) \in Nat /\ Len(v) \in Nat /\ Len(x) \in Nat
  BY PathFacts DEF Paths
<1> QED
  BY <1>0 DEF Extends

\* Two nodes on one path, the longer one below the other.
LEMMA ExtendsLinear ==
  ASSUME NEW u \in Paths, NEW v \in Paths, NEW x \in Paths, Extends(x, v), Extends(x, u),
         Len(u) <= Len(v)
  PROVE  Extends(v, u)
<1>0. Len(u) \in Nat /\ Len(v) \in Nat /\ Len(x) \in Nat
  BY PathFacts DEF Paths
<1> QED
  BY <1>0 DEF Extends

\* The tokens of a node v and of a path s below it.
LEMMA ConcatFacts ==
  ASSUME NEW v \in Paths, NEW s \in Paths
  PROVE  /\ v \o s \in Paths /\ Len(v \o s) = Len(v) + Len(s)
         /\ \A k \in 1..Len(v) : (v \o s)[k] = v[k]
         /\ \A k \in 1..Len(s) : (v \o s)[Len(v) + k] = s[k]
         /\ Extends(v \o s, v)
         /\ Reads(v \o s, Len(v), s, Len(s))
<1>0. Len(v) \in Nat /\ Len(s) \in Nat
  BY PathFacts DEF Paths
<1>1. /\ v \o s \in Paths /\ Len(v \o s) = Len(v) + Len(s)
      /\ \A i \in 1..(Len(v) + Len(s)) : (v \o s)[i] = IF i <= Len(v) THEN v[i] ELSE s[i - Len(v)]
  BY ConcatProperties DEF Paths
<1>2. \A k \in 1..Len(v) : (v \o s)[k] = v[k]
  BY <1>0, <1>1
<1>3. ASSUME NEW k \in 1..Len(s) PROVE (v \o s)[Len(v) + k] = s[k]
  <2>1. Len(v) + k \in 1..(Len(v) + Len(s)) /\ ~(Len(v) + k <= Len(v)) /\ (Len(v) + k) - Len(v) = k
    BY <1>0
  <2> QED
    BY <1>1, <2>1
<1> QED
  BY <1>0, <1>1, <1>2, <1>3 DEF Extends, Reads

\* x goes through v and then reads s.
LEMMA ExtendsConcat ==
  ASSUME NEW v \in Paths, NEW s \in Paths, NEW x \in Paths
  PROVE  Extends(x, v \o s) <=> Extends(x, v) /\ Reads(x, Len(v), s, Len(s))
<1>0. Len(v) \in Nat /\ Len(s) \in Nat /\ Len(x) \in Nat
  BY PathFacts DEF Paths
<1>1. /\ Len(v \o s) = Len(v) + Len(s)
      /\ \A k \in 1..Len(v) : (v \o s)[k] = v[k]
      /\ \A k \in 1..Len(s) : (v \o s)[Len(v) + k] = s[k]
  BY ConcatFacts
<1>2. ASSUME Extends(x, v \o s) PROVE Extends(x, v) /\ Reads(x, Len(v), s, Len(s))
  <2>1. Len(v) + Len(s) <= Len(x) /\ \A k \in 1..(Len(v) + Len(s)) : x[k] = (v \o s)[k]
    BY <1>1, <1>2 DEF Extends
  <2>2. \A k \in 1..Len(v) : x[k] = v[k]
    BY <1>0, <1>1, <2>1
  <2>3. ASSUME NEW k \in 1..Len(s) PROVE x[Len(v) + k] = s[k]
    <3>1. Len(v) + k \in 1..(Len(v) + Len(s))
      BY <1>0
    <3> QED
      BY <1>1, <2>1, <3>1
  <2> QED
    BY <1>0, <2>1, <2>2, <2>3 DEF Extends, Reads
<1>3. ASSUME Extends(x, v), Reads(x, Len(v), s, Len(s)) PROVE Extends(x, v \o s)
  <2>1. ASSUME NEW k \in 1..(Len(v) + Len(s)) PROVE x[k] = (v \o s)[k]
    <3>1. CASE k <= Len(v)
      BY <1>0, <1>1, <1>3, <3>1 DEF Extends
    <3>2. CASE ~(k <= Len(v))
      <4>1. k - Len(v) \in 1..Len(s) /\ Len(v) + (k - Len(v)) = k
        BY <1>0, <3>2
      <4>2. x[Len(v) + (k - Len(v))] = s[k - Len(v)]
        BY <1>3, <4>1 DEF Reads
      <4>3. (v \o s)[Len(v) + (k - Len(v))] = s[k - Len(v)]
        BY <1>1, <4>1
      <4> QED
        BY <4>1, <4>2, <4>3
    <3> QED
      BY <3>1, <3>2
  <2> QED
    BY <1>1, <1>3, <2>1 DEF Extends, Reads
<1> QED
  BY <1>2, <1>3

\* Paths below one node are in the order of what follows the node.
LEMMA ConcatLess ==
  ASSUME NEW v \in Paths, NEW s \in Paths, NEW t \in Paths, TermLess(s, t)
  PROVE  TermLess(v \o s, v \o t)
<1>0. /\ Len(v) \in Nat /\ Len(s) \in Nat /\ Len(t) \in Nat
      /\ DOMAIN s = 1..Len(s) /\ DOMAIN t = 1..Len(t)
  BY PathFacts DEF Paths
<1>1. /\ v \o s \in Paths /\ Len(v \o s) = Len(v) + Len(s)
      /\ \A k \in 1..Len(v) : (v \o s)[k] = v[k]
      /\ \A k \in 1..Len(s) : (v \o s)[Len(v) + k] = s[k]
  BY ConcatFacts
<1>2. /\ v \o t \in Paths /\ Len(v \o t) = Len(v) + Len(t)
      /\ \A k \in 1..Len(v) : (v \o t)[k] = v[k]
      /\ \A k \in 1..Len(t) : (v \o t)[Len(v) + k] = t[k]
  BY ConcatFacts
<1>3. PICK i \in DOMAIN s \cap DOMAIN t : TokenLess(s[i], t[i]) /\ \A j \in 1..(i-1) : s[j] = t[j]
  BY DEF TermLess
<1>4. i \in 1..Len(s) /\ i \in 1..Len(t)
  BY <1>0
<1>5. Len(v) + i \in DOMAIN (v \o s) \cap DOMAIN (v \o t)
  <2>1. DOMAIN (v \o s) = 1..(Len(v) + Len(s)) /\ DOMAIN (v \o t) = 1..(Len(v) + Len(t))
    BY <1>1, <1>2, PathFacts DEF Paths
  <2> QED
    BY <1>0, <1>4, <2>1
<1>6. TokenLess((v \o s)[Len(v) + i], (v \o t)[Len(v) + i])
  BY <1>1, <1>2, <1>3, <1>4
<1>7. ASSUME NEW j \in 1..(Len(v) + i - 1) PROVE (v \o s)[j] = (v \o t)[j]
  <2>1. CASE j <= Len(v)
    BY <1>0, <1>1, <1>2, <2>1
  <2>2. CASE ~(j <= Len(v))
    <3>1. /\ j - Len(v) \in 1..(i-1) /\ j - Len(v) \in 1..Len(s) /\ j - Len(v) \in 1..Len(t)
          /\ Len(v) + (j - Len(v)) = j
      BY <1>0, <1>4, <2>2
    <3>2. (v \o s)[j] = s[j - Len(v)] /\ (v \o t)[j] = t[j - Len(v)]
      <4>1. (v \o s)[Len(v) + (j - Len(v))] = s[j - Len(v)]
        BY <1>1, <3>1
      <4>2. (v \o t)[Len(v) + (j - Len(v))] = t[j - Len(v)]
        BY <1>2, <3>1
      <4> QED
        BY <3>1, <4>1, <4>2
    <3> QED
      BY <1>3, <3>1, <3>2
  <2> QED
    BY <2>1, <2>2
<1> QED
  BY <1>5, <1>6, <1>7 DEF TermLess

\* A term below a node fills one of the slots that the node leaves open.
LEMMA OpenConcat ==
  ASSUME NEW v \in Paths, NEW s \in Paths, IsTerm(s)
  PROVE  OpenSlots(v \o s)[Len(v \o s)] = OpenSlots(v)[Len(v)] - 1
<1>0. Len(v) \in Nat /\ Len(s) \in Nat
  BY PathFacts DEF Paths
<1>1. PICK y \in Paths : /\ y = v \o s /\ Len(y) = Len(v) + Len(s)
                        /\ Extends(y, v) /\ Reads(y, Len(v), s, Len(s))
  BY ConcatFacts
<1>2. OpenSlots(y)[Len(v) + Len(s)] = OpenSlots(y)[Len(v)] + OpenSlots(s)[Len(s)] - 1
  <2>1. \A k \in 0..Len(s) : OpenSlots(y)[Len(v) + k] = OpenSlots(y)[Len(v)] + OpenSlots(s)[k] - 1
    BY <1>0, <1>1, OpenShift DEF Paths
  <2> QED
    BY <1>0, <2>1
<1>3. OpenSlots(y)[Len(v)] = OpenSlots(v)[Len(v)]
  <2>1. \A k \in 0..Len(v) : OpenSlots(y)[k] = OpenSlots(v)[k]
    BY <1>1, OpenPrefix DEF Paths
  <2> QED
    BY <1>0, <2>1
<1>4. OpenSlots(s)[Len(s)] = 0 /\ OpenSlots(v)[Len(v)] \in Int
  BY <1>0, PathFacts DEF IsTerm, Paths
<1> QED
  BY <1>1, <1>2, <1>3, <1>4

\* Two terms at one place of a path are the same.
LEMMA TermsAtNode ==
  ASSUME NEW v \in Paths, NEW s \in Paths, NEW t \in Paths, NEW x \in Paths,
         IsTerm(s), IsTerm(t), Extends(x, v \o s), Extends(x, v \o t)
  PROVE  s = t
<1>0. Len(v) \in Nat /\ Len(s) \in Nat /\ Len(t) \in Nat
  BY PathFacts DEF Paths
<1>1. Reads(x, Len(v), s, Len(s)) /\ Reads(x, Len(v), t, Len(t))
  BY ExtendsConcat
<1>2. CASE Len(s) <= Len(t)
  <2>1. Extends(t, s)
    BY <1>0, <1>1, <1>2 DEF Extends, Reads
  <2> QED
    BY <2>1, TermsArePrefixFree DEF Paths
<1>3. CASE Len(t) <= Len(s)
  <2>1. Extends(s, t)
    BY <1>0, <1>1, <1>3 DEF Extends, Reads
  <2> QED
    BY <2>1, TermsArePrefixFree DEF Paths
<1> QED
  BY <1>0, <1>2, <1>3

\* The first of a finite set of terms.
LEMMA FirstTermIsFirst ==
  ASSUME NEW S \in SUBSET Paths, IsFiniteSet(S), S # {}, \A s \in S : IsTerm(s)
  PROVE  /\ FirstTerm(S) \in S
         /\ \A t \in S : t = FirstTerm(S) \/ TermLess(FirstTerm(S), t)
<1> DEFINE Below(s) == { t \in S : TermLess(t, s) }
           T == { Below(s) : s \in S }
<1>1. T \subseteq FiniteSubsetsOf(S)
  BY FS_Subset DEF FiniteSubsetsOf
<1>2. T # {}
  OBVIOUS
<1>3. PICK b \in T : \A c \in T : ~(<<c, b>> \in StrictSubsetOrdering(S))
  <2>1. IsWellFoundedOn(StrictSubsetOrdering(S), FiniteSubsetsOf(S))
    BY FS_StrictSubsetOrderingWellFounded
  <2> HIDE DEF T
  <2> QED
    BY <1>1, <1>2, <2>1, WFMin
<1>4. PICK s \in S : b = Below(s)
  OBVIOUS
<1>5. ASSUME NEW t \in S, TermLess(t, s) PROVE FALSE
  <2>1. Below(t) \subseteq Below(s)
    BY <1>5, TermLessTransitive
  <2>2. t \in Below(s) /\ t \notin Below(t)
    <3>1. Extends(t, t)
      BY PathFacts DEF Extends, Paths
    <3> QED
      BY <1>5, <3>1, TermLessIrreflexive
  <2>3. <<Below(t), Below(s)>> \in StrictSubsetOrdering(S)
    BY <2>1, <2>2 DEF StrictSubsetOrdering
  <2> QED
    BY <1>3, <1>4, <2>3
<1>6. ASSUME NEW t \in S PROVE t = s \/ TermLess(s, t)
  <2>1. TermLess(s, t) \/ TermLess(t, s) \/ Extends(s, t) \/ Extends(t, s)
    BY TermLessTotal
  <2>2. Extends(s, t) => s = t
    BY TermsArePrefixFree DEF Paths
  <2>3. Extends(t, s) => s = t
    BY TermsArePrefixFree DEF Paths
  <2> QED
    BY <1>5, <2>1, <2>2, <2>3
<1> QED
  BY <1>6 DEF FirstTerm

\* The first token of a node's children.
LEMMA FirstTokenIsFirst ==
  ASSUME NEW S \in SUBSET encoded_token_t, IsFiniteSet(S), S # {}
  PROVE  /\ FirstToken(S) \in S
         /\ \A t \in S : t = FirstToken(S) \/ TokenLess(FirstToken(S), t)
<1> DEFINE Below(s) == { t \in S : TokenLess(t, s) }
           T == { Below(s) : s \in S }
<1>1. T \subseteq FiniteSubsetsOf(S)
  BY FS_Subset DEF FiniteSubsetsOf
<1>2. T # {}
  OBVIOUS
<1>3. PICK b \in T : \A c \in T : ~(<<c, b>> \in StrictSubsetOrdering(S))
  <2>1. IsWellFoundedOn(StrictSubsetOrdering(S), FiniteSubsetsOf(S))
    BY FS_StrictSubsetOrderingWellFounded
  <2> HIDE DEF T
  <2> QED
    BY <1>1, <1>2, <2>1, WFMin
<1>4. PICK s \in S : b = Below(s)
  OBVIOUS
<1>5. ASSUME NEW t \in S, TokenLess(t, s) PROVE FALSE
  <2>1. Below(t) \subseteq Below(s)
    BY <1>5, TokenLessTransitive
  <2>2. t \in Below(s) /\ t \notin Below(t)
    BY <1>5, TokenLessIrreflexive
  <2>3. <<Below(t), Below(s)>> \in StrictSubsetOrdering(S)
    BY <2>1, <2>2 DEF StrictSubsetOrdering
  <2> QED
    BY <1>3, <1>4, <2>3
<1>6. ASSUME NEW t \in S PROVE t = s \/ TokenLess(s, t)
  BY <1>5, TokenLessTotal
<1> QED
  BY <1>6 DEF FirstToken

\* The children of a node have tokens, finitely many of them.
LEMMA ChildTokensOf ==
  ASSUME NEW ix \in SUBSET Paths, IsFiniteSet(ix), NEW v \in Paths
  PROVE  ChildTokens(ix, v) \in SUBSET encoded_token_t /\ IsFiniteSet(ChildTokens(ix, v))
<1> DEFINE below == { g \in ix : IsStrictPrefix(v, g) }
<1>1. IsFiniteSet(below)
  BY FS_Subset
<1>2. IsFiniteSet({ f[Len(v) + 1] : f \in below })
  <2> HIDE DEF below
  <2> DEFINE F == [f \in below |-> f[Len(v) + 1]]
  <2>1. F \in Surjection(below, { f[Len(v) + 1] : f \in below })
    BY DEF Surjection
  <2> QED
    BY <1>1, <2>1, FS_Surjection
<1>3. ASSUME NEW f \in ix, IsStrictPrefix(v, f) PROVE f[Len(v) + 1] \in encoded_token_t
  <2>1. f \in Paths /\ Extends(f, v) /\ v # f /\ Len(v) \in Nat /\ Len(f) \in Nat
    BY <1>3, PrefixIsExtends, PathFacts DEF IsStrictPrefix, Paths
  <2>2. Len(v) # Len(f)
    BY <2>1, SeqEqual DEF Extends, Paths
  <2>3. Len(v) + 1 \in 1..Len(f)
    BY <2>1, <2>2 DEF Extends
  <2> QED
    BY <2>1, <2>3, PathFacts DEF Paths
<1> QED
  BY <1>2, <1>3 DEF ChildTokens

-----------------------------------------------------------------------------
\* A node below which, or at which, the index has a formula.
IsNode(ix, v) == v \in Paths /\ \E f \in ix : Extends(f, v)

\* A token is a child of a node when some formula goes on with it.
LEMMA ChildIsNode ==
  ASSUME NEW ix \in SUBSET Paths, NEW v \in Paths, NEW tok \in encoded_token_t
  PROVE  HasChild(ix, v, tok) <=> IsNode(ix, v \o <<tok>>)
<1>0. Len(v) \in Nat /\ <<tok>> \in Paths /\ Len(<<tok>>) = 1 /\ <<tok>>[1] = tok
  BY PathFacts DEF Paths
<1>1. ASSUME HasChild(ix, v, tok) PROVE IsNode(ix, v \o <<tok>>)
  <2>1. PICK f \in ix : IsStrictPrefix(v, f) /\ tok = f[Len(v) + 1]
    BY <1>1 DEF HasChild, ChildTokens
  <2>2. Extends(f, v) /\ v # f
    BY <2>1, PrefixIsExtends DEF IsStrictPrefix
  <2>3. Len(f) \in Nat /\ Len(v) < Len(f)
    <3>1. Len(f) \in Nat /\ Len(v) <= Len(f)
      BY <2>2, PathFacts DEF Extends, Paths
    <3>2. Len(v) = Len(f) => v = f
      BY <2>2, SeqEqual DEF Extends, Paths
    <3> QED
      BY <1>0, <2>2, <3>1, <3>2
  <2>4. Reads(f, Len(v), <<tok>>, 1)
    BY <1>0, <2>1, <2>3 DEF Reads
  <2>5. Extends(f, v \o <<tok>>)
    BY <1>0, <2>2, <2>4, ExtendsConcat
  <2> QED
    BY <1>0, <2>5, ConcatFacts DEF IsNode
<1>2. ASSUME IsNode(ix, v \o <<tok>>) PROVE HasChild(ix, v, tok)
  <2>1. PICK f \in ix : Extends(f, v \o <<tok>>)
    BY <1>2 DEF IsNode
  <2>2. Extends(f, v) /\ Reads(f, Len(v), <<tok>>, 1)
    BY <1>0, <2>1, ExtendsConcat
  <2>3. f[Len(v) + 1] = tok /\ Len(v) < Len(f)
    BY <1>0, <2>2, PathFacts DEF Reads, Paths
  <2>4. IsStrictPrefix(v, f)
    BY <1>0, <2>2, <2>3, PrefixIsExtends DEF IsStrictPrefix
  <2> QED
    BY <2>3, <2>4 DEF HasChild, ChildTokens
<1> QED
  BY <1>1, <1>2

\* The terms below v are those that lead to a node.
LEMMA TermsFromFacts ==
  ASSUME NEW ix \in SUBSET Paths, NEW v \in Paths
  PROVE  TermsFrom(ix, v) = { s \in Paths : IsTerm(s) /\ IsNode(ix, v \o s) }
<1>0. Len(v) \in Nat
  BY PathFacts DEF Paths
<1>1. ASSUME NEW s \in TermsFrom(ix, v) PROVE s \in Paths /\ IsTerm(s) /\ IsNode(ix, v \o s)
  <2>1. PICK f \in ix : IsStrictPrefix(v, f) /\ \E k \in (Len(v)+1)..Len(f) : s = SubSeq(f, Len(v) + 1, k)
    BY DEF TermsFrom
  <2>2. PICK k \in (Len(v)+1)..Len(f) : s = SubSeq(f, Len(v) + 1, k)
    BY <2>1
  <2>3. Extends(f, v) /\ f \in Paths /\ Len(f) \in Nat /\ k \in Nat /\ Len(v) <= k /\ k <= Len(f)
    BY <1>0, <2>1, PrefixIsExtends, PathFacts DEF IsStrictPrefix, Paths
  <2>4. s \in Paths /\ Len(s) = k - Len(v) /\ \A j \in 1..(k - Len(v)) : s[j] = f[Len(v) + j]
    BY <1>0, <2>2, <2>3, SubSeqFacts DEF Paths
  <2>5. Reads(f, Len(v), s, Len(s))
    BY <1>0, <2>3, <2>4 DEF Reads
  <2>6. Extends(f, v \o s)
    BY <2>3, <2>4, <2>5, ExtendsConcat
  <2> QED
    BY <2>4, <2>6, ConcatFacts DEF IsNode, TermsFrom
<1>2. ASSUME NEW s \in Paths, IsTerm(s), IsNode(ix, v \o s) PROVE s \in TermsFrom(ix, v)
  <2>1. PICK f \in ix : Extends(f, v \o s)
    BY <1>2 DEF IsNode
  <2>2. Extends(f, v) /\ Reads(f, Len(v), s, Len(s)) /\ Len(f) \in Nat /\ Len(s) \in Nat
    BY <2>1, ExtendsConcat, PathFacts DEF Paths
  <2>3. Len(s) # 0
    BY <1>2, OpenSlotsDef DEF IsTerm, Paths
  <2>4. PICK k \in Nat : k = Len(v) + Len(s)
    BY <1>0, <2>2
  <2>5. k \in (Len(v)+1)..Len(f) /\ k - Len(v) = Len(s)
    BY <1>0, <2>2, <2>3, <2>4 DEF Reads
  <2>6. PICK t : t = SubSeq(f, Len(v) + 1, k)
    OBVIOUS
  <2>7. t \in Paths /\ Len(t) = Len(s) /\ \A j \in 1..Len(s) : t[j] = f[Len(v) + j]
    <3>1. Len(v) <= k /\ k <= Len(f)
      BY <1>0, <2>2, <2>5
    <3> QED
      BY <1>0, <2>4, <2>5, <2>6, <3>1, SubSeqFacts DEF Paths
  <2>8. t = s
    BY <2>2, <2>7, SeqEqual DEF Reads, Paths
  <2>9. IsStrictPrefix(v, f)
    <3>1. Len(v) # Len(f)
      BY <1>0, <2>2, <2>5
    <3> QED
      BY <2>2, <3>1, PrefixIsExtends DEF IsStrictPrefix
  <2> QED
    BY <1>2, <2>5, <2>6, <2>8, <2>9 DEF TermsFrom
<1> QED
  BY <1>1, <1>2

\* A finite index has finitely many terms below a node.
LEMMA TermsFromFinite ==
  ASSUME NEW ix \in SUBSET Paths, IsFiniteSet(ix), NEW v \in Paths
  PROVE  IsFiniteSet(TermsFrom(ix, v))
<1> DEFINE S == TermsFrom(ix, v)
           F == [s \in S |-> CHOOSE f \in ix : Extends(f, v \o s)]
<1>1. ASSUME NEW s \in S PROVE F[s] \in ix /\ Extends(F[s], v \o s) /\ s \in Paths /\ IsTerm(s)
  BY TermsFromFacts DEF IsNode
<1>2. F \in [S -> ix] /\ \A s, t \in S : F[s] = F[t] => s = t
  <2>1. F \in [S -> ix]
    BY <1>1
  <2>2. ASSUME NEW s \in S, NEW t \in S, F[s] = F[t] PROVE s = t
    <3>1. /\ F[s] \in Paths /\ Extends(F[s], v \o s) /\ s \in Paths /\ IsTerm(s)
          /\ Extends(F[s], v \o t) /\ t \in Paths /\ IsTerm(t)
      BY <1>1, <2>2
    <3> HIDE DEF F, S
    <3> QED
      BY <3>1, TermsAtNode
  <2> QED
    BY <2>1, <2>2
<1>3. F \in Injection(S, ix)
  <2> HIDE DEF F, S
  <2> QED
    BY <1>2, Fun_IsInj
<1> QED
  BY <1>3, FS_Injection

-----------------------------------------------------------------------------
(***************************************************************************)
(* Sums over finite sets: MapThenSumSet takes the elements one by one, in  *)
(* an order of its own.                                                    *)
(***************************************************************************)
Weight(b, w, x) == IF b THEN w[x] ELSE 1

\* The element that a sum over a set takes first.
Picked(s) == CHOOSE x \in s : TRUE

\* f gives the sum of the weights of every part of S.
Adds(f, b, w, S) ==
  f = [s \in SUBSET S |-> IF s = {} THEN 0 ELSE Weight(b, w, Picked(s)) + f[s \ {Picked(s)}]]

\* The sums as MapThenSumSet computes them.
SumOf(b, w, S) == CHOOSE f : Adds(f, b, w, S)

\* The sum of the specification is the one that SumOf gives.
LEMMA SumIs ==
  ASSUME NEW b, NEW w, NEW S
  PROVE  MapThenSumSet(LAMBDA x : IF b THEN w[x] ELSE 1, S) = SumOf(b, w, S)[S]
  BY DEF MapThenSumSet, MapThenFoldSet, SumOf, Adds, Weight, Picked

\* A set without the element picked from it is smaller.
LEMMA PickedFacts ==
  ASSUME NEW S, IsFiniteSet(S), NEW s \in SUBSET S, s # {}
  PROVE  /\ Picked(s) \in s /\ Picked(s) \in S /\ s \ {Picked(s)} \in SUBSET S
         /\ Cardinality(s) \in Nat /\ Cardinality(s) > 0
<1>1. Picked(s) \in s
  BY DEF Picked
<1>2. IsFiniteSet(s)
  BY FS_Subset
<1>3. Cardinality(s) \in Nat /\ Cardinality(s) # 0
  BY <1>2, FS_CardinalityType, FS_EmptySet
<1> QED
  BY <1>1, <1>3

\* A set without one of its elements has one element less.
LEMMA Smaller ==
  ASSUME NEW S, IsFiniteSet(S), NEW s \in SUBSET S, NEW x \in s
  PROVE  Cardinality(s \ {x}) \in Nat /\ Cardinality(s \ {x}) = Cardinality(s) - 1 /\ Cardinality(s) \in Nat
<1>1. IsFiniteSet(s) /\ IsFiniteSet(s \ {x})
  BY FS_Subset
<1> QED
  BY <1>1, FS_CardinalityType, FS_RemoveElement

\* The parts of S with at most n elements.
Small(S, n) == { s \in SUBSET S : Cardinality(s) <= n }

\* The sums of the sets of at most n elements.
AddsSmall(g, b, w, S, n) ==
  /\ g \in [Small(S, n) -> Nat]
  /\ \A s \in Small(S, n) :
       g[s] = IF s = {} THEN 0 ELSE Weight(b, w, Picked(s)) + g[s \ {Picked(s)}]

\* They exist, by induction on n.
LEMMA SmallSums ==
  ASSUME NEW b, NEW w, NEW S, IsFiniteSet(S), \A x \in S : Weight(b, w, x) \in Nat,
         NEW m \in Nat
  PROVE  \E g : AddsSmall(g, b, w, S, m)
<1> DEFINE P == { n \in Nat : \E g : AddsSmall(g, b, w, S, n) }
<1>1. 0 \in P
  <2>1. \A s \in Small(S, 0) : s = {}
    <3>1. ASSUME NEW s \in Small(S, 0), s # {} PROVE FALSE
      BY <3>1, PickedFacts DEF Small
    <3> QED
      BY <3>1
  <2>2. AddsSmall([s \in Small(S, 0) |-> 0], b, w, S, 0)
    BY <2>1 DEF AddsSmall
  <2> QED
    BY <2>2
<1>2. ASSUME NEW n \in Nat, n \in P PROVE n + 1 \in P
  <2>1. PICK g : AddsSmall(g, b, w, S, n)
    BY <1>2
  <2> DEFINE V(s) == IF s = {} THEN 0 ELSE Weight(b, w, Picked(s)) + g[s \ {Picked(s)}]
             h == [s \in Small(S, n + 1) |-> V(s)]
  <2>2. ASSUME NEW s \in Small(S, n + 1), s # {}
        PROVE  s \ {Picked(s)} \in Small(S, n) /\ s \ {Picked(s)} \in Small(S, n + 1) /\ Picked(s) \in S
    <3>1. s \in SUBSET S /\ Cardinality(s) <= n + 1
      BY DEF Small
    <3>2. Picked(s) \in s /\ Picked(s) \in S /\ s \ {Picked(s)} \in SUBSET S
      BY <2>2, <3>1, PickedFacts
    <3>3. /\ Cardinality(s \ {Picked(s)}) = Cardinality(s) - 1 /\ Cardinality(s) \in Nat
      BY <3>1, <3>2, Smaller
    <3>4. Cardinality(s \ {Picked(s)}) <= n /\ Cardinality(s \ {Picked(s)}) <= n + 1
      BY <3>1, <3>3
    <3> QED
      BY <3>2, <3>4 DEF Small
  <2>3. ASSUME NEW s \in Small(S, n + 1) PROVE V(s) \in Nat
    <3>1. CASE s = {}
      BY <3>1
    <3>2. CASE s # {}
      <4>1. g[s \ {Picked(s)}] \in Nat /\ Weight(b, w, Picked(s)) \in Nat
        BY <2>1, <2>2, <3>2 DEF AddsSmall
      <4> QED
        BY <3>2, <4>1
    <3> QED
      BY <3>1, <3>2
  <2>4. ASSUME NEW s \in Small(S, n), s \in Small(S, n + 1) PROVE h[s] = g[s]
    BY <2>1, <2>4 DEF AddsSmall
  <2>5. ASSUME NEW s \in Small(S, n + 1)
        PROVE  h[s] = IF s = {} THEN 0 ELSE Weight(b, w, Picked(s)) + h[s \ {Picked(s)}]
    BY <2>2, <2>4
  <2>6. h \in [Small(S, n + 1) -> Nat]
    BY <2>3
  <2> HIDE DEF h
  <2>7. AddsSmall(h, b, w, S, n + 1)
    BY <2>5, <2>6 DEF AddsSmall
  <2> QED
    BY <2>7
<1>3. Nat \subseteq P
  <2> HIDE DEF P
  <2> QED
    BY <1>1, <1>2, SetInduction
<1> QED
  BY <1>3

\* The equation of a sum.
SumStep(f, b, w, s) ==
  f[s] = IF s = {} THEN 0 ELSE Weight(b, w, Picked(s)) + f[s \ {Picked(s)}]

\* SumOf satisfies it on every part of a finite set.
LEMMA SumOfDef ==
  ASSUME NEW b, NEW w, NEW S, IsFiniteSet(S), \A x \in S : Weight(b, w, x) \in Nat
  PROVE  \A s \in SUBSET S : SumStep(SumOf(b, w, S), b, w, s)
<1>1. Cardinality(S) \in Nat
  BY FS_CardinalityType
<1>2. PICK g : AddsSmall(g, b, w, S, Cardinality(S))
  BY <1>1, SmallSums
<1>3. Small(S, Cardinality(S)) = SUBSET S
  <2>1. ASSUME NEW s \in SUBSET S PROVE Cardinality(s) <= Cardinality(S)
    BY FS_Subset
  <2> QED
    BY <2>1 DEF Small
<1>4. Adds(g, b, w, S)
  <2>1. g = [s \in SUBSET S |-> g[s]]
    BY <1>2, <1>3 DEF AddsSmall
  <2>2. \A s \in SUBSET S : g[s] = IF s = {} THEN 0 ELSE Weight(b, w, Picked(s)) + g[s \ {Picked(s)}]
    BY <1>2, <1>3 DEF AddsSmall
  <2>3. [s \in SUBSET S |-> g[s]]
          = [s \in SUBSET S |-> IF s = {} THEN 0 ELSE Weight(b, w, Picked(s)) + g[s \ {Picked(s)}]]
    BY <2>2
  <2> QED
    BY <2>1, <2>3, Zenon DEF Adds
<1>5. Adds(SumOf(b, w, S), b, w, S)
  BY <1>4 DEF SumOf
<1>6. PICK f : f = SumOf(b, w, S)
  OBVIOUS
<1>7. Adds(f, b, w, S)
  BY <1>5, <1>6
<1>8. ASSUME NEW s \in SUBSET S
      PROVE  SumStep(f, b, w, s)
  <2> DEFINE V(r) == IF r = {} THEN 0 ELSE Weight(b, w, Picked(r)) + f[r \ {Picked(r)}]
  <2>1. f = [r \in SUBSET S |-> V(r)]
    BY <1>7, Zenon DEF Adds
  <2> HIDE DEF V
  <2>2. [r \in SUBSET S |-> V(r)][s] = V(s)
    OBVIOUS
  <2>3. f[s] = V(s)
    BY <2>1, <2>2, Zenon
  <2> QED
    BY <2>3 DEF V, SumStep
<1> QED
  BY <1>6, <1>8, Zenon

\* Any element may be taken first, and no part has a larger sum.
SumRule(f, b, w, s) ==
  /\ f[s] \in Nat
  /\ \A x \in s : f[s \ {x}] \in Nat /\ f[s] = Weight(b, w, x) + f[s \ {x}]
  /\ \A r \in SUBSET s : f[r] \in Nat /\ f[r] <= f[s]

\* The rule holds, by induction on the number of elements.
LEMMA SumRules ==
  ASSUME NEW b, NEW w, NEW S, IsFiniteSet(S), \A x \in S : Weight(b, w, x) \in Nat
  PROVE  SumOf(b, w, S)[{}] = 0 /\ \A s \in SUBSET S : SumRule(SumOf(b, w, S), b, w, s)
<1>1. PICK f : f = SumOf(b, w, S)
  OBVIOUS
<1>2. \A s \in SUBSET S : SumStep(f, b, w, s)
  BY <1>1, SumOfDef
<1> DEFINE P == { n \in Nat : \A s \in SUBSET S : Cardinality(s) = n => SumRule(f, b, w, s) }
<1>3. f[{}] = 0
  BY <1>2 DEF SumStep
<1>4. 0 \in P
  <2>1. ASSUME NEW s \in SUBSET S, Cardinality(s) = 0 PROVE SumRule(f, b, w, s)
    <3>1. s = {}
      BY <2>1, PickedFacts
    <3> QED
      BY <1>3, <3>1 DEF SumRule
  <2> QED
    BY <2>1
<1>5. ASSUME NEW n \in Nat, n \in P PROVE n + 1 \in P
  <2> SUFFICES ASSUME NEW s \in SUBSET S, Cardinality(s) = n + 1 PROVE SumRule(f, b, w, s)
    OBVIOUS
  <2>1. ASSUME NEW x \in s PROVE SumRule(f, b, w, s \ {x}) /\ x \in S /\ Weight(b, w, x) \in Nat
    <3>1. Cardinality(s \ {x}) = n /\ s \ {x} \in SUBSET S
      BY Smaller
    <3> QED
      BY <1>5, <3>1
  <2>2. s # {}
    BY FS_EmptySet
  <2>3. PICK p \in s : p = Picked(s)
    BY <2>2, PickedFacts
  <2>4. f[s] = Weight(b, w, p) + f[s \ {p}]
    BY <1>2, <2>2, <2>3 DEF SumStep
  <2>5. ASSUME NEW x \in s PROVE f[s \ {x}] \in Nat /\ f[s] = Weight(b, w, x) + f[s \ {x}]
    <3>1. f[s \ {x}] \in Nat /\ f[s \ {p}] \in Nat
      BY <2>1 DEF SumRule
    <3>2. CASE x = p
      BY <2>4, <3>1, <3>2
    <3>3. CASE x # p
      <4>1. x \in s \ {p} /\ p \in s \ {x} /\ (s \ {p}) \ {x} = (s \ {x}) \ {p}
        BY <3>3
      <4>2. f[s \ {p}] = Weight(b, w, x) + f[(s \ {p}) \ {x}] /\ f[(s \ {p}) \ {x}] \in Nat
        BY <2>1, <4>1 DEF SumRule
      <4>3. f[s \ {x}] = Weight(b, w, p) + f[(s \ {x}) \ {p}]
        BY <2>1, <4>1 DEF SumRule
      <4>4. Weight(b, w, x) \in Nat /\ Weight(b, w, p) \in Nat
        BY <2>1
      <4>5. PICK k \in Nat, wx \in Nat, wp \in Nat :
              k = f[(s \ {p}) \ {x}] /\ wx = Weight(b, w, x) /\ wp = Weight(b, w, p)
        BY <4>2, <4>4
      <4>6. f[s \ {p}] = wx + k /\ f[s \ {x}] = wp + k
        BY <4>1, <4>2, <4>3, <4>5
      <4>7. f[s] = wp + (wx + k)
        BY <2>4, <4>5, <4>6
      <4>8. f[s] = wx + (wp + k)
        BY <4>5, <4>7
      <4> QED
        BY <3>1, <4>5, <4>6, <4>8
    <3> QED
      BY <3>1, <3>2, <3>3
  <2>6. f[s] \in Nat
    <3>1. Weight(b, w, p) \in Nat /\ f[s \ {p}] \in Nat
      BY <2>1 DEF SumRule
    <3> QED
      BY <2>4, <3>1
  <2>7. ASSUME NEW r \in SUBSET s PROVE f[r] \in Nat /\ f[r] <= f[s]
    <3>1. CASE r = s
      BY <2>6, <3>1
    <3>2. CASE r # s
      <4>1. PICK x \in s : x \notin r
        BY <3>2
      <4>2. r \in SUBSET (s \ {x})
        BY <4>1
      <4>3. f[r] \in Nat /\ f[r] <= f[s \ {x}]
        BY <2>1, <4>2 DEF SumRule
      <4>4. f[s] = Weight(b, w, x) + f[s \ {x}] /\ Weight(b, w, x) \in Nat /\ f[s \ {x}] \in Nat
        BY <2>1, <2>5
      <4> QED
        BY <4>3, <4>4
    <3> QED
      BY <3>1, <3>2
  <2> QED
    BY <2>5, <2>6, <2>7 DEF SumRule
<1>6. Nat \subseteq P
  <2> HIDE DEF P
  <2> QED
    BY <1>4, <1>5, SetInduction
<1>7. ASSUME NEW s \in SUBSET S PROVE SumRule(f, b, w, s)
  <2>1. IsFiniteSet(s)
    BY FS_Subset
  <2>2. Cardinality(s) \in Nat
    BY <2>1, FS_CardinalityType
  <2> QED
    BY <1>6, <2>2
<1> QED
  BY <1>1, <1>3, <1>7
=============================================================================

--------------------------- MODULE CrawlerProofs ---------------------------
(***************************************************************************)
(* Proofs about crawlerd (Crawler): its three threads, for any             *)
(* connections, requests, sites, faults and signals.                       *)
(***************************************************************************)
EXTENDS Crawler, FiniteSetTheorems, SequenceTheorems, WellFoundedInduction, TLAPS

USE DEF Running, Gone, Goto, Crash, OnlyDaemon, OnlyWorker, OnlyCrawl, daemonVars, workerVars, history,
        signalVars

IsSeq(s) == \E S : s \in Seq(S)

\* A sequence with one more element.
LEMMA Longer ==
  ASSUME NEW s, IsSeq(s), NEW x
  PROVE  /\ IsSeq(Append(s, x)) /\ Append(s, x) # <<>>
         /\ s # <<>> => Head(Append(s, x)) = Head(s)
         /\ Len(s) \in Nat /\ Len(Append(s, x)) = Len(s) + 1
         /\ Append(s, x)[Len(s) + 1] = x
         /\ \A i \in 1..Len(s) : Append(s, x)[i] = s[i]
<1>1. PICK S : s \in Seq(S)
  BY DEF IsSeq
<1>2. s \in Seq(S \cup {x}) /\ x \in S \cup {x}
  BY <1>1
<1>3. Append(s, x) \in Seq(S \cup {x})
  BY <1>2
<1>4. IsSeq(Append(s, x))
  BY <1>3 DEF IsSeq
<1> QED
  BY <1>2, <1>3, <1>4

\* The tail of a sequence is one.
LEMMA Shorter ==
  ASSUME NEW s, IsSeq(s), s # <<>>
  PROVE  IsSeq(Tail(s))
  BY DEF IsSeq

-----------------------------------------------------------------------------
(***************************************************************************)
(* Sequences: what is in them and how often.                               *)
(***************************************************************************)
\* The length and the places of a sequence.
LEMMA SeqFacts ==
  ASSUME NEW s, IsSeq(s)
  PROVE  Len(s) \in Nat /\ DOMAIN s = 1..Len(s)
  BY DEF IsSeq

\* A function on 1..n is a sequence of length n.
LEMMA IsSeqFun ==
  ASSUME NEW s, NEW n \in Nat, DOMAIN s = 1..n, s = [i \in 1..n |-> s[i]]
  PROVE  IsSeq(s) /\ Len(s) = n
<1> DEFINE S == { s[i] : i \in 1..n }
<1>1. s \in [1..n -> S]
  OBVIOUS
<1>2. s \in Seq(S)
  BY <1>1
<1> HIDE DEF S
<1>3. Len(s) \in Nat /\ DOMAIN s = 1..Len(s)
  BY <1>2
<1>4. Len(s) = n
  BY <1>3
<1> QED
  BY <1>2, <1>4 DEF IsSeq

\* Two sequences, one after the other.
LEMMA Joined ==
  ASSUME NEW a, IsSeq(a), NEW b, IsSeq(b)
  PROVE  /\ IsSeq(a \o b) /\ Len(a \o b) = Len(a) + Len(b)
         /\ \A i \in 1..Len(a) : (a \o b)[i] = a[i]
         /\ \A i \in 1..Len(b) : (a \o b)[Len(a) + i] = b[i]
<1>1. PICK A : a \in Seq(A)
  BY DEF IsSeq
<1>2. PICK B : b \in Seq(B)
  BY DEF IsSeq
<1>3. a \in Seq(A \cup B) /\ b \in Seq(A \cup B)
  BY <1>1, <1>2
<1>4. a \o b \in Seq(A \cup B)
  BY <1>3
<1>5. Len(a \o b) = Len(a) + Len(b)
  BY <1>3
<1>6. \A i \in 1..Len(a) : (a \o b)[i] = a[i]
  BY <1>3
<1>7. \A i \in 1..Len(b) : (a \o b)[Len(a) + i] = b[i]
  BY <1>3
<1> QED
  BY <1>4, <1>5, <1>6, <1>7 DEF IsSeq

\* The places of e in s.
Places(e, s) == { i \in DOMAIN s : s[i] = e }

\* How often e is in s is a number.
LEMMA TimesIs ==
  ASSUME NEW e, NEW s, IsSeq(s)
  PROVE  IsFiniteSet(Places(e, s)) /\ Times(e, s) = Cardinality(Places(e, s)) /\ Times(e, s) \in Nat
<1>1. Places(e, s) \subseteq 1..Len(s) /\ 1 \in Int /\ Len(s) \in Int
  BY SeqFacts DEF Places
<1>f. IsFiniteSet(1..Len(s))
  BY <1>1, FS_Interval
<1>2. IsFiniteSet(Places(e, s))
  BY <1>1, <1>f, FS_Subset
<1> QED
  BY <1>2, FS_CardinalityType DEF Times, Places

\* It adds up when sequences are joined.
LEMMA TimesJoined ==
  ASSUME NEW e, NEW a, IsSeq(a), NEW b, IsSeq(b)
  PROVE  Times(e, a \o b) = Times(e, a) + Times(e, b)
<1> DEFINE m == Len(a)
           A == Places(e, a)
           B == Places(e, b)
           C == { m + i : i \in B }
           f == [i \in B |-> m + i]
<1>1. /\ m \in Nat /\ Len(b) \in Nat /\ IsSeq(a \o b) /\ Len(a \o b) = m + Len(b)
      /\ \A i \in 1..m : (a \o b)[i] = a[i]
      /\ \A i \in 1..Len(b) : (a \o b)[m + i] = b[i]
      /\ DOMAIN (a \o b) = 1..(m + Len(b)) /\ DOMAIN a = 1..m /\ DOMAIN b = 1..Len(b)
  <2>1. /\ Len(a) \in Nat /\ Len(b) \in Nat /\ DOMAIN a = 1..Len(a) /\ DOMAIN b = 1..Len(b)
        /\ IsSeq(a \o b) /\ Len(a \o b) = Len(a) + Len(b)
    BY SeqFacts, Joined
  <2>2. DOMAIN (a \o b) = 1..(Len(a) + Len(b))
    BY <2>1, SeqFacts
  <2>3. /\ \A i \in 1..Len(a) : (a \o b)[i] = a[i]
        /\ \A i \in 1..Len(b) : (a \o b)[Len(a) + i] = b[i]
    BY Joined
  <2> QED
    BY <2>1, <2>2, <2>3
<1>2. Places(e, a \o b) = A \cup C
  <2>1. ASSUME NEW k \in 1..(m + Len(b)) PROVE k \in 1..m \/ \E i \in 1..Len(b) : k = m + i
    <3>1. k - m \in 1..Len(b) \/ k \in 1..m
      BY <1>1
    <3> QED
      BY <1>1, <3>1
  <2>2. ASSUME NEW k \in Places(e, a \o b) PROVE k \in A \cup C
    BY <1>1, <2>1, <2>2 DEF Places
  <2>3. ASSUME NEW k \in A PROVE k \in Places(e, a \o b)
    BY <1>1, <2>3 DEF Places
  <2>4. ASSUME NEW i \in B PROVE m + i \in Places(e, a \o b)
    BY <1>1, <2>4 DEF Places
  <2> QED
    BY <2>2, <2>3, <2>4
<1>3. A \cap C = {}
  BY <1>1 DEF Places
<1>4. Cardinality(C) = Cardinality(B) /\ IsFiniteSet(C) /\ IsFiniteSet(A) /\ IsFiniteSet(B)
  <2>1. f \in Bijection(B, C)
    <3>1. f \in [B -> C]
      OBVIOUS
    <3>2. \A i, j \in B : f[i] = f[j] => i = j
      BY <1>1 DEF Places
    <3>3. \A k \in C : \E i \in B : f[i] = k
      OBVIOUS
    <3> HIDE DEF f, B, C
    <3> QED
      BY <3>1, <3>2, <3>3 DEF Bijection, Injection, Surjection, IsInjective
  <2>2. IsFiniteSet(A) /\ IsFiniteSet(B)
    BY TimesIs
  <2> HIDE DEF f, B, C
  <2>3. ExistsBijection(B, C)
    BY <2>1 DEF ExistsBijection
  <2> QED
    BY <2>2, <2>3, FS_Bijection
<1>5. Cardinality(A \cup C) = Cardinality(A) + Cardinality(C)
  <2>c. A \cap C = {}
    BY <1>3
  <2> HIDE DEF A, C
  <2>1. Cardinality(A) \in Nat /\ Cardinality(C) \in Nat /\ Cardinality({}) = 0
    BY <1>4, FS_CardinalityType, FS_EmptySet
  <2>2. Cardinality(A \cup C) = Cardinality(A) + Cardinality(C) - Cardinality(A \cap C)
    BY <1>4, FS_Union
  <2>3. Cardinality(A \cap C) = 0
    BY <2>c, <2>1, Zenon
  <2> QED
    BY <2>1, <2>2, <2>3
<1> QED
  BY <1>1, <1>2, <1>4, <1>5, TimesIs

\* Nothing is in the empty sequence.
LEMMA TimesNone ==
  ASSUME NEW e
  PROVE  IsSeq(<<>>) /\ Times(e, <<>>) = 0
<1>1. IsSeq(<<>>)
  BY DEF IsSeq
<1>2. Places(e, <<>>) = {}
  BY DEF Places
<1> QED
  BY <1>1, <1>2, TimesIs, FS_EmptySet

\* A part of a sequence.
LEMMA SubSeqIs ==
  ASSUME NEW S, NEW s \in Seq(S), NEW a \in Nat, NEW b \in Nat, 1 <= a, a <= b, b <= Len(s)
  PROVE  /\ SubSeq(s, a, b) \in Seq(S) /\ Len(SubSeq(s, a, b)) = b - a + 1
         /\ \A x \in 1..(b - a + 1) : SubSeq(s, a, b)[x] = s[a + x - 1]
  OBVIOUS

\* Equal parts of two sequences, l places apart.
LEMMA SameSubSeq ==
  ASSUME NEW s, IsSeq(s), NEW t, IsSeq(t), NEW l \in Nat,
         NEW a \in Nat, NEW b \in Nat, 1 <= a, a <= b, b <= Len(s), l + b <= Len(t),
         \A i \in a..b : s[i] = t[l + i]
  PROVE  SubSeq(t, l + a, l + b) = SubSeq(s, a, b)
<1>1. PICK S : s \in Seq(S)
  BY DEF IsSeq
<1>2. PICK T : t \in Seq(T)
  BY DEF IsSeq
<1>3. s \in Seq(S \cup T) /\ t \in Seq(S \cup T)
  BY <1>1, <1>2
<1>4. PICK U : U = S \cup T
  OBVIOUS
<1>5. PICK u, v : u = SubSeq(s, a, b) /\ v = SubSeq(t, l + a, l + b)
  OBVIOUS
<1>6. PICK n \in Nat : n = b - a + 1
  OBVIOUS
<1>7. u \in Seq(U) /\ Len(u) = n /\ \A x \in 1..n : u[x] = s[a + x - 1]
  BY <1>3, <1>4, <1>5, <1>6, SubSeqIs
<1>8. v \in Seq(U) /\ Len(v) = n /\ \A x \in 1..n : v[x] = t[(l + a) + x - 1]
  <2>1. PICK c, d : c = l + a /\ d = l + b
    OBVIOUS
  <2>2. c \in Nat /\ d \in Nat /\ 1 <= c /\ c <= d /\ d <= Len(t) /\ d - c + 1 = n
    BY <1>6, <2>1
  <2>3. t \in Seq(U) /\ v = SubSeq(t, c, d)
    BY <1>3, <1>4, <1>5, <2>1
  <2>4. v \in Seq(U) /\ Len(v) = d - c + 1 /\ \A x \in 1..(d - c + 1) : v[x] = t[c + x - 1]
    BY <2>2, <2>3, SubSeqIs
  <2> QED
    BY <2>1, <2>2, <2>4
<1>9. ASSUME NEW x \in 1..n PROVE u[x] = v[x]
  <2>1. a + x - 1 \in a..b /\ (l + a) + x - 1 = l + (a + x - 1)
    BY <1>6
  <2> QED
    BY <1>7, <1>8, <2>1
<1>10. u = v
  BY <1>7, <1>8, <1>9
<1> QED
  BY <1>5, <1>10

-----------------------------------------------------------------------------
(***************************************************************************)
(* A set of numbers in increasing order.                                   *)
(***************************************************************************)
Rank(S, i) == Cardinality({ j \in S : j <= i })

\* Ranks are 1 to the size of the set, and grow with the numbers.
LEMMA RankIs ==
  ASSUME NEW S, IsFiniteSet(S), S \subseteq Int
  PROVE  /\ Cardinality(S) \in Nat
         /\ \A i \in S : Rank(S, i) \in 1..Cardinality(S)
         /\ \A i, j \in S : i < j => Rank(S, i) < Rank(S, j)
<1> DEFINE Upto(i) == { j \in S : j <= i }
<1>0. Cardinality(S) \in Nat
  BY FS_CardinalityType
<1>1. ASSUME NEW i \in S
      PROVE  IsFiniteSet(Upto(i)) /\ Rank(S, i) = Cardinality(Upto(i)) /\ Rank(S, i) \in 1..Cardinality(S)
  <2>1. Upto(i) \subseteq S /\ i \in Upto(i)
    OBVIOUS
  <2>r. Rank(S, i) = Cardinality(Upto(i))
    BY DEF Rank
  <2> HIDE DEF Upto
  <2>2. IsFiniteSet(Upto(i)) /\ Cardinality(Upto(i)) <= Cardinality(S)
    BY <2>1, FS_Subset
  <2>3. Cardinality(Upto(i)) \in Nat /\ Cardinality(Upto(i)) # 0
    BY <2>1, <2>2, FS_CardinalityType, FS_EmptySet
  <2> QED
    BY <1>0, <2>r, <2>2, <2>3
<1>2. ASSUME NEW i \in S, NEW j \in S, i < j PROVE Rank(S, i) < Rank(S, j)
  <2>1. Upto(i) \subseteq Upto(j) /\ j \in Upto(j) /\ j \notin Upto(i)
    <3>1. i \in Int /\ j \in Int /\ \A k \in S : k \in Int
      OBVIOUS
    <3>2. \A k \in S : k <= i => k <= j
      BY <1>2, <3>1
    <3>3. j <= j /\ ~(j <= i)
      BY <1>2, <3>1
    <3> QED
      BY <3>2, <3>3
  <2> HIDE DEF Upto
  <2>2. Cardinality(Upto(i)) <= Cardinality(Upto(j)) /\ Cardinality(Upto(i)) # Cardinality(Upto(j))
    BY <1>1, <2>1, FS_Subset
  <2>3. Rank(S, i) \in Nat /\ Rank(S, j) \in Nat
    BY <1>0, <1>1
  <2> QED
    BY <1>1, <2>2, <2>3
<1> QED
  BY <1>0, <1>1, <1>2

\* InOrder(S)[n] is the element of rank n.
LEMMA InOrderIs ==
  ASSUME NEW S, IsFiniteSet(S), S \subseteq Int
  PROVE  /\ Cardinality(S) \in Nat /\ DOMAIN InOrder(S) = 1..Cardinality(S)
         /\ \A n \in 1..Cardinality(S) : InOrder(S)[n] \in S /\ Rank(S, InOrder(S)[n]) = n
<1> DEFINE N == Cardinality(S)
           f == [i \in S |-> Rank(S, i)]
<1>1. N \in Nat /\ \A i \in S : Rank(S, i) \in 1..N
  BY RankIs
<1>2. ASSUME NEW n \in 1..N PROVE \E i \in S : Rank(S, i) = n
  <2>1. f \in [S -> 1..N]
    BY <1>1
  <2>2. \A i, j \in S : Rank(S, i) = Rank(S, j) => i = j
    <3>1. ASSUME NEW i \in S, NEW j \in S, i # j PROVE Rank(S, i) # Rank(S, j)
      <4>1. i < j \/ j < i
        BY <3>1
      <4> QED
        <5>1. Rank(S, i) < Rank(S, j) \/ Rank(S, j) < Rank(S, i)
          BY <4>1, RankIs
        <5>2. Rank(S, i) \in Int /\ Rank(S, j) \in Int
          BY <1>1
        <5> QED
          BY <5>1, <5>2
    <3> QED
      BY <3>1
  <2>3. f \in Injection(S, 1..N)
    BY <2>1, <2>2 DEF Injection, IsInjective
  <2>4. IsFiniteSet(1..N) /\ Cardinality(1..N) = N
    <3>1. 1 \in Int /\ N \in Int /\ (1 > N => N = 0)
      BY <1>1
    <3> QED
      BY <3>1, FS_Interval
  <2>5. f \in Surjection(S, 1..N)
    <3> HIDE DEF f
    <3> QED
      BY <2>3, <2>4, FS_Injection DEF N
  <2> QED
    BY <2>5 DEF Surjection
<1>3. ASSUME NEW n \in 1..N PROVE InOrder(S)[n] \in S /\ Rank(S, InOrder(S)[n]) = n
  <2>1. InOrder(S)[n] = CHOOSE i \in S : Rank(S, i) = n
    BY DEF InOrder, Rank
  <2> QED
    BY <1>2, <2>1
<1>4. DOMAIN InOrder(S) = 1..N
  BY DEF InOrder
<1> QED
  BY <1>1, <1>3, <1>4

\* Every number of S has its place, and there is none between two neighbours.
LEMMA InOrderNext ==
  ASSUME NEW S, IsFiniteSet(S), S \subseteq Int, NEW n \in 1..Cardinality(S), NEW x \in S
  PROVE  /\ n = 1 => ~(x < InOrder(S)[n])
         /\ n > 1 => /\ n - 1 \in 1..Cardinality(S) /\ InOrder(S)[n - 1] < InOrder(S)[n]
                     /\ ~(InOrder(S)[n - 1] < x /\ x < InOrder(S)[n])
<1>1. /\ Cardinality(S) \in Nat
      /\ \A k \in 1..Cardinality(S) : InOrder(S)[k] \in S /\ Rank(S, InOrder(S)[k]) = k
  BY InOrderIs
<1>2. /\ \A i \in S : Rank(S, i) \in 1..Cardinality(S)
      /\ \A i, j \in S : i < j => Rank(S, i) < Rank(S, j)
  BY RankIs
<1>3. ASSUME n = 1, x < InOrder(S)[n] PROVE FALSE
  <2>1. Rank(S, x) < 1 /\ Rank(S, x) \in 1..Cardinality(S)
    BY <1>1, <1>2, <1>3
  <2> QED
    BY <1>1, <2>1
<1>4. ASSUME n > 1
      PROVE  /\ n - 1 \in 1..Cardinality(S) /\ InOrder(S)[n - 1] < InOrder(S)[n]
             /\ ~(InOrder(S)[n - 1] < x /\ x < InOrder(S)[n])
  <2>1. n - 1 \in 1..Cardinality(S)
    BY <1>1, <1>4
  <2>2. PICK a \in S, b \in S : a = InOrder(S)[n - 1] /\ b = InOrder(S)[n] /\ Rank(S, a) = n - 1 /\ Rank(S, b) = n
    BY <1>1, <2>1
  <2>3. a < b
    <3>1. a # b /\ ~(b < a)
      BY <1>2, <2>2
    <3>2. a \in Int /\ b \in Int
      OBVIOUS
    <3> QED
      BY <3>1, <3>2
  <2>4. ~(a < x /\ x < b)
    <3>1. ASSUME a < x, x < b PROVE FALSE
      <4>1. Rank(S, x) \in Int /\ n - 1 < Rank(S, x) /\ Rank(S, x) < n
        BY <1>2, <2>2, <3>1
      <4> QED
        BY <4>1
    <3> QED
      BY <3>1
  <2> QED
    BY <2>1, <2>2, <2>3, <2>4
<1> QED
  BY <1>3, <1>4

\* AtPlaces(s, P) is a sequence of elements of s at places in P.
LEMMA AtPlacesIs ==
  ASSUME NEW s, IsSeq(s), NEW P \in SUBSET DOMAIN s
  PROVE  /\ IsSeq(AtPlaces(s, P)) /\ DOMAIN AtPlaces(s, P) = 1..Len(AtPlaces(s, P))
         /\ \A n \in DOMAIN AtPlaces(s, P) : \E i \in P : AtPlaces(s, P)[n] = s[i]
<1>1. DOMAIN s = 1..Len(s) /\ Len(s) \in Nat
  BY SeqFacts
<1>2. 1 \in Int /\ Len(s) \in Int
  BY <1>1
<1>3. IsFiniteSet(DOMAIN s)
  BY <1>1, <1>2, FS_Interval
<1>4. IsFiniteSet(P) /\ P \subseteq Int
  <2>1. IsFiniteSet(P)
    BY <1>3, FS_Subset
  <2> QED
    BY <1>1, <2>1
<1> DEFINE N == Cardinality(P)
<1>5. N \in Nat /\ DOMAIN InOrder(P) = 1..N /\ \A n \in 1..N : InOrder(P)[n] \in P
  BY <1>4, InOrderIs
<1> HIDE DEF N
<1>6. AtPlaces(s, P) = [n \in 1..N |-> s[InOrder(P)[n]]]
  BY <1>5 DEF AtPlaces
<1>7. DOMAIN AtPlaces(s, P) = 1..N /\ AtPlaces(s, P) = [n \in 1..N |-> AtPlaces(s, P)[n]]
  BY <1>6
<1>8. IsSeq(AtPlaces(s, P)) /\ Len(AtPlaces(s, P)) = N
  BY <1>5, <1>7, IsSeqFun
<1> QED
  BY <1>5, <1>6, <1>7, <1>8
-----------------------------------------------------------------------------
(***************************************************************************)
(* The queue.  empty() and front() are called without the lock, but only   *)
(* the worker removes nodes before main empties the queue; and main does   *)
(* that only when it was told to quit.                                     *)
(***************************************************************************)

\* Who is about to change the queue has the lock.
LockHeld ==
  /\ worker = "pop" => lock = "worker"
  /\ mhd.at = "push" => lock = "mhd"

\* What the worker saw is still there.
FrontKept ==
  (worker \in {"front", "lock", "pop"} /\ mainPc # "stopping" /\ ~Gone) =>
    queue # <<>> /\ (worker # "front" => node = Head(queue))

CrashCause ==
  /\ mainPc = "stopping" => shouldQuit
  /\ worker = "crashed" => Gone
  /\ (worker = "crashed" /\ ~shouldQuit) => node.urlstart = BadUrl /\ node.dontcrawl # <<>>

QueueTypes ==
  /\ IsSeq(queue)
  /\ mhd = [at |-> mhd.at, conn |-> mhd.conn, node |-> mhd.node]

QueueInv == QueueTypes /\ LockHeld /\ FrontKept /\ CrashCause

\* QueueInv holds when crawlerd starts.
LEMMA QueueInit == Init => QueueInv
  BY DEF Init, SignalInit, IdleMhd, QueueInv, QueueTypes, LockHeld, FrontKept, CrashCause, IsSeq

\* The thread of the daemon preserves QueueInv.
LEMMA QueueDaemon ==
  ASSUME QueueInv, DaemonStep
  PROVE  QueueInv'
<1> USE DEF QueueInv, QueueTypes, LockHeld, FrontKept, CrashCause
<1>1. ASSUME NEW c \in Conns, NEW req \in Requests, Connect(c, req) PROVE QueueInv'
  BY <1>1 DEF Connect
<1>2. ASSUME NEW c \in Conns, SendPage(c) PROVE QueueInv'
  BY <1>2 DEF SendPage
<1>6. ASSUME NEW c \in Conns, Upload(c) \/ UploadPiece(c) \/ PassOver(c) PROVE QueueInv'
  BY <1>6 DEF Upload, UploadPiece, PassOver, Receive
<1>3. ASSUME NEW c \in Conns, Complete(c) PROVE QueueInv'
  BY <1>3 DEF Complete, cd_RequestCompletedCallback
<1>4. CASE LockForPush
  BY <1>4 DEF LockForPush
<1>5. CASE Push
  BY <1>5, Longer DEF Push, IdleMhd
<1> QED
  BY <1>1, <1>2, <1>3, <1>4, <1>5, <1>6 DEF DaemonStep

\* The thread of the crawler preserves QueueInv.
LEMMA QueueWorker ==
  ASSUME QueueInv, WorkerStep
  PROVE  QueueInv'
<1> USE DEF QueueInv, QueueTypes, LockHeld, FrontKept, CrashCause
<1>1. CASE WakeWorker
  BY <1>1 DEF WakeWorker
<1>2. CASE FrontOfQueue
  BY <1>2 DEF FrontOfQueue
<1>3. CASE LockForPop
  BY <1>3 DEF LockForPop
<1>4. CASE PopQueue
  BY <1>4, Shorter DEF PopQueue
<1>5. CASE SetUpInvalid \/ NoTags
  BY <1>5 DEF SetUpInvalid, NoTags
<1>6. CASE SetUp \/ NextUrl \/ FetchForMath \/ ExtractMath \/ FollowLinks \/ FinishCrawl
  BY <1>6 DEF SetUp, NextUrl, FetchForMath, ExtractMath, FollowLinks, FinishCrawl
<1>7. CASE AskType
  <2>1. worker' \in {"isXHTML2", "isHTML", "math", "isHTML2", "links"}
    BY <1>7 DEF AskType, AfterQuestion
  <2> QED
    BY <1>7, <2>1 DEF AskType
<1> QED
  BY <1>1, <1>2, <1>3, <1>4, <1>5, <1>6, <1>7 DEF WorkerStep

\* Every step preserves QueueInv.
LEMMA QueueStep == QueueInv /\ [Next]_vars => QueueInv'
<1> SUFFICES ASSUME QueueInv, [Next]_vars PROVE QueueInv'
  OBVIOUS
<1> USE DEF QueueInv, QueueTypes, LockHeld, FrontKept, CrashCause
<1>1. CASE MainStep
  BY <1>1 DEF MainStep, SignalStep, setup_signals, BlockSignals, TestQuit, sigsuspend, catch_sig
<1>2. CASE EmptyQueue
  BY <1>2, Shorter DEF EmptyQueue, Stopped
<1>3. CASE Exit
  BY <1>3 DEF Exit, Stopped
<1>4. CASE Tick \/ UNCHANGED vars
  BY <1>4 DEF Tick, vars
<1> QED
  BY <1>1, <1>2, <1>3, <1>4, QueueDaemon, QueueWorker DEF Next

\* Until main empties the queue, what the worker found in it without the lock
\* is there when it pops, and the daemon does not push while it does, for any
\* connections, requests and faults, and whenever signals come.
THEOREM QueueHandoverCorrect == Spec => []QueueHandover
<1>1. QueueInv => QueueHandover
  BY DEF QueueInv, LockHeld, FrontKept, CrashCause, QueueHandover
<1> QED
  BY <1>1, QueueInit, QueueStep, PTL DEF Spec

-----------------------------------------------------------------------------
(***************************************************************************)
(* From requests to nodes.  What a connection holds is what the fields     *)
(* that have arrived come to; a page is sent when all have, and the node   *)
(* of a connection is made from what it holds when it is completed.        *)
(***************************************************************************)
\* The last field with a key among one more field.
LEMMA OneMoreField ==
  ASSUME NEW req, NEW key, NEW n \in Nat
  PROVE  LastField(req, key, n + 1) =
           IF req.fields[n + 1].key = key THEN req.fields[n + 1] ELSE LastField(req, key, n)
<1> DEFINE last(m) == { i \in 1..m : /\ req.fields[i].key = key
                                     /\ \A j \in (i+1)..m : req.fields[j].key # key }
<1>l. \A m : LastField(req, key, m) = IF last(m) = {} THEN [key |-> key, url |-> NoUrl, n |-> 0]
                                                     ELSE req.fields[CHOOSE i \in last(m) : TRUE]
  BY DEF LastField
<1>1. CASE req.fields[n + 1].key = key
  <2>1. last(n + 1) = {n + 1}
    <3>1. n + 1 \in last(n + 1)
      BY <1>1
    <3>2. \A i \in 1..(n + 1) : i # n + 1 => n + 1 \in (i+1)..(n + 1)
      OBVIOUS
    <3> QED
      BY <1>1, <3>1, <3>2
  <2> QED
    <3> HIDE DEF last
    <3>1. (CHOOSE i \in last(n + 1) : TRUE) = n + 1
      BY <2>1
    <3> QED
      BY <1>l, <1>1, <2>1, <3>1
<1>2. CASE req.fields[n + 1].key # key
  <2>1. last(n + 1) = last(n)
    <3>1. \A i \in 1..(n + 1) : i = n + 1 \/ i \in 1..n
      OBVIOUS
    <3>2. \A i \in 1..n : i \in 1..(n + 1) /\ \A j \in (i+1)..(n + 1) : j = n + 1 \/ j \in (i+1)..n
      OBVIOUS
    <3>3. \A i \in 1..n : \A j \in (i+1)..n : j \in (i+1)..(n + 1)
      OBVIOUS
    <3> QED
      BY <1>2, <3>1, <3>2, <3>3
  <2> QED
    <3> HIDE DEF last
    <3> QED
      BY <1>l, <1>2, <2>1
<1> QED
  BY <1>1, <1>2

\* There is none among no fields.
LEMMA NoField ==
  ASSUME NEW req, NEW key
  PROVE  LastField(req, key, 0).url = NoUrl /\ LastField(req, key, 0).n = 0
  BY DEF LastField

\* The exclusions among one more field.
LEMMA OneMoreExclusion ==
  ASSUME NEW req, NEW n \in Nat
  PROVE  LET f == req.fields[n + 1]
         IN  Exclusions(req, n + 1) =
               IF f.key = "dontcrawl" /\ f.url # NoUrl THEN Exclusions(req, n) \cup {n + 1}
                                                       ELSE Exclusions(req, n)
<1>1. \A i : i \in 1..(n + 1) <=> i = n + 1 \/ i \in 1..n
  OBVIOUS
<1> QED
  BY <1>1 DEF Exclusions

\* The list of exclusions grows with the fields.
LEMMA ListGrows ==
  ASSUME NEW req, NEW n \in Nat, NEW links, IsSeq(links), ListsExclusions(links, req, n),
         req.fields[n + 1].key = "dontcrawl", req.fields[n + 1].url # NoUrl
  PROVE  ListsExclusions(Append(links, req.fields[n + 1].url), req, n + 1)
<1> DEFINE E == Exclusions(req, n)
<1> DEFINE new == Append(links, req.fields[n + 1].url)
<1>1. PICK place \in [DOMAIN links -> E] :
        /\ \A i, j \in DOMAIN links : i < j => place[i] < place[j]
        /\ \A x \in E : \E i \in DOMAIN links : place[i] = x
        /\ \A i \in DOMAIN links : links[i] = req.fields[place[i]].url
  BY DEF ListsExclusions
<1>2. Exclusions(req, n + 1) = E \cup {n + 1} /\ E \subseteq 1..n
  BY OneMoreExclusion DEF Exclusions
<1> DEFINE m == Len(links)
<1>3. m \in Nat /\ DOMAIN links = 1..m
  BY Longer DEF IsSeq
<1>4. /\ DOMAIN new = 1..(m + 1) /\ new[m + 1] = req.fields[n + 1].url
      /\ \A i \in 1..m : new[i] = links[i]
  <2>1. IsSeq(new) /\ Len(new) = m + 1
    BY Longer
  <2>2. DOMAIN new = 1..Len(new)
    BY <2>1 DEF IsSeq
  <2> QED
    BY <2>1, <2>2, Longer
<1> HIDE DEF E, new, m
<1> DEFINE longer == [i \in 1..(m + 1) |-> IF i = m + 1 THEN n + 1 ELSE place[i]]
<1>5. \A i \in 1..(m + 1) : i = m + 1 \/ (i \in 1..m /\ i # m + 1)
  BY <1>3
<1>6. \A i \in 1..m : i \in 1..(m + 1) /\ i # m + 1 /\ i < m + 1
  BY <1>3
<1>7. m + 1 \in 1..(m + 1) /\ \A i \in 1..(m + 1) : ~(m + 1 < i)
  BY <1>3
<1>8. longer \in [1..(m + 1) -> E \cup {n + 1}]
  BY <1>1, <1>3, <1>5
<1>9. longer[m + 1] = n + 1 /\ \A i \in 1..m : longer[i] = place[i] /\ place[i] \in 1..n
  BY <1>1, <1>2, <1>3, <1>6, <1>7
<1> HIDE DEF longer
<1>10. ASSUME NEW i \in 1..(m + 1), NEW j \in 1..(m + 1), i < j PROVE longer[i] < longer[j]
  <2>1. i \in 1..m
    BY <1>3, <1>10
  <2>2. CASE j = m + 1
    BY <1>9, <2>1, <2>2
  <2>3. CASE j \in 1..m
    BY <1>1, <1>3, <1>9, <1>10, <2>1, <2>3
  <2> QED
    BY <1>5, <2>2, <2>3
<1>11. ASSUME NEW x \in E \cup {n + 1} PROVE \E i \in 1..(m + 1) : longer[i] = x
  BY <1>1, <1>3, <1>6, <1>7, <1>9
<1>12. ASSUME NEW i \in 1..(m + 1) PROVE new[i] = req.fields[longer[i]].url
  BY <1>1, <1>3, <1>4, <1>5, <1>9
<1>13. longer \in [DOMAIN new -> Exclusions(req, n + 1)]
  BY <1>2, <1>4, <1>8
<1>14. ListsExclusions(new, req, n + 1)
  <2>1. \A i, j \in DOMAIN new : i < j => longer[i] < longer[j]
    BY <1>4, <1>10
  <2>2. \A x \in Exclusions(req, n + 1) : \E i \in DOMAIN new : longer[i] = x
    BY <1>2, <1>4, <1>11
  <2>3. \A i \in DOMAIN new : new[i] = req.fields[longer[i]].url
    BY <1>4, <1>12
  <2> QED
    BY <1>13, <2>1, <2>2, <2>3, Zenon DEF ListsExclusions
<1> QED
  BY <1>14 DEF new

\* A field that is no exclusion leaves the list as it is.
LEMMA ListStays ==
  ASSUME NEW req, NEW n \in Nat, NEW links, ListsExclusions(links, req, n),
         ~(req.fields[n + 1].key = "dontcrawl" /\ req.fields[n + 1].url # NoUrl)
  PROVE  ListsExclusions(links, req, n + 1)
<1>1. Exclusions(req, n + 1) = Exclusions(req, n)
  BY OneMoreExclusion
<1> QED
  BY <1>1 DEF ListsExclusions

\* A field as RequestsAssumption has it, or a piece of one.
ValidField(f) ==
  /\ f.n \in Int
  /\ f.key = "urlstart" => IsStart(f.url)
  /\ f.key = "dontcrawl" => f.url = NoUrl \/ IsUrl(f.url)

ValidForm(con) ==
  /\ IsStart(con.urlstart) /\ con.count \in Int
  /\ IsSeq(con.dontcrawl) /\ \A i \in DOMAIN con.dontcrawl : IsUrl(con.dontcrawl[i])

\* What the fields that have arrived come to.
AsFields(con) ==
  /\ con.urlstart = LastField(con.req, "urlstart", con.pos).url
  /\ con.count = LastField(con.req, "count", con.pos).n
  /\ ListsExclusions(con.dontcrawl, con.req, con.pos)

\* What a connection holds; by the fields that have arrived if all came whole.
Holds(con) ==
  /\ con.req \in Requests /\ con.pos \in Nat /\ con.pos <= Len(con.req.fields)
  /\ ValidForm(con)
  /\ con.pieces = {} => AsFields(con)

Shape(con) ==
  con = [st |-> con.st, sent |-> con.sent, req |-> con.req, pos |-> con.pos, pieces |-> con.pieces,
         urlstart |-> con.urlstart, count |-> con.count, dontcrawl |-> con.dontcrawl]

\* What is the same while a connection is answered and completed.
SameForm(new, con) ==
  /\ new.req = con.req /\ new.pos = con.pos /\ new.pieces = con.pieces /\ new.urlstart = con.urlstart
  /\ new.count = con.count /\ new.dontcrawl = con.dontcrawl

Wanted(con) == con.req.method = "POST" /\ con.urlstart # NoUrl

\* The page that was sent fits what the connection holds.
Told(con) ==
  /\ con.sent = "answerpage" => Wanted(con) /\ con.pos = Len(con.req.fields)
  /\ con.sent \in {"askpage", "errorpage"} => ~Wanted(con)
  /\ con.sent \in {"none", "askpage", "errorpage", "answerpage"}
  /\ con.sent # "none" => con.st \in {"sent", "done"}

ConnOK(con) ==
  /\ Shape(con) /\ con.st \in {"closed", "open", "sent", "done"}
  /\ con.st # "closed" => Holds(con)
  /\ Told(con)

\* The fields of a request are a sequence.
LEMMA FieldsAreSequences ==
  ASSUME NEW req \in Requests
  PROVE  Len(req.fields) \in Nat
  BY RequestsAssumption

\* They are valid, and so are the pieces of a field.
LEMMA FieldsAreValid ==
  ASSUME NEW req \in Requests, NEW i \in 1..Len(req.fields)
  PROVE  ValidField(req.fields[i])
<1>1. req.fields[i] \in ToSet(req.fields)
  <2>1. DOMAIN req.fields = 1..Len(req.fields)
    BY RequestsAssumption
  <2> QED
    BY <2>1 DEF ToSet
<1> QED
  BY <1>1, RequestsAssumption DEF ValidField

LEMMA PiecesAreValid ==
  ASSUME NEW field, NEW piece \in PiecesOf(field)
  PROVE  ValidField(piece)
<1>1. /\ piece.key = field.key /\ piece.url \in PieceUrls /\ piece.n \in PieceNumbers
      /\ field.key = "dontcrawl" => piece.url # BadUrl
  BY DEF PiecesOf
<1>2. IsStart(piece.url) /\ piece.n \in Int
  BY <1>1, PiecesAssumption
<1>3. piece.key = "dontcrawl" => piece.url = NoUrl \/ IsUrl(piece.url)
  BY <1>1, <1>2 DEF IsStart
<1> QED
  BY <1>2, <1>3 DEF ValidField

\* The fields of a connection.
LEMMA Record ==
  ASSUME NEW st, NEW sent, NEW req, NEW pos, NEW pieces, NEW urlstart, NEW count, NEW dontcrawl, NEW con,
         con = [st |-> st, sent |-> sent, req |-> req, pos |-> pos, pieces |-> pieces,
                urlstart |-> urlstart, count |-> count, dontcrawl |-> dontcrawl]
  PROVE  /\ Shape(con) /\ con.st = st /\ con.sent = sent /\ con.req = req /\ con.pos = pos
         /\ con.pieces = pieces /\ con.urlstart = urlstart /\ con.count = count
         /\ con.dontcrawl = dontcrawl
  BY DEF Shape

\* A connection after one more value.
After(con, f, pos, pieces) ==
  [st |-> con.st, sent |-> con.sent, req |-> con.req, pos |-> pos, pieces |-> pieces,
   urlstart |-> IF f.key = "urlstart" THEN f.url ELSE con.urlstart,
   count |-> IF f.key = "count" THEN f.n ELSE con.count,
   dontcrawl |-> IF f.key = "dontcrawl" /\ f.url # NoUrl THEN Append(con.dontcrawl, f.url)
                                                         ELSE con.dontcrawl]

\* That is what Receive makes of it.
LEMMA ReceiveIs ==
  ASSUME NEW con, Shape(con), NEW f, NEW pos, NEW pieces, NEW new,
         new = [cd_IteratePostRequest(con, f) EXCEPT !.pos = pos, !.pieces = pieces]
  PROVE  new = After(con, f, pos, pieces)
<1> DEFINE u == IF f.key = "urlstart" THEN f.url ELSE con.urlstart
           k == IF f.key = "count" THEN f.n ELSE con.count
           d == IF f.key = "dontcrawl" /\ f.url # NoUrl THEN Append(con.dontcrawl, f.url) ELSE con.dontcrawl
<1>1. cd_IteratePostRequest(con, f) =
        [st |-> con.st, sent |-> con.sent, req |-> con.req, pos |-> con.pos, pieces |-> con.pieces,
         urlstart |-> u, count |-> k, dontcrawl |-> d]
  <2>1. CASE f.key = "urlstart"
    BY <2>1 DEF cd_IteratePostRequest, Shape
  <2>2. CASE f.key = "count"
    BY <2>2 DEF cd_IteratePostRequest, Shape
  <2>3. CASE f.key = "dontcrawl"
    BY <2>3 DEF cd_IteratePostRequest, Shape
  <2>4. CASE f.key \notin {"urlstart", "count", "dontcrawl"}
    BY <2>4 DEF cd_IteratePostRequest, Shape
  <2> QED
    BY <2>1, <2>2, <2>3, <2>4
<1>2. After(con, f, pos, pieces) =
        [st |-> con.st, sent |-> con.sent, req |-> con.req, pos |-> pos, pieces |-> pieces,
         urlstart |-> u, count |-> k, dontcrawl |-> d]
  BY Zenon DEF After
<1> HIDE DEF u, k, d
<1>3. ASSUME NEW x, x = [st |-> con.st, sent |-> con.sent, req |-> con.req, pos |-> con.pos, pieces |-> con.pieces,
                         urlstart |-> u, count |-> k, dontcrawl |-> d],
             NEW y, y = [x EXCEPT !.pos = pos, !.pieces = pieces]
      PROVE  y = [st |-> con.st, sent |-> con.sent, req |-> con.req, pos |-> pos, pieces |-> pieces,
                  urlstart |-> u, count |-> k, dontcrawl |-> d]
  BY <1>3
<1>4. PICK x : x = cd_IteratePostRequest(con, f)
  OBVIOUS
<1>5. new = [x EXCEPT !.pos = pos, !.pieces = pieces]
  BY <1>4
<1> QED
  BY <1>1, <1>2, <1>3, <1>4, <1>5

\* cd_IteratePostRequest keeps the form valid, and what the fields so far say if
\* this is one more and came whole.
LEMMA ReceiveHolds ==
  ASSUME NEW con, Shape(con), Holds(con), con.pos < Len(con.req.fields),
         NEW f, ValidField(f), NEW pos \in {con.pos, con.pos + 1}, NEW pieces,
         pieces = {} => con.pieces = {} /\ pos = con.pos + 1 /\ f = con.req.fields[con.pos + 1],
         NEW new, new = After(con, f, pos, pieces)
  PROVE  Shape(new) /\ Holds(new) /\ new.st = con.st /\ new.sent = con.sent /\ new.req = con.req
<1> DEFINE req == con.req
<1> DEFINE n == con.pos
<1>1. n \in Nat /\ Len(req.fields) \in Nat /\ n + 1 <= Len(req.fields) /\ pos \in {n, n + 1}
  BY FieldsAreSequences DEF Holds
<1> DEFINE u == IF f.key = "urlstart" THEN f.url ELSE con.urlstart
<1> DEFINE k == IF f.key = "count" THEN f.n ELSE con.count
<1> DEFINE d == IF f.key = "dontcrawl" /\ f.url # NoUrl THEN Append(con.dontcrawl, f.url) ELSE con.dontcrawl
<1>2. new = [st |-> con.st, sent |-> con.sent, req |-> con.req, pos |-> pos, pieces |-> pieces,
             urlstart |-> u, count |-> k, dontcrawl |-> d]
  BY DEF After
<1> HIDE DEF n, req, u, k, d
<1>3. Shape(new) /\ new.st = con.st /\ new.sent = con.sent /\ new.req = con.req
  BY <1>2 DEF Shape
<1>4. new.pos = pos /\ new.pieces = pieces /\ new.urlstart = u /\ new.count = k /\ new.dontcrawl = d
  BY <1>2
<1>5. ValidForm(new)
  <2>1. ValidForm(con)
    BY DEF Holds
  <2>2. IsStart(u) /\ k \in Int
    BY <2>1 DEF ValidForm, ValidField, u, k
  <2>3. IsSeq(d) /\ \A i \in DOMAIN d : IsUrl(d[i])
    <3>1. CASE f.key = "dontcrawl" /\ f.url # NoUrl
      <4>1. d = Append(con.dontcrawl, f.url) /\ IsUrl(f.url) /\ IsSeq(con.dontcrawl)
        BY <2>1, <3>1 DEF d, ValidField, ValidForm
      <4> DEFINE m == Len(con.dontcrawl)
      <4>2. /\ IsSeq(d) /\ m \in Nat /\ Len(d) = m + 1 /\ d[m + 1] = f.url
            /\ \A i \in 1..m : d[i] = con.dontcrawl[i]
        BY <4>1, Longer
      <4>3. DOMAIN d = 1..(m + 1) /\ DOMAIN con.dontcrawl = 1..m
        BY <4>1, <4>2, SeqFacts
      <4>4. \A i \in 1..(m + 1) : i = m + 1 \/ i \in 1..m
        BY <4>2
      <4> HIDE DEF m
      <4> QED
        BY <2>1, <4>1, <4>2, <4>3, <4>4 DEF ValidForm
    <3>2. CASE ~(f.key = "dontcrawl" /\ f.url # NoUrl)
      BY <2>1, <3>2 DEF d, ValidForm
    <3> QED
      BY <3>1, <3>2
  <2> QED
    BY <1>4, <2>2, <2>3 DEF ValidForm
<1>6. ASSUME pieces = {} PROVE AsFields(new)
  <2>f. AsFields(con) /\ f = req.fields[n + 1] /\ new.pos = n + 1 /\ new.req = req
    BY <1>3, <1>4, <1>6 DEF Holds, n, req
  <2>1. new.urlstart = LastField(req, "urlstart", n + 1).url
    <3>1. con.urlstart = LastField(req, "urlstart", n).url
      BY <2>f DEF AsFields, n, req
    <3> QED
      BY <1>1, <1>4, <2>f, <3>1, OneMoreField DEF u
  <2>2. new.count = LastField(req, "count", n + 1).n
    <3>1. con.count = LastField(req, "count", n).n
      BY <2>f DEF AsFields, n, req
    <3> QED
      BY <1>1, <1>4, <2>f, <3>1, OneMoreField DEF k
  <2>3. ListsExclusions(new.dontcrawl, req, n + 1)
    <3>1. IsSeq(con.dontcrawl) /\ ListsExclusions(con.dontcrawl, req, n)
      BY <2>f DEF AsFields, Holds, ValidForm, n, req
    <3>2. CASE f.key = "dontcrawl" /\ f.url # NoUrl
      <4>1. new.dontcrawl = Append(con.dontcrawl, req.fields[n + 1].url)
        BY <1>4, <2>f, <3>2 DEF d
      <4>2. ListsExclusions(Append(con.dontcrawl, req.fields[n + 1].url), req, n + 1)
        BY <1>1, <2>f, <3>1, <3>2, ListGrows
      <4> QED
        BY <4>1, <4>2
    <3>3. CASE ~(f.key = "dontcrawl" /\ f.url # NoUrl)
      BY <1>1, <1>4, <2>f, <3>1, <3>3, ListStays DEF d
    <3> QED
      BY <3>2, <3>3
  <2> QED
    BY <2>f, <2>1, <2>2, <2>3 DEF AsFields
<1>7. new.req = req /\ req \in Requests /\ new.pos \in Nat /\ new.pos <= Len(req.fields)
  BY <1>1, <1>3, <1>4 DEF Holds, req
<1>8. Holds(new)
  BY <1>4, <1>5, <1>6, <1>7 DEF Holds
<1> QED
  BY <1>3, <1>8

\* A new connection holds what no fields say.
LEMMA NewHolds ==
  ASSUME NEW req \in Requests, NEW none, none = <<>>, NEW new,
         new = [st |-> "open", sent |-> "none", req |-> req, pos |-> 0, pieces |-> {},
                urlstart |-> NoUrl, count |-> 0, dontcrawl |-> none]
  PROVE  ConnOK(new) /\ new.st = "open"
<1>r. /\ Shape(new) /\ new.st = "open" /\ new.sent = "none" /\ new.req = req /\ new.pos = 0
      /\ new.urlstart = NoUrl /\ new.count = 0 /\ new.dontcrawl = none
  BY Record
<1>2. Told(new)
  BY <1>r DEF Told
<1>3. ListsExclusions(<<>>, req, 0)
  <2>1. Exclusions(req, 0) = {} /\ DOMAIN <<>> = {}
    BY DEF Exclusions
  <2>2. [i \in {} |-> 0] \in [DOMAIN <<>> -> Exclusions(req, 0)]
    BY <2>1
  <2> QED
    BY <2>1, <2>2 DEF ListsExclusions
<1>4. IsSeq(<<>>)
  BY DEF IsSeq
<1>5. Holds(new)
  <2>1. Len(req.fields) \in Nat
    BY FieldsAreSequences
  <2>2. new.req \in Requests /\ new.pos \in Nat /\ new.pos <= Len(new.req.fields)
    BY <1>r, <2>1
  <2>3. new.urlstart = LastField(new.req, "urlstart", new.pos).url /\ new.count = LastField(new.req, "count", new.pos).n
    BY <1>r, NoField
  <2> QED
    BY <1>r, <1>3, <1>4, <2>2, <2>3 DEF Holds, ValidForm, AsFields, IsStart
<1> QED
  BY <1>r, <1>2, <1>5 DEF ConnOK

\* So does one that was just opened.
LEMMA OpenedHolds ==
  ASSUME NEW req \in Requests, NEW new, new = [NoConn EXCEPT !.st = "open", !.req = req]
  PROVE  ConnOK(new) /\ new.st = "open"
<1>1. new = [st |-> "open", sent |-> "none", req |-> req, pos |-> 0, pieces |-> {},
             urlstart |-> NoUrl, count |-> 0, dontcrawl |-> <<>>]
  BY DEF NoConn
<1> QED
  BY <1>1, NewHolds, Zenon

\* What a connection holds depends on its form data only.
LEMMA SameHolds ==
  ASSUME NEW con, NEW new, SameForm(new, con), Holds(con)
  PROVE  Holds(new) /\ (Wanted(new) <=> Wanted(con)) /\ QueueNode(new) = QueueNode(con)
  BY DEF SameForm, Holds, ValidForm, AsFields, Wanted, QueueNode

ConnsInv == conns = [c \in Conns |-> conns[c]] /\ \A c \in Conns : ConnOK(conns[c])

\* One connection changes, by its handler or its completion, and no other.
Handled(c) ==
  /\ \A d \in Conns : d # c => conns'[d] = conns[d]
  /\ ConnOK(conns'[c]) /\ UNCHANGED <<mhd, pushed>>
  /\ conns[c].st \in {"closed", "open"} /\ conns'[c].st \in {"open", "sent"}

Completed(c) ==
  /\ \A d \in Conns : d # c => conns'[d] = conns[d]
  /\ ConnOK(conns'[c]) /\ UNCHANGED pushed
  /\ conns[c].st \in {"open", "sent"} /\ conns'[c].st = "done" /\ mhd.at = "idle"
  /\ mhd' = IF Wanted(conns'[c]) THEN [at |-> "lock", conn |-> c, node |-> QueueNode(conns'[c])] ELSE mhd

\* Connect preserves ConnsInv and PushInv.
LEMMA ConnectStep ==
  ASSUME ConnsInv, NEW c \in Conns, NEW req \in Requests, Connect(c, req)
  PROVE  Handled(c) /\ conns' = [d \in Conns |-> conns'[d]]
<1>1. /\ conns' = [conns EXCEPT ![c] = [NoConn EXCEPT !.st = "open", !.req = req]]
      /\ conns[c].st = "closed" /\ UNCHANGED <<mhd, pushed>>
  BY DEF Connect
<1>2. /\ conns'[c] = [NoConn EXCEPT !.st = "open", !.req = req]
      /\ \A d \in Conns : d # c => conns'[d] = conns[d]
      /\ conns' = [d \in Conns |-> conns'[d]]
  BY <1>1 DEF ConnsInv
<1>3. ConnOK(conns'[c]) /\ conns'[c].st = "open"
  BY <1>2, OpenedHolds, Zenon
<1> QED
  BY <1>1, <1>2, <1>3 DEF Handled

\* So does a call with a value or a piece of one, unless it ends the process.
LEMMA ReceiveStep ==
  ASSUME ConnsInv, NEW c \in Conns, Uploading(c), NEW f, ValidField(f),
         NEW pos \in {conns[c].pos, conns[c].pos + 1}, NEW pieces,
         pieces = {} => /\ conns[c].pieces = {} /\ pos = conns[c].pos + 1
                        /\ f = conns[c].req.fields[conns[c].pos + 1],
         Receive(c, f, pos, pieces)
  PROVE  \/ Handled(c) /\ conns' = [d \in Conns |-> conns'[d]]
         \/ UNCHANGED <<conns, mhd, pushed>>
<1>o. CASE Overflows(conns[c], f) /\ f.url # NoUrl
  BY <1>o DEF Receive
<1>n. CASE Overflows(conns[c], f) => f.url = NoUrl
  <2> DEFINE con == conns[c]
  <2> DEFINE still == IF Overflows(conns[c], f) THEN pieces \cup {0} ELSE pieces
  <2> DEFINE new == [cd_IteratePostRequest(con, f) EXCEPT !.pos = pos, !.pieces = still]
  <2>u. conns' = [conns EXCEPT ![c] = new]
    BY <1>n, Zenon DEF Receive
  <2>s. still = {} => pieces = {}
    OBVIOUS
  <2> HIDE DEF new, still
  <2>1. /\ conns' = [conns EXCEPT ![c] = new]
        /\ conns[c].st = "open" /\ UNCHANGED <<mhd, pushed>>
        /\ conns[c].pos < Len(conns[c].req.fields)
    BY <2>u DEF Receive, Uploading
  <2>2. /\ conns'[c] = new
        /\ \A d \in Conns : d # c => conns'[d] = conns[d]
        /\ conns' = [d \in Conns |-> conns'[d]]
    BY <2>1 DEF ConnsInv
  <2>3. ConnOK(con) /\ Shape(con) /\ Holds(con) /\ Told(con)
    BY <2>1 DEF ConnsInv, ConnOK
  <2>4. /\ Shape(conns'[c]) /\ Holds(conns'[c]) /\ conns'[c].st = con.st /\ conns'[c].sent = con.sent
        /\ conns'[c].req = con.req
    <3>1. ASSUME NEW n, n = new
          PROVE  Shape(n) /\ Holds(n) /\ n.st = con.st /\ n.sent = con.sent /\ n.req = con.req
      <4>1. n = [cd_IteratePostRequest(con, f) EXCEPT !.pos = pos, !.pieces = still]
        BY <3>1 DEF new
      <4>2. n = After(con, f, pos, still)
        BY <2>3, <4>1, ReceiveIs, Zenon
      <4> HIDE DEF con
      <4>3. con.pos < Len(con.req.fields)
        BY <2>1 DEF con
      <4>4. pos \in {con.pos, con.pos + 1}
        BY DEF con
      <4>5. still = {} => con.pieces = {} /\ pos = con.pos + 1 /\ f = con.req.fields[con.pos + 1]
        BY <2>s DEF con
      <4> QED
        BY <2>3, <4>2, <4>3, <4>4, <4>5, ReceiveHolds
    <3> QED
      BY <2>2, <3>1
  <2>5. con.sent = "none"
    BY <2>1, <2>3 DEF Told
  <2>6. ConnOK(conns'[c])
    BY <2>1, <2>4, <2>5 DEF ConnOK, Told
  <2> QED
    BY <2>1, <2>2, <2>4, <2>6 DEF Handled
<1> QED
  BY <1>o, <1>n

\* Upload and UploadPiece are such calls.
LEMMA UploadStep ==
  ASSUME ConnsInv, NEW c \in Conns, Upload(c) \/ UploadPiece(c)
  PROVE  \/ Handled(c) /\ conns' = [d \in Conns |-> conns'[d]]
         \/ UNCHANGED <<conns, mhd, pushed>>
<1> DEFINE con == conns[c]
<1> DEFINE field == con.req.fields[con.pos + 1]
<1>1. Uploading(c) /\ con.st = "open"
  BY DEF Upload, UploadPiece, Receive
<1>2. con.req \in Requests /\ con.pos \in Nat /\ con.pos < Len(con.req.fields)
  BY <1>1 DEF ConnsInv, ConnOK, Holds, Uploading
<1>3. ValidField(field)
  <2>1. Len(con.req.fields) \in Nat
    BY <1>2, FieldsAreSequences
  <2>2. con.pos + 1 \in 1..Len(con.req.fields)
    BY <1>2, <2>1
  <2> QED
    BY <1>2, <2>2, FieldsAreValid
<1>4. CASE Upload(c)
  <2>1. PICK rest \in IF con.pos + 1 \in con.pieces THEN PiecesOf(field) ELSE {field} :
          Receive(c, rest, con.pos + 1, con.pieces)
    BY <1>4, Zenon DEF Upload
  <2> HIDE DEF field
  <2>2. ValidField(rest)
    BY <1>3, <2>1, PiecesAreValid
  <2>3. con.pieces = {} => rest = field
    BY <2>1
  <2> QED
    BY <1>1, <2>1, <2>2, <2>3, ReceiveStep DEF field
<1>5. CASE UploadPiece(c)
  <2>1. PICK piece \in PiecesOf(field) : Receive(c, piece, con.pos, con.pieces \cup {con.pos + 1})
    BY <1>5, Zenon DEF UploadPiece
  <2> HIDE DEF field
  <2>2. ValidField(piece) /\ con.pieces \cup {con.pos + 1} # {}
    BY <2>1, PiecesAreValid
  <2> QED
    BY <1>1, <2>1, <2>2, ReceiveStep
<1> QED
  BY <1>4, <1>5

\* So does PassOver.
LEMMA PassOverStep ==
  ASSUME ConnsInv, NEW c \in Conns, PassOver(c)
  PROVE  Handled(c) /\ conns' = [d \in Conns |-> conns'[d]]
<1> DEFINE con == conns[c]
<1> DEFINE end == Len(con.req.fields)
<1>1. /\ conns' = [conns EXCEPT ![c].pos = end]
      /\ con.st = "open" /\ UNCHANGED <<mhd, pushed>>
      /\ con.pieces # {}
  BY DEF PassOver
<1>2. /\ conns'[c] = [con EXCEPT !.pos = end]
      /\ \A d \in Conns : d # c => conns'[d] = conns[d]
      /\ conns' = [d \in Conns |-> conns'[d]]
  BY <1>1 DEF ConnsInv
<1>3. Shape(con) /\ Holds(con) /\ Told(con)
  BY <1>1 DEF ConnsInv, ConnOK
<1>4. end \in Nat
  BY <1>3, FieldsAreSequences DEF Holds
<1> HIDE DEF con
<1>5. conns'[c] = [st |-> con.st, sent |-> con.sent, req |-> con.req, pos |-> end,
                   pieces |-> con.pieces, urlstart |-> con.urlstart, count |-> con.count, dontcrawl |-> con.dontcrawl]
  <2> HIDE DEF end
  <2> QED
    BY <1>2, <1>3 DEF Shape
<1>6. /\ Shape(conns'[c])
      /\ conns'[c].st = con.st /\ conns'[c].sent = con.sent /\ conns'[c].req = con.req
      /\ conns'[c].pos = end /\ conns'[c].pieces = con.pieces /\ conns'[c].urlstart = con.urlstart
      /\ conns'[c].count = con.count /\ conns'[c].dontcrawl = con.dontcrawl
  <2> HIDE DEF end
  <2> QED
    BY <1>5, Record
<1>7. con.pieces # {} /\ con.st = "open"
  BY <1>1 DEF con
<1>8. Holds(conns'[c])
  BY <1>3, <1>4, <1>6, <1>7 DEF Holds, ValidForm
<1>9. con.sent = "none"
  BY <1>3, <1>7 DEF Told
<1>10. ConnOK(conns'[c])
  BY <1>6, <1>7, <1>8, <1>9 DEF ConnOK, Told
<1> QED
  BY <1>1, <1>2, <1>6, <1>7, <1>10 DEF Handled, con

\* So does SendPage.
LEMMA SendStep ==
  ASSUME ConnsInv, NEW c \in Conns, SendPage(c)
  PROVE  Handled(c) /\ conns' = [d \in Conns |-> conns'[d]]
<1> DEFINE con == conns[c]
<1> DEFINE text == CASE con.req.method = "GET" -> "askpage"
                     [] con.req.method = "POST" /\ con.urlstart # NoUrl -> "answerpage"
                     [] OTHER -> "errorpage"
<1>1. /\ conns' = [conns EXCEPT ![c] = cd_SendPageThroughConnection(@,
           CASE @.req.method = "GET" -> "askpage"
             [] @.req.method = "POST" /\ @.urlstart # NoUrl -> "answerpage"
             [] OTHER -> "errorpage")]
      /\ conns[c].st = "open" /\ UNCHANGED <<mhd, pushed>>
      /\ ~Uploading(c)
  BY DEF SendPage
<1>2. /\ conns'[c] = cd_SendPageThroughConnection(con, text)
      /\ \A d \in Conns : d # c => conns'[d] = conns[d]
      /\ conns' = [d \in Conns |-> conns'[d]]
  BY <1>1 DEF ConnsInv
<1>3. Shape(con) /\ Holds(con)
  BY <1>1 DEF ConnsInv, ConnOK
<1>t. /\ text = "answerpage" => Wanted(con)
      /\ text \in {"askpage", "errorpage"} => ~Wanted(con)
      /\ text \in {"askpage", "errorpage", "answerpage"}
  BY DEF Wanted
<1> HIDE DEF text
<1>4. conns'[c] = [st |-> "sent", sent |-> text, req |-> con.req, pos |-> con.pos, pieces |-> con.pieces,
                   urlstart |-> con.urlstart, count |-> con.count, dontcrawl |-> con.dontcrawl]
  BY <1>2, <1>3 DEF Shape, cd_SendPageThroughConnection
<1>5. Shape(conns'[c]) /\ SameForm(conns'[c], con) /\ conns'[c].st = "sent" /\ conns'[c].sent = text
  BY <1>4, Record DEF SameForm
<1>6. Holds(conns'[c]) /\ (Wanted(conns'[c]) <=> Wanted(con))
  BY <1>3, <1>5, SameHolds
<1>7. text = "answerpage" => con.pos = Len(con.req.fields)
  <2>1. con.pos \in Nat /\ con.pos <= Len(con.req.fields) /\ con.req \in Requests
    BY <1>3 DEF Holds
  <2>2. Len(con.req.fields) \in Nat
    BY <2>1, FieldsAreSequences
  <2> QED
    BY <1>1, <1>t, <2>1, <2>2 DEF Uploading, Wanted
<1>8. ConnOK(conns'[c])
  BY <1>5, <1>6, <1>7, <1>t DEF ConnOK, Told, SameForm
<1> QED
  BY <1>1, <1>2, <1>5, <1>8 DEF Handled

\* So does Complete.
LEMMA CompleteStep ==
  ASSUME ConnsInv, NEW c \in Conns, Complete(c)
  PROVE  Completed(c) /\ conns' = [d \in Conns |-> conns'[d]]
<1> DEFINE con == conns[c]
<1>1. /\ conns' = [conns EXCEPT ![c].st = "done"] /\ con.st \notin {"closed", "done"}
      /\ mhd.at = "idle" /\ pushed' = pushed
      /\ mhd' = IF con.req.method = "POST" /\ con.urlstart # NoUrl
                  THEN [at |-> "lock", conn |-> c, node |-> QueueNode(con)] ELSE mhd
  BY DEF Complete, cd_RequestCompletedCallback
<1>2. /\ conns'[c] = [con EXCEPT !.st = "done"]
      /\ \A d \in Conns : d # c => conns'[d] = conns[d]
      /\ conns' = [d \in Conns |-> conns'[d]]
  BY <1>1 DEF ConnsInv
<1>3. Shape(con) /\ Holds(con) /\ Told(con) /\ con.st \in {"open", "sent"}
  BY <1>1 DEF ConnsInv, ConnOK
<1>4. conns'[c] = [st |-> "done", sent |-> con.sent, req |-> con.req, pos |-> con.pos,
                   pieces |-> con.pieces, urlstart |-> con.urlstart, count |-> con.count, dontcrawl |-> con.dontcrawl]
  BY <1>2, <1>3 DEF Shape
<1>5. Shape(conns'[c]) /\ SameForm(conns'[c], con) /\ conns'[c].st = "done" /\ conns'[c].sent = con.sent
  BY <1>4, Record DEF SameForm
<1>6. /\ Holds(conns'[c]) /\ (Wanted(conns'[c]) <=> Wanted(con))
      /\ QueueNode(conns'[c]) = QueueNode(con)
  BY <1>3, <1>5, SameHolds
<1>7. ConnOK(conns'[c])
  BY <1>3, <1>5, <1>6 DEF ConnOK, Told, SameForm
<1>8. mhd' = IF Wanted(conns'[c]) THEN [at |-> "lock", conn |-> c, node |-> QueueNode(conns'[c])] ELSE mhd
  BY <1>1, <1>6 DEF Wanted
<1> QED
  BY <1>1, <1>2, <1>3, <1>5, <1>7, <1>8 DEF Completed

\* What became of the completed connections.
Queued(c) == \E i \in 1..Len(pushed) : pushed[i][1] = c

DaemonHas(c) == mhd.at # "idle" /\ mhd.conn = c

PushInv ==
  /\ IsSeq(pushed)
  /\ \A i \in 1..Len(pushed) :
       /\ pushed[i][1] \in Conns /\ conns[pushed[i][1]].st = "done"
       /\ Wanted(conns[pushed[i][1]]) /\ pushed[i][2] = QueueNode(conns[pushed[i][1]])
  /\ \A i, j \in 1..Len(pushed) : pushed[i][1] = pushed[j][1] => i = j
  /\ mhd.at # "idle" =>
       /\ mhd.conn \in Conns /\ conns[mhd.conn].st = "done" /\ Wanted(conns[mhd.conn])
       /\ mhd.node = QueueNode(conns[mhd.conn]) /\ ~Queued(mhd.conn)
  /\ \A c \in Conns : conns[c].st = "done" /\ Wanted(conns[c]) /\ ~DaemonHas(c) => Queued(c)

\* The steps that have nothing to do with connections.
LEMMA QuietStep ==
  ASSUME [Next]_vars, ~Push, ~LockForPush,
         \A c \in Conns : /\ \A req \in Requests : ~Connect(c, req)
                          /\ ~Upload(c) /\ ~UploadPiece(c) /\ ~PassOver(c) /\ ~SendPage(c) /\ ~Complete(c)
  PROVE  UNCHANGED <<conns, mhd, pushed>>
<1>1. CASE WorkerStep
  BY <1>1 DEF WorkerStep, WakeWorker, FrontOfQueue, LockForPop, PopQueue, NoTags, SetUpInvalid, SetUp, NextUrl, AskType,
     FetchForMath, ExtractMath, FollowLinks, FinishCrawl
<1>2. CASE MainStep \/ EmptyQueue \/ Exit \/ Tick \/ UNCHANGED vars
  BY <1>2 DEF MainStep, EmptyQueue, Exit, Tick, vars
<1> QED
  BY <1>1, <1>2 DEF Next, DaemonStep

\* A step on a connection that is not completed preserves PushInv.
LEMMA HandledKeeps ==
  ASSUME PushInv, NEW c \in Conns, Handled(c)
  PROVE  PushInv'
<1>1. \A i \in 1..Len(pushed) : pushed[i][1] # c
  BY DEF PushInv, Handled
<1>2. mhd.at # "idle" => mhd.conn # c
  BY DEF PushInv, Handled
<1>3. /\ \A d \in Conns : d # c => conns'[d] = conns[d]
      /\ mhd' = mhd /\ pushed' = pushed /\ conns'[c].st # "done"
  BY DEF Handled
<1> QED
  BY <1>1, <1>2, <1>3 DEF PushInv, Queued, DaemonHas

\* So does the completion of a connection.
LEMMA CompletedKeeps ==
  ASSUME PushInv, NEW c \in Conns, Completed(c)
  PROVE  PushInv'
<1>1. /\ \A d \in Conns : d # c => conns'[d] = conns[d]
      /\ pushed' = pushed /\ conns[c].st # "done" /\ conns'[c].st = "done" /\ mhd.at = "idle"
  BY DEF Completed
<1>2. \A i \in 1..Len(pushed) : pushed[i][1] # c
  BY <1>1 DEF PushInv
<1>3. CASE Wanted(conns'[c])
  <2>1. mhd'.at = "lock" /\ mhd'.conn = c /\ mhd'.node = QueueNode(conns'[c])
    BY <1>3 DEF Completed
  <2> QED
    BY <1>1, <1>2, <1>3, <2>1 DEF PushInv, Queued, DaemonHas
<1>4. CASE ~Wanted(conns'[c])
  <2>1. mhd' = mhd
    BY <1>4 DEF Completed
  <2> QED
    BY <1>1, <1>2, <1>4, <2>1 DEF PushInv, Queued, DaemonHas
<1> QED
  BY <1>3, <1>4

\* Push queues the node of its connection, once.
LEMMA PushKeeps ==
  ASSUME PushInv, Push
  PROVE  PushInv'
<1>1. /\ pushed' = Append(pushed, <<mhd.conn, mhd.node>>) /\ mhd' = IdleMhd /\ conns' = conns
      /\ mhd.at # "idle"
  BY DEF Push
<1> DEFINE n == Len(pushed)
<1>2. /\ IsSeq(pushed') /\ n \in Nat /\ Len(pushed') = n + 1
      /\ pushed'[n + 1] = <<mhd.conn, mhd.node>> /\ \A i \in 1..n : pushed'[i] = pushed[i]
  BY <1>1, Longer DEF PushInv
<1>3. /\ mhd.conn \in Conns /\ conns[mhd.conn].st = "done" /\ Wanted(conns[mhd.conn])
      /\ mhd.node = QueueNode(conns[mhd.conn]) /\ \A i \in 1..n : pushed[i][1] # mhd.conn
  BY <1>1 DEF PushInv, Queued
<1>4. pushed'[n + 1][1] = mhd.conn /\ pushed'[n + 1][2] = mhd.node
  BY <1>2
<1>5. mhd'.at = "idle"
  BY <1>1 DEF IdleMhd
<1> HIDE DEF n
<1>6. \A i \in 1..(n + 1) : i = n + 1 \/ i \in 1..n
  BY <1>2
<1>7. n + 1 \in 1..(n + 1) /\ \A i \in 1..n : i \in 1..(n + 1)
  BY <1>2
<1>8. \A i \in 1..(n + 1) :
        /\ pushed'[i][1] \in Conns /\ conns[pushed'[i][1]].st = "done"
        /\ Wanted(conns[pushed'[i][1]]) /\ pushed'[i][2] = QueueNode(conns[pushed'[i][1]])
  BY <1>2, <1>3, <1>4, <1>6 DEF PushInv, n
<1>9. \A i, j \in 1..(n + 1) : pushed'[i][1] = pushed'[j][1] => i = j
  BY <1>2, <1>3, <1>4, <1>6 DEF PushInv, n
<1>10. ASSUME NEW c \in Conns, conns[c].st = "done", Wanted(conns[c])
       PROVE  \E i \in 1..(n + 1) : pushed'[i][1] = c
  <2>1. CASE c = mhd.conn
    BY <1>4, <1>7, <2>1
  <2>2. CASE c # mhd.conn
    BY <1>2, <1>7, <1>10, <2>2 DEF PushInv, Queued, DaemonHas, n
  <2> QED
    BY <2>1, <2>2
<1> QED
  BY <1>1, <1>2, <1>5, <1>8, <1>9, <1>10 DEF PushInv, Queued

\* Every step preserves ConnsInv and PushInv.
LEMMA AnswerStep ==
  ASSUME QueueInv, ConnsInv, PushInv, [Next]_vars
  PROVE  ConnsInv' /\ PushInv'
<1>1. ASSUME NEW c \in Conns, Handled(c), conns' = [d \in Conns |-> conns'[d]]
      PROVE  ConnsInv' /\ PushInv'
  BY <1>1, HandledKeeps DEF ConnsInv, Handled
<1>2. ASSUME NEW c \in Conns, Completed(c), conns' = [d \in Conns |-> conns'[d]]
      PROVE  ConnsInv' /\ PushInv'
  BY <1>2, CompletedKeeps DEF ConnsInv, Completed
<1>3. CASE Push
  BY <1>3, PushKeeps DEF Push, ConnsInv
<1>4. CASE LockForPush
  <2>1. /\ conns' = conns /\ pushed' = pushed /\ mhd.at # "idle" /\ mhd'.at # "idle"
        /\ mhd'.conn = mhd.conn /\ mhd'.node = mhd.node
    BY <1>4 DEF LockForPush, QueueInv, QueueTypes
  <2> QED
    BY <2>1 DEF ConnsInv, PushInv, Queued, DaemonHas
<1>5. CASE UNCHANGED <<conns, mhd, pushed>>
  BY <1>5 DEF ConnsInv, PushInv, Queued, DaemonHas
<1> QED
  BY <1>1, <1>2, <1>3, <1>4, <1>5, ConnectStep, UploadStep, PassOverStep, SendStep, CompleteStep, QuietStep

\* They hold when crawlerd starts.
LEMMA ConnsInit == Init => ConnsInv /\ PushInv
<1> SUFFICES ASSUME Init PROVE ConnsInv /\ PushInv
  OBVIOUS
<1>1. ConnOK(NoConn)
  BY DEF ConnOK, Shape, Told, NoConn
<1>2. conns = [c \in Conns |-> NoConn] /\ pushed = <<>> /\ mhd.at = "idle"
  BY DEF Init, IdleMhd
<1>3. NoConn.st # "done"
  BY DEF NoConn
<1>4. IsSeq(pushed) /\ Len(pushed) = 0
  BY <1>2 DEF IsSeq
<1> QED
  BY <1>1, <1>2, <1>3, <1>4 DEF ConnsInv, PushInv, Queued, DaemonHas

\* A client that was shown the answer page has one node in the queue, with the last
\* url and count it gave and all its exclusions if libmicrohttpd handed over every
\* value whole and the exclusions had places, and one that was shown another page has
\* none, for any requests, any
\* bound on the exclusions, and however connections, values in pieces, other faults
\* and the stop of the daemon interleave.
THEOREM AnsweredIsQueuedCorrect == Spec => []AnsweredIsQueued
<1>1. ConnsInv /\ PushInv => AnsweredIsQueued
  <2> SUFFICES ASSUME ConnsInv, PushInv, NEW c \in Conns
               PROVE  LET queued == { i \in DOMAIN pushed : pushed[i][1] = c }
                      IN  /\ \A i, j \in queued : i = j
                          /\ conns[c].st # "done" => queued = {}
                          /\ conns[c].sent \in {"askpage", "errorpage"} => queued = {}
                          /\ (conns[c].sent = "answerpage" /\ conns[c].st = "done" /\ ~DaemonHas(c)) =>
                               \E i \in queued : conns[c].pieces = {} => AsksFor(conns[c].req, pushed[i][2])
    BY DEF AnsweredIsQueued, DaemonHas
  <2>1. DOMAIN pushed = 1..Len(pushed)
    BY DEF PushInv, IsSeq
  <2>2. ConnOK(conns[c])
    BY DEF ConnsInv
  <2>3. ASSUME conns[c].sent = "answerpage", conns[c].st = "done"
        PROVE  Wanted(conns[c]) /\ (conns[c].pieces = {} => AsksFor(conns[c].req, QueueNode(conns[c])))
    <3>1. Wanted(conns[c]) /\ Holds(conns[c]) /\ conns[c].pos = Len(conns[c].req.fields)
      BY <2>2, <2>3 DEF ConnOK, Told
    <3>2. /\ QueueNode(conns[c]).urlstart = conns[c].urlstart
          /\ QueueNode(conns[c]).dontcrawl = conns[c].dontcrawl
          /\ QueueNode(conns[c]).count = IF conns[c].count # 0 THEN conns[c].count ELSE -1
      BY DEF QueueNode
    <3> QED
      BY <3>1, <3>2 DEF Holds, AsFields, AsksFor
  <2>4. conns[c].sent \in {"askpage", "errorpage"} => ~Wanted(conns[c])
    BY <2>2 DEF ConnOK, Told
  <2> QED
    BY <2>1, <2>3, <2>4 DEF PushInv, Queued
<1> QED
  BY <1>1, ConnsInit, QueueInit, QueueStep, AnswerStep, PTL DEF Spec

-----------------------------------------------------------------------------
(***************************************************************************)
(* Pages and their links.                                                  *)
(***************************************************************************)
\* getUrl changes the reference of a URL only.
LEMMA GetUrlIs ==
  ASSUME NEW u, IsUrl(u)
  PROVE  /\ getUrl(u).host = u.host /\ getUrl(u).path = u.path /\ getUrl(u).query = u.query
         /\ IsUrl(getUrl(u))
<1>1. PICK h, pa, q, f : u = [host |-> h, path |-> pa, query |-> q, ref |-> f]
  BY DEF IsUrl
<1>2. u.host = h /\ u.path = pa /\ u.query = q /\ pa \in Seq(ToSet(pa)) /\ pa # <<>>
  BY <1>1 DEF IsUrl
<1> DEFINE v == getUrl(u)
<1>e. PICK e : getUrl(u) = [u EXCEPT !.ref = e]
  BY Zenon DEF getUrl
<1>3. v = [host |-> h, path |-> pa, query |-> q, ref |-> e]
  BY <1>1, <1>e
<1> HIDE DEF v
<1>4. v.host = h /\ v.path = pa /\ v.query = q /\ v.ref = e
  BY <1>3
<1>5. IsUrl(v)
  BY <1>2, <1>3, <1>4 DEF IsUrl
<1> QED
  BY <1>2, <1>4, <1>5 DEF v

\* A text of a page is made of its items.
PageOK(p) ==
  /\ p = [url |-> p.url, header |-> p.header, content |-> p.content, downloaded |-> p.downloaded]
  /\ p.url \in URLs /\ p.content \in Seq(ToSet(Web[p.url].body))

\* A new page of a URL of the site is in order.
LEMMA NewPageIs ==
  ASSUME NEW u, IsUrl(u), getUrl(u) \in URLs
  PROVE  /\ PageOK(NewPage(u)) /\ NewPage(u).url = getUrl(u) /\ NewPage(u).content = <<>>
         /\ NewPage(u).url.host = u.host
<1>1. getUrl(u).host = u.host
  BY GetUrlIs
<1>2. <<>> \in Seq(ToSet(Web[getUrl(u)].body))
  OBVIOUS
<1> QED
  BY <1>1, <1>2 DEF PageOK, NewPage

\* A download appends a part of the text, all of it if it succeeds.
LEMMA DownloadIs ==
  ASSUME NEW p, NEW body, IsSeq(body), NEW q \in downloadContent(p, body), IsSeq(p.content),
         p = [url |-> p.url, header |-> p.header, content |-> p.content, downloaded |-> p.downloaded]
  PROVE  /\ q = [url |-> p.url, header |-> q.header, content |-> q.content, downloaded |-> q.downloaded]
         /\ \E n \in 0..Len(body) : q.content = p.content \o SubSeq(body, 1, n)
         /\ q.downloaded # p.downloaded => q.content = p.content \o body
<1>1. Len(body) \in Nat /\ DOMAIN body = 1..Len(body)
  BY SeqFacts
<1>2. SubSeq(body, 1, Len(body)) = body
  <2>1. PICK S : body \in Seq(S)
    BY DEF IsSeq
  <2> QED
    BY <2>1
<1>3. CASE q = [p EXCEPT !.header = TRUE, !.content = @ \o body, !.downloaded = TRUE]
  <2>1. q = [url |-> p.url, header |-> TRUE, content |-> p.content \o body, downloaded |-> TRUE]
    BY <1>3
  <2>2. Len(body) \in 0..Len(body)
    BY <1>1
  <2> QED
    BY <1>2, <2>1, <2>2
<1>4. ASSUME NEW hn \in BOOLEAN \X (0..Len(body)),
             q = [p EXCEPT !.header = @ \/ hn[1], !.content = @ \o SubSeq(body, 1, hn[2])]
      PROVE  /\ q = [url |-> p.url, header |-> q.header, content |-> q.content, downloaded |-> q.downloaded]
             /\ \E n \in 0..Len(body) : q.content = p.content \o SubSeq(body, 1, n)
             /\ q.downloaded = p.downloaded
  <2>1. q = [url |-> p.url, header |-> p.header \/ hn[1], content |-> p.content \o SubSeq(body, 1, hn[2]),
             downloaded |-> p.downloaded]
    BY <1>4
  <2>2. hn[2] \in 0..Len(body)
    OBVIOUS
  <2> QED
    BY <2>1, <2>2
<1> QED
  BY <1>3, <1>4 DEF downloadContent

\* The text of a page of the Web is a sequence.
LEMMA BodyIs ==
  ASSUME NEW u \in URLs
  PROVE  Web[u].body \in Seq(ToSet(Web[u].body)) /\ IsSeq(Web[u].body) /\ IsUrl(u)
  BY WebAssumption DEF IsSeq

\* getContent keeps a page in order, and appends a part of its text.
LEMMA PageDownload ==
  ASSUME NEW p, PageOK(p), NEW q \in getContent(p, Web[p.url].body)
  PROVE  /\ PageOK(q) /\ q.url = p.url
         /\ q = p \/ \E n \in 0..Len(Web[p.url].body) : q.content = p.content \o SubSeq(Web[p.url].body, 1, n)
<1> DEFINE body == Web[p.url].body
<1>1. body \in Seq(ToSet(body)) /\ IsSeq(body) /\ p.content \in Seq(ToSet(body)) /\ IsSeq(p.content)
  BY BodyIs DEF PageOK, IsSeq
<1>2. CASE q = p
  BY <1>2
<1>3. CASE q \in downloadContent(p, body)
  <2> HIDE DEF body
  <2>1. /\ q = [url |-> p.url, header |-> q.header, content |-> q.content, downloaded |-> q.downloaded]
        /\ \E n \in 0..Len(body) : q.content = p.content \o SubSeq(body, 1, n)
    BY <1>1, <1>3, DownloadIs DEF PageOK
  <2>2. PICK n \in 0..Len(body) : q.content = p.content \o SubSeq(body, 1, n)
    BY <2>1
  <2>3. SubSeq(body, 1, n) \in Seq(ToSet(body))
    BY <1>1
  <2>4. q.content \in Seq(ToSet(body))
    BY <1>1, <2>2, <2>3
  <2>5. q.url = p.url
    BY <2>1
  <2> QED
    BY <2>1, <2>2, <2>4, <2>5 DEF PageOK, body
<1> QED
  BY <1>2, <1>3 DEF getContent

\* The links are URLs of the same site.
LEMMA LinksAre ==
  ASSUME NEW p, PageOK(p)
  PROVE  /\ IsSeq(getLinks(p))
         /\ \A i \in DOMAIN getLinks(p) : /\ IsUrl(getLinks(p)[i]) /\ getUrl(getLinks(p)[i]) \in URLs
                                          /\ getLinks(p)[i].host = p.url.host
<1> DEFINE places == { i \in DOMAIN p.content : p.content[i].k = "link" /\ p.content[i].v.host = p.url.host }
           links == AtPlaces(p.content, places)
<1>1. /\ IsSeq(links) /\ DOMAIN links = 1..Len(links)
      /\ \A n \in DOMAIN links : \E i \in places : links[n] = p.content[i]
  <2>1. IsSeq(p.content) /\ places \in SUBSET DOMAIN p.content
    BY DEF PageOK, IsSeq
  <2> HIDE DEF places
  <2> QED
    BY <2>1, AtPlacesIs
<1>2. getLinks(p) = [i \in DOMAIN links |-> links[i].v]
  BY DEF getLinks
<1>3. ASSUME NEW n \in DOMAIN links
      PROVE  IsUrl(links[n].v) /\ getUrl(links[n].v) \in URLs /\ links[n].v.host = p.url.host
  <2>1. PICK i \in DOMAIN p.content : links[n] = p.content[i] /\ p.content[i].k = "link" /\ p.content[i].v.host = p.url.host
    BY <1>1
  <2>2. p.content[i] \in ToSet(Web[p.url].body) /\ p.url \in URLs
    BY DEF PageOK
  <2> HIDE DEF links
  <2> QED
    BY <2>1, <2>2, WebAssumption
<1> HIDE DEF links
<1>4. Len(links) \in Nat
  BY <1>1, SeqFacts
<1>5. IsSeq(getLinks(p))
  BY <1>1, <1>2, <1>4, IsSeqFun
<1> QED
  BY <1>2, <1>3, <1>5

\* cleanupLinks keeps links that the rules allow.
LEMMA CleanLinksAre ==
  ASSUME NEW links, IsSeq(links)
  PROVE  /\ IsSeq(cleanupLinks(links))
         /\ \A n \in DOMAIN cleanupLinks(links) :
              \E i \in DOMAIN links : /\ cleanupLinks(links)[n] = links[i]
                                      /\ is_allowed_by_robots_txt(crawl.notAllowed, links[i])
<1> DEFINE P == { i \in DOMAIN links : /\ is_allowed_by_robots_txt(crawl.notAllowed, links[i])
                                       /\ getQueryable(links[i]) \notin crawl.all }
<1>1. cleanupLinks(links) = AtPlaces(links, P)
  BY DEF cleanupLinks
<1>2. P \in SUBSET DOMAIN links
  OBVIOUS
<1>3. IsSeq(AtPlaces(links, P)) /\ \A n \in DOMAIN AtPlaces(links, P) : \E i \in P : AtPlaces(links, P)[n] = links[i]
  <2> HIDE DEF P
  <2> QED
    BY <1>2, AtPlacesIs
<1> QED
  BY <1>1, <1>3

\* What is found is a list of expressions with the page they come from.
LEMMA BlocksAre ==
  ASSUME NEW text, IsSeq(text)
  PROVE  /\ IsSeq(get_math_blocks(text)) /\ IsFiniteSet(BlockEnds(text)) /\ BlockEnds(text) \subseteq Int
         /\ DOMAIN get_math_blocks(text) = 1..Cardinality(BlockEnds(text))
<1>1. DOMAIN text = 1..Len(text) /\ Len(text) \in Nat
  BY SeqFacts
<1>2. 1 \in Int /\ Len(text) \in Int
  BY <1>1
<1>3. IsFiniteSet(DOMAIN text)
  BY <1>1, <1>2, FS_Interval
<1>4. BlockEnds(text) \in SUBSET DOMAIN text
  BY DEF BlockEnds, MathTags
<1>5. IsFiniteSet(BlockEnds(text)) /\ BlockEnds(text) \subseteq Int
  <2>1. IsFiniteSet(BlockEnds(text))
    BY <1>3, <1>4, FS_Subset
  <2> QED
    BY <1>1, <1>4, <2>1
<1>6. Cardinality(BlockEnds(text)) \in Nat /\ DOMAIN InOrder(BlockEnds(text)) = 1..Cardinality(BlockEnds(text))
  BY <1>5, InOrderIs
<1>7. /\ DOMAIN get_math_blocks(text) = 1..Cardinality(BlockEnds(text))
      /\ get_math_blocks(text) = [n \in 1..Cardinality(BlockEnds(text)) |-> get_math_blocks(text)[n]]
  BY <1>6 DEF get_math_blocks
<1>8. IsSeq(get_math_blocks(text))
  BY <1>6, <1>7, IsSeqFun
<1> QED
  BY <1>5, <1>7, <1>8

\* What get_math_html finds are good blocks of the text.
LEMMA HtmlFound ==
  ASSUME NEW p, IsSeq(p.content)
  PROVE  /\ IsSeq(get_math_html(p))
         /\ \A n \in DOMAIN get_math_html(p) : \E b \in DOMAIN get_math_blocks(p.content) :
              /\ get_math_html(p)[n] = <<p.url, get_math_blocks(p.content)[b]>>
              /\ is_good_xml(get_math_blocks(p.content)[b])
<1> DEFINE blocks == get_math_blocks(p.content)
           P == { n \in DOMAIN blocks : is_good_xml(blocks[n]) }
           good == AtPlaces(blocks, P)
<1>1. IsSeq(blocks)
  BY BlocksAre
<1>2. /\ IsSeq(good) /\ DOMAIN good = 1..Len(good)
      /\ \A n \in DOMAIN good : \E b \in P : good[n] = blocks[b]
  <2>1. P \in SUBSET DOMAIN blocks
    OBVIOUS
  <2> HIDE DEF blocks, P
  <2> QED
    BY <1>1, <2>1, AtPlacesIs
<1>3. get_math_html(p) = [n \in DOMAIN good |-> <<p.url, good[n]>>]
  BY DEF get_math_html
<1>4. ASSUME NEW n \in DOMAIN good
      PROVE  \E b \in DOMAIN blocks : <<p.url, good[n]>> = <<p.url, blocks[b]>> /\ is_good_xml(blocks[b])
  <2>1. PICK b \in P : good[n] = blocks[b]
    BY <1>2
  <2> HIDE DEF good, blocks
  <2> QED
    BY <2>1
<1> HIDE DEF good
<1>5. Len(good) \in Nat
  BY <1>2, SeqFacts
<1>6. IsSeq(get_math_html(p))
  BY <1>2, <1>3, <1>5, IsSeqFun
<1> QED
  BY <1>3, <1>4, <1>6

\* What get_math_xhtml finds are math nodes of the page.
LEMMA XhtmlFound ==
  ASSUME NEW p, IsSeq(p.content)
  PROVE  /\ IsSeq(get_math_xhtml(p))
         /\ \A n \in DOMAIN get_math_xhtml(p) : \E i \in DOMAIN Web[p.url].body :
              /\ get_math_xhtml(p)[n] = <<p.url, <<Web[p.url].body[i]>>>>
              /\ Web[p.url].body[i].k = "open"
<1> DEFINE doc == get_XMLDoc(p)
           P == { i \in DOMAIN doc : doc[i].k = "open" }
           nodes == AtPlaces(doc, P)
<1>1. IsSeq(doc) /\ (doc = Web[p.url].body \/ doc = <<>>)
  BY DEF get_XMLDoc, IsSeq
<1>2. /\ IsSeq(nodes) /\ DOMAIN nodes = 1..Len(nodes)
      /\ \A n \in DOMAIN nodes : \E b \in P : nodes[n] = doc[b]
  <2>1. P \in SUBSET DOMAIN doc
    OBVIOUS
  <2> HIDE DEF doc, P
  <2> QED
    BY <1>1, <2>1, AtPlacesIs
<1>3. get_math_xhtml(p) = [n \in DOMAIN nodes |-> <<p.url, <<nodes[n]>>>>]
  BY DEF get_math_xhtml, get_XMLNodeset
<1>4. ASSUME NEW n \in DOMAIN nodes
      PROVE  \E i \in DOMAIN Web[p.url].body : nodes[n] = Web[p.url].body[i] /\ Web[p.url].body[i].k = "open"
  <2>1. PICK i \in DOMAIN doc : doc[i].k = "open" /\ nodes[n] = doc[i]
    BY <1>2
  <2>2. doc = Web[p.url].body
    BY <1>1, <2>1
  <2> HIDE DEF nodes, doc
  <2> QED
    BY <2>1, <2>2
<1> HIDE DEF nodes
<1>5. Len(nodes) \in Nat
  BY <1>2, SeqFacts
<1>6. IsSeq(get_math_xhtml(p))
  BY <1>2, <1>3, <1>5, IsSeqFun
<1> QED
  BY <1>3, <1>4, <1>6

-----------------------------------------------------------------------------
(***************************************************************************)
(* What the worker has: a node from a request, URLs of the site it starts  *)
(* on, and pages of these URLs.                                            *)
(***************************************************************************)
OnSite(u, host) == IsUrl(u) /\ getUrl(u) \in URLs /\ u.host = host

NodeOK(n) ==
  /\ n.count \in Int /\ IsSeq(n.dontcrawl) /\ \A i \in DOMAIN n.dontcrawl : IsUrl(n.dontcrawl[i])
  /\ n.urlstart # BadUrl => OnSite(n.urlstart, n.urlstart.host)

\* The node of a request is as the form is.
LEMMA RequestNode ==
  ASSUME NEW con, Holds(con), con.urlstart # NoUrl
  PROVE  NodeOK(QueueNode(con))
<1>1. ValidForm(con) /\ (con.urlstart = BadUrl \/ (IsUrl(con.urlstart) /\ getUrl(con.urlstart) \in URLs))
  BY DEF Holds, ValidForm, IsStart
<1>2. /\ QueueNode(con).urlstart = con.urlstart /\ QueueNode(con).dontcrawl = con.dontcrawl
      /\ QueueNode(con).count = IF con.count # 0 THEN con.count ELSE -1
  BY DEF QueueNode
<1> QED
  BY <1>1, <1>2 DEF NodeOK, OnSite, ValidForm

PageStates == {"isXHTML", "isHTML", "isXHTML2", "isHTML2", "math", "extract", "links"}

CrawlStates == PageStates \cup {"loop"}

CrawlTypes ==
  /\ crawl = [complete |-> crawl.complete, max |-> crawl.max, notAllowed |-> crawl.notAllowed,
              all |-> crawl.all, urls |-> crawl.urls, visited |-> crawl.visited, math |-> crawl.math]
  /\ IsSeq(crawl.urls) /\ IsSeq(crawl.visited) /\ IsSeq(crawl.math)

NodesInv ==
  /\ \A i \in DOMAIN queue : NodeOK(queue[i])
  /\ worker \in {"lock", "pop", "setup"} \cup CrawlStates => NodeOK(node)

SiteInv ==
  /\ worker \in CrawlStates => node.urlstart # BadUrl
  /\ worker \in CrawlStates => \A i \in DOMAIN crawl.urls : OnSite(crawl.urls[i], node.urlstart.host)
  /\ worker \in PageStates => PageOK(page) /\ page.url.host = node.urlstart.host

CrawlInv == CrawlTypes /\ NodesInv /\ SiteInv

\* A crawl that is changed in some of its fields.
Crawl(complete, max, notAllowed, all, urls, visited, math) ==
  [complete |-> complete, max |-> max, notAllowed |-> notAllowed, all |-> all, urls |-> urls,
   visited |-> visited, math |-> math]

\* The fields of a crawl.
LEMMA CrawlRecord ==
  ASSUME NEW complete, NEW max, NEW notAllowed, NEW all, NEW urls, NEW visited, NEW math, NEW c,
         c = Crawl(complete, max, notAllowed, all, urls, visited, math)
  PROVE  /\ c = [complete |-> c.complete, max |-> c.max, notAllowed |-> c.notAllowed,
                 all |-> c.all, urls |-> c.urls, visited |-> c.visited, math |-> c.math]
         /\ c.complete = complete /\ c.max = max /\ c.notAllowed = notAllowed /\ c.all = all
         /\ c.urls = urls /\ c.visited = visited /\ c.math = math
  BY DEF Crawl

\* Push queues a node of a request.
LEMMA QueueKeepsNodes ==
  ASSUME QueueInv, ConnsInv, PushInv, NodesInv, Push
  PROVE  \A i \in DOMAIN queue' : NodeOK(queue'[i])
<1>1. mhd.at # "idle" /\ queue' = Append(queue, mhd.node) /\ IsSeq(queue)
  BY DEF Push, QueueInv, QueueTypes
<1>2. NodeOK(mhd.node)
  <2>1. mhd.conn \in Conns /\ Wanted(conns[mhd.conn]) /\ mhd.node = QueueNode(conns[mhd.conn])
        /\ conns[mhd.conn].st = "done"
    BY <1>1 DEF PushInv
  <2>2. Holds(conns[mhd.conn])
    BY <2>1 DEF ConnsInv, ConnOK
  <2> QED
    BY <2>1, <2>2, RequestNode DEF Wanted
<1>3. /\ IsSeq(queue') /\ Len(queue) \in Nat /\ Len(queue') = Len(queue) + 1
      /\ queue'[Len(queue) + 1] = mhd.node /\ \A i \in 1..Len(queue) : queue'[i] = queue[i]
  BY <1>1, Longer
<1>4. DOMAIN queue' = 1..(Len(queue) + 1) /\ DOMAIN queue = 1..Len(queue)
  BY <1>1, <1>3, SeqFacts
<1>5. \A i \in 1..(Len(queue) + 1) : i = Len(queue) + 1 \/ i \in 1..Len(queue)
  BY <1>3
<1> QED
  BY <1>2, <1>3, <1>4, <1>5 DEF NodesInv

\* Taking a node from the queue leaves nodes of requests.
LEMMA TailKeepsNodes ==
  ASSUME QueueInv, NodesInv, queue # <<>>, queue' = Tail(queue)
  PROVE  \A i \in DOMAIN queue' : NodeOK(queue'[i])
<1>1. PICK S : queue \in Seq(S)
  BY DEF QueueInv, QueueTypes, IsSeq
<1>2. ASSUME NEW i \in DOMAIN Tail(queue) PROVE i + 1 \in DOMAIN queue /\ Tail(queue)[i] = queue[i + 1]
  BY <1>1
<1> QED
  BY <1>2 DEF NodesInv

\* The front of the queue is a node of a request.
LEMMA HeadNode ==
  ASSUME QueueInv, NodesInv, queue # <<>>
  PROVE  NodeOK(Head(queue))
<1>1. PICK S : queue \in Seq(S)
  BY DEF QueueInv, QueueTypes, IsSeq
<1>2. 1 \in DOMAIN queue /\ Head(queue) = queue[1]
  BY <1>1
<1> QED
  BY <1>2 DEF NodesInv

\* The fields of the crawl after each step that changes it.
LEMMA SetUpIs ==
  ASSUME SetUp
  PROVE  \E robots \in downloadContent(NewPage(node.urlstart), Robots) : \E all :
           /\ crawl' = Crawl(robots.downloaded, IF node.count >= 0 THEN node.count ELSE INT_MAX,
                             rulesOf(robots.content), all, <<node.urlstart>>, <<>>, <<>>)
<1>1. PICK robots \in downloadContent(NewPage(node.urlstart), Robots) :
       crawl' = [NewCrawl EXCEPT
            !.complete = robots.downloaded,
            !.max = IF node.count >= 0 THEN node.count ELSE INT_MAX,
            !.notAllowed = rulesOf(robots.content),
            !.all = {getQueryable(node.urlstart)},
            !.urls = <<node.urlstart>>]
  BY DEF SetUp
<1> DEFINE a == robots.downloaded
           b == IF node.count >= 0 THEN node.count ELSE INT_MAX
           c == rulesOf(robots.content)
           d == {getQueryable(node.urlstart)}
           e == <<node.urlstart>>
<1>2. crawl' = [NewCrawl EXCEPT !.complete = a, !.max = b, !.notAllowed = c, !.all = d, !.urls = e]
  BY <1>1
<1> HIDE DEF a, b, c, d, e
<1>3. crawl' = Crawl(a, b, c, d, e, <<>>, <<>>)
  BY <1>2 DEF Crawl, NewCrawl, NoCrawl
<1> QED
  BY <1>3 DEF a, b, c, e

\* NextUrl moves the first URL to the visited ones.
LEMMA NextUrlIs ==
  ASSUME CrawlTypes, NextUrl
  PROVE  crawl' = Crawl(crawl.complete, crawl.max, crawl.notAllowed, crawl.all, Tail(crawl.urls),
                        Append(crawl.visited, getUrl(Head(crawl.urls))), crawl.math)
<1> DEFINE a == getUrl(Head(crawl.urls))
<1>1. crawl' = [crawl EXCEPT !.urls = Tail(@), !.visited = Append(@, a)]
  BY DEF NextUrl
<1> HIDE DEF a
<1>2. crawl' = Crawl(crawl.complete, crawl.max, crawl.notAllowed, crawl.all, Tail(crawl.urls),
                     Append(crawl.visited, a), crawl.math)
  BY <1>1 DEF CrawlTypes, Crawl
<1> QED
  BY <1>2 DEF a

\* FollowLinks appends the links that are left.
LEMMA FollowLinksIs ==
  ASSUME CrawlTypes, FollowLinks
  PROVE  \E p \in getContent(page, Web[page.url].body) : \E all :
           crawl' = Crawl(crawl.complete, crawl.max, crawl.notAllowed, all,
                          crawl.urls \o cleanupLinks(getLinks(p)), crawl.visited, crawl.math)
<1>1. PICK p \in getContent(page, Web[page.url].body) :
        crawl' = [crawl EXCEPT !.urls = @ \o cleanupLinks(getLinks(p)),
                        !.all = @ \cup { getQueryable(u) : u \in ToSet(cleanupLinks(getLinks(p))) }]
  BY DEF FollowLinks
<1> DEFINE a == cleanupLinks(getLinks(p))
           b == { getQueryable(u) : u \in ToSet(cleanupLinks(getLinks(p))) }
<1>2. crawl' = [crawl EXCEPT !.urls = @ \o a, !.all = @ \cup b]
  BY <1>1
<1> HIDE DEF a, b
<1>3. crawl' = Crawl(crawl.complete, crawl.max, crawl.notAllowed, crawl.all \cup b,
                     crawl.urls \o a, crawl.visited, crawl.math)
  BY <1>2 DEF CrawlTypes, Crawl
<1> QED
  BY <1>3 DEF a

\* The fields of the crawl after a step.
LEMMA CrawlIs ==
  ASSUME NEW complete, NEW max, NEW notAllowed, NEW all, NEW urls, NEW visited, NEW math,
         crawl' = Crawl(complete, max, notAllowed, all, urls, visited, math),
         IsSeq(urls), IsSeq(visited), IsSeq(math)
  PROVE  /\ CrawlTypes'
         /\ crawl'.complete = complete /\ crawl'.max = max /\ crawl'.notAllowed = notAllowed
         /\ crawl'.urls = urls /\ crawl'.visited = visited /\ crawl'.math = math
<1>1. PICK c : c = crawl'
  OBVIOUS
<1>2. /\ c = [complete |-> c.complete, max |-> c.max, notAllowed |-> c.notAllowed,
              all |-> c.all, urls |-> c.urls, visited |-> c.visited, math |-> c.math]
      /\ c.complete = complete /\ c.max = max /\ c.notAllowed = notAllowed
      /\ c.urls = urls /\ c.visited = visited /\ c.math = math
  BY <1>1, CrawlRecord
<1> QED
  BY <1>1, <1>2 DEF CrawlTypes

\* What the page gives, and what is kept of it.
Found == IF isXHTML(page) THEN get_math_xhtml(page) ELSE get_math_html(page)

Full == Len(crawl.math \o Found) >= MathPackLimit

\* ExtractMath changes the expressions only.
LEMMA ExtractIs ==
  ASSUME CrawlTypes, ExtractMath
  PROVE  crawl' = Crawl(crawl.complete, crawl.max, crawl.notAllowed, crawl.all, crawl.urls, crawl.visited,
                        IF Full THEN <<>> ELSE crawl.math \o Found)
<1> DEFINE a == IF Full THEN <<>> ELSE crawl.math \o Found
<1>1. crawl' = [crawl EXCEPT !.math = a]
  BY DEF ExtractMath, addMath, Found, Full
<1> HIDE DEF a
<1>2. crawl' = Crawl(crawl.complete, crawl.max, crawl.notAllowed, crawl.all, crawl.urls, crawl.visited, a)
  BY <1>1 DEF CrawlTypes, Crawl
<1> QED
  BY <1>2 DEF a

\* FinishCrawl clears the crawl.
LEMMA FinishIs ==
  ASSUME crawl' = NoCrawl
  PROVE  crawl' = Crawl(TRUE, 0, {}, {}, <<>>, <<>>, <<>>)
  BY DEF NoCrawl, Crawl

\* What a page gives is a sequence.
LEMMA FoundIsSeq ==
  ASSUME PageOK(page)
  PROVE  IsSeq(Found)
<1>1. IsSeq(page.content)
  BY DEF PageOK, IsSeq
<1> QED
  BY <1>1, HtmlFound, XhtmlFound DEF Found

\* The parts of CrawlInv, step by step.
LEMMA StartCrawl ==
  ASSUME CrawlInv, SetUp
  PROVE  CrawlInv'
<1>1. /\ worker = "setup" /\ worker' = "loop" /\ node.urlstart # BadUrl
      /\ UNCHANGED <<queue, node, page>>
  BY DEF SetUp
<1>2. NodeOK(node) /\ OnSite(node.urlstart, node.urlstart.host)
  BY <1>1 DEF CrawlInv, NodesInv, NodeOK
<1>3. PICK a, b, c, d : crawl' = Crawl(a, b, c, d, <<node.urlstart>>, <<>>, <<>>)
  BY SetUpIs
<1>4. CrawlTypes' /\ crawl'.urls = <<node.urlstart>>
  <2>1. IsSeq(<<>>) /\ IsSeq(<<node.urlstart>>)
    <3>1. <<node.urlstart>> \in Seq({node.urlstart})
      OBVIOUS
    <3> QED
      BY <3>1, TimesNone DEF IsSeq
  <2>2. PICK u, e : u = <<node.urlstart>> /\ e = <<>>
    OBVIOUS
  <2>3. crawl' = Crawl(a, b, c, d, u, e, e)
    BY <1>3, <2>2
  <2> QED
    BY <2>1, <2>2, <2>3, CrawlIs
<1>5. \A i \in DOMAIN crawl'.urls : OnSite(crawl'.urls[i], node.urlstart.host)
  BY <1>2, <1>4
<1> QED
  BY <1>1, <1>2, <1>4, <1>5 DEF CrawlInv, NodesInv, SiteInv, CrawlStates, PageStates

\* NextUrl preserves CrawlInv.
LEMMA VisitNext ==
  ASSUME CrawlInv, NextUrl
  PROVE  CrawlInv'
<1>1. /\ worker = "loop" /\ worker' = "isXHTML" /\ crawl.urls # <<>>
      /\ page' = NewPage(Head(crawl.urls)) /\ UNCHANGED <<queue, node>>
  BY DEF NextUrl
<1>2. /\ CrawlTypes /\ node.urlstart # BadUrl /\ NodeOK(node)
      /\ \A i \in DOMAIN crawl.urls : OnSite(crawl.urls[i], node.urlstart.host)
  BY <1>1 DEF CrawlInv, SiteInv, NodesInv, CrawlStates
<1>3. PICK S : crawl.urls \in Seq(S)
  BY <1>2 DEF CrawlTypes, IsSeq
<1>4. /\ 1 \in DOMAIN crawl.urls /\ Head(crawl.urls) = crawl.urls[1] /\ IsSeq(Tail(crawl.urls))
      /\ \A i \in DOMAIN Tail(crawl.urls) : i + 1 \in DOMAIN crawl.urls /\ Tail(crawl.urls)[i] = crawl.urls[i + 1]
  BY <1>1, <1>3 DEF IsSeq
<1>5. OnSite(Head(crawl.urls), node.urlstart.host)
  BY <1>2, <1>4
<1>6. PageOK(page') /\ page'.url.host = node.urlstart.host
  BY <1>1, <1>5, NewPageIs DEF OnSite
<1>7. CrawlTypes' /\ crawl'.urls = Tail(crawl.urls)
  <2>1. PICK u, v : u = Tail(crawl.urls) /\ v = Append(crawl.visited, getUrl(Head(crawl.urls)))
    OBVIOUS
  <2>2. IsSeq(v)
    BY <1>2, <2>1, Longer DEF CrawlTypes
  <2>3. crawl' = Crawl(crawl.complete, crawl.max, crawl.notAllowed, crawl.all, u, v, crawl.math)
    BY <1>2, <2>1, NextUrlIs
  <2> QED
    <3>1. IsSeq(u) /\ IsSeq(crawl.math)
      BY <1>2, <1>4, <2>1 DEF CrawlTypes
    <3> QED
      BY <2>1, <2>2, <2>3, <3>1, CrawlIs
<1>8. \A i \in DOMAIN crawl'.urls : OnSite(crawl'.urls[i], node.urlstart.host)
  BY <1>2, <1>4, <1>7
<1> QED
  BY <1>1, <1>2, <1>6, <1>7, <1>8 DEF CrawlInv, NodesInv, SiteInv, CrawlStates, PageStates

\* So do the steps that download.
LEMMA FetchPage ==
  ASSUME CrawlInv, AskType \/ FetchForMath
  PROVE  CrawlInv'
<1>1. /\ worker \in PageStates /\ worker' \in PageStates
      /\ UNCHANGED <<queue, node, crawl>>
      /\ page' \in getContent(page, Web[page.url].body)
  <2>1. CASE AskType
    BY <2>1 DEF AskType, AfterQuestion, PageStates
  <2>2. CASE FetchForMath
    BY <2>2 DEF FetchForMath, PageStates, getContent
  <2> QED
    BY <2>1, <2>2
<1>2. PageOK(page) /\ page.url.host = node.urlstart.host /\ NodeOK(node)
  BY <1>1 DEF CrawlInv, SiteInv, NodesInv, CrawlStates
<1>3. PageOK(page') /\ page'.url = page.url
  BY <1>1, <1>2, PageDownload
<1> QED
  BY <1>1, <1>2, <1>3 DEF CrawlInv, CrawlTypes, NodesInv, SiteInv, CrawlStates

\* So does ExtractMath.
LEMMA TakeMath ==
  ASSUME CrawlInv, ExtractMath
  PROVE  CrawlInv'
<1>1. /\ worker \in PageStates /\ worker' = "links"
      /\ UNCHANGED <<queue, node, page>>
  BY DEF ExtractMath, PageStates
<1>2. PageOK(page) /\ page.url.host = node.urlstart.host /\ NodeOK(node) /\ CrawlTypes
  BY <1>1 DEF CrawlInv, SiteInv, NodesInv, CrawlStates
<1>3. PICK m : m = IF Full THEN <<>> ELSE crawl.math \o Found
  OBVIOUS
<1>4. IsSeq(m)
  BY <1>2, <1>3, FoundIsSeq, Joined, TimesNone DEF CrawlTypes
<1>5. crawl' = Crawl(crawl.complete, crawl.max, crawl.notAllowed, crawl.all, crawl.urls, crawl.visited, m)
  BY <1>2, <1>3, ExtractIs
<1>6. CrawlTypes' /\ crawl'.urls = crawl.urls
  <2>1. IsSeq(crawl.visited) /\ IsSeq(crawl.urls)
    BY <1>2 DEF CrawlTypes
  <2> QED
    BY <1>4, <1>5, <2>1, CrawlIs
<1> QED
  BY <1>1, <1>2, <1>6 DEF CrawlInv, NodesInv, SiteInv, CrawlStates, PageStates

\* So does FollowLinks, as links lead to pages of the same site.
LEMMA AddLinks ==
  ASSUME CrawlInv, FollowLinks
  PROVE  CrawlInv'
<1>1. /\ worker = "links" /\ worker' = "loop" /\ UNCHANGED <<queue, node>>
  BY DEF FollowLinks
<1>2. /\ PageOK(page) /\ page.url.host = node.urlstart.host /\ NodeOK(node) /\ CrawlTypes
      /\ node.urlstart # BadUrl /\ \A i \in DOMAIN crawl.urls : OnSite(crawl.urls[i], node.urlstart.host)
  BY <1>1 DEF CrawlInv, SiteInv, NodesInv, CrawlStates, PageStates
<1>3. PICK p \in getContent(page, Web[page.url].body) : \E all :
           crawl' = Crawl(crawl.complete, crawl.max, crawl.notAllowed, all,
                          crawl.urls \o cleanupLinks(getLinks(p)), crawl.visited, crawl.math)
  BY <1>2, FollowLinksIs
<1>a. PICK all : crawl' = Crawl(crawl.complete, crawl.max, crawl.notAllowed, all,
                                crawl.urls \o cleanupLinks(getLinks(p)), crawl.visited, crawl.math)
  BY <1>3
<1>4. PageOK(p) /\ p.url = page.url
  BY <1>2, PageDownload
<1> DEFINE new == cleanupLinks(getLinks(p))
<1>5. /\ IsSeq(getLinks(p))
      /\ \A i \in DOMAIN getLinks(p) : OnSite(getLinks(p)[i], node.urlstart.host)
  BY <1>2, <1>4, LinksAre DEF OnSite
<1>6. IsSeq(new) /\ \A n \in DOMAIN new : OnSite(new[n], node.urlstart.host)
  BY <1>5, CleanLinksAre
<1> HIDE DEF new
<1>7. CrawlTypes' /\ crawl'.urls = crawl.urls \o new
  <2>1. PICK u : u = crawl.urls \o new
    OBVIOUS
  <2>2. IsSeq(u)
    BY <1>2, <1>6, <2>1, Joined DEF CrawlTypes
  <2>3. crawl' = Crawl(crawl.complete, crawl.max, crawl.notAllowed, all, u, crawl.visited, crawl.math)
    BY <1>a, <2>1 DEF new
  <2> QED
    <3>1. IsSeq(crawl.visited) /\ IsSeq(crawl.math)
      BY <1>2 DEF CrawlTypes
    <3>2. CrawlTypes' /\ crawl'.urls = u
      BY <2>2, <2>3, <3>1, CrawlIs, Zenon
    <3> QED
      BY <2>1, <3>2
<1>8. ASSUME NEW i \in DOMAIN (crawl.urls \o new) PROVE OnSite((crawl.urls \o new)[i], node.urlstart.host)
  <2>1. IsSeq(crawl.urls) /\ IsSeq(new)
    BY <1>2, <1>6 DEF CrawlTypes
  <2>2. /\ Len(crawl.urls) \in Nat /\ Len(new) \in Nat /\ DOMAIN crawl.urls = 1..Len(crawl.urls)
        /\ DOMAIN new = 1..Len(new) /\ IsSeq(crawl.urls \o new) /\ Len(crawl.urls \o new) = Len(crawl.urls) + Len(new)
    BY <2>1, SeqFacts, Joined
  <2>3. i \in 1..(Len(crawl.urls) + Len(new))
    BY <2>2, SeqFacts
  <2>4. i \in 1..Len(crawl.urls) \/ i - Len(crawl.urls) \in 1..Len(new)
    BY <2>2, <2>3
  <2>5. CASE i \in 1..Len(crawl.urls)
    BY <1>2, <2>1, <2>2, <2>5, Joined
  <2>6. CASE i - Len(crawl.urls) \in 1..Len(new)
    <3>1. PICK j \in 1..Len(new) : i = Len(crawl.urls) + j
      BY <2>2, <2>3, <2>6
    <3>2. (crawl.urls \o new)[i] = new[j]
      BY <2>1, <3>1, Joined
    <3> QED
      BY <1>6, <2>2, <3>2
  <2> QED
    BY <2>4, <2>5, <2>6
<1> QED
  BY <1>1, <1>2, <1>7, <1>8 DEF CrawlInv, NodesInv, SiteInv, CrawlStates, PageStates

\* So does FinishCrawl.
LEMMA EndCrawl ==
  ASSUME CrawlInv, FinishCrawl
  PROVE  CrawlInv'
<1>1. worker' = "empty" /\ crawl' = NoCrawl /\ UNCHANGED <<queue, node>>
  BY DEF FinishCrawl
<1>2. PICK e : e = <<>>
  OBVIOUS
<1>3. crawl' = Crawl(TRUE, 0, {}, {}, e, e, e) /\ IsSeq(e)
  BY <1>1, <1>2, FinishIs, TimesNone
<1>4. CrawlTypes'
  BY <1>3, CrawlIs
<1> QED
  BY <1>1, <1>4 DEF CrawlInv, NodesInv, SiteInv, CrawlStates, PageStates

\* Every step preserves CrawlInv.
LEMMA CrawlStep ==
  ASSUME QueueInv, ConnsInv, PushInv, CrawlInv, [Next]_vars
  PROVE  CrawlInv'
<1>1. CASE UNCHANGED <<worker, node, crawl, page>> /\ (queue' = queue \/ Push \/ EmptyQueue)
  <2>1. \A i \in DOMAIN queue' : NodeOK(queue'[i])
    BY <1>1, QueueKeepsNodes, TailKeepsNodes DEF CrawlInv, NodesInv, EmptyQueue
  <2> QED
    BY <1>1, <2>1 DEF CrawlInv, CrawlTypes, NodesInv, SiteInv
<1>2. CASE DaemonStep
  <2>1. UNCHANGED <<worker, node, crawl, page>> /\ (queue' = queue \/ Push)
    BY <1>2 DEF DaemonStep, Connect, Upload, UploadPiece, PassOver, Receive, SendPage, Complete, LockForPush, Push
  <2> QED
    BY <1>1, <2>1
<1>3. CASE NoTags \/ MainStep \/ EmptyQueue \/ Exit \/ Tick \/ UNCHANGED vars
  <2>1. UNCHANGED <<worker, node, crawl, page>> /\ (queue' = queue \/ EmptyQueue)
    BY <1>3 DEF NoTags, MainStep, EmptyQueue, Exit, Tick, vars
  <2> QED
    BY <1>1, <2>1
<1>4. CASE WakeWorker \/ LockForPop \/ SetUpInvalid
  <2>1. UNCHANGED <<node, crawl, page, queue>> /\ (worker' \in {"front", "empty", "crashed"} \/ (worker = "lock" /\ worker' = "pop"))
    <3>1. CASE WakeWorker
      BY <3>1 DEF WakeWorker
    <3>2. CASE LockForPop
      BY <3>2 DEF LockForPop
    <3>3. CASE SetUpInvalid
      BY <3>3 DEF SetUpInvalid
    <3> QED
      BY <1>4, <3>1, <3>2, <3>3
  <2> QED
    BY <2>1 DEF CrawlInv, CrawlTypes, NodesInv, SiteInv, CrawlStates, PageStates
<1>5. CASE FrontOfQueue
  <2>1. /\ UNCHANGED <<crawl, page, queue>>
        /\ \/ worker' = "crashed"
           \/ worker' = "lock" /\ node' = Head(queue) /\ queue # <<>>
    BY <1>5 DEF FrontOfQueue
  <2>2. worker' = "lock" => NodeOK(node')
    BY <2>1, HeadNode DEF CrawlInv
  <2> QED
    BY <2>1, <2>2 DEF CrawlInv, CrawlTypes, NodesInv, SiteInv, CrawlStates, PageStates
<1>6. CASE PopQueue
  <2>1. /\ UNCHANGED <<crawl, page, node>> /\ worker = "pop"
        /\ \/ worker' = "crashed" /\ queue' = queue
           \/ worker' = "setup" /\ queue # <<>> /\ queue' = Tail(queue)
    BY <1>6 DEF PopQueue
  <2>2. \A i \in DOMAIN queue' : NodeOK(queue'[i])
    BY <2>1, TailKeepsNodes DEF CrawlInv, NodesInv
  <2> QED
    BY <2>1, <2>2 DEF CrawlInv, CrawlTypes, NodesInv, SiteInv, CrawlStates, PageStates
<1> QED
  BY <1>2, <1>3, <1>4, <1>5, <1>6, StartCrawl, VisitNext, FetchPage, TakeMath, AddLinks, EndCrawl
  DEF Next, WorkerStep

-----------------------------------------------------------------------------
(***************************************************************************)
(* The expressions found.  They are counted: in memory, in the files and   *)
(* among those that were lost.                                             *)
(***************************************************************************)

\* The places of e in one file.
StoredIn(t, e, s) == {t} \X Places(e, s)

\* The places of e in one file are as many as e is in it.
LEMMA StoredInCounts ==
  ASSUME NEW t, NEW e, NEW s, IsSeq(s)
  PROVE  IsFiniteSet(StoredIn(t, e, s)) /\ Cardinality(StoredIn(t, e, s)) = Times(e, s) /\ Times(e, s) \in Nat
<1>1. IsFiniteSet(Places(e, s)) /\ Times(e, s) = Cardinality(Places(e, s)) /\ Times(e, s) \in Nat
  BY TimesIs
<1>2. IsFiniteSet({t}) /\ Cardinality({t}) = 1
  BY FS_Singleton
<1>3. IsFiniteSet({t} \X Places(e, s)) /\ Cardinality({t} \X Places(e, s)) = Cardinality({t}) * Cardinality(Places(e, s))
  BY <1>1, <1>2, FS_Product
<1>4. PICK n \in Nat : n = Times(e, s)
  BY <1>1
<1>5. Cardinality({t} \X Places(e, s)) = 1 * n /\ 1 * n = n
  BY <1>1, <1>2, <1>3, <1>4
<1> QED
  BY <1>1, <1>3, <1>4, <1>5 DEF StoredIn

\* A set of which a part is exchanged for another.
LEMMA Exchange ==
  ASSUME NEW S, NEW T, NEW A, NEW B, IsFiniteSet(S), IsFiniteSet(A), IsFiniteSet(B),
         A \subseteq S, T = (S \ A) \cup B, (S \ A) \cap B = {}
  PROVE  /\ IsFiniteSet(T)
         /\ Cardinality(T) + Cardinality(A) = Cardinality(S) + Cardinality(B)
         /\ Cardinality(T) \in Nat /\ Cardinality(S) \in Nat
<1>1. IsFiniteSet(S \ A) /\ Cardinality(S \ A) = Cardinality(S) - Cardinality(S \cap A) /\ S \cap A = A
  BY FS_Difference
<1>2. IsFiniteSet(T) /\ Cardinality(T) = Cardinality(S \ A) + Cardinality(B) - Cardinality((S \ A) \cap B)
  BY <1>1, FS_Union
<1>3. Cardinality((S \ A) \cap B) = 0
  BY FS_EmptySet, Zenon
<1>4. PICK s \in Nat, a \in Nat, b \in Nat, t \in Nat, d \in Nat :
        /\ s = Cardinality(S) /\ a = Cardinality(A) /\ b = Cardinality(B) /\ t = Cardinality(T)
        /\ d = Cardinality(S \ A)
  BY <1>1, <1>2, FS_CardinalityType
<1>5. d = s - a /\ t = d + b - 0
  BY <1>1, <1>2, <1>3, <1>4
<1>6. t + a = s + b
  BY <1>5
<1> QED
  BY <1>2, <1>4, <1>6

InFile(t) == IF t \in DOMAIN files THEN files[t] ELSE <<>>

\* The places of e in all files are its places in each.
LEMMA StoredIs ==
  ASSUME NEW e, NEW F, NEW S, S = UNION { {t} \X { i \in DOMAIN F[t] : F[t][i] = e } : t \in DOMAIN F }
  PROVE  \A x : x \in S <=> \E t \in DOMAIN F : x \in StoredIn(t, e, F[t])
  BY DEF StoredIn, Places

\* storeMath writes one file anew.
LEMMA StoreCounts ==
  ASSUME NEW math, IsSeq(math), \A t \in DOMAIN files : IsSeq(files[t]), NEW e, IsFiniteSet(Stored(e)),
         files' = [t \in DOMAIN files \cup {now} |-> IF t = now THEN math ELSE files[t]]
  PROVE  /\ IsFiniteSet(Stored(e)')
         /\ Cardinality(Stored(e)') + Times(e, InFile(now)) = Cardinality(Stored(e)) + Times(e, math)
         /\ Cardinality(Stored(e)') \in Nat /\ Cardinality(Stored(e)) \in Nat
         /\ Times(e, InFile(now)) \in Nat /\ Times(e, math) \in Nat
<1> DEFINE S == Stored(e)
           T == Stored(e)'
           A == StoredIn(now, e, InFile(now))
           B == StoredIn(now, e, math)
<1>1. IsSeq(InFile(now))
  BY TimesNone DEF InFile
<1>2. /\ IsFiniteSet(A) /\ Cardinality(A) = Times(e, InFile(now)) /\ Times(e, InFile(now)) \in Nat
      /\ IsFiniteSet(B) /\ Cardinality(B) = Times(e, math) /\ Times(e, math) \in Nat
  BY <1>1, StoredInCounts
<1>3. \A x : x \in S <=> \E t \in DOMAIN files : x \in StoredIn(t, e, files[t])
  BY StoredIs DEF Stored
<1>4. \A x : x \in T <=> \E t \in DOMAIN files' : x \in StoredIn(t, e, files'[t])
  <2>1. Stored(e)' = UNION { {t} \X { i \in DOMAIN files'[t] : files'[t][i] = e } : t \in DOMAIN files' }
    BY Zenon DEF Stored
  <2>2. ASSUME NEW F, F = files'
        PROVE  \A x : x \in Stored(e)' <=> \E t \in DOMAIN F : x \in StoredIn(t, e, F[t])
    <3>1. Stored(e)' = UNION { {t} \X { i \in DOMAIN F[t] : F[t][i] = e } : t \in DOMAIN F }
      BY <2>1, <2>2
    <3> QED
      BY <3>1, StoredIs
  <2> QED
    BY <2>2
<1>5. \A t, u, s, r, x : x \in StoredIn(t, e, s) /\ x \in StoredIn(u, e, r) => t = u
  BY DEF StoredIn
<1>6. A \subseteq S
  <2>1. CASE now \in DOMAIN files
    BY <1>3, <2>1 DEF InFile
  <2>2. CASE now \notin DOMAIN files
    <3>1. A = {}
      BY <2>2 DEF InFile, StoredIn, Places
    <3> QED
      BY <3>1
  <2> QED
    BY <2>1, <2>2
<1>7. now \in DOMAIN files => A = StoredIn(now, e, files[now])
  BY DEF InFile
<1>8. DOMAIN files' = DOMAIN files \cup {now} /\ files'[now] = math /\ \A t \in DOMAIN files : t # now => files'[t] = files[t]
  OBVIOUS
<1>9. ASSUME NEW x \in T PROVE x \in (S \ A) \cup B
  <2>1. PICK t \in DOMAIN files' : x \in StoredIn(t, e, files'[t])
    BY <1>4
  <2>2. CASE t = now
    BY <1>8, <2>1, <2>2
  <2>3. CASE t # now
    <3>1. t \in DOMAIN files /\ x \in StoredIn(t, e, files[t])
      BY <1>8, <2>1, <2>3
    <3>2. x \in S
      BY <1>3, <3>1
    <3>3. x \notin A
      BY <1>5, <2>3, <3>1
    <3> QED
      BY <3>2, <3>3
  <2> QED
    BY <2>2, <2>3
<1>10. ASSUME NEW x \in B PROVE x \in T /\ x \notin S \ A
  <2>1. x \in T
    BY <1>4, <1>8, <1>10
  <2>2. ASSUME x \in S PROVE x \in A
    <3>1. PICK t \in DOMAIN files : x \in StoredIn(t, e, files[t])
      BY <1>3, <2>2
    <3>2. t = now
      BY <1>5, <1>10, <3>1
    <3> QED
      BY <1>7, <3>1, <3>2
  <2> QED
    BY <2>1, <2>2
<1>11. ASSUME NEW x \in S, x \notin A PROVE x \in T
  <2>1. PICK t \in DOMAIN files : x \in StoredIn(t, e, files[t])
    BY <1>3, <1>11
  <2>2. t # now
    BY <1>7, <1>11, <2>1
  <2> QED
    BY <1>4, <1>8, <2>1, <2>2
<1> HIDE DEF S, T, A, B
<1>12. T = (S \ A) \cup B /\ (S \ A) \cap B = {}
  BY <1>9, <1>10, <1>11
<1>13. IsFiniteSet(S)
  BY DEF S
<1>14. /\ IsFiniteSet(T) /\ Cardinality(T) + Cardinality(A) = Cardinality(S) + Cardinality(B)
       /\ Cardinality(T) \in Nat /\ Cardinality(S) \in Nat
  BY <1>2, <1>6, <1>12, <1>13, Exchange
<1> QED
  BY <1>2, <1>14 DEF S, T

Accounted(e) ==
  /\ IsFiniteSet(Stored(e))
  /\ Times(e, extracted) = Times(e, crawl.math) + Times(e, lost) + Cardinality(Stored(e))

MathTypes == IsSeq(extracted) /\ IsSeq(lost) /\ \A t \in DOMAIN files : IsSeq(files[t])

MathInv ==
  /\ MathTypes /\ \A e : Accounted(e)
  /\ worker \notin CrawlStates => crawl.math = <<>>

\* A sequence is made of its first n members and the others.
LEMMA Cut ==
  ASSUME NEW s, IsSeq(s), NEW n \in 0..Len(s)
  PROVE  /\ IsSeq(SubSeq(s, 1, n)) /\ IsSeq(SubSeq(s, n + 1, Len(s)))
         /\ SubSeq(s, 1, n) \o SubSeq(s, n + 1, Len(s)) = s
<1>1. PICK S : s \in Seq(S)
  BY DEF IsSeq
<1>2. Len(s) \in Nat /\ \A i \in 1..Len(s) : s[i] \in S
  BY <1>1
<1>3. SubSeq(s, 1, n) \in Seq(S)
  BY <1>2, SubSeqProperties
<1>4. SubSeq(s, n + 1, Len(s)) \in Seq(S)
  BY <1>2, SubSeqProperties
<1>5. SubSeq(s, 1, n) \o SubSeq(s, n + 1, Len(s)) = SubSeq(s, 1, Len(s))
  <2>1. 1 \in 1..(Len(s) + 1) /\ n \in (1 - 1)..Len(s) /\ Len(s) \in n..Len(s)
    BY <1>2
  <2> QED
    BY <1>1, <2>1, ConcatAdjacentSubSeq, Zenon
<1>6. SubSeq(s, 1, Len(s)) = s
  BY <1>1, SubSeqFull
<1> QED
  BY <1>3, <1>4, <1>5, <1>6 DEF IsSeq

\* storeMath hands all of math to a file or loses it or its end, and the file it
\* replaces is lost with what was in it.
LEMMA StoreKeeps ==
  ASSUME NEW math, IsSeq(math), storeMath(math), MathTypes
  PROVE  /\ IsSeq(lost') /\ \A t \in DOMAIN files' : IsSeq(files'[t])
         /\ \A e : IsFiniteSet(Stored(e)) =>
              /\ IsFiniteSet(Stored(e)')
              /\ Times(e, lost') + Cardinality(Stored(e)') = Times(e, math) + Times(e, lost) + Cardinality(Stored(e))
              /\ Times(e, lost') \in Nat /\ Times(e, lost) \in Nat /\ Times(e, math) \in Nat
              /\ Cardinality(Stored(e)') \in Nat /\ Cardinality(Stored(e)) \in Nat
<1>1. IsSeq(lost) /\ \A t \in DOMAIN files : IsSeq(files[t])
  BY DEF MathTypes
<1>2. ASSUME NEW n \in 0..Len(math),
             files' = [t \in DOMAIN files \cup {now} |-> IF t = now THEN SubSeq(math, 1, n) ELSE files[t]],
             lost' = lost \o InFile(now) \o SubSeq(math, n + 1, Len(math))
      PROVE  /\ IsSeq(lost') /\ \A t \in DOMAIN files' : IsSeq(files'[t])
             /\ \A e : IsFiniteSet(Stored(e)) =>
                  /\ IsFiniteSet(Stored(e)')
                  /\ Times(e, lost') + Cardinality(Stored(e)') = Times(e, math) + Times(e, lost) + Cardinality(Stored(e))
                  /\ Times(e, lost') \in Nat /\ Times(e, lost) \in Nat /\ Times(e, math) \in Nat
                  /\ Cardinality(Stored(e)') \in Nat /\ Cardinality(Stored(e)) \in Nat
  <2> DEFINE head == SubSeq(math, 1, n)
             rest == SubSeq(math, n + 1, Len(math))
  <2>p. IsSeq(head) /\ IsSeq(rest) /\ head \o rest = math
    BY Cut
  <2>f. /\ files' = [t \in DOMAIN files \cup {now} |-> IF t = now THEN head ELSE files[t]]
        /\ lost' = lost \o InFile(now) \o rest
    BY <1>2, Zenon
  <2> HIDE DEF head, rest
  <2>1. IsSeq(InFile(now)) /\ IsSeq(lost \o InFile(now))
    BY <1>1, TimesNone, Joined DEF InFile
  <2>2. IsSeq(lost')
    BY <2>p, <2>f, <2>1, Joined
  <2>3. \A t \in DOMAIN files' : IsSeq(files'[t])
    BY <1>1, <2>p, <2>f
  <2>4. ASSUME NEW e, IsFiniteSet(Stored(e))
        PROVE  /\ IsFiniteSet(Stored(e)')
               /\ Times(e, lost') + Cardinality(Stored(e)') = Times(e, math) + Times(e, lost) + Cardinality(Stored(e))
               /\ Times(e, lost') \in Nat /\ Times(e, lost) \in Nat /\ Times(e, math) \in Nat
               /\ Cardinality(Stored(e)') \in Nat /\ Cardinality(Stored(e)) \in Nat
    <3>1. /\ IsFiniteSet(Stored(e)')
          /\ Cardinality(Stored(e)') + Times(e, InFile(now)) = Cardinality(Stored(e)) + Times(e, head)
          /\ Cardinality(Stored(e)') \in Nat /\ Cardinality(Stored(e)) \in Nat
          /\ Times(e, InFile(now)) \in Nat /\ Times(e, head) \in Nat
      BY <1>1, <2>p, <2>f, <2>4, StoreCounts
    <3>2. Times(e, lost \o InFile(now)) = Times(e, lost) + Times(e, InFile(now)) /\ Times(e, lost) \in Nat
      BY <1>1, <2>1, TimesJoined, TimesIs
    <3>3. Times(e, lost') = Times(e, lost \o InFile(now)) + Times(e, rest) /\ Times(e, rest) \in Nat
      BY <2>p, <2>f, <2>1, TimesJoined, TimesIs
    <3>4. Times(e, math) = Times(e, head) + Times(e, rest)
      BY <2>p, TimesJoined
    <3>5. PICK after \in Nat, before \in Nat, file \in Nat, first \in Nat, others \in Nat, gone \in Nat :
            /\ after = Cardinality(Stored(e)') /\ before = Cardinality(Stored(e)) /\ file = Times(e, InFile(now))
            /\ first = Times(e, head) /\ others = Times(e, rest) /\ gone = Times(e, lost)
      BY <3>1, <3>2, <3>3
    <3>6. /\ Times(e, lost') = gone + file + others /\ Times(e, math) = first + others
          /\ after + file = before + first
      BY <3>1, <3>2, <3>3, <3>4, <3>5
    <3>7. gone + file + others + after = first + others + gone + before
      BY <3>6
    <3>8. gone + file + others \in Nat /\ first + others \in Nat
      OBVIOUS
    <3>9. Times(e, lost') + Cardinality(Stored(e)') = gone + file + others + after
      BY <3>5, <3>6
    <3>10. Times(e, math) + Times(e, lost) + Cardinality(Stored(e)) = first + others + gone + before
      BY <3>5, <3>6
    <3>11. Times(e, lost') \in Nat /\ Times(e, math) \in Nat
      BY <3>6, <3>8
    <3> QED
      BY <3>1, <3>2, <3>7, <3>9, <3>10, <3>11
  <2> QED
    BY <2>2, <2>3, <2>4
<1>3. CASE lost' = lost \o math /\ files' = files
  <2>1. IsSeq(lost')
    BY <1>1, <1>3, Joined
  <2>2. ASSUME NEW e, IsFiniteSet(Stored(e))
        PROVE  /\ IsFiniteSet(Stored(e)')
               /\ Times(e, lost') + Cardinality(Stored(e)') = Times(e, math) + Times(e, lost) + Cardinality(Stored(e))
               /\ Times(e, lost') \in Nat /\ Times(e, lost) \in Nat /\ Times(e, math) \in Nat
               /\ Cardinality(Stored(e)') \in Nat /\ Cardinality(Stored(e)) \in Nat
    <3>1. Stored(e)' = Stored(e) /\ Cardinality(Stored(e)) \in Nat
      BY <1>3, <2>2, FS_CardinalityType DEF Stored
    <3>2. Times(e, lost') = Times(e, lost) + Times(e, math) /\ Times(e, lost) \in Nat /\ Times(e, math) \in Nat
      BY <1>1, <1>3, TimesJoined, TimesIs
    <3>3. PICK S : S = Stored(e) /\ S = Stored(e)'
      BY <3>1
    <3> QED
      BY <2>2, <3>1, <3>2, <3>3
  <2> QED
    BY <1>1, <1>3, <2>1, <2>2
<1> QED
  BY <1>2, <1>3 DEF storeMath, InFile

\* ExtractMath preserves MathInv.
LEMMA ExtractAccounts ==
  ASSUME CrawlInv, MathInv, ExtractMath
  PROVE  MathInv'
<1>1. worker \in PageStates
  BY DEF ExtractMath, PageStates
<1>w. worker' \in CrawlStates
  BY DEF ExtractMath, CrawlStates, PageStates
<1>2. PageOK(page) /\ CrawlTypes
  BY <1>1 DEF CrawlInv, SiteInv
<1>3. IsSeq(Found) /\ IsSeq(crawl.math) /\ IsSeq(crawl.math \o Found)
  BY <1>2, FoundIsSeq, Joined DEF CrawlTypes
<1>4. /\ extracted' = extracted \o Found
      /\ IF Full THEN storeMath(crawl.math \o Found) ELSE UNCHANGED <<files, lost>>
  BY DEF ExtractMath, addMath, Found, Full
<1>5. crawl'.math = IF Full THEN <<>> ELSE crawl.math \o Found
  <2>1. PICK m : m = IF Full THEN <<>> ELSE crawl.math \o Found
    OBVIOUS
  <2>2. crawl' = Crawl(crawl.complete, crawl.max, crawl.notAllowed, crawl.all, crawl.urls, crawl.visited, m)
    BY <1>2, <2>1, ExtractIs
  <2> QED
    BY <2>1, <2>2 DEF Crawl
<1>6. MathTypes /\ IsSeq(extracted) /\ IsSeq(extracted')
  BY <1>3, <1>4, Joined DEF MathInv, MathTypes
<1>7. ASSUME NEW e
      PROVE  /\ IsFiniteSet(Stored(e)) /\ Cardinality(Stored(e)) \in Nat /\ Times(e, lost) \in Nat
             /\ Times(e, crawl.math) \in Nat /\ Times(e, Found) \in Nat
             /\ Times(e, extracted) = Times(e, crawl.math) + Times(e, lost) + Cardinality(Stored(e))
             /\ Times(e, extracted') = Times(e, extracted) + Times(e, Found)
             /\ Times(e, crawl.math \o Found) = Times(e, crawl.math) + Times(e, Found)
  <2>1. Accounted(e)
    BY DEF MathInv
  <2>2. Cardinality(Stored(e)) \in Nat
    BY <2>1, FS_CardinalityType DEF Accounted
  <2>3. Times(e, lost) \in Nat /\ Times(e, crawl.math) \in Nat /\ Times(e, Found) \in Nat
    BY <1>3, <1>6, TimesIs DEF MathTypes
  <2>4. Times(e, extracted') = Times(e, extracted) + Times(e, Found)
    BY <1>3, <1>4, <1>6, TimesJoined
  <2>5. Times(e, crawl.math \o Found) = Times(e, crawl.math) + Times(e, Found)
    BY <1>3, TimesJoined
  <2> QED
    BY <2>1, <2>2, <2>3, <2>4, <2>5 DEF Accounted
<1>8. CASE Full
  <2>1. storeMath(crawl.math \o Found) /\ crawl'.math = <<>>
    BY <1>4, <1>5, <1>8
  <2> DEFINE all == crawl.math \o Found
  <2> HIDE DEF all
  <2>2. storeMath(all) /\ IsSeq(all)
    BY <1>3, <2>1 DEF all
  <2>3. MathTypes'
    BY <1>6, <2>2, StoreKeeps DEF MathTypes
  <2>4. ASSUME NEW e PROVE Accounted(e)'
    <3>1. /\ IsFiniteSet(Stored(e)')
          /\ Times(e, lost') + Cardinality(Stored(e)') = Times(e, all) + Times(e, lost) + Cardinality(Stored(e))
          /\ Times(e, lost') \in Nat /\ Cardinality(Stored(e)') \in Nat
      BY <1>6, <1>7, <2>2, StoreKeeps
    <3>2. Times(e, crawl'.math) = 0
      BY <2>1, TimesNone
    <3>3. Times(e, all) = Times(e, crawl.math) + Times(e, Found)
      BY <1>7 DEF all
    <3>4. Times(e, extracted') = 0 + Times(e, lost') + Cardinality(Stored(e)')
      BY <1>7, <3>1, <3>3
    <3> QED
      BY <3>1, <3>2, <3>4 DEF Accounted
  <2> QED
    BY <1>w, <2>3, <2>4 DEF MathInv
<1>9. CASE ~Full
  <2>1. files' = files /\ lost' = lost /\ crawl'.math = crawl.math \o Found
    BY <1>4, <1>5, <1>9
  <2>2. MathTypes'
    BY <1>6, <2>1 DEF MathTypes
  <2>3. ASSUME NEW e PROVE Accounted(e)'
    <3>1. Stored(e)' = Stored(e)
      BY <2>1 DEF Stored
    <3>2. Times(e, extracted') = Times(e, crawl'.math) + Times(e, lost') + Cardinality(Stored(e))
      BY <1>7, <2>1
    <3> QED
      BY <1>7, <3>1, <3>2 DEF Accounted
  <2> QED
    BY <1>w, <2>2, <2>3 DEF MathInv
<1> QED
  BY <1>8, <1>9

\* So does FinishCrawl.
LEMMA FinishAccounts ==
  ASSUME CrawlInv, MathInv, FinishCrawl
  PROVE  MathInv'
<1>1. storeMath(crawl.math) /\ crawl' = NoCrawl /\ extracted' = extracted
  BY DEF FinishCrawl
<1>2. crawl'.math = <<>>
  BY <1>1 DEF NoCrawl
<1>3. IsSeq(crawl.math) /\ MathTypes
  BY DEF CrawlInv, CrawlTypes, MathInv
<1>4. MathTypes'
  BY <1>1, <1>3, StoreKeeps DEF MathTypes
<1>5. ASSUME NEW e PROVE Accounted(e)'
  <2>1. Accounted(e)
    BY DEF MathInv
  <2>2. /\ IsFiniteSet(Stored(e)')
        /\ Times(e, lost') + Cardinality(Stored(e)') = Times(e, crawl.math) + Times(e, lost) + Cardinality(Stored(e))
        /\ Times(e, lost') \in Nat /\ Cardinality(Stored(e)') \in Nat
    BY <1>1, <1>3, <2>1, StoreKeeps DEF Accounted
  <2>3. Times(e, crawl'.math) = 0
    BY <1>2, TimesNone
  <2>4. Times(e, extracted') = 0 + Times(e, lost') + Cardinality(Stored(e)')
    BY <1>1, <2>1, <2>2 DEF Accounted
  <2> QED
    BY <2>2, <2>3, <2>4 DEF Accounted
<1> QED
  BY <1>2, <1>4, <1>5 DEF MathInv

\* Every step preserves MathInv.
LEMMA MathStep ==
  ASSUME CrawlInv, MathInv, [Next]_vars
  PROVE  MathInv'
<1>1. CASE /\ UNCHANGED <<extracted, lost, files>> /\ crawl'.math = crawl.math
           /\ worker' \notin CrawlStates => worker \notin CrawlStates
  <2>1. ASSUME NEW e PROVE Accounted(e)'
    <3>1. Stored(e)' = Stored(e)
      BY <1>1 DEF Stored
    <3>2. Accounted(e)
      BY DEF MathInv
    <3> QED
      BY <1>1, <3>1, <3>2 DEF Accounted
  <2>2. MathTypes'
    BY <1>1 DEF MathInv, MathTypes
  <2> QED
    BY <1>1, <2>1, <2>2 DEF MathInv
<1>2. CASE DaemonStep \/ NoTags \/ MainStep \/ EmptyQueue \/ Exit \/ Tick \/ UNCHANGED vars
  <2>1. UNCHANGED <<extracted, lost, files, crawl, worker>>
    BY <1>2 DEF DaemonStep, Connect, Upload, UploadPiece, PassOver, Receive, SendPage, Complete, LockForPush, Push, NoTags, MainStep,
       EmptyQueue, Exit, Tick, vars
  <2> QED
    BY <1>1, <2>1
<1>3. CASE WakeWorker \/ FrontOfQueue \/ LockForPop \/ PopQueue \/ SetUpInvalid
  <2>1. UNCHANGED <<extracted, lost, files, crawl>> /\ worker \notin CrawlStates
    BY <1>3 DEF WakeWorker, FrontOfQueue, LockForPop, PopQueue, SetUpInvalid, CrawlStates, PageStates
  <2> QED
    BY <1>1, <2>1
<1>4. CASE AskType \/ FetchForMath
  <2>1. UNCHANGED <<extracted, lost, files, crawl>> /\ worker' \in CrawlStates
    BY <1>4 DEF AskType, AfterQuestion, FetchForMath, CrawlStates, PageStates
  <2> QED
    BY <1>1, <2>1
<1>5. CASE NextUrl
  <2>1. crawl'.math = crawl.math
    BY <1>5, NextUrlIs DEF CrawlInv, Crawl
  <2> QED
    BY <1>1, <1>5, <2>1 DEF NextUrl, CrawlStates, PageStates
<1>6. CASE FollowLinks
  <2>1. crawl'.math = crawl.math
    BY <1>6, FollowLinksIs DEF CrawlInv, Crawl
  <2> QED
    BY <1>1, <1>6, <2>1 DEF FollowLinks, CrawlStates, PageStates
<1>7. CASE SetUp
  <2>1. worker = "setup" /\ UNCHANGED <<extracted, lost, files>> /\ worker' = "loop"
    BY <1>7 DEF SetUp
  <2>2. crawl.math = <<>>
    BY <2>1 DEF MathInv, CrawlStates, PageStates
  <2>3. PICK a, b, c, d, u : crawl' = Crawl(a, b, c, d, u, <<>>, <<>>)
    BY <1>7, SetUpIs
  <2>4. crawl'.math = <<>>
    BY <2>3 DEF Crawl
  <2> QED
    BY <1>1, <2>1, <2>2, <2>4 DEF CrawlStates
<1> QED
  BY <1>2, <1>3, <1>4, <1>5, <1>6, <1>7, ExtractAccounts, FinishAccounts DEF Next, WorkerStep

\* CrawlInv and MathInv hold when crawlerd starts.
LEMMA CrawlInit == Init => CrawlInv /\ MathInv
<1> SUFFICES ASSUME Init PROVE CrawlInv /\ MathInv
  OBVIOUS
<1>1. /\ queue = <<>> /\ worker = "empty" /\ crawl = NoCrawl /\ extracted = <<>> /\ lost = <<>> /\ files = <<>>
  BY DEF Init
<1>2. CrawlTypes /\ crawl.math = <<>>
  BY <1>1, TimesNone DEF CrawlTypes, NoCrawl
<1>3. ASSUME NEW e PROVE Accounted(e)
  <2>1. DOMAIN files = {}
    BY <1>1
  <2>2. Stored(e) = {}
    BY <2>1 DEF Stored
  <2>3. IsFiniteSet(Stored(e)) /\ Cardinality(Stored(e)) = 0
    BY <2>2, FS_EmptySet
  <2>4. Times(e, extracted) = 0 /\ Times(e, lost) = 0 /\ Times(e, crawl.math) = 0
    BY <1>1, <1>2, TimesNone
  <2> QED
    BY <2>3, <2>4 DEF Accounted
<1>4. MathTypes
  BY <1>1, TimesNone DEF MathTypes
<1>5. NodesInv /\ SiteInv
  BY <1>1 DEF NodesInv, SiteInv, CrawlStates, PageStates
<1> QED
  BY <1>2, <1>3, <1>4, <1>5 DEF CrawlInv, MathInv

\* Every expression that was found is in memory, in one place of one file, or
\* counted as lost with a file that could not be opened, was cut short by a failing
\* fwrite or fclose, or was written anew in the same second: none is dropped
\* otherwise or stored twice, for any pages, requests and faults.  What is in memory
\* when the process ends is in no file.
THEOREM MathAccountedCorrect == Spec => []MathAccounted
<1>1. MathInv => MathAccounted
  BY DEF MathInv, Accounted, MathAccounted
<1> QED
  BY <1>1, QueueInit, QueueStep, ConnsInit, AnswerStep, CrawlInit, CrawlStep, MathStep, PTL DEF Spec

-----------------------------------------------------------------------------
(***************************************************************************)
(* Which pages are visited.                                                *)
(***************************************************************************)

\* A rule forbids all that is below it.
LEMMA FrontIsPrefix ==
  ASSUME NEW s, NEW t, IsSeq(s), IsSeq(t), s # <<>>, IsPrefix(s, t)
  PROVE  IsPrefix(Front(s), t)
<1>1. PICK S : s \in Seq(S)
  BY DEF IsSeq
<1>2. PICK T : t \in Seq(T)
  BY DEF IsSeq
<1> DEFINE U == S \cup T
           n == Len(s)
<1>3. s \in Seq(U) /\ t \in Seq(U) /\ n \in Nat /\ n > 0 /\ Len(t) \in Nat /\ n <= Len(t)
  BY <1>1, <1>2 DEF IsPrefix
<1> HIDE DEF U
<1>4. \A i \in 1..n : s[i] = t[i]
  <2>1. SubSeq(s, 1, n) = SubSeq(t, 1, n)
    BY DEF IsPrefix
  <2>2. \A i \in 1..n : SubSeq(s, 1, n)[i] = s[i]
    BY <1>3
  <2>3. \A i \in 1..n : SubSeq(t, 1, n)[i] = t[i]
    BY <1>3
  <2> QED
    BY <2>1, <2>2, <2>3
<1> DEFINE f == Front(s)
<1>5. f = SubSeq(s, 1, n - 1)
  BY DEF Front
<1>6. f \in Seq(U) /\ Len(f) = n - 1 /\ \A i \in 1..(n - 1) : f[i] = s[i]
  <2>1. n - 1 \in Nat /\ n - 1 <= n /\ n = Len(s)
    BY <1>3
  <2> HIDE DEF f, n
  <2>2. SubSeq(s, 1, n - 1) \in Seq(U) /\ Len(SubSeq(s, 1, n - 1)) = n - 1
    BY <1>3, <2>1
  <2>3. \A i \in 1..(n - 1) : SubSeq(s, 1, n - 1)[i] = s[i]
    BY <1>3, <2>1
  <2> QED
    BY <1>5, <2>2, <2>3
<1> HIDE DEF f
<1>7. SubSeq(f, 1, n - 1) = SubSeq(t, 1, n - 1)
  <2>1. n - 1 \in Nat /\ n - 1 <= Len(t)
    BY <1>3
  <2>2. SubSeq(f, 1, n - 1) \in Seq(U) /\ SubSeq(t, 1, n - 1) \in Seq(U)
    BY <1>3, <1>6, <2>1
  <2>3. Len(SubSeq(f, 1, n - 1)) = n - 1 /\ Len(SubSeq(t, 1, n - 1)) = n - 1
    BY <1>3, <1>6, <2>1
  <2>4. \A i \in 1..(n - 1) : SubSeq(f, 1, n - 1)[i] = f[i] /\ SubSeq(t, 1, n - 1)[i] = t[i] /\ i \in 1..n
    BY <1>3, <1>6, <2>1
  <2>5. \A i \in 1..(n - 1) : SubSeq(f, 1, n - 1)[i] = SubSeq(t, 1, n - 1)[i]
    BY <1>4, <1>6, <2>4
  <2>6. PICK a, b, m : a = SubSeq(f, 1, n - 1) /\ b = SubSeq(t, 1, n - 1) /\ m = n - 1
    OBVIOUS
  <2>7. a \in Seq(U) /\ b \in Seq(U) /\ Len(a) = m /\ Len(b) = m /\ \A i \in 1..m : a[i] = b[i]
    BY <2>2, <2>3, <2>5, <2>6
  <2>8. a = b
    BY <2>7
  <2> QED
    BY <2>6, <2>8
<1>8. Len(f) <= Len(t)
  BY <1>3, <1>6
<1> QED
  BY <1>6, <1>7, <1>8 DEF IsPrefix, f

\* What is_allowed_by_robots_txt allows is not below a rule.
LEMMA AllowedAvoids ==
  ASSUME NEW rules, NEW r \in rules, IsUrl(r), NEW u, IsUrl(u), is_allowed_by_robots_txt(rules, u)
  PROVE  ~Covers(r, u)
<1> SUFFICES ASSUME Covers(r, u) PROVE FALSE
  OBVIOUS
<1>1. IsSeq(r.path) /\ IsSeq(u.path) /\ r.path # <<>>
  BY DEF IsUrl, IsSeq
<1>2. u.host = r.host /\ u.query = r.query /\ IsPrefix(r.path, u.path)
  BY DEF Covers
<1>3. IsPrefix(Front(r.path), u.path)
  BY <1>1, <1>2, FrontIsPrefix
<1>4. LET prefix == IF Last(r.path) = "/" THEN Front(r.path) ELSE r.path
      IN  ~(u.host = r.host /\ u.query = r.query /\ IsPrefix(prefix, u.path))
  BY DEF is_allowed_by_robots_txt
<1> QED
  BY <1>2, <1>3, <1>4

\* A set of numbers that is not empty has a least one.
LEMMA LeastNatural ==
  ASSUME NEW B \in SUBSET Nat, B # {}
  PROVE  \E m \in B : \A k \in B : m <= k
<1> DEFINE T == { 0..n : n \in B }
<1>1. T \subseteq FiniteSubsetsOf(Nat)
  <2>1. ASSUME NEW n \in B PROVE IsFiniteSet(0..n) /\ 0..n \in SUBSET Nat
    BY FS_Interval
  <2> QED
    BY <2>1 DEF FiniteSubsetsOf
<1>2. T # {}
  OBVIOUS
<1>3. PICK x \in T : \A y \in T : ~(<<y, x>> \in StrictSubsetOrdering(Nat))
  <2>1. IsWellFoundedOn(StrictSubsetOrdering(Nat), FiniteSubsetsOf(Nat))
    BY FS_StrictSubsetOrderingWellFounded
  <2> HIDE DEF T
  <2> QED
    BY <1>1, <1>2, <2>1, WFMin
<1>4. PICK m \in B : x = 0..m
  OBVIOUS
<1>5. ASSUME NEW k \in B, k < m PROVE FALSE
  <2>1. 0..k \subseteq 0..m /\ 0..k # 0..m
    BY <1>5
  <2>2. 0..k \in SUBSET Nat /\ 0..m \in SUBSET Nat
    OBVIOUS
  <2>3. <<0..k, 0..m>> \in StrictSubsetOrdering(Nat)
    BY <2>1, <2>2 DEF StrictSubsetOrdering
  <2> QED
    BY <1>3, <1>4, <2>3
<1> QED
  BY <1>5

\* Induction, for a property written as a set of numbers.
LEMMA SetInduction ==
  ASSUME NEW P, 0 \in P, \A n \in Nat : n \in P => n + 1 \in P
  PROVE  Nat \subseteq P
<1> SUFFICES ASSUME Nat \ P # {} PROVE FALSE
  OBVIOUS
<1>1. PICK m \in Nat \ P : \A k \in Nat \ P : m <= k
  BY LeastNatural
<1>2. m - 1 \in Nat /\ m - 1 + 1 = m
  BY <1>1
<1> QED
  BY <1>1, <1>2

IsAgent(i) == Robots[i].k = "agent"

\* The agent lines for "*" at the end of the first i lines, with no other agent
\* between; the toggle is on when they are odd in number.
Stars(i) == { a \in 1..i : IsAgent(a) /\ \A b \in a..i : IsAgent(b) => Robots[b].v = "*" }

On(i) == Cardinality(Stars(i)) % 2 = 1

Toggles(f) ==
  f = [i \in 0..Len(Robots) |->
        IF i = 0 THEN FALSE
        ELSE IF Robots[i].k # "agent" THEN f[i-1] ELSE ~f[i-1] /\ Robots[i].v = "*"]

\* InBrackets is the function its recursion defines.
LEMMA InBracketsIs ==
  ASSUME NEW n
  PROVE  InBrackets(Robots, n) = (CHOOSE f : Toggles(f))[n]
  BY DEF InBrackets, Toggles

\* The lines of robots.txt are a sequence.
LEMMA RobotsLen == Robots \in Seq(ToSet(Robots)) /\ Len(Robots) \in Nat /\ DOMAIN Robots = 1..Len(Robots)
  BY RobotsAssumption

\* They are finitely many.
LEMMA StarsFinite ==
  ASSUME NEW i \in Nat
  PROVE  IsFiniteSet(Stars(i)) /\ Cardinality(Stars(i)) \in Nat
<1>1. IsFiniteSet(1..i)
  BY FS_Interval
<1>2. IsFiniteSet(Stars(i))
  BY <1>1, FS_Subset DEF Stars
<1> QED
  BY <1>2, FS_CardinalityType

\* No line, no star.
LEMMA NoStars == ~On(0)
<1>1. Stars(0) = {}
  BY DEF Stars
<1>2. Cardinality(Stars(0)) = 0
  BY <1>1, FS_EmptySet
<1> QED
  BY <1>2 DEF On

\* Line by line, On changes as the toggle of the code does.
LEMMA OnStep ==
  ASSUME NEW i \in 1..Len(Robots)
  PROVE  /\ ~IsAgent(i) => (On(i) <=> On(i - 1))
         /\ IsAgent(i) => (On(i) <=> (~On(i - 1) /\ Robots[i].v = "*"))
<1>0. Len(Robots) \in Nat /\ i \in Nat /\ i - 1 \in Nat
  BY RobotsLen
<1>1. \A a : a \in 1..i <=> a = i \/ a \in 1..(i - 1)
  BY <1>0
<1>2. \A a \in 1..(i - 1) : \A b : b \in a..i <=> b = i \/ b \in a..(i - 1)
  BY <1>0
<1>3. i..i = {i} /\ i \notin 1..(i - 1)
  BY <1>0
<1>4. CASE ~IsAgent(i)
  <2>1. Stars(i) = Stars(i - 1)
    BY <1>1, <1>2, <1>4 DEF Stars
  <2> QED
    BY <1>4, <2>1 DEF On
<1>5. CASE IsAgent(i) /\ Robots[i].v = "*"
  <2>1. Stars(i) = Stars(i - 1) \cup {i} /\ i \notin Stars(i - 1)
    BY <1>1, <1>2, <1>3, <1>5 DEF Stars
  <2>2. PICK n \in Nat : n = Cardinality(Stars(i - 1))
    BY <1>0, StarsFinite
  <2>3. Cardinality(Stars(i)) = n + 1
    BY <1>0, <2>1, <2>2, StarsFinite, FS_AddElement
  <2>4. (n + 1) % 2 = 1 <=> ~(n % 2 = 1)
    OBVIOUS
  <2> QED
    BY <1>5, <2>2, <2>3, <2>4 DEF On
<1>6. CASE IsAgent(i) /\ Robots[i].v # "*"
  <2>1. ASSUME NEW a \in Stars(i) PROVE FALSE
    <3>1. i \in a..i
      BY <1>0 DEF Stars
    <3> QED
      BY <1>6, <3>1 DEF Stars
  <2>2. Stars(i) = {}
    BY <2>1
  <2>3. Cardinality(Stars(i)) = 0
    BY <2>2, FS_EmptySet
  <2> QED
    BY <1>6, <2>3 DEF On
<1> QED
  BY <1>4, <1>5, <1>6

\* The toggle is on where On says so.
LEMMA InBracketsOn ==
  ASSUME NEW n \in 0..Len(Robots), On(n)
  PROVE  InBrackets(Robots, n)
<1> DEFINE L == Len(Robots)
           g == [i \in 0..L |-> On(i)]
<1>0. L \in Nat
  BY RobotsLen
<1>1. Toggles(g)
  <2>1. ASSUME NEW i \in 0..L
        PROVE  g[i] = IF i = 0 THEN FALSE
                      ELSE IF Robots[i].k # "agent" THEN g[i-1] ELSE ~g[i-1] /\ Robots[i].v = "*"
    <3>1. CASE i = 0
      <4>1. On(0) = FALSE
        BY NoStars, Zenon DEF On
      <4> QED
        BY <3>1, <4>1
    <3>2. CASE i # 0
      <4>1. i \in 1..L /\ i - 1 \in 0..L
        BY <1>0, <3>2
      <4>2. g[i - 1] = On(i - 1) /\ g[i] = On(i)
        BY <4>1
      <4>3. /\ ~IsAgent(i) => (On(i) <=> On(i - 1))
            /\ IsAgent(i) => (On(i) <=> (~On(i - 1) /\ Robots[i].v = "*"))
        BY <4>1, OnStep
      <4>4. On(i) \in BOOLEAN /\ On(i - 1) \in BOOLEAN
        BY DEF On
      <4> HIDE DEF g
      <4>5. CASE IsAgent(i)
        <5>1. On(i) = (~On(i - 1) /\ Robots[i].v = "*")
          BY <4>3, <4>4, <4>5, Zenon
        <5> QED
          BY <3>2, <4>2, <4>5, <5>1, Zenon DEF IsAgent
      <4>6. CASE ~IsAgent(i)
        <5>1. On(i) = On(i - 1)
          BY <4>3, <4>4, <4>6, Zenon
        <5> QED
          BY <3>2, <4>2, <4>6, <5>1, Zenon DEF IsAgent
      <4> QED
        BY <4>5, <4>6
    <3> QED
      BY <3>1, <3>2
  <2>2. g = [i \in 0..L |-> g[i]]
    OBVIOUS
  <2> HIDE DEF g
  <2>3. [i \in 0..L |-> g[i]] = [i \in 0..L |-> IF i = 0 THEN FALSE
           ELSE IF Robots[i].k # "agent" THEN g[i-1] ELSE ~g[i-1] /\ Robots[i].v = "*"]
    BY <2>1, Zenon
  <2> QED
    BY <2>2, <2>3, Zenon DEF Toggles
<1>2. PICK f : f = (CHOOSE h : Toggles(h)) /\ Toggles(f)
  BY <1>1, Zenon
<1>3. ASSUME NEW i \in 0..L
      PROVE  f[i] = IF i = 0 THEN FALSE
                    ELSE IF Robots[i].k # "agent" THEN f[i-1] ELSE ~f[i-1] /\ Robots[i].v = "*"
  <2> DEFINE V(j) == IF j = 0 THEN FALSE
                     ELSE IF Robots[j].k # "agent" THEN f[j-1] ELSE ~f[j-1] /\ Robots[j].v = "*"
  <2>1. f = [j \in 0..L |-> V(j)]
    BY <1>2, Zenon DEF Toggles
  <2> HIDE DEF V
  <2>2. [j \in 0..L |-> V(j)][i] = V(i)
    OBVIOUS
  <2>3. f[i] = V(i)
    BY <2>1, <2>2, Zenon
  <2> QED
    BY <2>3, Zenon DEF V
<1> DEFINE P == { i \in Nat : i <= L => (f[i] <=> On(i)) }
<1>4. 0 \in P
  <2>1. ~f[0] /\ ~On(0)
    <3>1. 0 \in 0..L
      BY <1>0
    <3>2. f[0] = FALSE
      BY <1>3, <3>1
    <3>3. ~On(0)
      BY NoStars
    <3> QED
      BY <3>2, <3>3
  <2> QED
    BY <2>1
<1>5. ASSUME NEW i \in Nat, i \in P PROVE i + 1 \in P
  <2> SUFFICES ASSUME i + 1 <= L PROVE f[i + 1] <=> On(i + 1)
    OBVIOUS
  <2>1. i + 1 \in 1..L /\ i + 1 \in 0..L /\ (i + 1) - 1 = i /\ i + 1 # 0 /\ i <= L
    BY <1>0
  <2>2. f[i] <=> On(i)
    BY <1>5, <2>1
  <2>3. f[i + 1] = IF Robots[i + 1].k # "agent" THEN f[i] ELSE ~f[i] /\ Robots[i + 1].v = "*"
    BY <1>3, <2>1
  <2>4. /\ ~IsAgent(i + 1) => (On(i + 1) <=> On(i))
        /\ IsAgent(i + 1) => (On(i + 1) <=> (~On(i) /\ Robots[i + 1].v = "*"))
    BY <2>1, OnStep
  <2> QED
    BY <2>2, <2>3, <2>4, Zenon DEF IsAgent
<1>6. Nat \subseteq P
  <2> HIDE DEF P
  <2> QED
    BY <1>4, <1>5, SetInduction
<1>7. n \in Nat /\ n <= L
  BY <1>0
<1>8. f[n]
  BY <1>6, <1>7
<1> QED
  BY <1>2, <1>8, InBracketsIs, Zenon

\* The toggle is on in a group for "*" that does not follow another one.
LEMMA FirstGroupOn ==
  ASSUME NEW i \in 1..Len(Robots), NEW a \in 1..i, IsAgent(a), Robots[a].v = "*",
         \A b \in (a+1)..i : ~IsAgent(b),
         \A b \in 1..(a-1) : IsAgent(b) /\ Robots[b].v = "*" => \E d \in (b+1)..(a-1) : IsAgent(d)
  PROVE  On(i)
<1>0. i \in Nat /\ a \in Nat
  BY RobotsLen
<1>1. a \in Stars(i)
  <2>1. \A b \in a..i : b = a \/ b \in (a+1)..i
    BY <1>0
  <2> QED
    BY <2>1 DEF Stars
<1>2. \A c \in Stars(i) : c <= a
  <2>1. \A c \in 1..i : c > a => c \in (a+1)..i
    BY <1>0
  <2> QED
    BY <1>0, <2>1 DEF Stars
<1> DEFINE before == { a - c : c \in { c \in Stars(i) : c < a } }
<1>3. ASSUME before # {} PROVE FALSE
  <2>1. before \in SUBSET Nat
    BY <1>0 DEF Stars
  <2>2. PICK m \in before : \A k \in before : m <= k
    <3> HIDE DEF before
    <3> QED
      BY <1>3, <2>1, LeastNatural
  <2>3. PICK c \in Stars(i) : c < a /\ m = a - c
    BY <2>2
  <2>4. c \in 1..i /\ IsAgent(c) /\ \A b \in c..i : IsAgent(b) => Robots[b].v = "*"
    BY <2>3 DEF Stars
  <2>5. c \in 1..(a-1) /\ c \in c..i
    BY <1>0, <2>3, <2>4
  <2>6. PICK d \in (c+1)..(a-1) : IsAgent(d)
    BY <2>4, <2>5
  <2>7. d \in 1..i /\ d < a /\ d > c /\ \A b \in d..i : b \in c..i
    BY <1>0, <2>4, <2>6
  <2>8. d \in Stars(i)
    BY <2>4, <2>6, <2>7 DEF Stars
  <2>9. a - d \in before
    BY <2>7, <2>8
  <2> HIDE DEF before
  <2>10. m <= a - d
    BY <2>2, <2>9
  <2> QED
    BY <1>0, <2>3, <2>4, <2>7, <2>10
<1>4. Stars(i) = {a}
  <2>1. \A c \in Stars(i) : c < a => a - c \in before
    OBVIOUS
  <2> HIDE DEF before
  <2>2. ASSUME NEW c \in Stars(i) PROVE c = a
    <3>1. ~(c < a) /\ c <= a /\ c \in Nat
      BY <1>2, <1>3, <2>1 DEF Stars
    <3> QED
      BY <1>0, <3>1
  <2> QED
    BY <1>1, <2>2
<1>5. Cardinality(Stars(i)) = 1
  BY <1>4, FS_Singleton
<1>6. 1 % 2 = 1
  OBVIOUS
<1> QED
  BY <1>5, <1>6 DEF On

\* The rules that are read include those of ForbiddenToAll.
LEMMA ForbiddenIsRead == ForbiddenToAll \subseteq Disallowed(Robots)
<1> SUFFICES ASSUME NEW r \in ForbiddenToAll PROVE r \in Disallowed(Robots)
  OBVIOUS
<1>1. PICK i \in DOMAIN Robots :
        /\ r = Robots[i].v /\ Robots[i].k = "disallow"
        /\ \E a \in 1..i :
             /\ IsAgent(a) /\ Robots[a].v = "*"
             /\ \A b \in (a+1)..i : ~IsAgent(b)
             /\ \A b \in 1..(a-1) : IsAgent(b) /\ Robots[b].v = "*" =>
                  \E d \in (b+1)..(a-1) : IsAgent(d)
  BY DEF ForbiddenToAll, IsAgent
<1>2. i \in 1..Len(Robots) /\ i \in 0..Len(Robots)
  BY RobotsLen
<1>3. On(i)
  BY <1>1, <1>2, FirstGroupOn
<1>4. InBrackets(Robots, i)
  BY <1>2, <1>3, InBracketsOn
<1> QED
  BY <1>1, <1>4 DEF Disallowed

Allowed(u) == is_allowed_by_robots_txt(crawl.notAllowed, u)

\* The crawl knows what the request excludes, and what the site forbids.
RulesKnown ==
  /\ \A i \in DOMAIN node.dontcrawl : node.dontcrawl[i] \in crawl.notAllowed
  /\ crawl.complete => ForbiddenToAll \subseteq crawl.notAllowed

\* The start is the one URL that is not looked up in the rules.
Checked ==
  /\ crawl.visited = <<>> => Len(crawl.urls) = 1
  /\ crawl.visited # <<>> => \A i \in DOMAIN crawl.urls : Allowed(crawl.urls[i])
  /\ \A i \in 2..Len(crawl.visited) : /\ IsUrl(crawl.visited[i]) /\ Allowed(crawl.visited[i])
                                      /\ crawl.visited[i].host = node.urlstart.host

VisitInv ==
  /\ worker \in CrawlStates \cup {"empty", "front", "lock", "pop", "setup", "crashed"}
  /\ worker \in PageStates => crawl.visited # <<>>
  /\ worker \in CrawlStates =>
       /\ node.count >= 0 => crawl.max = node.count /\ Len(crawl.visited) <= crawl.max
       /\ RulesKnown /\ Checked

\* SetUp establishes VisitInv.
LEMMA StartVisits ==
  ASSUME CrawlInv, SetUp
  PROVE  VisitInv'
<1>1. worker = "setup" /\ worker' = "loop" /\ UNCHANGED node /\ node.urlstart # BadUrl
  BY DEF SetUp
<1>2. NodeOK(node) /\ IsUrl(node.urlstart) /\ getUrl(node.urlstart) \in URLs
  BY <1>1 DEF CrawlInv, NodesInv, NodeOK, OnSite
<1>3. PICK robots \in downloadContent(NewPage(node.urlstart), Robots) : \E all :
           crawl' = Crawl(robots.downloaded, IF node.count >= 0 THEN node.count ELSE INT_MAX,
                             rulesOf(robots.content), all, <<node.urlstart>>, <<>>, <<>>)
  BY SetUpIs
<1>4. PICK all : crawl' = Crawl(robots.downloaded, IF node.count >= 0 THEN node.count ELSE INT_MAX,
                             rulesOf(robots.content), all, <<node.urlstart>>, <<>>, <<>>)
  BY <1>3
<1>5. /\ crawl'.complete = robots.downloaded /\ crawl'.notAllowed = rulesOf(robots.content)
      /\ crawl'.max = IF node.count >= 0 THEN node.count ELSE INT_MAX
      /\ crawl'.urls = <<node.urlstart>> /\ crawl'.visited = <<>>
  <2>1. PICK m, r, u, e : /\ m = IF node.count >= 0 THEN node.count ELSE INT_MAX
                          /\ r = rulesOf(robots.content) /\ u = <<node.urlstart>> /\ e = <<>>
    OBVIOUS
  <2>2. crawl' = Crawl(robots.downloaded, m, r, all, u, e, e)
    BY <1>4, <2>1
  <2>3. crawl'.complete = robots.downloaded /\ crawl'.notAllowed = r /\ crawl'.max = m
        /\ crawl'.urls = u /\ crawl'.visited = e
    BY <2>2 DEF Crawl
  <2> QED
    BY <2>1, <2>3
<1>6. robots.downloaded => robots.content = Robots
  <2> DEFINE p == NewPage(node.urlstart)
  <2>1. p.downloaded = FALSE /\ p.content = <<>>
        /\ p = [url |-> p.url, header |-> p.header, content |-> p.content, downloaded |-> p.downloaded]
    BY DEF NewPage
  <2>2. IsSeq(Robots) /\ IsSeq(p.content)
    BY <2>1, RobotsAssumption, TimesNone DEF IsSeq
  <2> HIDE DEF p
  <2>3. robots.downloaded # p.downloaded => robots.content = p.content \o Robots
    BY <2>1, <2>2, DownloadIs DEF p
  <2>4. <<>> \o Robots = Robots
    BY RobotsAssumption
  <2> QED
    BY <2>1, <2>3, <2>4
<1>7. RulesKnown'
  <2>1. \A i \in DOMAIN node.dontcrawl : node.dontcrawl[i] \in rulesOf(robots.content)
    BY DEF rulesOf, ToSet
  <2>2. robots.downloaded => ForbiddenToAll \subseteq rulesOf(robots.content)
    BY <1>6, ForbiddenIsRead DEF rulesOf
  <2> QED
    BY <1>1, <1>5, <2>1, <2>2 DEF RulesKnown
<1>8. Checked'
  BY <1>5 DEF Checked
<1>9. node.count >= 0 => crawl'.max = node.count /\ Len(crawl'.visited) <= crawl'.max
  BY <1>2, <1>5 DEF NodeOK
<1> QED
  BY <1>1, <1>7, <1>8, <1>9 DEF VisitInv, CrawlStates, PageStates

\* What is allowed does not depend on the reference.
LEMMA AllowedWithoutRef ==
  ASSUME NEW u, IsUrl(u), Allowed(u)
  PROVE  Allowed(getUrl(u)) /\ IsUrl(getUrl(u)) /\ getUrl(u).host = u.host
  BY GetUrlIs DEF Allowed, is_allowed_by_robots_txt

\* NextUrl preserves VisitInv: only the start is visited unchecked.
LEMMA NextVisits ==
  ASSUME CrawlInv, VisitInv, NextUrl
  PROVE  VisitInv'
<1>1. /\ worker = "loop" /\ worker' = "isXHTML" /\ crawl.urls # <<>> /\ UNCHANGED node
      /\ Len(crawl.visited) < crawl.max
  BY DEF NextUrl
<1>2. /\ CrawlTypes /\ IsSeq(crawl.urls) /\ IsSeq(crawl.visited) /\ IsSeq(crawl.math) /\ NodeOK(node)
      /\ \A i \in DOMAIN crawl.urls : IsUrl(crawl.urls[i]) /\ crawl.urls[i].host = node.urlstart.host
      /\ RulesKnown /\ Checked
      /\ node.count >= 0 => crawl.max = node.count
  BY <1>1 DEF CrawlInv, CrawlTypes, SiteInv, NodesInv, OnSite, VisitInv, CrawlStates, PageStates
<1> DEFINE u == Head(crawl.urls)
           v == Append(crawl.visited, getUrl(u))
           t == Tail(crawl.urls)
<1>3. PICK S : crawl.urls \in Seq(S)
  BY <1>2 DEF IsSeq
<1>4. /\ 1 \in DOMAIN crawl.urls /\ u = crawl.urls[1] /\ IsSeq(t) /\ Len(crawl.urls) \in Nat
      /\ Len(t) = Len(crawl.urls) - 1 /\ DOMAIN t = 1..Len(t)
      /\ \A i \in DOMAIN t : i + 1 \in DOMAIN crawl.urls /\ t[i] = crawl.urls[i + 1]
  BY <1>1, <1>3 DEF IsSeq
<1>5. /\ IsSeq(v) /\ v # <<>> /\ Len(crawl.visited) \in Nat /\ Len(v) = Len(crawl.visited) + 1
      /\ v[Len(crawl.visited) + 1] = getUrl(u)
      /\ \A i \in 1..Len(crawl.visited) : v[i] = crawl.visited[i]
  BY <1>2, Longer
<1> HIDE DEF u, v, t
<1>6. /\ crawl'.complete = crawl.complete /\ crawl'.max = crawl.max /\ crawl'.notAllowed = crawl.notAllowed
      /\ crawl'.urls = t /\ crawl'.visited = v
  <2>1. crawl' = Crawl(crawl.complete, crawl.max, crawl.notAllowed, crawl.all, t, v, crawl.math)
    BY <1>2, NextUrlIs DEF t, v, u
  <2> QED
    BY <1>2, <1>4, <1>5, <2>1, CrawlIs
<1>7. RulesKnown'
  BY <1>1, <1>2, <1>6 DEF RulesKnown
<1>8. CASE crawl.visited = <<>>
  <2>1. Len(crawl.visited) = 0 /\ Len(crawl.urls) = 1
    BY <1>2, <1>8 DEF Checked
  <2>2. Len(v) = 1 /\ DOMAIN t = {}
    BY <1>4, <1>5, <2>1
  <2> QED
    <3>1. Checked'
      <4>1. 2..Len(v) = {} /\ DOMAIN crawl'.urls = {} /\ crawl'.visited = v /\ v # <<>>
        BY <1>5, <1>6, <2>2
      <4> QED
        BY <4>1 DEF Checked
    <3>2. node.count >= 0 => Len(v) <= crawl.max
      BY <1>1, <1>2, <1>5 DEF NodeOK
    <3> QED
      BY <1>1, <1>2, <1>5, <1>6, <1>7, <3>1, <3>2 DEF VisitInv, CrawlStates, PageStates
<1>9. CASE crawl.visited # <<>>
  <2>1. \A i \in DOMAIN crawl.urls : Allowed(crawl.urls[i])
    BY <1>2, <1>9 DEF Checked
  <2>2. Allowed(getUrl(u)) /\ IsUrl(getUrl(u)) /\ getUrl(u).host = node.urlstart.host
    BY <1>2, <1>4, <2>1, AllowedWithoutRef
  <2>3. \A x : Allowed(x)' <=> is_allowed_by_robots_txt(crawl.notAllowed, x)
    BY <1>6 DEF Allowed
  <2>4. \A i \in DOMAIN t : is_allowed_by_robots_txt(crawl.notAllowed, t[i])
    BY <1>4, <2>1 DEF Allowed
  <2>5. ASSUME NEW i \in 2..Len(v)
        PROVE  IsUrl(v[i]) /\ is_allowed_by_robots_txt(crawl.notAllowed, v[i]) /\ v[i].host = node.urlstart.host
    <3>1. i = Len(crawl.visited) + 1 \/ i \in 2..Len(crawl.visited)
      BY <1>5
    <3>2. CASE i = Len(crawl.visited) + 1
      BY <1>5, <2>2, <3>2 DEF Allowed
    <3>3. CASE i \in 2..Len(crawl.visited)
      <4>1. i \in 1..Len(crawl.visited)
        BY <1>5, <3>3
      <4> QED
        BY <1>2, <1>5, <3>3, <4>1 DEF Checked, Allowed
    <3> QED
      BY <3>1, <3>2, <3>3
  <2>6. Checked'
    BY <1>1, <1>5, <1>6, <2>4, <2>5 DEF Checked, Allowed
  <2>7. node.count >= 0 => Len(v) <= crawl.max
    BY <1>1, <1>2, <1>5 DEF NodeOK
  <2> QED
    BY <1>1, <1>2, <1>5, <1>6, <1>7, <2>6, <2>7 DEF VisitInv, CrawlStates, PageStates
<1> QED
  BY <1>8, <1>9

\* FollowLinks preserves VisitInv: it adds allowed links only.
LEMMA LinksVisits ==
  ASSUME CrawlInv, VisitInv, FollowLinks
  PROVE  VisitInv'
<1>1. worker = "links" /\ worker' = "loop" /\ UNCHANGED node
  BY DEF FollowLinks
<1>2. /\ PageOK(page) /\ CrawlTypes /\ IsSeq(crawl.urls) /\ IsSeq(crawl.visited) /\ IsSeq(crawl.math)
      /\ RulesKnown /\ Checked /\ crawl.visited # <<>>
      /\ node.count >= 0 => crawl.max = node.count /\ Len(crawl.visited) <= crawl.max
  BY <1>1 DEF CrawlInv, CrawlTypes, SiteInv, VisitInv, CrawlStates, PageStates
<1>3. PICK p \in getContent(page, Web[page.url].body) : \E all :
           crawl' = Crawl(crawl.complete, crawl.max, crawl.notAllowed, all,
                          crawl.urls \o cleanupLinks(getLinks(p)), crawl.visited, crawl.math)
  BY <1>2, FollowLinksIs
<1> DEFINE new == cleanupLinks(getLinks(p))
           urls == crawl.urls \o new
<1>4. PICK all : crawl' = Crawl(crawl.complete, crawl.max, crawl.notAllowed, all, urls, crawl.visited, crawl.math)
  BY <1>3
<1>5. IsSeq(getLinks(p))
  BY <1>2, PageDownload, LinksAre
<1>6. IsSeq(new) /\ \A n \in DOMAIN new : Allowed(new[n])
  BY <1>5, CleanLinksAre DEF Allowed
<1> HIDE DEF new
<1>7. /\ IsSeq(urls) /\ Len(urls) = Len(crawl.urls) + Len(new) /\ Len(crawl.urls) \in Nat /\ Len(new) \in Nat
      /\ DOMAIN crawl.urls = 1..Len(crawl.urls) /\ DOMAIN new = 1..Len(new) /\ DOMAIN urls = 1..Len(urls)
  BY <1>2, <1>6, Joined, SeqFacts
<1>8. ASSUME NEW i \in DOMAIN urls PROVE Allowed(urls[i])
  <2>1. i \in 1..Len(crawl.urls) \/ \E j \in 1..Len(new) : i = Len(crawl.urls) + j
    <3>1. i \in 1..(Len(crawl.urls) + Len(new))
      BY <1>7
    <3> HIDE DEF urls
    <3>2. i > Len(crawl.urls) => i - Len(crawl.urls) \in 1..Len(new) /\ i = Len(crawl.urls) + (i - Len(crawl.urls))
      BY <1>7, <3>1
    <3> QED
      BY <1>7, <3>1, <3>2
  <2>2. CASE i \in 1..Len(crawl.urls)
    <3>1. urls[i] = crawl.urls[i]
      BY <1>2, <1>6, <2>2, Joined
    <3> QED
      BY <1>2, <1>7, <2>2, <3>1 DEF Checked
  <2>3. ASSUME NEW j \in 1..Len(new), i = Len(crawl.urls) + j PROVE Allowed(urls[i])
    <3>1. urls[i] = new[j]
      BY <1>2, <1>6, <2>3, Joined
    <3> QED
      BY <1>6, <1>7, <3>1
  <2> QED
    BY <2>1, <2>2, <2>3
<1> HIDE DEF urls
<1>9. /\ crawl'.complete = crawl.complete /\ crawl'.max = crawl.max /\ crawl'.notAllowed = crawl.notAllowed
      /\ crawl'.urls = urls /\ crawl'.visited = crawl.visited
  BY <1>2, <1>4, <1>7, CrawlIs
<1>10. RulesKnown' /\ Checked'
  BY <1>1, <1>2, <1>8, <1>9 DEF RulesKnown, Checked, Allowed
<1> QED
  BY <1>1, <1>2, <1>9, <1>10 DEF VisitInv, CrawlStates, PageStates

\* Every step preserves VisitInv.
LEMMA VisitStep ==
  ASSUME CrawlInv, VisitInv, [Next]_vars
  PROVE  VisitInv'
<1>1. CASE UNCHANGED <<worker, node, crawl>>
  BY <1>1 DEF VisitInv, RulesKnown, Checked, Allowed
<1>2. CASE DaemonStep \/ NoTags \/ MainStep \/ EmptyQueue \/ Exit \/ Tick \/ UNCHANGED vars
  <2>1. UNCHANGED <<worker, node, crawl>>
    BY <1>2 DEF DaemonStep, Connect, Upload, UploadPiece, PassOver, Receive, SendPage, Complete, LockForPush, Push, NoTags, MainStep,
       EmptyQueue, Exit, Tick, vars
  <2> QED
    BY <1>1, <2>1
<1>3. CASE WakeWorker \/ FrontOfQueue \/ LockForPop \/ PopQueue \/ SetUpInvalid \/ FinishCrawl
  <2>1. worker' \in {"empty", "front", "lock", "pop", "setup", "crashed"}
    BY <1>3 DEF WakeWorker, FrontOfQueue, LockForPop, PopQueue, SetUpInvalid, FinishCrawl
  <2> QED
    BY <2>1 DEF VisitInv, CrawlStates, PageStates
<1>4. CASE AskType \/ FetchForMath
  <2>1. UNCHANGED <<crawl, node>> /\ worker' \in PageStates /\ worker \in PageStates
    BY <1>4 DEF AskType, AfterQuestion, FetchForMath, PageStates
  <2> QED
    BY <2>1 DEF VisitInv, RulesKnown, Checked, Allowed, CrawlStates
<1>5. CASE ExtractMath
  <2>1. UNCHANGED node /\ worker' = "links" /\ worker \in PageStates
    BY <1>5 DEF ExtractMath, PageStates
  <2>2. PICK m : crawl' = Crawl(crawl.complete, crawl.max, crawl.notAllowed, crawl.all, crawl.urls, crawl.visited, m)
    BY <1>5, ExtractIs DEF CrawlInv
  <2>3. /\ crawl'.complete = crawl.complete /\ crawl'.max = crawl.max /\ crawl'.notAllowed = crawl.notAllowed
        /\ crawl'.urls = crawl.urls /\ crawl'.visited = crawl.visited
    BY <2>2 DEF Crawl
  <2> QED
    BY <2>1, <2>3 DEF VisitInv, RulesKnown, Checked, Allowed, CrawlStates, PageStates
<1> QED
  BY <1>2, <1>3, <1>4, <1>5, StartVisits, NextVisits, LinksVisits DEF Next, WorkerStep

\* VisitInv holds when crawlerd starts.
LEMMA VisitInit == Init => VisitInv
  BY DEF Init, VisitInv, CrawlStates, PageStates

\* A crawl visits no more pages than its request allows, stays on the site of
\* its start, and, but for the start and pages with a query, visits nothing that
\* the request excludes or that the first of adjacent groups for "*" in robots.txt
\* forbids, for any site, links, robots.txt and requests, and whichever downloads
\* fail.
THEOREM VisitsObeyRequestCorrect == Spec => []VisitsObeyRequest
<1>1. CrawlInv /\ VisitInv => VisitsObeyRequest
  <2> SUFFICES ASSUME CrawlInv, VisitInv,
                      worker \notin {"empty", "front", "lock", "pop", "setup", "crashed"}
               PROVE  /\ node.count > 0 => Len(crawl.visited) <= node.count
                      /\ \A i \in 2..Len(crawl.visited) :
                           /\ crawl.visited[i].host = node.urlstart.host
                           /\ \A r \in ToSet(node.dontcrawl) : ~Covers(r, crawl.visited[i])
                           /\ crawl.complete => \A r \in ForbiddenToAll : ~Covers(r, crawl.visited[i])
    BY DEF VisitsObeyRequest
  <2>1. worker \in CrawlStates /\ NodeOK(node) /\ RulesKnown /\ Checked
        /\ (node.count >= 0 => crawl.max = node.count /\ Len(crawl.visited) <= crawl.max)
    BY DEF CrawlInv, NodesInv, VisitInv
  <2>2. node.count > 0 => Len(crawl.visited) <= node.count
    BY <2>1 DEF NodeOK
  <2>3. ASSUME NEW i \in 2..Len(crawl.visited)
        PROVE  IsUrl(crawl.visited[i]) /\ Allowed(crawl.visited[i]) /\ crawl.visited[i].host = node.urlstart.host
    BY <2>1 DEF Checked
  <2>4. ASSUME NEW i \in 2..Len(crawl.visited), NEW r \in ToSet(node.dontcrawl)
        PROVE  ~Covers(r, crawl.visited[i])
    <3>1. IsUrl(r) /\ r \in crawl.notAllowed
      BY <2>1 DEF NodeOK, RulesKnown, ToSet
    <3> QED
      BY <2>3, <3>1, AllowedAvoids DEF Allowed
  <2>5. ASSUME NEW i \in 2..Len(crawl.visited), crawl.complete, NEW r \in ForbiddenToAll
        PROVE  ~Covers(r, crawl.visited[i])
    <3>1. IsUrl(r)
      BY RobotsAssumption DEF ForbiddenToAll, ToSet
    <3>2. r \in crawl.notAllowed
      BY <2>1, <2>5 DEF RulesKnown
    <3> QED
      BY <2>3, <3>1, <3>2, AllowedAvoids DEF Allowed
  <2> QED
    BY <2>2, <2>3, <2>4, <2>5
<1>2. CrawlInv /\ VisitInv /\ [Next]_vars => VisitInv'
  BY VisitStep
<1> QED
  BY <1>1, <1>2, QueueInit, QueueStep, ConnsInit, AnswerStep, CrawlInit, CrawlStep, VisitInit, PTL DEF Spec

-----------------------------------------------------------------------------
(***************************************************************************)
(* What is taken from a page.                                              *)
(***************************************************************************)
\* Nesting is a number.
LEMMA NestingIsInt ==
  ASSUME NEW text, NEW n \in Nat
  PROVE  Nesting(text, n) \in Int
<1>1. IsFiniteSet(1..n)
  BY FS_Interval
<1> DEFINE S == { i \in 1..n : text[i].k = "open" }
           T == { i \in 1..n : text[i].k = "close" }
<1>2. S \subseteq 1..n /\ T \subseteq 1..n
  OBVIOUS
<1>3. Nesting(text, n) = Cardinality(S) - Cardinality(T)
  BY DEF Nesting
<1> HIDE DEF S, T
<1>4. Cardinality(S) \in Nat /\ Cardinality(T) \in Nat
  BY <1>1, <1>2, FS_Subset, FS_CardinalityType
<1> QED
  BY <1>3, <1>4

\* Nesting changes at math tags only.
LEMMA NoTagsBetween ==
  ASSUME NEW text, NEW a \in Nat, NEW b \in Nat, a <= b,
         \A i \in (a + 1)..b : text[i].k \notin {"open", "close"}
  PROVE  Nesting(text, b) = Nesting(text, a)
<1>1. \A i \in 1..b : i \in 1..a \/ i \in (a + 1)..b
  OBVIOUS
<1>2. \A i \in 1..a : i \in 1..b
  OBVIOUS
<1>3. { i \in 1..b : text[i].k = "open" } = { i \in 1..a : text[i].k = "open" }
  BY <1>1, <1>2
<1>4. { i \in 1..b : text[i].k = "close" } = { i \in 1..a : text[i].k = "close" }
  BY <1>1, <1>2
<1> QED
  BY <1>3, <1>4 DEF Nesting

\* Nesting depends on the first n items only.
LEMMA SameNesting ==
  ASSUME NEW s, NEW t, NEW n, \A i \in 1..n : s[i] = t[i]
  PROVE  Nesting(s, n) = Nesting(t, n)
<1>1. { i \in 1..n : s[i].k = "open" } = { i \in 1..n : t[i].k = "open" }
  OBVIOUS
<1>2. { i \in 1..n : s[i].k = "close" } = { i \in 1..n : t[i].k = "close" }
  OBVIOUS
<1> QED
  BY <1>1, <1>2 DEF Nesting

\* The tags of a text, as a sequence of their own.
Kinds(text, n) == [i \in 1..n |-> text[i].k]

\* Nesting counts tags in a sequence.
LEMMA NestingIsTimes ==
  ASSUME NEW text, NEW n \in Nat
  PROVE  /\ IsSeq(Kinds(text, n)) /\ Len(Kinds(text, n)) = n
         /\ Nesting(text, n) = Times("open", Kinds(text, n)) - Times("close", Kinds(text, n))
<1>1. IsSeq(Kinds(text, n)) /\ Len(Kinds(text, n)) = n
  <2>1. PICK s : s = Kinds(text, n)
    OBVIOUS
  <2>2. DOMAIN s = 1..n /\ s = [i \in 1..n |-> s[i]]
    BY <2>1 DEF Kinds
  <2> QED
    BY <2>1, <2>2, IsSeqFun
<1>2. ASSUME NEW kind
      PROVE  { i \in 1..n : text[i].k = kind } = { i \in DOMAIN Kinds(text, n) : Kinds(text, n)[i] = kind }
  BY DEF Kinds
<1> QED
  BY <1>1, <1>2 DEF Nesting, Times

\* Nesting adds up when texts are joined.
LEMMA NestingJoined ==
  ASSUME NEW c, IsSeq(c), NEW q, IsSeq(q)
  PROVE  /\ \A k \in 0..Len(c) : Nesting(c \o q, k) = Nesting(c, k)
         /\ \A m \in 0..Len(q) : Nesting(c \o q, Len(c) + m) = Nesting(c, Len(c)) + Nesting(q, m)
<1>1. /\ Len(c) \in Nat /\ Len(q) \in Nat /\ IsSeq(c \o q)
      /\ \A i \in 1..Len(c) : (c \o q)[i] = c[i]
      /\ \A i \in 1..Len(q) : (c \o q)[Len(c) + i] = q[i]
  <2>1. Len(c) \in Nat /\ Len(q) \in Nat
    BY SeqFacts
  <2>2. /\ IsSeq(c \o q)
        /\ \A i \in 1..Len(c) : (c \o q)[i] = c[i]
        /\ \A i \in 1..Len(q) : (c \o q)[Len(c) + i] = q[i]
    BY Joined
  <2> QED
    BY <2>1, <2>2
<1>2. PICK t, l : t = c \o q /\ l = Len(c)
  OBVIOUS
<1>3. ASSUME NEW k \in 0..Len(c) PROVE Nesting(t, k) = Nesting(c, k)
  <2>1. \A i \in 1..k : i \in 1..Len(c)
    BY <1>1
  <2> QED
    BY <1>1, <1>2, <2>1, SameNesting
<1>4. ASSUME NEW m \in 0..Len(q) PROVE Nesting(t, l + m) = Nesting(c, l) + Nesting(q, m)
  <2>1. m \in Nat /\ l \in Nat /\ l + m \in Nat /\ \A i \in 1..m : i \in 1..Len(q)
    BY <1>1, <1>2
  <2>2. PICK a, b, d : a = Kinds(c, l) /\ b = Kinds(q, m) /\ d = Kinds(t, l + m)
    OBVIOUS
  <2>3. /\ IsSeq(a) /\ Len(a) = l /\ IsSeq(b) /\ Len(b) = m /\ IsSeq(d) /\ Len(d) = l + m
        /\ Nesting(c, l) = Times("open", a) - Times("close", a)
        /\ Nesting(q, m) = Times("open", b) - Times("close", b)
        /\ Nesting(t, l + m) = Times("open", d) - Times("close", d)
    BY <2>1, <2>2, NestingIsTimes
  <2>4. d = a \o b
    <3>1. /\ IsSeq(a \o b) /\ Len(a \o b) = l + m
          /\ \A i \in 1..l : (a \o b)[i] = a[i]
          /\ \A i \in 1..m : (a \o b)[l + i] = b[i]
      BY <2>3, Joined
    <3>2. ASSUME NEW i \in 1..(l + m) PROVE d[i] = (a \o b)[i]
      <4>1. d[i] = t[i].k
        BY <2>2 DEF Kinds
      <4>2. CASE i \in 1..l
        <5>1. a[i] = c[i].k /\ t[i] = c[i]
          BY <1>1, <1>2, <2>2, <4>2 DEF Kinds
        <5> QED
          BY <3>1, <4>1, <4>2, <5>1
      <4>3. CASE i \notin 1..l
        <5>1. i - l \in 1..m /\ l + (i - l) = i
          BY <2>1, <4>3
        <5>2. PICK j \in 1..m : i = l + j
          BY <5>1
        <5>3. b[j] = q[j].k /\ t[i] = q[j]
          BY <1>1, <1>2, <2>1, <2>2, <5>2 DEF Kinds
        <5> QED
          BY <3>1, <4>1, <5>2, <5>3
      <4> QED
        BY <4>2, <4>3
    <3>3. PICK D : d \in Seq(D)
      BY <2>3 DEF IsSeq
    <3>4. PICK E : a \o b \in Seq(E)
      BY <3>1 DEF IsSeq
    <3>5. PICK e : e = a \o b
      OBVIOUS
    <3>6. d \in Seq(D) /\ e \in Seq(E) /\ Len(d) = Len(e) /\ \A i \in 1..Len(d) : d[i] = e[i]
      BY <2>3, <3>1, <3>2, <3>3, <3>4, <3>5
    <3>7. d \in Seq(D \cup E) /\ e \in Seq(D \cup E)
      BY <3>6
    <3>8. d = e
      BY <3>6, <3>7
    <3> QED
      BY <3>5, <3>8
  <2>5. /\ Times("open", d) = Times("open", a) + Times("open", b)
        /\ Times("close", d) = Times("close", a) + Times("close", b)
    BY <2>3, <2>4, TimesJoined
  <2>6. /\ Times("open", a) \in Nat /\ Times("open", b) \in Nat
        /\ Times("close", a) \in Nat /\ Times("close", b) \in Nat
    BY <2>3, TimesIs
  <2> QED
    BY <2>3, <2>5, <2>6
<1> QED
  BY <1>2, <1>3, <1>4

\* From a tag that opens a math element to the tag that closes it.
Element(text, i, j) ==
  /\ i \in DOMAIN text /\ j \in DOMAIN text /\ i <= j
  /\ text[i].k = "open" /\ Nesting(text, i - 1) = 0 /\ Nesting(text, j) = 0
  /\ \A k \in i..(j - 1) : Nesting(text, k) > 0

\* No more math elements are closed than were opened.
Nested(text) == \A n \in 0..Len(text) : Nesting(text, n) >= 0

\* Every good block of get_math_blocks is a math element of its text.
LEMMA GoodBlocks ==
  ASSUME NEW text, IsSeq(text), Nested(text), NEW b \in DOMAIN get_math_blocks(text),
         is_good_xml(get_math_blocks(text)[b])
  PROVE  \E i, j \in DOMAIN text : Element(text, i, j) /\ get_math_blocks(text)[b] = SubSeq(text, i, j)
<1> DEFINE E == BlockEnds(text)
           T == MathTags(text)
           end == InOrder(E)[b]
           F == { i \in T : b = 1 \/ i > InOrder(E)[b - 1] }
           first == Min(F)
           from == IF b = 1 THEN 0 ELSE InOrder(E)[b - 1]
<1>1. DOMAIN text = 1..Len(text) /\ Len(text) \in Nat
  BY SeqFacts
<1>2. /\ IsFiniteSet(E) /\ E \subseteq Int /\ b \in 1..Cardinality(E) /\ E \subseteq T /\ T \subseteq DOMAIN text
      /\ Cardinality(E) \in Nat
  BY BlocksAre, InOrderIs DEF BlockEnds, MathTags
<1>3. end \in E /\ Nesting(text, end) = 0
  BY <1>2, InOrderIs DEF BlockEnds
<1>4. get_math_blocks(text)[b] = SubSeq(text, first, end)
  <2>1. b \in DOMAIN InOrder(E)
    BY <1>2, InOrderIs
  <2> QED
    BY <2>1 DEF get_math_blocks
<1>5. /\ b # 1 => InOrder(E)[b - 1] \in E /\ InOrder(E)[b - 1] < end
      /\ \A x \in E : ~(from < x /\ x < end)
  <2>1. b = 1 \/ (b > 1 /\ b - 1 \in 1..Cardinality(E))
    BY <1>2
  <2>2. b # 1 => InOrder(E)[b - 1] \in E
    BY <1>2, <2>1, InOrderIs
  <2>3. b # 1 => InOrder(E)[b - 1] < end
    BY <1>2, <1>3, <2>1, InOrderNext
  <2>4. ASSUME NEW x \in E PROVE ~(from < x /\ x < end)
    BY <1>2, <2>1, InOrderNext
  <2> QED
    BY <2>2, <2>3, <2>4
<1>6. /\ from \in Nat /\ from < end /\ end \in Nat /\ end <= Len(text) /\ Nesting(text, from) = 0
      /\ F = { i \in T : i > from }
  <2>1. CASE b = 1
    <3>1. from = 0 /\ F = { i \in T : i > 0 }
      BY <1>1, <1>2, <2>1
    <3>2. end \in 1..Len(text)
      BY <1>1, <1>2, <1>3
    <3>3. Nesting(text, 0) = 0
      <4>1. 1..0 = {}
        OBVIOUS
      <4>2. { i \in 1..0 : text[i].k = "open" } = {} /\ { i \in 1..0 : text[i].k = "close" } = {}
        BY <4>1
      <4> QED
        BY <4>2, FS_EmptySet DEF Nesting
    <3> HIDE DEF from, F, end
    <3> QED
      BY <1>1, <3>1, <3>2, <3>3
  <2>2. CASE b # 1
    <3>1. from = InOrder(E)[b - 1] /\ from \in E /\ from < end
      BY <1>5, <2>2
    <3>2. Nesting(text, from) = 0
      BY <3>1 DEF BlockEnds
    <3>3. end \in 1..Len(text) /\ from \in 1..Len(text)
      BY <1>1, <1>2, <1>3, <3>1
    <3>4. F = { i \in T : i > from }
      BY <2>2
    <3> HIDE DEF from, F, end
    <3> QED
      BY <1>1, <3>1, <3>2, <3>3, <3>4
  <2> QED
    BY <2>1, <2>2
<1> HIDE DEF from, F, end, E, T
<1>7. first \in F /\ \A i \in F : first <= i
  <2>1. end \in F /\ F \in SUBSET Nat
    BY <1>1, <1>2, <1>3, <1>6
  <2>2. \E m \in F : \A k \in F : m <= k
    BY <2>1, LeastNatural
  <2> QED
    BY <2>2 DEF Min
<1> HIDE DEF first
<1>8. /\ first \in T /\ from < first /\ first <= end /\ first \in 1..Len(text) /\ end \in 1..Len(text)
      /\ first \in Nat
  BY <1>1, <1>2, <1>3, <1>6, <1>7
<1>9. \A i \in DOMAIN text : i \in T <=> text[i].k \in {"open", "close"}
  BY DEF T, MathTags
<1>10. Nesting(text, first - 1) = 0
  <2>1. first - 1 \in Nat /\ from <= first - 1
    BY <1>6, <1>8
  <2>2. ASSUME NEW i \in (from + 1)..(first - 1) PROVE text[i].k \notin {"open", "close"}
    <3>1. i \in DOMAIN text /\ i > from /\ i < first
      BY <1>1, <1>6, <1>8
    <3>2. i \in Nat /\ first \in Nat
      BY <1>6, <1>8
    <3>3. i \notin F
      BY <1>7, <3>1, <3>2
    <3> QED
      BY <1>6, <1>9, <3>1, <3>3
  <2> QED
    BY <1>6, <2>1, <2>2, NoTagsBetween
<1>11. ASSUME NEW k \in first..(end - 1) PROVE Nesting(text, k) > 0
  <2> DEFINE D == { d \in Nat : k - d \in T /\ k - d <= k }
  <2>1. k \in Nat /\ k \in 0..Len(text) /\ k < end /\ first <= k
    BY <1>1, <1>6, <1>8
  <2>2. k - first \in D
    <3>1. k - first \in Nat /\ k - (k - first) = first
      BY <1>8, <2>1
    <3> QED
      BY <1>8, <2>1, <3>1
  <2>3. PICK d \in D : \A x \in D : d <= x
    <3>1. D \in SUBSET Nat /\ D # {}
      BY <2>2
    <3> HIDE DEF D
    <3> QED
      BY <3>1, LeastNatural
  <2>4. PICK l : l = k - d
    OBVIOUS
  <2>5. l \in T /\ l <= k /\ l \in Nat /\ l >= first /\ d = k - l
    <3>1. d <= k - first
      BY <2>2, <2>3
    <3> QED
      BY <1>8, <2>1, <2>3, <2>4, <3>1
  <2>6. ASSUME NEW i \in (l + 1)..k PROVE text[i].k \notin {"open", "close"}
    <3>1. i \in DOMAIN text /\ i \in Nat
      BY <1>1, <2>1, <2>5
    <3>2. i \notin T
      <4>1. ASSUME i \in T PROVE FALSE
        <5>1. k - i \in Nat /\ k - (k - i) = i /\ i <= k
          BY <2>1, <2>5
        <5>2. k - i \in D
          BY <4>1, <5>1
        <5>3. d <= k - i
          BY <2>3, <5>2
        <5> QED
          BY <2>1, <2>5, <3>1, <5>3
      <4> QED
        BY <4>1
    <3> QED
      BY <1>9, <3>1, <3>2
  <2>7. Nesting(text, k) = Nesting(text, l)
    BY <2>1, <2>5, <2>6, NoTagsBetween
  <2>8. Nesting(text, l) # 0
    <3>1. from < l /\ l < end
      BY <1>6, <1>8, <2>1, <2>5
    <3>2. l \notin E
      BY <1>5, <3>1
    <3> QED
      BY <2>5, <3>2 DEF E, T, BlockEnds
  <2>9. Nesting(text, k) >= 0 /\ Nesting(text, k) \in Int
    BY <2>1, NestingIsInt DEF Nested
  <2> QED
    BY <2>7, <2>8, <2>9
<1>12. text[first].k = "open"
  <2>1. PICK S : text \in Seq(S)
    BY DEF IsSeq
  <2>2. Head(SubSeq(text, first, end)) = text[first]
    <3>1. /\ SubSeq(text, first, end) \in Seq(S) /\ Len(SubSeq(text, first, end)) = end - first + 1
          /\ SubSeq(text, first, end)[1] = text[first]
      BY <1>8, <2>1
    <3>2. Head(SubSeq(text, first, end)) = SubSeq(text, first, end)[1]
      <4>1. PICK s : s = SubSeq(text, first, end)
        OBVIOUS
      <4>2. s \in Seq(S) /\ s # <<>>
        BY <1>6, <1>8, <3>1, <4>1
      <4>3. Head(s) = s[1]
        BY <4>2
      <4> QED
        BY <4>1, <4>3
    <3> QED
      BY <3>1, <3>2
  <2> QED
    BY <1>4, <2>2 DEF is_good_xml
<1>13. Element(text, first, end)
  BY <1>1, <1>3, <1>8, <1>10, <1>11, <1>12 DEF Element
<1> QED
  BY <1>1, <1>4, <1>8, <1>13

\* The math elements of a text are elements of the page.
ElementsIn(text, M) == \A i, j \in DOMAIN text : Element(text, i, j) => SubSeq(text, i, j) \in M

\* A prefix of a text has the nesting of the text.
LEMMA PrefixNested ==
  ASSUME NEW body, IsSeq(body), Nested(body), NEW M, ElementsIn(body, M), NEW n \in 0..Len(body)
  PROVE  LET q == SubSeq(body, 1, n)
         IN  IsSeq(q) /\ Len(q) = n /\ Nested(q) /\ ElementsIn(q, M)
<1>1. PICK S : body \in Seq(S)
  BY DEF IsSeq
<1>2. PICK q : q = SubSeq(body, 1, n)
  OBVIOUS
<1>3. n \in Nat /\ Len(body) \in Nat /\ DOMAIN body = 1..Len(body)
  BY <1>1
<1>4. q \in Seq(S) /\ Len(q) = n /\ DOMAIN q = 1..n /\ \A i \in 1..n : q[i] = body[i]
  BY <1>1, <1>2, <1>3
<1>5. ASSUME NEW k \in 0..n PROVE Nesting(q, k) = Nesting(body, k) /\ k \in 0..Len(body)
  <2>1. \A i \in 1..k : i \in 1..n
    BY <1>3
  <2>2. k \in 0..Len(body)
    BY <1>3
  <2> QED
    BY <1>4, <2>1, <2>2, SameNesting
<1>6. Nested(q)
  BY <1>4, <1>5 DEF Nested
<1>7. ASSUME NEW i \in DOMAIN q, NEW j \in DOMAIN q, Element(q, i, j) PROVE SubSeq(q, i, j) \in M
  <2>1. i \in 1..n /\ j \in 1..n /\ i <= j
    BY <1>4, <1>7 DEF Element
  <2>2. i \in DOMAIN body /\ j \in DOMAIN body /\ i - 1 \in 0..n /\ j \in 0..n /\ \A k \in i..(j - 1) : k \in 0..n
    BY <1>3, <2>1
  <2>3. Element(body, i, j)
    <3>1. body[i].k = "open"
      BY <1>4, <1>7, <2>1 DEF Element
    <3>2. Nesting(body, i - 1) = 0 /\ Nesting(body, j) = 0
      BY <1>5, <1>7, <2>2 DEF Element
    <3>3. \A k \in i..(j - 1) : Nesting(body, k) > 0
      BY <1>5, <1>7, <2>2 DEF Element
    <3> QED
      BY <2>1, <2>2, <3>1, <3>2, <3>3 DEF Element
  <2>4. SubSeq(q, i, j) = SubSeq(body, i, j)
    <3>1. i \in Nat /\ j \in Nat /\ 1 <= i /\ j <= Len(q) /\ 0 + j <= Len(body) /\ IsSeq(q)
      BY <1>3, <1>4, <2>1 DEF IsSeq
    <3>2. \A x \in i..j : q[x] = body[0 + x]
      BY <1>3, <1>4, <2>1
    <3>3. SubSeq(body, 0 + i, 0 + j) = SubSeq(q, i, j)
      BY <2>1, <3>1, <3>2, SameSubSeq
    <3>4. 0 + i = i /\ 0 + j = j
      BY <3>1
    <3> QED
      BY <3>3, <3>4
  <2> QED
    BY <2>2, <2>3, <2>4 DEF ElementsIn
<1> QED
  BY <1>2, <1>4, <1>6, <1>7 DEF ElementsIn, IsSeq

\* A text after which another one is downloaded: an element that is open at the
\* end of the first is never closed.
LEMMA JoinNested ==
  ASSUME NEW c, IsSeq(c), Nested(c), NEW q, IsSeq(q), Nested(q),
         NEW M, ElementsIn(c, M), ElementsIn(q, M)
  PROVE  Nested(c \o q) /\ ElementsIn(c \o q, M)
<1>1. PICK t, l, m : t = c \o q /\ l = Len(c) /\ m = Len(q)
  OBVIOUS
<1>2. l \in Nat /\ m \in Nat /\ DOMAIN c = 1..l /\ DOMAIN q = 1..m
  BY <1>1, SeqFacts
<1>3. /\ IsSeq(t) /\ Len(t) = l + m
      /\ \A i \in 1..l : t[i] = c[i]
      /\ \A i \in 1..m : t[l + i] = q[i]
  BY <1>1, Joined
<1>4. DOMAIN t = 1..(l + m)
  BY <1>3, SeqFacts
<1>5. /\ \A k \in 0..l : Nesting(t, k) = Nesting(c, k)
      /\ \A k \in 0..m : Nesting(t, l + k) = Nesting(c, l) + Nesting(q, k)
  BY <1>1, NestingJoined
<1>6. Nesting(c, l) \in Int /\ Nesting(c, l) >= 0 /\ \A k \in 0..m : Nesting(q, k) \in Int /\ Nesting(q, k) >= 0
  <2>1. l \in 0..Len(c) /\ \A k \in 0..m : k \in 0..Len(q) /\ k \in Nat
    BY <1>1, <1>2
  <2> QED
    BY <1>2, <2>1, NestingIsInt DEF Nested
<1>7. \A k \in 0..(l + m) : k \in 0..l \/ \E x \in 0..m : k = l + x
  <2>1. ASSUME NEW k \in 0..(l + m), k \notin 0..l PROVE k - l \in 0..m /\ k = l + (k - l)
    BY <1>2, <2>1
  <2> QED
    BY <2>1
<1>8. Nested(t)
  <2>1. ASSUME NEW k \in 0..Len(t) PROVE Nesting(t, k) >= 0
    <3>1. CASE k \in 0..l
      BY <1>1, <1>5, <3>1 DEF Nested
    <3>2. ASSUME NEW x \in 0..m, k = l + x PROVE Nesting(t, k) >= 0
      BY <1>5, <1>6, <3>2
    <3> QED
      BY <1>3, <1>7, <3>1, <3>2
  <2> QED
    BY <2>1 DEF Nested
<1>9. ASSUME NEW i \in 1..l, NEW j \in 1..l, i <= j PROVE SubSeq(t, i, j) = SubSeq(c, i, j)
  <2>1. i \in Nat /\ j \in Nat /\ 1 <= i /\ j <= Len(c) /\ 0 + j <= Len(t)
    BY <1>1, <1>2, <1>3
  <2>2. \A x \in i..j : c[x] = t[0 + x]
    BY <1>2, <1>3
  <2>3. SubSeq(t, 0 + i, 0 + j) = SubSeq(c, i, j)
    BY <1>3, <1>9, <2>1, <2>2, SameSubSeq
  <2>4. 0 + i = i /\ 0 + j = j
    BY <2>1
  <2> QED
    BY <2>3, <2>4
<1>10. ASSUME NEW i \in 1..m, NEW j \in 1..m, i <= j PROVE SubSeq(t, l + i, l + j) = SubSeq(q, i, j)
  <2>1. i \in Nat /\ j \in Nat /\ 1 <= i /\ j <= Len(q) /\ l + j <= Len(t)
    BY <1>1, <1>2, <1>3
  <2>2. \A x \in i..j : q[x] = t[l + x]
    BY <1>2, <1>3
  <2> QED
    BY <1>2, <1>3, <1>10, <2>1, <2>2, SameSubSeq
<1>11. ASSUME NEW i \in DOMAIN t, NEW j \in DOMAIN t, Element(t, i, j) PROVE SubSeq(t, i, j) \in M
  <2>1. /\ i \in 1..(l + m) /\ j \in 1..(l + m) /\ i <= j /\ t[i].k = "open"
        /\ Nesting(t, i - 1) = 0 /\ Nesting(t, j) = 0 /\ \A k \in i..(j - 1) : Nesting(t, k) > 0
    BY <1>4, <1>11 DEF Element
  <2>2. CASE j \in 1..l
    <3>1. i \in 1..l /\ i - 1 \in 0..l /\ j \in 0..l /\ \A k \in i..(j - 1) : k \in 0..l
      BY <1>2, <2>1, <2>2
    <3>2. c[i].k = "open"
      BY <1>3, <2>1, <3>1
    <3>3. Nesting(c, i - 1) = 0 /\ Nesting(c, j) = 0 /\ \A k \in i..(j - 1) : Nesting(c, k) > 0
      BY <1>5, <2>1, <3>1
    <3>4. Element(c, i, j)
      BY <1>2, <2>1, <2>2, <3>1, <3>2, <3>3 DEF Element
    <3> QED
      <4>1. SubSeq(c, i, j) \in M
        BY <1>2, <2>2, <3>1, <3>4 DEF ElementsIn
      <4>2. SubSeq(t, i, j) = SubSeq(c, i, j)
        BY <1>9, <2>1, <2>2, <3>1
      <4> QED
        BY <4>1, <4>2
  <2>3. CASE i \in 1..l /\ j \notin 1..l
    <3>1. l \in i..(j - 1) /\ l \in 0..l /\ j - l \in 0..m /\ j = l + (j - l)
      BY <1>2, <2>1, <2>3
    <3>2. Nesting(c, l) > 0
      BY <1>5, <2>1, <3>1
    <3>3. PICK x \in 0..m : j = l + x
      BY <3>1
    <3>4. Nesting(t, j) = Nesting(c, l) + Nesting(q, x)
      BY <1>5, <3>3
    <3> QED
      BY <1>6, <2>1, <3>2, <3>4
  <2>4. CASE i \notin 1..l
    <3>1. i - l \in 1..m /\ i = l + (i - l) /\ j - l \in 1..m /\ j = l + (j - l)
      BY <1>2, <2>1, <2>4
    <3>2. PICK x \in 1..m, y \in 1..m : i = l + x /\ j = l + y
      BY <3>1
    <3>3. x <= y /\ x - 1 \in 0..m /\ y \in 0..m /\ i - 1 = l + (x - 1) /\ x \in Nat /\ y \in Nat
      BY <1>2, <2>1, <3>2
    <3>4. Nesting(t, i - 1) = Nesting(c, l) + Nesting(q, x - 1) /\ Nesting(t, j) = Nesting(c, l) + Nesting(q, y)
      BY <1>5, <3>2, <3>3
    <3>5. Nesting(c, l) = 0 /\ Nesting(q, x - 1) = 0 /\ Nesting(q, y) = 0
      BY <1>6, <2>1, <3>3, <3>4
    <3>6. ASSUME NEW k \in x..(y - 1) PROVE Nesting(q, k) > 0
      <4>1. k \in 0..m /\ l + k \in i..(j - 1)
        BY <1>2, <3>2, <3>3
      <4>2. Nesting(t, l + k) = Nesting(c, l) + Nesting(q, k) /\ Nesting(t, l + k) > 0
        BY <1>5, <2>1, <4>1
      <4> QED
        BY <1>6, <3>5, <4>1, <4>2
    <3>7. q[x].k = "open"
      BY <1>3, <2>1, <3>2
    <3>8. Element(q, x, y)
      BY <1>2, <3>3, <3>5, <3>6, <3>7 DEF Element
    <3>9. SubSeq(t, i, j) = SubSeq(q, x, y)
      BY <1>10, <3>2, <3>3
    <3> QED
      BY <1>2, <3>8, <3>9 DEF ElementsIn
  <2> QED
    BY <2>2, <2>3, <2>4
<1> QED
  BY <1>1, <1>8, <1>11 DEF ElementsIn

\* No page closes more math elements than it opened.
WellNested == \A u \in URLs : Nested(Web[u].body)

\* MathOf has the math elements and the math nodes of a page.
LEMMA BodyElements ==
  ASSUME NEW u \in URLs
  PROVE  /\ ElementsIn(Web[u].body, MathOf[u])
         /\ \A i \in DOMAIN Web[u].body : Web[u].body[i].k = "open" => <<Web[u].body[i]>> \in MathOf[u]
<1>1. PICK text : text = Web[u].body
  OBVIOUS
<1> DEFINE X == { x \in (DOMAIN text) \X (DOMAIN text) :
                    /\ text[x[1]].k = "open" /\ Nesting(text, x[1] - 1) = 0 /\ x[1] <= x[2]
                    /\ Nesting(text, x[2]) = 0 /\ \A k \in x[1]..(x[2] - 1) : Nesting(text, k) > 0 }
<1>2. MathOf[u] = { SubSeq(text, ij[1], ij[2]) : ij \in X }
                  \cup { <<item>> : item \in { x \in ToSet(text) : x.k = "open" } }
  BY <1>1 DEF MathOf
<1>3. ASSUME NEW i \in DOMAIN text, NEW j \in DOMAIN text, Element(text, i, j)
      PROVE  SubSeq(text, i, j) \in MathOf[u]
  <2>1. PICK x : x = <<i, j>>
    OBVIOUS
  <2>2. x \in X /\ x[1] = i /\ x[2] = j
    BY <1>3, <2>1 DEF Element
  <2> HIDE DEF X
  <2>3. SubSeq(text, x[1], x[2]) \in MathOf[u]
    BY <1>2, <2>2
  <2> QED
    BY <2>2, <2>3
<1>4. ASSUME NEW i \in DOMAIN text, text[i].k = "open" PROVE <<text[i]>> \in MathOf[u]
  <2>1. text[i] \in ToSet(text)
    BY DEF ToSet
  <2> QED
    BY <1>2, <1>4, <2>1
<1> QED
  BY <1>1, <1>3, <1>4 DEF ElementsIn

PageNested(p) == Nested(p.content) /\ ElementsIn(p.content, MathOf[p.url])

\* The text of a new page is nested.
LEMMA EmptyNested ==
  ASSUME NEW M
  PROVE  Nested(<<>>) /\ ElementsIn(<<>>, M)
<1>1. PICK e : e = <<>>
  OBVIOUS
<1>2. Len(e) = 0 /\ DOMAIN e = {} /\ 0..0 = {0} /\ 1..0 = {}
  BY <1>1
<1>3. Nesting(e, 0) = 0
  <2>1. { i \in 1..0 : e[i].k = "open" } = {} /\ { i \in 1..0 : e[i].k = "close" } = {}
    BY <1>2
  <2> QED
    BY <2>1, FS_EmptySet DEF Nesting
<1> QED
  BY <1>1, <1>2, <1>3 DEF Nested, ElementsIn

\* Downloads keep the text nested, and its elements those of the page.
LEMMA DownloadNested ==
  ASSUME WellNested, NEW p, PageOK(p), PageNested(p), NEW q \in getContent(p, Web[p.url].body)
  PROVE  PageNested(q)
<1> DEFINE body == Web[p.url].body
<1>1. p.url \in URLs /\ IsSeq(body) /\ IsSeq(p.content)
  BY BodyIs DEF PageOK, IsSeq
<1>2. Nested(body) /\ ElementsIn(body, MathOf[p.url])
  BY <1>1, BodyElements DEF WellNested
<1>3. q.url = p.url /\ (q = p \/ \E n \in 0..Len(body) : q.content = p.content \o SubSeq(body, 1, n))
  BY PageDownload
<1> HIDE DEF body
<1>4. ASSUME NEW n \in 0..Len(body), q.content = p.content \o SubSeq(body, 1, n) PROVE PageNested(q)
  <2>1. PICK s : s = SubSeq(body, 1, n)
    OBVIOUS
  <2>2. IsSeq(s) /\ Nested(s) /\ ElementsIn(s, MathOf[p.url])
    BY <1>1, <1>2, <2>1, PrefixNested
  <2> QED
    BY <1>1, <1>3, <1>4, <2>1, <2>2, JoinNested DEF PageNested
<1> QED
  BY <1>3, <1>4

\* What is found in such a text are math elements of the page.
LEMMA FoundOnPage ==
  ASSUME PageOK(page), PageNested(page), NEW n \in DOMAIN Found
  PROVE  Found[n][2] \in MathOf[Found[n][1]]
<1>1. IsSeq(page.content) /\ page.url \in URLs
  BY DEF PageOK, IsSeq
<1>2. CASE isXHTML(page)
  <2>1. PICK i \in DOMAIN Web[page.url].body : /\ Found[n] = <<page.url, <<Web[page.url].body[i]>>>>
                                               /\ Web[page.url].body[i].k = "open"
    BY <1>1, <1>2, XhtmlFound DEF Found
  <2> QED
    BY <1>1, <2>1, BodyElements
<1>3. CASE ~isXHTML(page)
  <2>1. PICK b \in DOMAIN get_math_blocks(page.content) :
          /\ Found[n] = <<page.url, get_math_blocks(page.content)[b]>>
          /\ is_good_xml(get_math_blocks(page.content)[b])
    BY <1>1, <1>3, HtmlFound DEF Found
  <2>2. PICK i, j \in DOMAIN page.content : Element(page.content, i, j)
          /\ get_math_blocks(page.content)[b] = SubSeq(page.content, i, j)
    BY <1>1, <2>1, GoodBlocks DEF PageNested
  <2> QED
    BY <2>1, <2>2 DEF PageNested, ElementsIn
<1> QED
  BY <1>2, <1>3

FoundInv ==
  /\ IsSeq(extracted) /\ ExtractedFromPage
  /\ worker \in PageStates => PageNested(page)

\* Every step preserves FoundInv.
LEMMA FoundStep ==
  ASSUME WellNested, CrawlInv, FoundInv, [Next]_vars
  PROVE  FoundInv'
<1>1. CASE UNCHANGED <<extracted, worker, page>>
  BY <1>1 DEF FoundInv, ExtractedFromPage
<1>2. CASE DaemonStep \/ NoTags \/ MainStep \/ EmptyQueue \/ Exit \/ Tick \/ UNCHANGED vars
  <2>1. UNCHANGED <<extracted, worker, page>>
    BY <1>2 DEF DaemonStep, Connect, Upload, UploadPiece, PassOver, Receive, SendPage, Complete, LockForPush, Push, NoTags, MainStep,
       EmptyQueue, Exit, Tick, vars
  <2> QED
    BY <1>1, <2>1
<1>3. CASE WakeWorker \/ FrontOfQueue \/ LockForPop \/ PopQueue \/ SetUpInvalid \/ SetUp \/ FollowLinks \/ FinishCrawl
  <2>1. worker' \notin PageStates /\ extracted' = extracted
    BY <1>3 DEF WakeWorker, FrontOfQueue, LockForPop, PopQueue, SetUpInvalid, SetUp, FollowLinks, FinishCrawl, PageStates
  <2> QED
    BY <2>1 DEF FoundInv, ExtractedFromPage
<1>4. CASE NextUrl
  <2>1. extracted' = extracted /\ page' = NewPage(Head(crawl.urls))
    BY <1>4 DEF NextUrl
  <2>2. page'.content = <<>>
    BY <2>1 DEF NewPage
  <2> QED
    BY <2>1, <2>2, EmptyNested DEF FoundInv, ExtractedFromPage, PageNested
<1>5. CASE AskType \/ FetchForMath
  <2>1. /\ worker \in PageStates /\ extracted' = extracted
        /\ page' \in getContent(page, Web[page.url].body)
    <3>1. CASE AskType
      BY <3>1 DEF AskType, PageStates
    <3>2. CASE FetchForMath
      BY <3>2 DEF FetchForMath, PageStates, getContent
    <3> QED
      BY <1>5, <3>1, <3>2
  <2>2. PageOK(page) /\ PageNested(page)
    BY <2>1 DEF CrawlInv, SiteInv, FoundInv
  <2>3. PageNested(page')
    BY <2>1, <2>2, DownloadNested
  <2> QED
    BY <2>1, <2>3 DEF FoundInv, ExtractedFromPage, PageNested
<1>6. CASE ExtractMath
  <2>1. worker \in PageStates /\ page' = page /\ extracted' = extracted \o Found
    BY <1>6 DEF ExtractMath, addMath, Found, PageStates
  <2>2. PageOK(page) /\ PageNested(page) /\ IsSeq(extracted)
    BY <2>1 DEF CrawlInv, SiteInv, FoundInv
  <2>3. PICK f, l : f = Found /\ l = Len(extracted)
    OBVIOUS
  <2>4. IsSeq(f) /\ \A n \in DOMAIN f : f[n][2] \in MathOf[f[n][1]]
    BY <2>2, <2>3, FoundIsSeq, FoundOnPage
  <2>5. l \in Nat /\ Len(f) \in Nat /\ DOMAIN extracted = 1..l /\ DOMAIN f = 1..Len(f)
    BY <2>2, <2>3, <2>4, SeqFacts
  <2>6. /\ IsSeq(extracted \o f) /\ Len(extracted \o f) = l + Len(f)
        /\ \A i \in 1..l : (extracted \o f)[i] = extracted[i]
        /\ \A i \in 1..Len(f) : (extracted \o f)[l + i] = f[i]
    BY <2>2, <2>3, <2>4, Joined
  <2>7. DOMAIN (extracted \o f) = 1..(l + Len(f))
    BY <2>6, SeqFacts
  <2>8. ASSUME NEW i \in 1..(l + Len(f)) PROVE (extracted \o f)[i][2] \in MathOf[(extracted \o f)[i][1]]
    <3>1. CASE i \in 1..l
      BY <2>5, <2>6, <3>1 DEF FoundInv, ExtractedFromPage
    <3>2. CASE i \notin 1..l
      <4>1. i - l \in 1..Len(f) /\ i = l + (i - l)
        BY <2>5, <3>2
      <4>2. PICK j \in 1..Len(f) : i = l + j
        BY <4>1
      <4> QED
        BY <2>4, <2>5, <2>6, <4>2
    <3> QED
      BY <3>1, <3>2
  <2>9. ExtractedFromPage' /\ IsSeq(extracted')
    BY <2>1, <2>3, <2>6, <2>7, <2>8 DEF ExtractedFromPage
  <2> QED
    BY <2>1, <2>2, <2>9 DEF FoundInv, PageNested
<1> QED
  BY <1>2, <1>3, <1>4, <1>5, <1>6 DEF Next, WorkerStep

\* FoundInv holds when crawlerd starts.
LEMMA FoundInit == Init => FoundInv
  BY TimesNone DEF Init, FoundInv, ExtractedFromPage, PageStates

\* Every expression that was found is a math element of the page it is said to
\* come from, whichever downloads fail and are repeated behind what had come,
\* for any pages that do not close more math elements than they opened.
THEOREM ExtractedFromPageCorrect ==
  ASSUME WellNested
  PROVE  Spec => []ExtractedFromPage
<1>1. FoundInv => ExtractedFromPage
  BY DEF FoundInv
<1>2. CrawlInv /\ FoundInv /\ [Next]_vars => FoundInv'
  BY FoundStep
<1> QED
  BY <1>1, <1>2, QueueInit, QueueStep, ConnsInit, AnswerStep, CrawlInit, CrawlStep, FoundInit, PTL DEF Spec

=============================================================================

------------------------ MODULE ThreadWrapperProofs ------------------------
(***************************************************************************)
(* Proofs about ThreadWrapper, for any finite set of threads, any callers  *)
(* and any bounds.                                                         *)
(***************************************************************************)
EXTENDS ThreadWrapper, FiniteSetTheorems, TLAPS

\* The unsigned arithmetic of alive stays in range.
LEMMA ModInRange ==
  ASSUME NEW n \in Int, NEW m \in Nat, m > 0
  PROVE  n % m \in 0..(m - 1)
OBVIOUS

\* A number below the modulus is its own remainder.
LEMMA ModSmall ==
  ASSUME NEW m \in Nat, NEW n \in 0..(m - 1)
  PROVE  n % m = n
OBVIOUS

\* UINT_MOD is positive.
LEMMA UintPositive == UINT_MOD > 0
<1>1. Cardinality(Threads) \in Nat
  BY ThreadAssumption, FS_CardinalityType
<1> QED
  BY <1>1, ThreadAssumption

-----------------------------------------------------------------------------
\* The step of the type invariant.
LEMMA TypeStep == TypeOK /\ [Next]_vars => TypeOK'
<1> SUFFICES ASSUME TypeOK, [Next]_vars PROVE TypeOK'
  OBVIOUS
<1> USE DEF Actors, CallerSteps, ThreadSteps, MainSteps
<1>m. Main \in Actors /\ Main \notin Callers /\ Main \notin Threads /\ Callers \cap Threads = {}
  BY ThreadAssumption
<1>u. UINT_MOD \in Nat /\ UINT_MOD > 0 /\ alive \in Int
  BY ThreadAssumption, UintPositive DEF TypeOK
<1>p. (alive + 1) % UINT_MOD \in 0..(UINT_MOD - 1) /\ (alive - 1) % UINT_MOD \in 0..(UINT_MOD - 1)
  BY <1>u, ModInRange
<1>1. CASE init
  <2>1. CASE active' = TRUE /\ alive' = 0 /\ Goto(Main, "ready")
    BY <1>1, <2>1, <1>m, <1>u DEF TypeOK, init, Goto
  <2>2. CASE Goto(Main, "failed") /\ UNCHANGED <<active, alive>>
    BY <1>1, <2>2, <1>m DEF TypeOK, init, Goto
  <2> QED
    BY <1>1, <2>1, <2>2 DEF init
<1>2. CASE clean
  BY <1>2, <1>m DEF TypeOK, clean, Goto
<1>3. CASE CleanStep
  BY <1>3, <1>m DEF TypeOK, CleanStep, TakeLock, Acquire, WaitForThreads, CleanReturns, Goto
<1>4. CASE SpuriousWakeup
  BY <1>4, <1>m, ThreadAssumption DEF TypeOK, SpuriousWakeup, Goto
<1>5. ASSUME NEW c \in Callers, run(c) PROVE TypeOK'
  BY <1>5, <1>m, ThreadAssumption DEF TypeOK, run, Goto
<1>6. ASSUME NEW c \in Callers, EnterConstructor(c) \/ NotActive(c) \/ CreateFails(c) PROVE TypeOK'
  BY <1>6, <1>m DEF TypeOK, EnterConstructor, NotActive, CreateFails, Acquire, Return, Goto
<1>7. ASSUME NEW c \in Callers, CountThread(c) PROVE TypeOK'
  BY <1>7, <1>m, <1>p DEF TypeOK, CountThread, Return
<1>8. ASSUME NEW c \in Callers, NEW t \in Threads, pthread_create(c, t) PROVE TypeOK'
  BY <1>8, <1>m DEF TypeOK, pthread_create
<1>9. ASSUME NEW t \in Threads, EndRoutine(t) \/ EnterDestructor(t) PROVE TypeOK'
  BY <1>9, <1>m DEF TypeOK, EndRoutine, EnterDestructor, Acquire, Goto
<1>10. ASSUME NEW t \in Threads, Destructor(t) PROVE TypeOK'
  BY <1>10, <1>m, <1>p DEF TypeOK, Destructor, Woken
<1>11. CASE UNCHANGED vars
  BY <1>11 DEF TypeOK, vars
<1> QED
  BY <1>1, <1>2, <1>3, <1>4, <1>5, <1>6, <1>7, <1>8, <1>9, <1>10, <1>11
     DEF Next, CallerStep, ThreadStep

\* TypeOK holds at first.
LEMMA TypeInit == Init => TypeOK
<1> SUFFICES ASSUME Init PROVE TypeOK
  OBVIOUS
<1> USE DEF Init, Actors, CallerSteps, ThreadSteps, MainSteps
<1>1. alive \in 0..(UINT_MOD - 1) /\ spurious \in 0..MaxSpurious /\ 0 \in 0..MaxCalls
  BY ThreadAssumption, UintPositive
<1>2. calls \in [Callers -> 0..MaxCalls]
  BY <1>1
<1>3. active \in BOOLEAN
  OBVIOUS
<1>4. /\ pc \in [Actors -> CallerSteps \cup ThreadSteps \cup MainSteps]
      /\ \A c \in Callers : pc[c] \in CallerSteps
      /\ \A t \in Threads : pc[t] \in ThreadSteps
      /\ pc[Main] \in MainSteps
  BY ThreadAssumption
<1> QED
  BY <1>1, <1>2, <1>3, <1>4 DEF TypeOK

\* Type correctness: the static members and the program counters keep their
\* types; in particular alive stays an unsigned int.
THEOREM TypeCorrect == Spec => []TypeOK
  BY TypeInit, TypeStep, PTL DEF Spec

-----------------------------------------------------------------------------
\* Every step preserves Exclusion.
LEMMA ExclusionStep == TypeOK /\ Exclusion /\ [Next]_vars => Exclusion'
<1> SUFFICES ASSUME TypeOK, Exclusion, [Next]_vars PROVE Exclusion'
  OBVIOUS
<1> USE DEF Exclusion, Holding
<1>m. /\ Main \in Actors /\ Main \notin Callers /\ Main \notin Threads
      /\ Callers \cap Threads = {} /\ Callers \subseteq Actors /\ Threads \subseteq Actors
      /\ NoOne \notin Actors
      /\ pc \in [Actors -> CallerSteps \cup ThreadSteps \cup MainSteps]
  BY ThreadAssumption DEF Actors, TypeOK
<1>1. CASE init
  BY <1>1, <1>m DEF init, Goto
<1>2. CASE clean
  BY <1>2, <1>m DEF clean, Goto
<1>3. CASE CleanStep
  BY <1>3, <1>m DEF CleanStep, TakeLock, Acquire, WaitForThreads, CleanReturns, Goto
<1>4. CASE SpuriousWakeup
  BY <1>4, <1>m DEF SpuriousWakeup, Goto
<1>5. ASSUME NEW c \in Callers, run(c) PROVE Exclusion'
  BY <1>5, <1>m DEF run, Goto
<1>6. ASSUME NEW c \in Callers, EnterConstructor(c) \/ NotActive(c) \/ CreateFails(c)
      PROVE Exclusion'
  BY <1>6, <1>m DEF EnterConstructor, NotActive, CreateFails, Acquire, Return, Goto
<1>7. ASSUME NEW c \in Callers, CountThread(c) PROVE Exclusion'
  BY <1>7, <1>m DEF CountThread, Return
<1>8. ASSUME NEW c \in Callers, NEW t \in Threads, pthread_create(c, t) PROVE Exclusion'
  BY <1>8, <1>m DEF pthread_create
<1>9. ASSUME NEW t \in Threads, EndRoutine(t) \/ EnterDestructor(t) PROVE Exclusion'
  BY <1>9, <1>m DEF EndRoutine, EnterDestructor, Acquire, Goto
<1>10. ASSUME NEW t \in Threads, Destructor(t) PROVE Exclusion'
  BY <1>10, <1>m DEF Destructor, Woken
<1>11. CASE UNCHANGED vars
  BY <1>11 DEF vars
<1> QED
  BY <1>1, <1>2, <1>3, <1>4, <1>5, <1>6, <1>7, <1>8, <1>9, <1>10, <1>11
     DEF Next, CallerStep, ThreadStep

\* Exclusion holds at first.
LEMMA ExclusionInit == Init => Exclusion
  BY ThreadAssumption DEF Init, Exclusion, Holding, Actors

\* Mutual exclusion on the static members of the class.
THEOREM ExclusionCorrect == Spec => []Exclusion
  BY TypeInit, TypeStep, ExclusionInit, ExclusionStep, PTL DEF Spec

-----------------------------------------------------------------------------
(***************************************************************************)
(* The count.  Before init() nothing runs; a caller that has created a     *)
(* thread and not yet counted it owns the mutex, so there is one at most,  *)
(* and no destructor or clean() can look at alive meanwhile.               *)
(***************************************************************************)
BeforeInit ==
  pc[Main] \in {"idle", "failed"} => Live = {} /\ \A c \in Callers : pc[c] = "idle"

CountInv == TypeOK /\ Exclusion /\ BeforeInit /\ AliveCounts

\* The live threads are finitely many.
LEMMA LiveFinite == IsFiniteSet(Live) /\ Cardinality(Live) \in Nat
                    /\ Cardinality(Live) <= Cardinality(Threads)
<1>1. Live \in SUBSET Threads
  BY DEF Live
<1> QED
  BY <1>1, ThreadAssumption, FS_Subset, FS_CardinalityType

\* A step that neither starts nor deletes nor counts a thread keeps the count.
LEMMA CountKept ==
  ASSUME AliveCounts, alive' = alive, Live' = Live,
         \A c \in Callers : pc'[c] = "count" <=> pc[c] = "count"
  PROVE  AliveCounts'
  BY DEF AliveCounts

\* Every step keeps alive equal to the number of live threads.
LEMMA CountStep == CountInv /\ [Next]_vars => AliveCounts'
<1> SUFFICES ASSUME CountInv, [Next]_vars PROVE AliveCounts'
  OBVIOUS
<1>m. /\ Main \in Actors /\ Main \notin Callers /\ Main \notin Threads
      /\ Callers \cap Threads = {} /\ Callers \subseteq Actors /\ Threads \subseteq Actors
      /\ pc \in [Actors -> CallerSteps \cup ThreadSteps \cup MainSteps]
      /\ UINT_MOD \in Nat /\ Cardinality(Threads) < UINT_MOD
  BY ThreadAssumption DEF Actors, TypeOK, CountInv
<1>a. AliveCounts /\ Exclusion /\ alive \in Nat /\ Cardinality(Threads) \in Nat
  BY ThreadAssumption, FS_CardinalityType DEF CountInv, TypeOK
<1>1. CASE init
  <2>1. Live = {} /\ \A c \in Callers : pc[c] = "idle"
    BY <1>1 DEF init, CountInv, BeforeInit
  <2>2. Live' = {} /\ \A c \in Callers : pc'[c] = "idle"
    BY <1>1, <2>1, <1>m DEF init, Goto, Live
  <2>3. alive' = 0
    BY <1>1, <2>1, <1>a, FS_EmptySet DEF init, AliveCounts
  <2> QED
    BY <2>2, <2>3, FS_EmptySet DEF AliveCounts
<1>2. CASE clean \/ CleanStep \/ SpuriousWakeup
  <2>1. alive' = alive /\ Live' = Live /\ \A c \in Callers : pc'[c] = pc[c]
    BY <1>2, <1>m DEF clean, CleanStep, TakeLock, WaitForThreads, CleanReturns, SpuriousWakeup,
                      Acquire, Goto, Live
  <2> QED
    BY <2>1, <1>a, CountKept
<1>3. ASSUME NEW c \in Callers, run(c) \/ EnterConstructor(c) \/ NotActive(c) \/ CreateFails(c)
      PROVE  AliveCounts'
  <2>1. /\ alive' = alive /\ Live' = Live
        /\ \A d \in Callers : pc'[d] = "count" <=> pc[d] = "count"
    BY <1>3, <1>m DEF run, EnterConstructor, NotActive, CreateFails, Acquire, Return, Goto, Live
  <2> QED
    BY <2>1, <1>a, CountKept
<1>4. ASSUME NEW c \in Callers, NEW t \in Threads, pthread_create(c, t) PROVE AliveCounts'
  <2>1. \A d \in Callers : pc[d] # "count"
    BY <1>4, <1>a, <1>m DEF pthread_create, Exclusion, Holding
  <2>2. alive = Cardinality(Live)
    BY <2>1, <1>a, LiveFinite DEF AliveCounts
  <2>3. t \notin Live /\ Live' = Live \cup {t}
    BY <1>4, <1>m DEF pthread_create, Live
  <2>4. Cardinality(Live') = Cardinality(Live) + 1
    BY <2>3, LiveFinite, FS_AddElement
  <2>5. pc'[c] = "count" /\ alive' = alive
    BY <1>4, <1>m DEF pthread_create
  <2> QED
    BY <2>2, <2>4, <2>5, LiveFinite DEF AliveCounts
<1>5. ASSUME NEW c \in Callers, CountThread(c) PROVE AliveCounts'
  <2>1. alive = Cardinality(Live) - 1
    BY <1>5, <1>a DEF CountThread, AliveCounts
  <2>2. \A d \in Callers : pc'[d] # "count"
    BY <1>5, <1>a, <1>m DEF CountThread, Return, Exclusion, Holding
  <2>3. Live' = Live
    BY <1>5, <1>m DEF CountThread, Return, Live
  <2>4. alive + 1 \in 0..(UINT_MOD - 1)
    BY <2>1, <1>a, <1>m, LiveFinite
  <2>5. alive' = alive + 1
    BY <1>5, <2>4, <1>m, ModSmall DEF CountThread
  <2> QED
    BY <2>1, <2>2, <2>3, <2>5, LiveFinite DEF AliveCounts
<1>6. ASSUME NEW t \in Threads, EndRoutine(t) \/ EnterDestructor(t) PROVE AliveCounts'
  <2>1. alive' = alive /\ Live' = Live /\ \A c \in Callers : pc'[c] = pc[c]
    BY <1>6, <1>m DEF EndRoutine, EnterDestructor, Acquire, Goto, Live
  <2> QED
    BY <2>1, <1>a, CountKept
<1>7. ASSUME NEW t \in Threads, Destructor(t) PROVE AliveCounts'
  <2>1. \A d \in Callers : pc[d] # "count"
    BY <1>7, <1>a, <1>m DEF Destructor, Exclusion, Holding
  <2>2. alive = Cardinality(Live)
    BY <2>1, <1>a, LiveFinite DEF AliveCounts
  <2>3. t \in Live
    BY <1>7 DEF Destructor, Live
  <2>4. Live' = Live \ {t}
    BY <1>7, <1>m DEF Destructor, Live
  <2>5. Cardinality(Live') = Cardinality(Live) - 1 /\ Cardinality(Live) # 0
    BY <2>3, <2>4, LiveFinite, FS_RemoveElement, FS_EmptySet
  <2>6. alive - 1 \in 0..(UINT_MOD - 1)
    BY <2>2, <2>5, <1>m, <1>a, LiveFinite
  <2>7. alive' = alive - 1
    BY <1>7, <2>6, <1>m, ModSmall DEF Destructor
  <2>8. \A d \in Callers : pc'[d] # "count"
    BY <1>7, <2>1, <1>m DEF Destructor
  <2> QED
    BY <2>2, <2>5, <2>7, <2>8, LiveFinite DEF AliveCounts
<1>8. CASE UNCHANGED vars
  BY <1>8, <1>a DEF vars, AliveCounts, Live
<1> QED
  BY <1>1, <1>2, <1>3, <1>4, <1>5, <1>6, <1>7, <1>8 DEF Next, CallerStep, ThreadStep

\* Nothing runs before init(), nor after an init() that failed.
LEMMA BeforeInitStep == TypeOK /\ BeforeInit /\ [Next]_vars => BeforeInit'
<1> SUFFICES ASSUME TypeOK, BeforeInit, [Next]_vars, pc'[Main] \in {"idle", "failed"}
             PROVE  Live' = {} /\ \A c \in Callers : pc'[c] = "idle"
  BY DEF BeforeInit
<1>m. /\ Main \in Actors /\ Main \notin Callers /\ Main \notin Threads
      /\ Callers \subseteq Actors /\ Threads \subseteq Actors
      /\ pc \in [Actors -> CallerSteps \cup ThreadSteps \cup MainSteps]
  BY ThreadAssumption DEF Actors, TypeOK
<1>1. pc[Main] \in {"idle", "failed"}
  BY <1>m DEF Next, vars, init, clean, CleanStep, TakeLock, WaitForThreads, CleanReturns,
       SpuriousWakeup, run, CallerStep, EnterConstructor, NotActive, CountThread, CreateFails,
       pthread_create, ThreadStep, EndRoutine, EnterDestructor, Destructor, Woken, Acquire,
       Return, Goto
<1>2. Live = {} /\ \A c \in Callers : pc[c] = "idle"
  BY <1>1 DEF BeforeInit
<1>3. CASE init
  BY <1>3, <1>2, <1>m DEF init, Goto, Live
<1>4. CASE UNCHANGED vars
  BY <1>4, <1>2 DEF vars, Live
<1>5. init \/ UNCHANGED vars
  BY <1>1, <1>2 DEF Next, vars, clean, CleanStep, TakeLock, WaitForThreads, CleanReturns,
       SpuriousWakeup, run, CallerStep, EnterConstructor, NotActive, CountThread, CreateFails,
       pthread_create, ThreadStep, EndRoutine, EnterDestructor, Destructor, Acquire, Live
<1> QED
  BY <1>3, <1>4, <1>5

\* The parts of CountInv hold at first.
LEMMA CountInit == Init => BeforeInit /\ AliveCounts
<1> SUFFICES ASSUME Init PROVE BeforeInit /\ AliveCounts
  OBVIOUS
<1>1. Live = {} /\ \A c \in Callers : pc[c] = "idle"
  BY ThreadAssumption DEF Init, Live, Actors
<1> QED
  BY <1>1, FS_EmptySet DEF BeforeInit, AliveCounts, Init

\* CountInv is inductive.
LEMMA CountInductive == CountInv /\ [Next]_vars => CountInv'
  BY TypeStep, ExclusionStep, BeforeInitStep, CountStep DEF CountInv

\* CountInv holds at first.
LEMMA CountInvInit == Init => CountInv
  BY TypeInit, ExclusionInit, CountInit DEF CountInv

\* alive counts the live threads at every moment, and never wraps around.
THEOREM AliveCorrect == Spec => []AliveCounts
<1>1. CountInv => AliveCounts
  BY DEF CountInv
<1> QED
  BY <1>1, CountInvInit, CountInductive, PTL DEF Spec

-----------------------------------------------------------------------------
(***************************************************************************)
(* clean().  When it finds alive = 0 it owns the mutex, so no constructor  *)
(* is between pthread_create and alive++ and the count is exact; from then *)
(* on active keeps every constructor from creating a thread.               *)
(***************************************************************************)
CleanInv == pc[Main] = "cleaned" => ~active /\ Live = {}

\* Every step preserves CleanInv: cleanup waits for all threads.
LEMMA CleanInvStep == CountInv /\ CleanInv /\ [Next]_vars => CleanInv'
<1> SUFFICES ASSUME CountInv, CleanInv, [Next]_vars, pc'[Main] = "cleaned"
             PROVE  ~active' /\ Live' = {}
  BY DEF CleanInv
<1>m. /\ Main \in Actors /\ Main \notin Callers /\ Main \notin Threads
      /\ Callers \cap Threads = {} /\ Callers \subseteq Actors /\ Threads \subseteq Actors
      /\ pc \in [Actors -> CallerSteps \cup ThreadSteps \cup MainSteps]
  BY ThreadAssumption DEF Actors, TypeOK, CountInv
<1>1. CASE CleanReturns
  <2>1. \A c \in Callers : pc[c] # "count"
    BY <1>1, <1>m DEF CleanReturns, CountInv, Exclusion, Holding
  <2>2. Cardinality(Live) = 0
    BY <1>1, <2>1, LiveFinite DEF CleanReturns, CountInv, AliveCounts
  <2>3. Live = {}
    BY <2>2, LiveFinite, FS_EmptySet
  <2>4. Live' = Live
    BY <1>1, <1>m DEF CleanReturns, Goto, Live
  <2> QED
    BY <1>1, <2>3, <2>4 DEF CleanReturns
<1>2. CASE ~CleanReturns
  <2>1. pc[Main] = "cleaned"
    BY <1>2, <1>m DEF Next, vars, init, clean, CleanStep, TakeLock, WaitForThreads,
         SpuriousWakeup, run, CallerStep, EnterConstructor, NotActive, CountThread, CreateFails,
         pthread_create, ThreadStep, EndRoutine, EnterDestructor, Destructor, Woken, Acquire,
         Return, Goto
  <2>2. ~active /\ Live = {}
    BY <2>1 DEF CleanInv
  <2>3. active' = active
    BY <2>1 DEF Next, vars, init, clean, CleanStep, TakeLock, WaitForThreads, CleanReturns,
         SpuriousWakeup, run, CallerStep, EnterConstructor, NotActive, CountThread, CreateFails,
         pthread_create, ThreadStep, EndRoutine, EnterDestructor, Destructor, Acquire
  <2>4. \/ UNCHANGED vars
        \/ \E c \in Callers : run(c) \/ EnterConstructor(c) \/ NotActive(c) \/ CountThread(c)
    BY <2>1, <2>2 DEF Next, init, clean, CleanStep, TakeLock, WaitForThreads, CleanReturns,
         SpuriousWakeup, CallerStep, CreateFails, pthread_create, ThreadStep, EndRoutine,
         EnterDestructor, Destructor, Acquire, Live
  <2>5. Live' = Live
    BY <2>4, <1>m DEF vars, run, EnterConstructor, NotActive, CountThread, Acquire, Return, Goto,
                      Live
  <2> QED
    BY <2>2, <2>3, <2>5
<1> QED
  BY <1>1, <1>2

\* Once clean() has returned no thread of a ThreadWrapper runs, for ever.
THEOREM CleanCorrect == Spec => []CleanMeansNoThreads
<1>1. Init => CleanInv
  BY ThreadAssumption DEF Init, CleanInv, Actors
<1>2. CleanInv => CleanMeansNoThreads
  BY DEF CleanInv, CleanMeansNoThreads
<1> QED
  BY <1>1, <1>2, CountInvInit, CountInductive, CleanInvStep, PTL DEF Spec
=============================================================================

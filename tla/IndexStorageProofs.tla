------------------------- MODULE IndexStorageProofs -------------------------
(***************************************************************************)
(* Proofs about what the index is stored in.                               *)
(*                                                                         *)
(* IndexLifecycle: what the locks of the two LevelDB databases protect,    *)
(* for any number of processes, programs, builds and crashes, and what the *)
(* order of the four files protects when there is one daemon.              *)
(*                                                                         *)
(* FormulaDbs: both formula databases keep the contract of FormulaDb, for  *)
(* any formula ids and any number of insertions.                           *)
(***************************************************************************)
EXTENDS IndexLifecycle, FormulaDbs, SequenceTheorems, FiniteSetTheorems, WellFoundedInduction, TLAPS

\* The steps at which a process has each database open.
WithCrawl == {"formulaDb", "harvests", "memCreate", "memWrite", "memSave", "dictOpen",
              "dictSave", "success", "noDict", "loadMem", "serving"}

WithFormula == {"harvests", "memCreate", "memWrite", "memSave", "dictOpen", "dictSave",
                "success", "noDict", "loadCrawl", "loadMem", "serving"}

Types ==
  /\ pc \in [Procs -> Steps]
  /\ owner \in [Databases -> Procs \cup {NoProc}]
  /\ gen \in [Procs -> Nat]
  /\ builds \in Nat /\ crashes \in Nat

\* A database is open in a process exactly while the process is at those steps.
Locks ==
  \A p \in Procs : /\ pc[p] \in WithCrawl <=> owner["crawl"] = p
                   /\ pc[p] \in WithFormula <=> owner["formula"] = p

LockInv == Types /\ Locks

\* LockInv holds at first.
LEMMA LockInit == Init => LockInv
  BY LifecycleAssumption DEF Init, LockInv, Types, Locks, Steps, Databases, WithCrawl, WithFormula

\* Every step preserves LockInv.
LEMMA LockStep == LockInv /\ [Next]_vars => LockInv'
<1> SUFFICES ASSUME LockInv, [Next]_vars PROVE LockInv'
  OBVIOUS
<1> USE LifecycleAssumption DEF LockInv, Types, Locks, Steps, Databases, WithCrawl, WithFormula
<1>1. CASE UNCHANGED vars
  BY <1>1 DEF vars
<1>2. ASSUME NEW p \in Procs, NEW g \in Programs, Start(p, g) PROVE LockInv'
  BY <1>2 DEF Start, Goto
<1>3. ASSUME NEW p \in Procs, CreateCrawlDb(p) PROVE LockInv'
  BY <1>3 DEF CreateCrawlDb, CanCreate, BuildFails, AfterBuild, Release, Goto
<1>4. ASSUME NEW p \in Procs, CreateFormulaDb(p) PROVE LockInv'
  BY <1>4 DEF CreateFormulaDb, CanCreate, BuildFails, AfterBuild, Release, Goto
<1>5. ASSUME NEW p \in Procs, LoadHarvests(p) PROVE LockInv'
  BY <1>5 DEF LoadHarvests, BuildFails, AfterBuild, Release, Goto
<1>6. ASSUME NEW p \in Procs, MemCreate(p) \/ MemWrite(p) \/ MemSave(p) PROVE LockInv'
  BY <1>6 DEF MemCreate, MemCreateFails, MemWrite, MemSave, MemWriteTo, Goto, Release
<1>7. ASSUME NEW p \in Procs, DictOpen(p) \/ DictSave(p) PROVE LockInv'
  BY <1>7 DEF DictOpen, DictSave, DictWriteTo, Goto
<1>8. ASSUME NEW p \in Procs, BuildSucceeds(p) PROVE LockInv'
  BY <1>8 DEF BuildSucceeds, AfterBuild, Release, Goto
<1>9. ASSUME NEW p \in Procs, LoadDict(p) PROVE LockInv'
  BY <1>9 DEF LoadDict, LoadFails, Release, Goto
<1>10. ASSUME NEW p \in Procs, LoadFormulaDb(p) PROVE LockInv'
  BY <1>10 DEF LoadFormulaDb, LoadFails, Release, Goto
<1>11. ASSUME NEW p \in Procs, LoadCrawlDb(p) PROVE LockInv'
  BY <1>11 DEF LoadCrawlDb, LoadFails, Release, Goto
<1>12. ASSUME NEW p \in Procs, LoadMemsector(p) PROVE LockInv'
  BY <1>12 DEF LoadMemsector, LoadFails, Release, Goto
<1>13. ASSUME NEW p \in Procs, Stop(p) \/ Crash(p) PROVE LockInv'
  BY <1>13 DEF Stop, Crash, Off, Release, Goto
<1> QED
  BY <1>1, <1>2, <1>3, <1>4, <1>5, <1>6, <1>7, <1>8, <1>9, <1>10, <1>11, <1>12, <1>13
     DEF Next, Run, createCompressedIndex, IndexLoader
-----------------------------------------------------------------------------
(***************************************************************************)
(* Any number of processes.  A process that writes a part has the          *)
(* databases open that exclude every other process from doing so.          *)
(***************************************************************************)

\* A step that changes a part is one of a process at a building step, which
\* has open, or takes, a database that no other process has open.
LEMMA WhoWrites ==
  ASSUME LockInv, [Next]_vars
  PROVE  \/ UNCHANGED parts
         \/ \E q \in Procs : /\ \/ pc[q] = "crawlDb" /\ owner["crawl"] = NoProc
                                \/ pc[q] = "formulaDb" /\ owner["formula"] = NoProc
                                \/ pc[q] \in WithCrawl \cap WithFormula
                             /\ pc[q] \notin {"loadMem", "serving"}
                             /\ pc'[q] # pc[q]
                             /\ \A p \in Procs \ {q} : pc'[p] = pc[p] /\ gen'[p] = gen[p]
<1> USE DEF LockInv, Types, WithCrawl, WithFormula
<1>1. CASE UNCHANGED vars
  BY <1>1 DEF vars, parts
<1>2. ASSUME NEW q \in Procs, createCompressedIndex(q), ~UNCHANGED parts
      PROVE  /\ \/ pc[q] = "crawlDb" /\ owner["crawl"] = NoProc
                \/ pc[q] = "formulaDb" /\ owner["formula"] = NoProc
                \/ pc[q] \in WithCrawl \cap WithFormula
             /\ pc[q] \notin {"loadMem", "serving"}
             /\ pc'[q] # pc[q]
             /\ \A p \in Procs \ {q} : pc'[p] = pc[p] /\ gen'[p] = gen[p]
  BY <1>2 DEF createCompressedIndex, parts, CreateCrawlDb, CreateFormulaDb, CanCreate, LoadHarvests,
     MemCreate, MemCreateFails, MemWrite, MemSave, MemWriteTo, DictOpen, DictSave, DictWriteTo, BuildSucceeds,
     BuildFails, Goto
<1>3. ASSUME NEW q \in Procs, NEW g \in Programs, Start(q, g) PROVE UNCHANGED parts
  BY <1>3 DEF Start
<1>4. ASSUME NEW q \in Procs, IndexLoader(q) \/ Stop(q) \/ Crash(q) PROVE UNCHANGED parts
  BY <1>4 DEF IndexLoader, LoadDict, LoadFormulaDb, LoadCrawlDb, LoadMemsector, Stop, Crash, Off
<1> QED
  BY <1>1, <1>2, <1>3, <1>4 DEF Next, Run

\* The files of a serving daemon stay: both databases are open in it, so that
\* no other process is at a building step that writes.
THEOREM ServedFilesStayCorrect == Spec => ServedFilesStay
<1>1. ASSUME LockInv, [Next]_vars, NEW p \in Procs, pc[p] = "serving", pc'[p] = "serving"
      PROVE  UNCHANGED parts
  <2> SUFFICES ASSUME ~UNCHANGED parts PROVE FALSE
    OBVIOUS
  <2>1. PICK q \in Procs : /\ \/ pc[q] = "crawlDb" /\ owner["crawl"] = NoProc
                              \/ pc[q] = "formulaDb" /\ owner["formula"] = NoProc
                              \/ pc[q] \in WithCrawl \cap WithFormula
                           /\ pc[q] \notin {"loadMem", "serving"}
    BY <1>1, WhoWrites
  <2>2. owner["crawl"] = p /\ owner["formula"] = p
    BY <1>1 DEF LockInv, Locks, WithCrawl, WithFormula
  <2> QED
    BY <2>1, <2>2, <1>1, LifecycleAssumption DEF LockInv, Locks
<1>2. LockInv /\ [Next]_vars
        => [\A p \in Procs : pc[p] = "serving" /\ pc'[p] = "serving" => UNCHANGED parts]_vars
  BY <1>1
<1>3. Spec => []LockInv
  BY LockInit, LockStep, PTL DEF Spec
<1> QED
  BY <1>2, <1>3, PTL DEF Spec, ServedFilesStay

\* The parts a build has written so far, from the moment both of its databases
\* are filled.
Written(p) ==
  /\ pc[p] \in {"memCreate", "memWrite", "memSave", "dictOpen", "dictSave", "success", "noDict"} =>
       crawl = Part(gen[p], "full") /\ formula = Part(gen[p], "full")
  /\ pc[p] \in {"memWrite", "memSave", "dictOpen", "dictSave", "success", "noDict"} => mem.gen = gen[p]
  /\ pc[p] \in {"dictSave", "success"} => dict.gen = gen[p]

WrittenInv == LockInv /\ \A p \in Procs : Written(p)

\* A process keeps what it has written while another one takes a step.
LEMMA WrittenByOthers ==
  ASSUME WrittenInv, [Next]_vars, NEW p \in Procs, pc'[p] = pc[p], gen'[p] = gen[p]
  PROVE  Written(p)'
<1>1. CASE UNCHANGED parts
  BY <1>1 DEF WrittenInv, Written, parts, Part
<1>2. CASE pc[p] \notin WithCrawl \cap WithFormula
  BY <1>2 DEF Written, WithCrawl, WithFormula
<1>3. CASE ~UNCHANGED parts /\ pc[p] \in WithCrawl \cap WithFormula
  <2>1. PICK q \in Procs : /\ \/ pc[q] = "crawlDb" /\ owner["crawl"] = NoProc
                              \/ pc[q] = "formulaDb" /\ owner["formula"] = NoProc
                              \/ pc[q] \in WithCrawl \cap WithFormula
                           /\ pc'[q] # pc[q]
    BY <1>3, WhoWrites DEF WrittenInv
  <2>2. owner["crawl"] = p /\ owner["formula"] = p
    BY <1>3 DEF WrittenInv, LockInv, Locks
  <2> QED
    BY <2>1, <2>2, LifecycleAssumption DEF WrittenInv, LockInv, Locks
<1> QED
  BY <1>1, <1>2, <1>3

\* A step of a process leaves the position and the build of the others alone.
LEMMA OthersStay ==
  ASSUME LockInv, NEW p \in Procs, NEW q \in Procs, p # q, Run(q) \/ Stop(q) \/ Crash(q)
  PROVE  pc'[p] = pc[p] /\ gen'[p] = gen[p]
<1> USE DEF LockInv, Types, Goto
<1>1. ASSUME NEW g \in Programs, Start(q, g) PROVE pc'[p] = pc[p] /\ gen'[p] = gen[p]
  BY <1>1 DEF Start
<1>2. CASE createCompressedIndex(q)
  BY <1>2 DEF createCompressedIndex, CreateCrawlDb, CreateFormulaDb, LoadHarvests, MemCreate,
     MemCreateFails, MemWrite, MemSave, MemWriteTo, DictOpen, DictSave, DictWriteTo, BuildSucceeds, BuildFails
<1>3. CASE IndexLoader(q)
  BY <1>3 DEF IndexLoader, LoadDict, LoadFormulaDb, LoadCrawlDb, LoadMemsector, LoadFails
<1>4. CASE Stop(q) \/ Crash(q)
  BY <1>4 DEF Stop, Crash, Off
<1> QED
  BY <1>1, <1>2, <1>3, <1>4 DEF Run

\* Each step of a build adds what it writes.
LEMMA WrittenByItself ==
  ASSUME WrittenInv, NEW q \in Procs, Run(q) \/ Stop(q) \/ Crash(q)
  PROVE  Written(q)'
<1> USE DEF WrittenInv, LockInv, Types, Goto, Written, Part
<1>1. ASSUME NEW g \in Programs, Start(q, g) PROVE Written(q)'
  BY <1>1 DEF Start
<1>2. CASE CreateCrawlDb(q) \/ CreateFormulaDb(q) \/ BuildSucceeds(q)
  BY <1>2 DEF CreateCrawlDb, CreateFormulaDb, BuildSucceeds, BuildFails, AfterBuild
<1>3. CASE LoadHarvests(q)
  BY <1>3 DEF LoadHarvests, BuildFails, AfterBuild
<1>4. CASE MemCreate(q) \/ MemWrite(q) \/ MemSave(q)
  BY <1>4 DEF MemCreate, MemCreateFails, MemWrite, MemSave, MemWriteTo
<1>5. CASE DictOpen(q) \/ DictSave(q)
  BY <1>5 DEF DictOpen, DictSave, DictWriteTo, parts
<1>6. CASE IndexLoader(q)
  BY <1>6 DEF IndexLoader, LoadDict, LoadFormulaDb, LoadCrawlDb, LoadMemsector, LoadFails
<1>7. CASE Stop(q) \/ Crash(q)
  BY <1>7 DEF Stop, Crash, Off
<1> QED
  BY <1>1, <1>2, <1>3, <1>4, <1>5, <1>6, <1>7 DEF Run, createCompressedIndex

\* Every step preserves WrittenInv.
LEMMA WrittenStep == WrittenInv /\ [Next]_vars => WrittenInv'
<1> SUFFICES ASSUME WrittenInv, [Next]_vars PROVE WrittenInv'
  OBVIOUS
<1>1. LockInv'
  BY LockStep DEF WrittenInv
<1>2. ASSUME NEW p \in Procs PROVE Written(p)'
  <2>1. CASE UNCHANGED vars
    BY <2>1, WrittenByOthers DEF vars
  <2>2. ASSUME NEW q \in Procs, Run(q) \/ Stop(q) \/ Crash(q) PROVE Written(p)'
    <3>1. CASE p = q
      BY <2>2, <3>1, WrittenByItself
    <3>2. CASE p # q
      BY <2>2, <3>2, OthersStay, WrittenByOthers DEF WrittenInv
    <3> QED
      BY <3>1, <3>2
  <2> QED
    BY <2>1, <2>2 DEF Next
<1> QED
  BY <1>1, <1>2 DEF WrittenInv

\* When createCompressedIndex returns EXIT_SUCCESS, its databases and its memsector
\* are its own, and so is the dictionary if it could be opened: from the creation of
\* its databases on, no other process can have written one.
THEOREM BuildsDoNotMixCorrect == Spec => []BuildsDoNotMix
<1>1. Init => WrittenInv
  BY LockInit DEF Init, WrittenInv, Written
<1>2. WrittenInv => BuildsDoNotMix
  BY DEF WrittenInv, Written, BuildsDoNotMix
<1> QED
  BY <1>1, <1>2, WrittenStep, PTL DEF Spec
-----------------------------------------------------------------------------
(***************************************************************************)
(* One daemon, whose writes do not fail.  The dictionary is written last   *)
(* and read first: while there is one, the three other parts are complete  *)
(* and of its build.  Every program the process may be started as loads    *)
(* first, so that a build begins only where there is no dictionary.        *)
(***************************************************************************)
SomePart == [gen : Nat, st : {"none", "partial", "full", "empty", "header", "short"}]

PartTypes ==
  /\ crawl \in SomePart /\ formula \in SomePart /\ mem \in SomePart /\ dict \in SomePart
  /\ seen \in [Procs -> [crawl : SomePart, formula : SomePart, mem : SomePart, dict : SomePart]]

\* The dictionary commits the build it belongs to.
DictCommits ==
  dict # Absent => /\ dict.gen \in 1..builds
                   /\ crawl = Part(dict.gen, "full")
                   /\ formula = Part(dict.gen, "full")
                   /\ mem = Part(dict.gen, "full")

\* A build has no dictionary until all else is written.
BuildOf(d) ==
  /\ pc[d] \in {"crawlDb", "formulaDb", "harvests", "memCreate", "memWrite", "memSave",
                "dictOpen", "dictSave"} => gen[d] \in 1..builds
  /\ pc[d] \in {"crawlDb", "formulaDb", "harvests", "memCreate", "memWrite", "memSave",
                "dictOpen"} => dict = Absent
  /\ pc[d] \in {"memCreate", "memWrite", "memSave", "dictOpen"} =>
       crawl = Part(gen[d], "full") /\ formula = Part(gen[d], "full")
  /\ pc[d] = "dictOpen" => mem = Part(gen[d], "full")
  /\ pc[d] = "dictSave" => dict = Part(gen[d], "partial")

\* What the loader has read is what is there.
LoadOf(d) ==
  /\ pc[d] \in {"loadFormula", "loadCrawl", "loadMem", "serving"} =>
       dict # Absent /\ seen[d].dict = dict
  /\ pc[d] \in {"loadCrawl", "loadMem", "serving"} => seen[d].formula = formula
  /\ pc[d] \in {"loadMem", "serving"} => seen[d].crawl = crawl
  /\ pc[d] = "serving" => seen[d].mem = mem

CommitInv(d) == LockInv /\ PartTypes /\ DictCommits /\ BuildOf(d) /\ LoadOf(d)

\* Every step of the one process preserves CommitInv.
LEMMA CommitStep ==
  ASSUME NEW d, Procs = {d}, \A g \in Programs : g.load, DiskMayFail = FALSE,
         CommitInv(d), [Next]_vars
  PROVE  CommitInv(d)'
<1> USE DEF Types, PartTypes, SomePart, DictCommits, BuildOf, LoadOf, Absent, Part, Goto
<1> DEFINE Rest == PartTypes /\ DictCommits /\ BuildOf(d) /\ LoadOf(d)
<1>1. LockInv'
  BY LockStep DEF CommitInv
<1>2. LockInv /\ Rest
  BY DEF CommitInv
<1>3. owner["formula"] = NoProc \/ pc[d] \in WithFormula
  BY <1>2 DEF LockInv, Locks, Databases
<1>4. owner["crawl"] = NoProc \/ pc[d] \in WithCrawl
  BY <1>2 DEF LockInv, Locks, Databases
<1>5. CASE UNCHANGED vars
  BY <1>1, <1>2, <1>5 DEF vars, CommitInv
<1>6. ASSUME NEW g \in Programs, Start(d, g) PROVE Rest'
  BY <1>2, <1>6 DEF LockInv, Start, Nothing, parts
<1>7. CASE CreateCrawlDb(d) \/ CreateFormulaDb(d)
  <2> Rest'
    BY <1>2, <1>7 DEF LockInv, CreateCrawlDb, CreateFormulaDb, BuildFails, AfterBuild
  <2> QED
    BY <1>1 DEF CommitInv
<1>8. CASE LoadHarvests(d)
  <2> Rest'
    BY <1>2, <1>8 DEF LockInv, LoadHarvests, BuildFails, AfterBuild
  <2> QED
    BY <1>1 DEF CommitInv
<1>9. CASE MemCreate(d) \/ MemWrite(d) \/ MemSave(d)
  <2> Rest'
    BY <1>2, <1>9 DEF LockInv, MemCreate, MemCreateFails, MemWrite, MemSave, MemWriteTo
  <2> QED
    BY <1>1 DEF CommitInv
<1>10. CASE DictOpen(d) \/ DictSave(d)
  <2> Rest'
    BY <1>2, <1>10 DEF LockInv, DictOpen, DictSave, DictWriteTo
  <2> QED
    BY <1>1 DEF CommitInv
<1>11. CASE BuildSucceeds(d)
  <2> Rest'
    BY <1>2, <1>11 DEF LockInv, BuildSucceeds, AfterBuild, parts
  <2> QED
    BY <1>1 DEF CommitInv
<1>12. CASE LoadDict(d)
  <2> Rest'
    BY <1>2, <1>12 DEF LockInv, LoadDict, LoadFails, parts
  <2> QED
    BY <1>1 DEF CommitInv
<1>13. CASE LoadFormulaDb(d)
  <2> Rest'
    BY <1>2, <1>3, <1>13 DEF LockInv, LoadFormulaDb, WithFormula, parts
  <2> QED
    BY <1>1 DEF CommitInv
<1>14. CASE LoadCrawlDb(d)
  <2> Rest'
    BY <1>2, <1>4, <1>14 DEF LockInv, LoadCrawlDb, WithCrawl, parts
  <2> QED
    BY <1>1 DEF CommitInv
<1>15. CASE LoadMemsector(d)
  <2> Rest'
    BY <1>2, <1>15 DEF LockInv, LoadMemsector, memsector_valid, mmap_load, parts
  <2> QED
    BY <1>1 DEF CommitInv
<1>16. CASE Stop(d) \/ Crash(d)
  <2> Rest'
    BY <1>2, <1>16 DEF LockInv, Stop, Crash, Off, parts
  <2> QED
    BY <1>1 DEF CommitInv
<1>17. ASSUME NEW g \in Programs, Start(d, g) PROVE CommitInv(d)'
  BY <1>1, <1>6, <1>17 DEF CommitInv
<1> QED
  BY <1>5, <1>17, <1>7, <1>8, <1>9, <1>10, <1>11, <1>12, <1>13, <1>14, <1>15, <1>16
     DEF Next, Run, createCompressedIndex, IndexLoader

\* One daemon, restarted as often as it crashes and at whatever step, serves
\* complete databases and a complete index of one build, for every number of
\* builds and crashes, with or without harvests, whether or not it deletes old
\* data; its writes to the files do not fail (they are not checked).
THEOREM ServesOneBuildCorrect ==
  ASSUME NEW d, Procs = {d}, \A g \in Programs : g.load, DiskMayFail = FALSE
  PROVE  Spec => []ServesOneBuild
<1>1. Init => CommitInv(d)
  BY LockInit DEF Init, CommitInv, PartTypes, SomePart, DictCommits, BuildOf, LoadOf, Absent, Part, Nothing
<1>2. CommitInv(d) /\ [Next]_vars => CommitInv(d)'
  BY CommitStep
<1>3. CommitInv(d) => ServesOneBuild
  BY DEF CommitInv, DictCommits, LoadOf, ServesOneBuild, OneBuild
<1> QED
  BY <1>1, <1>2, <1>3, PTL DEF Spec

-----------------------------------------------------------------------------
(***************************************************************************)
(* Induction on numbers.                                                   *)
(***************************************************************************)
\* A non-empty set of natural numbers has a least element.
LEMMA LeastNatural ==
  ASSUME NEW B \in SUBSET Nat, B # {}
  PROVE  \E m \in B : \A k \in B : m <= k
<1> DEFINE T == { 0..n : n \in B }
<1>1. T \subseteq FiniteSubsetsOf(Nat)
  <2>1. ASSUME NEW n \in B PROVE IsFiniteSet(0..n) /\ 0..n \in SUBSET Nat
    BY FS_Interval
  <2> QED
    BY <2>1 DEF FiniteSubsetsOf
<1>2. T # {}
  OBVIOUS
<1>3. PICK x \in T : \A y \in T : ~(<<y, x>> \in StrictSubsetOrdering(Nat))
  <2>1. IsWellFoundedOn(StrictSubsetOrdering(Nat), FiniteSubsetsOf(Nat))
    BY FS_StrictSubsetOrderingWellFounded
  <2> HIDE DEF T
  <2> QED
    BY <1>1, <1>2, <2>1, WFMin
<1>4. PICK m \in B : x = 0..m
  OBVIOUS
<1>5. ASSUME NEW k \in B, k < m PROVE FALSE
  <2>1. 0..k \subseteq 0..m /\ 0..k # 0..m
    BY <1>5
  <2>2. 0..k \in SUBSET Nat /\ 0..m \in SUBSET Nat
    OBVIOUS
  <2>3. <<0..k, 0..m>> \in StrictSubsetOrdering(Nat)
    BY <2>1, <2>2 DEF StrictSubsetOrdering
  <2> QED
    BY <1>3, <1>4, <2>3
<1> QED
  BY <1>5

\* Induction, for a property written as a set of numbers.
LEMMA SetInduction ==
  ASSUME NEW P, 0 \in P, \A n \in Nat : n \in P => n + 1 \in P
  PROVE  Nat \subseteq P
<1> SUFFICES ASSUME Nat \ P # {} PROVE FALSE
  OBVIOUS
<1>1. PICK m \in Nat \ P : \A k \in Nat \ P : m <= k
  BY LeastNatural
<1>2. m - 1 \in Nat /\ m - 1 + 1 = m
  BY <1>1
<1> QED
  BY <1>1, <1>2

-----------------------------------------------------------------------------
(***************************************************************************)
(* Decimal texts.                                                          *)
(***************************************************************************)
Byte == 48..57

\* The digits of m, from those of the numbers before it.
Digits(f, m) == IF m < 10 THEN <<48 + m>> ELSE Append(f[m \div 10], 48 + (m % 10))

Decimals(f, n) == f \in [0..n -> Seq(Byte)] /\ \A m \in 0..n : f[m] = Digits(f, m)

\* Quotient and remainder.
LEMMA Tenth ==
  ASSUME NEW m \in Nat, m >= 10
  PROVE  m \div 10 \in Nat /\ m \div 10 < m /\ m % 10 \in 0..9 /\ m = (10 * (m \div 10)) + (m % 10)
<1>1. PICK q, r : q = m \div 10 /\ r = m % 10
  OBVIOUS
<1>2. q \in Int /\ r \in Int
  BY <1>1
<1>3. 0 <= r /\ r < 10
  BY <1>1
<1>4. m = (10 * q) + r
  BY <1>1
<1>5. q >= 0
  BY <1>2, <1>3, <1>4
<1>6. q < m
  BY <1>2, <1>3, <1>4, <1>5
<1> QED
  BY <1>1, <1>2, <1>3, <1>4, <1>5, <1>6

\* There are decimal texts of all numbers up to n.
LEMMA DecimalsExist ==
  ASSUME NEW n \in Nat
  PROVE  \E f : Decimals(f, n)
<1> DEFINE P == { m \in Nat : \E f : Decimals(f, m) }
<1>1. 0 \in P
  <2> DEFINE f == [i \in 0..0 |-> <<48>>]
  <2>1. f \in [0..0 -> Seq(Byte)] /\ f[0] = <<48 + 0>> /\ 0 < 10 /\ \A m \in 0..0 : m = 0
    BY DEF Byte
  <2> HIDE DEF f
  <2>2. Decimals(f, 0)
    BY <2>1 DEF Decimals, Digits
  <2> QED
    BY <2>2
<1>2. ASSUME NEW m \in Nat, m \in P PROVE m + 1 \in P
  <2>1. PICK f : Decimals(f, m)
    BY <1>2
  <2> DEFINE v == Digits(f, m + 1)
             g == [i \in 0..(m + 1) |-> IF i <= m THEN f[i] ELSE v]
  <2>2. v \in Seq(Byte)
    <3>1. CASE m + 1 < 10
      <4>1. PICK b : b = 48 + (m + 1)
        OBVIOUS
      <4>2. v = <<b>> /\ b \in Byte
        BY <3>1, <4>1 DEF Digits, Byte
      <4>3. <<b>> \in Seq(Byte)
        BY <4>2
      <4> QED
        BY <4>2, <4>3
    <3>2. CASE ~(m + 1 < 10)
      <4>1. PICK q, r : q = (m + 1) \div 10 /\ r = (m + 1) % 10
        OBVIOUS
      <4>2. q \in 0..m /\ r \in 0..9
        <5>1. m + 1 \in Nat /\ m + 1 >= 10
          BY <3>2
        <5>2. q \in Nat /\ q < m + 1 /\ r \in 0..9
          BY <4>1, <5>1, Tenth
        <5> QED
          BY <5>2
      <4>3. f[q] \in Seq(Byte) /\ 48 + r \in Byte
        BY <2>1, <4>2 DEF Decimals, Byte
      <4>4. v = Append(f[q], 48 + r)
        BY <3>2, <4>1 DEF Digits
      <4> QED
        BY <4>3, <4>4
    <3> QED
      BY <3>1, <3>2
  <2>3. g \in [0..(m + 1) -> Seq(Byte)]
    BY <2>1, <2>2 DEF Decimals
  <2>4. ASSUME NEW i \in 0..(m + 1) PROVE g[i] = Digits(g, i)
    <3>1. i >= 10 => g[i \div 10] = f[i \div 10]
      <4>1. ASSUME i >= 10 PROVE i \div 10 \in 0..m
        BY <4>1, Tenth
      <4> QED
        BY <4>1
    <3>2. Digits(g, i) = Digits(f, i)
      BY <3>1 DEF Digits
    <3>3. CASE i <= m
      BY <2>1, <3>2, <3>3 DEF Decimals
    <3>4. CASE i = m + 1
      BY <3>2, <3>4
    <3> QED
      BY <3>3, <3>4
  <2> HIDE DEF g
  <2> QED
    BY <2>3, <2>4 DEF Decimals
<1>3. Nat \subseteq P
  <2> HIDE DEF P
  <2> QED
    BY <1>1, <1>2, SetInduction
<1> QED
  BY <1>3

\* They do not depend on how far one goes.
LEMMA DecimalsAgree ==
  ASSUME NEW m \in Nat, NEW n \in Nat, m <= n, NEW f, NEW g, Decimals(f, m), Decimals(g, n), NEW k \in 0..m
  PROVE  f[k] = g[k]
<1> DEFINE B == { i \in 0..m : f[i] # g[i] }
<1> SUFFICES ASSUME B # {} PROVE FALSE
  OBVIOUS
<1>1. PICK i \in B : \A j \in B : i <= j
  <2>1. B \in SUBSET Nat
    OBVIOUS
  <2> HIDE DEF B
  <2> QED
    BY <2>1, LeastNatural
<1>2. i \in 0..m /\ i \in 0..n /\ f[i] # g[i]
  BY <1>1
<1>3. f[i] = Digits(f, i) /\ g[i] = Digits(g, i)
  BY <1>2 DEF Decimals
<1>4. CASE i < 10
  BY <1>2, <1>3, <1>4 DEF Digits
<1>5. CASE i >= 10
  <2>1. i \div 10 \in Nat /\ i \div 10 < i
    BY <1>2, <1>5, Tenth
  <2>2. i \div 10 \in 0..m /\ ~(i <= i \div 10)
    BY <1>2, <2>1
  <2>3. i \div 10 \notin B
    BY <1>1, <2>2
  <2>4. f[i \div 10] = g[i \div 10]
    BY <2>2, <2>3
  <2> QED
    BY <1>2, <1>3, <1>5, <2>4 DEF Digits
<1> QED
  BY <1>2, <1>4, <1>5

\* to_string by its equations.
LEMMA ToStringIs ==
  ASSUME NEW n \in Nat
  PROVE  /\ Lev!to_string(n) \in Seq(Byte)
         /\ n < 10 => Lev!to_string(n) = <<48 + n>>
         /\ n >= 10 => Lev!to_string(n) = Append(Lev!to_string(n \div 10), 48 + (n % 10))
<1> DEFINE Fits(f, k) == f = [m \in 0..k |-> IF m < 10 THEN <<48 + m>> ELSE Append(f[m \div 10], 48 + (m % 10))]
           D(k) == CHOOSE f : Fits(f, k)
<1>1. \A k : Lev!to_string(k) = D(k)[k]
  BY DEF Lev!to_string
<1>2. ASSUME NEW k \in Nat PROVE Decimals(D(k), k)
  <2>1. PICK f : Decimals(f, k)
    BY DecimalsExist
  <2>2. Fits(f, k)
    BY <2>1 DEF Decimals, Digits
  <2>3. Fits(D(k), k)
    BY <2>2
  <2>4. PICK g : g = D(k)
    OBVIOUS
  <2>5. DOMAIN g = 0..k /\ \A m \in 0..k : g[m] = Digits(g, m)
    BY <2>3, <2>4 DEF Digits
  <2> DEFINE P == { m \in Nat : \A i \in 0..m : i <= k => g[i] = f[i] }
  <2>6. 0 \in P
    BY <2>1, <2>5 DEF Decimals, Digits
  <2>7. ASSUME NEW m \in Nat, m \in P PROVE m + 1 \in P
    <3> SUFFICES ASSUME m + 1 <= k PROVE g[m + 1] = f[m + 1]
      BY <2>7
    <3>1. m + 1 \in 0..k
      OBVIOUS
    <3>2. g[m + 1] = Digits(g, m + 1) /\ f[m + 1] = Digits(f, m + 1)
      BY <2>1, <2>5, <3>1 DEF Decimals
    <3>3. ASSUME m + 1 >= 10 PROVE g[(m + 1) \div 10] = f[(m + 1) \div 10]
      <4>1. PICK q : q = (m + 1) \div 10
        OBVIOUS
      <4>2. q \in 0..m /\ q <= k
        BY <3>3, <4>1, Tenth
      <4> QED
        BY <2>7, <4>1, <4>2
    <3> QED
      BY <3>2, <3>3 DEF Digits
  <2>8. Nat \subseteq P
    <3> HIDE DEF P
    <3> QED
      BY <2>6, <2>7, SetInduction
  <2>9. \A i \in 0..k : g[i] = f[i]
    BY <2>8
  <2>10. g = f
    <3>1. g = [m \in 0..k |-> g[m]]
      BY <2>3, <2>4
    <3>2. f = [m \in 0..k |-> f[m]]
      BY <2>1 DEF Decimals
    <3> QED
      BY <2>9, <3>1, <3>2
  <2> QED
    BY <2>1, <2>4, <2>10
<1> HIDE DEF D
<1>3. D(n)[n] = Digits(D(n), n) /\ D(n)[n] \in Seq(Byte)
  <2>1. PICK f : f = D(n)
    OBVIOUS
  <2>2. Decimals(f, n) /\ n \in 0..n
    BY <1>2, <2>1
  <2>3. f[n] = Digits(f, n) /\ f[n] \in Seq(Byte)
    BY <2>2 DEF Decimals
  <2> QED
    BY <2>1, <2>3
<1>4. ASSUME n >= 10 PROVE D(n)[n \div 10] = Lev!to_string(n \div 10)
  <2>1. PICK q : q = n \div 10
    OBVIOUS
  <2>2. q \in Nat /\ q <= n
    BY <1>4, <2>1, Tenth
  <2>3. Decimals(D(q), q) /\ Decimals(D(n), n) /\ q \in 0..q
    BY <1>2, <2>2
  <2>4. D(q)[q] = D(n)[q]
    BY <2>2, <2>3, DecimalsAgree
  <2> QED
    BY <1>1, <2>1, <2>4
<1>5. Lev!to_string(n) = Digits(D(n), n)
  BY <1>1, <1>3
<1>6. Lev!to_string(n) \in Seq(Byte)
  BY <1>1, <1>3
<1> QED
  BY <1>4, <1>5, <1>6 DEF Digits

\* A decimal text is not empty.
LEMMA ToStringLen ==
  ASSUME NEW n \in Nat
  PROVE  Len(Lev!to_string(n)) \in Nat \ {0}
<1>1. CASE n < 10
  <2>1. Lev!to_string(n) = <<48 + n>>
    BY <1>1, ToStringIs
  <2> QED
    BY <2>1
<1>2. CASE n >= 10
  <2>1. PICK t, d : t = Lev!to_string(n \div 10) /\ d = 48 + (n % 10)
    OBVIOUS
  <2>2. n \div 10 \in Nat
    BY <1>2, Tenth
  <2>3. t \in Seq(Byte)
    BY <2>1, <2>2, ToStringIs
  <2>4. Lev!to_string(n) = Append(t, d)
    BY <1>2, <2>1, ToStringIs
  <2>5. Len(Append(t, d)) = Len(t) + 1 /\ Len(t) \in Nat
    BY <2>3
  <2> QED
    BY <2>4, <2>5
<1> QED
  BY <1>1, <1>2

\* Two numbers with the same decimal text are equal.
LEMMA ToStringOnce ==
  ASSUME NEW m \in Nat, NEW n \in Nat, Lev!to_string(m) = Lev!to_string(n)
  PROVE  m = n
<1> DEFINE Twice(k) == \E j \in Nat : k # j /\ Lev!to_string(k) = Lev!to_string(j)
           B == { k \in Nat : Twice(k) }
<1> SUFFICES ASSUME B # {} PROVE FALSE
  OBVIOUS
<1>1. PICK k \in B : \A i \in B : k <= i
  <2>1. B \in SUBSET Nat
    OBVIOUS
  <2> HIDE DEF B
  <2> QED
    BY <2>1, LeastNatural
<1>2. PICK j \in Nat : k # j /\ Lev!to_string(k) = Lev!to_string(j)
  BY <1>1
<1>3. k \in Nat /\ j \in B
  BY <1>1, <1>2
<1>4. k < j
  BY <1>1, <1>2, <1>3
<1> HIDE DEF B
<1>5. CASE j < 10
  <2>1. k < 10
    BY <1>3, <1>4, <1>5
  <2>2. Lev!to_string(k) = <<48 + k>>
    BY <1>3, <2>1, ToStringIs
  <2>3. Lev!to_string(j) = <<48 + j>>
    BY <1>5, ToStringIs
  <2>4. <<48 + k>>[1] = <<48 + j>>[1]
    BY <1>2, <2>2, <2>3
  <2>5. 48 + k = 48 + j
    BY <2>4
  <2> QED
    BY <1>2, <1>3, <2>5
<1>6. CASE j >= 10
  <2>1. PICK q, r, t, d : q = j \div 10 /\ r = j % 10 /\ t = Lev!to_string(q) /\ d = 48 + r
    OBVIOUS
  <2>2. q \in Nat /\ q < j /\ r \in 0..9 /\ j = (10 * q) + r
    BY <1>6, <2>1, Tenth
  <2>3. t \in Seq(Byte) /\ Len(t) \in Nat \ {0}
    BY <2>1, <2>2, ToStringIs, ToStringLen
  <2>4. Lev!to_string(j) = Append(t, d)
    BY <1>6, <2>1, ToStringIs
  <2>5. CASE k < 10
    <3>1. Lev!to_string(k) = <<48 + k>>
      BY <1>3, <2>5, ToStringIs
    <3>2. Len(Append(t, d)) = Len(t) + 1 /\ Len(<<48 + k>>) = 1
      BY <2>3
    <3> QED
      BY <1>2, <2>3, <2>4, <3>1, <3>2
  <2>6. CASE k >= 10
    <3>1. PICK p, s, u, e : p = k \div 10 /\ s = k % 10 /\ u = Lev!to_string(p) /\ e = 48 + s
      OBVIOUS
    <3>2. p \in Nat /\ p < k /\ s \in 0..9 /\ k = (10 * p) + s
      BY <1>3, <2>6, <3>1, Tenth
    <3>3. u \in Seq(Byte)
      BY <3>1, <3>2, ToStringIs
    <3>4. Lev!to_string(k) = Append(u, e)
      BY <1>3, <2>6, <3>1, ToStringIs
    <3>5. Append(u, e) = Append(t, d)
      BY <1>2, <2>4, <3>4
    <3>6. u = t /\ e = d
      <4>1. Len(u) + 1 = Len(t) + 1 /\ Len(u) \in Nat /\ Len(t) \in Nat
        BY <2>3, <3>3, <3>5
      <4>2. Append(u, e)[Len(u) + 1] = e /\ Append(t, d)[Len(t) + 1] = d
        BY <2>3, <3>3
      <4>3. ASSUME NEW i \in 1..Len(u) PROVE u[i] = t[i]
        BY <2>3, <3>3, <3>5, <4>1
      <4>4. u = t
        BY <2>3, <3>3, <4>1, <4>3
      <4> QED
        BY <3>5, <4>1, <4>2, <4>4
    <3>7. r = s
      BY <2>1, <2>2, <3>1, <3>2, <3>6
    <3>8. p # q
      BY <1>2, <2>2, <3>2, <3>7
    <3>9. p \in B
      BY <2>1, <2>2, <3>1, <3>2, <3>6, <3>8 DEF B
    <3> QED
      BY <1>1, <1>3, <3>2, <3>9
  <2> QED
    BY <1>3, <2>5, <2>6
<1> QED
  BY <1>2, <1>5, <1>6

-----------------------------------------------------------------------------
(***************************************************************************)
(* The order of texts.                                                     *)
(***************************************************************************)
Text == Seq(Nat)

\* s is before t by what is at place i: s ends there, or has the smaller byte.
LessAt(s, t, i) ==
  /\ i \in 1..Len(t)
  /\ i <= Len(s) + 1
  /\ \A j \in 1..(i - 1) : s[j] = t[j]
  /\ i <= Len(s) => s[i] < t[i]

\* Texts with the same bytes are the same.
LEMMA SameText ==
  ASSUME NEW s \in Text, NEW t \in Text, Len(s) = Len(t), \A j \in 1..Len(s) : s[j] = t[j]
  PROVE  s = t
BY SeqEqual, Zenon DEF Text

\* A prefix, place by place.
LEMMA PrefixIs ==
  ASSUME NEW s \in Text, NEW t \in Text
  PROVE  Lev!IsPrefix(s, t) <=> Len(s) <= Len(t) /\ \A j \in 1..Len(s) : s[j] = t[j]
<1>1. Len(s) \in Nat /\ Len(t) \in Nat
  BY DEF Text
<1>2. SubSeq(s, 1, Len(s)) = [j \in 1..Len(s) |-> s[j]]
  BY <1>1 DEF Text
<1>3. ASSUME Len(s) <= Len(t) PROVE SubSeq(t, 1, Len(s)) = [j \in 1..Len(s) |-> t[j]]
  BY <1>1, <1>3 DEF Text
<1>4. ASSUME Len(s) <= Len(t), SubSeq(s, 1, Len(s)) = SubSeq(t, 1, Len(s)), NEW j \in 1..Len(s)
      PROVE  s[j] = t[j]
  <2>1. [k \in 1..Len(s) |-> s[k]][j] = [k \in 1..Len(s) |-> t[k]][j]
    BY <1>2, <1>3, <1>4
  <2> QED
    BY <2>1
<1>5. ASSUME Len(s) <= Len(t), \A j \in 1..Len(s) : s[j] = t[j]
      PROVE  SubSeq(s, 1, Len(s)) = SubSeq(t, 1, Len(s))
  BY <1>2, <1>3, <1>5
<1> QED
  BY <1>4, <1>5 DEF Lev!IsPrefix

\* The order, place by place.
LEMMA LessIs ==
  ASSUME NEW s \in Text, NEW t \in Text
  PROVE  Lev!StringLess(s, t) <=> \E i \in Nat : LessAt(s, t, i)
<1>1. Len(s) \in Nat /\ Len(t) \in Nat /\ DOMAIN s = 1..Len(s) /\ DOMAIN t = 1..Len(t)
  BY DEF Text
<1>2. ASSUME Lev!IsStrictPrefix(s, t) PROVE \E i \in Nat : LessAt(s, t, i)
  <2>1. Len(s) <= Len(t) /\ s # t /\ \A j \in 1..Len(s) : s[j] = t[j]
    BY <1>2, PrefixIs DEF Lev!IsStrictPrefix
  <2>2. Len(s) # Len(t)
    BY <2>1, SameText
  <2>3. LessAt(s, t, Len(s) + 1)
    <3>1. Len(s) <= Len(t)
      BY <2>1
    <3>2. Len(s) + 1 \in 1..Len(t)
      <4>1. PICK a, b : a = Len(s) /\ b = Len(t)
        OBVIOUS
      <4>2. a \in Nat /\ b \in Nat /\ a <= b /\ a # b
        BY <1>1, <2>2, <3>1, <4>1
      <4>3. a + 1 \in 1..b
        BY <4>2
      <4> QED
        BY <4>1, <4>3
    <3>3. (Len(s) + 1) - 1 = Len(s) /\ ~(Len(s) + 1 <= Len(s)) /\ Len(s) + 1 <= Len(s) + 1
      BY <1>1
    <3>4. \A j \in 1..((Len(s) + 1) - 1) : s[j] = t[j]
      BY <2>1, <3>3
    <3> QED
      BY <3>2, <3>3, <3>4 DEF LessAt
  <2> QED
    BY <1>1, <2>3
<1>3. ASSUME NEW i \in 1..Len(s) \cap 1..Len(t), s[i] < t[i], \A j \in 1..(i - 1) : s[j] = t[j]
      PROVE  \E k \in Nat : LessAt(s, t, k)
  <2>1. LessAt(s, t, i)
    BY <1>1, <1>3 DEF LessAt
  <2> QED
    BY <2>1
<1>4. ASSUME NEW i \in Nat, LessAt(s, t, i) PROVE Lev!StringLess(s, t)
  <2>1. CASE i <= Len(s)
    <3>1. i \in DOMAIN s \cap DOMAIN t /\ s[i] < t[i] /\ \A j \in 1..(i - 1) : s[j] = t[j]
      BY <1>1, <1>4, <2>1 DEF LessAt
    <3> QED
      BY <3>1 DEF Lev!StringLess
  <2>2. CASE i = Len(s) + 1
    <3>1. Len(s) < Len(t) /\ \A j \in 1..Len(s) : s[j] = t[j]
      BY <1>1, <1>4, <2>2 DEF LessAt
    <3>2. s # t
      BY <1>1, <3>1
    <3>3. Lev!IsPrefix(s, t)
      BY <1>1, <3>1, PrefixIs
    <3> QED
      BY <3>2, <3>3 DEF Lev!StringLess, Lev!IsStrictPrefix
  <2> QED
    BY <1>1, <1>4, <2>1, <2>2 DEF LessAt
<1> QED
  BY <1>1, <1>2, <1>3, <1>4 DEF Lev!StringLess

\* No text is before itself.
LEMMA LessNot ==
  ASSUME NEW s \in Text
  PROVE  ~Lev!StringLess(s, s)
<1>1. \A i \in 1..Len(s) : s[i] \in Nat
  BY DEF Text
<1>2. ASSUME NEW i \in Nat, LessAt(s, s, i) PROVE FALSE
  BY <1>1, <1>2 DEF LessAt
<1> QED
  BY <1>2, LessIs

\* The order is transitive.
LEMMA LessTrans ==
  ASSUME NEW s \in Text, NEW t \in Text, NEW u \in Text, Lev!StringLess(s, t), Lev!StringLess(t, u)
  PROVE  Lev!StringLess(s, u)
<1>1. Len(s) \in Nat /\ Len(t) \in Nat /\ Len(u) \in Nat
  BY DEF Text
<1>2. /\ \A i \in 1..Len(s) : s[i] \in Nat
      /\ \A i \in 1..Len(t) : t[i] \in Nat
      /\ \A i \in 1..Len(u) : u[i] \in Nat
  BY DEF Text
<1>3. PICK i \in Nat : LessAt(s, t, i)
  BY LessIs
<1>4. PICK k \in Nat : LessAt(t, u, k)
  BY LessIs
<1>5. CASE i < k
  <2>1. LessAt(s, u, i)
    BY <1>1, <1>2, <1>3, <1>4, <1>5 DEF LessAt
  <2> QED
    BY <2>1, LessIs
<1>6. CASE k < i
  <2>1. LessAt(s, u, k)
    BY <1>1, <1>2, <1>3, <1>4, <1>6 DEF LessAt
  <2> QED
    BY <2>1, LessIs
<1>7. CASE i = k
  <2>1. LessAt(s, u, k)
    BY <1>1, <1>2, <1>3, <1>4, <1>7 DEF LessAt
  <2> QED
    BY <2>1, LessIs
<1> QED
  BY <1>5, <1>6, <1>7

\* Of two different texts one is before the other.
LEMMA LessTotal ==
  ASSUME NEW s \in Text, NEW t \in Text, s # t
  PROVE  Lev!StringLess(s, t) \/ Lev!StringLess(t, s)
<1>1. Len(s) \in Nat /\ Len(t) \in Nat
  BY DEF Text
<1>2. /\ \A i \in 1..Len(s) : s[i] \in Nat
      /\ \A i \in 1..Len(t) : t[i] \in Nat
  BY DEF Text
<1> DEFINE B == { i \in Nat \ {0} : i <= Len(s) /\ i <= Len(t) => s[i] # t[i] }
<1>3. Len(s) + 1 \in B
  BY <1>1
<1>4. PICK m \in B : \A i \in B : m <= i
  <2>1. B \in SUBSET Nat
    OBVIOUS
  <2> HIDE DEF B
  <2> QED
    BY <1>3, <2>1, LeastNatural
<1>5. m \in Nat \ {0} /\ (m <= Len(s) /\ m <= Len(t) => s[m] # t[m])
  BY <1>4
<1>6. ASSUME NEW j \in 1..(m - 1) PROVE j <= Len(s) /\ j <= Len(t) /\ s[j] = t[j]
  <2>1. j \notin B
    BY <1>4, <1>5
  <2> QED
    BY <1>5, <2>1
<1> HIDE DEF B
<1>7. m <= Len(s) + 1 /\ m <= Len(t) + 1
  <2>1. ASSUME m > 1 PROVE m - 1 <= Len(s) /\ m - 1 <= Len(t)
    BY <1>5, <1>6, <2>1
  <2> QED
    BY <1>1, <1>5, <2>1
<1>8. CASE m <= Len(s) /\ m <= Len(t)
  <2>1. s[m] < t[m] \/ t[m] < s[m]
    BY <1>1, <1>2, <1>5, <1>8
  <2>2. LessAt(s, t, m) \/ LessAt(t, s, m)
    BY <1>1, <1>5, <1>6, <1>8, <2>1 DEF LessAt
  <2> QED
    BY <1>5, <2>2, LessIs
<1>9. CASE m = Len(s) + 1 /\ m <= Len(t)
  <2>1. LessAt(s, t, m)
    BY <1>1, <1>5, <1>6, <1>9 DEF LessAt
  <2> QED
    BY <1>5, <2>1, LessIs
<1>10. CASE m = Len(t) + 1 /\ m <= Len(s)
  <2>1. LessAt(t, s, m)
    BY <1>1, <1>5, <1>6, <1>10 DEF LessAt
  <2> QED
    BY <1>5, <2>1, LessIs
<1>11. CASE m = Len(s) + 1 /\ m = Len(t) + 1
  <2>1. Len(s) = Len(t) /\ \A j \in 1..Len(s) : s[j] = t[j]
    BY <1>1, <1>6, <1>11
  <2>2. s = t
    BY <2>1, SameText
  <2> QED
    BY <2>2
<1> QED
  BY <1>1, <1>5, <1>7, <1>8, <1>9, <1>10, <1>11

-----------------------------------------------------------------------------
(***************************************************************************)
(* The keys of the entries.                                                *)
(***************************************************************************)
\* What queryFormula seeks: the formula id and "!".
Stem(id) == Lev!to_string(id) \o Lev!Bang

\* A decimal text, place by place.
LEMMA ToStringText ==
  ASSUME NEW n \in Nat, NEW s, s = Lev!to_string(n)
  PROVE  /\ s \in Text /\ Len(s) \in Nat /\ Len(s) >= 1
         /\ \A j \in 1..Len(s) : s[j] \in Nat /\ 48 <= s[j] /\ s[j] <= 57
<1>1. s \in Seq(Byte) /\ Len(s) \in Nat \ {0}
  BY ToStringIs, ToStringLen
<1>2. \A j \in 1..Len(s) : s[j] \in Byte
  BY <1>1
<1>3. \A j \in 1..Len(s) : s[j] \in Nat /\ 48 <= s[j] /\ s[j] <= 57
  BY <1>2 DEF Byte
<1>4. s \in Text
  BY <1>1, <1>3 DEF Text
<1> QED
  BY <1>1, <1>3, <1>4

\* A stem, place by place.
StemIs(m, s) ==
  /\ m \in Text /\ Len(m) = Len(s) + 1
  /\ \A j \in 1..Len(s) : m[j] = s[j]
  /\ m[Len(s) + 1] = 33
  /\ \A j \in 1..Len(m) : m[j] < 255

\* A key, place by place.
KeyIs(k, m, d) ==
  /\ k \in Text /\ Len(k) = Len(m) + Len(d) /\ Len(d) >= 1 /\ Len(m) \in Nat /\ Len(d) \in Nat
  /\ \A j \in 1..Len(m) : k[j] = m[j]
  /\ \A j \in 1..Len(d) : k[Len(m) + j] = d[j]
  /\ \A j \in 1..Len(k) : k[j] < 255

\* What a stem is made of.
LEMMA StemText ==
  ASSUME NEW id \in Nat
  PROVE  StemIs(Stem(id), Lev!to_string(id))
<1>0. PICK s, m : s = Lev!to_string(id) /\ m = Stem(id)
  OBVIOUS
<1>1. /\ s \in Text /\ Len(s) \in Nat /\ Len(s) >= 1
      /\ \A j \in 1..Len(s) : s[j] \in Nat /\ 48 <= s[j] /\ s[j] <= 57
  BY <1>0, ToStringText
<1>2. m = s \o <<33>>
  BY <1>0 DEF Stem, Lev!Bang
<1>3. m \in Text
  BY <1>1, <1>2 DEF Text
<1>4. Len(m) = Len(s) + 1
  BY <1>1, <1>2 DEF Text
<1>5. \A j \in 1..Len(s) : m[j] = s[j]
  BY <1>1, <1>2 DEF Text
<1>6. m[Len(s) + 1] = 33
  BY <1>1, <1>2 DEF Text
<1>7. ASSUME NEW j \in 1..Len(m) PROVE m[j] < 255
  <2>1. j \in 1..Len(s) \/ j = Len(s) + 1
    BY <1>1, <1>4
  <2> QED
    BY <1>1, <1>5, <1>6, <2>1
<1>8. StemIs(m, s)
  BY <1>3, <1>4, <1>5, <1>6, <1>7, Zenon DEF StemIs
<1> QED
  BY <1>0, <1>8, Zenon

\* What a key is made of.
LEMMA KeyText ==
  ASSUME NEW id \in Nat, NEW c \in Nat
  PROVE  KeyIs(Lev!Key(id, c), Stem(id), Lev!to_string(c))
<1>0. PICK m, d, k : m = Stem(id) /\ d = Lev!to_string(c) /\ k = Lev!Key(id, c)
  OBVIOUS
<1>1. /\ d \in Text /\ Len(d) \in Nat /\ Len(d) >= 1
      /\ \A j \in 1..Len(d) : d[j] \in Nat /\ 48 <= d[j] /\ d[j] <= 57
  BY <1>0, ToStringText
<1>2. m \in Text /\ Len(m) \in Nat /\ \A j \in 1..Len(m) : m[j] < 255
  <2>1. m \in Text
    BY <1>0, StemText DEF StemIs
  <2>2. \A j \in 1..Len(m) : m[j] < 255
    BY <1>0, StemText DEF StemIs
  <2> QED
    BY <2>1, <2>2 DEF Text
<1>3. k = m \o d
  BY <1>0 DEF Lev!Key, Stem
<1>4. k \in Text
  BY <1>1, <1>2, <1>3 DEF Text
<1>5. Len(k) = Len(m) + Len(d)
  BY <1>1, <1>2, <1>3 DEF Text
<1>6. \A j \in 1..Len(m) : k[j] = m[j]
  BY <1>1, <1>2, <1>3 DEF Text
<1>7. ASSUME NEW j \in 1..Len(d) PROVE k[Len(m) + j] = d[j]
  BY <1>1, <1>2, <1>3 DEF Text
<1>8. ASSUME NEW j \in 1..Len(k) PROVE k[j] < 255
  <2>1. CASE j <= Len(m)
    BY <1>2, <1>6, <2>1
  <2>2. CASE j > Len(m)
    <3>1. j - Len(m) \in 1..Len(d) /\ Len(m) + (j - Len(m)) = j
      BY <1>1, <1>2, <1>5, <2>2
    <3>2. k[j] = d[j - Len(m)]
      BY <1>7, <3>1
    <3>3. d[j - Len(m)] \in Nat /\ d[j - Len(m)] <= 57
      BY <1>1, <3>1
    <3> QED
      BY <3>2, <3>3
  <2> QED
    BY <1>2, <2>1, <2>2
<1>9. KeyIs(k, m, d)
  BY <1>1, <1>2, <1>4, <1>5, <1>6, <1>7, <1>8, Zenon DEF KeyIs
<1> QED
  BY <1>0, <1>9, Zenon

\* The keys that start with the stem of a formula are those of the formula: a
\* digit is never "!", whatever the texts of the ids.
LEMMA StemOf ==
  ASSUME NEW id \in Nat, NEW other \in Nat, NEW c \in Nat
  PROVE  Lev!IsPrefix(Stem(id), Lev!Key(other, c)) <=> id = other
<1>1. PICK s, t, m, n, d, k : /\ s = Lev!to_string(id) /\ t = Lev!to_string(other) /\ m = Stem(id) /\ n = Stem(other)
                              /\ d = Lev!to_string(c) /\ k = Lev!Key(other, c)
  OBVIOUS
<1>2. /\ s \in Text /\ Len(s) \in Nat /\ Len(s) >= 1
      /\ \A j \in 1..Len(s) : s[j] \in Nat /\ 48 <= s[j] /\ s[j] <= 57
  BY <1>1, ToStringText
<1>3. /\ t \in Text /\ Len(t) \in Nat /\ Len(t) >= 1
      /\ \A j \in 1..Len(t) : t[j] \in Nat /\ 48 <= t[j] /\ t[j] <= 57
  BY <1>1, ToStringText
<1>4. /\ m \in Text /\ Len(m) = Len(s) + 1
      /\ \A j \in 1..Len(s) : m[j] = s[j]
      /\ m[Len(s) + 1] = 33
  BY <1>1, StemText DEF StemIs
<1>5. /\ n \in Text /\ Len(n) = Len(t) + 1
      /\ \A j \in 1..Len(t) : n[j] = t[j]
      /\ n[Len(t) + 1] = 33
  BY <1>1, StemText DEF StemIs
<1>6. /\ k \in Text /\ Len(k) = Len(n) + Len(d) /\ Len(d) >= 1 /\ Len(d) \in Nat
      /\ \A j \in 1..Len(n) : k[j] = n[j]
  <2>1. KeyIs(k, n, d)
    BY <1>1, KeyText, Zenon
  <2> QED
    BY <2>1 DEF KeyIs
<1>7. Lev!IsPrefix(m, k) <=> Len(m) <= Len(k) /\ \A j \in 1..Len(m) : m[j] = k[j]
  BY <1>4, <1>6, PrefixIs
<1>8. ASSUME Len(m) <= Len(k), \A j \in 1..Len(m) : m[j] = k[j] PROVE id = other
  <2>1. CASE Len(s) < Len(t)
    <3>1. Len(s) + 1 \in 1..Len(t) /\ Len(s) + 1 \in 1..Len(m) /\ Len(s) + 1 \in 1..Len(n)
      BY <1>2, <1>3, <1>4, <1>5, <2>1
    <3>2. 33 = t[Len(s) + 1]
      BY <1>4, <1>5, <1>6, <1>8, <3>1
    <3> QED
      BY <1>3, <3>1, <3>2
  <2>2. CASE Len(t) < Len(s)
    <3>1. Len(t) + 1 \in 1..Len(s) /\ Len(t) + 1 \in 1..Len(m) /\ Len(t) + 1 \in 1..Len(n)
      BY <1>2, <1>3, <1>4, <1>5, <2>2
    <3>2. 33 = s[Len(t) + 1]
      BY <1>4, <1>5, <1>6, <1>8, <3>1
    <3> QED
      BY <1>2, <3>1, <3>2
  <2>3. CASE Len(s) = Len(t)
    <3>1. ASSUME NEW j \in 1..Len(s) PROVE s[j] = t[j]
      <4>1. j \in 1..Len(m) /\ j \in 1..Len(n) /\ j \in 1..Len(t)
        BY <1>2, <1>4, <1>5, <2>3
      <4> QED
        BY <1>4, <1>5, <1>6, <1>8, <4>1
    <3>2. s = t
      BY <1>2, <1>3, <2>3, <3>1, SameText
    <3> QED
      BY <1>1, <3>2, ToStringOnce
  <2> QED
    BY <1>2, <1>3, <2>1, <2>2, <2>3
<1>9. ASSUME id = other PROVE Len(m) <= Len(k) /\ \A j \in 1..Len(m) : m[j] = k[j]
  <2>1. m = n
    BY <1>1, <1>9
  <2> QED
    BY <1>3, <1>5, <1>6, <2>1
<1> QED
  BY <1>1, <1>7, <1>8, <1>9

\* Two hits have different keys.
LEMMA KeyOnce ==
  ASSUME NEW id \in Nat, NEW other \in Nat, NEW c \in Nat, NEW e \in Nat, Lev!Key(id, c) = Lev!Key(other, e)
  PROVE  id = other /\ c = e
<1>1. id = other
  <2>1. Lev!IsPrefix(Stem(id), Lev!Key(id, c))
    BY StemOf
  <2> QED
    BY <2>1, StemOf
<1>2. PICK m, d, f, k : m = Stem(id) /\ d = Lev!to_string(c) /\ f = Lev!to_string(e) /\ k = Lev!Key(id, c)
  OBVIOUS
<1>3. /\ Len(k) = Len(m) + Len(d) /\ Len(m) \in Nat /\ Len(d) \in Nat
      /\ \A j \in 1..Len(d) : k[Len(m) + j] = d[j]
  <2>1. KeyIs(k, m, d)
    BY <1>2, KeyText, Zenon
  <2> QED
    BY <2>1 DEF KeyIs
<1>4. /\ Len(k) = Len(m) + Len(f) /\ Len(m) \in Nat /\ Len(f) \in Nat
      /\ \A j \in 1..Len(f) : k[Len(m) + j] = f[j]
  <2>1. KeyIs(Lev!Key(other, e), Stem(other), Lev!to_string(e))
    BY KeyText, Zenon
  <2>2. KeyIs(k, m, f)
    BY <1>1, <1>2, <2>1
  <2> QED
    BY <2>2 DEF KeyIs
<1>5. d \in Text /\ f \in Text
  BY <1>2, ToStringText
<1>6. Len(d) = Len(f)
  BY <1>3, <1>4
<1>7. \A j \in 1..Len(d) : d[j] = f[j]
  BY <1>3, <1>4, <1>6
<1>8. d = f
  BY <1>5, <1>6, <1>7, SameText
<1> QED
  BY <1>1, <1>2, <1>8, ToStringOnce

\* The entries between a stem and the stem with "\xff" are those it is a prefix of.
LEMMA StemRange ==
  ASSUME NEW m \in Text, \A j \in 1..Len(m) : m[j] < 255, NEW k \in Text, \A j \in 1..Len(k) : k[j] < 255
  PROVE  /\ Lev!StringLess(k, m \o Lev!Xff) <=> Lev!StringLess(k, m) \/ Lev!IsPrefix(m, k)
         /\ Lev!IsPrefix(m, k) => ~Lev!StringLess(k, m)
<1>1. Len(m) \in Nat /\ Len(k) \in Nat
  BY DEF Text
<1>2. /\ \A i \in 1..Len(m) : m[i] \in Nat
      /\ \A i \in 1..Len(k) : k[i] \in Nat
  BY DEF Text
<1>3. PICK x : x = m \o <<255>>
  OBVIOUS
<1>4. x \in Text
  BY <1>3 DEF Text
<1>5. Len(x) = Len(m) + 1
  BY <1>3 DEF Text
<1>6. \A j \in 1..Len(m) : x[j] = m[j]
  BY <1>1, <1>3 DEF Text
<1>7. x[Len(m) + 1] = 255
  BY <1>1, <1>3 DEF Text
<1>8. Lev!IsPrefix(m, k) <=> Len(m) <= Len(k) /\ \A j \in 1..Len(m) : m[j] = k[j]
  BY PrefixIs
<1>9. ASSUME NEW i \in Nat, LessAt(k, x, i) PROVE Lev!StringLess(k, m) \/ Lev!IsPrefix(m, k)
  <2>1. CASE i <= Len(m)
    <3>1. LessAt(k, m, i)
      BY <1>1, <1>2, <1>5, <1>6, <1>9, <2>1 DEF LessAt
    <3> QED
      BY <3>1, LessIs
  <2>2. CASE i = Len(m) + 1
    <3>1. Len(m) <= Len(k) /\ \A j \in 1..Len(m) : m[j] = k[j]
      BY <1>1, <1>5, <1>6, <1>9, <2>2 DEF LessAt
    <3> QED
      BY <1>8, <3>1
  <2> QED
    BY <1>1, <1>5, <1>9, <2>1, <2>2 DEF LessAt
<1>10. ASSUME NEW i \in Nat, LessAt(k, m, i) PROVE Lev!StringLess(k, x) /\ ~Lev!IsPrefix(m, k)
  <2>1. LessAt(k, x, i)
    BY <1>1, <1>5, <1>6, <1>10 DEF LessAt
  <2>2. ~Lev!IsPrefix(m, k)
    BY <1>1, <1>2, <1>8, <1>10 DEF LessAt
  <2> QED
    BY <1>4, <2>1, <2>2, LessIs
<1>11. ASSUME Lev!IsPrefix(m, k) PROVE Lev!StringLess(k, x)
  <2>1. Len(m) <= Len(k) /\ \A j \in 1..Len(m) : m[j] = k[j]
    BY <1>8, <1>11
  <2>2. LessAt(k, x, Len(m) + 1)
    <3>1. Len(m) + 1 \in 1..Len(x) /\ Len(m) + 1 <= Len(k) + 1 /\ (Len(m) + 1) - 1 = Len(m)
      BY <1>1, <1>5, <2>1
    <3>2. \A j \in 1..Len(m) : k[j] = x[j]
      BY <1>6, <2>1
    <3>3. Len(m) + 1 <= Len(k) => k[Len(m) + 1] < x[Len(m) + 1]
      BY <1>1, <1>7
    <3> QED
      BY <3>1, <3>2, <3>3 DEF LessAt
  <2> QED
    BY <1>1, <1>4, <2>2, LessIs
<1>12. x = m \o Lev!Xff
  BY <1>3 DEF Lev!Xff
<1>13. Lev!StringLess(k, x) => \E i \in Nat : LessAt(k, x, i)
  BY <1>4, LessIs
<1>14. Lev!StringLess(k, m) => \E i \in Nat : LessAt(k, m, i)
  BY LessIs
<1> QED
  BY <1>9, <1>10, <1>11, <1>12, <1>13, <1>14

-----------------------------------------------------------------------------
(***************************************************************************)
(* The database: entries in the order of their keys.                       *)
(***************************************************************************)
Entry == [key : Text, hit : Nat]

RankIn(db, t) == Cardinality({ i \in DOMAIN db : Lev!StringLess(db[i].key, t) })

PlacesIn(db, id) == { i \in DOMAIN db : Lev!IsPrefix(Stem(id), db[i].key) }

ListIn(db, id) ==
  LET fmId == Stem(id)
      hits[n \in 0..Len(db)] ==
        IF n = 0 THEN <<>>
        ELSE IF Lev!IsPrefix(fmId, db[n].key) THEN Append(hits[n - 1], db[n].hit)
        ELSE hits[n - 1]
  IN  hits[Len(db)]

InKeyOrder(db) ==
  /\ db \in Seq(Entry)
  /\ \A i, j \in 1..Len(db) : i < j => Lev!StringLess(db[i].key, db[j].key)

\* Every entry is one of the first c hits, under its key.
HoldsHits(db, c) ==
  \A i \in 1..Len(db) : \E id \in FormulaIds, n \in 1..c : db[i].key = Lev!Key(id, n) /\ db[i].hit = n

\* A set of numbers up to N that has all the smaller ones of each is an interval.
LEMMA IntervalFrom1 ==
  ASSUME NEW N \in Nat, NEW S \in SUBSET (1..N), \A i \in S, j \in 1..N : j < i => j \in S
  PROVE  Cardinality(S) \in 0..N /\ S = 1..Cardinality(S)
<1> DEFINE B == { m \in Nat : m + 1 \notin S }
<1>1. N \in B
  OBVIOUS
<1>2. PICK m \in B : \A k \in B : m <= k
  <2>1. B \in SUBSET Nat /\ B # {}
    BY <1>1
  <2> HIDE DEF B
  <2> QED
    BY <2>1, LeastNatural
<1>3. m \in 0..N /\ m + 1 \notin S
  BY <1>1, <1>2
<1>4. ASSUME NEW i \in 1..m PROVE i \in S
  <2>1. i - 1 \in Nat /\ i - 1 < m /\ (i - 1) + 1 = i
    BY <1>3
  <2>2. i - 1 \notin B
    BY <1>2, <1>3, <2>1
  <2> QED
    BY <2>1, <2>2
<1>5. ASSUME NEW i \in S PROVE i \in 1..m
  <2>1. CASE i > m
    <3>1. i = m + 1 \/ m + 1 < i
      BY <1>3, <2>1
    <3>2. m + 1 \in 1..N
      BY <1>3, <2>1
    <3> QED
      BY <1>3, <3>1, <3>2
  <2> QED
    BY <1>3, <2>1
<1>6. S = 1..m
  BY <1>4, <1>5
<1>7. Cardinality(1..m) = m
  BY <1>3, FS_Interval
<1> QED
  BY <1>3, <1>6, <1>7

\* The type of the entries.
LEMMA EntryIs ==
  ASSUME NEW db \in Seq(Entry)
  PROVE  /\ Len(db) \in Nat /\ DOMAIN db = 1..Len(db)
         /\ \A i \in 1..Len(db) : db[i].key \in Text /\ db[i].hit \in Nat
<1>1. Len(db) \in Nat /\ DOMAIN db = 1..Len(db) /\ \A i \in 1..Len(db) : db[i] \in Entry
  BY LenProperties, ElementOfSeq
<1>2. \A e \in Entry : e.key \in Text /\ e.hit \in Nat
  BY DEF Entry
<1> QED
  BY <1>1, <1>2

\* The rank of a text divides the entries before it from the others.
LEMMA RankIs ==
  ASSUME NEW db, InKeyOrder(db), NEW t \in Text
  PROVE  /\ RankIn(db, t) \in 0..Len(db)
         /\ \A i \in 1..Len(db) : Lev!StringLess(db[i].key, t) <=> i <= RankIn(db, t)
<1>1. /\ Len(db) \in Nat /\ DOMAIN db = 1..Len(db)
      /\ \A i \in 1..Len(db) : db[i].key \in Text
  BY EntryIs DEF InKeyOrder
<1> DEFINE S == { i \in DOMAIN db : Lev!StringLess(db[i].key, t) }
<1>2. S \in SUBSET (1..Len(db))
  BY <1>1
<1>3. ASSUME NEW i \in S, NEW j \in 1..Len(db), j < i PROVE j \in S
  <2>1. i \in 1..Len(db) /\ Lev!StringLess(db[i].key, t)
    BY <1>1
  <2>2. Lev!StringLess(db[j].key, db[i].key)
    BY <1>3, <2>1 DEF InKeyOrder
  <2>3. Lev!StringLess(db[j].key, t)
    BY <1>1, <2>1, <2>2, LessTrans
  <2> QED
    BY <1>1, <2>3
<1>4. RankIn(db, t) = Cardinality(S)
  BY DEF RankIn
<1>5. \A i \in 1..Len(db) : i \in S <=> Lev!StringLess(db[i].key, t)
  BY <1>1
<1> HIDE DEF S
<1>6. Cardinality(S) \in 0..Len(db) /\ S = 1..Cardinality(S)
  BY <1>1, <1>2, <1>3, IntervalFrom1
<1>7. ASSUME NEW i \in 1..Len(db) PROVE i \in S <=> i <= Cardinality(S)
  <2>1. PICK c : c = Cardinality(S)
    OBVIOUS
  <2>2. c \in Nat /\ i \in Nat /\ i >= 1
    BY <1>1, <1>6, <2>1
  <2>3. i \in 1..c <=> i <= c
    BY <2>2
  <2> QED
    BY <1>6, <2>1, <2>3
<1> QED
  BY <1>4, <1>5, <1>6, <1>7

\* Two numbers with the same numbers up to them are equal.
LEMMA SameRank ==
  ASSUME NEW N \in Nat, NEW a \in 0..N, NEW b \in 0..N, \A i \in 1..N : i <= a <=> i <= b
  PROVE  a = b
<1>1. ASSUME a < b PROVE FALSE
  <2>1. b \in 1..N /\ ~(b <= a)
    BY <1>1
  <2> QED
    BY <2>1
<1>2. ASSUME b < a PROVE FALSE
  <2>1. a \in 1..N /\ ~(a <= b)
    BY <1>2
  <2> QED
    BY <2>1
<1> QED
  BY <1>1, <1>2

\* The ids are numbers.
LEMMA IdIsNat ==
  ASSUME NEW id \in FormulaIds
  PROVE  id \in Nat
BY FormulaDbAssumption

\* The key of an entry.
LEMMA EntryKey ==
  ASSUME NEW db, NEW c \in Nat, HoldsHits(db, c), NEW i \in 1..Len(db)
  PROVE  \E id \in FormulaIds, n \in 1..c :
           id \in Nat /\ n \in Nat /\ db[i].key = Lev!Key(id, n) /\ db[i].hit = n
BY IdIsNat DEF HoldsHits

\* The entries of a formula are those between its stem and its stem with "\xff".
LEMMA PlacesAre ==
  ASSUME NEW db, InKeyOrder(db), NEW c \in Nat, HoldsHits(db, c), NEW id \in FormulaIds,
         NEW a, a = RankIn(db, Stem(id)), NEW b, b = RankIn(db, Stem(id) \o Lev!Xff)
  PROVE  /\ a \in Nat /\ b \in Nat /\ a <= b /\ b <= Len(db)
         /\ PlacesIn(db, id) = (a + 1)..b
<1>1. /\ Len(db) \in Nat /\ DOMAIN db = 1..Len(db)
      /\ \A i \in 1..Len(db) : db[i].key \in Text
  BY EntryIs DEF InKeyOrder
<1>2. PICK m, x : m = Stem(id) /\ x = m \o Lev!Xff
  OBVIOUS
<1>3. m \in Text /\ \A j \in 1..Len(m) : m[j] < 255
  BY <1>2, IdIsNat, StemText DEF StemIs
<1>4. x \in Text
  BY <1>2, <1>3 DEF Text, Lev!Xff
<1>5. a \in 0..Len(db) /\ \A i \in 1..Len(db) : Lev!StringLess(db[i].key, m) <=> i <= a
  BY <1>2, <1>3, RankIs
<1>6. b \in 0..Len(db) /\ \A i \in 1..Len(db) : Lev!StringLess(db[i].key, x) <=> i <= b
  BY <1>2, <1>4, RankIs
<1>7. ASSUME NEW i \in 1..Len(db) PROVE (i <= b <=> i <= a \/ Lev!IsPrefix(m, db[i].key)) /\ (Lev!IsPrefix(m, db[i].key) => ~(i <= a))
  <2>1. PICK k : k = db[i].key
    OBVIOUS
  <2>2. k \in Text /\ \A j \in 1..Len(k) : k[j] < 255
    <3>1. PICK o \in FormulaIds, n \in 1..c : o \in Nat /\ n \in Nat /\ k = Lev!Key(o, n)
      BY <2>1, EntryKey
    <3>2. KeyIs(k, Stem(o), Lev!to_string(n))
      BY <3>1, KeyText
    <3> QED
      BY <3>2 DEF KeyIs
  <2>3. /\ Lev!StringLess(k, x) <=> Lev!StringLess(k, m) \/ Lev!IsPrefix(m, k)
        /\ Lev!IsPrefix(m, k) => ~Lev!StringLess(k, m)
    BY <1>2, <1>3, <2>2, StemRange
  <2> QED
    BY <1>5, <1>6, <2>1, <2>3
<1>8. a <= b
  <2>1. CASE a = 0
    BY <1>5, <1>6, <2>1
  <2>2. CASE a # 0
    <3>1. a \in 1..Len(db)
      BY <1>1, <1>5, <2>2
    <3> QED
      BY <1>5, <1>7, <3>1
  <2> QED
    BY <2>1, <2>2
<1>9. \A i \in 1..Len(db) : i \in PlacesIn(db, id) <=> Lev!IsPrefix(m, db[i].key)
  BY <1>1, <1>2 DEF PlacesIn
<1>10. PlacesIn(db, id) \subseteq 1..Len(db)
  BY <1>1 DEF PlacesIn
<1>11. ASSUME NEW i \in PlacesIn(db, id) PROVE i \in (a + 1)..b
  <2>1. i \in 1..Len(db) /\ i <= b /\ ~(i <= a)
    BY <1>7, <1>9, <1>10
  <2> QED
    BY <1>1, <1>5, <1>6, <2>1
<1>12. ASSUME NEW i \in (a + 1)..b PROVE i \in PlacesIn(db, id)
  <2>1. i \in 1..Len(db) /\ i <= b /\ ~(i <= a)
    BY <1>1, <1>5, <1>6
  <2> QED
    BY <1>7, <1>9, <2>1
<1>13. PlacesIn(db, id) = (a + 1)..b
  BY <1>11, <1>12
<1> QED
  BY <1>1, <1>5, <1>6, <1>8, <1>13

\* The hits of the entries after place a up to place b.
HitsFrom(db, a, b) == [n \in 1..(b - a) |-> db[a + n].hit]

\* One more hit.
LEMMA HitsAppend ==
  ASSUME NEW db \in Seq(Entry), NEW a \in Nat, NEW n \in 1..Len(db), a < n
  PROVE  Append(HitsFrom(db, a, n - 1), db[n].hit) = HitsFrom(db, a, n)
<1>1. Len(db) \in Nat /\ \A i \in 1..Len(db) : db[i].hit \in Nat
  BY EntryIs
<1>2. PICK l, k, x : l = HitsFrom(db, a, n - 1) /\ k = HitsFrom(db, a, n) /\ x = db[n].hit
  OBVIOUS
<1>3. l = [m \in 1..((n - 1) - a) |-> db[a + m].hit] /\ k = [m \in 1..(n - a) |-> db[a + m].hit]
  BY <1>2 DEF HitsFrom
<1>4. l \in Seq(Nat) /\ Len(l) = (n - 1) - a
  <2>1. (n - 1) - a \in Nat
    BY <1>1
  <2>2. ASSUME NEW m \in 1..((n - 1) - a) PROVE db[a + m].hit \in Nat
    <3>1. a + m \in 1..Len(db)
      BY <1>1
    <3> QED
      BY <1>1, <3>1
  <2> QED
    BY <1>3, <2>1, <2>2
<1>5. k \in Seq(Nat) /\ Len(k) = n - a
  <2>1. n - a \in Nat
    BY <1>1
  <2>2. ASSUME NEW m \in 1..(n - a) PROVE db[a + m].hit \in Nat
    <3>1. a + m \in 1..Len(db)
      BY <1>1
    <3> QED
      BY <1>1, <3>1
  <2> QED
    BY <1>3, <2>1, <2>2
<1>6. x \in Nat
  BY <1>1, <1>2
<1>7. PICK t : t = Append(l, x)
  OBVIOUS
<1>8. t \in Seq(Nat) /\ Len(t) = n - a
  BY <1>1, <1>4, <1>6, <1>7
<1>9. ASSUME NEW m \in 1..(n - a) PROVE t[m] = k[m]
  <2>1. CASE m = n - a
    <3>1. m = Len(l) + 1 /\ a + m = n
      BY <1>1, <1>4, <2>1
    <3>2. t[m] = x
      BY <1>4, <1>7, <3>1
    <3>3. k[m] = db[n].hit
      BY <1>3, <3>1
    <3> QED
      BY <1>2, <3>2, <3>3
  <2>2. CASE m # n - a
    <3>1. m \in 1..((n - 1) - a) /\ m \in 1..Len(l)
      BY <1>1, <1>4, <2>2
    <3>2. t[m] = l[m]
      BY <1>4, <1>7, <3>1
    <3> QED
      BY <1>3, <3>1, <3>2
  <2> QED
    BY <2>1, <2>2
<1>10. t = k
  BY <1>5, <1>8, <1>9, SeqEqual
<1> QED
  BY <1>2, <1>7, <1>10

\* The hits read from the first n entries.
HitsUpTo(db, a, b, n) ==
  IF n <= a THEN <<>> ELSE IF n <= b THEN HitsFrom(db, a, n) ELSE HitsFrom(db, a, b)

\* One more entry.
LEMMA HitsUpToStep ==
  ASSUME NEW db \in Seq(Entry), NEW a \in Nat, NEW b \in Nat, NEW n \in 1..Len(db)
  PROVE  HitsUpTo(db, a, b, n) =
           IF n \in (a + 1)..b THEN Append(HitsUpTo(db, a, b, n - 1), db[n].hit) ELSE HitsUpTo(db, a, b, n - 1)
<1>1. Len(db) \in Nat /\ n \in Nat /\ n >= 1
  BY EntryIs
<1>2. HitsFrom(db, a, a) = <<>>
  BY DEF HitsFrom
<1>3. CASE n <= a
  BY <1>1, <1>3 DEF HitsUpTo
<1>4. CASE n = a + 1 /\ n <= b
  <2>1. HitsUpTo(db, a, b, n) = HitsFrom(db, a, n) /\ HitsUpTo(db, a, b, n - 1) = <<>> /\ n - 1 = a /\ n \in (a + 1)..b
    BY <1>1, <1>4 DEF HitsUpTo
  <2>2. Append(HitsFrom(db, a, n - 1), db[n].hit) = HitsFrom(db, a, n)
    <3>1. a < n
      BY <1>1, <1>4
    <3> QED
      BY <3>1, HitsAppend
  <2> QED
    BY <1>2, <2>1, <2>2
<1>5. CASE n > a + 1 /\ n <= b
  <2>1. /\ HitsUpTo(db, a, b, n) = HitsFrom(db, a, n) /\ HitsUpTo(db, a, b, n - 1) = HitsFrom(db, a, n - 1)
        /\ n \in (a + 1)..b /\ a < n
    BY <1>1, <1>5 DEF HitsUpTo
  <2>2. Append(HitsFrom(db, a, n - 1), db[n].hit) = HitsFrom(db, a, n)
    BY <1>1, <2>1, HitsAppend
  <2> QED
    BY <2>1, <2>2
<1>6. CASE n > a /\ n > b
  <2>1. HitsUpTo(db, a, b, n) = HitsFrom(db, a, b) /\ n \notin (a + 1)..b
    BY <1>1, <1>6 DEF HitsUpTo
  <2>2. HitsUpTo(db, a, b, n - 1) = HitsFrom(db, a, b)
    <3>1. CASE n - 1 <= a
      <4>1. 1..(b - a) = {}
        BY <1>1, <1>6, <3>1
      <4>2. HitsFrom(db, a, b) = <<>>
        BY <4>1 DEF HitsFrom
      <4> QED
        BY <3>1, <4>2 DEF HitsUpTo
    <3>2. CASE n - 1 > a /\ n - 1 <= b
      <4>1. n - 1 = b /\ ~(n - 1 <= a)
        BY <1>1, <1>6, <3>2
      <4> QED
        BY <3>2, <4>1 DEF HitsUpTo
    <3>3. CASE n - 1 > a /\ n - 1 > b
      <4>1. ~(n - 1 <= a) /\ ~(n - 1 <= b)
        BY <1>1, <3>3
      <4> QED
        BY <4>1 DEF HitsUpTo
    <3> QED
      BY <1>1, <3>1, <3>2, <3>3
  <2> QED
    BY <2>1, <2>2
<1> QED
  BY <1>1, <1>3, <1>4, <1>5, <1>6

\* The hits of the list of a formula, as they are read.
Reads(f, db, id) ==
  f = [n \in 0..Len(db) |->
        IF n = 0 THEN <<>>
        ELSE IF Lev!IsPrefix(Stem(id), db[n].key) THEN Append(f[n - 1], db[n].hit)
        ELSE f[n - 1]]

\* The list of a formula is read from its entries.
LEMMA ListIs ==
  ASSUME NEW db, db \in Seq(Entry), NEW id, NEW a \in Nat, NEW b \in Nat, a <= b, b <= Len(db),
         PlacesIn(db, id) = (a + 1)..b
  PROVE  ListIn(db, id) = HitsFrom(db, a, b)
<1>1. Len(db) \in Nat /\ DOMAIN db = 1..Len(db)
  BY EntryIs
<1>2. ASSUME NEW n \in 1..Len(db) PROVE Lev!IsPrefix(Stem(id), db[n].key) <=> n \in (a + 1)..b
  BY <1>1 DEF PlacesIn
<1> DEFINE g == [n \in 0..Len(db) |-> HitsUpTo(db, a, b, n)]
<1>3. Reads(g, db, id)
  <2>1. ASSUME NEW n \in 0..Len(db)
        PROVE  g[n] = IF n = 0 THEN <<>>
                      ELSE IF Lev!IsPrefix(Stem(id), db[n].key) THEN Append(g[n - 1], db[n].hit)
                      ELSE g[n - 1]
    <3>1. CASE n = 0
      <4>1. HitsUpTo(db, a, b, 0) = <<>>
        BY DEF HitsUpTo
      <4> QED
        BY <3>1, <4>1
    <3>2. CASE n # 0
      <4>1. n \in 1..Len(db) /\ n - 1 \in 0..Len(db)
        BY <1>1, <3>2
      <4>2. g[n] = HitsUpTo(db, a, b, n) /\ g[n - 1] = HitsUpTo(db, a, b, n - 1)
        BY <4>1
      <4>3. HitsUpTo(db, a, b, n) =
              IF n \in (a + 1)..b THEN Append(HitsUpTo(db, a, b, n - 1), db[n].hit) ELSE HitsUpTo(db, a, b, n - 1)
        BY <4>1, HitsUpToStep
      <4> HIDE DEF g
      <4> QED
        BY <1>2, <3>2, <4>1, <4>2, <4>3
    <3> QED
      BY <3>1, <3>2
  <2>2. g = [n \in 0..Len(db) |-> g[n]]
    OBVIOUS
  <2> HIDE DEF g
  <2> QED
    BY <2>1, <2>2 DEF Reads
<1> HIDE DEF g
<1>4. ListIn(db, id) = (CHOOSE f : Reads(f, db, id))[Len(db)]
  BY Zenon DEF ListIn, Reads
<1>5. PICK f : f = (CHOOSE h : Reads(h, db, id)) /\ Reads(f, db, id)
  BY <1>3, Zenon
<1>6. /\ f[0] = <<>>
      /\ \A n \in 1..Len(db) : f[n] = IF n \in (a + 1)..b THEN Append(f[n - 1], db[n].hit) ELSE f[n - 1]
  <2>1. ASSUME NEW n \in 0..Len(db)
        PROVE  f[n] = IF n = 0 THEN <<>>
                      ELSE IF Lev!IsPrefix(Stem(id), db[n].key) THEN Append(f[n - 1], db[n].hit)
                      ELSE f[n - 1]
    BY <1>5 DEF Reads
  <2>2. 0 \in 0..Len(db) /\ \A n \in 1..Len(db) : n \in 0..Len(db) /\ n # 0
    BY <1>1
  <2> QED
    BY <1>2, <2>1, <2>2
<1> DEFINE P == { n \in Nat : n <= Len(db) => f[n] = HitsUpTo(db, a, b, n) }
<1>7. 0 \in P
  <2>1. HitsUpTo(db, a, b, 0) = <<>>
    BY DEF HitsUpTo
  <2> QED
    BY <1>6, <2>1
<1>8. ASSUME NEW n \in Nat, n \in P PROVE n + 1 \in P
  <2> SUFFICES ASSUME n + 1 <= Len(db) PROVE f[n + 1] = HitsUpTo(db, a, b, n + 1)
    OBVIOUS
  <2>1. n + 1 \in 1..Len(db) /\ (n + 1) - 1 = n /\ n <= Len(db)
    BY <1>1
  <2>2. f[n] = HitsUpTo(db, a, b, n)
    BY <1>8, <2>1
  <2>3. f[n + 1] = IF n + 1 \in (a + 1)..b THEN Append(f[n], db[n + 1].hit) ELSE f[n]
    BY <1>6, <2>1
  <2>4. HitsUpTo(db, a, b, n + 1) =
          IF n + 1 \in (a + 1)..b THEN Append(HitsUpTo(db, a, b, n), db[n + 1].hit) ELSE HitsUpTo(db, a, b, n)
    <3>1. PICK k : k = n + 1
      OBVIOUS
    <3>2. k \in 1..Len(db) /\ k - 1 = n
      BY <2>1, <3>1
    <3>3. HitsUpTo(db, a, b, k) =
            IF k \in (a + 1)..b THEN Append(HitsUpTo(db, a, b, k - 1), db[k].hit) ELSE HitsUpTo(db, a, b, k - 1)
      BY <3>2, HitsUpToStep
    <3> QED
      BY <3>1, <3>2, <3>3
  <2> QED
    BY <2>2, <2>3, <2>4
<1>9. Nat \subseteq P
  <2> HIDE DEF P
  <2> QED
    BY <1>7, <1>8, SetInduction
<1>10. f[Len(db)] = HitsUpTo(db, a, b, Len(db))
  BY <1>1, <1>9
<1>11. HitsUpTo(db, a, b, Len(db)) = HitsFrom(db, a, b)
  <2>1. CASE Len(db) <= a
    <3>1. 1..(b - a) = {}
      BY <1>1, <2>1
    <3>2. HitsFrom(db, a, b) = <<>>
      BY <3>1 DEF HitsFrom
    <3> QED
      BY <2>1, <3>2 DEF HitsUpTo
  <2>2. CASE ~(Len(db) <= a) /\ Len(db) <= b
    <3>1. PICK k : k = Len(db)
      OBVIOUS
    <3>2. k \in Nat /\ k <= b /\ b <= k
      BY <1>1, <2>2, <3>1
    <3>3. k = b
      BY <3>2
    <3> QED
      BY <2>2, <3>1, <3>3 DEF HitsUpTo
  <2>3. CASE ~(Len(db) <= a) /\ ~(Len(db) <= b)
    BY <2>3 DEF HitsUpTo
  <2> QED
    BY <2>1, <2>2, <2>3
<1> QED
  BY <1>4, <1>5, <1>10, <1>11

-----------------------------------------------------------------------------
(***************************************************************************)
(* Insertion into a sequence.                                              *)
(***************************************************************************)
Inserted(s, p, e) == SubSeq(s, 1, p - 1) \o <<e>> \o SubSeq(s, p, Len(s))

\* t is s with e at place p.
Shifted(t, s, p, e) ==
  \A i \in 1..(Len(s) + 1) : t[i] = IF i < p THEN s[i] ELSE IF i = p THEN e ELSE s[i - 1]

\* The result of an insertion, place by place.
LEMMA InsertedIs ==
  ASSUME NEW S, NEW s \in Seq(S), NEW p \in 1..(Len(s) + 1), NEW e \in S, NEW t, t = Inserted(s, p, e)
  PROVE  /\ t \in Seq(S) /\ Len(t) = Len(s) + 1
         /\ Shifted(t, s, p, e)
<1>1. Len(s) \in Nat /\ \A i \in 1..Len(s) : s[i] \in S
  BY LenProperties, ElementOfSeq
<1>2. PICK u, v, w, x : u = SubSeq(s, 1, p - 1) /\ v = <<e>> /\ w = SubSeq(s, p, Len(s)) /\ x = u \o v
  OBVIOUS
<1>3. u \in Seq(S) /\ Len(u) = p - 1 /\ \A i \in 1..(p - 1) : u[i] = s[i]
  <2>1. 1 \in Int /\ p - 1 \in Int /\ \A i \in 1..(p - 1) : s[i] \in S
    BY <1>1
  <2>2. /\ SubSeq(s, 1, p - 1) \in Seq(S)
        /\ Len(SubSeq(s, 1, p - 1)) = IF 1 <= p - 1 THEN (p - 1) - 1 + 1 ELSE 0
        /\ \A i \in 1..((p - 1) - 1 + 1) : SubSeq(s, 1, p - 1)[i] = s[1 + i - 1]
    BY <2>1, SubSeqProperties
  <2> QED
    BY <1>1, <1>2, <2>2
<1>4. w \in Seq(S) /\ Len(w) = Len(s) - p + 1 /\ \A i \in 1..(Len(s) - p + 1) : w[i] = s[p + i - 1]
  <2>1. Len(s) \in Int /\ p \in Int /\ \A i \in p..Len(s) : s[i] \in S
    BY <1>1
  <2>2. /\ SubSeq(s, p, Len(s)) \in Seq(S)
        /\ Len(SubSeq(s, p, Len(s))) = IF p <= Len(s) THEN Len(s) - p + 1 ELSE 0
        /\ \A i \in 1..(Len(s) - p + 1) : SubSeq(s, p, Len(s))[i] = s[p + i - 1]
    BY <2>1, SubSeqProperties
  <2> QED
    BY <1>1, <1>2, <2>2
<1>5. v \in Seq(S) /\ Len(v) = 1 /\ v[1] = e
  BY <1>2
<1>6. x \in Seq(S) /\ Len(x) = p /\ \A i \in 1..p : x[i] = IF i < p THEN s[i] ELSE e
  <2>1. /\ u \o v \in Seq(S) /\ Len(u \o v) = Len(u) + Len(v)
        /\ \A i \in 1..(Len(u) + Len(v)) : (u \o v)[i] = IF i <= Len(u) THEN u[i] ELSE v[i - Len(u)]
    BY <1>3, <1>5, ConcatProperties
  <2>2. x \in Seq(S) /\ Len(x) = p
    BY <1>1, <1>2, <1>3, <1>5, <2>1
  <2>3. ASSUME NEW i \in 1..p PROVE x[i] = IF i < p THEN s[i] ELSE e
    <3>1. i \in 1..(Len(u) + Len(v)) /\ (i <= Len(u) <=> i < p) /\ (i < p => i \in 1..(p - 1)) /\ (~(i < p) => i - Len(u) = 1)
      BY <1>1, <1>3, <1>5
    <3> QED
      BY <1>2, <1>3, <1>5, <2>1, <3>1
  <2> QED
    BY <2>2, <2>3
<1>7. t = x \o w
  BY <1>2 DEF Inserted
<1>8. /\ x \o w \in Seq(S) /\ Len(x \o w) = Len(x) + Len(w)
      /\ \A i \in 1..(Len(x) + Len(w)) : (x \o w)[i] = IF i <= Len(x) THEN x[i] ELSE w[i - Len(x)]
  BY <1>4, <1>6, ConcatProperties
<1>9. Len(x) + Len(w) = Len(s) + 1
  BY <1>1, <1>4, <1>6
<1>10. ASSUME NEW i \in 1..(Len(s) + 1) PROVE t[i] = IF i < p THEN s[i] ELSE IF i = p THEN e ELSE s[i - 1]
  <2>1. t[i] = IF i <= p THEN x[i] ELSE w[i - p]
    BY <1>6, <1>7, <1>8, <1>9
  <2>2. CASE i <= p
    <3>1. i \in 1..p
      BY <1>1, <2>2
    <3> QED
      BY <1>6, <2>1, <2>2, <3>1
  <2>3. CASE i > p
    <3>1. i - p \in 1..(Len(s) - p + 1) /\ p + (i - p) - 1 = i - 1
      BY <1>1, <2>3
    <3> QED
      BY <1>1, <1>4, <2>1, <2>3, <3>1
  <2> QED
    BY <1>1, <2>2, <2>3
<1> QED
  BY <1>7, <1>8, <1>9, <1>10 DEF Shifted

\* A new entry goes between those before and those after its key.
LEMMA InsertedInOrder ==
  ASSUME NEW db, InKeyOrder(db), NEW e \in Entry, \A i \in 1..Len(db) : db[i].key # e.key,
         NEW r, r = RankIn(db, e.key), NEW n, n = Inserted(db, r + 1, e)
  PROVE  /\ r \in 0..Len(db) /\ InKeyOrder(n) /\ Len(n) = Len(db) + 1
         /\ Shifted(n, db, r + 1, e)
<1>1. /\ Len(db) \in Nat /\ DOMAIN db = 1..Len(db)
      /\ \A i \in 1..Len(db) : db[i].key \in Text
  BY EntryIs DEF InKeyOrder
<1>2. e.key \in Text
  BY DEF Entry
<1>3. r \in 0..Len(db) /\ \A i \in 1..Len(db) : Lev!StringLess(db[i].key, e.key) <=> i <= r
  BY <1>2, RankIs
<1>4. r + 1 \in 1..(Len(db) + 1)
  BY <1>1, <1>3
<1>5. db \in Seq(Entry)
  BY DEF InKeyOrder
<1>6. n \in Seq(Entry) /\ Len(n) = Len(db) + 1
  BY <1>4, <1>5, InsertedIs
<1>7. \A i \in 1..(Len(db) + 1) : n[i] = IF i < r + 1 THEN db[i] ELSE IF i = r + 1 THEN e ELSE db[i - 1]
  <2>1. Shifted(n, db, r + 1, e)
    BY <1>4, <1>5, InsertedIs
  <2> QED
    BY <2>1 DEF Shifted
<1>8. ASSUME NEW i \in 1..Len(db), ~(i <= r) PROVE Lev!StringLess(e.key, db[i].key)
  <2>1. ~Lev!StringLess(db[i].key, e.key) /\ db[i].key # e.key
    BY <1>3, <1>8
  <2> QED
    BY <1>1, <1>2, <2>1, LessTotal
<1>9. ASSUME NEW i \in 1..Len(n), NEW j \in 1..Len(n), i < j PROVE Lev!StringLess(n[i].key, n[j].key)
  <2>1. /\ n[i] = IF i < r + 1 THEN db[i] ELSE IF i = r + 1 THEN e ELSE db[i - 1]
        /\ n[j] = IF j < r + 1 THEN db[j] ELSE IF j = r + 1 THEN e ELSE db[j - 1]
    BY <1>6, <1>7
  <2>2. \A x, y \in 1..Len(db) : x < y => Lev!StringLess(db[x].key, db[y].key)
    BY DEF InKeyOrder
  <2>3. CASE j < r + 1
    <3>1. i \in 1..Len(db) /\ j \in 1..Len(db) /\ i < r + 1
      BY <1>1, <1>3, <1>6, <1>9, <2>3
    <3> QED
      BY <1>9, <2>1, <2>2, <2>3, <3>1
  <2>4. CASE j = r + 1
    <3>1. i \in 1..Len(db) /\ i <= r /\ i < r + 1 /\ ~(j < r + 1)
      BY <1>1, <1>3, <1>6, <1>9, <2>4
    <3> QED
      BY <1>3, <2>1, <2>4, <3>1
  <2>5. CASE j > r + 1 /\ i = r + 1
    <3>1. j - 1 \in 1..Len(db) /\ ~(j - 1 <= r) /\ ~(j < r + 1) /\ j # r + 1 /\ ~(i < r + 1)
      BY <1>1, <1>3, <1>6, <1>9, <2>5
    <3> QED
      BY <1>8, <2>1, <2>5, <3>1
  <2>6. CASE j > r + 1 /\ i < r + 1
    <3>1. i \in 1..Len(db) /\ j - 1 \in 1..Len(db) /\ i < j - 1 /\ ~(j < r + 1) /\ j # r + 1
      BY <1>1, <1>3, <1>6, <1>9, <2>6
    <3> QED
      BY <2>1, <2>2, <2>6, <3>1
  <2>7. CASE j > r + 1 /\ i > r + 1
    <3>1. /\ i - 1 \in 1..Len(db) /\ j - 1 \in 1..Len(db) /\ i - 1 < j - 1
          /\ ~(j < r + 1) /\ j # r + 1 /\ ~(i < r + 1) /\ i # r + 1
      BY <1>1, <1>3, <1>6, <1>9, <2>7
    <3> QED
      BY <2>1, <2>2, <2>7, <3>1
  <2> QED
    BY <1>1, <1>3, <1>6, <2>3, <2>4, <2>5, <2>6, <2>7
<1>10. InKeyOrder(n)
  BY <1>6, <1>9 DEF InKeyOrder
<1> QED
  BY <1>3, <1>6, <1>7, <1>10 DEF Shifted

\* The rank of a text grows by one if the new key is before it.
LEMMA RankGrows ==
  ASSUME NEW db, InKeyOrder(db), NEW e \in Entry, \A i \in 1..Len(db) : db[i].key # e.key,
         NEW r, r = RankIn(db, e.key), NEW n, n = Inserted(db, r + 1, e), NEW t \in Text
  PROVE  /\ RankIn(db, t) \in 0..Len(db)
         /\ Lev!StringLess(e.key, t) => RankIn(n, t) = RankIn(db, t) + 1 /\ r <= RankIn(db, t)
         /\ ~Lev!StringLess(e.key, t) => RankIn(n, t) = RankIn(db, t) /\ RankIn(db, t) <= r
<1>1. /\ Len(db) \in Nat /\ DOMAIN db = 1..Len(db)
      /\ \A i \in 1..Len(db) : db[i].key \in Text
  BY EntryIs DEF InKeyOrder
<1>2. e.key \in Text
  BY DEF Entry
<1>3. r \in 0..Len(db) /\ \A i \in 1..Len(db) : Lev!StringLess(db[i].key, e.key) <=> i <= r
  BY <1>2, RankIs
<1>4. InKeyOrder(n) /\ Len(n) = Len(db) + 1
  BY InsertedInOrder
<1>5. \A i \in 1..(Len(db) + 1) : n[i] = IF i < r + 1 THEN db[i] ELSE IF i = r + 1 THEN e ELSE db[i - 1]
  BY InsertedInOrder DEF Shifted
<1>6. PICK x, y : x = RankIn(db, t) /\ y = RankIn(n, t)
  OBVIOUS
<1>7. x \in 0..Len(db) /\ \A i \in 1..Len(db) : Lev!StringLess(db[i].key, t) <=> i <= x
  BY <1>6, RankIs
<1>8. y \in 0..(Len(db) + 1) /\ \A i \in 1..(Len(db) + 1) : Lev!StringLess(n[i].key, t) <=> i <= y
  BY <1>4, <1>6, RankIs
<1>9. ASSUME NEW i \in 1..Len(db) PROVE (i <= r => (i <= y <=> i <= x)) /\ (r < i => (i + 1 <= y <=> i <= x))
  <2>1. ASSUME i <= r PROVE i <= y <=> i <= x
    <3>1. i \in 1..(Len(db) + 1) /\ i < r + 1
      BY <1>1, <1>3, <2>1
    <3>2. n[i] = db[i]
      BY <1>5, <3>1
    <3> QED
      BY <1>7, <1>8, <3>1, <3>2
  <2>2. ASSUME r < i PROVE i + 1 <= y <=> i <= x
    <3>1. i + 1 \in 1..(Len(db) + 1) /\ ~(i + 1 < r + 1) /\ i + 1 # r + 1 /\ (i + 1) - 1 = i
      BY <1>1, <1>3, <2>2
    <3>2. n[i + 1] = db[i]
      BY <1>5, <3>1
    <3> QED
      BY <1>7, <1>8, <3>1, <3>2
  <2> QED
    BY <2>1, <2>2
<1>10. Lev!StringLess(e.key, t) <=> r + 1 <= y
  <2>1. r + 1 \in 1..(Len(db) + 1) /\ ~(r + 1 < r + 1)
    BY <1>1, <1>3
  <2>2. n[r + 1] = e
    BY <1>5, <2>1
  <2> QED
    BY <1>8, <2>1, <2>2
<1>11. ASSUME Lev!StringLess(e.key, t) PROVE y = x + 1 /\ r <= x
  <2>1. ASSUME NEW i \in 1..Len(db), i <= r PROVE i <= x
    <3>1. Lev!StringLess(db[i].key, e.key)
      BY <1>3, <2>1
    <3>2. Lev!StringLess(db[i].key, t)
      BY <1>1, <1>2, <1>11, <3>1, LessTrans
    <3> QED
      BY <1>7, <3>2
  <2>2. r <= x
    <3>1. CASE r = 0
      BY <1>7, <3>1
    <3>2. CASE r # 0
      <4>1. r \in 1..Len(db)
        BY <1>1, <1>3, <3>2
      <4> QED
        BY <2>1, <4>1
    <3> QED
      BY <3>1, <3>2
  <2>3. ASSUME NEW i \in 1..(Len(db) + 1) PROVE i <= y <=> i <= x + 1
    <3>1. CASE i <= r
      <4>1. i \in 1..Len(db)
        BY <1>1, <1>3, <3>1
      <4> QED
        BY <1>3, <1>7, <1>8, <1>9, <2>2, <3>1, <4>1
    <3>2. CASE i = r + 1
      BY <1>3, <1>7, <1>10, <1>11, <2>2, <3>2
    <3>3. CASE i > r + 1
      <4>1. i - 1 \in 1..Len(db) /\ r < i - 1 /\ (i - 1) + 1 = i
        BY <1>1, <1>3, <3>3
      <4>2. i <= y <=> i - 1 <= x
        BY <1>9, <4>1
      <4> QED
        BY <1>7, <4>1, <4>2
    <3> QED
      BY <1>3, <3>1, <3>2, <3>3
  <2>4. x + 1 \in 0..(Len(db) + 1)
    BY <1>1, <1>7
  <2> QED
    BY <1>1, <1>8, <2>2, <2>3, <2>4, SameRank
<1>12. ASSUME ~Lev!StringLess(e.key, t) PROVE y = x /\ x <= r
  <2>1. ASSUME NEW i \in 1..Len(db), i <= x PROVE i <= r
    <3>1. Lev!StringLess(db[i].key, t)
      BY <1>7, <2>1
    <3>2. t = e.key \/ Lev!StringLess(t, e.key)
      BY <1>2, <1>12, LessTotal
    <3>3. Lev!StringLess(db[i].key, e.key)
      BY <1>1, <1>2, <3>1, <3>2, LessTrans
    <3> QED
      BY <1>3, <3>3
  <2>2. x <= r
    <3>1. CASE x = 0
      BY <1>3, <3>1
    <3>2. CASE x # 0
      <4>1. x \in 1..Len(db)
        BY <1>1, <1>7, <3>2
      <4>2. x <= x
        BY <1>7
      <4> QED
        BY <2>1, <4>1, <4>2
    <3> QED
      BY <3>1, <3>2
  <2>3. ASSUME NEW i \in 1..(Len(db) + 1) PROVE i <= y <=> i <= x
    <3>1. CASE i <= r
      <4>1. i \in 1..Len(db)
        BY <1>1, <1>3, <3>1
      <4> QED
        BY <1>9, <3>1, <4>1
    <3>2. CASE i >= r + 1
      BY <1>3, <1>7, <1>8, <1>10, <1>12, <2>2, <3>2
    <3> QED
      BY <1>3, <3>1, <3>2
  <2>4. x \in 0..(Len(db) + 1)
    BY <1>1, <1>7
  <2> QED
    BY <1>1, <1>8, <2>2, <2>3, <2>4, SameRank
<1> QED
  BY <1>6, <1>7, <1>11, <1>12

\* The entry of the next hit is a new one.
LEMMA NewEntry ==
  ASSUME NEW db, NEW c \in Nat, HoldsHits(db, c), NEW id \in FormulaIds,
         NEW e, e = [key |-> Lev!Key(id, c + 1), hit |-> c + 1]
  PROVE  e \in Entry /\ e.key = Lev!Key(id, c + 1) /\ e.hit = c + 1 /\ \A i \in 1..Len(db) : db[i].key # e.key
<1>1. id \in Nat /\ c + 1 \in Nat
  BY IdIsNat
<1>2. PICK k : k = Lev!Key(id, c + 1)
  OBVIOUS
<1>3. k \in Text
  BY <1>1, <1>2, KeyText DEF KeyIs
<1>4. e \in Entry /\ e.key = k /\ e.hit = c + 1
  BY <1>1, <1>2, <1>3 DEF Entry
<1>5. ASSUME NEW i \in 1..Len(db), db[i].key = k PROVE FALSE
  <2>1. PICK o \in FormulaIds, n \in 1..c : o \in Nat /\ n \in Nat /\ db[i].key = Lev!Key(o, n)
    BY EntryKey
  <2>2. n = c + 1
    BY <1>1, <1>2, <1>5, <2>1, KeyOnce
  <2> QED
    BY <2>1, <2>2
<1> QED
  BY <1>2, <1>4, <1>5

\* Its key is in the range of its own formula and of no other.
InRange(k, m, x, o, id) ==
  /\ m \in Text /\ x \in Text
  /\ o = id => ~Lev!StringLess(k, m) /\ Lev!StringLess(k, x)
  /\ o # id => (Lev!StringLess(k, m) <=> Lev!StringLess(k, x))

\* So it is for every formula.
LEMMA NewKeyRange ==
  ASSUME NEW id \in FormulaIds, NEW o \in FormulaIds, NEW c \in Nat
  PROVE  InRange(Lev!Key(id, c + 1), Stem(o), Stem(o) \o Lev!Xff, o, id)
<1>0. PICK k, m, x : k = Lev!Key(id, c + 1) /\ m = Stem(o) /\ x = m \o Lev!Xff
  OBVIOUS
<1>1. id \in Nat /\ o \in Nat /\ c + 1 \in Nat
  BY IdIsNat
<1>2. m \in Text /\ \A j \in 1..Len(m) : m[j] < 255
  BY <1>0, <1>1, StemText DEF StemIs
<1>3. x \in Text
  BY <1>0, <1>2 DEF Text, Lev!Xff
<1>4. k \in Text /\ \A j \in 1..Len(k) : k[j] < 255
  <2>1. KeyIs(k, Stem(id), Lev!to_string(c + 1))
    BY <1>0, <1>1, KeyText, Zenon
  <2> QED
    BY <2>1 DEF KeyIs
<1>5. /\ Lev!StringLess(k, x) <=> Lev!StringLess(k, m) \/ Lev!IsPrefix(m, k)
      /\ Lev!IsPrefix(m, k) => ~Lev!StringLess(k, m)
  BY <1>0, <1>2, <1>4, StemRange
<1>6. Lev!IsPrefix(m, k) <=> o = id
  BY <1>0, <1>1, StemOf
<1>7. InRange(k, m, x, o, id)
  BY <1>2, <1>3, <1>5, <1>6, Zenon DEF InRange
<1> QED
  BY <1>0, <1>7

\* The hits are still under their keys.
LEMMA InsertedHolds ==
  ASSUME NEW db, NEW c \in Nat, HoldsHits(db, c), NEW id \in FormulaIds, Len(db) \in Nat,
         NEW e, e.key = Lev!Key(id, c + 1), e.hit = c + 1, NEW r \in 0..Len(db),
         NEW n, Len(n) = Len(db) + 1, Shifted(n, db, r + 1, e)
  PROVE  HoldsHits(n, c + 1)
<1> SUFFICES ASSUME NEW i \in 1..Len(n)
             PROVE  \E o \in FormulaIds, h \in 1..(c + 1) : n[i].key = Lev!Key(o, h) /\ n[i].hit = h
  BY DEF HoldsHits
<1>1. n[i] = IF i < r + 1 THEN db[i] ELSE IF i = r + 1 THEN e ELSE db[i - 1]
  BY DEF Shifted
<1>2. CASE i = r + 1
  <2>1. n[i] = e /\ c + 1 \in 1..(c + 1)
    BY <1>1, <1>2
  <2> QED
    BY <2>1
<1>3. CASE i # r + 1
  <2>1. PICK j \in 1..Len(db) : n[i] = db[j]
    <3>1. CASE i < r + 1
      <4>1. i \in 1..Len(db) /\ n[i] = db[i]
        BY <1>1, <3>1
      <4> QED
        BY <4>1
    <3>2. CASE i > r + 1
      <4>1. i - 1 \in 1..Len(db) /\ n[i] = db[i - 1]
        BY <1>1, <3>2
      <4> QED
        BY <4>1
    <3> QED
      BY <1>3, <3>1, <3>2
  <2>2. PICK o \in FormulaIds, h \in 1..c : db[j].key = Lev!Key(o, h) /\ db[j].hit = h
    BY DEF HoldsHits
  <2>3. h \in 1..(c + 1)
    OBVIOUS
  <2> QED
    BY <2>1, <2>2, <2>3
<1> QED
  BY <1>2, <1>3

\* The insertion of a hit into the list of its formula.
LEMMA OwnListInserted ==
  ASSUME NEW db, db \in Seq(Entry), NEW n, NEW e, NEW r \in 0..Len(db), Shifted(n, db, r + 1, e), e.hit \in Nat,
         NEW a \in Nat, NEW b \in Nat, a <= r, r <= b, b <= Len(db)
  PROVE  \E p \in 1..(Len(HitsFrom(db, a, b)) + 1) : HitsFrom(n, a, b + 1) = Inserted(HitsFrom(db, a, b), p, e.hit)
<1>0. PICK l, k : /\ l = HitsFrom(db, a, b) /\ k = HitsFrom(n, a, b + 1)
                  /\ l = [m \in 1..(b - a) |-> db[a + m].hit] /\ k = [m \in 1..((b + 1) - a) |-> n[a + m].hit]
  BY DEF HitsFrom
<1>1. Len(db) \in Nat /\ \A i \in 1..Len(db) : db[i].hit \in Nat
  BY EntryIs
<1>2. \A i \in 1..(Len(db) + 1) : n[i] = IF i < r + 1 THEN db[i] ELSE IF i = r + 1 THEN e ELSE db[i - 1]
  BY DEF Shifted
<1>3. l \in Seq(Nat) /\ Len(l) = b - a
  <2>1. b - a \in Nat /\ \A m \in 1..(b - a) : db[a + m].hit \in Nat
    BY <1>1
  <2> QED
    BY <1>0, <2>1
<1>4. PICK p : p = r - a + 1
  OBVIOUS
<1>5. p \in 1..(Len(l) + 1) /\ p \in Int
  BY <1>1, <1>3, <1>4
<1>6. PICK t : t = Inserted(l, p, e.hit)
  OBVIOUS
<1>7. t \in Seq(Nat) /\ Len(t) = Len(l) + 1 /\ Shifted(t, l, p, e.hit)
  <2>1. PICK h, S : h = e.hit /\ S = Nat
    OBVIOUS
  <2>2. h \in S /\ l \in Seq(S) /\ p \in 1..(Len(l) + 1) /\ t = Inserted(l, p, h)
    BY <1>3, <1>5, <1>6, <2>1
  <2>3. t \in Seq(S)
    BY <2>2, InsertedIs
  <2>4. Len(t) = Len(l) + 1
    BY <2>2, InsertedIs
  <2>5. Shifted(t, l, p, h)
    BY <2>2, InsertedIs
  <2> QED
    BY <2>1, <2>3, <2>4, <2>5
<1>8. ASSUME NEW m \in 1..((b + 1) - a) PROVE k[m] = t[m]
  <2>1. k[m] = n[a + m].hit /\ \A j \in 1..(b - a) : l[j] = db[a + j].hit
    BY <1>0
  <2>2. t[m] = IF m < p THEN l[m] ELSE IF m = p THEN e.hit ELSE l[m - 1]
    <3>1. m \in 1..(Len(l) + 1)
      BY <1>3
    <3> QED
      BY <1>7, <3>1 DEF Shifted
  <2>3. a + m \in 1..(Len(db) + 1)
    BY <1>1
  <2>4. n[a + m] = IF a + m < r + 1 THEN db[a + m] ELSE IF a + m = r + 1 THEN e ELSE db[(a + m) - 1]
    BY <1>2, <2>3
  <2>5. CASE m < p
    <3>1. a + m < r + 1 /\ m \in 1..(b - a)
      BY <1>1, <1>4, <2>5
    <3> QED
      BY <2>1, <2>2, <2>4, <2>5, <3>1
  <2>6. CASE m = p
    <3>1. ~(a + m < r + 1) /\ a + m = r + 1 /\ ~(m < p)
      BY <1>1, <1>4, <1>5, <2>6
    <3> QED
      BY <2>1, <2>2, <2>4, <2>6, <3>1
  <2>7. CASE m > p
    <3>1. ~(a + m < r + 1) /\ a + m # r + 1 /\ ~(m < p) /\ m # p /\ m - 1 \in 1..(b - a) /\ a + (m - 1) = (a + m) - 1
      BY <1>1, <1>4, <1>5, <2>7
    <3> QED
      BY <2>1, <2>2, <2>4, <3>1
  <2> QED
    BY <1>5, <2>5, <2>6, <2>7
<1>9. t = [m \in 1..((b + 1) - a) |-> t[m]]
  <2>1. Len(t) = (b + 1) - a
    BY <1>3, <1>7
  <2>2. DOMAIN t = 1..Len(t) /\ t \in [1..Len(t) -> Nat]
    BY <1>7, LenProperties
  <2> QED
    BY <2>1, <2>2
<1>10. k = t
  BY <1>0, <1>8, <1>9
<1> QED
  BY <1>0, <1>5, <1>6, <1>10

\* A list and what it becomes, each as a range of entries.
Ranges(n, db, o, a, b, y, z) ==
  /\ a \in Nat /\ b \in Nat /\ a <= b /\ b <= Len(db) /\ y \in Nat /\ z \in Nat /\ y <= z
  /\ ListIn(db, o) = HitsFrom(db, a, b)
  /\ ListIn(n, o) = HitsFrom(n, y, z)

\* What the insertion of a hit changes in the database.
Adds(n, db, id, c) ==
  /\ InKeyOrder(n) /\ HoldsHits(n, c + 1)
  /\ \A o \in FormulaIds \ {id} : ListIn(n, o) = ListIn(db, o)
  /\ \E p \in 1..(Len(ListIn(db, id)) + 1) : ListIn(n, id) = Inserted(ListIn(db, id), p, c + 1)

\* The insertion of a hit changes the list of its formula only.
LEMMA InsertedLists ==
  ASSUME NEW db, InKeyOrder(db), NEW c \in Nat, HoldsHits(db, c), NEW id \in FormulaIds,
         NEW e, e = [key |-> Lev!Key(id, c + 1), hit |-> c + 1],
         NEW n, n = Inserted(db, RankIn(db, e.key) + 1, e)
  PROVE  Adds(n, db, id, c)
<1>1. e \in Entry /\ e.key = Lev!Key(id, c + 1) /\ e.hit = c + 1 /\ \A i \in 1..Len(db) : db[i].key # e.key
  BY NewEntry
<1>2. db \in Seq(Entry) /\ Len(db) \in Nat
  BY EntryIs DEF InKeyOrder
<1>3. PICK r : r = RankIn(db, e.key)
  OBVIOUS
<1>4. n = Inserted(db, r + 1, e)
  BY <1>3
<1>5. r \in 0..Len(db) /\ InKeyOrder(n) /\ Len(n) = Len(db) + 1 /\ Shifted(n, db, r + 1, e)
  BY <1>1, <1>3, <1>4, InsertedInOrder
<1>6. HoldsHits(n, c + 1)
  BY <1>1, <1>2, <1>5, InsertedHolds
<1>7. ASSUME NEW o \in FormulaIds
      PROVE  \E a, b, y, z :
               /\ Ranges(n, db, o, a, b, y, z)
               /\ o = id => y = a /\ z = b + 1 /\ a <= r /\ r <= b
               /\ o # id => \/ y = a + 1 /\ z = b + 1 /\ r <= a
                            \/ y = a /\ z = b /\ b <= r
  <2>1. PICK s, x : s = Stem(o) /\ x = Stem(o) \o Lev!Xff
    OBVIOUS
  <2>2. PICK a, b : a = RankIn(db, s) /\ b = RankIn(db, x)
    OBVIOUS
  <2>3. PICK y, z : y = RankIn(n, s) /\ z = RankIn(n, x)
    OBVIOUS
  <2>4. a \in Nat /\ b \in Nat /\ a <= b /\ b <= Len(db) /\ PlacesIn(db, o) = (a + 1)..b
    BY <2>1, <2>2, PlacesAre
  <2>5. c + 1 \in Nat
    OBVIOUS
  <2>6. y \in Nat /\ z \in Nat /\ y <= z /\ z <= Len(n) /\ PlacesIn(n, o) = (y + 1)..z
    BY <1>5, <1>6, <2>1, <2>3, <2>5, PlacesAre
  <2>7. ListIn(db, o) = HitsFrom(db, a, b)
    BY <1>2, <2>4, ListIs
  <2>8. ListIn(n, o) = HitsFrom(n, y, z)
    <3>1. n \in Seq(Entry)
      BY <1>5 DEF InKeyOrder
    <3> QED
      BY <2>6, <3>1, ListIs
  <2>9. /\ s \in Text /\ x \in Text
        /\ o = id => ~Lev!StringLess(e.key, s) /\ Lev!StringLess(e.key, x)
        /\ o # id => (Lev!StringLess(e.key, s) <=> Lev!StringLess(e.key, x))
    <3>1. InRange(Lev!Key(id, c + 1), Stem(o), Stem(o) \o Lev!Xff, o, id)
      BY NewKeyRange
    <3>2. InRange(e.key, s, x, o, id)
      BY <1>1, <2>1, <3>1
    <3> QED
      BY <3>2, Zenon DEF InRange
  <2>10. /\ Lev!StringLess(e.key, s) => y = a + 1 /\ r <= a
         /\ ~Lev!StringLess(e.key, s) => y = a /\ a <= r
    BY <1>1, <1>3, <1>4, <2>2, <2>3, <2>9, RankGrows
  <2>11. /\ Lev!StringLess(e.key, x) => z = b + 1 /\ r <= b
         /\ ~Lev!StringLess(e.key, x) => z = b /\ b <= r
    BY <1>1, <1>3, <1>4, <2>2, <2>3, <2>9, RankGrows
  <2>12. /\ o = id => y = a /\ z = b + 1 /\ a <= r /\ r <= b
         /\ o # id => \/ y = a + 1 /\ z = b + 1 /\ r <= a
                      \/ y = a /\ z = b /\ b <= r
    BY <2>9, <2>10, <2>11, Zenon
  <2>13. Ranges(n, db, o, a, b, y, z)
    BY <2>4, <2>6, <2>7, <2>8 DEF Ranges
  <2> QED
    BY <2>12, <2>13, Zenon
<1>8. ASSUME NEW o \in FormulaIds \ {id} PROVE ListIn(n, o) = ListIn(db, o)
  <2>0. PICK a, b, y, z :
          /\ Ranges(n, db, o, a, b, y, z)
          /\ \/ y = a + 1 /\ z = b + 1 /\ r <= a
             \/ y = a /\ z = b /\ b <= r
    BY <1>7
  <2>1. /\ a \in Nat /\ b \in Nat /\ a <= b /\ b <= Len(db) /\ y \in Nat /\ z \in Nat /\ y <= z
        /\ ListIn(db, o) = [m \in 1..(b - a) |-> db[a + m].hit]
        /\ ListIn(n, o) = [m \in 1..(z - y) |-> n[y + m].hit]
        /\ \/ y = a + 1 /\ z = b + 1 /\ r <= a
           \/ y = a /\ z = b /\ b <= r
    BY <2>0 DEF Ranges, HitsFrom
  <2>2. z - y = b - a
    BY <2>1
  <2>3. ASSUME NEW m \in 1..(b - a) PROVE n[y + m] = db[a + m]
    <3>1. y + m \in 1..(Len(db) + 1)
      BY <1>2, <2>1
    <3>2. n[y + m] = IF y + m < r + 1 THEN db[y + m] ELSE IF y + m = r + 1 THEN e ELSE db[(y + m) - 1]
      BY <1>5, <3>1 DEF Shifted
    <3>3. CASE y = a + 1 /\ r <= a
      <4>1. ~(y + m < r + 1) /\ y + m # r + 1 /\ (y + m) - 1 = a + m
        BY <1>2, <1>5, <2>1, <3>3
      <4> QED
        BY <3>2, <4>1
    <3>4. CASE y = a /\ b <= r
      <4>1. y + m < r + 1
        BY <1>2, <1>5, <2>1, <3>4
      <4> QED
        BY <3>2, <3>4, <4>1
    <3> QED
      BY <2>1, <3>3, <3>4
  <2>4. [m \in 1..(b - a) |-> n[y + m].hit] = [m \in 1..(b - a) |-> db[a + m].hit]
    BY <2>3
  <2>5. ListIn(n, o) = [m \in 1..(b - a) |-> n[y + m].hit]
    BY <2>1, <2>2
  <2>6. ListIn(db, o) = [m \in 1..(b - a) |-> db[a + m].hit]
    BY <2>1
  <2> QED
    BY <2>4, <2>5, <2>6, Zenon
<1>9. \E p \in 1..(Len(ListIn(db, id)) + 1) : ListIn(n, id) = Inserted(ListIn(db, id), p, c + 1)
  <2>1. PICK a, b, y, z : Ranges(n, db, id, a, b, y, z) /\ y = a /\ z = b + 1 /\ a <= r /\ r <= b
    BY <1>7
  <2>2. ListIn(db, id) = HitsFrom(db, a, b) /\ ListIn(n, id) = HitsFrom(n, a, b + 1)
    BY <2>1 DEF Ranges
  <2>3. e.hit \in Nat /\ a \in Nat /\ b \in Nat /\ a <= r /\ r <= b /\ b <= Len(db)
    BY <1>1, <2>1 DEF Ranges
  <2>4. \E p \in 1..(Len(HitsFrom(db, a, b)) + 1) : HitsFrom(n, a, b + 1) = Inserted(HitsFrom(db, a, b), p, e.hit)
    BY <1>2, <1>5, <2>3, OwnListInserted
  <2> QED
    BY <1>1, <2>2, <2>4
<1> QED
  BY <1>5, <1>6, <1>8, <1>9 DEF Adds

-----------------------------------------------------------------------------
(***************************************************************************)
(* The two databases keep the contract.                                    *)
(***************************************************************************)
LevInv == mCounter \in Nat /\ InKeyOrder(mDatabase) /\ HoldsHits(mDatabase, mCounter)

MemInv == inserted \in Nat /\ \A id \in DOMAIN mData : mData[id] \in Seq(Nat)

DbInv == LevInv /\ MemInv

\* Empty databases.
LEMMA DbInitInv ==
  ASSUME DbInit
  PROVE  DbInv
<1>1. mDatabase = <<>> /\ mCounter = 0 /\ mData = <<>> /\ inserted = 0
  BY DEF DbInit, Lev!Init, Mem!Init
<1>2. Len(mDatabase) = 0 /\ mDatabase \in Seq(Entry)
  BY <1>1, EmptySeq
<1>3. InKeyOrder(mDatabase) /\ HoldsHits(mDatabase, mCounter)
  BY <1>2 DEF InKeyOrder, HoldsHits
<1>4. DOMAIN mData = {}
  BY <1>1
<1> QED
  BY <1>1, <1>3, <1>4 DEF DbInv, LevInv, MemInv

\* LevFormulaDb counts as this module does.
LEMMA LevCount == \A S : Lev!Cardinality(S) = Cardinality(S)
BY DEF Lev!Cardinality, Cardinality

\* LevFormulaDb: an insertion adds one entry.
LEMMA LevInsert ==
  ASSUME LevInv, NEW id \in FormulaIds, Lev!insertFormula(id)
  PROVE  Adds(mDatabase', mDatabase, id, mCounter) /\ LevInv' /\ mCounter + 1 \in 1..MaxInserts
<1>1. mCounter \in Nat /\ InKeyOrder(mDatabase) /\ HoldsHits(mDatabase, mCounter)
  BY DEF LevInv
<1>2. mCounter < MaxInserts /\ mCounter' = mCounter + 1 /\ Lev!Put(Lev!Key(id, mCounter + 1), mCounter + 1)
  BY DEF Lev!insertFormula
<1>3. PICK db, n, c, e : db = mDatabase /\ n = mDatabase' /\ c = mCounter /\ e = [key |-> Lev!Key(id, c + 1), hit |-> c + 1]
  OBVIOUS
<1>4. e.key = Lev!Key(id, c + 1) /\ \A i \in 1..Len(db) : db[i].key # e.key
  BY <1>1, <1>3, NewEntry
<1>5. DOMAIN db = 1..Len(db)
  BY <1>1, <1>3, EntryIs DEF InKeyOrder
<1>6. ~ \E x \in Lev!ToSet(db) : x.key = Lev!Key(id, c + 1)
  BY <1>4, <1>5 DEF Lev!ToSet
<1>7. n = Lev!InsertAt(db, Lev!Rank(Lev!Key(id, c + 1)) + 1, [key |-> Lev!Key(id, c + 1), hit |-> c + 1])
  BY <1>2, <1>3, <1>6 DEF Lev!Put
<1>8. Lev!Rank(Lev!Key(id, c + 1)) = RankIn(db, e.key)
  <2>1. PICK k : k = Lev!Key(id, c + 1)
    OBVIOUS
  <2>2. Lev!Rank(k) = RankIn(mDatabase, k)
    BY LevCount DEF Lev!Rank, RankIn
  <2> QED
    BY <1>3, <1>4, <2>1, <2>2
<1>9. n = Inserted(db, RankIn(db, e.key) + 1, e)
  BY <1>3, <1>7, <1>8 DEF Lev!InsertAt, Inserted
<1>10. Adds(n, db, id, c)
  BY <1>1, <1>3, <1>9, InsertedLists
<1>11. mCounter' \in Nat /\ mCounter + 1 \in 1..MaxInserts
  BY <1>1, <1>2, FormulaDbAssumption
<1>12. InKeyOrder(n) /\ HoldsHits(n, mCounter')
  BY <1>2, <1>3, <1>10 DEF Adds
<1> QED
  BY <1>3, <1>10, <1>11, <1>12 DEF LevInv

\* MemFormulaDb: an insertion appends one hit.
LEMMA MemInsert ==
  ASSUME MemInv, NEW id \in FormulaIds, Mem!insertFormula(id)
  PROVE  /\ MemInv' /\ inserted + 1 \in 1..MaxInserts
         /\ Mem!HitsOf(id) \in Seq(Nat)
         /\ Mem!HitsOf(id)' = Append(Mem!HitsOf(id), inserted + 1)
         /\ \A o \in FormulaIds \ {id} : Mem!HitsOf(o)' = Mem!HitsOf(o)
<1>1. inserted \in Nat /\ \A o \in DOMAIN mData : mData[o] \in Seq(Nat)
  BY DEF MemInv
<1>2. /\ inserted < MaxInserts /\ inserted' = inserted + 1
      /\ mData' = [k \in DOMAIN mData \cup {id} |->
                     IF k = id THEN Append(Mem!HitsOf(id), inserted + 1) ELSE mData[k]]
  BY DEF Mem!insertFormula
<1>3. PICK h, d : h = Append(Mem!HitsOf(id), inserted + 1) /\ d = mData'
  OBVIOUS
<1>4. Mem!HitsOf(id) \in Seq(Nat)
  BY <1>1, EmptySeq DEF Mem!HitsOf
<1>5. h \in Seq(Nat)
  <2>1. inserted + 1 \in Nat
    BY <1>1
  <2> QED
    BY <1>3, <1>4, <2>1, AppendProperties
<1>6. /\ DOMAIN d = DOMAIN mData \cup {id} /\ d[id] = h
      /\ \A k \in DOMAIN mData : k # id => d[k] = mData[k]
  BY <1>2, <1>3
<1>7. \A o \in DOMAIN d : d[o] \in Seq(Nat)
  BY <1>1, <1>5, <1>6
<1>8. inserted' \in Nat /\ inserted + 1 \in 1..MaxInserts
  BY <1>1, <1>2, FormulaDbAssumption
<1>9. MemInv'
  BY <1>3, <1>7, <1>8 DEF MemInv
<1>10. Mem!HitsOf(id)' = h
  BY <1>3, <1>6 DEF Mem!HitsOf
<1>11. \A o \in FormulaIds \ {id} : Mem!HitsOf(o)' = Mem!HitsOf(o)
  BY <1>3, <1>6 DEF Mem!HitsOf
<1> QED
  BY <1>3, <1>4, <1>8, <1>9, <1>10, <1>11

\* The invariant of both databases.
LEMMA DbInvariant == DbSpec => []DbInv
<1>1. ASSUME DbInv, [DbNext]_dbVars PROVE DbInv'
  <2>1. CASE DbNext
    <3>1. PICK id \in FormulaIds : Lev!insertFormula(id) /\ Mem!insertFormula(id)
      BY <2>1 DEF DbNext, insertFormula
    <3> QED
      BY <1>1, <3>1, LevInsert, MemInsert DEF DbInv
  <2>2. CASE UNCHANGED dbVars
    BY <1>1, <2>2 DEF DbInv, LevInv, MemInv, dbVars
  <2> QED
    BY <1>1, <2>1, <2>2
<1> QED
  BY <1>1, DbInitInv, PTL DEF DbSpec

\* The list of a formula without entries.
LEMMA NoHits ==
  ASSUME NEW id
  PROVE  ListIn(<<>>, id) = <<>>
<1>1. PICK db : db = <<>>
  OBVIOUS
<1>2. db \in Seq(Entry) /\ Len(db) = 0 /\ DOMAIN db = {}
  BY <1>1, EmptySeq
<1>3. PlacesIn(db, id) = (0 + 1)..0
  BY <1>2 DEF PlacesIn
<1>4. ListIn(db, id) = HitsFrom(db, 0, 0)
  <2>1. 0 \in Nat /\ 0 <= 0 /\ 0 <= Len(db)
    BY <1>2
  <2> QED
    BY <1>2, <1>3, <2>1, ListIs, Zenon
<1>5. HitsFrom(db, 0, 0) = <<>>
  BY DEF HitsFrom
<1> QED
  BY <1>1, <1>4, <1>5

LevLists == [id \in FormulaIds |-> Lev!ListOf(id)]

MemLists == [id \in FormulaIds |-> Mem!HitsOf(id)]

\* The lists of LevFormulaDb, by its entries.
LEMMA LevListsAre ==
  /\ LevLists = [id \in FormulaIds |-> ListIn(mDatabase, id)]
  /\ LevLists' = [id \in FormulaIds |-> ListIn(mDatabase', id)]
<1>1. ASSUME NEW id PROVE Lev!ListOf(id) = ListIn(mDatabase, id)
  BY Zenon DEF Lev!ListOf, ListIn, Stem
<1>2. ASSUME NEW id PROVE Lev!ListOf(id)' = ListIn(mDatabase', id)
  BY Zenon DEF Lev!ListOf, ListIn, Stem
<1> QED
  BY <1>1, <1>2 DEF LevLists

\* In both databases insertFormula changes the list of its own formula only, by
\* one hit: in LevFormulaDb whatever the decimal texts of the keys.
THEOREM InsertsKeepContractCorrect == DbSpec => InsertsKeepContract
<1>1. ASSUME DbInit PROVE Lev!Contract!Init /\ Mem!Contract!Init
  <2>1. mDatabase = <<>> /\ mData = <<>>
    BY <1>1 DEF DbInit, Lev!Init, Mem!Init
  <2>2. LevLists = [id \in FormulaIds |-> <<>>]
    BY <2>1, LevListsAre, NoHits
  <2>3. MemLists = [id \in FormulaIds |-> <<>>]
    BY <2>1 DEF MemLists, Mem!HitsOf
  <2> QED
    BY <2>2, <2>3 DEF LevLists, MemLists, Lev!Contract!Init, Mem!Contract!Init
<1>2. ASSUME DbInv, [DbNext]_dbVars PROVE [Lev!Contract!Next]_LevLists /\ [Mem!Contract!Next]_MemLists
  <2>1. CASE DbNext
    <3>1. PICK id \in FormulaIds : Lev!insertFormula(id) /\ Mem!insertFormula(id)
      BY <2>1 DEF DbNext, insertFormula
    <3>2. Lev!Contract!Next
      <4>1. Adds(mDatabase', mDatabase, id, mCounter) /\ mCounter + 1 \in 1..MaxInserts
        BY <1>2, <3>1, LevInsert DEF DbInv
      <4>2. PICK p \in 1..(Len(ListIn(mDatabase, id)) + 1) :
              ListIn(mDatabase', id) = Inserted(ListIn(mDatabase, id), p, mCounter + 1)
        BY <4>1 DEF Adds
      <4>3. \A o \in FormulaIds \ {id} : ListIn(mDatabase', o) = ListIn(mDatabase, o)
        BY <4>1 DEF Adds
      <4>4. PICK l, n : l = LevLists /\ n = LevLists'
        OBVIOUS
      <4>5. l = [o \in FormulaIds |-> ListIn(mDatabase, o)] /\ n = [o \in FormulaIds |-> ListIn(mDatabase', o)]
        BY <4>4, LevListsAre
      <4>6. p \in 1..(Len(l[id]) + 1) /\ n = [l EXCEPT ![id] = Inserted(l[id], p, mCounter + 1)]
        BY <4>2, <4>3, <4>5
      <4>7. LevLists' = [LevLists EXCEPT ![id] = Lev!Contract!InsertAt(LevLists[id], p, mCounter + 1)]
        BY <4>4, <4>6 DEF Inserted, Lev!Contract!InsertAt
      <4>8. Lev!Contract!insertFormula(id, mCounter + 1)
        BY <4>4, <4>6, <4>7 DEF Lev!Contract!insertFormula, LevLists
      <4> QED
        BY <4>1, <4>8 DEF Lev!Contract!Next
    <3>3. Mem!Contract!Next
      <4>1. /\ inserted + 1 \in 1..MaxInserts /\ Mem!HitsOf(id) \in Seq(Nat)
            /\ Mem!HitsOf(id)' = Append(Mem!HitsOf(id), inserted + 1)
            /\ \A o \in FormulaIds \ {id} : Mem!HitsOf(o)' = Mem!HitsOf(o)
        BY <1>2, <3>1, MemInsert DEF DbInv
      <4>2. PICK l, n, h : l = MemLists /\ n = MemLists' /\ h = inserted + 1
        OBVIOUS
      <4>3. n = [l EXCEPT ![id] = Append(l[id], h)] /\ l[id] \in Seq(Nat)
        BY <4>1, <4>2 DEF MemLists
      <4>4. PICK p : p = Len(l[id]) + 1
        OBVIOUS
      <4>5. p \in 1..(Len(l[id]) + 1) /\ Append(l[id], h) = Inserted(l[id], p, h)
        <5>1. PICK s : s = l[id]
          OBVIOUS
        <5>2. s \in Seq(Nat) /\ Len(s) \in Nat /\ p = Len(s) + 1 /\ p - 1 = Len(s) /\ h \in Nat
          BY <4>1, <4>2, <4>3, <4>4, <5>1
        <5>3. SubSeq(s, 1, p - 1) = s
          BY <5>2, SubSeqFull
        <5>4. SubSeq(s, p, Len(s)) = <<>>
          BY <5>2, SubSeqEmpty
        <5>5. s \o <<h>> = Append(s, h) /\ Append(s, h) \in Seq(Nat)
          BY <5>2, AppendIsConcat, AppendProperties
        <5>6. Append(s, h) \o <<>> = Append(s, h)
          BY <5>5, ConcatEmptySeq
        <5>7. Inserted(s, p, h) = Append(s, h)
          BY <5>3, <5>4, <5>5, <5>6 DEF Inserted
        <5> QED
          BY <5>1, <5>2, <5>7
      <4>6. MemLists' = [MemLists EXCEPT ![id] = Mem!Contract!InsertAt(MemLists[id], p, inserted + 1)]
        BY <4>2, <4>3, <4>5 DEF Inserted, Mem!Contract!InsertAt
      <4>7. Mem!Contract!insertFormula(id, inserted + 1)
        BY <4>2, <4>5, <4>6 DEF Mem!Contract!insertFormula, MemLists
      <4> QED
        BY <4>1, <4>7 DEF Mem!Contract!Next
    <3> QED
      BY <3>2, <3>3
  <2>2. CASE UNCHANGED dbVars
    <3>1. LevLists' = LevLists
      BY <2>2, LevListsAre DEF dbVars
    <3>2. MemLists' = MemLists
      BY <2>2 DEF dbVars, MemLists, Mem!HitsOf
    <3> QED
      BY <3>1, <3>2
  <2> QED
    BY <1>2, <2>1, <2>2
<1> QED
  BY <1>1, <1>2, DbInvariant, PTL
     DEF DbSpec, InsertsKeepContract, Lev!InsertKeepsContract, Mem!InsertKeepsContract, Lev!Contract!Spec,
         Mem!Contract!Spec, LevLists, MemLists

\* The page of a range of entries, and of a list.
EntryPage(db, a, b, lm, ls) == SubSeq(db, a + lm + 1, IF a + lm + ls < b THEN a + lm + ls ELSE b)

HitPage(l, lm, ls) == SubSeq(l, lm + 1, IF lm + ls <= Len(l) THEN lm + ls ELSE Len(l))

\* A page of a range of entries is a page of the list of their hits.
LEMMA PageOfHits ==
  ASSUME NEW db, db \in Seq(Entry), NEW a \in Nat, NEW b \in Nat, a <= b, b <= Len(db), NEW lm \in Nat, NEW ls \in Nat
  PROVE  Lev!HitsIn(EntryPage(db, a, b, lm, ls)) = HitPage(HitsFrom(db, a, b), lm, ls)
<1>0. PICK q, s, l, t : /\ q = (IF a + lm + ls < b THEN a + lm + ls ELSE b)
                        /\ s = SubSeq(db, a + lm + 1, q)
                        /\ l = HitsFrom(db, a, b)
                        /\ t = SubSeq(l, lm + 1, IF lm + ls <= Len(l) THEN lm + ls ELSE Len(l))
  OBVIOUS
<1>1. Len(db) \in Nat /\ \A i \in 1..Len(db) : db[i] \in Entry /\ db[i].hit \in Nat
  BY EntryIs, ElementOfSeq
<1>2. q \in Int /\ a + lm + 1 \in Int /\ q <= Len(db)
  <2>1. q = IF a + lm + ls < b THEN a + lm + ls ELSE b
    BY <1>0, Zenon
  <2>2. q \in Int /\ q <= b
    BY <2>1
  <2>3. Len(db) \in Nat
    BY <1>1
  <2> QED
    BY <2>2, <2>3
<1>3. l \in Seq(Nat) /\ Len(l) = b - a /\ \A i \in 1..(b - a) : l[i] = db[a + i].hit
  <2>1. l = [n \in 1..(b - a) |-> db[a + n].hit]
    BY <1>0 DEF HitsFrom
  <2>2. b - a \in Nat /\ \A n \in 1..(b - a) : db[a + n].hit \in Nat
    BY <1>1
  <2> QED
    BY <2>1, <2>2
<1>4. PICK u, w : u = (IF lm + ls <= Len(l) THEN lm + ls ELSE Len(l)) /\ w = (IF lm + 1 <= u THEN u - lm ELSE 0)
  OBVIOUS
<1>5. u \in Int /\ u = q - a /\ w \in Nat /\ u <= b - a
  BY <1>0, <1>3, <1>4
<1>6. /\ s \in Seq(Entry) /\ Len(s) = w
      /\ \A i \in 1..w : s[i] = db[a + lm + i]
  <2>1. \A i \in (a + lm + 1)..q : db[i] \in Entry
    BY <1>1, <1>2
  <2>2. /\ s \in Seq(Entry)
        /\ Len(s) = IF a + lm + 1 <= q THEN q - (a + lm + 1) + 1 ELSE 0
        /\ \A i \in 1..(q - (a + lm + 1) + 1) : s[i] = db[(a + lm + 1) + i - 1]
    <3>1. PICK o : o = a + lm + 1
      OBVIOUS
    <3>2. o \in Int /\ \A i \in o..q : db[i] \in Entry
      BY <1>2, <2>1, <3>1
    <3>3. /\ SubSeq(db, o, q) \in Seq(Entry)
          /\ Len(SubSeq(db, o, q)) = IF o <= q THEN q - o + 1 ELSE 0
          /\ \A i \in 1..(q - o + 1) : SubSeq(db, o, q)[i] = db[o + i - 1]
      BY <1>2, <3>2, SubSeqProperties
    <3> QED
      BY <1>0, <3>1, <3>3
  <2>3. (IF a + lm + 1 <= q THEN q - (a + lm + 1) + 1 ELSE 0) = w
    BY <1>2, <1>4, <1>5
  <2>4. ASSUME NEW i \in 1..w PROVE i \in 1..(q - (a + lm + 1) + 1) /\ (a + lm + 1) + i - 1 = a + lm + i
    BY <1>2, <1>4, <1>5
  <2> QED
    BY <2>2, <2>3, <2>4
<1>7. /\ t \in Seq(Nat) /\ Len(t) = w
      /\ \A i \in 1..w : t[i] = l[lm + i]
  <2>1. PICK S : S = Nat
    OBVIOUS
  <2>2. ASSUME NEW i \in (lm + 1)..u PROVE l[i] \in S
    <3>1. i \in 1..Len(l)
      BY <1>3, <1>5
    <3> QED
      BY <1>3, <2>1, <3>1
  <2>3. lm + 1 \in Int /\ u \in Int
    BY <1>5
  <2>4. /\ SubSeq(l, lm + 1, u) \in Seq(S)
        /\ Len(SubSeq(l, lm + 1, u)) = IF lm + 1 <= u THEN u - (lm + 1) + 1 ELSE 0
        /\ \A i \in 1..(u - (lm + 1) + 1) : SubSeq(l, lm + 1, u)[i] = l[(lm + 1) + i - 1]
    BY <2>2, <2>3, SubSeqProperties
  <2>5. (IF lm + 1 <= u THEN u - (lm + 1) + 1 ELSE 0) = w
    BY <1>4, <1>5
  <2>6. ASSUME NEW i \in 1..w PROVE i \in 1..(u - (lm + 1) + 1) /\ (lm + 1) + i - 1 = lm + i
    BY <1>4, <1>5
  <2>7. t = SubSeq(l, lm + 1, u)
    BY <1>0, <1>4
  <2> QED
    BY <2>1, <2>4, <2>5, <2>6, <2>7
<1>8. ASSUME NEW i \in 1..w PROVE s[i].hit = t[i]
  <2>1. lm + i \in 1..(b - a) /\ a + (lm + i) = a + lm + i
    BY <1>4, <1>5
  <2> QED
    BY <1>3, <1>6, <1>7, <2>1
<1>9. DOMAIN s = 1..w
  BY <1>6, LenProperties
<1>10. t = [i \in 1..w |-> t[i]]
  BY <1>7, LenProperties
<1>11. [i \in DOMAIN s |-> s[i].hit] = t
  BY <1>8, <1>9, <1>10
<1>12. s = EntryPage(db, a, b, lm, ls) /\ t = HitPage(HitsFrom(db, a, b), lm, ls)
  BY <1>0 DEF EntryPage, HitPage
<1> QED
  BY <1>11, <1>12 DEF Lev!HitsIn

\* The pages of LevFormulaDb.
LEMMA LevPages ==
  ASSUME LevInv
  PROVE  Lev!QueryKeepsContract
<1> SUFFICES ASSUME NEW id \in FormulaIds, NEW limitMin \in 0..MaxLimit, NEW limitSize \in 0..MaxLimit
             PROVE  Lev!queryFormula(id, limitMin, limitSize) = Lev!Contract!queryFormula(id, limitMin, limitSize)
  BY DEF Lev!QueryKeepsContract
<1>1. mCounter \in Nat /\ InKeyOrder(mDatabase) /\ HoldsHits(mDatabase, mCounter) /\ mDatabase \in Seq(Entry)
  BY DEF LevInv, InKeyOrder
<1>2. limitMin \in Nat /\ limitSize \in Nat
  BY FormulaDbAssumption
<1>3. PICK db, a, b : db = mDatabase /\ a = RankIn(mDatabase, Stem(id)) /\ b = RankIn(mDatabase, Stem(id) \o Lev!Xff)
  OBVIOUS
<1>4. a \in Nat /\ b \in Nat /\ a <= b /\ b <= Len(db) /\ PlacesIn(db, id) = (a + 1)..b
  BY <1>1, <1>3, PlacesAre
<1>5. PICK l : l = HitsFrom(db, a, b)
  OBVIOUS
<1>6. LevLists[id] = l
  <2>1. LevLists = [o \in FormulaIds |-> ListIn(mDatabase, o)]
    BY LevListsAre
  <2>2. ListIn(db, id) = l
    BY <1>1, <1>3, <1>4, <1>5, ListIs
  <2> QED
    BY <1>3, <2>1, <2>2
<1>7. Lev!HitsIn(EntryPage(db, a, b, limitMin, limitSize)) = HitPage(l, limitMin, limitSize)
  BY <1>1, <1>2, <1>3, <1>4, <1>5, PageOfHits
<1>8. Lev!Rank(Stem(id)) = a /\ Lev!Rank(Stem(id) \o Lev!Xff) = b
  <2>1. \A k : Lev!Rank(k) = RankIn(mDatabase, k)
    BY LevCount DEF Lev!Rank, RankIn
  <2> QED
    BY <1>3, <2>1
<1>9. Lev!queryFormula(id, limitMin, limitSize) = Lev!HitsIn(EntryPage(db, a, b, limitMin, limitSize))
  BY <1>3, <1>8 DEF Lev!queryFormula, Stem, EntryPage
<1>10. Lev!Contract!queryFormula(id, limitMin, limitSize) = HitPage(l, limitMin, limitSize)
  BY <1>6 DEF Lev!Contract!queryFormula, LevLists, HitPage
<1> QED
  BY <1>7, <1>9, <1>10

\* The pages of MemFormulaDb.
LEMMA MemPages ==
  ASSUME MemInv
  PROVE  Mem!QueryKeepsContract
<1> SUFFICES ASSUME NEW id \in FormulaIds, NEW limitMin \in 0..MaxLimit, NEW limitSize \in 0..MaxLimit
             PROVE  Mem!queryFormula(id, limitMin, limitSize) = Mem!Contract!queryFormula(id, limitMin, limitSize)
  BY DEF Mem!QueryKeepsContract
<1>1. limitMin \in Nat /\ limitSize \in Nat
  BY FormulaDbAssumption
<1>2. PICK l : l = Mem!HitsOf(id)
  OBVIOUS
<1>3. l \in Seq(Nat) /\ Len(l) \in Nat /\ (id \notin DOMAIN mData => Len(l) = 0)
  BY <1>2, EmptySeq DEF MemInv, Mem!HitsOf
<1>4. MemLists[id] = l
  BY <1>2 DEF MemLists
<1>5. PICK u : u = IF limitMin + limitSize <= Len(l) THEN limitMin + limitSize ELSE Len(l)
  OBVIOUS
<1>6. Mem!Contract!queryFormula(id, limitMin, limitSize) = SubSeq(l, limitMin + 1, u)
  BY <1>4, <1>5 DEF Mem!Contract!queryFormula, MemLists
<1>7. CASE id \notin DOMAIN mData \/ limitMin >= Len(l)
  <2>1. limitMin >= Len(l)
    BY <1>1, <1>3, <1>7
  <2>2. u \in Int /\ limitMin + 1 \in Int /\ u < limitMin + 1
    BY <1>1, <1>3, <1>5, <2>1
  <2>3. SubSeq(l, limitMin + 1, u) = <<>>
    BY <2>2, SubSeqEmpty
  <2> QED
    BY <1>2, <1>6, <1>7, <2>3 DEF Mem!queryFormula
<1>8. CASE ~(id \notin DOMAIN mData \/ limitMin >= Len(l))
  <2>1. u = IF limitMin + limitSize < Len(l) THEN limitMin + limitSize ELSE Len(l)
    BY <1>1, <1>3, <1>5
  <2> QED
    BY <1>2, <1>6, <1>8, <2>1 DEF Mem!queryFormula
<1> QED
  BY <1>7, <1>8

\* In both databases queryFormula never shows the hits of another formula (in
\* LevFormulaDb one whose key text is near), and consecutive pages show each
\* hit of the formula exactly once.
THEOREM QueriesKeepContractCorrect == DbSpec => []QueriesKeepContract
<1>1. DbInv => QueriesKeepContract
  BY LevPages, MemPages DEF DbInv, QueriesKeepContract
<1> QED
  BY <1>1, DbInvariant, PTL
=============================================================================

--------------------------- MODULE IndexLifecycle ---------------------------
(***************************************************************************)
(* The life of an index directory: createCompressedIndex writes its four   *)
(* parts (crawl.db, formula.db, index.memsector, meanings.dat), IndexLoader*)
(* reads them back, mwsd does the one when the other failed, mws-index     *)
(* always builds.  Processes may crash between any two steps; what they    *)
(* wrote stays.  A part is described by the build it comes from and by how *)
(* much of it was written.  LevelDB (external) lets one process at a time  *)
(* open or destroy a database.                                             *)
(***************************************************************************)
EXTENDS Integers, FiniteSets

CONSTANTS
  Procs,        \* processes that may run on the directory
  NoProc,       \* no process (owner of a free database lock)
  Programs,     \* records [build, load, deleteOld]: what a process may be started as
  MaxBuilds,    \* bound: number of builds
  MaxCrashes,   \* bound: number of crashes
  MayStop,      \* whether a serving daemon is ever asked to stop
  HarvestMayBeEmpty,  \* whether loadHarvests may find no expression
  DiskMayFail   \* whether opening or writing index.memsector or meanings.dat may fail

ASSUME LifecycleAssumption ==
  /\ NoProc \notin Procs
  /\ MaxBuilds \in Nat /\ MaxCrashes \in Nat
  /\ Programs \subseteq [build : BOOLEAN, load : BOOLEAN, deleteOld : BOOLEAN]
  /\ MayStop \in BOOLEAN /\ HarvestMayBeEmpty \in BOOLEAN /\ DiskMayFail \in BOOLEAN

VARIABLES
  crawl, formula, mem, dict,  \* the parts: [gen, st]
  owner,     \* database -> process that has it open
  pc,        \* process -> step
  prog,      \* process -> program it runs
  tried,     \* process -> whether mwsd already tried to build
  gen,       \* process -> number of its build
  seen,      \* process -> the parts its IndexLoader read
  builds, crashes

parts == <<crawl, formula, mem, dict>>
vars  == <<crawl, formula, mem, dict, owner, pc, prog, tried, gen, seen, builds, crashes>>

Databases == {"crawl", "formula"}
Part(g, s) == [gen |-> g, st |-> s]
Absent     == Part(0, "none")

(***************************************************************************)
(* Write states.  Databases: "partial" while harvests are loaded, then     *)
(* "full".  index.memsector: "empty" after fopen, "header" once the first, *)
(* provisional header (no checksum, index_size 0) and some data reached    *)
(* the file, "full" when memsector_save has rewritten the header, "short"  *)
(* when writes failed.  meanings.dat: "partial" from open to close.  A     *)
(* build is at "success" when it has written all parts, at "noDict" when   *)
(* meanings.dat could not be opened; it returns EXIT_SUCCESS in both.      *)
(***************************************************************************)
Steps == {"off", "crawlDb", "formulaDb", "harvests", "memCreate", "memWrite", "memSave",
          "dictOpen", "dictSave", "success", "noDict",
          "loadDict", "loadFormula", "loadCrawl", "loadMem", "serving"}

NoProgram == [build |-> FALSE, load |-> FALSE, deleteOld |-> FALSE]
Nothing   == [crawl |-> Absent, formula |-> Absent, mem |-> Absent, dict |-> Absent]

Init ==
  /\ crawl = Absent /\ formula = Absent /\ mem = Absent /\ dict = Absent
  /\ owner = [d \in Databases |-> NoProc]
  /\ pc = [p \in Procs |-> "off"]
  /\ prog = [p \in Procs |-> NoProgram]
  /\ tried = [p \in Procs |-> FALSE]
  /\ gen = [p \in Procs |-> 0]
  /\ seen = [p \in Procs |-> Nothing]
  /\ builds = 0 /\ crashes = 0

Goto(p, step) == pc' = [pc EXCEPT ![p] = step]

Release(p) == owner' = [d \in Databases |-> IF owner[d] = p THEN NoProc ELSE owner[d]]

\* A process is started: mwsd first tries to load, mws-index builds.
Start(p, g) ==
  /\ pc[p] = "off"
  /\ prog' = [prog EXCEPT ![p] = g]
  /\ tried' = [tried EXCEPT ![p] = FALSE]
  /\ seen' = [seen EXCEPT ![p] = Nothing]
  /\ IF g.load
       THEN Goto(p, "loadDict") /\ UNCHANGED <<gen, builds>>
       ELSE /\ builds < MaxBuilds
            /\ builds' = builds + 1
            /\ gen' = [gen EXCEPT ![p] = builds + 1]
            /\ Goto(p, "crawlDb")
  /\ UNCHANGED <<parts, owner, crashes>>

-----------------------------------------------------------------------------
(***************************************************************************)
(* createCompressedIndex.  Leaving it, with success or not, closes the     *)
(* databases; mwsd ignores the value returned and loads again, mws-index   *)
(* exits with it.                                                          *)
(***************************************************************************)
AfterBuild(p) == IF prog[p].load THEN "loadDict" ELSE "off"

BuildFails(p) == Goto(p, AfterBuild(p)) /\ Release(p)

\* create_new: DestroyDB first when old data is to be deleted (it does nothing
\* to a database another process has open), then an open that fails if the
\* database exists or is in use.

\* Mutants: old data is never deleted; a database in use is replaced.
CanCreateIfAbsent(p, d, part) == owner[d] = NoProc /\ part = Absent
CanCreateInUse(p, d, part)    == prog[p].deleteOld \/ part = Absent

CanCreate(p, d, part) ==
  /\ owner[d] = NoProc
  /\ prog[p].deleteOld \/ part = Absent

CreateCrawlDb(p) ==
  /\ pc[p] = "crawlDb"
  /\ \/ /\ CanCreate(p, "crawl", crawl)
        /\ crawl' = Part(gen[p], "partial")
        /\ owner' = [owner EXCEPT !["crawl"] = p]
        /\ Goto(p, "formulaDb")
     \/ /\ ~CanCreate(p, "crawl", crawl)
        /\ BuildFails(p)
        /\ UNCHANGED crawl
  /\ UNCHANGED <<formula, mem, dict, prog, tried, gen, seen, builds, crashes>>

CreateFormulaDb(p) ==
  /\ pc[p] = "formulaDb"
  /\ \/ /\ CanCreate(p, "formula", formula)
        /\ formula' = Part(gen[p], "partial")
        /\ owner' = [owner EXCEPT !["formula"] = p]
        /\ Goto(p, "harvests")
     \/ /\ ~CanCreate(p, "formula", formula)
        /\ BuildFails(p)
        /\ UNCHANGED formula
  /\ UNCHANGED <<crawl, mem, dict, prog, tried, gen, seen, builds, crashes>>

LoadHarvests(p) ==
  /\ pc[p] = "harvests"
  /\ \/ /\ crawl' = Part(gen[p], "full")
        /\ formula' = Part(gen[p], "full")
        /\ Goto(p, "memCreate")
        /\ UNCHANGED owner
     \/ /\ HarvestMayBeEmpty      \* "No expressions loaded. Aborting..."
        /\ BuildFails(p)
        /\ UNCHANGED <<crawl, formula>>
  /\ UNCHANGED <<mem, dict, prog, tried, gen, seen, builds, crashes>>

MemWriteTo(p, from, to, st) ==
  /\ pc[p] = from
  /\ mem' = Part(gen[p], st)
  /\ Goto(p, to)
  /\ UNCHANGED <<crawl, formula, dict, owner, prog, tried, gen, seen, builds, crashes>>

\* fopen fails: memsector_create says so, nobody looks, and the next fwrite, to a
\* null FILE, ends the process.
MemCreateFails(p) ==
  /\ DiskMayFail
  /\ pc[p] = "memCreate"
  /\ Goto(p, "off")
  /\ Release(p)
  /\ UNCHANGED <<parts, prog, tried, gen, seen, builds, crashes>>

MemCreate(p) == MemWriteTo(p, "memCreate", "memWrite", "empty") \/ MemCreateFails(p)
MemWrite(p)  == MemWriteTo(p, "memWrite", "memSave", "header")

\* fwrite errors are printed and otherwise ignored, those of the header not even
\* printed: the provisional header may stay.
MemSave(p) == \/ MemWriteTo(p, "memSave", "dictOpen", "full")
              \/ /\ DiskMayFail
                 /\ \E st \in {"short", "header"} : MemWriteTo(p, "memSave", "dictOpen", st)

DictWriteTo(p, from, to, st) ==
  /\ pc[p] = from
  /\ dict' = Part(gen[p], st)
  /\ Goto(p, to)
  /\ UNCHANGED <<crawl, formula, mem, owner, prog, tried, gen, seen, builds, crashes>>

\* fb.open is not checked either: a dictionary that cannot be opened stays as it was.
DictOpen(p) ==
  \/ DictWriteTo(p, "dictOpen", "dictSave", "partial")
  \/ /\ DiskMayFail
     /\ pc[p] = "dictOpen"
     /\ Goto(p, "noDict")
     /\ UNCHANGED <<parts, owner, prog, tried, gen, seen, builds, crashes>>

\* The stream's error state is not looked at.
DictSave(p) == \/ DictWriteTo(p, "dictSave", "success", "full")
               \/ DiskMayFail /\ DictWriteTo(p, "dictSave", "success", "partial")

\* return EXIT_SUCCESS.
BuildSucceeds(p) ==
  /\ pc[p] \in {"success", "noDict"}
  /\ Goto(p, AfterBuild(p))
  /\ Release(p)
  /\ UNCHANGED <<parts, prog, tried, gen, seen, builds, crashes>>

-----------------------------------------------------------------------------
(***************************************************************************)
(* IndexLoader, called by mwsd: any part that cannot be read throws, which *)
(* closes the databases; mwsd then builds once if it was given harvests.   *)
(***************************************************************************)
LoadFails(p) ==
  /\ Release(p)
  /\ IF prog[p].build /\ ~tried[p]
       THEN /\ builds < MaxBuilds
            /\ builds' = builds + 1
            /\ gen' = [gen EXCEPT ![p] = builds + 1]
            /\ tried' = [tried EXCEPT ![p] = TRUE]
            /\ Goto(p, "crawlDb")
       ELSE Goto(p, "off") /\ UNCHANGED <<builds, gen, tried>>
  /\ UNCHANGED seen

\* Mutant: a missing dictionary is taken for an empty one.
LoadDictOrNothing(p) ==
  /\ pc[p] = "loadDict"
  /\ seen' = [seen EXCEPT ![p].dict = dict]
  /\ Goto(p, "loadFormula")
  /\ UNCHANGED <<parts, owner, prog, tried, gen, builds, crashes>>

LoadDict(p) ==
  /\ pc[p] = "loadDict"
  /\ \/ /\ dict # Absent
        /\ seen' = [seen EXCEPT ![p].dict = dict]
        /\ Goto(p, "loadFormula")
        /\ UNCHANGED <<owner, tried, gen, builds>>
     \/ dict = Absent /\ LoadFails(p)
  /\ UNCHANGED <<parts, prog, crashes>>

LoadFormulaDb(p) ==
  /\ pc[p] = "loadFormula"
  /\ \/ /\ formula # Absent /\ owner["formula"] = NoProc
        /\ owner' = [owner EXCEPT !["formula"] = p]
        /\ seen' = [seen EXCEPT ![p].formula = formula]
        /\ Goto(p, "loadCrawl")
        /\ UNCHANGED <<tried, gen, builds>>
     \/ (formula = Absent \/ owner["formula"] # NoProc) /\ LoadFails(p)
  /\ UNCHANGED <<parts, prog, crashes>>

LoadCrawlDb(p) ==
  /\ pc[p] = "loadCrawl"
  /\ \/ /\ crawl # Absent /\ owner["crawl"] = NoProc
        /\ owner' = [owner EXCEPT !["crawl"] = p]
        /\ seen' = [seen EXCEPT ![p].crawl = crawl]
        /\ Goto(p, "loadMem")
        /\ UNCHANGED <<tried, gen, builds>>
     \/ (crawl = Absent \/ owner["crawl"] # NoProc) /\ LoadFails(p)
  /\ UNCHANGED <<parts, prog, crashes>>

\* A file that is not there cannot be opened, an empty one cannot be mapped.
mmap_load(m) == m.st \notin {"none", "empty"}

\* memsector_load accepts a file whose checksum field equals the checksum of
\* index_size bytes: also the provisional header, whose size and checksum are 0.
memsector_valid(m) == mmap_load(m) /\ m.st \in {"header", "full"}

LoadMemsector(p) ==
  /\ pc[p] = "loadMem"
  /\ \/ /\ memsector_valid(mem)
        /\ seen' = [seen EXCEPT ![p].mem = mem]
        /\ Goto(p, "serving")
        /\ UNCHANGED <<owner, tried, gen, builds>>
     \/ ~memsector_valid(mem) /\ LoadFails(p)
     \/ /\ mem.st = "short"       \* SIGBUS: the checksum is taken past the end of the file
        /\ Goto(p, "off") /\ Release(p)
        /\ UNCHANGED <<tried, gen, seen, builds>>
  /\ UNCHANGED <<parts, prog, crashes>>

-----------------------------------------------------------------------------
Off(p) == /\ Goto(p, "off")
          /\ Release(p)
          /\ UNCHANGED <<parts, prog, tried, gen, seen, builds>>

\* SIGTERM: the daemon closes the index and exits.
Stop(p) == MayStop /\ pc[p] = "serving" /\ Off(p) /\ UNCHANGED crashes

\* The process is killed or aborts; its files stay as they are.
Crash(p) == /\ pc[p] # "off"
            /\ crashes < MaxCrashes
            /\ crashes' = crashes + 1
            /\ Off(p)

createCompressedIndex(p) ==
  \/ CreateCrawlDb(p) \/ CreateFormulaDb(p) \/ LoadHarvests(p)
  \/ MemCreate(p) \/ MemWrite(p) \/ MemSave(p) \/ DictOpen(p) \/ DictSave(p)
  \/ BuildSucceeds(p)

IndexLoader(p) ==
  LoadDict(p) \/ LoadFormulaDb(p) \/ LoadCrawlDb(p) \/ LoadMemsector(p)

Run(p) == (\E g \in Programs : Start(p, g)) \/ createCompressedIndex(p) \/ IndexLoader(p)

Next == \E p \in Procs : Run(p) \/ Stop(p) \/ Crash(p)

Spec == Init /\ [][Next]_vars

\* A supervisor restarts the daemon, and a started process keeps running.
FairSpec == Spec /\ \A p \in Procs : WF_vars(Run(p))

-----------------------------------------------------------------------------
(***************************************************************************)
(* Properties.                                                             *)
(***************************************************************************)

OneBuild(s) == \E g \in 1..builds :
                 /\ \A x \in {s.crawl, s.formula, s.mem} : x = Part(g, "full")
                 /\ s.dict.gen = g

\* Where only daemons build, a daemon never serves parts of different builds,
\* nor databases or an index that were not written to the end, whatever builds
\* were cut short by crashes: the dictionary, written last and read first by
\* IndexLoader, is what commits a build.  (The dictionary itself has no end
\* mark: a crash while it is written leaves one that loads, cut short.)
ServesOneBuild == \A p \in Procs : pc[p] = "serving" => OneBuild(seen[p])

\* The files of a serving daemon are not changed under it by another process
\* that builds in the same directory (index.memsector is memory-mapped).
ServedFilesStay ==
  [][\A p \in Procs : pc[p] = "serving" /\ pc'[p] = "serving" => UNCHANGED parts]_vars

\* When createCompressedIndex returns EXIT_SUCCESS, the databases and the memsector
\* in the directory are the ones it wrote itself, its databases with all harvests
\* loaded, whatever other processes were started on the directory meanwhile and
\* whatever writes failed; so is the dictionary if it could be opened.  (If not,
\* that of an earlier build stays beside them.)
BuildsDoNotMix ==
  \A p \in Procs : pc[p] \in {"success", "noDict"} =>
    /\ crawl = Part(gen[p], "full") /\ formula = Part(gen[p], "full")
    /\ mem.gen = gen[p]
    /\ pc[p] = "success" => dict.gen = gen[p]

\* memsector_load "validates" the memsector: what it accepts has been written
\* to the end by memsector_save.
LoadedMemsectorWasSaved ==
  \A p \in Procs : pc[p] = "serving" => seen[p].mem.st = "full"

\* With harvests and --delete-old-data a daemon that is restarted after each
\* crash is in the end back in service, whatever files the crashes left.
Recovers == \A p \in Procs : <>[](pc[p] = "serving")
=============================================================================

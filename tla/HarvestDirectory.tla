-------------------------- MODULE HarvestDirectory --------------------------
(***************************************************************************)
(* loadHarvests: the files that HarvestLoader parses are the harvests      *)
(* foreachEntryInDirectory (util.cpp) finds in the directories it is       *)
(* given.  It keeps a queue of the directories and one of the files that   *)
(* are still to be visited; the first call that fails ends the visit of    *)
(* that path, and loadHarvests goes on with the next one.                  *)
(*                                                                         *)
(* A path is the sequence of its names, and names are numbers, which have  *)
(* the order of the strings.                                               *)
(***************************************************************************)
EXTENDS HarvestLoader

CONSTANTS
  Configs,     \* HarvesterConfigurations with what they find: [paths, recursive, tree],
               \* tree: directory -> entries [name, type, harvest]
  MaxFailures  \* bound: calls of opendir, readdir_r, closedir and open that fail

\* A directory is finite, its names are different and its directories are in the tree.
ASSUME DirectoryAssumption ==
  \A cfg \in Configs :
    /\ DOMAIN cfg.tree \subseteq Seq(Int) \ {<<>>}
    /\ cfg.paths \in Seq(DOMAIN cfg.tree) /\ cfg.recursive \in BOOLEAN
    /\ \A dir \in DOMAIN cfg.tree :
         /\ IsFiniteSet(cfg.tree[dir])
         /\ \A e \in cfg.tree[dir] : /\ e.name \in Int /\ e.harvest \in BOOLEAN
                                     /\ e.type = "DT_DIR" => Append(dir, e.name) \in DOMAIN cfg.tree
         /\ \A e, f \in cfg.tree[dir] : e.name = f.name => e = f

VARIABLES
  config,
  paths,               \* of config.paths, those to come
  path,                \* the one at hand
  directories, files,  \* queues
  failures,
  loaded,              \* history: [nth, name] of each file given to the parser, for the nth path
  broken               \* history: the numbers of the paths whose visit a failure ended

queues      == <<directories, files>>
visitVars   == <<config, paths, path, queues, failures, loaded, broken>>
harvestVars == <<loadVars, visitVars>>

NoPath == <<>>

HarvestInit ==
  /\ LoadInit
  /\ config \in Configs
  /\ paths = config.paths /\ path = NoPath
  /\ directories = <<>> /\ files = <<>>
  /\ failures = 0 /\ loaded = <<>> /\ broken = {}

\* Entries of one type in the order of their names.
Names(dir, type) == { e.name : e \in { x \in config.tree[dir] : x.type = type } }

Sorted(dir, type) ==
  LET names == InOrder(Names(dir, type))
  IN  [i \in DOMAIN names |-> Append(dir, names[i])]

\* Mutant: a subdirectory is visited before those that are waiting.
PathsInFront(dir, waiting) ==
  /\ files' = files \o Sorted(dir, "DT_REG")
  /\ directories' = Sorted(dir, "DT_DIR") \o waiting

\* The entries of a directory join the queues; hidden ones and those of other
\* types do not.
getPathsInDirectory(dir, waiting) ==
  /\ files' = files \o Sorted(dir, "DT_REG")
  /\ directories' = waiting \o Sorted(dir, "DT_DIR")

hasSuffix(f) == \E e \in config.tree[Front(f)] : e.name = Last(f) /\ e.harvest

\* The number of the path at hand, or of the latest one.
Nth == Len(config.paths) - Len(paths)

\* A call failed: foreachEntryInDirectory returns -1.
EndVisit(nth) ==
  /\ failures < MaxFailures /\ failures' = failures + 1
  /\ path' = NoPath /\ directories' = <<>> /\ files' = <<>>
  /\ broken' = broken \cup {nth}

-----------------------------------------------------------------------------
Visiting == Idle /\ doc = "closed" /\ path # NoPath

StartVisit ==
  /\ Idle /\ doc = "closed" /\ path = NoPath /\ paths # <<>>
  /\ paths' = Tail(paths)
  /\ \/ /\ path' = Head(paths) /\ getPathsInDirectory(Head(paths), <<>>)
        /\ UNCHANGED <<failures, broken>>
     \/ EndVisit(Nth + 1)
  /\ UNCHANGED <<loadVars, config, loaded>>

\* The file callback; a file whose name has another ending is passed over.
PassOverFile ==
  /\ Visiting /\ files # <<>> /\ ~hasSuffix(Head(files))
  /\ files' = Tail(files)
  /\ UNCHANGED <<loadVars, config, paths, path, directories, failures, loaded, broken>>

LoadFile ==
  /\ Visiting /\ files # <<>> /\ hasSuffix(Head(files))
  /\ processHarvestFromFd
  /\ files' = Tail(files)
  /\ loaded' = Append(loaded, [nth |-> Nth, name |-> Head(files)])
  /\ UNCHANGED <<config, paths, path, directories, failures, broken>>

OpenFails ==
  /\ Visiting /\ files # <<>> /\ hasSuffix(Head(files))
  /\ EndVisit(Nth)
  /\ UNCHANGED <<loadVars, config, paths, loaded>>

\* The directory callback is asked when no file is left.
NextDirectory ==
  /\ Visiting /\ files = <<>> /\ directories # <<>>
  /\ IF config.recursive
       THEN \/ /\ getPathsInDirectory(Head(directories), Tail(directories))
               /\ UNCHANGED <<path, failures, broken>>
            \/ EndVisit(Nth)
       ELSE directories' = Tail(directories) /\ UNCHANGED <<path, files, failures, broken>>
  /\ UNCHANGED <<loadVars, config, paths, loaded>>

VisitEnds ==
  /\ Visiting /\ files = <<>> /\ directories = <<>>
  /\ path' = NoPath
  /\ UNCHANGED <<loadVars, config, paths, queues, failures, loaded, broken>>

loadHarvests ==
  \/ StartVisit \/ PassOverFile \/ LoadFile \/ OpenFails \/ NextDirectory \/ VisitEnds
  \/ ParseStep /\ UNCHANGED visitVars

HarvestSpec == HarvestInit /\ [][loadHarvests]_harvestVars

-----------------------------------------------------------------------------
(***************************************************************************)
(* Properties.                                                             *)
(***************************************************************************)

\* The directories a path leads to: no name on the way to them is hidden.
IsDirectory(tree, d) == \E e \in tree[Front(d)] : e.name = Last(d) /\ e.type = "DT_DIR"

Reached(cfg, p) ==
  { d \in DOMAIN cfg.tree : /\ IsPrefix(p, d) /\ (Len(d) > Len(p) => cfg.recursive)
                           /\ \A n \in (Len(p) + 1)..Len(d) : IsDirectory(cfg.tree, SubSeq(d, 1, n)) }

Harvests(cfg, p) ==
  UNION { { Append(d, e.name) : e \in { x \in cfg.tree[d] : x.type = "DT_REG" /\ x.harvest } }
          : d \in Reached(cfg, p) }

\* Less deep files come before deeper ones, those of one depth by their names.
Before(f, g) ==
  \/ Len(f) < Len(g)
  \/ Len(f) = Len(g) /\ \E i \in DOMAIN f : f[i] < g[i] /\ \A k \in 1..(i - 1) : f[k] = g[k]

\* The places in loaded of the files that were parsed for a path.
ParsedFor(nth) == { k \in DOMAIN loaded : loaded[k].nth = nth }

\* The files parsed for the nth path are harvests it leads to, the files of a level
\* in the order of their names and after those of the levels above, and none is left
\* out, but for those after a call that fails, which costs the rest of its own path
\* and nothing of the others.
EveryHarvestOnce ==
  \A nth \in DOMAIN config.paths :
    LET mine == ParsedFor(nth)
        all  == Harvests(config, config.paths[nth])
    IN  /\ \A k \in mine : loaded[k].name \in all /\ nth <= Nth
        /\ \A k, l \in mine : k < l => Before(loaded[k].name, loaded[l].name)
        /\ \A k \in mine, f \in all : Before(f, loaded[k].name) => \E l \in mine : loaded[l].name = f
        /\ (nth < Nth \/ (nth = Nth /\ path = NoPath)) /\ nth \notin broken =>
             \A f \in all : \E k \in mine : loaded[k].name = f
=============================================================================

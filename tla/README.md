# MathWebSearch: TLA+ models, model checking and proofs

MathWebSearch (`src/`) is a search engine for formulas.  A crawler collects
Content MathML from web pages into harvest files; the expressions of harvest
files are encoded as token sequences and put into a trie; a query is a formula
with variables and ranges, and the engine returns the stored formulas that are
instances of it, page by page, over HTTP.  This directory models the parts of the
program that carry state or an algorithm of their own, checks them with TLC on
small instances and proves central invariants with TLAPS.

Paths below are relative to `src/src/` unless they begin with `src/`.

## 1. Inventory

| Component | State it keeps | Operations | Correct when |
|---|---|---|---|
| **Trie and iterator** (`mws/index/IndexIterator.hpp`, `TmpIndexAccessor.hpp`, `common/utils/ContainerIterator.hpp`, `mws/types/VectorMap.hpp`) | the trie; a stack of child iterators, a root, the number `_arity` of open subterms | `set`, `next`, `getPath`, callbacks on push and pop | the iterator yields exactly the complete terms below its node, in order, once each; ends |
| **Query search** (`mws/query/SearchContext.cpp`) | token position, current node, backtrack table of variable and range contexts, hits found, page cursor | constructor, `getResult` | the formulas found are those that unify with the query; the page, the total and the ids are exactly the requested ones |
| **Experimental engine** (`mws/query/engine.c`) | query stack, instantiations | `query_engine_run` | reports instances of the query, and all of them |
| **Formula databases** (`mws/dbc/FormulaDb.hpp`, `MemFormulaDb.cpp`, `LevFormulaDb.cpp`) | hits per formula id | `insertFormula`, `queryFormula` | consecutive pages of one formula show each of its hits once and nothing else |
| **Crawl databases, query manager** (`mws/dbc/*CrawlDb.cpp`, `DbQueryManager.cpp`) | data per crawl id | `putData`, `getData`, `query` | every stored hit's crawl id resolves |
| **Index construction** (`mws/index/IndexBuilder.cpp`, `TmpIndex.cpp`) | leaves with ids and hit counts, both databases, the formulas seen in the expression at hand | `loadHarvests`, `indexCrawlData`, `indexContentMath`, `insertData` | every harvest read once; counts in the trie equal what the databases hold; one hit per formula and expression; nothing lost |
| **Memsector format** (`mws/index/index.h`, `memsector.h`, `IndexAccessor.hpp`, export in `TmpIndex.cpp`) | the layout of the trie in a file | `exportToMemsector`, accessors | the accessor reads back the exported trie |
| **Index directory** (`mws/index/IndexWriter.cpp`, `IndexLoader.cpp`, `memsector.c`, `common/types/IdDictionary.hpp`, `mws/mwsd.cpp`, `mws/mws-index.cpp`) | four files: `crawl.db`, `formula.db`, `index.memsector`, `meanings.dat` | `createCompressedIndex`, `IndexLoader`, start, stop, crash | a daemon serves one complete build; a served index is not changed; a crashed daemon recovers |
| **Threads** (`common/thread/ThreadWrapper.cpp`) | mutex, `active`, `alive` | `init`, `run`, `clean`, thread end | `clean()` returns after, and only after, the last thread is gone |
| **Terms and encoding** (`mws/types/CmmlToken.cpp`, `mws/index/ExpressionEncoder.cpp`, `encoded_token.h`) | expression trees; meanings, variable ids | construction, `foreachSubexpression`, `encode` | order, arities and paths of subexpressions; ids do not collide |
| **Parsers** (`mws/xmlparser/processMwsHarvest.cpp`, `readMwsQuery.cpp`) | SAX state, depth of unknown elements, expression under construction | start/end/characters/error handlers | errors and unknown elements in one term do not leak into the next |
| **HTTP daemon and handlers** (`mws/daemon/*.cpp`) | per-connection stream, the lock of libxml2 | access handler, query handlers | each request gets the answer to its own body; streams freed; shutdown ends |
| **Schema engine** (`mws/query/SchemaEngine.cpp`) | groups of cut formulas | `getSchemata`, `getSubstitutions` | a schema shows what its formulas look like; the largest are kept |
| **Response formatters** (`mws/xmlparser/*Formatter.cpp`) | none | `writeData` | the document holds the answer |
| **Signals** (`mws/mwsd.cpp`, `mws/schemad.cpp`, `crawler/crawlerd.cpp`) | quit flag | handlers, `sigsuspend` | a quit request is not missed |
| **Crawler** (`crawler/`) | shared queue of requests, worker, robots rules, pages, harvest files | request callbacks, crawl, store | requests taken once; visits keep to the request and, where they are read, to the rules of `robots.txt`; expressions stored once |
| **Command line tools, utilities** | none of their own | batch runs, system-call wrappers | - |

How they interact.  `mwsd` starts by loading an index directory and, if that
fails and it was given harvests, builds one (`createCompressedIndex`) and loads
again.  Building visits the harvest directories and runs the harvest parser on
each file, which calls `IndexBuilder` once per data item and per expression;
`IndexBuilder` encodes each subexpression, inserts it into the trie, and stores a
hit in the formula database that refers to crawl data by id; at the end the trie
is exported to a memsector.  A query arrives over HTTP, in a thread of its
connection, is parsed under the lock of libxml2 and encoded, and
`SearchContext::getResult` walks the trie (through an accessor: `TmpIndex` in
memory or the mapped memsector) with one `IndexIterator` per variable; at each
leaf it counts `num_hits` and asks `DbQueryManager` for the part of the leaf's
hits that lies on the page.  `schemad` groups the formulas of a query by their
outer shape instead.  The index is read-only while served; concurrency is between
connections, between the crawler's daemon thread, its worker and main (one shared
queue), between a signal and the main loop, between processes on one directory,
and between the threads of `ThreadWrapper`.

What is hard.  Resuming iterators and replaying repeated variables after
backtracking; paging arithmetic over two counters; databases ordered by decimal
texts; counts and stores that must stay in step although an insertion may fail
unnoticed; offsets and counts narrower than what they hold; four files written
without a commit record while the process may crash, writes may fail, or another
process works on the same directory; a counter of threads that is incremented
after the thread was created; a queue that is read without its lock; downloads
that are repeated after a failure and append to what is there; a quit flag that
is tested before `sigsuspend`; SAX handlers whose state must follow the document
through errors.  `PROJECT.json` lists these as hazards, each with its line and
the properties aimed at it.

## 2. Modules

| Module | Models | Composed of |
|---|---|---|
| `IndexTrie` | tokens, the trie as its set of formulas, child order, what a complete term is | - |
| `TermEnumerator` | abstract specification: the terms below a node, in order, one per call | `IndexTrie` |
| `IndexIterator` | the iterator, one action per loop step of `next()`, `set()` | `IndexTrie`; refines `TermEnumerator` |
| `Memsector` | export of the trie through the iterator's callbacks, reading it back | extends `IndexIterator` |
| `SearchContext` | the constructor's tables and `getResult` | `IndexTrie` |
| `QueryEngine` | the experimental engine | extends `SearchContext` |
| `FormulaDb` | abstract specification: a list of hits per id, paging | - |
| `LevFormulaDb`, `MemFormulaDb` | the two databases | refine `FormulaDb` |
| `FormulaDbs` | both databases given the same insertions | `LevFormulaDb` and `MemFormulaDb` |
| `CmmlTokens` | token trees, their places and their encoding | - |
| `IndexBuilder` | `indexCrawlData`, `indexContentMath`, `insertData`, the databases as they see them | - |
| `HarvestLoader` | the SAX handlers of the harvest parser | extends `IndexBuilder` and `CmmlTokens`; calls the builder's actions |
| `HarvestDirectory` | `loadHarvests`: the visit of directories | extends `HarvestLoader`; implements `IndexBuilder`'s specification |
| `IndexLifecycle` | building, loading, crashing, several processes | - |
| `ThreadWrapper` | the class, its callers, its threads and the main thread | - |
| `QueryParser` | the SAX handlers of the query parser | extends `CmmlTokens` |
| `SchemaEngine` | reduction, grouping, decoding, substitutions | extends `QueryParser` |
| `ResponseFormatters` | the five formatters | extends `SchemaEngine` |
| `SignalWait` | signals and the main thread of a daemon | - |
| `HttpDaemon` | `mwsd` and `schemad`: connections, access handler, query handlers, shutdown | extends `ResponseFormatters` and `SignalWait` |
| `WebPage` | downloads, links, extraction of formulas, `robots.txt` | - |
| `Crawler` | `crawlerd`: request callbacks, queue, worker, shutdown | extends `WebPage` and `SignalWait` |
| `MC*`, `MCFormulas` | instances for TLC | |
| `IndexTrieProofs` | lemmas about tokens, terms, the trie and its order | `IndexTrie` |
| `IndexIteratorProofs`, `SearchContextProofs` | theorems | extend `IndexTrieProofs` |
| `HarvestProofs`, `IndexStorageProofs`, `HttpDaemonProofs`, `ThreadWrapperProofs`, `CrawlerProofs` | theorems | |

### Tokens and trie (`IndexTrie`)

A token is `[id, arity]`; the id ranges and predicates are those of
`encoded_token.h` with its constants.  A trie is fully given by the set of
formulas inserted, so a node is the token sequence that leads to it: a leaf is a
formula, an inner node a proper prefix of one.  Children are ordered as
`VectorMap` orders them, by the bytes of the packed token compared as an
integer.  The number of subterms still missing after a prefix (`OpenSlots`) is
what the code keeps in `_arity`.

### Iterator (`IndexIterator`, `TermEnumerator`)

State: `stack` (of child iterators `[node, token]`), `root`, `arity`, `pc`.
`Start`/`Resume` are the two entries of `next()`, `Retreat` the loop that pops
exhausted iterators, `Advance` the step to the next sibling, `Descend` the loop
`while (_arity > 0)`, `Yield` the return, `Set` a later `set()` on another node.
`set()` does not clear the stack, as in the code.  The refinement maps the
iterator to the list of terms it still owes; the abstract specification
enumerates `{terms below root}` in child order.

### Memsector (`Memsector`)

`exportToMemsector` is an `IndexIterator` over the whole trie whose `onPush` and
`onPop` write a node when the iterator leaves it; the same steps, so the model
runs the actions of `IndexIterator` and lets each one call the callbacks
(`Pushes`, `Pops`, `Advances`); `memsector_save` writes the root.  Positions are in
allocation units; an offset of `memsector_off_t` is taken modulo `OFF_MOD`, a
number of hits modulo `HITS_MOD`.  Reading is `IndexAccessor`: `getChild` with its
binary search, `getChildren`, `getFormulaId`, `getHitsCount`.

### Search (`SearchContext`)

The query is a token sequence; the constructor's product, the table of special
positions with their backtrack points, is computed by `Fresh`, `FreshPosition`
and `BacktrackPoint`.  `getResult` has one action per branch of its loop body:
`MatchConst` (constant token), `ReplayQvar` (a variable seen before),
`Solve` (a fresh variable or range), `HandleSolution` (end of the query at a
leaf: count, page), `NextSol`/`NoNextSol` (backtracking to, or past, the last
special token), `GiveUp`, `LimitReached`, `Exhausted`.  Iterators of variables
are used through what `IndexIterator` is shown to do: the terms below a node in
order.  A range token is solved by `RangeCtxt`, whose `validSubst` compares
meanings as the code does.  `DbPage` is the part of a formula's hits that
`FormulaDb::queryFormula` hands over.  `offset`, `size` and `maxTotal` are
`unsigned int`: sums are taken modulo `UINT_MOD`, a constant.

The encoder gives an `mws:qvar` or `mws:range` one token and then goes on to the
elements below it (`ExpressionEncoder.cpp:121`), whose tokens follow; the search takes
the special token for a whole argument.  A query with such elements is therefore
longer than anything the search can match: it reaches a leaf before the end of the
query and asks for the children of the leaf, which fails an assert (`AssertFails`,
pc "aborted").  `VariablesAreLeaves` says that a query has no such elements.

### Experimental engine (`QueryEngine`)

`engine.c` restores after every call what it changed, as its callback always
answers `QUERY_CONTINUE`, so a call is given by the query stack, the node and the
instantiations it finds.  `process_query_token` and `match_var_to_index` give the calls
that a call makes, in order, and `Levels` the calls of every level of the recursion; a
call at the end of the query, which reports its leaf, is kept from level to level.  The
leaves are the nodes of the last level (`Depth`; that every call has reported by then
is part of what is proved).  The loop of `match_var_to_index` that does not advance its pointer is
modelled as it is.  The trie holds no harvested variables, without which
`match_var_to_query` and `match_var_to_stack` are not reached.  `EngineAnswer` is
`IndexQueryHandler`'s use of it.

### Databases (`FormulaDb`, `LevFormulaDb`, `MemFormulaDb`, `FormulaDbs`)

`LevFormulaDb` keeps a sequence of entries in the byte order of their keys,
which are decimal texts built by `to_string`; `Put`, `Seek` (`Rank`) and text
order are external (LevelDB, `std::string`) and modelled by what they do.  A hit
is abstracted to the number of its insertion.  Both databases are mapped to
`FormulaDb`'s `lists`: the list of an id is what `MemFormulaDb`'s map has for it,
and in `LevFormulaDb` the hits of the entries that have the id's stem, in their
order (`ListOf`).  `FormulaDbs` gives both the same insertions.

### Construction (`IndexBuilder`)

An expression is the sequence of its subexpressions in the order of
`foreachSubexpression`, each an encoded formula or `Unencodable`.  One action
per subexpression: skip, first occurrence (`insertData`, `insertFormula`, count,
remember), repeated occurrence.  `insertFormula` may fail when `PutMayFail`;
its result is ignored, as in the code.  A crawl database that refuses an item throws
instead, and nobody catches it (`PutDataFails` of `HarvestLoader`).  History variables: `processed`, `lost`.

### Harvests (`HarvestLoader`, `HarvestDirectory`)

`open` is the stack of elements open in the document, which only libxml2
(external) knows; the handlers keep `state`, `prevState`, `unknownDepth`,
`copyDepth`, `localId`, `localIdToCrawlIds` and the tree under construction.
`startElement` and `endElement` have one disjunct per case of the two `switch`
statements.  The end of a root token hands the subexpressions of the tree to
`BeginExpression`; the parser waits until `IndexBuilder` is idle again.  `error`
is `my_error`: it may end the delivery of events or not, as libxml2 goes on after
errors that do not make a document ill-formed.  `EndInDefault` is the
`assert(false)` of `my_endElement`.  A token stands for tag, attributes and text;
`copyDepth` is uninitialised in the code until the first `mws:data`, is not read
before, and is 0 here.  History variables: `dataLabel`, `due`.

`HarvestDirectory` is `loadHarvests` with `foreachEntryInDirectory` of `util.cpp`:
two queues, of directories and of files, filled by `getPathsInDirectory` in the
order of names; files are visited before the next directory, and any call may
fail, which ends the visit of that path only.  `LoadFile` opens the document that
the handlers then read.  `UsesIndexBuilder` says that the whole composition
implements `IndexBuilder`'s specification, so the theorems about `IndexBuilder`
hold of it.

### Directory (`IndexLifecycle`)

Every part of the directory is `[gen, st]`: the build it was written by and how
far.  `owner` holds the LevelDB locks.  A process is started with a program
(`build`, `load`, `deleteOld`), i.e. `mwsd` with or without harvests and
`--delete-old-data`, or `mws-index`, which leaves `deleteOldData` uninitialised
and so runs with either value.  Each step of `createCompressedIndex` and of
`IndexLoader` is an action; `Crash` may happen between any two; with `DiskMayFail`
the writes of the memsector and of the dictionary may fall short.  A memsector that cannot
be opened ends the process at the next write to it (`MemCreateFails`), a header that cannot be
rewritten leaves the provisional one, and a dictionary that cannot be opened leaves that
of the build before, if there was one (`DictOpen`): the build then goes to "noDict" and
returns `EXIT_SUCCESS` all the same.

### Threads (`ThreadWrapper`)

`pc` for callers, threads and the main thread; the mutex as its owner;
`pthread_cond_wait` as release, wait, relock, with spurious returns.  `alive` is
unsigned with `UINT_MOD` values.  No program of the repository calls
`ThreadWrapper::clean()`; the model lets callers run it as the header offers it.

### Terms (`CmmlTokens`)

A tree is the sequence of its tokens in document order with their depths.  Child
nodes, arity, size, depth, the relative xpath and the encoding of a subtree are
operators on it, used by both parsers, the schema engine and the handlers.

### From a request to its reply (`QueryParser`, `SchemaEngine`, `ResponseFormatters`, `HttpDaemon`, `SignalWait`)

A body is the sequence of SAX events libxml2 delivers of it; the handlers'
`user_data` is a record that `my_startElement`, `my_endElement` and `my_error` map
to its next value, one case of the `switch` each.  A parse shares nothing but the
lock of libxml2, so `readMwsQuery` is a function; the lock is taken and released in
actions of `HttpDaemon`.

`HttpDaemon` has a program (`mwsd` on an index, `mwsd` on harvests, `schemad`), a
thread per connection with its streams, and the main thread of `SignalWait`.
`accessHandlerCallback` is called several times for one request: `FirstCall`,
`Upload` (and `FailUpload`), `LastCall`, followed by `xmlLockLibrary`, `Parse`,
`CheckQuery`, `handleQuery`, `Format`.  `MemStream` is its mode, and a call in the
wrong mode, which the code asserts against, gives `aborted`.  Faults are clients
that go away, failing writes, a parser context that cannot be had, a port that is
taken.  The search is a parameter (`Search`), as `SearchContext` models it.  A
schema answer formatted as `mws-ids` is read as an object of another class: then
anything may be sent, or the process killed (`FormatConfused`).

`SchemaEngine` has the stack machines of `reduceFormula` and `decodeFormula`,
grouping by the hash, sorting by size in any order where sizes agree, and
`getSubstitutions`.  An uninitialised `cutoff_mode` may be any character.  The loops of
the stack machines are recursive functions of the number of rounds.

`SignalWait` has the main thread's steps between `sigprocmask` and `sigsuspend`;
`catch_sig` may be run by another thread between the test and the sleep, as the
other threads do not block the signals.

### From a crawl request to the harvest file (`WebPage`, `Crawler`, `SignalWait`)

The thread of libmicrohttpd takes forms field by field (`Upload`), answers
(`SendPage`) and queues a request in the completion callback (`Complete`,
`LockForPush`, `Push`), also for a client that left in the middle of its form.  A value
that is delivered in pieces (`UploadPiece`) is taken for a value as often as there are
pieces, as `cd_IteratePostRequest` does not look at the offset: a piece replaces the url
or the count before it, or adds an exclusion, and may read as anything of `PieceUrls` and
`PieceNumbers`.  There are `MAXDONTCRAWLSIZE` places for exclusions (128 in the code) and
no check; one more overwrites the pointer to the post processor behind them (`Overflows`),
which ends the process, or is null if the value is empty, and then libmicrohttpd passes over
the rest of the form (`PassOver`).

The worker polls the
queue: `WakeWorker` (`empty()`), `FrontOfQueue` (`front()`), both without the lock,
then `LockForPop` and `PopQueue`; on an empty queue the calls are undefined and
`Crash`.  `SetUp` reads `robots.txt`, of which a failed download shows a part, and
`NextUrl`, `AskType`, `FetchForMath`, `ExtractMath`, `FollowLinks`, `FinishCrawl`
are the loop of `start()`; every question about a page that has not been
downloaded yet is a download of its own and appends to the text at hand.
`store_mathml_tags`, which the constructor and every HTML page call, exits the process if its
file cannot be opened (`NoTags`).
`storeMath` names the file after the current second, and writes all of it or, as the
results of `fwrite` and `fclose` are not looked at, less.  At the end `EmptyQueue`
empties the queue from the main thread without the lock.  History variables:
`pushed`, `finished`, `extracted`, `lost`.

Pages are sequences of tags and links.  Tags that close themselves are on no page of the
model: `get_math_blocks` (`MwsGetMath.cpp:76`) scans past the end of such a tag to the
next "/>" wherever it is, beyond the text if there is none.

## 3. Runs

All runs use the configurations in this directory:
`tlc -config X.cfg M`.

| Run | Configuration | Checks | Shows |
|---|---|---|---|
| `index` | `MCIndexIterator.cfg` | `MemsectorIsIndex`, `EnumeratesAllTerms` (refinement), `EnumerationEnds` (liveness) | over every index and from every inner node the iterator is the abstract enumerator, also when it is reused; with the callbacks of the export it writes a file that reads back as the index |
| `search` | `MCSearchContext.cfg` | `AccessorAsserts`, `FindsUnifyingFormulas`, `PageExact`, `TotalAndIdsExact`, `EngineAgreesWithSearch`, `Terminates` (liveness) | for queries whose variables are leaves, `getResult` agrees with a reference definition of unification and of paging and no assert fails; for all others the search ends, and pages are right if it is not aborted; the experimental engine reports only unifying formulas, and the same as `getResult` for queries without variables |
| `engine_root_variable` | `MCEngineRootVariable.cfg` | `EngineFindsAll` violated | the experimental engine answers a query that is one variable with the first formula only |
| `formula_dbs` | `MCFormulaDb.cfg` | `QueriesKeepContract`, `InsertsKeepContract` (refinement) | both databases implement the contract |
| `harvest` | `MCHarvestLoader.cfg` | `EveryHarvestOnce`, `StateFollowsDocument`, `HitsPointToTheirData`, `HitsMatchStore`, `OneHitPerExpression`, `EverySubexpressionStored`, `CrawlDataResolvable`, `UsesIndexBuilder` (implementation) | every harvest in reach is parsed once and in order, the parser's state follows the document, hits refer to the data their expression named, and trie, counts and databases stay in step |
| `lifecycle_recovery` | `MCLifecycleRecovery.cfg` | `ServesOneBuild`, `Recovers` (liveness) | a daemon that crashes anywhere and is restarted never serves a mixture of builds and gets back into service |
| `lifecycle_two` | `MCLifecycleTwo.cfg` | `BuildsDoNotMix`, `ServedFilesStay` (action property) | two processes on one directory, with failing writes and opens: the LevelDB locks serialise builds and protect a serving daemon; a build that returns success leaves its own files, but for a dictionary that it could not open |
| `lifecycle_memsector` | `MCLifecycleMemsector.cfg` | `LoadedMemsectorWasSaved` violated | an interrupted rebuild leaves a header whose checksum verifies |
| `thread_wrapper` | `MCThreadWrapper.cfg` | `Exclusion`, `AliveCounts`, `CleanMeansNoThreads`, `CleanTerminates` (liveness) | the count is right in every interleaving and `clean()` neither returns early nor hangs |
| `service` | `MCHttpDaemon.cfg` | `ReplyIsAnswer`, `StreamUse`, `SchemataShowTheirFormulas`, `LargestSchemataKept`, `SubstitutionsAreCut`, `RequestsAnswered`, `QuitStops` (liveness) | every reply is the answer to its own body; streams are used in order and freed; schemata are what their formulas look like; complete requests are answered and a quit signal stops the daemon |
| `crawler` | `MCCrawler.cfg` | `VisitsObeyRequest`, `ExtractedFromPage`, `MathAccounted`, `AnsweredIsQueued` | visits keep to count and site of the request and, but for the start and for pages with a query, to its exclusions and to the rules for `*` of the first of adjacent groups; repeated downloads invent no formula of well nested pages; every formula is stored once, in memory, or lost in a known way; what clients are told of their requests is true, and what is queued is what they asked for unless a value came in pieces or an exclusion had no place |
| `crawler_live` | `MCCrawlerLive.cfg` | `QueueHandover`, `RequestsCrawled` (liveness) | reading the queue without its lock is harmless until the shutdown; a request that was queued is crawled to its end, if no download lasts for ever |

Every property of a passing run has a mutant: a plausible wrong version of one
mapped definition, kept in the module next to it and marked `Mutant`, under
which TLC finds the property violated.

### Bounds and why they are enough

* `index`: nine formulas with terms of arity 0 to 2 that share prefixes at every
  depth, so that a retreat skips zero, one and several levels; every non-empty set
  of them is an index, with a plain caller or the export.  The iterator's stack is
  as deep as the longest formula.  `OFF_MOD` is 48 units, so that the larger files
  leave the range of a short offset and the smaller ones do not, and `HITS_MOD` is
  8, less than the hits of the longest formulas.
* `search`: fifteen queries: constants, one and two variables, a variable
  repeated before and after another one, anonymous variables, ranges inside
  and outside terms, and two queries with elements below a variable; every index of up to three formulas and the whole universe,
  whose formulas differ in the number of hits.  Offsets, sizes and limits run
  from 0 past the number of hits, so that pages begin and end inside a formula
  and limits cut pages.  `UINT_MOD` is larger than every sum.
* `formula_dbs`: ids 1 and 10, whose keys share a prefix, and ten insertions, so
  that the counter gets a second digit and changes the order of keys.
* `harvest`: one recursive visit of a tree three levels deep, in which the order
  of the queues decides which of two harvests comes first, with hidden entries, an
  entry of another type and a file that is no harvest; and one visit of two paths
  without recursion; one failing call (`MaxFailures`).  Six elements in the files
  together (`MaxElements`), nested up to five deep; two expressions and two data
  items with two ids; every tree of up to four tokens that fits, in which
  subexpressions repeat and, as a token may have only one child to be encodable,
  parts cannot be encoded; errors anywhere, any insertion may fail, and so may storing a data item.  The two ids
  are only compared, so permuting them is a symmetry.
* `lifecycle_*`: one process with six builds and five crashes, or two processes
  with two builds and one crash.  A mixture needs an older and a newer build, one
  interruption and one load.
* `thread_wrapper`: two callers with two calls each, three threads, so that one
  creation fails for want of a thread; two spurious wakeups.
* `service`: three programs.  `mwsd` on an index has two connections at once, with
  requests of all methods, formats and pages; `mwsd` on harvests gets every
  document of up to three elements over three names, every one of four below
  `mws:query`, and a query with an error, recoverable or not, at each place;
  `schemad` gets corpora whose formulas agree down to some level, with cutoffs 0 to
  4 and of 50, 100 and 256 percent (which is 0 as `uint8_t`), an encoding that
  fails, and sizes 0, 2 and -1 (`SIZE_MOD` 64).  One fault (`MaxFaults`) and one
  signal (`MaxSignals`): each property speaks of what one failure costs.
* `crawler`: two connections; four requests (with an exclusion, with a
  count, with an invalid url, and `GET`), whose values may come in pieces that are
  empty or read as another page; two places for exclusions, so that pieces fill
  them and one too many ends the process; a site of three pages, HTML
  and XHTML, two of them in its private part, one of these with a query, with links back,
  to a reference and to another host; a `robots.txt` with groups for another agent, for
  two agents and twice in a row for `*`, of which the second forbids everything; packs of
  two expressions (`MathPackLimit`), so that a pack is stored in
  the middle and at the end of a crawl; two faults, so that an XHTML page can be
  taken for one after two failed downloads and fetched a third time, and a file written
  short can be written anew; one tick of the clock;
  connections are only compared, so permuting them is a symmetry.  Without signals, as
  none of its properties depends on the shutdown, which is in `crawler_live`: there is one
  signal and neither fault nor clock, so that the cycle search stays small.

### Fairness

`IndexIterator` and `SearchContext` are sequential: weak fairness of `Next` says
that a running program takes its next step.  `IndexLifecycle` in
`lifecycle_recovery` assumes that a started process keeps running and that a
crashed daemon is restarted (`src/scripts/sysv` installs it as a service); crashes
are bounded by `MaxCrashes` and not fair.  `ThreadWrapper` assumes that each
thread is scheduled, that routines end, and that a free mutex is taken in the end
by a waiting thread; no fairness on `run`, `clean`, `init` or spurious wakeups.
`HttpDaemon`: the callback of each connection goes on (its thread is scheduled,
and the lock of libxml2 is held only during a parse), the main thread goes on, and
`MHD_stop_daemon` closes connections that wait for their client; clients, signals
and faults are free.  `Crawler`: the worker goes on when it is not in a download,
the daemon's thread gets the lock and pushes,
main goes on and completes the connections when it stops.  A download need not end:
`Page.cpp:88` limits the time to connect and nothing else, so a server that stalls
holds the only worker for ever.  `RequestsCrawled` is stated for behaviours
in which the worker is time and again in no download (`[]<>~Downloading`).

### Disagreements between code and documentation

Shown by a run:

* `memsector.c:123`: the check that "validates" a memsector accepts the
  provisional header of a file whose writer crashed (`lifecycle_memsector`).
* `engine.c:303`: the loop over the children of a node does not advance; the test
  `engine_rootqvar0.cpp:39` expects four different solutions and counts callbacks
  (`engine_root_variable`).

Met while modelling, and stated by the models as the code has it:

* `SearchContext.cpp:305`: `offset + size` wraps around for the largest sizes; the
  parameter documentation (`SearchContext.hpp:71`) makes no restriction.
  `PageExact` is stated for sums that fit.
* `IndexWriter.cpp:92`: `createCompressedIndex` returns 0 when writes failed;
  `IndexWriter.hpp:49` says 1 on error.  If the dictionary cannot be opened
  (`IndexWriter.cpp:99`) it returns 0 with the dictionary of an earlier build beside the
  new index; `BuildsDoNotMix` leaves that file out in this case.
* `ExpressionEncoder.cpp:121`: elements below an `mws:qvar` are encoded, as in the query
  `src/test/data/MwsQuery1.xml:25`, while `IndexAccessor.hpp:123` asserts what such a query
  breaks; `AccessorAsserts` and what is said of the formulas found is stated for queries
  without them.
* `CrawlerDaemon.cpp:94`: the offset of a value is ignored, and line 132 fills
  `dontcrawl` without a check; `AnsweredIsQueued` says what a client gets whose values
  came whole and whose exclusions had places.
* `Page.cpp:88`: no limit on the time of a transfer (see Fairness).
* `ExpressionEncoder.cpp:82`: variables of a harvest get arity 1 and no subterm;
  `IndexAccessor.hpp:65` asserts what an iterator then breaks, and the test helper
  `engine_tester.hpp:107` encodes them with arity 0.  The runs' indexes hold none.
* `SchemaQueryHandler.cpp:104`: the representative of a schema is an index into the
  formulas that could be encoded and is looked up among all of them;
  `SubstitutionsAreCut` is stated for queries that could be encoded.
* `mwsd.cpp:280`: a quit signal that another thread takes between the test of the
  flag and `sigsuspend` is missed until the next one; `QuitStops` leaves out exactly
  this window.
* `MwsCrawler.cpp:207`: harvest files are named after the second, and a second
  file in it replaces the first; the results of `fwrite` and `fclose` (line 215) are
  ignored.  `MathAccounted` counts what both lose.
* `Robotstxt.cpp:70`: a second `User-agent: *` line ends the rules instead of
  continuing them, and of several agent lines that share a group only the last
  counts; `Robotstxt.cpp:108`: a rule covers a page with a query only if it has the same
  query.  `VisitsObeyRequest` is stated for the rules that are left
  (`ForbiddenToAll`) and for pages and rules without query (`Covers`).
* `util.cpp:219`: a file that cannot be opened ends the visit of its whole path;
  `EveryHarvestOnce` says what that costs.
* `MwsAnswset::time` is set by the search (`SearchContext.cpp:431`) and not by the
  experimental engine or for a query that cannot be encoded, where the JSON reply shows
  an uninitialised value.  Times are not in the models.

## 4. Proofs

Checked with `tlapm M.tla`.  The theorems hold for every value of the constants
that the named assumptions admit: any index, query, document, request, number of
processes or threads.  TLC evaluates the assumptions on the instances of the runs,
and the inductive invariants were checked by TLC before they were proved, except
where they quantify over what TLC cannot enumerate: `ExportInv` (all files and places),
and of `CrawlerProofs` the parts that say that something is a sequence and the
part of `MathInv` about all expressions.  Of these TLC checks the consequence.

| Module | Theorem | Property |
|---|---|---|
| `IndexIteratorProofs` | `EnumeratesAllTermsCorrect`, `ExportEnumeratesCorrect`, `MemsectorIsIndexCorrect` | the iterator, alone and under the export, implements `TermEnumerator`; a saved memsector is the index |
| `SearchContextProofs` | `AccessorAssertsCorrect`, `FindsUnifyingFormulasCorrect`, `PageCorrect`, `TotalAndIdsExactCorrect`, `EngineAgreesWithSearchCorrect` | all safety properties of `getResult`; the experimental engine against it |
| `HarvestProofs` | `TypeCorrect`, `HitsMatchStoreCorrect`, `StoreWithinCountCorrect`, `CrawlDataCorrect`, `OneHitPerExpressionCorrect`, `EverySubexpressionStoredCorrect` | all invariants of index construction |
| | `UsesIndexBuilderCorrect`, `LoadedIndexCorrect`, `StateFollowsDocumentCorrect`, `HitsPointToTheirDataCorrect`, `EveryHarvestOnceCorrect` | `loadHarvests` implements `IndexBuilder`; what the handlers promise; what is loaded and in which order |
| `IndexStorageProofs` | `ServedFilesStayCorrect`, `BuildsDoNotMixCorrect`, `ServesOneBuildCorrect` | the three safety properties of the directory |
| | `InsertsKeepContractCorrect`, `QueriesKeepContractCorrect` | both formula databases implement `FormulaDb` |
| `HttpDaemonProofs` | `ReplyIsAnswerCorrect`, `StreamUseCorrect`, `LockHeldCorrect` | the replies of `mwsd` and `schemad`, their streams, the lock of libxml2 |
| `ThreadWrapperProofs` | `TypeCorrect`, `ExclusionCorrect`, `AliveCorrect`, `CleanCorrect` | the safety properties of `ThreadWrapper` |
| `CrawlerProofs` | `QueueHandoverCorrect`, `AnsweredIsQueuedCorrect`, `VisitsObeyRequestCorrect`, `ExtractedFromPageCorrect`, `MathAccountedCorrect` | all safety properties of `crawlerd` |

### Terms and the trie: `IndexTrieProofs`

The proofs about the iterator and the search compare, cut and complete sequences of
tokens, and the facts needed are inductive: that the recursive function `OpenSlots`
satisfies its equations, that no term is the beginning of another one, that a
term begins wherever a term is not complete, that `TermLess` is a strict order which
is total on terms, that a finite set of terms has a first one.  The induction theorems of the library take a predicate as
a parameter, which the provers cannot instantiate, so each induction is one over
a set: `LeastNatural` gives a non-empty set of numbers its least element, and
`SetInduction` says that a set with 0 and with the successors of its members has
every number.  Sums over finite sets, of the sizes of nodes and of the hits of
formulas, are treated here too.

### Iterator and memsector: `IndexIteratorProofs`

Assumption `IndexesAssumption`: an index is a finite set of terms.  The builder
encodes trees, so every formula it inserts is one; harvested variables, which the
encoder gives an arity of 1 and no child, are left out (section 3).

The refinement maps the iterator to the node it was set on and to the term it
returned last.  The inductive invariant is `IterInv`: the nodes on the stack lie on
one path below the root and each has the next one as its child (`StackInv`); `arity`
is the number of open slots of that path, which has some before each of its tokens
(`ArityInv`); and the terms still to come are those beyond the path while the
iterator retreats, those at or beyond it while it descends, and none after its end,
when the stack is empty (`OrderInv`).  That the stack is empty at the end matters as
`set()` does not clear it: iterators of an earlier root would be taken for ones of
the new.  `ArityInv` is why `Descend` stops at a term and never at a leaf too early,
and `OrderInv` says that a step to the next sibling skips nothing.  `ExportEnumeratesCorrect` says the same
of the walk of `exportToMemsector`, whose steps are those of the iterator.

`MemsectorIsIndexCorrect` is about what that walk writes.  Assumption
`MemsectorAssumption`: the moduli are positive, `NoRoot` is no offset, and every
formula of an index, a sequence of tokens, has a natural number of hits.  The invariant `ExportInv` is added
to `IterInv`:
the nodes written are exactly those the iterator has left (`DoneOf`: the ones before
the path and, on the way back, those below it), each at its place with
entries that lead to its children in their order (`FileOf`); and `dfsStack` holds, for
every node on the path, the places of its children written so far (`LevelsOf`).  At
the end only the root is missing, which `memsector_save` writes.  The property is
stated for files that fit (`Fits`); that then no offset is cut and no node is long
(`OffsetFits`) follows from the size as `computeMemsectorSize` sums it, because the
nodes written never add up to more.  For reading back, `BinarySearch` shows that
`inode_get_child` finds the entry of a token, or nothing when there is none, and
`ReachedIs` follows the tokens of a path through the file.

### Search: `SearchContextProofs`

Assumptions: `UintAssumption`, `ArgumentsAssumption`, `OptionsAssumption` (the
arguments are `unsigned int`, the options booleans); `IndexesAssumption` as above;
`QueriesAssumption`: an initial part of a query is a term if its special tokens count as
leaves, which is so for every tree that is encoded token by token; `HitCountsAssumption`: each
formula of an index has a positive number of hits, as `indexContentMath` counts
one when it makes the leaf (`IndexBuilder.cpp:114`); `CountersFit`: the limit plus
the hits of one formula is at most `UINT_MOD`, so that the count does not wrap.

Four invariants, each on top of the ones before:

* `SearchInv` (`SearchTypes`, `Solved`, `Matched`): every solved variable or range
  stands for a term at its node, the specials after `lastSolved` are unsolved, and
  the current node is the query up to the current token with the solutions put in
  place of the special tokens.  `AccessorAsserts` follows: the node has as many
  open slots as the query, which for a query whose variables are leaves is 0 exactly at
  its end.  For the others it is 0 before, at a leaf, and there `AssertFails`.
* `PagingInv` relates three counters at every step: the hits found, those skipped,
  and the answers so far, which are the hits found that lie on the page; a leaf
  whose hits straddle a boundary of the page contributes the right segment.
  `PageExact` follows.
* `VisitInv` (`NodesSound`, `VisitedSoFar`, `InOrder`): every formula that unifies
  with the query and goes through the node of the last special solved goes through the
  current node (a repeated variable leaves no choice), and the formulas
  visited are exactly those that unify and come before the current node or,
  when the search goes back, before or below the node of the last special solved.  `FindsUnifyingFormulas` follows.
* `CountInv` (`FoundCounts`, `StreamCounts`, `IdsCollected`): the count is the sum
  of the hits of the formulas visited, cut at the limit, and the ids are those of
  the formulas with hits on the page.  `TotalAndIdsExact` follows; positive hit
  counts are needed for it, as a formula without hits would be collected on a page
  it has no hit on.

`EngineAgreesWithSearchCorrect` needs one assumption more, `NoHarvestedVariables` (no
formula of an index has a variable or a range), without which the engine takes
branches that are not modelled.  `SomewhereAt` says where a call of level `n` is: at
token `i` of the query, at a node where the tokens before it lead and with the
variables before it solved as `SearchContext` would solve them (`AtQueryToken`); after
`m` tokens of the instantiation of a solved variable (`Replays`); or in the middle of an
instantiation that is not complete yet (`Matches`).  `MadeCallsAt` shows that the calls
a call makes are again at one of these places, one level further.  In each of them `n`
is at most twice the length of the node plus one, so that at level `Depth` nothing is left
but calls that report, and their nodes are formulas that unify (`LastCalls`): also the
assertion of `process_query_token` that a node reported is a leaf.  That the engine
reports too few of them for queries with variables is what `engine_root_variable` shows; without variables
there is one call on every level (`PlainLevels`), and the only formula that unifies is
the query (`PlainUnifies`).  For the answers to be the same, the stream of `getResult` must have
the hits of a formula one after the other, from the first on, which the fifth
invariant, `Consecutive`, adds to `CountInv`.

### Index construction and harvests: `HarvestProofs`

The first half is about `IndexBuilder` (assumption `ExpressionsAssumption`: expressions
are sequences of formulas or `Unencodable`).  Ids given out are at most `nextId` and distinct
(`DistinctIds`), so a new leaf's id has no hits yet; an insertion changes the list
of one id and the count of the one leaf that has it (`InsertCounts`).  `Called`
(the call in progress is one for the last expression) makes the position
meaningful.  For crawl data, the id of the call in progress must resolve too
(`CurrentResolvable`).  `OneHitPerExpression` needs that every hit of the
expression at hand is of a formula in the set the code remembers
(`HitsRemembered`); `EverySubexpressionStored`, which speaks of the moments between
two calls, needs what holds in the middle of one (`StoredSoFar`).

The second half is about the loader (assumptions `LoaderAssumption`: bounds are naturals
and `NoId` is no id; `TreesAssumption`: the subexpressions of a tree that a document of the
bounded size can hold are among the `Expressions` the builder is specified for).
`UsesIndexBuilderCorrect` shows that each step of the visit and of the handlers is
a step of `IndexBuilder` or leaves its variables alone; needed are that the tree
handed over is a tree (`TreeFits`, in `SaxInv`) and that ids in the map of local
ids are ids of stored data (`IdsStored`).  `LoadedIndexCorrect` then carries the
theorems about `IndexBuilder` over.  `StateFollowsDocument` alone is not inductive:
a closing element returns to a state that must have been the right one when the
element opened; `Follows` says what the handlers know of every level of open
elements.  `HitsPointToTheirData` adds that the map holds the latest data of each
id in this file (`Latest`), that `localId` is the id of the element it was read
from (`ElementId`), and that the crawl id of the call in progress is the one that was
due (`Noted`).

`EveryHarvestOnceCorrect` is about the visit of the directories (`DirectoryAssumption`:
the paths asked for are directories of the tree, a directory has finitely many entries with
different names, and an entry that is a directory is one of the tree).  `Visit`
describes one visit: what waits in the queues belongs to directories that the visit reached
(`QueuesOK`); files and directories wait in the order of the visit, and all that was parsed comes before all
that waits (`OrderOK`); and every harvest is parsed, waiting, or below a directory that
waits (`CompleteOK`).  `DirectoryInv` says this of the path at hand (`VisitInv`), that the
earlier paths are parsed completely unless a failure ended their visit and every path in
the right order (`PathsInv`), and which paths are still to come (`ConfigInv`).

### Index directory and formula databases: `IndexStorageProofs`

Assumption `LifecycleAssumption`.  `LockInv` says at which steps a process has each
LevelDB database open; as every step that writes a file is among them,
`ServedFilesStayCorrect` and, with what a builder has written so far
(`Written`), `BuildsDoNotMixCorrect` hold for any number of processes of any
programs, with crashes, failing writes and files that cannot be opened; of a dictionary
that could not be opened nothing is said.  `ServesOneBuildCorrect` has three
hypotheses: there is one process, it is started as a program that loads (`mwsd`),
and writes do not fail.  None can be dropped, TLC has a counterexample without each:
the loader reads the dictionary before it has the locks (`IndexLoader.cpp:71`), so
another process may finish a rebuild in between; `mws-index` rebuilds over a directory
that has a dictionary, while `mwsd` builds only where loading failed; and
failing writes go unnoticed (`IndexWriter.cpp:92`).  Its invariant `CommitInv`
says that a dictionary that can be opened belongs to three complete parts
(`DictCommits`), and how far a build or a load has got (`BuildOf`, `LoadOf`).

The formula databases: `InsertsKeepContractCorrect` is the refinement of the
insertions, `QueriesKeepContractCorrect` that of the queries, for any set of ids and any
number of insertions (assumption `FormulaDbAssumption`: ids and the bounds are natural
numbers).  For `LevFormulaDb` this is a statement about the order of
texts.  Its counters are not padded, so hit 10 of an id comes before hit 2; the
contract lets an insertion choose its place.  Needed are: different numbers have
different decimal texts (by induction over the quotients in `to_string`), the order of
texts is total and transitive, two keys have the same stem only if their ids agree,
since a digit is never "!" (`StemOf`), and the keys of an id are exactly those
between its stem and the stem with "\xff" (`StemRange`), so that the range
that `Seek` finds is a segment of the entries that holds this id's hits and nothing else
(`RankIs`, `PlacesAre`, `ListIs`).  The inductive invariant `DbInv` says that the entries are
in the order of their keys (`InKeyOrder`) and that each is one of the hits inserted so far,
under its key (`HoldsHits`); with it a `Put` never meets an old key and is an insertion
into one list (`InsertedInOrder`, `RankGrows`, `InsertedLists`).

### HTTP daemon: `HttpDaemonProofs`

Assumptions: `DaemonAssumption` (`NoConn` is no connection and bodies are what libxml2 can
deliver, `IsDocument`: balanced tags and one root, unless there is an error, and no
attribute of the root twice) and `QueryAssumption` (the width of a size and the default size).

`ConnInv` describes every connection on its own: at each step of the callbacks it says
which streams are open, what has been read and what the handler has made of it.  As
connections share nothing but libxml2's lock (`LockHeldCorrect`: exactly the
connection that parses has it), a step of one leaves the others' parts alone.
`StreamUseCorrect` follows.  `ReplyIsAnswerCorrect` needs the parser's invariant as well:
after each event the query under construction is the one the prefix of the
document describes (`ReadTo`).  The reference definition speaks of the structure of the whole document
(`Inside`, `Level`) and the handlers of their state, so the lemmas say what one more
event does to it; they are put together by an induction over the events
(`SetInduction`).  With errors that end the parse, with the client gone, or with
no answer, the reply is the error page or none, as the property says.

### Threads: `ThreadWrapperProofs`

Assumption `ThreadAssumption`: the threads are finite and fewer than `UINT_MOD`;
callers, threads and `Main` are disjoint.  `AliveCounts` alone is not inductive:
that a destructor finds the new thread already counted follows only from mutual
exclusion, because the creator holds the mutex from `pthread_create` to `alive++`;
and `init()` resets `alive`, which is harmless because nothing runs before.  The
inductive invariant is
`CountInv == TypeOK /\ Exclusion /\ BeforeInit /\ AliveCounts`, to which
`CleanInv` (after `clean()`: not active and no live thread) is added for
`CleanCorrect`.

### Crawler: `CrawlerProofs`

Assumptions, of what is outside the program: `RequestsAssumption` (a form is a sequence
of fields; its start is invalid or the URL of a page, its exclusions are URLs),
`WebAssumption` (a page is a sequence of items, and a link on the same host leads
to a page, if only to one that says that there is none), `RobotsAssumption` (rules are
URLs), `PiecesAssumption` (a piece reads as a start or a number, or as nothing).  `IsUrl`
says that a URL is canonical: its path is not empty.

`QueueInv`: who pops or pushes has the lock (`LockHeld`); what
the worker has seen of the queue is still its head (`FrontKept`), because only the
worker and, after the quit, main shorten it, and a push appends; a crash has one of
two causes (`CrashCause`).  `AnsweredIsQueued` speaks of completed connections; its
invariant follows each one from its first field (`ConnOK`: the values collected make a
request of the right form and, while no value has come in pieces, are those of the fields
seen so far, `Holds`) through the completion callback (`PushInv`: a request
is queued, or in the hands of the daemon's thread, exactly when it was wanted).

The other three are about one crawl.  They share `CrawlInv`: every node that is
queued or worked on is the node of a request (`NodesInv`), and the URLs that wait
and the page at hand belong to the site of its start (`SiteInv`).

* `MathAccountedCorrect`: `MathInv` counts every expression in memory, in files and
  in `lost`.  `storeMath` exchanges one file, so its lemma `StoreCounts` compares
  the places of an expression before and after; a file that is cut short has the first part of
the expressions and `lost` the rest (`Cut`); `TimesJoined` adds up sequences.
* `VisitsObeyRequestCorrect`: `VisitInv` says that the rules of the request and of
  the site are known from `SetUp` on, and that the start, which is never checked,
  is alone in the queue until it is visited (`Checked`).  That the rules of the
  first of adjacent groups for "*" are among those read is an induction over the lines: the reader
  is inside a group after a line exactly if the number of lines for "*" since the last line for
  another agent is odd (`Stars`, `On`), and it is one for the groups that
  `ForbiddenToAll` speaks of (`FirstGroupOn`).  Nothing is assumed of the file.
* `ExtractedFromPageCorrect`: `FoundInv` says of the text at hand, which is
  made of parts of the page one after the other, that no prefix closes
  more math elements than it opened and that its math elements are elements of the page
  (`JoinNested`: an element that is cut off at the end of a part never closes,
  so no block spans two parts); `GoodBlocks` shows that the blocks that begin with an
  opening tag are such elements.  The hypothesis `WellNested` is needed: behind the
  first tag of a page with tags open, close, close a second download makes a
  block open, open, close, close that is not on the page.

### What is only model-checked

* Liveness (`EnumerationEnds`, `Terminates`, `Recovers`, `CleanTerminates`,
  `RequestsAnswered`, `QuitStops`, `RequestsCrawled`): the prover does not do
  fairness.
* The schema engine (`SchemataShowTheirFormulas`, `LargestSchemataKept`,
  `SubstitutionsAreCut`): they compare the stack machines `reduceFormula` and
  `decodeFormula` with a definition over the whole tree, which takes an induction over terms.

## 5. Plan

The modules were written in the order of importance: trie, iterator, search and
paging; databases; index construction and the harvest parser; the index
directory; threads; then the memsector, the query parser with the HTTP daemon,
the schema engine and the formatters, the experimental engine, signals and the
crawler, and the visit of harvest directories.  Each was composed with what it
calls, so that a run checks an interaction.  What is left:

1. Proofs of the three schema properties.
2. `ExpressionEncoder`: ids of named and anonymous variables and of ranges, which
   are distinct up to the bound of 32.
3. A trie with harvested variables, for `match_var_to_query` and
   `match_var_to_stack` of `engine.c`.

## 6. Not modelled

* `docs2harvest`, `harvests2json` and the analytics programs: sequential batch
  programs whose work is the text of files; they share no state with the daemons.
  Their parsers (`crawler/parser/`) are wrappers of libxml2.
* Sockets, flags, `Parcelable`, control sequences: wrappers of system calls and of
  text.
* The values of crawl data and of hits: no property depends on them.
* Of `engine.c`, the matching of harvested variables; of the encoder, the renaming
  of `ci` elements (`_getCiMeaning`) and the numbers of variables.
* Of the crawler's pages, `downloadHeader` and `getModifiedDate`, which the crawl does
  not call, and tags that close themselves (section 2).
* Heap memory: `RangeCtxt`'s destructor (`SearchContext.cpp:179`) frees an iterator
  that is uninitialised when the range was never reached.
* Third-party code: LevelDB, libxml2, libmicrohttpd, libcurl and POSIX threads are
  external and modelled, where they occur, by what the code relies on.

----------------------------- MODULE Memsector -----------------------------
(***************************************************************************)
(* The memsector, the file that holds the index of a running daemon.       *)
(* TmpIndex::exportToMemsector walks the index under construction with an  *)
(* IndexIterator whose callbacks write a node when the iterator leaves it, *)
(* so that children come before their parents; a node refers to a child by *)
(* the distance back to it, and IndexAccessor finds children by binary     *)
(* search.  The iterator of any other caller has empty callbacks.          *)
(*                                                                         *)
(* Positions and sizes are in units of MEMSECTOR_ALLOC_UNIT bytes: the     *)
(* header takes 7, a leaf 2, an inode 2 and each entry 2, or 3 with a long *)
(* offset.  The file is a function from the positions of its nodes; an     *)
(* offset of 64 bits is an integer.                                        *)
(***************************************************************************)
EXTENDS IndexIterator

CONSTANTS
  HitCounts,   \* formula -> number of its hits (solutions of its leaf)
  OFF_MOD,     \* number of values of memsector_off_t; MEMSECTOR_LONG_OFF_START
  HITS_MOD,    \* number of values of the field num_hits
  NoRoot       \* the root offset of a file that is not saved

ASSUME MemsectorAssumption ==
  /\ OFF_MOD \in Nat \ {0} /\ HITS_MOD \in Nat \ {0} /\ NoRoot \notin Nat
  /\ \A ix \in Indexes : ix \subseteq DOMAIN HitCounts
  /\ \A formula \in DOMAIN HitCounts : /\ formula \in Seq(encoded_token_t)
                                        /\ HitCounts[formula] \in Nat

VARIABLES
  exporting,   \* the caller is exportToMemsector
  writer       \* [mem, offset, dfsStack, root_off]

memsectorVars == <<vars, exporting, writer>>

MEMSECTOR_OFF_NULL == 0
HEADER_SIZE        == 7

\* The nodes of the file, with the widths of their fields, and their sizes.
leaf_s(hits, formula) ==
  [type |-> "LEAF_NODE", num_hits |-> hits % HITS_MOD, formula_id |-> formula]

inode_s(long, entries) ==
  [type |-> IF long THEN "LONG_INTERNAL_NODE" ELSE "INTERNAL_NODE", data |-> entries]

encoded_token_dict_entry_s(long, t, offset) ==
  [token |-> t, off |-> IF long THEN offset ELSE offset % OFF_MOD]

memsector_inode_size(num_children) == 2 + 2 * num_children
memsector_leaf_size                == 2

\* memsector_create
NewWriter == [mem |-> <<>>, offset |-> HEADER_SIZE, dfsStack |-> <<<<>>>>, root_off |-> NoRoot]

\* memsector_off_t has 32 bits, the offset of the writer 64.
memsector_get_current_offset(w) == w.offset % OFF_MOD

WriteNode(w, node, size) ==
  [w EXCEPT !.mem = [pos \in DOMAIN @ \cup {w.offset} |-> IF pos = w.offset THEN node ELSE @[pos]],
            !.offset = @ + size]

\* The offset just written joins those of the node's siblings.
AddOffset(w, off) ==
  [w EXCEPT !.dfsStack = Append(Front(@), Append(Last(@), off))]

PopOffsets(w) == [w EXCEPT !.dfsStack = Front(@)]

memsector_write_leaf(w, formula) ==
  WriteNode(w, leaf_s(HitCounts[formula], formula), memsector_leaf_size)

\* The children of a node in the order in which VectorMap holds them.
Children(node) ==
  LET tokens == ChildTokens(index, node)
  IN  CHOOSE s \in [1..Cardinality(tokens) -> tokens] :
        \A i, j \in DOMAIN s : i < j => TokenLess(s[i], s[j])

\* memsector_write_inode_begin and the entries.  Whether the node has long
\* offsets is decided by its first child, which is the furthest away.
memsector_write_inode(w, node, offsets, base) ==
  LET tokens == Children(node)
      long   == base - Head(offsets) \notin 0..(OFF_MOD - 1)
      entry(i) == encoded_token_dict_entry_s(long, tokens[i], base - offsets[i])
  IN  WriteNode(w, inode_s(long, [i \in DOMAIN tokens |-> entry(i)]),
                memsector_inode_size(Len(tokens)) + (IF long THEN Len(tokens) ELSE 0))

\* Mutant: offsets are taken from the end of the node's header.
writeChildrenOffsetsAfterHeader(w, node) ==
  memsector_write_inode(w, node, Last(w.dfsStack), memsector_get_current_offset(w) + 2)

writeChildrenOffsets(w, node) ==
  memsector_write_inode(w, node, Last(w.dfsStack), memsector_get_current_offset(w))

onPush(w, node) ==
  IF IsLeaf(index, node) THEN w ELSE [w EXCEPT !.dfsStack = Append(@, <<>>)]

onPop(w, node) ==
  LET off == memsector_get_current_offset(w)
  IN  IF IsLeaf(index, node)
        THEN AddOffset(memsector_write_leaf(w, node), off)
        ELSE AddOffset(PopOffsets(writeChildrenOffsets(w, node)), off)

-----------------------------------------------------------------------------
ExportInit ==
  /\ Init
  /\ exporting \in BOOLEAN
  /\ exporting => root = RootNode
  /\ writer = NewWriter

\* The steps of next(), with the callbacks of _push, _pop and _next.
Pushes   == (Start \/ Descend) /\ writer' = onPush(writer, NodeOf(Last(stack')))
Pops     == Retreat /\ writer' = onPop(writer, NodeOf(Last(stack)))
Advances == Advance /\ writer' = onPush(onPop(writer, NodeOf(Last(stack))), NodeOf(Last(stack')))
Returns  == (Resume \/ Yield) /\ UNCHANGED writer

\* The root is written last, with its offset in the header.
memsector_save ==
  /\ pc = "end"
  /\ writer.root_off = NoRoot
  /\ writer' = [PopOffsets(writeChildrenOffsets(writer, RootNode))
                  EXCEPT !.root_off = memsector_get_current_offset(writer)]
  /\ UNCHANGED vars

exportToMemsector ==
  /\ exporting
  /\ Pushes \/ Pops \/ Advances \/ Returns \/ memsector_save
  /\ UNCHANGED exporting

ExportNext ==
  \/ exportToMemsector
  \/ ~exporting /\ Next /\ UNCHANGED <<exporting, writer>>

ExportSpec == ExportInit /\ [][ExportNext]_memsectorVars /\ WF_memsectorVars(ExportNext)

-----------------------------------------------------------------------------
(***************************************************************************)
(* IndexAccessor on the saved file.                                        *)
(***************************************************************************)

\* What lies at a position; a position at which no node starts holds no node.
NodeAt(pos) == IF pos \in DOMAIN writer.mem THEN writer.mem[pos] ELSE [type |-> "none"]

IsInode(pos) == NodeAt(pos).type \in {"INTERNAL_NODE", "LONG_INTERNAL_NODE"}

\* Binary search; entries are counted from 0 as in the code.
inode_get_child(data, token) ==
  LET find[lr \in (0..Len(data)) \X (-1..(Len(data) - 1))] ==
        LET l == lr[1]
            r == lr[2]
            c == l + (r - l) \div 2
        IN  IF l > r THEN MEMSECTOR_OFF_NULL
            ELSE IF TokenLess(token, data[c + 1].token) THEN find[<<l, c - 1>>]
            ELSE IF token = data[c + 1].token THEN data[c + 1].off
            ELSE find[<<c + 1, r>>]
  IN  find[<<0, Len(data) - 1>>]

\* The position of a child, or MEMSECTOR_OFF_NULL (nullptr).
getChild(pos, token) ==
  LET off == IF IsInode(pos) THEN inode_get_child(NodeAt(pos).data, token) ELSE MEMSECTOR_OFF_NULL
  IN  IF off = MEMSECTOR_OFF_NULL THEN MEMSECTOR_OFF_NULL ELSE pos - off

\* Where following a sequence of tokens from the root leads.
Reached(tokens) ==
  LET at[n \in 0..Len(tokens)] ==
        IF n = 0 THEN writer.root_off ELSE getChild(at[n - 1], tokens[n])
  IN  at[Len(tokens)]

\* What an iterator over the children of a node yields (getChildrenIterator,
\* getToken, getNode): tokens with the positions of the children.
getChildren(pos) ==
  [i \in DOMAIN NodeAt(pos).data |->
     <<NodeAt(pos).data[i].token, pos - NodeAt(pos).data[i].off>>]

getFormulaId(pos) == NodeAt(pos).formula_id
getHitsCount(pos) == NodeAt(pos).num_hits

Nodes == UNION { Prefixes(formula) : formula \in index }

\* computeMemsectorSize: the estimate that knows no long offsets.
NodeSize ==
  [node \in Nodes |->
     IF IsLeaf(index, node) THEN memsector_leaf_size
                            ELSE memsector_inode_size(Cardinality(ChildTokens(index, node)))]

computeMemsectorSize == MapThenSumSet(LAMBDA node : NodeSize[node], Nodes)

-----------------------------------------------------------------------------
(***************************************************************************)
(* Properties.                                                             *)
(***************************************************************************)

Saved == writer.root_off # NoRoot

\* The offset of the root, the last node written, fits in 32 bits.
Fits ==
  HEADER_SIZE + computeMemsectorSize
    - memsector_inode_size(Cardinality(ChildTokens(index, RootNode))) < OFF_MOD

\* A saved memsector is the index exported: following tokens from the root
\* leads to a node exactly when a formula of the index begins with them, a
\* node's children are listed in order, each with the position getChild finds,
\* and the leaf of a formula has its id and its number of hits.  This holds
\* for every file whose last node starts below 2^32 units and every formula
\* with fewer than 2^30 hits; then no node has long offsets and the file has
\* the size computeMemsectorSize tells.
MemsectorIsIndex ==
  Saved /\ Fits =>
    /\ \A node \in Nodes :
         LET pos == Reached(node)
         IN  IF IsLeaf(index, node)
               THEN /\ NodeAt(pos).type = "LEAF_NODE"
                    /\ getFormulaId(pos) = node
                    /\ HitCounts[node] < HITS_MOD => getHitsCount(pos) = HitCounts[node]
               ELSE /\ NodeAt(pos).type = "INTERNAL_NODE"
                    /\ getChildren(pos) =
                         [i \in DOMAIN Children(node) |->
                            <<Children(node)[i], Reached(Append(node, Children(node)[i]))>>]
                    /\ \A formula \in DOMAIN HitCounts : \A i \in DOMAIN formula :
                         ~HasChild(index, node, formula[i]) =>
                           getChild(pos, formula[i]) = MEMSECTOR_OFF_NULL
    /\ writer.offset = HEADER_SIZE + computeMemsectorSize
=============================================================================

--------------------------- MODULE IndexIterator ---------------------------
(***************************************************************************)
(* IndexIterator: the explicit-stack enumeration of the complete terms     *)
(* below a node.  An iterator of the stack is the record [node, tok]: a    *)
(* position in the children of node.  One call of next() is spread over    *)
(* the steps Start or (Retreat* then Advance), then Descend*, then Yield;  *)
(* pc says where in next() the caller is.                                  *)
(***************************************************************************)
EXTENDS IndexTrie

CONSTANT Indexes      \* the indexes explored: sets of sets of formulas

\* The formulas of an index are terms.
ASSUME IndexesAssumption ==
  \A ix \in Indexes : IsFiniteSet(ix) /\ \A f \in ix : f \in Seq(encoded_token_t) /\ IsTerm(f)

VARIABLES
  index,              \* _index
  root,               \* _root
  stack,              \* _backtrackIterators
  arity,              \* _arity
  pc,                 \* "idle", "retreat", "descend" or "end" (nullptr was returned)
  last                \* the path getPath() shows to the caller of next()

vars == <<index, root, stack, arity, pc, last>>

(***************************************************************************)
(* Accessor::getChildrenIterator, getToken, getNode and hasNext/next of a  *)
(* children iterator.                                                      *)
(***************************************************************************)
ChildrenIterator(node) == [node |-> node, tok |-> FirstToken(ChildTokens(index, node))]
NodeOf(it)             == Append(it.node, it.tok)

\* Mutant: children taken to be in the order of their ids.
LaterTokensById(it)    == { t \in ChildTokens(index, it.node) : it.tok.id < t.id }
LaterTokens(it)        == { t \in ChildTokens(index, it.node) : TokenLess(it.tok, t) }
HasNext(it)            == LaterTokens(it) # {}

\* Mutant: next() goes back to the first child.
RestartOf(it)          == [it EXCEPT !.tok = FirstToken(ChildTokens(index, it.node))]
NextOf(it)             == [it EXCEPT !.tok = FirstToken(LaterTokens(it))]

Path == [i \in DOMAIN stack |-> stack[i].tok]

Push(it) == /\ arity' = arity + it.tok.arity - 1
            /\ stack' = Append(stack, it)

Init == /\ index \in Indexes
        /\ root \in { p \in UNION { Prefixes(f) : f \in index } : ~IsLeaf(index, p) }
        /\ stack = <<>>
        /\ arity = 1
        /\ pc = "idle"
        /\ last = <<>>

\* next() is called: on an empty stack the first branch is pushed.
Start == /\ pc = "idle"
         /\ stack = <<>>
         /\ Push(ChildrenIterator(root))
         /\ pc' = "descend"
         /\ UNCHANGED <<index, root, last>>

\* next() is called again: look for an unexplored branch.
Resume == /\ pc = "idle"
          /\ stack # <<>>
          /\ pc' = "retreat"
          /\ UNCHANGED <<index, root, stack, arity, last>>

\* _pop(): the top iterator is exhausted; nullptr once the stack is empty.
Retreat == /\ pc = "retreat"
           /\ ~HasNext(Last(stack))
           /\ arity' = arity - (Last(stack).tok.arity - 1)
           /\ stack' = Front(stack)
           /\ IF Len(stack) = 1
                THEN /\ pc' = "end"
                     /\ last' = <<>>
                ELSE UNCHANGED <<pc, last>>
           /\ UNCHANGED <<index, root>>

\* _next(): move the top iterator to its next child.
Advance == /\ pc = "retreat"
           /\ HasNext(Last(stack))
           /\ LET it == NextOf(Last(stack))
              IN  /\ stack' = [stack EXCEPT ![Len(stack)] = it]
                  /\ arity' = arity + it.tok.arity - Last(stack).tok.arity
           /\ pc' = "descend"
           /\ UNCHANGED <<index, root, last>>

\* Complete the expression: push the children of the node reached.
Descend == /\ pc = "descend"
           /\ arity > 0
           /\ Push(ChildrenIterator(NodeOf(Last(stack))))
           /\ UNCHANGED <<index, root, pc, last>>

\* next() returns the node of the top iterator.
Yield == /\ pc = "descend"
         /\ arity <= 0
         /\ last' = Path
         /\ pc' = "idle"
         /\ UNCHANGED <<index, root, stack, arity>>

\* A caller whose enumeration ended sets the iterator on a node again:
\* set() resets _arity and _root and leaves the stack as it is.
Set == /\ pc = "end"
       /\ root' \in { p \in UNION { Prefixes(f) : f \in index } : ~IsLeaf(index, p) }
       /\ arity' = 1
       /\ pc' = "idle"
       /\ UNCHANGED <<index, stack, last>>

Next == Start \/ Resume \/ Retreat \/ Advance \/ Descend \/ Yield \/ Set

Spec == Init /\ [][Next]_vars /\ WF_vars(Next)

-----------------------------------------------------------------------------
(***************************************************************************)
(* Properties.                                                             *)
(***************************************************************************)

(***************************************************************************)
(* What next() promises: each call returns the next term below _root, in   *)
(* order, none skipped, none repeated, then nullptr.                       *)
(***************************************************************************)
Enumerator == INSTANCE TermEnumerator WITH returned <- last, done <- (pc = "end")

EnumeratesAllTerms == Enumerator!Spec

\* Every enumeration ends: once set on a node, next() sooner or later
\* returns nullptr to a caller that keeps calling it.
EnumerationEnds == []<>(pc = "end")

=============================================================================

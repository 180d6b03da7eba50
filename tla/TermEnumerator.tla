-------------------------- MODULE TermEnumerator ---------------------------
(***************************************************************************)
(* What a caller of IndexIterator::next() may rely on: between two set()s  *)
(* the calls return the complete terms below the root, each exactly once   *)
(* and in the order of the index, and then nullptr.                        *)
(***************************************************************************)
EXTENDS IndexTrie

CONSTANT Indexes
VARIABLES index, root, returned, done

vars == <<index, root, returned, done>>

Later == { t \in TermsFrom(index, root) : returned = <<>> \/ TermLess(returned, t) }

Init == index \in Indexes /\ returned = <<>> /\ done = FALSE

NextTerm == /\ ~done
            /\ Later # {}
            /\ returned' = FirstTerm(Later)
            /\ UNCHANGED <<index, root, done>>

Exhausted == /\ ~done
             /\ Later = {}
             /\ returned' = <<>>
             /\ done' = TRUE
             /\ UNCHANGED <<index, root>>

SetRoot == /\ done
           /\ done' = FALSE
           /\ UNCHANGED <<index, returned>>

Next == NextTerm \/ Exhausted \/ SetRoot

Spec == Init /\ [][Next]_vars
=============================================================================

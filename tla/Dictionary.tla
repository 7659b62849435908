----------------------------- MODULE Dictionary -----------------------------
(***************************************************************************)
(* What the Trie of a worker promises (include/Trie.h): a word that is     *)
(* inserted is found from then on, with the number of its insertions, and  *)
(* a word that never was is not found.                                     *)
(***************************************************************************)
EXTENDS Naturals

CONSTANT Words

VARIABLE count   \* count[w]: what the posting list found for w says; 0, not found

Init == count = [w \in Words |-> 0]

Insert(w) == count' = [count EXCEPT ![w] = @ + 1]

Next == \E w \in Words : Insert(w)

Spec == Init /\ [][Next]_count

=============================================================================

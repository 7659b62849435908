------------------------------- MODULE MCTrie -------------------------------
(* Instances of Trie for TLC, and what a comment of the sources says of it. *)
EXTENDS Trie

\* Eleven letters as words of their own, and a word that begins with one.
ElevenLetters == {<<k>> : k \in 0 .. 10} \cup {<<3, 5>>}

OftenTwice == {<<3, 5>>, <<8>>}
Times      == [w \in Words |-> IF w \in OftenTwice THEN 2 ELSE 1]

\* include/Trie.h:18, "Insert a word in the Trie or if the word already exists
\* just +1 to its plist": the worker should survive it.
WordInserted == ~crashed

=============================================================================

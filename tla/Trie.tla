-------------------------------- MODULE Trie --------------------------------
(***************************************************************************)
(* The Trie of one worker (Trie.c, AVL_tree.c): every level is a binary    *)
(* search tree of letters, which TrieInsert rebalances on its way back up; *)
(* a letter's node holds the posting list of the word that ends there and  *)
(* the tree of the letters that may follow.                                *)
(*                                                                         *)
(* A letter is a number, a word a sequence of letters, a posting list the  *)
(* number of its occurrences (Index.tla has what is in it).                *)
(***************************************************************************)
EXTENDS Integers, Sequences, FiniteSets

CONSTANTS
  Words,     \* the words a file may hold
  MaxTimes   \* bound: MaxTimes[w] insertions of w

ASSUME WordAssumption == /\ Words \subseteq Seq(Nat) \ {<<>>}
                         /\ MaxTimes \in [Words -> Nat]

VARIABLES
  TrieRoot,
  crashed    \* TrieInsert has followed a null pointer

vars == <<TrieRoot, crashed>>

\* The height of NULL is 0, as LnodeHeight and RnodeHeight have it.  Crash is
\* what an expression is that follows NULL.
NULL  == [height |-> 0]
Crash == [height |-> -1]

\* InitAVLnode.  CreateTrieNode has no return statement; built without
\* optimisation, as the Makefile does, the node is still in the register of the
\* result.
CreateTrieNode(key) ==
  [key |-> key, height |-> 1, left |-> NULL, right |-> NULL,
   plist |-> 0, sub_tree |-> NULL]

Larger(m, n) == IF m > n THEN m ELSE n

WithHeight(node) ==
  [node EXCEPT !.height = Larger(node.left.height, node.right.height) + 1]

\* Mutant: the child that changes sides is lost.
RightRotationLosing(node) ==
  IF node.left = NULL THEN Crash
  ELSE WithHeight([node.left EXCEPT !.right = WithHeight([node EXCEPT !.left = NULL])])

\* Mutant: the height of the node that comes down is not reset.
RightRotationStale(node) ==
  IF node.left = NULL THEN Crash
  ELSE WithHeight([node.left EXCEPT !.right = [node EXCEPT !.left = node.left.right]])

RightRotation(node) ==
  IF node.left = NULL THEN Crash
  ELSE WithHeight([node.left EXCEPT
         !.right = WithHeight([node EXCEPT !.left = node.left.right])])

LeftRotation(node) ==
  IF node.right = NULL THEN Crash
  ELSE WithHeight([node.right EXCEPT
         !.left = WithHeight([node EXCEPT !.right = node.right.left])])

balance(node) == node.left.height - node.right.height

-----------------------------------------------------------------------------
(* TrieInsert: the four cases, with both comparisons of each side *)

\* The comparisons of Trie.c:132 and :136 are made one after the other: the
\* second one sees the left child that the first rotation left behind.
LeftLeft(node, key) ==
  IF key < node.left.key THEN RightRotation(node) ELSE node

LeftRight(node, key) ==
  CASE node = Crash \/ node.left = NULL -> Crash
    [] key > node.left.key ->
         LET left == LeftRotation(node.left)
         IN IF left = Crash THEN Crash ELSE RightRotation([node EXCEPT !.left = left])
    [] OTHER -> node

RightLeft(node, key) ==
  IF key < node.right.key
    THEN LET right == RightRotation(node.right)
         IN IF right = Crash THEN Crash ELSE LeftRotation([node EXCEPT !.right = right])
    ELSE node

RightRight(node, key) ==
  CASE node = Crash \/ node.right = NULL -> Crash
    [] key > node.right.key -> LeftRotation(node)
    [] OTHER -> node

Rebalanced(node, key) ==
  CASE balance(node) > 1  -> LeftRight(LeftLeft(node, key), key)
    [] balance(node) < -1 -> RightRight(RightLeft(node, key), key)
    [] OTHER -> node

\* After a child has been created below, new height and balance.
Restored(node, key) == Rebalanced(WithHeight(node), key)

\* The tree that is returned, and whether a node was created at this level
\* (parent_call_flag).  What happens in a sub_tree is not passed on (ignore).
RECURSIVE TrieInsert(_, _, _)
TrieInsert(tree, word, key_size) ==
  LET key  == word[key_size]
      node == IF tree = NULL THEN CreateTrieNode(key) ELSE tree
      In(child)        == TrieInsert(child, word, key_size)
      Return(n, below) == [node |-> IF below.flag THEN Restored(n, key) ELSE n,
                           flag |-> below.flag]
      Below == [node |-> Crash, flag |-> FALSE]
  IN IF key < node.key
       THEN LET left == In(node.left)
            IN IF left.node = Crash THEN Below
               ELSE Return([node EXCEPT !.left = left.node], left)
     ELSE IF key > node.key
       THEN LET right == In(node.right)
            IN IF right.node = Crash THEN Below
               ELSE Return([node EXCEPT !.right = right.node], right)
     ELSE [flag |-> tree = NULL,
           node |-> IF key_size = Len(word)
                      THEN [node EXCEPT !.plist = @ + 1]
                    ELSE LET sub == TrieInsert(node.sub_tree, word, key_size + 1).node
                         IN IF sub = Crash THEN Crash ELSE [node EXCEPT !.sub_tree = sub]]

\* The occurrences in the posting list that is found, 0 if none is.
RECURSIVE SearchTrie(_, _, _)
SearchTrie(word, node, key_size) ==
  CASE node = NULL               -> 0
    [] word[key_size] < node.key -> SearchTrie(word, node.left, key_size)
    [] word[key_size] > node.key -> SearchTrie(word, node.right, key_size)
    [] OTHER -> IF key_size = Len(word) THEN node.plist
                ELSE SearchTrie(word, node.sub_tree, key_size + 1)

Found(w) == SearchTrie(w, TrieRoot, 1)

-----------------------------------------------------------------------------
Init == TrieRoot = NULL /\ crashed = FALSE

\* AddWord has read w.
Insert(w) ==
  LET tree == TrieInsert(TrieRoot, w, 1).node
  IN /\ ~crashed /\ Found(w) < MaxTimes[w]
     /\ crashed' = (tree = Crash)
     /\ TrieRoot' = IF tree = Crash THEN TrieRoot ELSE tree

Next == \E w \in Words : Insert(w)

Spec == Init /\ [][Next]_vars

-----------------------------------------------------------------------------
(* Properties *)

\* The nodes of a level, and those of all levels below a node.
RECURSIVE Nodes(_)
Nodes(node) ==
  IF node = NULL THEN {}
  ELSE {node} \cup UNION {Nodes(node.left), Nodes(node.right), Nodes(node.sub_tree)}

RECURSIVE Height(_)
Height(node) ==
  IF node = NULL THEN 0 ELSE Larger(Height(node.left), Height(node.right)) + 1

Balanced(node) == Height(node.left) - Height(node.right) \in -1 .. 1

\* The heights that the nodes carry through all rotations are the heights of
\* their trees, and TrieInsert follows a null pointer only in a tree that was
\* already out of balance: its rotations are safe where an AVL tree's are.
RotationsSafe ==
  /\ \A node \in Nodes(TrieRoot) : node.height = Height(node)
  /\ crashed => \E node \in Nodes(TrieRoot) : ~Balanced(node)

\* include/Trie.h:18: an inserted word is found, with its count, and no other
\* is, whatever the rotations did to the nodes on the way to it.
Dict == INSTANCE Dictionary WITH count <- [w \in Words |-> Found(w)]

ImplementsDictionary == Dict!Spec

=============================================================================

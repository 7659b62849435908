---------------------------- MODULE IndexProofs ----------------------------
(***************************************************************************)
(* The index of a worker describes the text it was built from, for any     *)
(* files, words and bounds, and so do the answers taken from it.           *)
(***************************************************************************)
EXTENDS Index, SequenceTheorems, FiniteSetTheorems, WellFoundedInduction, TLAPS

-----------------------------------------------------------------------------
(* Loops *)

\* What holds before a loop and is kept by each of its turns holds after any
\* number of them.
LEMMA UpTo ==
  ASSUME NEW n \in Nat, NEW T, 0 \in T, \A k \in 1 .. n : k - 1 \in T => k \in T
  PROVE  0 .. n \subseteq T
<1> DEFINE Rest == (0 .. n) \ T
           Less == {ss \in Nat \X Nat : ss[1] < ss[2]}
<1> SUFFICES ASSUME Rest # {} PROVE FALSE
  OBVIOUS
<1>1. IsWellFoundedOn(Less, Nat)
  BY NatLessThanWellFounded, Zenon DEF OpToRel
<1>2. Rest \subseteq Nat /\ \A x, y \in Nat : y < x => <<y, x>> \in Less
  OBVIOUS
<1>3. PICK x \in Rest : \A y \in Rest : ~(<<y, x>> \in Less)
  <2> HIDE DEF Rest, Less
  <2> QED
    BY <1>1, <1>2, WFMin
<1>4. x \in Nat /\ x \in 1 .. n /\ x - 1 \in 0 .. n /\ <<x - 1, x>> \in Less
  OBVIOUS
<1>5. x - 1 \in T
  BY <1>3, <1>4
<1> QED
  BY <1>4, <1>5

\* f is the sequence of states of a loop of n turns from c on, in each of which the
\* state is changed by G.
Recursive(f, n, c, G) == f[0] = c /\ \A k \in 1 .. n : f[k] = G[<<f[k-1], k>>]

\* A loop that stays in a set of states has such a sequence.
LEMMA Recursion ==
  ASSUME NEW A, NEW n \in Nat, NEW c \in A, NEW G \in [A \X Nat -> A]
  PROVE  \E f \in [0 .. n -> A] : Recursive(f, n, c, G)
<1> DEFINE T == {m \in 0 .. n : \E f \in [0 .. m -> A] : Recursive(f, m, c, G)}
<1>1. 0 \in T
  <2>1. [k \in 0 .. 0 |-> c] \in [0 .. 0 -> A] /\ Recursive([k \in 0 .. 0 |-> c], 0, c, G)
    BY DEF Recursive
  <2> QED
    BY <2>1
<1>2. ASSUME NEW k \in 1 .. n, k - 1 \in T PROVE k \in T
  <2> DEFINE m == k - 1
  <2>1. m \in Nat /\ k = m + 1 /\ k \in 0 .. n /\ k \in Nat
    OBVIOUS
  <2>2. PICK f \in [0 .. m -> A] : Recursive(f, m, c, G)
    BY <1>2
  <2> HIDE DEF m
  <2> DEFINE g == [j \in 0 .. k |-> IF j = k THEN G[<<f[m], k>>] ELSE f[j]]
  <2>3. \A j \in 0 .. k : j # k => j \in 0 .. m
    BY <2>1
  <2>4. m \in 0 .. m /\ f[m] \in A /\ G[<<f[m], k>>] \in A
    BY <2>1
  <2>5. g \in [0 .. k -> A]
    BY <2>3, <2>4
  <2>6. /\ \A j \in 0 .. m : j \in 0 .. k /\ j # k /\ g[j] = f[j]
        /\ k \in 0 .. k /\ g[k] = G[<<f[m], k>>]
    BY <2>1
  <2>7. g[0] = c
    BY <2>1, <2>2, <2>6 DEF Recursive
  <2>8. ASSUME NEW j \in 1 .. k PROVE g[j] = G[<<g[j-1], j>>]
    <3>1. CASE j = k
      <4>1. j - 1 = m
        BY <2>1, <3>1
      <4> QED
        BY <2>4, <2>6, <3>1, <4>1
    <3>2. CASE j # k
      <4>1. j \in 1 .. m /\ j \in 0 .. m /\ j - 1 \in 0 .. m
        BY <2>1, <3>2
      <4>2. f[j] = G[<<f[j-1], j>>]
        BY <2>2, <4>1 DEF Recursive
      <4> QED
        BY <2>6, <4>1, <4>2
    <3> QED
      BY <3>1, <3>2
  <2> HIDE DEF g
  <2>9. Recursive(g, k, c, G)
    BY <2>7, <2>8 DEF Recursive
  <2> QED
    BY <2>1, <2>5, <2>9
<1> HIDE DEF T
<1>3. n \in T
  BY <1>1, <1>2, UpTo
<1> QED
  BY <1>3 DEF T

-----------------------------------------------------------------------------
(* Keep *)

\* K is the sequence of results of the loop of Keep.
KeepsBy(K, s, S) ==
  /\ K[0] = <<>>
  /\ \A k \in 1 .. Len(s) :
       /\ s[k] \in S => K[k] = Append(K[k-1], s[k])
       /\ s[k] \notin S => K[k] = K[k-1]
  /\ Keep(s, S) = K[Len(s)]

\* The sequences Keep is built from.
LEMMA KeepBuilt ==
  ASSUME NEW A, NEW s \in Seq(A), NEW S
  PROVE  \E K \in [0 .. Len(s) -> Seq(A)] : KeepsBy(K, s, S)
<1> DEFINE n == Len(s)
           G == [p \in Seq(A) \X Nat |->
                   IF p[2] \in 1 .. n /\ s[p[2]] \in S THEN Append(p[1], s[p[2]]) ELSE p[1]]
           Solves(v) == v = [k \in 0 .. n |->
                               IF k = 0 THEN <<>>
                               ELSE IF s[k] \in S THEN Append(v[k-1], s[k]) ELSE v[k-1]]
           V == CHOOSE v : Solves(v)
<1>1. n \in Nat /\ \A k \in 1 .. n : s[k] \in A
  OBVIOUS
<1> HIDE DEF n
<1>2. G \in [Seq(A) \X Nat -> Seq(A)] /\ <<>> \in Seq(A)
  BY <1>1
<1>3. \A x \in Seq(A) : \A k \in 1 .. n :
        G[<<x, k>>] = IF s[k] \in S THEN Append(x, s[k]) ELSE x
  BY <1>1
<1> HIDE DEF G
<1>4. PICK f \in [0 .. n -> Seq(A)] : Recursive(f, n, <<>>, G)
  <2> DEFINE B == Seq(A)
  <2>1. G \in [B \X Nat -> B] /\ <<>> \in B
    BY <1>2
  <2> HIDE DEF B
  <2>2. \E f \in [0 .. n -> B] : Recursive(f, n, <<>>, G)
    BY <1>1, <2>1, Recursion
  <2> QED
    BY <2>2 DEF B
<1>5. \A k \in 1 .. n : k - 1 \in 0 .. n /\ f[k-1] \in Seq(A) /\ k \in 0 .. n /\ k # 0
  BY <1>1
<1>6. \A k \in 1 .. n : f[k] = IF s[k] \in S THEN Append(f[k-1], s[k]) ELSE f[k-1]
  BY <1>3, <1>4, <1>5 DEF Recursive
<1>7. Solves(f)
  <2>1. f[0] = <<>> /\ \A k \in 0 .. n : k # 0 => k \in 1 .. n
    BY <1>4 DEF Recursive
  <2>2. \A k \in 0 .. n : f[k] = IF k = 0 THEN <<>>
                               ELSE IF s[k] \in S THEN Append(f[k-1], s[k]) ELSE f[k-1]
    BY <1>6, <2>1
  <2> QED
    BY <2>2
<1>8. Solves(V)
  BY <1>7
<1>9. Keep(s, S) = V[n]
  BY DEF Keep, n
<1>10. \A k \in 0 .. n : V[k] = IF k = 0 THEN <<>>
                              ELSE IF s[k] \in S THEN Append(V[k-1], s[k]) ELSE V[k-1]
  BY <1>8
<1>11. V = [k \in 0 .. n |-> V[k]]
  BY <1>8
<1> HIDE DEF V, Solves
<1>12. 0 \in 0 .. n /\ V[0] = <<>>
  BY <1>1, <1>10
<1>13. \A k \in 1 .. n : V[k] = IF s[k] \in S THEN Append(V[k-1], s[k]) ELSE V[k-1]
  BY <1>5, <1>10
<1>14. \A k \in 0 .. n : V[k] \in Seq(A)
  <2> DEFINE T == {k \in 0 .. n : V[k] \in Seq(A)}
  <2>1. 0 \in T
    BY <1>2, <1>12
  <2>2. ASSUME NEW k \in 1 .. n, k - 1 \in T PROVE k \in T
    <3>1. V[k-1] \in Seq(A) /\ s[k] \in A /\ Append(V[k-1], s[k]) \in Seq(A)
      BY <1>1, <2>2
    <3> QED
      BY <1>5, <1>13, <3>1
  <2> HIDE DEF T
  <2>3. 0 .. n \subseteq T
    BY <1>1, <2>1, <2>2, UpTo
  <2> QED
    BY <2>3 DEF T
<1>15. V \in [0 .. n -> Seq(A)]
  BY <1>11, <1>14
<1>16. KeepsBy(V, s, S)
  <2>1. /\ V[0] = <<>> /\ Keep(s, S) = V[n]
        /\ \A k \in 1 .. n : /\ s[k] \in S => V[k] = Append(V[k-1], s[k])
                             /\ s[k] \notin S => V[k] = V[k-1]
    BY <1>9, <1>12, <1>13
  <2> QED
    BY <2>1 DEF KeepsBy, n
<1> QED
  BY <1>15, <1>16 DEF n

\* What one more element at the end makes of it.
LEMMA KeepAppend ==
  ASSUME NEW A, NEW s \in Seq(A), NEW x \in A, NEW S
  PROVE  /\ x \in S => Keep(Append(s, x), S) = Append(Keep(s, S), x)
         /\ x \notin S => Keep(Append(s, x), S) = Keep(s, S)
<1> DEFINE t == Append(s, x)
           n == Len(s)
<1>1. PICK K \in [0 .. n -> Seq(A)] : KeepsBy(K, s, S)
  BY KeepBuilt
<1>2. /\ t \in Seq(A) /\ Len(t) = n + 1 /\ n \in Nat /\ t[n+1] = x
      /\ \A k \in 1 .. n : t[k] = s[k]
  OBVIOUS
<1> HIDE DEF t
<1>3. PICK L \in [0 .. Len(t) -> Seq(A)] : KeepsBy(L, t, S)
  BY <1>2, KeepBuilt
<1> DEFINE T == {k \in 0 .. n : L[k] = K[k]}
<1>4. /\ K[0] = <<>> /\ L[0] = <<>>
      /\ \A k \in 1 .. n : /\ s[k] \in S => K[k] = Append(K[k-1], s[k])
                           /\ s[k] \notin S => K[k] = K[k-1]
      /\ \A k \in 1 .. n + 1 : /\ t[k] \in S => L[k] = Append(L[k-1], t[k])
                               /\ t[k] \notin S => L[k] = L[k-1]
      /\ Keep(s, S) = K[n] /\ Keep(t, S) = L[n+1]
  BY <1>1, <1>2, <1>3 DEF KeepsBy
<1>5. 0 \in T
  BY <1>2, <1>4
<1>6. ASSUME NEW k \in 1 .. n, k - 1 \in T PROVE k \in T
  <2>1. k \in 1 .. n + 1 /\ k \in 0 .. n /\ L[k-1] = K[k-1] /\ t[k] = s[k]
    BY <1>2, <1>6
  <2> QED
    BY <1>4, <2>1
<1>7. n \in T
  <2> HIDE DEF T, n
  <2>1. 0 .. n \subseteq T
    BY <1>2, <1>5, <1>6, UpTo
  <2> QED
    BY <1>2, <2>1
<1>8. n + 1 \in 1 .. n + 1 /\ (n + 1) - 1 = n /\ L[n] = K[n]
  BY <1>2, <1>7
<1>9. /\ x \in S => L[n+1] = Append(K[n], x)
      /\ x \notin S => L[n+1] = K[n]
  <2> HIDE DEF n
  <2> QED
    BY <1>2, <1>4, <1>8
<1> QED
  BY <1>4, <1>9 DEF t

\* r consists of those of the first k elements of s that are in S, in their order.
Selects(r, s, S, k) ==
  /\ \A a \in 1 .. k : s[a] \in S => \E i \in 1 .. Len(r) : r[i] = s[a]
  /\ \A i \in 1 .. Len(r) : \E a \in 1 .. k : s[a] \in S /\ r[i] = s[a]
  /\ \A i, j \in 1 .. Len(r) : i < j =>
       \E a, b \in 1 .. k : a < b /\ r[i] = s[a] /\ r[j] = s[b]

\* One more of them.
LEMMA SelectsMore ==
  ASSUME NEW A, NEW s \in Seq(A), NEW S, NEW r \in Seq(A), NEW k \in 1 .. Len(s),
         Selects(r, s, S, k - 1)
  PROVE  /\ s[k] \in S => Selects(Append(r, s[k]), s, S, k)
         /\ s[k] \notin S => Selects(r, s, S, k)
<1>1. /\ k \in Nat /\ k \in 1 .. k /\ \A a \in 1 .. k : a \in 1 .. k - 1 \/ a = k
      /\ \A a \in 1 .. k - 1 : a \in 1 .. k /\ a < k
  OBVIOUS
<1>2. /\ \A a \in 1 .. k - 1 : s[a] \in S => \E i \in 1 .. Len(r) : r[i] = s[a]
      /\ \A i \in 1 .. Len(r) : \E a \in 1 .. k - 1 : s[a] \in S /\ r[i] = s[a]
      /\ \A i, j \in 1 .. Len(r) : i < j =>
           \E a, b \in 1 .. k - 1 : a < b /\ r[i] = s[a] /\ r[j] = s[b]
  BY DEF Selects
<1>3. CASE s[k] \in S
  <2> DEFINE q == Append(r, s[k])
  <2>1. /\ s[k] \in A /\ Len(q) = Len(r) + 1 /\ q[Len(r) + 1] = s[k] /\ Len(r) \in Nat
        /\ \A i \in 1 .. Len(r) : q[i] = r[i]
    OBVIOUS
  <2> HIDE DEF q
  <2>2. /\ \A i \in 1 .. Len(q) : i \in 1 .. Len(r) \/ i = Len(q)
        /\ \A i \in 1 .. Len(r) : i \in 1 .. Len(q) /\ i < Len(q)
        /\ Len(q) \in 1 .. Len(q) /\ q[Len(q)] = s[k]
    BY <2>1
  <2>3. \A a \in 1 .. k : s[a] \in S => \E i \in 1 .. Len(q) : q[i] = s[a]
    BY <1>1, <1>2, <2>1, <2>2
  <2>4. ASSUME NEW i \in 1 .. Len(q) PROVE \E a \in 1 .. k : s[a] \in S /\ q[i] = s[a]
    <3>1. CASE i \in 1 .. Len(r)
      <4>1. PICK a \in 1 .. k - 1 : s[a] \in S /\ r[i] = s[a]
        BY <1>2, <3>1
      <4> QED
        BY <1>1, <2>1, <3>1, <4>1
    <3>2. CASE i = Len(q)
      BY <1>1, <1>3, <2>2, <3>2
    <3> QED
      BY <2>2, <3>1, <3>2
  <2>5. ASSUME NEW i \in 1 .. Len(q), NEW j \in 1 .. Len(q), i < j
        PROVE  \E a, b \in 1 .. k : a < b /\ q[i] = s[a] /\ q[j] = s[b]
    <3>1. i \in 1 .. Len(r)
      BY <2>1, <2>2, <2>5
    <3>2. CASE j \in 1 .. Len(r)
      <4>1. PICK a \in 1 .. k - 1, b \in 1 .. k - 1 : a < b /\ r[i] = s[a] /\ r[j] = s[b]
        BY <1>2, <2>5, <3>1, <3>2
      <4>2. a \in 1 .. k /\ b \in 1 .. k /\ q[i] = s[a] /\ q[j] = s[b]
        BY <1>1, <2>1, <3>1, <3>2, <4>1
      <4> QED
        BY <4>1, <4>2
    <3>3. CASE j = Len(q)
      <4>1. PICK a \in 1 .. k - 1 : r[i] = s[a]
        BY <1>2, <3>1
      <4>2. a \in 1 .. k /\ a < k /\ q[i] = s[a] /\ q[j] = s[k]
        BY <1>1, <2>1, <2>2, <3>1, <3>3, <4>1
      <4> QED
        BY <1>1, <4>2
    <3> QED
      BY <2>2, <3>2, <3>3
  <2>6. Selects(q, s, S, k)
    BY <2>3, <2>4, <2>5 DEF Selects
  <2> QED
    BY <1>3, <2>6 DEF q
<1>4. CASE s[k] \notin S
  <2>1. \A a \in 1 .. k : s[a] \in S => a \in 1 .. k - 1
    BY <1>1, <1>4
  <2>2. Selects(r, s, S, k)
    BY <1>1, <1>2, <2>1 DEF Selects
  <2> QED
    BY <1>4, <2>2
<1> QED
  BY <1>3, <1>4

\* Keep selects the elements in S, all of them and in their order.
LEMMA KeepSelects ==
  ASSUME NEW A, NEW s \in Seq(A), NEW S
  PROVE  Keep(s, S) \in Seq(A) /\ Selects(Keep(s, S), s, S, Len(s))
<1> DEFINE n == Len(s)
<1>1. PICK K \in [0 .. n -> Seq(A)] : KeepsBy(K, s, S)
  BY KeepBuilt
<1>2. n \in Nat /\ n \in 0 .. n
  OBVIOUS
<1>3. /\ K[0] = <<>> /\ Keep(s, S) = K[n] /\ \A k \in 0 .. n : K[k] \in Seq(A)
      /\ \A k \in 1 .. n : /\ s[k] \in S => K[k] = Append(K[k-1], s[k])
                           /\ s[k] \notin S => K[k] = K[k-1]
  BY <1>1 DEF KeepsBy
<1> DEFINE T == {k \in 0 .. n : Selects(K[k], s, S, k)}
<1>4. 0 \in T
  <2>1. Len(<<>>) = 0 /\ 1 .. 0 = {}
    OBVIOUS
  <2>2. Selects(<<>>, s, S, 0)
    BY <2>1 DEF Selects
  <2> QED
    BY <1>2, <1>3, <2>2
<1>5. ASSUME NEW k \in 1 .. n, k - 1 \in T PROVE k \in T
  <2>1. k \in 0 .. n /\ k - 1 \in 0 .. n /\ K[k-1] \in Seq(A) /\ Selects(K[k-1], s, S, k - 1)
    BY <1>2, <1>3, <1>5
  <2>2. Selects(K[k], s, S, k)
    BY <1>3, <2>1, SelectsMore
  <2> QED
    BY <2>1, <2>2
<1> HIDE DEF T
<1>6. 0 .. n \subseteq T
  <2> HIDE DEF n
  <2> QED
    BY <1>2, <1>4, <1>5, UpTo
<1>7. Selects(K[n], s, S, n)
  <2> HIDE DEF n
  <2> QED
    BY <1>2, <1>6 DEF T
<1> QED
  BY <1>2, <1>3, <1>7

\* Nothing is kept of nothing.
LEMMA KeepNothing ==
  ASSUME NEW S
  PROVE  Keep(<<>>, S) = <<>>
<1>1. <<>> \in Seq({}) /\ Len(<<>>) = 0
  OBVIOUS
<1>2. \E K \in [0 .. Len(<<>>) -> Seq({})] : KeepsBy(K, <<>>, S)
  BY <1>1, KeepBuilt
<1> QED
  BY <1>1, <1>2 DEF KeepsBy

-----------------------------------------------------------------------------
(* The inductive invariant *)

NonEmpty(t) == Keep(t, Seq(Words) \ {<<>>})

\* The files before file are described by their maps, those behind it have not been
\* touched; the map of the file that is being read describes the lines that are
\* complete and, whether it is empty or not, the current one.
Described(p, x) ==
  /\ text[file] = Append(p, x)
  /\ doc_lenght[file] = Append(LineLengths(NonEmpty(p)), Len(x))

MapsInv ==
  /\ \A f \in FileIds : f < file => doc_lenght[f] = LineLengths(NonEmpty(text[f]))
  /\ \A f \in FileIds : f > file \/ (f = file /\ ~reading) =>
       text[f] = <<>> /\ doc_lenght[f] = <<>>
  /\ reading => /\ text[file] # <<>>
                /\ Described(Front(text[file]), text[file][Len(text[file])])

\* Later lines of later files come first.
Before(p, q) ==
  \/ p.file_id < q.file_id
  \/ p.file_id = q.file_id /\ p.doc_id < q.doc_id
Sorted(posts) == \A i, j \in 1 .. Len(posts) : i < j => Before(posts[j], posts[i])

PostsInv ==
  \A w \in Words :
    /\ Sorted(plist[w].post)
    /\ ToSet(plist[w].post) = Containing(w)
    /\ plist[w].doc_frequency = Len(plist[w].post)
    /\ plist[w] # NoList => plist[w].post # <<>>
    /\ IsFiniteSet(AllPlaces({w}))
    /\ plist[w].term_frequency = Cardinality(AllPlaces({w}))

WordsInv == IsFiniteSet(AllPlaces(Words)) /\ WORDS_IN_FILES = Cardinality(AllPlaces(Words))

IndexInv == TypeOK /\ MapsInv /\ PostsInv /\ WordsInv

-----------------------------------------------------------------------------
(* Lines *)

\* What NonEmpty yields, and what a line at the end adds to it.
LEMMA NonEmptyLines ==
  ASSUME NEW t \in Seq(Seq(Words))
  PROVE  /\ NonEmpty(t) \in Seq(Seq(Words))
         /\ \A x \in Seq(Words) :
              /\ x = <<>> => NonEmpty(Append(t, x)) = NonEmpty(t)
              /\ x # <<>> => NonEmpty(Append(t, x)) = Append(NonEmpty(t), x)
<1> DEFINE A == Seq(Words)
           S == Seq(Words) \ {<<>>}
<1>1. t \in Seq(A)
  OBVIOUS
<1>2. \A x \in A : x # <<>> <=> x \in S
  OBVIOUS
<1> HIDE DEF A, S
<1>3. Keep(t, S) \in Seq(A)
  BY <1>1, KeepSelects
<1>4. \A x \in A : /\ x \in S => Keep(Append(t, x), S) = Append(Keep(t, S), x)
                   /\ x \notin S => Keep(Append(t, x), S) = Keep(t, S)
  BY <1>1, KeepAppend
<1> QED
  BY <1>2, <1>3, <1>4 DEF NonEmpty, A, S

\* A file of no lines has an empty map.
LEMMA NoLines == NonEmpty(<<>>) = <<>> /\ LineLengths(<<>>) = <<>>
<1>1. NonEmpty(<<>>) = <<>>
  BY KeepNothing DEF NonEmpty
<1>2. LineLengths(<<>>) = <<>>
  BY DEF LineLengths
<1> QED
  BY <1>1, <1>2

\* LineLengths works line by line.
LEMMA LengthsOfLines ==
  ASSUME NEW t \in Seq(Seq(Words))
  PROVE  /\ LineLengths(t) \in Seq(Nat) /\ Len(LineLengths(t)) = Len(t)
         /\ \A x \in Seq(Words) : LineLengths(Append(t, x)) = Append(LineLengths(t), Len(x))
<1>1. /\ Len(t) \in Nat /\ DOMAIN t = 1 .. Len(t)
      /\ \A l \in 1 .. Len(t) : t[l] \in Seq(Words) /\ Len(t[l]) \in Nat
  OBVIOUS
<1>2. /\ LineLengths(t) = [l \in 1 .. Len(t) |-> Len(t[l])]
      /\ LineLengths(t) \in Seq(Nat) /\ Len(LineLengths(t)) = Len(t)
  BY <1>1 DEF LineLengths
<1>3. ASSUME NEW x \in Seq(Words)
      PROVE  LineLengths(Append(t, x)) = Append(LineLengths(t), Len(x))
  <2> DEFINE u == Append(t, x)
             n == Len(t) + 1
  <2>1. /\ u \in Seq(Seq(Words)) /\ DOMAIN u = 1 .. n /\ u[n] = x /\ Len(x) \in Nat
        /\ \A l \in 1 .. Len(t) : u[l] = t[l]
    OBVIOUS
  <2> HIDE DEF u
  <2>2. LineLengths(u) = [l \in 1 .. n |-> Len(u[l])]
    BY <2>1 DEF LineLengths
  <2> DEFINE a == Append(LineLengths(t), Len(x))
  <2>3. /\ a \in Seq(Nat) /\ Len(a) = n /\ a[n] = Len(x)
        /\ \A l \in 1 .. Len(t) : a[l] = LineLengths(t)[l]
    BY <1>2, <2>1
  <2> HIDE DEF a
  <2>4. \A l \in 1 .. n : a[l] = Len(u[l])
    <3>1. \A l \in 1 .. n : l \in 1 .. Len(t) \/ l = n
      BY <1>1
    <3>2. \A l \in 1 .. Len(t) : LineLengths(t)[l] = Len(t[l])
      BY <1>2
    <3> QED
      BY <2>1, <2>3, <3>1, <3>2
  <2>5. a = [l \in 1 .. n |-> a[l]]
    BY <2>3
  <2>6. a = LineLengths(u)
    BY <2>2, <2>4, <2>5
  <2> QED
    BY <2>6 DEF a, u
<1> QED
  BY <1>2, <1>3

\* A sequence that is not empty is its front and its last element.
LEMMA FrontAndLast ==
  ASSUME NEW S, NEW s \in Seq(S)
  PROVE  /\ s # <<>> => /\ Front(s) \in Seq(S) /\ s[Len(s)] \in S
                        /\ s = Append(Front(s), s[Len(s)])
         /\ \A x \in S : /\ Front(Append(s, x)) = s
                         /\ Len(Append(s, x)) = Len(s) + 1 /\ Append(s, x)[Len(s) + 1] = x
                         /\ Append(s, x) # <<>>
<1>1. ASSUME s # <<>>
      PROVE  Front(s) \in Seq(S) /\ s[Len(s)] \in S /\ s = Append(Front(s), s[Len(s)])
  BY <1>1 DEF Front
<1>2. ASSUME NEW x \in S
      PROVE  /\ Front(Append(s, x)) = s /\ Append(s, x) # <<>>
             /\ Len(Append(s, x)) = Len(s) + 1 /\ Append(s, x)[Len(s) + 1] = x
  BY DEF Front
<1> QED
  BY <1>1, <1>2

-----------------------------------------------------------------------------
(* Words in lines *)

\* What InLine finds in a longer line.
LEMMA InLineAppend ==
  ASSUME NEW x \in Seq(Words), NEW w \in Words, NEW W
  PROVE  /\ InLine(W, x) \subseteq 1 .. Len(x)
         /\ w \in W => InLine(W, Append(x, w)) = InLine(W, x) \cup {Len(x) + 1}
         /\ w \notin W => InLine(W, Append(x, w)) = InLine(W, x)
<1>1. /\ DOMAIN x = 1 .. Len(x) /\ DOMAIN Append(x, w) = 1 .. Len(x) + 1 /\ Len(x) \in Nat
      /\ \A i \in 1 .. Len(x) : Append(x, w)[i] = x[i]
      /\ Append(x, w)[Len(x) + 1] = w
  OBVIOUS
<1>2. \A i \in 1 .. Len(x) + 1 : i \in 1 .. Len(x) \/ i = Len(x) + 1
  BY <1>1
<1> QED
  BY <1>1, <1>2 DEF InLine

\* A line has one occurrence more if its next word is the one looked for.
LEMMA TimesAppend ==
  ASSUME NEW x \in Seq(Words), NEW v \in Words, NEW w \in Words
  PROVE  /\ IsFiniteSet(InLine({w}, x)) /\ Times(w, x) \in Nat
         /\ Times(w, x) > 0 <=> InLine({w}, x) # {}
         /\ x = <<>> => Times(w, x) = 0
         /\ v = w => Times(w, Append(x, v)) = Times(w, x) + 1
         /\ v # w => Times(w, Append(x, v)) = Times(w, x)
<1> DEFINE I == InLine({w}, x)
<1>1. Len(x) \in Nat /\ I \subseteq 1 .. Len(x)
  BY InLineAppend
<1>2. IsFiniteSet(1 .. Len(x))
  BY <1>1, FS_Interval
<1>3. IsFiniteSet(I) /\ Cardinality(I) \in Nat
  BY <1>1, <1>2, FS_Subset, FS_CardinalityType
<1>4. Cardinality(I) = 0 <=> I = {}
  BY <1>3, FS_EmptySet
<1>5. x = <<>> => I = {}
  <2>1. x = <<>> => 1 .. Len(x) = {}
    OBVIOUS
  <2> HIDE DEF I
  <2> QED
    BY <1>1, <2>1
<1>6. Len(x) + 1 \notin I
  <2> HIDE DEF I
  <2> QED
    BY <1>1
<1>7. Cardinality(I \cup {Len(x) + 1}) = Cardinality(I) + 1
  <2> HIDE DEF I
  <2> QED
    BY <1>3, <1>6, FS_AddElement
<1>8. v = w => InLine({w}, Append(x, v)) = I \cup {Len(x) + 1}
  BY InLineAppend
<1>9. v # w => InLine({w}, Append(x, v)) = I
  <2>1. v # w => v \notin {w}
    OBVIOUS
  <2> QED
    BY <2>1, InLineAppend
<1>10. /\ Times(w, x) = Cardinality(I)
       /\ v = w => Times(w, Append(x, v)) = Cardinality(I \cup {Len(x) + 1})
       /\ v # w => Times(w, Append(x, v)) = Cardinality(I)
  BY <1>8, <1>9 DEF Times
<1> HIDE DEF I
<1>11. Times(w, x) > 0 <=> I # {}
  BY <1>3, <1>4, <1>10
<1>12. x = <<>> => Times(w, x) = 0
  BY <1>4, <1>5, <1>10
<1>13. IsFiniteSet(InLine({w}, x)) /\ (Times(w, x) > 0 <=> InLine({w}, x) # {})
  BY <1>3, <1>11 DEF I
<1> QED
  BY <1>3, <1>7, <1>10, <1>12, <1>13

-----------------------------------------------------------------------------
(* One more word *)

\* Places and Containing, of lines in general.
PlacesIn(W, L) == UNION {{l} \X InLine(W, L[l]) : l \in DOMAIN L}
PostsIn(w, f, L) ==
  {[file_id |-> f, doc_id |-> l - 1, recurrence |-> Times(w, L[l])] :
     l \in {l \in DOMAIN L : Times(w, L[l]) > 0}}

\* The elements of PlacesIn, one by one.
LEMMA PlacesMember ==
  ASSUME NEW W, NEW L
  PROVE  \A e : e \in PlacesIn(W, L) <=>
           \E l \in DOMAIN L : \E i \in InLine(W, L[l]) : e = <<l, i>>
BY DEF PlacesIn

\* The elements of PostsIn, one by one.
LEMMA PostsMember ==
  ASSUME NEW w, NEW f, NEW L
  PROVE  \A q : q \in PostsIn(w, f, L) <=>
           \E l \in DOMAIN L :
             /\ Times(w, L[l]) > 0
             /\ q = [file_id |-> f, doc_id |-> l - 1, recurrence |-> Times(w, L[l])]
BY DEF PostsIn

\* The lines with words of a file of which x is the current line and N the lines
\* with words before it.
WithLast(N, x) == IF x = <<>> THEN N ELSE Append(N, x)

\* The lines of WithLast, by number.
LEMMA WithLastElements ==
  ASSUME NEW N \in Seq(Seq(Words)), NEW x \in Seq(Words)
  PROVE  LET L == WithLast(N, x)
             c == Len(N)
         IN /\ c \in Nat /\ L \in Seq(Seq(Words))
            /\ \A l \in 1 .. c : l \in DOMAIN L /\ L[l] = N[l] /\ N[l] \in Seq(Words)
            /\ \A l \in DOMAIN L : l \in 1 .. c \/ l = c + 1
            /\ c + 1 \notin 1 .. c
            /\ x # <<>> => c + 1 \in DOMAIN L /\ L[c+1] = x
            /\ x = <<>> => c + 1 \notin DOMAIN L
<1> DEFINE L == WithLast(N, x)
           c == Len(N)
<1>1. /\ c \in Nat /\ DOMAIN N = 1 .. c
      /\ \A l \in 1 .. c : N[l] \in Seq(Words)
      /\ Append(N, x) \in Seq(Seq(Words)) /\ DOMAIN Append(N, x) = 1 .. c + 1
      /\ Append(N, x)[c+1] = x /\ \A l \in 1 .. c : Append(N, x)[l] = N[l]
  OBVIOUS
<1>2. CASE x = <<>>
  <2>1. L = N
    BY <1>2 DEF WithLast
  <2> HIDE DEF L, c
  <2>2. c + 1 \notin 1 .. c
    BY <1>1
  <2> QED
    BY <1>1, <1>2, <2>1, <2>2 DEF L, c
<1>3. CASE x # <<>>
  <2>1. L = Append(N, x)
    BY <1>3 DEF WithLast
  <2>2. /\ \A l \in 1 .. c + 1 : l \in 1 .. c \/ l = c + 1
        /\ \A l \in 1 .. c : l \in 1 .. c + 1
        /\ c + 1 \in 1 .. c + 1 /\ c + 1 \notin 1 .. c
    BY <1>1
  <2>3. /\ L \in Seq(Seq(Words)) /\ DOMAIN L = 1 .. c + 1
        /\ L[c+1] = x /\ \A l \in 1 .. c : L[l] = N[l]
    BY <1>1, <2>1
  <2> HIDE DEF L, c
  <2> QED
    BY <1>1, <1>3, <2>2, <2>3 DEF L, c
<1> QED
  BY <1>2, <1>3

\* A word at the end of the current line is one place more.
LEMMA OneMorePlace ==
  ASSUME NEW N \in Seq(Seq(Words)), NEW x \in Seq(Words), NEW w \in Words, NEW W
  PROVE  LET L == WithLast(N, x)
             M == WithLast(N, Append(x, w))
             e == <<Len(N) + 1, Len(x) + 1>>
         IN /\ e \notin PlacesIn(W, L)
            /\ w \in W => PlacesIn(W, M) = PlacesIn(W, L) \cup {e}
            /\ w \notin W => PlacesIn(W, M) = PlacesIn(W, L)
<1> DEFINE L == WithLast(N, x)
           y == Append(x, w)
           M == WithLast(N, y)
           c == Len(N)
           n == Len(x)
           e == <<c + 1, n + 1>>
<1>1. y \in Seq(Words) /\ y # <<>> /\ c \in Nat /\ n \in Nat
  OBVIOUS
<1>2. /\ \A l \in 1 .. c : l \in DOMAIN L /\ L[l] = N[l]
      /\ \A l \in DOMAIN L : l \in 1 .. c \/ l = c + 1
      /\ c + 1 \notin 1 .. c
      /\ x # <<>> => c + 1 \in DOMAIN L /\ L[c+1] = x
      /\ x = <<>> => c + 1 \notin DOMAIN L
  BY WithLastElements
<1>3. /\ \A l \in 1 .. c : l \in DOMAIN M /\ M[l] = N[l]
      /\ \A l \in DOMAIN M : l \in 1 .. c \/ l = c + 1
      /\ c + 1 \in DOMAIN M /\ M[c+1] = y
  <2> HIDE DEF y
  <2> QED
    BY <1>1, WithLastElements
<1>4. /\ InLine(W, x) \subseteq 1 .. n
      /\ w \in W => InLine(W, y) = InLine(W, x) \cup {n + 1}
      /\ w \notin W => InLine(W, y) = InLine(W, x)
  BY InLineAppend
<1>5. x = <<>> => InLine(W, x) = {}
  <2>1. x = <<>> => 1 .. n = {}
    OBVIOUS
  <2> QED
    BY <1>4, <2>1
<1>6. /\ \A d : d \in PlacesIn(W, L) <=>
                  \E l \in DOMAIN L : \E i \in InLine(W, L[l]) : d = <<l, i>>
      /\ \A d : d \in PlacesIn(W, M) <=>
                  \E l \in DOMAIN M : \E i \in InLine(W, M[l]) : d = <<l, i>>
  BY PlacesMember
<1>7. n + 1 \notin InLine(W, x)
  <2>1. n + 1 \notin 1 .. n
    BY <1>1
  <2> QED
    BY <1>4, <2>1
<1> HIDE DEF L, M, y, c, n
<1>8. \A d : d \in PlacesIn(W, L) <=>
        \/ \E l \in 1 .. c : \E i \in InLine(W, N[l]) : d = <<l, i>>
        \/ \E i \in InLine(W, x) : d = <<c + 1, i>>
  BY <1>2, <1>5, <1>6
<1>9. \A d : d \in PlacesIn(W, M) <=>
        \/ \E l \in 1 .. c : \E i \in InLine(W, N[l]) : d = <<l, i>>
        \/ \E i \in InLine(W, y) : d = <<c + 1, i>>
  BY <1>3, <1>6
<1>10. e \notin PlacesIn(W, L)
  BY <1>2, <1>7, <1>8
<1>11. w \in W => PlacesIn(W, M) = PlacesIn(W, L) \cup {e}
  BY <1>4, <1>8, <1>9
<1>12. w \notin W => PlacesIn(W, M) = PlacesIn(W, L)
  BY <1>4, <1>8, <1>9
<1> QED
  BY <1>10, <1>11, <1>12 DEF L, M, y, c, n

Doc(f, d, r) == [file_id |-> f, doc_id |-> d, recurrence |-> r]

\* The post of the current line, before the word and after it.
LEMMA OneMorePost ==
  ASSUME NEW N \in Seq(Seq(Words)), NEW x \in Seq(Words), NEW v \in Words, NEW w \in Words,
         NEW f
  PROVE  LET L == WithLast(N, x)
             M == WithLast(N, Append(x, w))
             c == Len(N)
             T == Times(v, x)
         IN /\ T \in Nat
            /\ \A q \in PostsIn(v, f, L) :
                 /\ q.file_id = f /\ q.doc_id \in 0 .. c
                 /\ q.doc_id = c => q = Doc(f, c, T) /\ T > 0
            /\ T > 0 => Doc(f, c, T) \in PostsIn(v, f, L)
            /\ v # w => PostsIn(v, f, M) = PostsIn(v, f, L)
            /\ v = w /\ T = 0 => PostsIn(v, f, M) = PostsIn(v, f, L) \cup {Doc(f, c, 1)}
            /\ v = w /\ T > 0 => PostsIn(v, f, M) =
                                   (PostsIn(v, f, L) \ {Doc(f, c, T)}) \cup {Doc(f, c, T + 1)}
<1> DEFINE L == WithLast(N, x)
           y == Append(x, w)
           M == WithLast(N, y)
           c == Len(N)
           T == Times(v, x)
           U == Times(v, y)
<1>1. y \in Seq(Words) /\ y # <<>> /\ c \in Nat
  OBVIOUS
<1>2. /\ \A l \in 1 .. c : l \in DOMAIN L /\ L[l] = N[l]
      /\ \A l \in DOMAIN L : l \in 1 .. c \/ l = c + 1
      /\ c + 1 \notin 1 .. c
      /\ x # <<>> => c + 1 \in DOMAIN L /\ L[c+1] = x
      /\ x = <<>> => c + 1 \notin DOMAIN L
  BY WithLastElements
<1>3. /\ \A l \in 1 .. c : l \in DOMAIN M /\ M[l] = N[l]
      /\ \A l \in DOMAIN M : l \in 1 .. c \/ l = c + 1
      /\ c + 1 \in DOMAIN M /\ M[c+1] = y
  <2> HIDE DEF y
  <2> QED
    BY <1>1, WithLastElements
<1>4. /\ T \in Nat /\ (x = <<>> => T = 0)
      /\ v = w => U = T + 1
      /\ v # w => U = T
  BY TimesAppend
<1>5. /\ \A q : q \in PostsIn(v, f, L) <=>
             \E l \in DOMAIN L : Times(v, L[l]) > 0 /\ q = Doc(f, l - 1, Times(v, L[l]))
      /\ \A q : q \in PostsIn(v, f, M) <=>
             \E l \in DOMAIN M : Times(v, M[l]) > 0 /\ q = Doc(f, l - 1, Times(v, M[l]))
  BY PostsMember DEF Doc
<1>6. \A d, r : Doc(f, d, r).file_id = f /\ Doc(f, d, r).doc_id = d
                 /\ Doc(f, d, r).recurrence = r
  BY DEF Doc
<1>7. (c + 1) - 1 = c /\ \A l \in 1 .. c : l - 1 \in 0 .. c /\ l - 1 # c
  BY <1>1
<1>8. T = Times(v, x) /\ U = Times(v, y)
  OBVIOUS
<1> HIDE DEF L, M, y, c, T, U
<1> DEFINE Old(q) == \E l \in 1 .. c : Times(v, N[l]) > 0 /\ q = Doc(f, l - 1, Times(v, N[l]))
<1>9. \A q : q \in PostsIn(v, f, L) <=> Old(q) \/ (T > 0 /\ q = Doc(f, c, T))
  <2>1. ASSUME NEW q, q \in PostsIn(v, f, L) PROVE Old(q) \/ (T > 0 /\ q = Doc(f, c, T))
    <3>1. PICK l \in DOMAIN L : Times(v, L[l]) > 0 /\ q = Doc(f, l - 1, Times(v, L[l]))
      BY <1>5, <2>1
    <3>2. CASE l \in 1 .. c
      BY <1>2, <3>1, <3>2
    <3>3. CASE l = c + 1
      BY <1>2, <1>7, <1>8, <3>1, <3>3
    <3> QED
      BY <1>2, <3>2, <3>3
  <2>2. ASSUME NEW q, Old(q) PROVE q \in PostsIn(v, f, L)
    BY <1>2, <1>5, <2>2
  <2>3. ASSUME NEW q, T > 0, q = Doc(f, c, T) PROVE q \in PostsIn(v, f, L)
    <3>1. x # <<>>
      BY <1>4, <2>3
    <3>2. c + 1 \in DOMAIN L /\ L[c+1] = x /\ (c + 1) - 1 = c
      BY <1>2, <1>7, <3>1
    <3> QED
      BY <1>5, <1>8, <2>3, <3>2
  <2> QED
    BY <2>1, <2>2, <2>3
<1>10. \A q : q \in PostsIn(v, f, M) <=> Old(q) \/ (U > 0 /\ q = Doc(f, c, U))
  <2>1. ASSUME NEW q, q \in PostsIn(v, f, M) PROVE Old(q) \/ (U > 0 /\ q = Doc(f, c, U))
    <3>1. PICK l \in DOMAIN M : Times(v, M[l]) > 0 /\ q = Doc(f, l - 1, Times(v, M[l]))
      BY <1>5, <2>1
    <3>2. CASE l \in 1 .. c
      BY <1>3, <3>1, <3>2
    <3>3. CASE l = c + 1
      BY <1>3, <1>7, <1>8, <3>1, <3>3
    <3> QED
      BY <1>3, <3>2, <3>3
  <2>2. ASSUME NEW q, Old(q) PROVE q \in PostsIn(v, f, M)
    BY <1>3, <1>5, <2>2
  <2>3. ASSUME NEW q, U > 0, q = Doc(f, c, U) PROVE q \in PostsIn(v, f, M)
    BY <1>3, <1>5, <1>7, <1>8, <2>3
  <2> QED
    BY <2>1, <2>2, <2>3
<1>11. \A q : Old(q) => q.file_id = f /\ q.doc_id \in 0 .. c /\ q.doc_id # c
  BY <1>6, <1>7
<1> HIDE DEF Old
<1>12. ASSUME NEW q \in PostsIn(v, f, L)
       PROVE  /\ q.file_id = f /\ q.doc_id \in 0 .. c
              /\ q.doc_id = c => q = Doc(f, c, T) /\ T > 0
  <2>1. c \in 0 .. c
    BY <1>1
  <2> QED
    BY <1>6, <1>9, <1>11, <2>1
<1>13. T > 0 => Doc(f, c, T) \in PostsIn(v, f, L)
  BY <1>9
<1>14. v # w => PostsIn(v, f, M) = PostsIn(v, f, L)
  BY <1>4, <1>9, <1>10
<1>15. ASSUME v = w, T = 0
       PROVE  PostsIn(v, f, M) = PostsIn(v, f, L) \cup {Doc(f, c, 1)}
  <2>1. U = 1 /\ U > 0 /\ ~(T > 0)
    BY <1>4, <1>15
  <2> QED
    BY <1>9, <1>10, <2>1
<1>16. ASSUME v = w, T > 0
       PROVE  PostsIn(v, f, M) = (PostsIn(v, f, L) \ {Doc(f, c, T)}) \cup {Doc(f, c, T + 1)}
  <2>1. U = T + 1 /\ U > 0
    BY <1>4, <1>16
  <2>2. \A q : Old(q) => q # Doc(f, c, T)
    BY <1>6, <1>11
  <2> QED
    BY <1>9, <1>10, <1>16, <2>1, <2>2
<1> QED
  BY <1>4, <1>12, <1>13, <1>14, <1>15, <1>16 DEF L, M, y, c, T

-----------------------------------------------------------------------------
(* Posting lists *)

\* What Insert makes of the posting list of its word.
Inserted(pl, f, d) == IF pl = NoList THEN CreatePostingList(f, d) ELSE AddPost(pl, f, d)

\* No two posts of a sorted list are equal.
LEMMA SortedDistinct ==
  ASSUME NEW posts \in Seq(Post), Sorted(posts)
  PROVE  IsInjective(posts)
<1>1. DOMAIN posts = 1 .. Len(posts) /\ Len(posts) \in Nat
      /\ \A i \in 1 .. Len(posts) : posts[i] \in Post
  OBVIOUS
<1>2. \A p \in Post : p.file_id \in Int /\ p.doc_id \in Int
  BY FileAssumption DEF Post, FileIds
<1>3. \A p, q \in Post : Before(p, q) => p # q
  BY <1>2 DEF Before
<1>4. \A i, j \in 1 .. Len(posts) : i # j => i < j \/ j < i
  BY <1>1
<1>5. \A i, j \in 1 .. Len(posts) : i # j => posts[i] # posts[j]
  BY <1>1, <1>3, <1>4 DEF Sorted
<1> QED
  BY <1>1, <1>5 DEF IsInjective

\* A post at the front of a list that is sorted and holds older documents only.
LEMMA PostInFront ==
  ASSUME NEW posts \in Seq(Post), Sorted(posts), NEW p \in Post,
         \A q \in ToSet(posts) : Before(q, p)
  PROVE  LET s == <<p>> \o posts
         IN s \in Seq(Post) /\ s # <<>> /\ Len(s) = Len(posts) + 1 /\ Sorted(s)
            /\ ToSet(s) = ToSet(posts) \cup {p}
<1> DEFINE s == <<p>> \o posts
           n == Len(posts)
<1>1. /\ n \in Nat /\ DOMAIN posts = 1 .. n /\ s \in Seq(Post) /\ Len(s) = n + 1
      /\ DOMAIN s = 1 .. n + 1 /\ s[1] = p /\ \A i \in 2 .. n + 1 : s[i] = posts[i-1]
  OBVIOUS
<1> HIDE DEF s
<1>2. /\ \A i \in 1 .. n + 1 : i = 1 \/ (i \in 2 .. n + 1 /\ i - 1 \in 1 .. n)
      /\ \A i \in 1 .. n : i + 1 \in 2 .. n + 1 /\ i + 1 \in 1 .. n + 1 /\ (i + 1) - 1 = i
      /\ 1 \in 1 .. n + 1
  BY <1>1
<1>3. ToSet(s) = ToSet(posts) \cup {p}
  <2>1. \A e : e \in ToSet(s) <=> \E i \in 1 .. n + 1 : s[i] = e
    BY <1>1 DEF ToSet
  <2>2. \A e : e \in ToSet(posts) <=> \E i \in 1 .. n : posts[i] = e
    BY <1>1 DEF ToSet
  <2>3. \A e : e \in ToSet(s) => e \in ToSet(posts) \cup {p}
    BY <1>1, <1>2, <2>1, <2>2
  <2>4. ASSUME NEW e \in ToSet(posts) PROVE e \in ToSet(s)
    <3>1. PICK i \in 1 .. n : posts[i] = e
      BY <2>2
    <3>2. i + 1 \in 1 .. n + 1 /\ s[i+1] = e
      BY <1>1, <1>2, <3>1
    <3> QED
      BY <2>1, <3>2
  <2>5. p \in ToSet(s)
    BY <1>1, <1>2, <2>1
  <2> QED
    BY <2>3, <2>4, <2>5
<1>4. ASSUME NEW i \in 1 .. n + 1, NEW j \in 1 .. n + 1, i < j PROVE Before(s[j], s[i])
  <2>1. j \in 2 .. n + 1 /\ j - 1 \in 1 .. n /\ s[j] = posts[j-1]
    BY <1>1, <1>2, <1>4
  <2>2. CASE i = 1
    <3>1. s[j] \in ToSet(posts)
      BY <1>1, <2>1 DEF ToSet
    <3> QED
      BY <1>1, <2>2, <3>1
  <2>3. CASE i # 1
    <3>1. i - 1 \in 1 .. n /\ s[i] = posts[i-1] /\ i - 1 < j - 1
      BY <1>1, <1>2, <1>4, <2>3
    <3> QED
      BY <2>1, <3>1 DEF Sorted
  <2> QED
    BY <2>2, <2>3
<1>5. Sorted(s)
  BY <1>1, <1>4 DEF Sorted
<1>6. s # <<>>
  BY <1>1
<1> QED
  BY <1>1, <1>3, <1>5, <1>6 DEF s

\* One more occurrence in the first post.
LEMMA FirstPostMore ==
  ASSUME NEW posts \in Seq(Post), Sorted(posts), posts # <<>>
  PROVE  LET p == posts[1]
             s == [posts EXCEPT ![1].recurrence = @ + 1]
             q == [p EXCEPT !.recurrence = @ + 1]
         IN s \in Seq(Post) /\ s # <<>> /\ Len(s) = Len(posts) /\ Sorted(s)
            /\ ToSet(s) = (ToSet(posts) \ {p}) \cup {q}
<1> DEFINE p == posts[1]
           s == [posts EXCEPT ![1].recurrence = @ + 1]
           q == [p EXCEPT !.recurrence = @ + 1]
           n == Len(posts)
<1>1. /\ n \in Nat /\ n > 0 /\ 1 \in 1 .. n /\ DOMAIN posts = 1 .. n /\ p \in Post
      /\ \A i \in 1 .. n : posts[i] \in Post
  OBVIOUS
<1>2. q \in Post /\ q.file_id = p.file_id /\ q.doc_id = p.doc_id
  BY <1>1 DEF Post
<1>3. /\ s = [i \in 1 .. n |-> IF i = 1 THEN q ELSE posts[i]]
      /\ DOMAIN s = 1 .. n
  BY <1>1
<1> HIDE DEF q, s, n
<1>4. /\ s \in Seq(Post) /\ Len(s) = n
      /\ s[1] = q /\ \A i \in 1 .. n : i # 1 => s[i] = posts[i]
  BY <1>1, <1>2, <1>3
<1>5. Sorted(s)
  <2>1. ASSUME NEW i \in 1 .. n, NEW j \in 1 .. n, i < j PROVE Before(s[j], s[i])
    <3>1. j # 1 /\ s[j] = posts[j] /\ Before(posts[j], posts[i])
      BY <1>1, <1>4, <2>1 DEF Sorted, n
    <3>2. s[i].file_id = posts[i].file_id /\ s[i].doc_id = posts[i].doc_id
      BY <1>2, <1>4
    <3> QED
      BY <3>1, <3>2 DEF Before
  <2> QED
    BY <1>4, <2>1 DEF Sorted
<1>6. \A i, j \in 1 .. n : posts[i] = posts[j] => i = j
  BY <1>1, SortedDistinct DEF IsInjective
<1>7. ToSet(s) = (ToSet(posts) \ {p}) \cup {q}
  <2>1. \A e : e \in ToSet(s) <=> \E i \in 1 .. n : s[i] = e
    BY <1>3 DEF ToSet
  <2>2. \A e : e \in ToSet(posts) <=> \E i \in 1 .. n : posts[i] = e
    BY <1>1 DEF ToSet
  <2>3. \A e : e \in ToSet(s) => e \in (ToSet(posts) \ {p}) \cup {q}
    BY <1>1, <1>4, <1>6, <2>1, <2>2
  <2>4. ASSUME NEW e \in ToSet(posts) \ {p} PROVE e \in ToSet(s)
    <3>1. PICK i \in 1 .. n : posts[i] = e
      BY <2>2
    <3> QED
      BY <1>4, <2>1, <2>4, <3>1
  <2>5. q \in ToSet(s)
    BY <1>1, <1>4, <2>1
  <2> QED
    BY <2>3, <2>4, <2>5
<1>8. s # <<>>
  BY <1>1, <1>4
<1> QED
  BY <1>4, <1>5, <1>7, <1>8 DEF n, q, s

\* A word in document d of file f is counted in the post of that document, if there
\* is one, and in a new one otherwise, provided the list is sorted and has no posts
\* of later documents: AddPost finds the post in front if it is there at all.
LEMMA InsertedKeeps ==
  ASSUME NEW pl \in PostingList, NEW f \in FileIds, NEW d \in Nat, Sorted(pl.post),
         pl # NoList => pl.post # <<>>,
         \A q \in ToSet(pl.post) : Before(q, Doc(f, d, 1)) \/ (q.file_id = f /\ q.doc_id = d)
  PROVE  LET n == Inserted(pl, f, d)
         IN /\ n \in PostingList /\ n.post # <<>> /\ Sorted(n.post)
            /\ n.term_frequency = pl.term_frequency + 1
            /\ pl.doc_frequency = Len(pl.post) => n.doc_frequency = Len(n.post)
            /\ \A r : Doc(f, d, r) \in ToSet(pl.post) =>
                 ToSet(n.post) = (ToSet(pl.post) \ {Doc(f, d, r)}) \cup {Doc(f, d, r + 1)}
            /\ (\A r : Doc(f, d, r) \notin ToSet(pl.post)) =>
                 ToSet(n.post) = ToSet(pl.post) \cup {Doc(f, d, 1)}
<1> DEFINE n == Inserted(pl, f, d)
           p == Doc(f, d, 1)
           posts == pl.post
<1>1. /\ posts \in Seq(Post) /\ pl.term_frequency \in Nat /\ pl.doc_frequency \in Nat
      /\ pl = [term_frequency |-> pl.term_frequency, doc_frequency |-> pl.doc_frequency,
               post |-> posts]
  BY DEF PostingList
<1>2. p \in Post /\ p = CreatePost(f, d)
  BY DEF Post, Doc, CreatePost
<1>3. \A e : e \in ToSet(posts) <=> \E i \in 1 .. Len(posts) : posts[i] = e
  BY <1>1 DEF ToSet
<1>4. f \in Int /\ d \in Int /\ \A q \in Post : q.file_id \in Int /\ q.doc_id \in Int
  BY FileAssumption DEF Post, FileIds
<1>5. \A r : Doc(f, d, r).file_id = f /\ Doc(f, d, r).doc_id = d
              /\ Doc(f, d, r).recurrence = r
  BY DEF Doc
<1>6. CASE pl = NoList
  <2>1. posts = <<>> /\ pl.term_frequency = 0 /\ pl.doc_frequency = 0
    BY <1>6 DEF NoList
  <2>2. ToSet(posts) = {} /\ Sorted(posts)
    BY <2>1, <1>3 DEF Sorted
  <2>3. n = [term_frequency |-> 1, doc_frequency |-> 1, post |-> <<p>>]
    BY <1>2, <1>6 DEF Inserted, CreatePostingList
  <2>4. /\ <<p>> \in Seq(Post) /\ Len(<<p>>) = 1 /\ <<p>> # <<>>
        /\ ToSet(<<p>>) = {p}
    BY <1>2 DEF ToSet
  <2>5. Sorted(<<p>>)
    BY <2>4 DEF Sorted
  <2> HIDE DEF n, p
  <2>6. n \in PostingList
    BY <2>3, <2>4 DEF PostingList
  <2>7. n.post = <<p>> /\ n.term_frequency = 1 /\ n.doc_frequency = 1
    BY <2>3
  <2>8. n.term_frequency = pl.term_frequency + 1 /\ n.doc_frequency = Len(n.post)
    BY <2>1, <2>4, <2>7
  <2>9. ToSet(n.post) = ToSet(posts) \cup {p}
    BY <2>2, <2>4, <2>7
  <2> QED
    BY <2>2, <2>4, <2>5, <2>6, <2>7, <2>8, <2>9 DEF n, p
<1>7. CASE pl # NoList /\ posts[1].doc_id = d /\ posts[1].file_id = f
  <2>1. /\ posts # <<>> /\ 1 \in 1 .. Len(posts) /\ posts[1] \in Post
        /\ \A i \in 1 .. Len(posts) : posts[i] \in Post
    BY <1>1, <1>7
  <2> DEFINE s == [posts EXCEPT ![1].recurrence = @ + 1]
             k == posts[1].recurrence
  <2>2. posts[1] = Doc(f, d, k) /\ [posts[1] EXCEPT !.recurrence = @ + 1] = Doc(f, d, k + 1)
    BY <1>7, <2>1 DEF Post, Doc
  <2>3. /\ s \in Seq(Post) /\ s # <<>> /\ Len(s) = Len(posts) /\ Sorted(s)
        /\ ToSet(s) = (ToSet(posts) \ {Doc(f, d, k)}) \cup {Doc(f, d, k + 1)}
    BY <1>1, <2>1, <2>2, FirstPostMore
  <2>4. n = [term_frequency |-> pl.term_frequency + 1, doc_frequency |-> pl.doc_frequency,
             post |-> s]
    BY <1>1, <1>7 DEF Inserted, AddPost
  <2>5. \A r : Doc(f, d, r) \in ToSet(posts) => r = k
    <3>1. ASSUME NEW r, Doc(f, d, r) \in ToSet(posts) PROVE r = k
      <4>1. PICK i \in 1 .. Len(posts) : posts[i] = Doc(f, d, r)
        BY <1>3, <3>1
      <4>2. ~Before(posts[i], posts[1])
        BY <1>4, <1>5, <1>7, <4>1 DEF Before
      <4>3. i = 1
        BY <2>1, <4>2 DEF Sorted
      <4> QED
        BY <1>5, <4>1, <4>3
    <3> QED
      BY <3>1
  <2>6. Doc(f, d, k) \in ToSet(posts)
    BY <1>3, <2>1, <2>2
  <2> HIDE DEF n, s, k
  <2>7. n \in PostingList
    BY <1>1, <2>3, <2>4 DEF PostingList
  <2>8. /\ n.post = s /\ n.term_frequency = pl.term_frequency + 1
        /\ n.doc_frequency = pl.doc_frequency
    BY <2>4
  <2> QED
    BY <2>3, <2>5, <2>6, <2>7, <2>8 DEF n
<1>8. CASE pl # NoList /\ ~(posts[1].doc_id = d /\ posts[1].file_id = f)
  <2>1. /\ posts # <<>> /\ 1 \in 1 .. Len(posts)
        /\ \A i \in 1 .. Len(posts) : posts[i] \in Post
    BY <1>1, <1>8
  <2>2. \A q \in ToSet(posts) : Before(q, p)
    <3>1. posts[1] \in ToSet(posts) /\ posts[1] \in Post
      BY <1>3, <2>1
    <3>2. Before(posts[1], p)
      BY <1>8, <3>1
    <3>3. ASSUME NEW i \in 1 .. Len(posts), i # 1 PROVE Before(posts[i], p)
      <4>1. Before(posts[i], posts[1]) /\ posts[i] \in Post
        BY <2>1, <3>3 DEF Sorted
      <4> QED
        BY <1>2, <1>4, <3>1, <3>2, <4>1 DEF Before
    <3> QED
      BY <1>3, <3>2, <3>3
  <2> DEFINE s == <<p>> \o posts
  <2>3. /\ s \in Seq(Post) /\ s # <<>> /\ Len(s) = Len(posts) + 1 /\ Sorted(s)
        /\ ToSet(s) = ToSet(posts) \cup {p}
    <3> HIDE DEF p
    <3> QED
      BY <1>1, <1>2, <2>2, PostInFront
  <2>4. n = [term_frequency |-> pl.term_frequency + 1,
             doc_frequency |-> pl.doc_frequency + 1, post |-> s]
    <3>1. AddPost(pl, f, d) = [pl EXCEPT !.term_frequency = @ + 1, !.doc_frequency = @ + 1,
                                         !.post = <<p>> \o @]
      BY <1>2, <1>8 DEF AddPost
    <3>2. n = AddPost(pl, f, d)
      BY <1>8 DEF Inserted
    <3> QED
      BY <1>1, <3>1, <3>2
  <2>5. \A r : Doc(f, d, r) \notin ToSet(posts)
    BY <1>4, <1>5, <2>2 DEF Before
  <2> HIDE DEF n, s, p
  <2>6. n \in PostingList
    BY <1>1, <2>3, <2>4 DEF PostingList
  <2>7. /\ n.post = s /\ n.term_frequency = pl.term_frequency + 1
        /\ n.doc_frequency = pl.doc_frequency + 1
    BY <2>4
  <2> QED
    BY <2>3, <2>5, <2>6, <2>7 DEF n, p
<1> QED
  BY <1>6, <1>7, <1>8

-----------------------------------------------------------------------------
(* The text *)

\* Containing and AllPlaces of a text.
TextPosts(T, w)  == UNION {PostsIn(w, f, NonEmpty(T[f])) : f \in FileIds}
TextPlaces(T, W) == UNION {{f} \X PlacesIn(W, NonEmpty(T[f])) : f \in FileIds}

\* The posts and places of the properties are those of text, before and after a
\* step.
LEMMA OfTheText ==
  /\ \A w : Containing(w) = TextPosts(text, w) /\ Containing(w)' = TextPosts(text', w)
  /\ \A W : AllPlaces(W) = TextPlaces(text, W) /\ AllPlaces(W)' = TextPlaces(text', W)
BY DEF Containing, PostOf, Lines, TextPosts, PostsIn, NonEmpty, AllPlaces, Places,
       TextPlaces, PlacesIn

\* The elements of TextPosts and TextPlaces, one by one.
LEMMA TextMembers ==
  ASSUME NEW T
  PROVE  /\ \A w, q : q \in TextPosts(T, w) <=>
              \E f \in FileIds : q \in PostsIn(w, f, NonEmpty(T[f]))
         /\ \A W, e : e \in TextPlaces(T, W) <=>
              \E f \in FileIds : \E d \in PlacesIn(W, NonEmpty(T[f])) : e = <<f, d>>
BY DEF TextPosts, TextPlaces

\* Nothing is found in no lines.
LEMMA NothingInNoLines ==
  \A w, f, W : PostsIn(w, f, <<>>) = {} /\ PlacesIn(W, <<>>) = {}
<1>1. DOMAIN <<>> = {}
  OBVIOUS
<1> QED
  BY <1>1 DEF PostsIn, PlacesIn

\* p are the lines read, x the current one: what LoadFile knows about them.
Current(p, x) ==
  /\ file \in FileIds /\ text[file] \in Seq(Seq(Words))
  /\ Described(p, x)
  /\ current = Len(NonEmpty(p)) /\ currentWords = Len(x)
  /\ Len(text[file]) = Len(p) + 1
  /\ NonEmpty(text[file]) = WithLast(NonEmpty(p), x)
  /\ Documents = LineLengths(NonEmpty(text[file]))

\* While a file is read there are lines read and a current one.
LEMMA CurrentLine ==
  ASSUME TypeOK, MapsInv, reading
  PROVE  \E p \in Seq(Seq(Words)), x \in Seq(Words) : Current(p, x)
<1> DEFINE t == text[file]
           p == Front(t)
           x == t[Len(t)]
           N == NonEmpty(p)
<1>1. file \in FileIds
  BY FileAssumption DEF TypeOK, FileIds
<1>2. t \in Seq(Seq(Words)) /\ t # <<>> /\ Described(p, x)
  BY <1>1 DEF TypeOK, MapsInv
<1>3. /\ p \in Seq(Seq(Words)) /\ x \in Seq(Words) /\ t = Append(p, x)
      /\ Len(t) = Len(p) + 1
  <2> DEFINE A == Seq(Words)
  <2>1. t \in Seq(A)
    BY <1>2
  <2> HIDE DEF A, t
  <2>2. Front(t) \in Seq(A) /\ t[Len(t)] \in A /\ t = Append(Front(t), t[Len(t)])
    BY <1>2, <2>1, FrontAndLast
  <2>3. Len(t) = Len(Front(t)) + 1
    BY <2>2
  <2> QED
    BY <2>2, <2>3 DEF A
<1> HIDE DEF p, x, t
<1>4. /\ N \in Seq(Seq(Words))
      /\ x = <<>> => NonEmpty(t) = N
      /\ x # <<>> => NonEmpty(t) = Append(N, x)
  BY <1>3, NonEmptyLines
<1> HIDE DEF N
<1>5. /\ LineLengths(N) \in Seq(Nat) /\ Len(LineLengths(N)) = Len(N) /\ Len(N) \in Nat
      /\ LineLengths(Append(N, x)) = Append(LineLengths(N), Len(x))
      /\ Len(x) \in Nat /\ (Len(x) = 0 <=> x = <<>>)
  BY <1>3, <1>4, LengthsOfLines
<1>6. doc_lenght[file] = Append(LineLengths(N), Len(x))
  BY <1>2 DEF Described, N
<1>7. /\ Len(doc_lenght[file]) = Len(N) + 1 /\ doc_lenght[file][Len(N) + 1] = Len(x)
      /\ Front(doc_lenght[file]) = LineLengths(N)
  BY <1>5, <1>6, FrontAndLast
<1>8. current = Len(N) /\ currentWords = Len(x)
  BY <1>5, <1>7 DEF current, currentWords
<1>9. Documents = LineLengths(NonEmpty(t))
  BY <1>4, <1>5, <1>6, <1>7, <1>8 DEF Documents
<1>10. NonEmpty(t) = WithLast(N, x)
  BY <1>4 DEF WithLast
<1>11. Current(p, x)
  BY <1>1, <1>2, <1>3, <1>8, <1>9, <1>10 DEF Current, t, N
<1> QED
  BY <1>3, <1>11

-----------------------------------------------------------------------------
(* The steps *)

\* Nothing has been read, nothing is in the index.
LEMMA IndexInit == Init => IndexInv
<1> SUFFICES ASSUME Init PROVE IndexInv
  OBVIOUS
<1> USE DEF Init
<1>1. TypeOK
  <2>1. NoList \in PostingList
    BY DEF NoList, PostingList
  <2>2. plist \in [Words -> PostingList]
    BY <2>1
  <2>3. numFiles \in Nat /\ 0 \in 0 .. numFiles /\ 0 < numFiles
    BY FileAssumption
  <2>4. text \in [FileIds -> Seq(Seq(Words))] /\ doc_lenght \in [FileIds -> Seq(Nat)]
    OBVIOUS
  <2> QED
    BY <2>2, <2>3, <2>4 DEF TypeOK
<1>2. \A f \in FileIds : text[f] = <<>> /\ NonEmpty(text[f]) = <<>>
  BY NoLines
<1>3. MapsInv
  <2>1. \A f \in FileIds : doc_lenght[f] = <<>> /\ ~(f < 0)
    BY FileAssumption DEF FileIds
  <2> QED
    BY <1>2, <2>1 DEF MapsInv
<1>4. (\A w : Containing(w) = {}) /\ (\A W : AllPlaces(W) = {})
  <2>1. (\A w : TextPosts(text, w) = {}) /\ (\A W : TextPlaces(text, W) = {})
    <3>1. \A w, q : q \notin TextPosts(text, w)
      BY <1>2, TextMembers, NothingInNoLines
    <3>2. \A W, e : e \notin TextPlaces(text, W)
      BY <1>2, TextMembers, NothingInNoLines
    <3> QED
      BY <3>1, <3>2
  <2> QED
    BY <2>1, OfTheText
<1>5. IsFiniteSet({}) /\ Cardinality({}) = 0
  BY FS_EmptySet
<1>6. PostsInv
  <2>1. \A w \in Words : plist[w] = NoList
    OBVIOUS
  <2>2. /\ NoList.post = <<>> /\ NoList.doc_frequency = 0 /\ NoList.term_frequency = 0
        /\ Len(<<>>) = 0 /\ Sorted(<<>>) /\ ToSet(<<>>) = {}
    BY DEF NoList, Sorted, ToSet
  <2> QED
    BY <1>4, <1>5, <2>1, <2>2 DEF PostsInv
<1>7. WordsInv
  BY <1>4, <1>5 DEF WordsInv
<1> QED
  BY <1>1, <1>3, <1>6, <1>7 DEF IndexInv

\* As long as the lines with words and the posting lists stay, the index describes
\* the text.
LEMMA SameLines ==
  ASSUME PostsInv, WordsInv, UNCHANGED <<plist, WORDS_IN_FILES>>,
         \A f \in FileIds : NonEmpty(text'[f]) = NonEmpty(text[f])
  PROVE  PostsInv' /\ WordsInv'
<1>1. \A w : TextPosts(text', w) = TextPosts(text, w)
  BY DEF TextPosts
<1>2. \A W : TextPlaces(text', W) = TextPlaces(text, W)
  BY DEF TextPlaces
<1>3. \A w : Containing(w)' = Containing(w)
  BY <1>1, OfTheText
<1>4. \A W : AllPlaces(W)' = AllPlaces(W)
  BY <1>2, OfTheText
<1>5. PostsInv'
  BY <1>3, <1>4 DEF PostsInv
<1>6. WordsInv'
  BY <1>4 DEF WordsInv
<1> QED
  BY <1>5, <1>6

\* What a step has to leave behind while it reads.
LEMMA StillReading ==
  ASSUME NEW p \in Seq(Seq(Words)), NEW x \in Seq(Words), Described(p, x)'
  PROVE  /\ (text[file] # <<>>)'
         /\ Described(Front(text[file]), text[file][Len(text[file])])'
<1>1. text'[file'] = Append(p, x)
  BY DEF Described
<1>2. /\ Front(Append(p, x)) = p /\ Append(p, x) # <<>>
      /\ Append(p, x)[Len(Append(p, x))] = x
  <2> DEFINE A == Seq(Words)
  <2>1. p \in Seq(A) /\ x \in A
    OBVIOUS
  <2> HIDE DEF A
  <2> QED
    BY <2>1, FrontAndLast
<1>3. Front(text'[file']) = p /\ text'[file'][Len(text'[file'])] = x /\ text'[file'] # <<>>
  BY <1>1, <1>2
<1> QED
  BY <1>3

\* LoadFile begins with an empty document for the first line.
LEMMA OpenFileKeeps == IndexInv /\ OpenFile => IndexInv'
<1> SUFFICES ASSUME IndexInv, OpenFile PROVE IndexInv'
  OBVIOUS
<1> USE DEF OpenFile
<1>1. file \in FileIds /\ TypeOK /\ numFiles \in Nat /\ file \in Nat
  BY FileAssumption DEF IndexInv, TypeOK, FileIds
<1>2. /\ text' \in [FileIds -> Seq(Seq(Words))] /\ text'[file] = << <<>> >>
      /\ \A f \in FileIds : f # file => text'[f] = text[f]
  BY <1>1 DEF TypeOK
<1>3. /\ doc_lenght' \in [FileIds -> Seq(Nat)] /\ doc_lenght'[file] = <<0>>
      /\ \A f \in FileIds : f # file => doc_lenght'[f] = doc_lenght[f]
  BY <1>1 DEF TypeOK
<1>4. TypeOK'
  BY <1>1, <1>2, <1>3 DEF TypeOK
<1>5. text[file] = <<>>
  BY <1>1 DEF IndexInv, MapsInv
<1>6. <<>> \in Seq(Words) /\ << <<>> >> = Append(<<>>, <<>>) /\ <<>> \in Seq(Seq(Words))
      /\ Len(<<>>) = 0 /\ <<0>> = Append(<<>>, 0)
  OBVIOUS
<1>7. NonEmpty(<< <<>> >>) = NonEmpty(<<>>)
  BY <1>6, NonEmptyLines
<1>8. \A f \in FileIds : NonEmpty(text'[f]) = NonEmpty(text[f])
  BY <1>2, <1>5, <1>7
<1>9. PostsInv' /\ WordsInv'
  BY <1>8, SameLines DEF IndexInv
<1>10. Described(<<>>, <<>>)'
  <2>1. text'[file'] = Append(<<>>, <<>>) /\ doc_lenght'[file'] = Append(<<>>, 0)
    BY <1>2, <1>3, <1>6
  <2> QED
    BY <1>6, <2>1, NoLines DEF Described
<1>11. /\ (text[file] # <<>>)'
       /\ Described(Front(text[file]), text[file][Len(text[file])])'
  BY <1>6, <1>10, StillReading
<1>12. \A f \in FileIds : f < file => f # file
  BY <1>1 DEF FileIds
<1>13. \A f \in FileIds : f > file => f # file
  BY <1>1 DEF FileIds
<1>14. MapsInv'
  <2>1. \A f \in FileIds : f < file' => doc_lenght'[f] = LineLengths(NonEmpty(text'[f]))
    BY <1>2, <1>3, <1>12 DEF IndexInv, MapsInv
  <2>2. \A f \in FileIds : f > file' \/ (f = file' /\ ~reading') =>
          text'[f] = <<>> /\ doc_lenght'[f] = <<>>
    BY <1>2, <1>3, <1>13 DEF IndexInv, MapsInv
  <2> QED
    BY <1>11, <2>1, <2>2 DEF MapsInv
<1> QED
  BY <1>4, <1>9, <1>14 DEF IndexInv

\* A file is done when its map describes it.
LEMMA FileDone ==
  ASSUME TypeOK, MapsInv, file < numFiles, file' = file + 1, ~reading',
         UNCHANGED text, doc_lenght'[file] = LineLengths(NonEmpty(text[file])),
         \A f \in FileIds : f # file => doc_lenght'[f] = doc_lenght[f]
  PROVE  MapsInv'
<1>1. file \in Nat /\ \A f \in FileIds : f \in Nat
  BY FileAssumption DEF TypeOK, FileIds
<1>2. ASSUME NEW f \in FileIds, f < file' PROVE doc_lenght'[f] = LineLengths(NonEmpty(text'[f]))
  <2>1. f < file \/ f = file
    BY <1>1, <1>2
  <2>2. f < file => f # file
    BY <1>1
  <2> QED
    BY <2>1, <2>2 DEF MapsInv
<1>3. ASSUME NEW f \in FileIds, f > file' \/ f = file'
      PROVE  text'[f] = <<>> /\ doc_lenght'[f] = <<>>
  <2>1. f > file /\ f # file
    BY <1>1, <1>3
  <2> QED
    BY <2>1 DEF MapsInv
<1> QED
  BY <1>2, <1>3 DEF MapsInv

\* A file that is skipped has no text and no documents.
LEMMA SkipFileKeeps == IndexInv /\ SkipFile => IndexInv'
<1> SUFFICES ASSUME IndexInv, SkipFile PROVE IndexInv'
  OBVIOUS
<1> USE DEF SkipFile
<1>1. file \in FileIds /\ TypeOK /\ numFiles \in Nat /\ file \in Nat
  BY FileAssumption DEF IndexInv, TypeOK, FileIds
<1>2. TypeOK'
  BY <1>1 DEF TypeOK
<1>3. PostsInv' /\ WordsInv'
  BY SameLines DEF IndexInv
<1>4. text[file] = <<>> /\ doc_lenght[file] = <<>>
  BY <1>1 DEF IndexInv, MapsInv
<1>5. doc_lenght'[file] = LineLengths(NonEmpty(text[file]))
  BY <1>4, NoLines
<1>6. MapsInv'
  BY <1>1, <1>5, FileDone DEF IndexInv
<1> QED
  BY <1>2, <1>3, <1>6 DEF IndexInv

\* At the end of a file its last document is deleted if it is empty.
LEMMA EndFileKeeps == IndexInv /\ EndFile => IndexInv'
<1> SUFFICES ASSUME IndexInv, EndFile PROVE IndexInv'
  OBVIOUS
<1> USE DEF EndFile
<1>1. file \in FileIds /\ TypeOK /\ MapsInv /\ numFiles \in Nat /\ file \in Nat /\ file < numFiles
  BY FileAssumption DEF IndexInv, TypeOK, FileIds
<1>2. PICK p \in Seq(Seq(Words)), x \in Seq(Words) : Current(p, x)
  BY <1>1, CurrentLine
<1>3. Documents = LineLengths(NonEmpty(text[file])) /\ text[file] \in Seq(Seq(Words))
  BY <1>2 DEF Current
<1>4. NonEmpty(text[file]) \in Seq(Seq(Words))
  BY <1>3, NonEmptyLines
<1>5. Documents \in Seq(Nat)
  BY <1>3, <1>4, LengthsOfLines
<1>6. /\ doc_lenght' \in [FileIds -> Seq(Nat)] /\ doc_lenght'[file] = Documents
      /\ \A f \in FileIds : f # file => doc_lenght'[f] = doc_lenght[f]
  BY <1>1, <1>5 DEF TypeOK
<1>7. TypeOK'
  <2>1. file' = file + 1 /\ file + 1 \in 0 .. numFiles
    BY <1>1
  <2>2. reading' \in BOOLEAN /\ ~reading'
    OBVIOUS
  <2> QED
    BY <1>1, <1>6, <2>1, <2>2 DEF TypeOK
<1>8. PostsInv' /\ WordsInv'
  BY SameLines DEF IndexInv
<1>9. MapsInv'
  BY <1>1, <1>3, <1>6, FileDone
<1> QED
  BY <1>7, <1>8, <1>9 DEF IndexInv

\* What a step inside of a file leaves of the maps, if it describes the current one.
LEMMA InsideFile ==
  ASSUME TypeOK, MapsInv, reading, file \in FileIds, UNCHANGED <<file, reading>>,
         \A f \in FileIds : f # file => text'[f] = text[f] /\ doc_lenght'[f] = doc_lenght[f],
         NEW p \in Seq(Seq(Words)), NEW x \in Seq(Words), Described(p, x)'
  PROVE  MapsInv'
<1>1. file \in Nat /\ \A f \in FileIds : f \in Nat
  BY FileAssumption DEF TypeOK, FileIds
<1>2. /\ (text[file] # <<>>)'
      /\ Described(Front(text[file]), text[file][Len(text[file])])'
  BY StillReading
<1>3. \A f \in FileIds : f < file => f # file
  BY <1>1
<1>4. \A f \in FileIds : f > file => f # file
  BY <1>1
<1>5. \A f \in FileIds : f < file' => doc_lenght'[f] = LineLengths(NonEmpty(text'[f]))
  BY <1>3 DEF MapsInv
<1>6. \A f \in FileIds : f > file' \/ (f = file' /\ ~reading') =>
        text'[f] = <<>> /\ doc_lenght'[f] = <<>>
  BY <1>4 DEF MapsInv
<1> QED
  BY <1>2, <1>5, <1>6 DEF MapsInv

\* At the end of a line its document is deleted if it is empty, so the number of the
\* next one is the number of lines with words.
LEMMA EndLineKeeps == IndexInv /\ EndLine => IndexInv'
<1> SUFFICES ASSUME IndexInv, EndLine PROVE IndexInv'
  OBVIOUS
<1> USE DEF EndLine
<1>1. file \in FileIds /\ TypeOK /\ MapsInv /\ reading
  BY FileAssumption DEF IndexInv, TypeOK, FileIds
<1>2. PICK p \in Seq(Seq(Words)), x \in Seq(Words) : Current(p, x)
  BY <1>1, CurrentLine
<1>3. PICK t \in Seq(Seq(Words)) : text[file] = t /\ Documents = LineLengths(NonEmpty(t))
  BY <1>2 DEF Current
<1> DEFINE u == Append(t, <<>>)
<1>4. <<>> \in Seq(Words) /\ u \in Seq(Seq(Words)) /\ Len(<<>>) = 0
  BY <1>3
<1>5. NonEmpty(t) \in Seq(Seq(Words)) /\ NonEmpty(u) = NonEmpty(t)
  BY <1>3, <1>4, NonEmptyLines
<1>6. Documents \in Seq(Nat) /\ Append(Documents, 0) \in Seq(Nat)
  BY <1>3, <1>5, LengthsOfLines
<1>7. /\ doc_lenght' \in [FileIds -> Seq(Nat)] /\ doc_lenght'[file] = Append(Documents, 0)
      /\ \A f \in FileIds : f # file => doc_lenght'[f] = doc_lenght[f]
  BY <1>1, <1>6 DEF TypeOK
<1>8. /\ text' \in [FileIds -> Seq(Seq(Words))] /\ text'[file] = u
      /\ \A f \in FileIds : f # file => text'[f] = text[f]
  <2>1. text' = [text EXCEPT ![file] = u]
    BY <1>3
  <2> QED
    BY <1>1, <1>4, <2>1 DEF TypeOK
<1>9. TypeOK'
  BY <1>1, <1>7, <1>8 DEF TypeOK
<1>10. PostsInv' /\ WordsInv'
  <2>1. \A f \in FileIds : NonEmpty(text'[f]) = NonEmpty(text[f])
    BY <1>3, <1>5, <1>8
  <2> QED
    BY <2>1, SameLines DEF IndexInv
<1>11. Described(t, <<>>)'
  <2>1. text'[file'] = u /\ doc_lenght'[file'] = Append(Documents, 0)
    BY <1>7, <1>8
  <2> QED
    BY <1>3, <1>4, <2>1 DEF Described
<1>12. MapsInv'
  BY <1>1, <1>3, <1>4, <1>7, <1>8, <1>11, InsideFile
<1> QED
  BY <1>9, <1>10, <1>12 DEF IndexInv

\* A change of the last element.
LEMMA LastChanged ==
  ASSUME NEW S, NEW s \in Seq(S), NEW a \in S, NEW b \in S
  PROVE  [Append(s, a) EXCEPT ![Len(s) + 1] = b] = Append(s, b)
<1> DEFINE n == Len(s) + 1
           r == Append(s, a)
           u == [r EXCEPT ![n] = b]
           v == Append(s, b)
<1>1. /\ Len(s) \in Nat /\ r \in Seq(S) /\ DOMAIN r = 1 .. n
      /\ \A i \in 1 .. Len(s) : r[i] = s[i]
  OBVIOUS
<1>2. /\ v \in Seq(S) /\ DOMAIN v = 1 .. n /\ v[n] = b
      /\ \A i \in 1 .. Len(s) : v[i] = s[i]
  OBVIOUS
<1> HIDE DEF r, v
<1>3. v = [i \in 1 .. n |-> v[i]]
  BY <1>2
<1>4. u = [i \in 1 .. n |-> IF i = n THEN b ELSE r[i]]
  BY <1>1
<1>5. \A i \in 1 .. n : i = n \/ i \in 1 .. Len(s)
  BY <1>1
<1>6. \A i \in 1 .. n : v[i] = IF i = n THEN b ELSE r[i]
  BY <1>1, <1>2, <1>5
<1> HIDE DEF u, n
<1>7. u = v
  BY <1>3, <1>4, <1>6
<1> QED
  BY <1>7 DEF u, v, n, r

\* The step of ReadWord, in terms of the lines.
WordRead(p, x, N, w) ==
  /\ p \in Seq(Seq(Words)) /\ x \in Seq(Words) /\ N = NonEmpty(p) /\ N \in Seq(Seq(Words))
  /\ file \in FileIds /\ current = Len(N) /\ Len(N) \in Nat
  /\ NonEmpty(text[file]) = WithLast(N, x)
  /\ NonEmpty(text'[file]) = WithLast(N, Append(x, w))
  /\ \A f \in FileIds : f # file => text'[f] = text[f]
  /\ Described(p, Append(x, w))'
  /\ text' \in [FileIds -> Seq(Seq(Words))]
  /\ doc_lenght' \in [FileIds -> Seq(Nat)]
  /\ \A f \in FileIds : f # file => doc_lenght'[f] = doc_lenght[f]

\* What ReadWord does, in terms of the lines read and the current line.
LEMMA ReadWordReads ==
  ASSUME IndexInv, NEW w \in Words, ReadWord(w)
  PROVE  \E p, x, N : WordRead(p, x, N, w)
<1>0. TypeOK /\ MapsInv /\ reading
  BY DEF IndexInv, ReadWord
<1>1. file \in FileIds /\ TypeOK /\ MapsInv /\ reading
  BY <1>0, FileAssumption DEF TypeOK, FileIds
<1>2. PICK p \in Seq(Seq(Words)), x \in Seq(Words) : Current(p, x)
  BY <1>1, CurrentLine
<1>3. PICK N \in Seq(Seq(Words)) : N = NonEmpty(p)
  BY NonEmptyLines
<1> DEFINE y == Append(x, w)
<1>4. y \in Seq(Words) /\ y # <<>> /\ Len(y) = Len(x) + 1 /\ Len(x) \in Nat /\ Len(N) \in Nat
      /\ Append(p, y) \in Seq(Seq(Words)) /\ Len(p) \in Nat
  <2>1. y \in Seq(Words) /\ y # <<>> /\ Len(y) = Len(x) + 1 /\ Len(x) \in Nat
    OBVIOUS
  <2> HIDE DEF y
  <2>2. Len(N) \in Nat /\ Append(p, y) \in Seq(Seq(Words)) /\ Len(p) \in Nat
    BY <2>1
  <2> QED
    BY <2>1, <2>2
<1>5. /\ text[file] = Append(p, x) /\ Len(text[file]) = Len(p) + 1
      /\ doc_lenght[file] = Append(LineLengths(N), Len(x))
      /\ current = Len(N) /\ NonEmpty(text[file]) = WithLast(N, x)
  BY <1>2, <1>3 DEF Current, Described
<1>6. LineLengths(N) \in Seq(Nat) /\ Len(LineLengths(N)) = Len(N)
  BY LengthsOfLines
<1> HIDE DEF y
<1>7. text'[file] = Append(p, y)
  <2>1. text'[file] = [text[file] EXCEPT ![Len(text[file])] = Append(@, w)]
    BY <1>1 DEF TypeOK, ReadWord
  <2>2. text'[file] = [Append(p, x) EXCEPT ![Len(p) + 1] = Append(Append(p, x)[Len(p) + 1], w)]
    BY <1>5, <2>1
  <2>3. Append(p, x)[Len(p) + 1] = x
    OBVIOUS
  <2>4. [Append(p, x) EXCEPT ![Len(p) + 1] = y] = Append(p, y)
    <3> DEFINE A == Seq(Words)
    <3>1. p \in Seq(A) /\ x \in A /\ y \in A
      BY <1>4
    <3> HIDE DEF A
    <3> QED
      BY <3>1, LastChanged
  <2> QED
    BY <2>2, <2>3, <2>4 DEF y
<1>8. text' \in [FileIds -> Seq(Seq(Words))] /\ \A f \in FileIds : f # file => text'[f] = text[f]
  <2>1. text' = [text EXCEPT ![file] = text'[file]]
    BY <1>1 DEF TypeOK, ReadWord
  <2>2. text'[file] \in Seq(Seq(Words))
    BY <1>4, <1>7
  <2> QED
    BY <1>1, <2>1, <2>2 DEF TypeOK
<1>9. doc_lenght'[file] = Append(LineLengths(N), Len(y))
  <2> DEFINE s == LineLengths(N)
  <2>1. s \in Seq(Nat) /\ Len(s) = Len(N)
    BY <1>6
  <2> HIDE DEF s
  <2>2. doc_lenght'[file] = [doc_lenght[file] EXCEPT ![current + 1] = @ + 1]
    BY <1>1 DEF TypeOK, ReadWord
  <2>3. doc_lenght'[file] = [Append(s, Len(x)) EXCEPT ![Len(s) + 1] = @ + 1]
    BY <1>5, <2>1, <2>2 DEF s
  <2>4. Append(s, Len(x))[Len(s) + 1] = Len(x)
    BY <1>4, <2>1
  <2>5. [Append(s, Len(x)) EXCEPT ![Len(s) + 1] = Len(x) + 1] = Append(s, Len(x) + 1)
    <3> DEFINE S == Nat
               a == Len(x)
               b == Len(x) + 1
    <3>1. s \in Seq(S) /\ a \in S /\ b \in S
      BY <1>4, <2>1
    <3> HIDE DEF S, a, b
    <3>2. [Append(s, a) EXCEPT ![Len(s) + 1] = b] = Append(s, b)
      BY <3>1, LastChanged
    <3> QED
      BY <3>2 DEF a, b
  <2> QED
    BY <1>4, <2>3, <2>4, <2>5 DEF s
<1>10. /\ doc_lenght' \in [FileIds -> Seq(Nat)]
       /\ \A f \in FileIds : f # file => doc_lenght'[f] = doc_lenght[f]
  <2>1. Append(LineLengths(N), Len(y)) \in Seq(Nat)
    BY <1>4, <1>6
  <2>2. doc_lenght' = [doc_lenght EXCEPT ![file] = doc_lenght'[file]]
    BY <1>1 DEF TypeOK, ReadWord
  <2> QED
    BY <1>1, <1>9, <2>1, <2>2 DEF TypeOK
<1>11. NonEmpty(text'[file]) = WithLast(N, y)
  <2>1. NonEmpty(Append(p, y)) = Append(N, y)
    BY <1>3, <1>4, NonEmptyLines
  <2> QED
    BY <1>4, <1>7, <2>1 DEF WithLast
<1>12. Described(p, y)'
  <2>1. file' = file
    BY DEF ReadWord
  <2> QED
    BY <1>3, <1>7, <1>9, <2>1 DEF Described
<1>13. WordRead(p, x, N, w)
  BY <1>1, <1>3, <1>4, <1>5, <1>8, <1>10, <1>11, <1>12 DEF WordRead, y
<1> QED
  BY <1>13

\* Every set of words is found at one place more, or at none.
LEMMA ReadWordPlaces ==
  ASSUME NEW p, NEW x, NEW N, NEW w \in Words, WordRead(p, x, N, w), NEW W,
         IsFiniteSet(AllPlaces(W))
  PROVE  /\ IsFiniteSet(AllPlaces(W)')
         /\ w \in W => Cardinality(AllPlaces(W))' = Cardinality(AllPlaces(W)) + 1
         /\ w \notin W => Cardinality(AllPlaces(W))' = Cardinality(AllPlaces(W))
<1> DEFINE L == WithLast(N, x)
           M == WithLast(N, Append(x, w))
           d == <<Len(N) + 1, Len(x) + 1>>
           e == <<file, d>>
           Old == TextPlaces(text, W)
           New == TextPlaces(text', W)
<1>1. /\ d \notin PlacesIn(W, L)
      /\ w \in W => PlacesIn(W, M) = PlacesIn(W, L) \cup {d}
      /\ w \notin W => PlacesIn(W, M) = PlacesIn(W, L)
  <2>1. N \in Seq(Seq(Words)) /\ x \in Seq(Words)
    BY DEF WordRead
  <2> QED
    BY <2>1, OneMorePlace
<1>2. /\ file \in FileIds /\ NonEmpty(text[file]) = L /\ NonEmpty(text'[file]) = M
      /\ \A f \in FileIds : f # file => NonEmpty(text'[f]) = NonEmpty(text[f])
  BY DEF WordRead
<1>3. /\ \A c : c \in Old <=>
           \E f \in FileIds : \E b \in PlacesIn(W, NonEmpty(text[f])) : c = <<f, b>>
      /\ \A c : c \in New <=>
           \E f \in FileIds : \E b \in PlacesIn(W, NonEmpty(text'[f])) : c = <<f, b>>
  BY TextMembers
<1>4. AllPlaces(W) = Old /\ AllPlaces(W)' = New
  BY OfTheText
<1> HIDE DEF L, M, d, Old, New
<1>5. e \notin Old
  BY <1>1, <1>2, <1>3
<1>6. w \in W => New = Old \cup {e}
  <2> SUFFICES ASSUME w \in W PROVE New = Old \cup {e}
    OBVIOUS
  <2>1. \A b : b \in PlacesIn(W, M) <=> b \in PlacesIn(W, L) \/ b = d
    BY <1>1
  <2>2. ASSUME NEW c \in New PROVE c \in Old \cup {e}
    <3>1. PICK f \in FileIds : \E b \in PlacesIn(W, NonEmpty(text'[f])) : c = <<f, b>>
      BY <1>3
    <3>2. PICK b \in PlacesIn(W, NonEmpty(text'[f])) : c = <<f, b>>
      BY <3>1
    <3> QED
      BY <1>2, <1>3, <2>1, <3>2
  <2>3. ASSUME NEW c \in Old PROVE c \in New
    <3>1. PICK f \in FileIds : \E b \in PlacesIn(W, NonEmpty(text[f])) : c = <<f, b>>
      BY <1>3
    <3>2. PICK b \in PlacesIn(W, NonEmpty(text[f])) : c = <<f, b>>
      BY <3>1
    <3> QED
      BY <1>2, <1>3, <2>1, <3>2
  <2>4. e \in New
    BY <1>2, <1>3, <2>1
  <2> QED
    BY <2>2, <2>3, <2>4
<1>7. w \notin W => New = Old
  BY <1>1, <1>2, <1>3
<1>8. IsFiniteSet(Old)
  BY <1>4
<1> HIDE DEF e
<1>9. IsFiniteSet(Old \cup {e}) /\ Cardinality(Old \cup {e}) = Cardinality(Old) + 1
  BY <1>5, <1>8, FS_AddElement
<1> QED
  BY <1>4, <1>6, <1>7, <1>8, <1>9

\* The posts of a word read, and of any other.
LEMMA ReadWordPosts ==
  ASSUME IndexInv, NEW w \in Words, ReadWord(w), NEW p, NEW x, NEW N, WordRead(p, x, N, w)
  PROVE  /\ plist' \in [Words -> PostingList]
         /\ \A v \in Words : v # w => plist'[v] = plist[v] /\ Containing(v)' = Containing(v)
         /\ Sorted(plist'[w].post) /\ plist'[w].post # <<>>
         /\ ToSet(plist'[w].post) = Containing(w)'
         /\ plist'[w].doc_frequency = Len(plist'[w].post)
         /\ plist'[w].term_frequency = plist[w].term_frequency + 1
<1> DEFINE L == WithLast(N, x)
           M == WithLast(N, Append(x, w))
           c == Len(N)
           T == Times(w, x)
           pl == plist[w]
           Old(v) == TextPosts(text, v)
           New(v) == TextPosts(text', v)
<1>1. /\ N \in Seq(Seq(Words)) /\ x \in Seq(Words)
      /\ file \in FileIds /\ current = c /\ c \in Nat
      /\ NonEmpty(text[file]) = L /\ NonEmpty(text'[file]) = M
      /\ \A f \in FileIds : f # file => NonEmpty(text'[f]) = NonEmpty(text[f])
  BY DEF WordRead
<1>2. /\ \A v : Containing(v) = Old(v) /\ Containing(v)' = New(v)
      /\ \A v, q : q \in Old(v) <=> \E f \in FileIds : q \in PostsIn(v, f, NonEmpty(text[f]))
      /\ \A v, q : q \in New(v) <=> \E f \in FileIds : q \in PostsIn(v, f, NonEmpty(text'[f]))
  BY OfTheText, TextMembers
<1>3. \A v \in Words : v # w => PostsIn(v, file, M) = PostsIn(v, file, L)
  BY <1>1, OneMorePost
<1>4. /\ T \in Nat
      /\ \A q \in PostsIn(w, file, L) :
           /\ q.file_id = file /\ q.doc_id \in 0 .. c
           /\ q.doc_id = c => q = Doc(file, c, T) /\ T > 0
      /\ T > 0 => Doc(file, c, T) \in PostsIn(w, file, L)
      /\ T = 0 => PostsIn(w, file, M) = PostsIn(w, file, L) \cup {Doc(file, c, 1)}
      /\ T > 0 => PostsIn(w, file, M) =
                    (PostsIn(w, file, L) \ {Doc(file, c, T)}) \cup {Doc(file, c, T + 1)}
  BY <1>1, OneMorePost
<1>5. /\ plist \in [Words -> PostingList] /\ pl \in PostingList
      /\ ToSet(pl.post) = Old(w) /\ Sorted(pl.post)
      /\ pl.doc_frequency = Len(pl.post) /\ (pl # NoList => pl.post # <<>>)
  BY <1>2 DEF IndexInv, TypeOK, PostsInv
<1>6. reading /\ plist' = [plist EXCEPT ![w] = Inserted(pl, file, c)]
  BY <1>1, <1>5 DEF ReadWord, Insert, Inserted
<1>7. \A f \in FileIds : f > file => NonEmpty(text[f]) = <<>>
  BY NoLines DEF IndexInv, MapsInv
<1>8. \A f \in FileIds : \A L2, q : q \in PostsIn(w, f, L2) => q.file_id = f
  BY PostsMember
<1>9. \A f, d, r : Doc(f, d, r).file_id = f /\ Doc(f, d, r).doc_id = d
  BY DEF Doc
<1> HIDE DEF L, M, c, T, pl, Old, New
<1>10. ASSUME NEW v \in Words, v # w PROVE plist'[v] = plist[v] /\ New(v) = Old(v)
  <2>1. plist'[v] = plist[v]
    BY <1>5, <1>6, <1>10
  <2>2. \A f \in FileIds : PostsIn(v, f, NonEmpty(text'[f])) = PostsIn(v, f, NonEmpty(text[f]))
    BY <1>1, <1>3, <1>10
  <2>3. \A q : q \in New(v) <=> q \in Old(v)
    BY <1>2, <2>2
  <2>4. New(v) = Old(v)
    <3> DEFINE X == New(v)
               Y == Old(v)
    <3>1. (\A q : q \in X <=> q \in Y) /\ X = TextPosts(text', v) /\ Y = TextPosts(text, v)
      BY <2>3 DEF New, Old
    <3> QED
      BY <3>1 DEF TextPosts
  <2> QED
    BY <2>1, <2>4
<1>11. \A q \in Old(w) :
         Before(q, Doc(file, c, 1)) \/ (q.file_id = file /\ q.doc_id = c)
  <2>1. file \in Nat /\ \A f \in FileIds : f \in Nat /\ (f < file \/ f = file \/ f > file)
    BY <1>1 DEF FileIds
  <2>2. ASSUME NEW q \in Old(w)
        PROVE  Before(q, Doc(file, c, 1)) \/ (q.file_id = file /\ q.doc_id = c)
    <3>1. PICK f \in FileIds : q \in PostsIn(w, f, NonEmpty(text[f]))
      BY <1>2
    <3>2. q.file_id = f
      BY <1>8, <3>1
    <3>3. ~(f > file)
      BY <1>7, <3>1, NothingInNoLines
    <3>4. CASE f < file
      BY <1>9, <3>2, <3>4 DEF Before
    <3>5. CASE f = file
      <4>1. q.doc_id \in 0 .. c
        BY <1>1, <1>4, <3>1, <3>5
      <4>2. q.doc_id < c \/ q.doc_id = c
        BY <1>1, <4>1
      <4> QED
        BY <1>9, <3>2, <3>5, <4>2 DEF Before
    <3> QED
      BY <2>1, <3>3, <3>4, <3>5
  <2> QED
    BY <2>2
<1> DEFINE n == Inserted(pl, file, c)
<1>12. /\ n \in PostingList /\ n.post # <<>> /\ Sorted(n.post)
       /\ n.term_frequency = pl.term_frequency + 1
       /\ n.doc_frequency = Len(n.post)
       /\ \A r : Doc(file, c, r) \in Old(w) =>
            ToSet(n.post) = (Old(w) \ {Doc(file, c, r)}) \cup {Doc(file, c, r + 1)}
       /\ (\A r : Doc(file, c, r) \notin Old(w)) => ToSet(n.post) = Old(w) \cup {Doc(file, c, 1)}
  <2>1. \A q \in ToSet(pl.post) :
          Before(q, Doc(file, c, 1)) \/ (q.file_id = file /\ q.doc_id = c)
    BY <1>5, <1>11
  <2>2. /\ n \in PostingList /\ n.post # <<>> /\ Sorted(n.post)
        /\ n.term_frequency = pl.term_frequency + 1
        /\ pl.doc_frequency = Len(pl.post) => n.doc_frequency = Len(n.post)
        /\ \A r : Doc(file, c, r) \in ToSet(pl.post) =>
             ToSet(n.post) = (ToSet(pl.post) \ {Doc(file, c, r)}) \cup {Doc(file, c, r + 1)}
        /\ (\A r : Doc(file, c, r) \notin ToSet(pl.post)) =>
             ToSet(n.post) = ToSet(pl.post) \cup {Doc(file, c, 1)}
    BY <1>1, <1>5, <2>1, InsertedKeeps
  <2> HIDE DEF n
  <2> QED
    BY <1>5, <2>2
<1> HIDE DEF n
<1>13. \A q : q \in New(w) <=>
         \/ q \in PostsIn(w, file, M)
         \/ \E f \in FileIds : f # file /\ q \in PostsIn(w, f, NonEmpty(text[f]))
  BY <1>1, <1>2
<1>14. \A q : q \in Old(w) <=>
         \/ q \in PostsIn(w, file, L)
         \/ \E f \in FileIds : f # file /\ q \in PostsIn(w, f, NonEmpty(text[f]))
  BY <1>1, <1>2
<1>15. \A f \in FileIds : \A r : f # file => Doc(file, c, r) \notin PostsIn(w, f, NonEmpty(text[f]))
  BY <1>8, <1>9
<1>16. CASE T > 0
  <2>1. Doc(file, c, T) \in Old(w)
    BY <1>4, <1>14, <1>16
  <2>2. ToSet(n.post) = (Old(w) \ {Doc(file, c, T)}) \cup {Doc(file, c, T + 1)}
    BY <1>12, <2>1
  <2>3. \A q : q \in PostsIn(w, file, M) <=>
                 (q \in PostsIn(w, file, L) /\ q # Doc(file, c, T)) \/ q = Doc(file, c, T + 1)
    BY <1>4, <1>16
  <2>4. New(w) = (Old(w) \ {Doc(file, c, T)}) \cup {Doc(file, c, T + 1)}
    BY <1>13, <1>14, <1>15, <2>3
  <2> QED
    BY <1>2, <1>5, <1>6, <1>10, <1>12, <2>2, <2>4 DEF n, pl
<1>17. CASE T = 0
  <2>1. \A r : Doc(file, c, r) \notin Old(w)
    <3>1. \A r : Doc(file, c, r) \notin PostsIn(w, file, L)
      BY <1>4, <1>9, <1>17
    <3> QED
      BY <1>14, <1>15, <3>1
  <2>2. ToSet(n.post) = Old(w) \cup {Doc(file, c, 1)}
    BY <1>12, <2>1
  <2>3. New(w) = Old(w) \cup {Doc(file, c, 1)}
    BY <1>4, <1>13, <1>14, <1>17
  <2> QED
    BY <1>2, <1>5, <1>6, <1>10, <1>12, <2>2, <2>3 DEF n, pl
<1> QED
  BY <1>4, <1>16, <1>17

\* A word goes to the document of the current line, to its post and to the counters.
LEMMA ReadWordKeeps ==
  ASSUME IndexInv, NEW w \in Words, ReadWord(w)
  PROVE  IndexInv'
<1>1. PICK p, x, N : WordRead(p, x, N, w)
  BY ReadWordReads
<1>2. /\ TypeOK /\ MapsInv /\ reading /\ file \in FileIds
      /\ UNCHANGED <<file, reading, opened>> /\ WORDS_IN_FILES' = WORDS_IN_FILES + 1
  BY <1>1 DEF IndexInv, ReadWord, WordRead
<1>3. /\ plist' \in [Words -> PostingList]
      /\ \A v \in Words : v # w => plist'[v] = plist[v] /\ Containing(v)' = Containing(v)
      /\ Sorted(plist'[w].post) /\ plist'[w].post # <<>>
      /\ ToSet(plist'[w].post) = Containing(w)'
      /\ plist'[w].doc_frequency = Len(plist'[w].post)
      /\ plist'[w].term_frequency = plist[w].term_frequency + 1
  BY <1>1, ReadWordPosts
<1>4. ASSUME NEW W, IsFiniteSet(AllPlaces(W))
      PROVE  /\ IsFiniteSet(AllPlaces(W)')
             /\ w \in W => Cardinality(AllPlaces(W))' = Cardinality(AllPlaces(W)) + 1
             /\ w \notin W => Cardinality(AllPlaces(W))' = Cardinality(AllPlaces(W))
  BY <1>1, <1>4, ReadWordPlaces
<1>5. TypeOK'
  BY <1>1, <1>2, <1>3 DEF TypeOK, WordRead
<1>6. MapsInv'
  <2>1. /\ p \in Seq(Seq(Words)) /\ Append(x, w) \in Seq(Words)
        /\ Described(p, Append(x, w))'
        /\ \A f \in FileIds : f # file => text'[f] = text[f] /\ doc_lenght'[f] = doc_lenght[f]
    BY <1>1 DEF WordRead
  <2> QED
    BY <1>2, <2>1, InsideFile
<1>7. PostsInv'
  <2>1. ASSUME NEW v \in Words
        PROVE  /\ Sorted(plist'[v].post) /\ ToSet(plist'[v].post) = Containing(v)'
               /\ plist'[v].doc_frequency = Len(plist'[v].post)
               /\ plist'[v] # NoList => plist'[v].post # <<>>
    BY <1>3 DEF IndexInv, PostsInv
  <2>2. ASSUME NEW v \in Words
        PROVE  /\ IsFiniteSet(AllPlaces({v})')
               /\ plist'[v].term_frequency = Cardinality(AllPlaces({v}))'
    <3>1. /\ IsFiniteSet(AllPlaces({v}))
          /\ plist[v].term_frequency = Cardinality(AllPlaces({v}))
      BY DEF IndexInv, PostsInv
    <3>2. CASE v = w
      BY <1>3, <1>4, <3>1, <3>2
    <3>3. CASE v # w
      <4>1. w \notin {v}
        BY <3>3
      <4> QED
        BY <1>3, <1>4, <3>1, <3>3, <4>1
    <3> QED
      BY <3>2, <3>3
  <2> QED
    BY <2>1, <2>2 DEF PostsInv
<1>8. WordsInv'
  BY <1>2, <1>4 DEF IndexInv, WordsInv
<1> QED
  BY <1>5, <1>6, <1>7, <1>8 DEF IndexInv

\* The index describes the text that was read, in every state.
LEMMA IndexStep == IndexInv /\ [Next]_vars => IndexInv'
<1> SUFFICES ASSUME IndexInv, [Next]_vars PROVE IndexInv'
  OBVIOUS
<1>1. CASE OpenFile
  BY <1>1, OpenFileKeeps
<1>2. CASE SkipFile
  BY <1>2, SkipFileKeeps
<1>3. CASE EndLine
  BY <1>3, EndLineKeeps
<1>4. CASE EndFile
  BY <1>4, EndFileKeeps
<1>5. ASSUME NEW w \in Words, ReadWord(w) PROVE IndexInv'
  BY <1>5, ReadWordKeeps
<1>6. CASE UNCHANGED vars
  <2>1. PostsInv' /\ WordsInv'
    BY <1>6, SameLines DEF IndexInv, vars
  <2>2. TypeOK' /\ MapsInv'
    BY <1>6 DEF IndexInv, vars, TypeOK, MapsInv, Described
  <2> QED
    BY <2>1, <2>2 DEF IndexInv
<1> QED
  BY <1>1, <1>2, <1>3, <1>4, <1>5, <1>6 DEF Next

\* IndexInv, for any files, words and bounds: the posting lists, the maps and the
\* counters describe what has been read, and posting lists are sorted, later
\* documents first.
THEOREM IndexDescribesText == Spec => []IndexInv
<1> QED
  BY IndexInit, IndexStep, PTL DEF Spec

-----------------------------------------------------------------------------
(* Posts and maps *)

\* The type invariant, for any files, words and bounds: no document is ever counted
\* below none, and no word goes to a document that is not there.
THEOREM IndexTypes == Spec => []TypeOK
<1>1. IndexInv => TypeOK
  BY DEF IndexInv
<1> QED
  BY <1>1, IndexDescribesText, PTL

\* A posting list has one post for each line with its word, with the number of its
\* occurrences there, and no other: looking at the first post is enough.
THEOREM PostsAreRight == Spec => []PostsDescribeText
<1>1. IndexInv => PostsDescribeText
  <2> SUFFICES ASSUME IndexInv, NEW w \in Words
               PROVE  /\ ToSet(plist[w].post) = Containing(w)
                      /\ IsInjective(plist[w].post)
                      /\ plist[w].doc_frequency = Len(plist[w].post)
                      /\ plist[w].term_frequency = Cardinality(AllPlaces({w}))
    BY DEF PostsDescribeText
  <2>1. plist[w].post \in Seq(Post) /\ Sorted(plist[w].post)
    BY DEF IndexInv, TypeOK, PostingList, PostsInv
  <2> QED
    BY <2>1, SortedDistinct DEF IndexInv, PostsInv
<1> QED
  BY <1>1, IndexDescribesText, PTL

\* The loop of GetNumLines.
TotalsBy(v) ==
  /\ v[0] = 0 /\ \A k \in 1 .. numFiles : v[k] = v[k-1] + Len(doc_lenght[k-1])
  /\ opened = FileIds => GetNumLines = v[numFiles]

\* The sums GetNumLines is built from.
LEMMA TotalsBuilt ==
  ASSUME TypeOK
  PROVE  \E v : TotalsBy(v)
<1> DEFINE n == numFiles
           size == [k \in 1 .. n |-> Len(doc_lenght[k-1])]
           G == [p \in Nat \X Nat |-> IF p[2] \in 1 .. n THEN p[1] + size[p[2]] ELSE p[1]]
           Solves(v) == v = [k \in 0 .. n |->
                               IF k = 0 THEN 0 ELSE v[k-1] + Len(doc_lenght[k-1])]
           V == CHOOSE v : Solves(v)
<1>1. n \in Nat /\ \A k \in 1 .. n : size[k] = Len(doc_lenght[k-1]) /\ size[k] \in Nat
  <2>1. n \in Nat /\ \A k \in 1 .. n : k - 1 \in FileIds
    BY FileAssumption DEF FileIds
  <2>2. \A k \in 1 .. n : doc_lenght[k-1] \in Seq(Nat)
    BY <2>1 DEF TypeOK
  <2>3. \A k \in 1 .. n : Len(doc_lenght[k-1]) \in Nat
    BY <2>2
  <2> QED
    BY <2>1, <2>3
<1> HIDE DEF n, size
<1>2. G \in [Nat \X Nat -> Nat] /\ 0 \in Nat
  BY <1>1
<1>3. \A x \in Nat : \A k \in 1 .. n : G[<<x, k>>] = x + size[k]
  BY <1>1
<1> HIDE DEF G
<1>4. PICK f \in [0 .. n -> Nat] : Recursive(f, n, 0, G)
  BY <1>1, <1>2, Recursion
<1>5. \A k \in 1 .. n : k - 1 \in 0 .. n /\ f[k-1] \in Nat /\ k \in 0 .. n /\ k # 0
  BY <1>1
<1>6. ASSUME NEW k \in 1 .. n PROVE f[k] = f[k-1] + Len(doc_lenght[k-1])
  <2>1. f[k] = G[<<f[k-1], k>>] /\ f[k-1] \in Nat
    BY <1>4, <1>5 DEF Recursive
  <2>2. f[k] = f[k-1] + size[k]
    BY <1>3, <2>1
  <2> QED
    BY <1>1, <2>2
<1>7. Solves(f)
  <2>1. f[0] = 0 /\ \A k \in 0 .. n : k # 0 => k \in 1 .. n
    BY <1>4 DEF Recursive
  <2>2. \A k \in 0 .. n : f[k] = IF k = 0 THEN 0 ELSE f[k-1] + Len(doc_lenght[k-1])
    BY <1>6, <2>1
  <2> QED
    BY <2>2
<1>8. Solves(V)
  BY <1>7
<1>9. opened = FileIds => GetNumLines = V[n]
  BY DEF GetNumLines, n
<1>10. \A k \in 0 .. n : V[k] = IF k = 0 THEN 0 ELSE V[k-1] + Len(doc_lenght[k-1])
  BY <1>8
<1> HIDE DEF V, Solves
<1>11. 0 \in 0 .. n /\ V[0] = 0
  BY <1>1, <1>10
<1>12. \A k \in 1 .. n : V[k] = V[k-1] + Len(doc_lenght[k-1])
  BY <1>5, <1>10
<1>13. TotalsBy(V)
  BY <1>9, <1>11, <1>12 DEF TotalsBy, n
<1> QED
  BY <1>13

\* The lines without words of t.
Blank(t) == {l \in DOMAIN t : t[l] = <<>>}

\* Where the lines without words are when a line is added.
LEMMA BlankAppend ==
  ASSUME NEW t \in Seq(Seq(Words)), NEW x \in Seq(Words)
  PROVE  /\ x = <<>> => Blank(Append(t, x)) = Blank(t) \cup {Len(t) + 1}
         /\ x # <<>> => Blank(Append(t, x)) = Blank(t)
         /\ Len(t) + 1 \notin Blank(t)
<1> DEFINE u == Append(t, x)
<1>1. /\ Len(t) \in Nat /\ DOMAIN t = 1 .. Len(t) /\ DOMAIN u = (1 .. Len(t)) \cup {Len(t) + 1}
      /\ u[Len(t) + 1] = x /\ \A l \in 1 .. Len(t) : u[l] = t[l]
      /\ Len(t) + 1 \notin 1 .. Len(t)
  OBVIOUS
<1> HIDE DEF u
<1>2. x = <<>> => Blank(u) = Blank(t) \cup {Len(t) + 1}
  BY <1>1 DEF Blank
<1>3. x # <<>> => Blank(u) = Blank(t)
  BY <1>1 DEF Blank
<1>4. Len(t) + 1 \notin Blank(t)
  BY <1>1 DEF Blank
<1> QED
  BY <1>2, <1>3, <1>4 DEF u

\* A line is one with words or one without, and where there are none without
\* nothing is left out.
LinesAddUp(t) ==
  /\ IsFiniteSet(Blank(t))
  /\ Len(NonEmpty(t)) = Len(t) - Cardinality(Blank(t))
  /\ Blank(t) = {} => NonEmpty(t) = t

LEMMA OneLineMore ==
  ASSUME NEW t \in Seq(Seq(Words)), LinesAddUp(t), NEW x \in Seq(Words)
  PROVE  LinesAddUp(Append(t, x))
<1> DEFINE u == Append(t, x)
<1>1. /\ Len(t) \in Nat /\ Len(u) = Len(t) + 1
      /\ NonEmpty(t) \in Seq(Seq(Words)) /\ Len(NonEmpty(t)) \in Nat
      /\ Cardinality(Blank(t)) \in Nat
  BY NonEmptyLines, FS_CardinalityType DEF LinesAddUp
<1>2. CASE x = <<>>
  <2>1. /\ NonEmpty(u) = NonEmpty(t) /\ Blank(u) = Blank(t) \cup {Len(t) + 1}
        /\ Len(t) + 1 \notin Blank(t)
    BY <1>2, NonEmptyLines, BlankAppend
  <2> HIDE DEF u
  <2>2. IsFiniteSet(Blank(u)) /\ Cardinality(Blank(u)) = Cardinality(Blank(t)) + 1
    BY <2>1, FS_AddElement DEF LinesAddUp
  <2>3. Blank(u) # {}
    BY <2>1
  <2>4. LinesAddUp(u)
    BY <1>1, <2>1, <2>2, <2>3 DEF LinesAddUp
  <2> QED
    BY <2>4 DEF u
<1>3. CASE x # <<>>
  <2>1. /\ NonEmpty(u) = Append(NonEmpty(t), x) /\ Blank(u) = Blank(t)
    BY <1>3, NonEmptyLines, BlankAppend
  <2>2. Len(NonEmpty(u)) = Len(NonEmpty(t)) + 1
    BY <1>1, <2>1
  <2>3. Blank(u) = {} => NonEmpty(u) = u
    BY <2>1 DEF LinesAddUp
  <2> HIDE DEF u
  <2>4. LinesAddUp(u)
    BY <1>1, <2>1, <2>2, <2>3 DEF LinesAddUp
  <2> QED
    BY <2>4 DEF u
<1> QED
  BY <1>2, <1>3

LEMMA LinesCounted ==
  ASSUME NEW t \in Seq(Seq(Words))
  PROVE  LinesAddUp(t)
<1> DEFINE n == Len(t)
           Prefix(k) == SubSeq(t, 1, k)
           T == {k \in 0 .. n : LinesAddUp(Prefix(k))}
<1>1. n \in Nat
  OBVIOUS
<1>2. 0 \in T
  <2>1. Prefix(0) = <<>> /\ Len(<<>>) = 0 /\ 0 \in 0 .. n
    OBVIOUS
  <2>2. Blank(<<>>) = {}
    BY DEF Blank
  <2>3. IsFiniteSet({}) /\ Cardinality({}) = 0
    BY FS_EmptySet
  <2>4. LinesAddUp(<<>>)
    <3>1. /\ IsFiniteSet(Blank(<<>>)) /\ Cardinality(Blank(<<>>)) = 0
          /\ NonEmpty(<<>>) = <<>>
      BY <2>2, <2>3, NoLines, Zenon
    <3>2. Len(NonEmpty(<<>>)) = 0 /\ Len(<<>>) = 0
      BY <2>1, <3>1, Zenon
    <3>3. Len(NonEmpty(<<>>)) = Len(<<>>) - Cardinality(Blank(<<>>))
      <4>1. \A a, b, c : a = 0 /\ b = 0 /\ c = 0 => a = b - c
        OBVIOUS
      <4> QED
        BY <3>1, <3>2, <4>1, Zenon
    <3> QED
      BY <3>1, <3>3, Zenon DEF LinesAddUp
  <2> HIDE DEF n, Prefix
  <2> QED
    BY <2>1, <2>4
<1>3. ASSUME NEW k \in 1 .. n, k - 1 \in T PROVE k \in T
  <2>1. /\ Prefix(k - 1) \in Seq(Seq(Words)) /\ t[k] \in Seq(Words)
        /\ Prefix(k) = Append(Prefix(k - 1), t[k])
    OBVIOUS
  <2>2. LinesAddUp(Prefix(k - 1)) /\ k \in 0 .. n
    BY <1>1, <1>3
  <2> HIDE DEF Prefix
  <2>3. LinesAddUp(Prefix(k))
    BY <2>1, <2>2, OneLineMore
  <2> QED
    BY <2>2, <2>3
<1>4. Prefix(n) = t
  OBVIOUS
<1> HIDE DEF T, n
<1>5. 0 .. n \subseteq T /\ n \in 0 .. n
  <2>1. \A k \in 1 .. n : k - 1 \in T => k \in T
    BY <1>3
  <2>2. 0 .. n \subseteq T
    BY <1>1, <1>2, <2>1, UpTo
  <2> QED
    BY <1>1, <2>2
<1>6. LinesAddUp(Prefix(n))
  BY <1>5 DEF T
<1> QED
  BY <1>4, <1>6

\* The lines of a file that has been read, with the empty end behind its last
\* newline or without, are the same lines with words.
LEMMA LinesOfFile ==
  ASSUME TypeOK, NEW f \in FileIds
  PROVE  /\ FileLines(f) \in Seq(Seq(Words)) /\ LinesAddUp(FileLines(f))
         /\ NonEmpty(FileLines(f)) = Lines(f)
         /\ EmptyLines(f) = Blank(FileLines(f))
<1>1. text[f] \in Seq(Seq(Words)) /\ Lines(f) = NonEmpty(text[f])
  BY DEF TypeOK, Lines, NonEmpty
<1>2. FileLines(f) \in Seq(Seq(Words)) /\ NonEmpty(FileLines(f)) = NonEmpty(text[f])
  <2>1. CASE text[f] # <<>> /\ Last(text[f]) = <<>>
    <3>1. PICK p \in Seq(Seq(Words)) : p = Front(text[f]) /\ text[f] = Append(p, <<>>)
      BY <1>1, <2>1, FrontAndLast DEF Last
    <3>2. <<>> \in Seq(Words)
      OBVIOUS
    <3>3. \A x \in Seq(Words) : x = <<>> => NonEmpty(Append(p, x)) = NonEmpty(p)
      BY NonEmptyLines
    <3>4. NonEmpty(Append(p, <<>>)) = NonEmpty(p)
      BY <3>2, <3>3
    <3> QED
      BY <2>1, <3>1, <3>4 DEF FileLines
  <2>2. CASE ~(text[f] # <<>> /\ Last(text[f]) = <<>>)
    BY <1>1, <2>2 DEF FileLines
  <2> QED
    BY <2>1, <2>2
<1>3. EmptyLines(f) = Blank(FileLines(f))
  BY DEF EmptyLines, Blank
<1> QED
  BY <1>1, <1>2, <1>3, LinesCounted

\* The pairs of n files are as many as their second halves together.
LEMMA OneFileOfPairs ==
  ASSUME NEW S, IsFiniteSet(S), NEW f, NEW B, IsFiniteSet(B), \A e \in S : e[1] # f
  PROVE  LET T == S \cup ({f} \X B)
         IN IsFiniteSet(T) /\ Cardinality(T) = Cardinality(S) + Cardinality(B)
<1>1. IsFiniteSet({f}) /\ Cardinality({f}) = 1
  BY FS_Singleton
<1>2. IsFiniteSet({f} \X B) /\ Cardinality({f} \X B) = 1 * Cardinality(B)
  BY <1>1, FS_Product
<1>3. S \cap ({f} \X B) = {}
  OBVIOUS
<1>4. Cardinality({}) = 0 /\ Cardinality(S) \in Nat /\ Cardinality(B) \in Nat
  BY FS_EmptySet, FS_CardinalityType
<1>5. LET T == S \cup ({f} \X B)
      IN IsFiniteSet(T) /\ Cardinality(T) = Cardinality(S) + Cardinality({f} \X B) - Cardinality({})
  BY <1>2, <1>3, FS_Union
<1> QED
  BY <1>2, <1>4, <1>5

LEMMA PairsCounted ==
  ASSUME NEW n \in Nat, NEW B, \A f \in 0 .. n - 1 : IsFiniteSet(B[f])
  PROVE  LET All == UNION {{f} \X B[f] : f \in 0 .. n - 1}
         IN /\ IsFiniteSet(All)
            /\ \A v : v[0] = 0 /\ (\A k \in 1 .. n : v[k] = v[k-1] + Cardinality(B[k-1]))
                    => v[n] = Cardinality(All)
<1> DEFINE Upto(k) == UNION {{f} \X B[f] : f \in 0 .. k - 1}
           Sums(v) == v[0] = 0 /\ \A k \in 1 .. n : v[k] = v[k-1] + Cardinality(B[k-1])
           T == {k \in 0 .. n : /\ IsFiniteSet(Upto(k))
                                /\ \A v : Sums(v) => v[k] = Cardinality(Upto(k))
                                /\ \A e \in Upto(k) : e[1] \in 0 .. k - 1}
<1>1. 0 \in T
  <2>1. 0 .. 0 - 1 = {} /\ 0 \in 0 .. n
    OBVIOUS
  <2>2. Upto(0) = {}
    BY <2>1
  <2>3. IsFiniteSet({}) /\ Cardinality({}) = 0
    BY FS_EmptySet
  <2>4. \A v : Sums(v) => v[0] = 0
    OBVIOUS
  <2> HIDE DEF Upto, Sums
  <2>5. /\ IsFiniteSet(Upto(0)) /\ \A v : Sums(v) => v[0] = Cardinality(Upto(0))
        /\ \A e \in Upto(0) : e[1] \in 0 .. 0 - 1
    BY <2>2, <2>3, <2>4
  <2> QED
    BY <2>1, <2>5
<1>2. ASSUME NEW k \in 1 .. n, k - 1 \in T PROVE k \in T
  <2> DEFINE f == k - 1
  <2>1. /\ k \in 0 .. n /\ f \in Nat /\ f \in 0 .. n - 1
        /\ 0 .. k - 1 = (0 .. f - 1) \cup {f} /\ f \notin 0 .. f - 1
    OBVIOUS
  <2>2. Upto(k) = Upto(f) \cup ({f} \X B[f])
    BY <2>1
  <2>3. /\ IsFiniteSet(Upto(f)) /\ \A v : Sums(v) => v[f] = Cardinality(Upto(f))
        /\ \A e \in Upto(f) : e[1] \in 0 .. f - 1
    BY <1>2
  <2>4. \A v : Sums(v) => v[k] = v[f] + Cardinality(B[f])
    OBVIOUS
  <2> HIDE DEF Upto, Sums, f
  <2>5. /\ IsFiniteSet(Upto(k))
        /\ Cardinality(Upto(k)) = Cardinality(Upto(f)) + Cardinality(B[f])
    <3> DEFINE S == Upto(f)
    <3>1. /\ IsFiniteSet(S) /\ (\A e \in S : e[1] # f) /\ IsFiniteSet(B[f])
          /\ Upto(k) = S \cup ({f} \X B[f])
      BY <2>1, <2>2, <2>3
    <3> HIDE DEF S
    <3> DEFINE C == B[f]
    <3>2. IsFiniteSet(C) /\ Upto(k) = S \cup ({f} \X C)
      BY <3>1
    <3> HIDE DEF C
    <3>3. /\ IsFiniteSet(S \cup ({f} \X C))
          /\ Cardinality(S \cup ({f} \X C)) = Cardinality(S) + Cardinality(C)
      BY <3>1, <3>2, OneFileOfPairs
    <3> QED
      BY <3>2, <3>3 DEF S, C
  <2>6. \A e \in Upto(k) : e[1] \in 0 .. k - 1
    BY <2>1, <2>2, <2>3
  <2>7. \A v : Sums(v) => v[k] = Cardinality(Upto(k))
    BY <2>3, <2>4, <2>5
  <2> QED
    BY <2>1, <2>5, <2>6, <2>7
<1> HIDE DEF T
<1>3. 0 .. n \subseteq T /\ n \in 0 .. n
  BY <1>1, <1>2, UpTo
<1>4. IsFiniteSet(Upto(n)) /\ \A v : Sums(v) => v[n] = Cardinality(Upto(n))
  BY <1>3 DEF T
<1> QED
  BY <1>4

\* Of n files, the lines with words are as many as all lines less the others.
LEMMA LinesWithWords ==
  ASSUME TypeOK, NEW v, TotalsBy(v),
         \A f \in FileIds : Len(doc_lenght[f]) = Len(Lines(f))
  PROVE  v[numFiles] = Cardinality(AllLines) - Cardinality(AllEmptyLines)
<1> DEFINE n == numFiles
           A == [f \in FileIds |-> DOMAIN FileLines(f)]
           E == [f \in FileIds |-> EmptyLines(f)]
           B == [f \in FileIds |-> A[f] \ E[f]]
<1>1. n \in Nat /\ FileIds = 0 .. n - 1
  BY FileAssumption DEF FileIds
<1>2. ASSUME NEW f \in FileIds
      PROVE  /\ IsFiniteSet(A[f]) /\ IsFiniteSet(E[f]) /\ E[f] \subseteq A[f]
             /\ IsFiniteSet(B[f]) /\ Cardinality(B[f]) = Len(Lines(f))
  <2>1. PICK t \in Seq(Seq(Words)) : /\ t = FileLines(f) /\ LinesAddUp(t)
                                     /\ NonEmpty(t) = Lines(f) /\ EmptyLines(f) = Blank(t)
    BY LinesOfFile
  <2>2. A[f] = 1 .. Len(t) /\ Len(t) \in Nat /\ E[f] = Blank(t) /\ Blank(t) \subseteq 1 .. Len(t)
    BY <2>1 DEF Blank
  <2>3. B[f] = (1 .. Len(t)) \ Blank(t)
    BY <2>2
  <2> DEFINE m == Len(t)
  <2>4. IsFiniteSet(1 .. Len(t)) /\ Cardinality(1 .. Len(t)) = Len(t)
    <3>1. m \in Nat
      BY <2>2
    <3> HIDE DEF m
    <3>2. 1 \in Int /\ m \in Int /\ (IF 1 > m THEN 0 ELSE m - 1 + 1) = m
      BY <3>1
    <3>3. IsFiniteSet(1 .. m) /\ Cardinality(1 .. m) = m
      BY <3>2, FS_Interval
    <3> QED
      BY <3>3 DEF m
  <2>5. (1 .. Len(t)) \cap Blank(t) = Blank(t)
    BY <2>2
  <2> DEFINE I == 1 .. Len(t)
             K == Blank(t)
  <2>6. /\ IsFiniteSet((1 .. Len(t)) \ Blank(t))
        /\ Cardinality((1 .. Len(t)) \ Blank(t)) = Len(t) - Cardinality(Blank(t))
    <3>1. IsFiniteSet(I) /\ Cardinality(I) = Len(t) /\ I \cap K = K
      BY <2>4, <2>5
    <3> HIDE DEF I, K
    <3>2. IsFiniteSet(I \ K) /\ Cardinality(I \ K) = Cardinality(I) - Cardinality(I \cap K)
      BY <3>1, FS_Difference
    <3> QED
      BY <3>1, <3>2 DEF I, K
  <2> HIDE DEF A, B, E
  <2> QED
    BY <2>1, <2>2, <2>3, <2>4, <2>6 DEF LinesAddUp
<1>3. /\ AllLines = UNION {{f} \X A[f] : f \in 0 .. n - 1}
      /\ AllEmptyLines = UNION {{f} \X E[f] : f \in 0 .. n - 1}
  BY <1>1 DEF AllLines, AllEmptyLines
<1>4. UNION {{f} \X B[f] : f \in 0 .. n - 1} = AllLines \ AllEmptyLines
  BY <1>1 DEF AllLines, AllEmptyLines
<1>5. AllEmptyLines \subseteq AllLines
  <2>1. \A f \in 0 .. n - 1 : E[f] \subseteq A[f]
    BY <1>1, <1>2
  <2> HIDE DEF A, E, n
  <2> QED
    BY <1>3, <2>1
<1>6. \A k \in 1 .. n : v[k] = v[k-1] + Cardinality(B[k-1])
  <2> SUFFICES ASSUME NEW k \in 1 .. n PROVE v[k] = v[k-1] + Cardinality(B[k-1])
    OBVIOUS
  <2>1. k - 1 \in FileIds /\ v[k] = v[k-1] + Len(doc_lenght[k-1])
    BY <1>1 DEF TotalsBy
  <2> HIDE DEF B
  <2> QED
    BY <1>2, <2>1
<1>7. v[0] = 0
  BY DEF TotalsBy
<1> HIDE DEF A, B, E, n
<1>8. \A f \in 0 .. n - 1 : IsFiniteSet(A[f]) /\ IsFiniteSet(B[f])
  BY <1>1, <1>2
<1>9. IsFiniteSet(AllLines)
  BY <1>1, <1>3, <1>8, PairsCounted
<1>10. v[n] = Cardinality(AllLines \ AllEmptyLines)
  <2>1. n \in Nat /\ \A f \in 0 .. n - 1 : IsFiniteSet(B[f])
    BY <1>1, <1>8
  <2>2. \A u : u[0] = 0 /\ (\A k \in 1 .. n : u[k] = u[k-1] + Cardinality(B[k-1]))
                => u[n] = Cardinality(UNION {{f} \X B[f] : f \in 0 .. n - 1})
    BY <2>1, PairsCounted
  <2> QED
    BY <1>4, <1>6, <1>7, <2>2
<1>11. AllLines \cap AllEmptyLines = AllEmptyLines
  BY <1>5
<1>12. Cardinality(AllLines \ AllEmptyLines) = Cardinality(AllLines) - Cardinality(AllEmptyLines)
  BY <1>9, <1>11, FS_Difference
<1> QED
  BY <1>10, <1>12 DEF n

\* Document i of a file is its line i as long as no line is without words, and
\* the i-th line with words otherwise; /wc counts all lines but those, and all
\* words.
THEOREM MapsAreRight == Spec => []DocumentsAreLines
<1>1. IndexInv => DocumentsAreLines
  <2> SUFFICES ASSUME IndexInv PROVE DocumentsAreLines
    OBVIOUS
  <2>1. \A f \in FileIds : Lines(f) = NonEmpty(text[f])
    BY DEF Lines, NonEmpty
  <2>2. TypeOK /\ numFiles \in Nat
    BY FileAssumption DEF IndexInv
  <2>3. WORDS_IN_FILES = Cardinality(AllPlaces(Words))
    BY DEF IndexInv, WordsInv
  <2>4. \A f \in FileIds : f < file => doc_lenght[f] = LineLengths(Lines(f))
    BY <2>1 DEF IndexInv, MapsInv
  <2>5. ASSUME NEW f \in FileIds, f < file, EmptyLines(f) = {}
        PROVE  doc_lenght[f] = LineLengths(FileLines(f))
    BY <2>2, <2>4, <2>5, LinesOfFile DEF LinesAddUp
  <2>6. ASSUME Loaded, opened = FileIds
        PROVE  GetNumLines = Cardinality(AllLines) - Cardinality(AllEmptyLines)
    <3>1. PICK v : TotalsBy(v)
      BY <2>2, TotalsBuilt
    <3>2. GetNumLines = v[numFiles]
      BY <2>6, <3>1 DEF TotalsBy
    <3>3. ASSUME NEW f \in FileIds PROVE Len(doc_lenght[f]) = Len(Lines(f))
      <4>1. f < file
        BY <2>2, <2>6 DEF FileIds, Loaded
      <4>2. Lines(f) \in Seq(Seq(Words))
        BY <2>1, <2>2, NonEmptyLines DEF TypeOK
      <4> QED
        BY <2>4, <4>1, <4>2, LengthsOfLines
    <3> QED
      BY <2>2, <3>1, <3>2, <3>3, LinesWithWords
  <2> QED
    BY <2>3, <2>4, <2>5, <2>6 DEF DocumentsAreLines
<1> QED
  BY <1>1, IndexDescribesText, PTL

-----------------------------------------------------------------------------
(* Answers to /search *)

\* The posts about a file, in the order of the list: its later lines first.
LEMMA InFilePosts ==
  ASSUME IndexInv, NEW w \in Words, NEW f \in FileIds
  PROVE  LET r == InFile(w, f)
         IN /\ r \in Seq(Post)
            /\ \A p : p \in ToSet(r) <=> p \in Containing(w) /\ p.file_id = f
            /\ \A i, j \in 1 .. Len(r) : i < j => r[j].doc_id < r[i].doc_id
<1> DEFINE posts == plist[w].post
           S == [file_id : {f}, doc_id : Nat, recurrence : Nat]
           r == InFile(w, f)
<1>1. /\ posts \in Seq(Post) /\ Sorted(posts) /\ ToSet(posts) = Containing(w)
      /\ DOMAIN posts = 1 .. Len(posts) /\ \A a \in 1 .. Len(posts) : posts[a] \in Post
  <2>1. posts \in Seq(Post)
    BY DEF IndexInv, TypeOK, PostingList
  <2>2. Sorted(posts) /\ ToSet(posts) = Containing(w)
    BY DEF IndexInv, PostsInv
  <2> HIDE DEF posts
  <2> QED
    BY <2>1, <2>2
<1>2. ~Known(w) => r = <<>> /\ posts = <<>>
  BY DEF InFile, Known, NoList
<1>3. Known(w) => r = Keep(posts, S)
  BY DEF InFile
<1>4. Keep(<<>>, S) = <<>>
  BY KeepNothing
<1>5. r = Keep(posts, S)
  BY <1>2, <1>3, <1>4
<1>6. \A p \in Post : p \in S <=> p.file_id = f
  BY DEF Post
<1> HIDE DEF S, r, posts
<1>7. r \in Seq(Post) /\ Selects(r, posts, S, Len(posts))
  BY <1>1, <1>5, KeepSelects
<1>8. DOMAIN r = 1 .. Len(r)
  BY <1>7
<1>9. ASSUME NEW p \in ToSet(r) PROVE p \in Containing(w) /\ p.file_id = f
  <2>1. PICK i \in 1 .. Len(r) : r[i] = p
    BY <1>8 DEF ToSet
  <2>2. PICK a \in 1 .. Len(posts) : posts[a] \in S /\ r[i] = posts[a]
    BY <1>7 DEF Selects
  <2>3. p \in ToSet(posts) /\ p \in Post /\ p \in S
    BY <1>1, <2>1, <2>2 DEF ToSet
  <2> QED
    BY <1>1, <1>6, <2>3
<1>10. ASSUME NEW p \in Containing(w), p.file_id = f PROVE p \in ToSet(r)
  <2>1. PICK a \in 1 .. Len(posts) : posts[a] = p
    BY <1>1 DEF ToSet
  <2>2. posts[a] \in S
    BY <1>1, <1>6, <1>10, <2>1
  <2>3. PICK i \in 1 .. Len(r) : r[i] = posts[a]
    BY <1>7, <2>2 DEF Selects
  <2> QED
    BY <1>8, <2>1, <2>3 DEF ToSet
<1>11. ASSUME NEW i \in 1 .. Len(r), NEW j \in 1 .. Len(r), i < j
       PROVE  r[j].doc_id < r[i].doc_id
  <2>1. PICK a \in 1 .. Len(posts), b \in 1 .. Len(posts) :
               a < b /\ r[i] = posts[a] /\ r[j] = posts[b]
    BY <1>7, <1>11 DEF Selects
  <2>2. Before(r[j], r[i])
    BY <1>1, <2>1 DEF Sorted
  <2>3. r[i].file_id = f /\ r[j].file_id = f
    BY <1>8, <1>9 DEF ToSet
  <2>4. f \in Int
    BY FileAssumption DEF FileIds
  <2> QED
    BY <2>2, <2>3, <2>4 DEF Before
<1> QED
  BY <1>7, <1>9, <1>10, <1>11 DEF r

\* R is the sequence of results of the loop of PostsByFile.
PartsBy(R, querry, f) ==
  /\ R[0] = <<>>
  /\ \A k \in 1 .. Len(querry) : R[k] = R[k-1] \o InFile(querry[k], f)
  /\ PostsByFile(querry, f) = R[Len(querry)]

\* The lists PostsByFile is built from.
LEMMA PartsBuilt ==
  ASSUME IndexInv, NEW querry \in Seq(Words), NEW f \in FileIds
  PROVE  \E R \in [0 .. Len(querry) -> Seq(Post)] : PartsBy(R, querry, f)
<1> DEFINE n == Len(querry)
           A == Seq(Post)
           part == [k \in 1 .. n |-> InFile(querry[k], f)]
           G == [p \in A \X Nat |-> IF p[2] \in 1 .. n THEN p[1] \o part[p[2]] ELSE p[1]]
           Solves(v) == v = [k \in 0 .. n |->
                               IF k = 0 THEN <<>> ELSE v[k-1] \o InFile(querry[k], f)]
           V == CHOOSE v : Solves(v)
<1>1. n \in Nat /\ \A k \in 1 .. n : querry[k] \in Words
  OBVIOUS
<1>2. \A k \in 1 .. n : part[k] = InFile(querry[k], f) /\ part[k] \in A
  BY <1>1, InFilePosts
<1>3. \A x, y \in A : x \o y \in A
  OBVIOUS
<1>4. <<>> \in A
  OBVIOUS
<1> HIDE DEF n, part, A
<1>5. G \in [A \X Nat -> A]
  BY <1>2, <1>3
<1>6. \A x \in A : \A k \in 1 .. n : G[<<x, k>>] = x \o part[k]
  <2>1. \A k \in 1 .. n : k \in Nat
    BY <1>1
  <2>2. ASSUME NEW x \in A, NEW k \in 1 .. n PROVE G[<<x, k>>] = x \o part[k]
    <3>1. <<x, k>> \in A \X Nat /\ <<x, k>>[1] = x /\ <<x, k>>[2] = k
      BY <2>1
    <3> QED
      BY <3>1, Zenon
  <2> QED
    BY <2>2
<1> HIDE DEF G
<1>7. PICK g \in [0 .. n -> A] : Recursive(g, n, <<>>, G)
  BY <1>1, <1>4, <1>5, Recursion
<1>8. \A k \in 1 .. n : k - 1 \in 0 .. n /\ g[k-1] \in A /\ k \in 0 .. n /\ k # 0
  BY <1>1
<1>9. ASSUME NEW k \in 1 .. n PROVE g[k] = g[k-1] \o InFile(querry[k], f)
  <2>1. g[k] = G[<<g[k-1], k>>] /\ g[k-1] \in A
    BY <1>7, <1>8 DEF Recursive
  <2>2. G[<<g[k-1], k>>] = g[k-1] \o part[k]
    BY <1>6, <2>1
  <2> QED
    BY <1>2, <2>1, <2>2
<1>10. Solves(g)
  <2>1. g[0] = <<>> /\ \A k \in 0 .. n : k # 0 => k \in 1 .. n
    BY <1>7 DEF Recursive
  <2>2. \A k \in 0 .. n : g[k] = IF k = 0 THEN <<>> ELSE g[k-1] \o InFile(querry[k], f)
    BY <1>9, <2>1
  <2> QED
    BY <2>2
<1>11. Solves(V)
  BY <1>10
<1>12. PostsByFile(querry, f) = V[n]
  BY DEF PostsByFile, n
<1>13. \A k \in 0 .. n : V[k] = IF k = 0 THEN <<>> ELSE V[k-1] \o InFile(querry[k], f)
  BY <1>11
<1>14. V = [k \in 0 .. n |-> V[k]]
  BY <1>11
<1> HIDE DEF V, Solves
<1>15. 0 \in 0 .. n /\ V[0] = <<>>
  BY <1>1, <1>13
<1>16. \A k \in 1 .. n : V[k] = V[k-1] \o InFile(querry[k], f)
  BY <1>8, <1>13
<1> DEFINE T == {k \in 0 .. n : V[k] \in A}
<1>17. 0 \in T
  BY <1>4, <1>15
<1>18. ASSUME NEW k \in 1 .. n, k - 1 \in T PROVE k \in T
  <2>1. V[k-1] \in A /\ part[k] \in A /\ V[k-1] \o part[k] \in A
    BY <1>2, <1>3, <1>18
  <2> QED
    BY <1>2, <1>8, <1>16, <2>1
<1> HIDE DEF T
<1>19. 0 .. n \subseteq T
  BY <1>1, <1>17, <1>18, UpTo
<1>20. V \in [0 .. n -> A]
  BY <1>14, <1>19 DEF T
<1>21. PartsBy(V, querry, f)
  BY <1>12, <1>15, <1>16 DEF PartsBy, n
<1> QED
  BY <1>20, <1>21 DEF n, A

\* What is in two lists is in the one after the other.
LEMMA ConcatElements ==
  ASSUME NEW S, NEW s \in Seq(S), NEW t \in Seq(S)
  PROVE  ToSet(s \o t) = ToSet(s) \cup ToSet(t)
<1> DEFINE m == Len(s)
           n == Len(t)
           u == s \o t
<1>1. /\ m \in Nat /\ n \in Nat /\ DOMAIN s = 1 .. m /\ DOMAIN t = 1 .. n
      /\ DOMAIN u = 1 .. m + n
      /\ \A i \in 1 .. m + n : u[i] = IF i <= m THEN s[i] ELSE t[i - m]
  OBVIOUS
<1> HIDE DEF m, n, u
<1>2. \A i \in 1 .. m : i \in 1 .. m + n /\ u[i] = s[i]
  BY <1>1
<1>3. \A i \in 1 .. n : m + i \in 1 .. m + n /\ u[m+i] = t[i]
  BY <1>1
<1>4. \A i \in 1 .. m + n : i \in 1 .. m \/ (i - m \in 1 .. n /\ u[i] = t[i-m])
  BY <1>1
<1>5. \A e \in ToSet(u) : e \in ToSet(s) \/ e \in ToSet(t)
  BY <1>1, <1>2, <1>4 DEF ToSet
<1>6. \A e \in ToSet(s) : e \in ToSet(u)
  BY <1>1, <1>2 DEF ToSet
<1>7. \A e \in ToSet(t) : e \in ToSet(u)
  <2>1. ASSUME NEW e \in ToSet(t) PROVE e \in ToSet(u)
    <3>1. PICK i \in 1 .. n : t[i] = e
      BY <1>1 DEF ToSet
    <3>2. m + i \in DOMAIN u /\ u[m+i] = e
      BY <1>1, <1>3, <3>1
    <3> QED
      BY <3>2 DEF ToSet
  <2> QED
    BY <2>1
<1> QED
  BY <1>5, <1>6, <1>7 DEF u

\* GroupAllByFile finds the posts of every word of the query.
LEMMA PostsOfQuery ==
  ASSUME IndexInv, NEW querry \in Seq(Words), NEW f \in FileIds
  PROVE  /\ PostsByFile(querry, f) \in Seq(Post)
         /\ \A p : p \in ToSet(PostsByFile(querry, f)) <=>
              \E k \in 1 .. Len(querry) : p \in ToSet(InFile(querry[k], f))
         /\ \A w \in Words : querry = <<w>> => PostsByFile(querry, f) = InFile(w, f)
<1> DEFINE n == Len(querry)
           part(k) == InFile(querry[k], f)
<1>1. PICK R \in [0 .. n -> Seq(Post)] : PartsBy(R, querry, f)
  BY PartsBuilt
<1>2. n \in Nat /\ \A k \in 1 .. n : querry[k] \in Words
  OBVIOUS
<1>3. /\ R[0] = <<>> /\ PostsByFile(querry, f) = R[n]
      /\ \A k \in 1 .. n : R[k] = R[k-1] \o part(k)
  BY <1>1 DEF PartsBy
<1>4. \A k \in 1 .. n : part(k) \in Seq(Post) /\ R[k-1] \in Seq(Post) /\ R[k] \in Seq(Post)
  <2>1. \A k \in 1 .. n : k \in 0 .. n /\ k - 1 \in 0 .. n
    BY <1>2
  <2>2. \A k \in 1 .. n : R[k-1] \in Seq(Post) /\ R[k] \in Seq(Post)
    BY <2>1
  <2>3. \A k \in 1 .. n : part(k) \in Seq(Post)
    BY <1>2, InFilePosts
  <2> QED
    BY <2>2, <2>3
<1> DEFINE T == {k \in 0 .. n :
                   \A p : p \in ToSet(R[k]) <=> \E j \in 1 .. k : p \in ToSet(part(j))}
<1> HIDE DEF n, part
<1>5. 0 \in T
  <2>1. ToSet(R[0]) = {} /\ 1 .. 0 = {} /\ 0 \in 0 .. n
    BY <1>2, <1>3 DEF ToSet
  <2> QED
    BY <2>1
<1>6. ASSUME NEW k \in 1 .. n, k - 1 \in T PROVE k \in T
  <2>1. k \in 0 .. n /\ \A j : j \in 1 .. k <=> j \in 1 .. k - 1 \/ j = k
    BY <1>2
  <2>2. ToSet(R[k]) = ToSet(R[k-1]) \cup ToSet(part(k))
    <3> DEFINE s == R[k-1]
               t == part(k)
    <3>1. s \in Seq(Post) /\ t \in Seq(Post) /\ R[k] = s \o t
      BY <1>3, <1>4
    <3> HIDE DEF s, t
    <3>2. ToSet(s \o t) = ToSet(s) \cup ToSet(t)
      BY <3>1, ConcatElements
    <3> QED
      BY <3>1, <3>2 DEF s, t
  <2> QED
    BY <1>6, <2>1, <2>2
<1> HIDE DEF T
<1>7. n \in T
  <2>1. 0 .. n \subseteq T
    BY <1>2, <1>5, <1>6, UpTo
  <2> QED
    BY <1>2, <2>1
<1>8. R[n] \in Seq(Post)
  BY <1>2
<1>9. ASSUME NEW w \in Words, querry = <<w>> PROVE R[n] = InFile(w, f)
  <2>1. n = 1 /\ querry[1] = w
    BY <1>9 DEF n
  <2>2. R[1] = R[0] \o part(1) /\ part(1) \in Seq(Post)
    BY <1>3, <1>4, <2>1
  <2>3. part(1) = InFile(w, f)
    BY <2>1 DEF part
  <2>4. \A s \in Seq(Post) : <<>> \o s = s
    OBVIOUS
  <2> QED
    BY <1>3, <2>1, <2>2, <2>3, <2>4
<1> QED
  BY <1>3, <1>7, <1>8, <1>9 DEF T, n, part

\* D is the sequence of documents sent so far by the loop of SendSearchAnswer.
SendsBy(D, posts) ==
  /\ D[0] = <<>>
  /\ \A k \in 1 .. Len(posts) :
       \/ D[k] = D[k-1] /\ D[k-1] # <<>> /\ D[k-1][Len(D[k-1])] = posts[k].doc_id
       \/ D[k] = Append(D[k-1], posts[k].doc_id)

\* The sequences of documents Answer is built from.
LEMMA SentBuilt ==
  ASSUME NEW querry, NEW f, NEW posts \in Seq(Post), posts = PostsByFile(querry, f)
  PROVE  \E D \in [0 .. Len(posts) -> Seq(Nat)] :
           SendsBy(D, posts) /\ Answer(querry, f) = D[Len(posts)]
<1> DEFINE n == Len(posts)
           A == Seq(Nat)
           sent(x, d) == IF d = prev_doc_id(x) THEN x ELSE Append(x, d)
           doc == [k \in 1 .. n |-> posts[k].doc_id]
           G == [p \in A \X Nat |-> IF p[2] \in 1 .. n THEN sent(p[1], doc[p[2]]) ELSE p[1]]
           Solves(v) == v = [k \in 0 .. n |->
                               IF k = 0 THEN <<>>
                               ELSE IF posts[k].doc_id = prev_doc_id(v[k-1]) THEN v[k-1]
                               ELSE Append(v[k-1], posts[k].doc_id)]
           V == CHOOSE v : Solves(v)
<1>1. n \in Nat /\ \A k \in 1 .. n : doc[k] = posts[k].doc_id /\ doc[k] \in Nat
  <2>1. n \in Nat /\ \A k \in 1 .. n : posts[k] \in Post
    OBVIOUS
  <2> QED
    BY <2>1 DEF Post
<1>2. \A x \in A, d \in Nat : sent(x, d) \in A
  OBVIOUS
<1>3. <<>> \in A
  OBVIOUS
<1>4. \A x, d : sent(x, d) = IF d = prev_doc_id(x) THEN x ELSE Append(x, d)
  OBVIOUS
<1>5. \A x \in A, d \in Nat : d = prev_doc_id(x) => x # <<>> /\ x[Len(x)] = d
  BY DEF prev_doc_id
<1> HIDE DEF n, doc, A, sent
<1>6. G \in [A \X Nat -> A]
  BY <1>1, <1>2
<1>7. ASSUME NEW x \in A, NEW k \in 1 .. n PROVE G[<<x, k>>] = sent(x, doc[k])
  <2>1. <<x, k>> \in A \X Nat /\ <<x, k>>[1] = x /\ <<x, k>>[2] = k
    BY <1>1
  <2> QED
    BY <2>1, Zenon
<1> HIDE DEF G
<1>8. PICK g \in [0 .. n -> A] : Recursive(g, n, <<>>, G)
  BY <1>1, <1>3, <1>6, Recursion
<1>9. \A k \in 1 .. n : k - 1 \in 0 .. n /\ g[k-1] \in A /\ k \in 0 .. n /\ k # 0
  BY <1>1
<1>10. ASSUME NEW k \in 1 .. n PROVE g[k] = sent(g[k-1], posts[k].doc_id)
  <2>1. g[k] = G[<<g[k-1], k>>] /\ g[k-1] \in A
    BY <1>8, <1>9 DEF Recursive
  <2>2. G[<<g[k-1], k>>] = sent(g[k-1], doc[k])
    BY <1>7, <2>1
  <2> QED
    BY <1>1, <2>1, <2>2
<1>11. Solves(g)
  <2>1. g[0] = <<>> /\ \A k \in 0 .. n : k # 0 => k \in 1 .. n
    BY <1>8 DEF Recursive
  <2>2. \A k \in 0 .. n : g[k] = IF k = 0 THEN <<>> ELSE sent(g[k-1], posts[k].doc_id)
    BY <1>10, <2>1
  <2> QED
    BY <2>2 DEF sent
<1>12. Solves(V)
  BY <1>11
<1>13. Answer(querry, f) = V[n]
  BY DEF Answer, n
<1>14. \A k \in 0 .. n : V[k] = IF k = 0 THEN <<>> ELSE sent(V[k-1], posts[k].doc_id)
  BY <1>12 DEF sent
<1>15. V = [k \in 0 .. n |-> V[k]]
  BY <1>12
<1> HIDE DEF V, Solves
<1>16. 0 \in 0 .. n /\ V[0] = <<>>
  BY <1>1, <1>14
<1>17. \A k \in 1 .. n : V[k] = sent(V[k-1], posts[k].doc_id)
  BY <1>9, <1>14
<1> DEFINE T == {k \in 0 .. n : V[k] \in A}
<1>18. 0 \in T
  BY <1>3, <1>16
<1>19. ASSUME NEW k \in 1 .. n, k - 1 \in T PROVE k \in T
  <2>1. V[k-1] \in A /\ posts[k].doc_id \in Nat
    BY <1>1, <1>19
  <2> QED
    BY <1>2, <1>9, <1>17, <2>1
<1>20. 0 .. n \subseteq T
  <2> HIDE DEF T
  <2> QED
    BY <1>1, <1>18, <1>19, UpTo
<1>21. V \in [0 .. n -> A]
  BY <1>15, <1>20
<1>22. ASSUME NEW k \in 1 .. n
       PROVE  \/ V[k] = V[k-1] /\ V[k-1] # <<>> /\ V[k-1][Len(V[k-1])] = posts[k].doc_id
              \/ V[k] = Append(V[k-1], posts[k].doc_id)
  <2>1. V[k-1] \in A /\ posts[k].doc_id \in Nat
    BY <1>1, <1>9, <1>21
  <2> QED
    BY <1>4, <1>5, <1>17, <2>1
<1>23. SendsBy(V, posts)
  BY <1>16, <1>22 DEF SendsBy, n
<1> QED
  BY <1>13, <1>21, <1>23 DEF n, A

\* A document more at the end.
LEMMA OneMoreSent ==
  ASSUME NEW s \in Seq(Nat), NEW d \in Nat
  PROVE  /\ ToSet(Append(s, d)) = ToSet(s) \cup {d}
         /\ s # <<>> /\ s[Len(s)] = d => d \in ToSet(s)
         /\ (\A i, j \in 1 .. Len(s) : i < j => s[j] < s[i]) /\ (\A e \in ToSet(s) : d < e)
              => \A i, j \in 1 .. Len(Append(s, d)) : i < j => Append(s, d)[j] < Append(s, d)[i]
<1> DEFINE t == Append(s, d)
           n == Len(s)
<1>1. /\ n \in Nat /\ DOMAIN s = 1 .. n /\ DOMAIN t = 1 .. n + 1 /\ Len(t) = n + 1
      /\ t[n+1] = d /\ \A i \in 1 .. n : t[i] = s[i]
      /\ s # <<>> => n \in 1 .. n
  OBVIOUS
<1> HIDE DEF t, n
<1>2. /\ \A i \in 1 .. n + 1 : i \in 1 .. n \/ i = n + 1
      /\ \A i \in 1 .. n : i \in 1 .. n + 1
      /\ n + 1 \in 1 .. n + 1
  BY <1>1
<1>3. ToSet(t) = ToSet(s) \cup {d}
  <2>1. \A e : e \in ToSet(t) <=> \E i \in 1 .. n + 1 : t[i] = e
    BY <1>1 DEF ToSet
  <2>2. \A e : e \in ToSet(s) <=> \E i \in 1 .. n : s[i] = e
    BY <1>1 DEF ToSet
  <2>3. \A e : e \in ToSet(t) <=> e \in ToSet(s) \/ e = d
    BY <1>1, <1>2, <2>1, <2>2
  <2> QED
    BY <2>3
<1>4. s # <<>> /\ s[n] = d => d \in ToSet(s)
  BY <1>1 DEF ToSet
<1>5. ASSUME \A i, j \in 1 .. n : i < j => s[j] < s[i], \A e \in ToSet(s) : d < e,
             NEW i \in 1 .. n + 1, NEW j \in 1 .. n + 1, i < j
      PROVE  t[j] < t[i]
  <2>1. i \in 1 .. n /\ s[i] \in ToSet(s) /\ t[i] = s[i]
    BY <1>1, <1>5 DEF ToSet
  <2>2. CASE j \in 1 .. n
    BY <1>1, <1>5, <2>1, <2>2
  <2>3. CASE j = n + 1
    BY <1>1, <1>5, <2>1, <2>3
  <2> QED
    BY <1>2, <2>2, <2>3
<1> QED
  BY <1>1, <1>3, <1>4, <1>5 DEF t, n

\* What is sent are the documents of the posts, and none twice if they are in
\* descending order.
LEMMA SentDocuments ==
  ASSUME NEW posts \in Seq(Post), NEW D \in [0 .. Len(posts) -> Seq(Nat)], SendsBy(D, posts)
  PROVE  LET s == D[Len(posts)]
         IN /\ \A d : d \in ToSet(s) <=> \E k \in 1 .. Len(posts) : posts[k].doc_id = d
            /\ (\A i, j \in 1 .. Len(posts) : i < j => posts[j].doc_id < posts[i].doc_id)
                 => IsInjective(s)
<1> DEFINE n == Len(posts)
           Descending == \A i, j \in 1 .. n : i < j => posts[j].doc_id < posts[i].doc_id
           Falls(s) == \A i, j \in 1 .. Len(s) : i < j => s[j] < s[i]
<1>1. /\ n \in Nat /\ D[n] \in Seq(Nat)
      /\ \A k \in 1 .. n : posts[k].doc_id \in Nat /\ D[k-1] \in Seq(Nat)
  <2>1. /\ n \in Nat /\ n \in 0 .. n
        /\ \A k \in 1 .. n : posts[k] \in Post /\ k - 1 \in 0 .. n
    OBVIOUS
  <2> QED
    BY <2>1 DEF Post
<1>2. /\ D[0] = <<>>
      /\ \A k \in 1 .. n :
           \/ D[k] = D[k-1] /\ D[k-1] # <<>> /\ D[k-1][Len(D[k-1])] = posts[k].doc_id
           \/ D[k] = Append(D[k-1], posts[k].doc_id)
  BY DEF SendsBy
<1> HIDE DEF n
<1> DEFINE T == {k \in 0 .. n :
                   /\ \A d : d \in ToSet(D[k]) <=> \E j \in 1 .. k : posts[j].doc_id = d
                   /\ Descending => Falls(D[k])}
<1>3. 0 \in T
  <2>1. ToSet(<<>>) = {} /\ 1 .. 0 = {} /\ 0 \in 0 .. n /\ Len(<<>>) = 0
    BY <1>1 DEF ToSet
  <2>2. Falls(<<>>)
    BY <2>1
  <2> HIDE DEF Falls
  <2> QED
    BY <1>2, <2>1, <2>2
<1>4. ASSUME NEW k \in 1 .. n, k - 1 \in T PROVE k \in T
  <2> DEFINE s == D[k-1]
             d == posts[k].doc_id
  <2>1. /\ k \in 0 .. n /\ s \in Seq(Nat) /\ d \in Nat
        /\ \A j : j \in 1 .. k <=> j \in 1 .. k - 1 \/ j = k
        /\ \A j \in 1 .. k - 1 : j \in 1 .. n /\ j < k
    BY <1>1
  <2>2. /\ \A e : e \in ToSet(s) <=> \E j \in 1 .. k - 1 : posts[j].doc_id = e
        /\ Descending => Falls(s)
    BY <1>4
  <2>3. Descending => \A e \in ToSet(s) : d < e
    BY <2>1, <2>2
  <2>4. /\ ToSet(Append(s, d)) = ToSet(s) \cup {d}
        /\ s # <<>> /\ s[Len(s)] = d => d \in ToSet(s)
        /\ Falls(s) /\ (\A e \in ToSet(s) : d < e) => Falls(Append(s, d))
    <3> HIDE DEF s, d
    <3> QED
      BY <2>1, OneMoreSent
  <2>5. \/ D[k] = s /\ s # <<>> /\ s[Len(s)] = d
        \/ D[k] = Append(s, d)
    BY <1>2
  <2> HIDE DEF s, Falls, Descending
  <2>6. \A e : (\E j \in 1 .. k : posts[j].doc_id = e) <=> e \in ToSet(s) \/ e = d
    BY <2>1, <2>2
  <2>7. \A e : e \in ToSet(D[k]) <=> e \in ToSet(s) \/ e = d
    BY <2>4, <2>5
  <2>8. Descending => Falls(D[k])
    BY <2>2, <2>3, <2>4, <2>5
  <2> QED
    BY <2>1, <2>6, <2>7, <2>8
<1>5. n \in T
  <2> HIDE DEF T
  <2>1. 0 .. n \subseteq T
    BY <1>1, <1>3, <1>4, UpTo
  <2> QED
    BY <1>1, <2>1
<1>6. ASSUME Falls(D[n]) PROVE IsInjective(D[n])
  <2>1. D[n] \in Seq(Nat)
    BY <1>1
  <2> DEFINE s == D[n]
  <2>2. DOMAIN s = 1 .. Len(s) /\ Len(s) \in Nat /\ \A i \in 1 .. Len(s) : s[i] \in Nat
    BY <2>1
  <2>3. \A i, j \in 1 .. Len(s) : i < j => s[j] < s[i]
    BY <1>6
  <2> HIDE DEF s
  <2>4. \A i, j \in 1 .. Len(s) : s[i] = s[j] => i = j
    BY <2>2, <2>3
  <2>5. IsInjective(s)
    BY <2>2, <2>4 DEF IsInjective
  <2> QED
    BY <2>5 DEF s
<1> QED
  BY <1>5, <1>6 DEF n

\* The answer to a query of any number of words names every document with one of
\* them, and no other.
EverySearchComplete ==
  \A querry \in Seq(Words), f \in FileIds : ToSet(Answer(querry, f)) = Matching(querry, f)

\* The answer to a query of any number of words names every document with one of
\* them and no other, and to a query of one word none twice: it is enough that
\* SendSearchAnswer compares a document with the one it has just sent.
THEOREM SearchesAnswered == Spec => [](SearchComplete /\ EverySearchComplete)
<1>1. ASSUME IndexInv, NEW querry \in Seq(Words), NEW f \in FileIds
      PROVE  /\ ToSet(Answer(querry, f)) = Matching(querry, f)
             /\ \A w \in Words : querry = <<w>> => IsInjective(Answer(querry, f))
  <2> DEFINE n == Len(querry)
  <2>1. PICK posts \in Seq(Post) : posts = PostsByFile(querry, f)
    BY <1>1, PostsOfQuery
  <2>2. PICK D \in [0 .. Len(posts) -> Seq(Nat)] :
               SendsBy(D, posts) /\ Answer(querry, f) = D[Len(posts)]
    BY <2>1, SentBuilt
  <2>3. /\ \A d : d \in ToSet(Answer(querry, f)) <=>
                    \E k \in 1 .. Len(posts) : posts[k].doc_id = d
        /\ (\A i, j \in 1 .. Len(posts) : i < j => posts[j].doc_id < posts[i].doc_id)
             => IsInjective(Answer(querry, f))
    BY <2>2, SentDocuments
  <2>4. DOMAIN querry = 1 .. n /\ \A k \in 1 .. n : querry[k] \in Words
    OBVIOUS
  <2>5. \A p : p \in ToSet(posts) <=> \E k \in 1 .. n : p \in ToSet(InFile(querry[k], f))
    BY <1>1, <2>1, PostsOfQuery
  <2>6. \A k \in 1 .. n : \A p : p \in ToSet(InFile(querry[k], f)) <=>
                                   p \in Containing(querry[k]) /\ p.file_id = f
    BY <1>1, <2>4, InFilePosts
  <2>7. \A p : p \in ToSet(posts) <=>
                 (\E k \in 1 .. n : p \in Containing(querry[k])) /\ p.file_id = f
    BY <2>5, <2>6
  <2>8. \A d : (\E k \in 1 .. Len(posts) : posts[k].doc_id = d) <=>
                 \E p \in ToSet(posts) : p.doc_id = d
    <3>1. DOMAIN posts = 1 .. Len(posts)
      OBVIOUS
    <3> QED
      BY <3>1 DEF ToSet
  <2> HIDE DEF n
  <2>9. \A d : d \in Matching(querry, f) <=> \E p \in ToSet(posts) : p.doc_id = d
    <3>1. \A d : d \in Matching(querry, f) <=>
                   \E p : (\E k \in 1 .. n : p \in Containing(querry[k]))
                           /\ p.file_id = f /\ p.doc_id = d
      BY <2>4 DEF Matching
    <3> QED
      BY <2>7, <3>1
  <2>10. ToSet(Answer(querry, f)) = Matching(querry, f)
    <3>1. \A d : d \in ToSet(Answer(querry, f)) <=> d \in Matching(querry, f)
      BY <2>3, <2>8, <2>9
    <3> DEFINE X == ToSet(Answer(querry, f))
               Y == Matching(querry, f)
    <3>2. X = {Answer(querry, f)[i] : i \in DOMAIN Answer(querry, f)}
      BY DEF ToSet
    <3>3. Y = {p.doc_id : p \in {p \in UNION {Containing(querry[i]) : i \in DOMAIN querry} :
                                   p.file_id = f}}
      BY DEF Matching
    <3> QED
      BY <3>1, <3>2, <3>3
  <2>11. ASSUME NEW w \in Words, querry = <<w>> PROVE IsInjective(Answer(querry, f))
    <3>1. posts = InFile(w, f)
      BY <1>1, <2>1, <2>11, PostsOfQuery
    <3>2. \A i, j \in 1 .. Len(posts) : i < j => posts[j].doc_id < posts[i].doc_id
      BY <1>1, <3>1, InFilePosts
    <3> QED
      BY <2>3, <3>2
  <2> QED
    BY <2>10, <2>11
<1>2. IndexInv => SearchComplete /\ EverySearchComplete
  <2> SUFFICES ASSUME IndexInv PROVE SearchComplete /\ EverySearchComplete
    OBVIOUS
  <2>1. EverySearchComplete
    BY <1>1 DEF EverySearchComplete
  <2>2. OneWord \subseteq Seq(Words) /\ TwoWords \subseteq Seq(Words)
    <3> DEFINE A == Seq(Words)
    <3>1. \A v, w \in Words : <<w>> \in A /\ <<v, w>> \in A
      OBVIOUS
    <3> HIDE DEF A
    <3>2. \A q \in OneWord : q \in A
      BY <3>1, Zenon DEF OneWord
    <3>3. \A q \in TwoWords : q \in A
      <4>1. \A q \in TwoWords : \E v, w \in Words : q = <<v, w>>
        BY DEF TwoWords
      <4> QED
        BY <3>1, <4>1, Zenon
    <3> QED
      BY <3>2, <3>3 DEF A
  <2>3. \A q \in OneWord, f \in FileIds : IsInjective(Answer(q, f))
    BY <1>1, <2>2 DEF OneWord
  <2> QED
    BY <2>1, <2>2, <2>3 DEF EverySearchComplete, SearchComplete
<1> QED
  BY <1>2, IndexDescribesText, PTL

-----------------------------------------------------------------------------
(* Answers to /maxcount and /mincount *)

\* What is known of a post of a list and of the line it is about.
LEMMA PostOfLine ==
  ASSUME IndexInv, NEW w \in Words, NEW p \in Containing(w)
  PROVE  LET f == p.file_id
             l == p.doc_id + 1
         IN /\ f \in FileIds /\ l \in DOMAIN Lines(f) /\ p.doc_id = l - 1 /\ l \in Nat
            /\ p.recurrence = Times(w, Lines(f)[l]) /\ p.recurrence \in Nat
            /\ p.recurrence > 0
<1>1. PICK f \in FileIds : \E l \in DOMAIN Lines(f) :
             Times(w, Lines(f)[l]) > 0 /\ p = PostOf(w, f, l)
  BY DEF Containing
<1>2. PICK l \in DOMAIN Lines(f) : Times(w, Lines(f)[l]) > 0 /\ p = PostOf(w, f, l)
  BY <1>1
<1>3. Lines(f) \in Seq(Seq(Words))
  BY NonEmptyLines DEF IndexInv, TypeOK, Lines, NonEmpty
<1>4. l \in Nat /\ Lines(f)[l] \in Seq(Words)
  BY <1>3
<1>5. Times(w, Lines(f)[l]) \in Nat
  BY <1>4, TimesAppend
<1>6. p.file_id = f /\ p.doc_id = l - 1 /\ p.recurrence = Times(w, Lines(f)[l])
  BY <1>2 DEF PostOf
<1> QED
  BY <1>2, <1>4, <1>5, <1>6

\* The places of w in the lines of f that the first k posts are about.
PlacesPosted(w, f, posts, k) ==
  {e \in Places({w}, f) :
     \E j \in 1 .. k : posts[j].file_id = f /\ posts[j].doc_id = e[1] - 1}

\* The elements of Places, one by one.
LEMMA PlacesOfLine ==
  ASSUME IndexInv, NEW w \in Words, NEW f \in FileIds
  PROVE  \A e : e \in Places({w}, f) <=>
           \E l \in DOMAIN Lines(f) : \E i \in InLine({w}, Lines(f)[l]) : e = <<l, i>>
BY DEF Places

\* A post adds the places in its line to those of its file.
LEMMA OnePostMore ==
  ASSUME IndexInv, NEW w \in Words, NEW posts, posts = plist[w].post,
         NEW k \in 1 .. Len(posts), NEW f \in FileIds,
         IsFiniteSet(PlacesPosted(w, f, posts, k - 1))
  PROVE  LET S == PlacesPosted(w, f, posts, k - 1)
             T == PlacesPosted(w, f, posts, k)
         IN /\ IsFiniteSet(T)
            /\ posts[k].file_id # f => T = S
            /\ posts[k].file_id = f =>
                 Cardinality(T) = Cardinality(S) + posts[k].recurrence
<1> DEFINE S == PlacesPosted(w, f, posts, k - 1)
           T == PlacesPosted(w, f, posts, k)
           p == posts[k]
           l == p.doc_id + 1
           I == InLine({w}, Lines(f)[l])
<1>1. /\ posts \in Seq(Post) /\ Sorted(posts) /\ ToSet(posts) = Containing(w)
      /\ DOMAIN posts = 1 .. Len(posts) /\ Len(posts) \in Nat
  <2>1. posts \in Seq(Post)
    BY DEF IndexInv, TypeOK, PostingList
  <2>2. Sorted(posts) /\ ToSet(posts) = Containing(w)
    BY DEF IndexInv, PostsInv
  <2>3. DOMAIN posts = 1 .. Len(posts) /\ Len(posts) \in Nat
    BY <2>1
  <2> QED
    BY <2>1, <2>2, <2>3
<1>2. /\ k \in Nat /\ k - 1 \in Nat
      /\ \A j : j \in 1 .. k <=> j \in 1 .. k - 1 \/ j = k
      /\ \A j \in 1 .. k - 1 : j \in 1 .. Len(posts) /\ j < k
  BY <1>1
<1>3. p \in Containing(w) /\ p \in Post
  BY <1>1 DEF ToSet
<1>4. /\ p.file_id = f => l \in DOMAIN Lines(f) /\ p.recurrence = Times(w, Lines(f)[l])
      /\ p.doc_id = l - 1 /\ l \in Nat
  BY <1>3, PostOfLine
<1>5. \A e : e \in T <=> e \in S \/ (e \in Places({w}, f) /\ p.file_id = f /\ p.doc_id = e[1] - 1)
  BY <1>2 DEF PlacesPosted
<1>6. p.file_id # f => T = S
  BY <1>5 DEF PlacesPosted
<1>7. ASSUME p.file_id = f
      PROVE  IsFiniteSet(T) /\ Cardinality(T) = Cardinality(S) + p.recurrence
  <2>1. Lines(f) \in Seq(Seq(Words))
    BY NonEmptyLines DEF IndexInv, TypeOK, Lines, NonEmpty
  <2>2. Lines(f)[l] \in Seq(Words) /\ DOMAIN Lines(f) \subseteq Nat
    BY <1>4, <1>7, <2>1
  <2>3. IsFiniteSet(I) /\ Cardinality(I) = p.recurrence /\ p.recurrence \in Nat
    BY <1>4, <1>7, <2>2, TimesAppend DEF Times
  <2>4. \A e : e \in Places({w}, f) /\ p.doc_id = e[1] - 1 <=> \E i \in I : e = <<l, i>>
    <3>1. \A e : e \in Places({w}, f) <=>
            \E m \in DOMAIN Lines(f) : \E i \in InLine({w}, Lines(f)[m]) : e = <<m, i>>
      BY PlacesOfLine
    <3>2. \A m \in DOMAIN Lines(f) : p.doc_id = m - 1 <=> m = l
      BY <1>4, <2>2
    <3>3. ASSUME NEW e, e \in Places({w}, f), p.doc_id = e[1] - 1
          PROVE  \E i \in I : e = <<l, i>>
      <4>1. PICK m \in DOMAIN Lines(f) : \E i \in InLine({w}, Lines(f)[m]) : e = <<m, i>>
        BY <3>1, <3>3
      <4>2. m = l
        BY <3>2, <3>3, <4>1
      <4> QED
        BY <4>1, <4>2
    <3>4. ASSUME NEW i \in I PROVE <<l, i>> \in Places({w}, f) /\ p.doc_id = <<l, i>>[1] - 1
      BY <1>4, <1>7, <3>1
    <3> QED
      BY <3>3, <3>4
  <2>5. T = S \cup ({l} \X I)
    <3> HIDE DEF S, T, p, l, I
    <3>1. \A e : e \in T <=> e \in S \/ \E i \in I : e = <<l, i>>
      BY <1>5, <1>7, <2>4, Zenon
    <3>2. \A e : e \in {l} \X I <=> \E i \in I : e = <<l, i>>
      OBVIOUS
    <3> QED
      BY <3>1, <3>2
  <2>6. \A e \in S : e[1] # l
    <3> SUFFICES ASSUME NEW e \in S, e[1] = l PROVE FALSE
      OBVIOUS
    <3>1. PICK j \in 1 .. k - 1 : posts[j].file_id = f /\ posts[j].doc_id = e[1] - 1
      BY DEF PlacesPosted
    <3>2. Before(posts[k], posts[j])
      BY <1>1, <1>2 DEF Sorted
    <3>3. f \in Int /\ posts[j].doc_id = p.doc_id /\ p.doc_id \in Int
      BY <1>3, <1>4, <3>1, FileAssumption DEF FileIds
    <3> QED
      BY <1>7, <3>1, <3>2, <3>3 DEF Before
  <2>7. S \cap ({l} \X I) = {}
    BY <2>6
  <2>8. IsFiniteSet(S)
    OBVIOUS
  <2> HIDE DEF S, T, l, I
  <2> DEFINE J == {l} \X I
  <2>9. IsFiniteSet(J) /\ Cardinality(J) = p.recurrence
    <3>1. IsFiniteSet({l}) /\ Cardinality({l}) = 1
      BY FS_Singleton
    <3>2. IsFiniteSet(J) /\ Cardinality(J) = 1 * Cardinality(I)
      BY <2>3, <3>1, FS_Product
    <3> QED
      BY <2>3, <3>2
  <2>10. T = S \cup J /\ Cardinality(S \cap J) = 0
    BY <2>5, <2>7, FS_EmptySet
  <2> HIDE DEF J
  <2>11. /\ IsFiniteSet(S \cup J)
         /\ Cardinality(S \cup J) = Cardinality(S) + Cardinality(J) - Cardinality(S \cap J)
    BY <2>8, <2>9, FS_Union
  <2>12. Cardinality(S) \in Nat
    BY <2>8, FS_CardinalityType
  <2> QED
    BY <2>3, <2>9, <2>10, <2>11, <2>12
<1>8. IsFiniteSet(S)
  OBVIOUS
<1> QED
  BY <1>6, <1>7, <1>8

\* C[k][f] is the number of places in f counted by the first k posts.
CountsBy(C, posts) ==
  /\ \A f \in FileIds : C[0][f] = 0
  /\ \A k \in 1 .. Len(posts) : \A f \in FileIds :
       C[k][f] = IF f = posts[k].file_id THEN C[k-1][f] + posts[k].recurrence ELSE C[k-1][f]

\* Counting through the list finds every place of the word.
LEMMA PostsCounted ==
  ASSUME IndexInv, NEW w \in Words, NEW posts, posts = plist[w].post
  PROVE  \E C \in [0 .. Len(posts) -> [FileIds -> Nat]] :
           CountsBy(C, posts) /\ \A f \in FileIds : C[Len(posts)][f] = Count(w, f)
<1> DEFINE n == Len(posts)
           P(k, f) == PlacesPosted(w, f, posts, k)
           C == [k \in 0 .. n |-> [f \in FileIds |-> Cardinality(P(k, f))]]
           T == {k \in 0 .. n : \A f \in FileIds : IsFiniteSet(P(k, f))}
<1>1. posts \in Seq(Post)
  BY DEF IndexInv, TypeOK, PostingList
<1>2. ToSet(posts) = Containing(w) /\ DOMAIN posts = 1 .. n /\ n \in Nat
  <2>1. ToSet(posts) = Containing(w)
    BY DEF IndexInv, PostsInv
  <2> QED
    BY <1>1, <2>1
<1>3. \A k \in 1 .. n : \A f \in FileIds : IsFiniteSet(P(k - 1, f)) =>
        /\ IsFiniteSet(P(k, f))
        /\ posts[k].file_id # f => P(k, f) = P(k - 1, f)
        /\ posts[k].file_id = f =>
             Cardinality(P(k, f)) = Cardinality(P(k - 1, f)) + posts[k].recurrence
  BY OnePostMore
<1>4. \A f \in FileIds : P(0, f) = {}
  <2>1. 1 .. 0 = {}
    OBVIOUS
  <2> QED
    BY <2>1 DEF PlacesPosted
<1>5. \A f \in FileIds : P(n, f) = Places({w}, f)
  <2> SUFFICES ASSUME NEW f \in FileIds, NEW e \in Places({w}, f)
               PROVE  \E j \in 1 .. n : posts[j].file_id = f /\ posts[j].doc_id = e[1] - 1
    BY DEF PlacesPosted
  <2>1. PICK l \in DOMAIN Lines(f) : \E i \in InLine({w}, Lines(f)[l]) : e = <<l, i>>
    BY PlacesOfLine
  <2>2. Lines(f) \in Seq(Seq(Words))
    BY NonEmptyLines DEF IndexInv, TypeOK, Lines, NonEmpty
  <2>3. Lines(f)[l] \in Seq(Words)
    BY <2>2
  <2>4. Times(w, Lines(f)[l]) > 0
    BY <2>1, <2>3, TimesAppend
  <2>5. PostOf(w, f, l) \in Containing(w)
    BY <2>4 DEF Containing
  <2>6. PICK j \in 1 .. n : posts[j] = PostOf(w, f, l)
    BY <1>2, <2>5 DEF ToSet
  <2> QED
    BY <2>1, <2>6 DEF PostOf
<1> HIDE DEF n, P
<1>6. /\ 0 \in 0 .. n /\ n \in 0 .. n
      /\ \A k \in 1 .. n : k \in 0 .. n /\ k - 1 \in 0 .. n
  BY <1>2
<1>7. 0 .. n \subseteq T
  <2>1. 0 \in T
    BY <1>4, <1>6, FS_EmptySet
  <2>2. \A k \in 1 .. n : k - 1 \in T => k \in T
    BY <1>3, <1>6
  <2> HIDE DEF T
  <2> QED
    BY <1>2, <2>1, <2>2, UpTo
<1>8. \A k \in 0 .. n : \A f \in FileIds :
        IsFiniteSet(P(k, f)) /\ Cardinality(P(k, f)) \in Nat
  BY <1>7, FS_CardinalityType
<1>9. C \in [0 .. n -> [FileIds -> Nat]]
  BY <1>8
<1>10. \A k \in 0 .. n : \A f \in FileIds : C[k][f] = Cardinality(P(k, f))
  OBVIOUS
<1> HIDE DEF C, T
<1>11. \A f \in FileIds : C[0][f] = 0
  BY <1>4, <1>6, <1>10, FS_EmptySet
<1>12. \A k \in 1 .. n : \A f \in FileIds :
         C[k][f] = IF f = posts[k].file_id THEN C[k-1][f] + posts[k].recurrence ELSE C[k-1][f]
  BY <1>3, <1>6, <1>8, <1>10
<1>13. CountsBy(C, posts)
  BY <1>11, <1>12 DEF CountsBy, n
<1>14. \A f \in FileIds : C[n][f] = Count(w, f)
  BY <1>5, <1>6, <1>10 DEF Count
<1> QED
  BY <1>9, <1>13, <1>14 DEF n

\* The states of the loop of MaxRecurrenceFile and MinRecurrenceFile.
Searching == [id : FileIds \cup {-1}, best : Nat, curr_id : FileIds \cup {-1}, curr : Nat]

\* What Settle changes.
LEMMA SettleTypes ==
  ASSUME NEW s \in Searching, NEW sign
  PROVE  /\ Settle(s, sign) \in Searching
         /\ Settle(s, sign).curr_id = s.curr_id /\ Settle(s, sign).curr = s.curr
         /\ Preferred(s, sign) =>
              Settle(s, sign).id = s.curr_id /\ Settle(s, sign).best = s.curr
         /\ ~Preferred(s, sign) => Settle(s, sign) = s
BY DEF Searching, Settle

\* The loop stays in its states.
LEMMA VisitTypes ==
  ASSUME NEW s \in Searching, NEW sign, NEW p \in Post
  PROVE  Visit(s, p, sign) \in Searching
<1>1. p.file_id \in FileIds /\ p.recurrence \in Nat
  BY DEF Post
<1>2. ASSUME NEW x \in Searching PROVE [x EXCEPT !.curr = @ + p.recurrence] \in Searching
  <2>1. x.curr + p.recurrence \in Nat
    BY <1>1 DEF Searching
  <2> QED
    BY <2>1 DEF Searching
<1>3. ASSUME NEW x \in Searching
      PROVE  [x EXCEPT !.curr_id = p.file_id, !.curr = p.recurrence] \in Searching
  BY <1>1 DEF Searching
<1> QED
  BY <1>2, <1>3, SettleTypes DEF Visit

\* s names the file that counts most (least) among those of S.
Chosen(s, S, C, sign) ==
  IF s.id = -1 THEN S = {}
  ELSE /\ s.id \in S /\ s.best = C[s.id]
       /\ \A f \in S : \/ sign * C[f] < sign * C[s.id]
                       \/ C[f] = C[s.id] /\ Rank[f] >= Rank[s.id]

\* A choice stands as long as the counts do.
LEMMA ChosenStays ==
  ASSUME NEW s, NEW t, NEW S, NEW C, NEW D, NEW sign, Chosen(s, S, C, sign),
         t.id = s.id, t.best = s.best, \A f \in S : D[f] = C[f]
  PROVE  Chosen(t, S, D, sign)
BY DEF Chosen

\* Settle takes the current file into account.
LEMMA SettleChooses ==
  ASSUME NEW s \in Searching, NEW C \in [FileIds -> Nat], NEW sign \in {1, -1},
         NEW S \in SUBSET FileIds, s.curr_id \in FileIds, s.curr = C[s.curr_id],
         Chosen(s, S, C, sign)
  PROVE  /\ Chosen(Settle(s, sign), S \cup {s.curr_id}, C, sign)
         /\ Settle(s, sign).id # -1
<1> DEFINE t == Settle(s, sign)
           c == s.curr_id
           v(f) == sign * C[f]
           Beats(g, f) == v(f) < v(g) \/ (v(f) = v(g) /\ Rank[f] >= Rank[g])
<1>1. \A f \in FileIds : C[f] \in Nat /\ Rank[f] \in Nat /\ v(f) \in Int /\ f # -1
  BY FileAssumption DEF FileIds
<1>2. \A f, g \in FileIds : v(f) = v(g) <=> C[f] = C[g]
  BY <1>1
<1>3. \A f, g, h \in FileIds : Beats(h, g) /\ Beats(g, f) => Beats(h, f)
  BY <1>1
<1>4. \A f \in FileIds : Beats(f, f)
  BY <1>1
<1>5. \A r, T : Chosen(r, T, C, sign) <=>
        IF r.id = -1 THEN T = {}
        ELSE /\ r.id \in T /\ r.best = C[r.id]
             /\ \A f \in T : \/ v(f) < v(r.id)
                             \/ C[f] = C[r.id] /\ Rank[f] >= Rank[r.id]
  BY DEF Chosen
<1>6. /\ Preferred(s, sign) => t.id = c /\ t.best = C[c]
      /\ ~Preferred(s, sign) => t = s
  BY SettleTypes
<1>7. s.id # -1 => /\ s.id \in S /\ s.best = C[s.id]
                   /\ Preferred(s, sign) <=>
                        v(c) > v(s.id) \/ (v(c) = v(s.id) /\ Rank[c] < Rank[s.id])
  BY <1>2, <1>5 DEF Preferred
<1>8. s.id = -1 => Preferred(s, sign) /\ S = {}
  BY <1>5 DEF Preferred
<1>9. s.id # -1 => \A f \in S : Beats(s.id, f)
  BY <1>2, <1>5
<1> HIDE DEF t, c, v, Beats
<1>10. c \in FileIds
  BY DEF c
<1>11. CASE Preferred(s, sign)
  <2>1. \A f \in S : Beats(c, f)
    <3>1. CASE s.id = -1
      BY <1>8, <3>1
    <3>2. CASE s.id # -1
      <4>1. Beats(c, s.id)
        BY <1>1, <1>7, <1>10, <1>11, <3>2 DEF Beats
      <4> QED
        BY <1>3, <1>7, <1>9, <1>10, <3>2, <4>1
    <3> QED
      BY <3>1, <3>2
  <2>2. \A f \in S \cup {c} : Beats(c, f)
    BY <1>4, <1>10, <2>1
  <2> QED
    BY <1>1, <1>2, <1>5, <1>6, <1>10, <1>11, <2>2 DEF Beats, t, c
<1>12. CASE ~Preferred(s, sign)
  <2>1. s.id # -1 /\ s.id \in S /\ t = s
    BY <1>6, <1>7, <1>8, <1>12
  <2>2. Beats(s.id, c)
    BY <1>1, <1>7, <1>10, <1>12, <2>1 DEF Beats
  <2>3. \A f \in S \cup {c} : Beats(s.id, f)
    BY <1>9, <2>1, <2>2
  <2> QED
    BY <1>2, <1>5, <1>7, <1>10, <2>1, <2>3 DEF Beats, t, c
<1> QED
  BY <1>11, <1>12

\* V is the sequence of states of the loop over a list of posts.
Start == [id |-> -1, best |-> 0, curr_id |-> -1, curr |-> 0]
SearchBy(V, posts, sign) ==
  V[0] = Start /\ \A k \in 1 .. Len(posts) : V[k] = Visit(V[k-1], posts[k], sign)

\* The states RecurrenceFile is built from.
LEMMA SearchBuilt ==
  ASSUME IndexInv, NEW w \in Words, NEW posts, posts = plist[w].post, NEW sign
  PROVE  \E V \in [0 .. Len(posts) -> Searching] :
           SearchBy(V, posts, sign) /\ RecurrenceFile(w, sign) = Settle(V[Len(posts)], sign)
<1> DEFINE n == Len(posts)
           A == Searching
           turn(x, k) == Visit(x, posts[k], sign)
           G == [p \in A \X Nat |-> IF p[2] \in 1 .. n THEN turn(p[1], p[2]) ELSE p[1]]
           Solves(v) == v = [k \in 0 .. n |->
                               IF k = 0 THEN [id |-> -1, best |-> 0, curr_id |-> -1, curr |-> 0]
                               ELSE Visit(v[k-1], posts[k], sign)]
           V == CHOOSE v : Solves(v)
<1>1. n \in Nat /\ n = plist[w].doc_frequency /\ \A k \in 1 .. n : posts[k] \in Post
  <2>1. posts \in Seq(Post)
    BY DEF IndexInv, TypeOK, PostingList
  <2>2. n = plist[w].doc_frequency
    BY DEF IndexInv, PostsInv
  <2> QED
    BY <2>1, <2>2
<1>2. \A x \in A : \A k \in 1 .. n : turn(x, k) \in A
  BY <1>1, VisitTypes
<1>3. Start \in A
  BY DEF Start, Searching
<1>4. RecurrenceFile(w, sign) = Settle(V[n], sign)
  BY <1>1 DEF RecurrenceFile
<1> HIDE DEF n, A, turn
<1>5. G \in [A \X Nat -> A]
  BY <1>2
<1>6. ASSUME NEW x \in A, NEW k \in 1 .. n PROVE G[<<x, k>>] = turn(x, k)
  <2>1. <<x, k>> \in A \X Nat /\ <<x, k>>[1] = x /\ <<x, k>>[2] = k
    BY <1>1
  <2> QED
    BY <2>1, Zenon
<1> HIDE DEF G
<1>7. PICK g \in [0 .. n -> A] : Recursive(g, n, Start, G)
  BY <1>1, <1>3, <1>5, Recursion
<1>8. \A k \in 1 .. n : k - 1 \in 0 .. n /\ g[k-1] \in A /\ k \in 0 .. n /\ k # 0
  BY <1>1
<1>9. ASSUME NEW k \in 1 .. n PROVE g[k] = turn(g[k-1], k)
  <2>1. g[k] = G[<<g[k-1], k>>] /\ g[k-1] \in A
    BY <1>7, <1>8 DEF Recursive
  <2> QED
    BY <1>6, <2>1
<1>10. Solves(g)
  <2>1. g[0] = Start /\ \A k \in 0 .. n : k # 0 => k \in 1 .. n
    BY <1>7 DEF Recursive
  <2>2. \A k \in 0 .. n : g[k] = IF k = 0 THEN Start ELSE turn(g[k-1], k)
    BY <1>9, <2>1
  <2> QED
    BY <2>2 DEF Start, turn
<1>11. Solves(V)
  BY <1>10
<1>12. \A k \in 0 .. n : V[k] = IF k = 0 THEN Start ELSE turn(V[k-1], k)
  BY <1>11 DEF Start, turn
<1>13. V = [k \in 0 .. n |-> V[k]]
  BY <1>11
<1> HIDE DEF V, Solves
<1>14. 0 \in 0 .. n /\ V[0] = Start
  BY <1>1, <1>12
<1>15. \A k \in 1 .. n : V[k] = turn(V[k-1], k)
  BY <1>8, <1>12
<1> DEFINE T == {k \in 0 .. n : V[k] \in A}
<1>16. 0 \in T
  BY <1>3, <1>14
<1>17. ASSUME NEW k \in 1 .. n, k - 1 \in T PROVE k \in T
  <2>1. V[k-1] \in A
    BY <1>17
  <2> QED
    BY <1>2, <1>8, <1>15, <2>1
<1> HIDE DEF T
<1>18. 0 .. n \subseteq T
  BY <1>1, <1>16, <1>17, UpTo
<1>19. V \in [0 .. n -> A]
  BY <1>13, <1>18 DEF T
<1>20. SearchBy(V, posts, sign)
  BY <1>14, <1>15 DEF SearchBy, turn, n
<1> QED
  BY <1>4, <1>19, <1>20 DEF n, A

\* What holds after the turn for post p: its file is the current one and is counted
\* so far, the files before it, which are those behind it, have been compared.
Compared(s, p, C, sign) ==
  /\ s.curr_id = p.file_id /\ s.curr = C[s.curr_id] /\ C[s.curr_id] > 0
  /\ \A f \in FileIds : C[f] > 0 => f >= s.curr_id
  /\ Chosen(s, {f \in FileIds : C[f] > 0 /\ f # s.curr_id}, C, sign)

\* D is C with the places of one post more.
Counted(D, C, p) ==
  \A f \in FileIds : D[f] = IF f = p.file_id THEN C[f] + p.recurrence ELSE C[f]

\* The first post makes its file the current one, with none to compare it with.
LEMMA FirstTurn ==
  ASSUME NEW p \in Post, p.recurrence > 0, NEW sign,
         NEW C \in [FileIds -> Nat], NEW D \in [FileIds -> Nat],
         \A f \in FileIds : C[f] = 0, Counted(D, C, p)
  PROVE  Compared(Visit(Start, p, sign), p, D, sign)
<1> DEFINE t == Visit(Start, p, sign)
           f0 == p.file_id
<1>1. f0 \in FileIds /\ p.recurrence \in Nat /\ f0 # -1 /\ f0 \in Int
  BY FileAssumption DEF Post, FileIds
<1>2. t.id = -1 /\ t.curr_id = f0 /\ t.curr = p.recurrence
  BY <1>1 DEF Visit, Start
<1>3. D[f0] = p.recurrence /\ \A f \in FileIds : f # f0 => D[f] = 0
  BY <1>1 DEF Counted
<1> HIDE DEF t, f0
<1>4. {f \in FileIds : D[f] > 0 /\ f # f0} = {}
  BY <1>3
<1>5. \A f \in FileIds : D[f] > 0 => f >= f0
  BY <1>1, <1>3
<1>6. Chosen(t, {f \in FileIds : D[f] > 0 /\ f # t.curr_id}, D, sign)
  BY <1>2, <1>4 DEF Chosen
<1>7. Compared(t, p, D, sign)
  BY <1>2, <1>3, <1>5, <1>6 DEF Compared, f0
<1> QED
  BY <1>7 DEF t

\* Another post about the current file adds to its count; a post about another one
\* settles the current file, about which no more posts follow.
LEMMA NextTurn ==
  ASSUME NEW p \in Post, NEW q \in Post, q.recurrence > 0, q.file_id <= p.file_id,
         NEW sign \in {1, -1}, NEW s \in Searching,
         NEW C \in [FileIds -> Nat], NEW D \in [FileIds -> Nat],
         Compared(s, p, C, sign), Counted(D, C, q)
  PROVE  Compared(Visit(s, q, sign), q, D, sign)
<1> DEFINE t == Visit(s, q, sign)
           c == p.file_id
           d == q.file_id
           S == {f \in FileIds : C[f] > 0 /\ f # c}
<1>1. /\ c \in FileIds /\ d \in FileIds /\ c \in Int /\ d \in Int /\ d <= c
      /\ c # -1 /\ d # -1 /\ q.recurrence \in Nat /\ q.recurrence > 0
      /\ \A f \in FileIds : f \in Int /\ C[f] \in Nat /\ D[f] \in Nat
  <2>1. c \in FileIds /\ d \in FileIds /\ q.recurrence \in Nat
    BY DEF Post
  <2>2. \A f \in FileIds : f \in Int /\ f # -1
    BY FileAssumption DEF FileIds
  <2> QED
    BY <2>1, <2>2
<1>2. /\ s.curr_id = c /\ s.curr = C[c] /\ C[c] > 0
      /\ \A f \in FileIds : C[f] > 0 => f >= c
      /\ Chosen(s, S, C, sign)
  BY DEF Compared
<1>3. /\ D[d] = C[d] + q.recurrence
      /\ \A f \in FileIds : f # d => D[f] = C[f]
  BY <1>1 DEF Counted
<1>4. \A f \in FileIds : D[f] > 0 => f >= d
  BY <1>1, <1>2, <1>3
<1>5. CASE d = c
  <2>1. t = [s EXCEPT !.curr = @ + q.recurrence]
    BY <1>2, <1>5 DEF Visit
  <2>2. t.id = s.id /\ t.best = s.best /\ t.curr_id = d /\ t.curr = D[d]
    BY <1>2, <1>3, <1>5, <2>1 DEF Searching
  <2> HIDE DEF t, c, d
  <2>3. {f \in FileIds : D[f] > 0 /\ f # d} = S
    BY <1>3, <1>5
  <2>4. \A f \in S : D[f] = C[f]
    BY <1>3, <1>5
  <2> HIDE DEF S
  <2>5. Chosen(t, S, D, sign)
    BY <1>2, <2>2, <2>4, ChosenStays
  <2>6. D[d] > 0
    BY <1>1, <1>3
  <2>7. Chosen(t, {f \in FileIds : D[f] > 0 /\ f # t.curr_id}, D, sign)
    BY <2>2, <2>3, <2>5
  <2>8. Compared(t, q, D, sign)
    BY <1>4, <2>2, <2>6, <2>7 DEF Compared, d
  <2> QED
    BY <2>8 DEF t
<1>6. CASE d # c
  <2> DEFINE u == Settle(s, sign)
  <2>1. C[d] = 0
    BY <1>1, <1>2, <1>6
  <2>2. t = [u EXCEPT !.curr_id = d, !.curr = q.recurrence]
    BY <1>1, <1>2, <1>6 DEF Visit
  <2>3. u \in Searching
    BY SettleTypes
  <2> HIDE DEF u
  <2>4. t.id = u.id /\ t.best = u.best /\ t.curr_id = d /\ t.curr = D[d]
    BY <1>1, <1>3, <2>1, <2>2, <2>3 DEF Searching
  <2>5. Chosen(u, S \cup {c}, C, sign)
    <3>1. S \in SUBSET FileIds
      OBVIOUS
    <3> HIDE DEF S, c
    <3> QED
      BY <1>1, <1>2, <3>1, SettleChooses DEF u
  <2> HIDE DEF t, c, d
  <2>6. {f \in FileIds : D[f] > 0 /\ f # d} = S \cup {c}
    <3>1. \A f \in FileIds : D[f] > 0 /\ f # d <=> C[f] > 0
      BY <1>1, <1>3, <2>1
    <3>2. \A f \in FileIds : f \in S <=> C[f] > 0 /\ f # c
      OBVIOUS
    <3>3. \A f \in FileIds : D[f] > 0 /\ f # d <=> f \in S \/ f = c
      BY <1>2, <3>1, <3>2
    <3>4. S \subseteq FileIds
      OBVIOUS
    <3> HIDE DEF S
    <3> QED
      BY <1>1, <3>3, <3>4
  <2>7. \A f \in S \cup {c} : D[f] = C[f]
    BY <1>1, <1>3, <2>6
  <2> DEFINE R == S \cup {c}
  <2> HIDE DEF S, R
  <2>8. Chosen(t, R, D, sign)
    BY <2>4, <2>5, <2>7, ChosenStays DEF R
  <2>9. D[d] > 0
    BY <1>1, <1>3
  <2>10. Chosen(t, {f \in FileIds : D[f] > 0 /\ f # t.curr_id}, D, sign)
    BY <2>4, <2>6, <2>8 DEF R
  <2>11. Compared(t, q, D, sign)
    BY <1>4, <2>4, <2>9, <2>10 DEF Compared, d
  <2> QED
    BY <2>11 DEF t
<1> QED
  BY <1>5, <1>6

\* PostingList.h:53-55: /maxcount (/mincount) names a file that contains the word
\* most (least) among those that contain it, the first in the alphabet of several,
\* with the right count: one pass over the list is enough because the posts about
\* a file follow one another.
THEOREM CountsAnswered == Spec => []CountAnswersRight
<1>1. ASSUME IndexInv, NEW w \in Words, NEW sign \in {1, -1}, Known(w)
      PROVE  LET r    == RecurrenceFile(w, sign)
                 With == {f \in FileIds : Count(w, f) > 0}
             IN /\ r.id \in With /\ r.best = Count(w, r.id)
                /\ \A f \in With \ {r.id} :
                     \/ sign * Count(w, f) < sign * r.best
                     \/ Count(w, f) = r.best /\ Rank[f] >= Rank[r.id]
  <2> DEFINE posts == plist[w].post
             n == Len(posts)
             r == RecurrenceFile(w, sign)
             With == {f \in FileIds : Count(w, f) > 0}
  <2>1. posts \in Seq(Post)
    BY <1>1 DEF IndexInv, TypeOK, PostingList
  <2>2. Sorted(posts) /\ ToSet(posts) = Containing(w) /\ posts # <<>>
    BY <1>1 DEF IndexInv, PostsInv, Known
  <2>3. DOMAIN posts = 1 .. n /\ n \in Nat /\ n # 0
    BY <2>1, <2>2
  <2>4. PICK C \in [0 .. n -> [FileIds -> Nat]] :
               CountsBy(C, posts) /\ \A f \in FileIds : C[n][f] = Count(w, f)
    BY <1>1, PostsCounted
  <2>5. PICK V \in [0 .. n -> Searching] : SearchBy(V, posts, sign) /\ r = Settle(V[n], sign)
    BY <1>1, SearchBuilt
  <2>6. \A k \in 1 .. n : posts[k] \in Post /\ posts[k].recurrence > 0
    <3>1. \A k \in 1 .. n : posts[k] \in Containing(w) /\ posts[k] \in Post
      BY <2>1, <2>2, <2>3 DEF ToSet
    <3> QED
      BY <1>1, <3>1, PostOfLine
  <2>7. \A k \in 1 .. n : k - 1 \in 1 .. n => posts[k].file_id <= posts[k-1].file_id
    <3> SUFFICES ASSUME NEW k \in 1 .. n, k - 1 \in 1 .. n
                 PROVE  posts[k].file_id <= posts[k-1].file_id
      OBVIOUS
    <3>1. Before(posts[k], posts[k-1])
      BY <2>2, <2>3 DEF Sorted
    <3>2. posts[k].file_id \in Int /\ posts[k-1].file_id \in Int
      BY <2>6, FileAssumption DEF Post, FileIds
    <3> QED
      BY <3>1, <3>2 DEF Before
  <2>8. /\ \A f \in FileIds : C[0][f] = 0
        /\ \A k \in 1 .. n : Counted(C[k], C[k-1], posts[k])
    BY <2>4 DEF CountsBy, Counted
  <2>9. V[0] = Start /\ \A k \in 1 .. n : V[k] = Visit(V[k-1], posts[k], sign)
    BY <2>5 DEF SearchBy
  <2> HIDE DEF posts, n, r
  <2>10. /\ 0 \in 0 .. n /\ n \in 0 .. n /\ 1 \in 1 .. n /\ n \in 1 .. n
         /\ \A k \in 1 .. n : k \in 0 .. n /\ k - 1 \in 0 .. n /\ k # 0
         /\ \A k \in 1 .. n : k = 1 \/ k - 1 \in 1 .. n
    BY <2>3
  <2>11. \A k \in 0 .. n : C[k] \in [FileIds -> Nat] /\ V[k] \in Searching
    OBVIOUS
  <2> DEFINE T == {k \in 0 .. n : k # 0 => Compared(V[k], posts[k], C[k], sign)}
  <2>12. 0 \in T
    BY <2>10
  <2>13. ASSUME NEW k \in 1 .. n, k - 1 \in T PROVE k \in T
    <3>1. /\ C[k-1] \in [FileIds -> Nat] /\ C[k] \in [FileIds -> Nat]
          /\ V[k-1] \in Searching /\ Counted(C[k], C[k-1], posts[k])
          /\ V[k] = Visit(V[k-1], posts[k], sign)
          /\ posts[k] \in Post /\ posts[k].recurrence > 0
      BY <2>6, <2>8, <2>9, <2>10, <2>11
    <3>2. CASE k = 1
      <4>1. V[k-1] = Start /\ \A f \in FileIds : C[k-1][f] = 0
        BY <2>8, <2>9, <3>2
      <4>2. Compared(V[k], posts[k], C[k], sign)
        BY <3>1, <4>1, FirstTurn
      <4> QED
        BY <2>10, <4>2
    <3>3. CASE k - 1 \in 1 .. n
      <4>1. /\ Compared(V[k-1], posts[k-1], C[k-1], sign)
            /\ posts[k-1] \in Post /\ posts[k].file_id <= posts[k-1].file_id
        BY <2>6, <2>7, <2>10, <2>13, <3>3
      <4>2. Compared(V[k], posts[k], C[k], sign)
        BY <3>1, <4>1, NextTurn
      <4> QED
        BY <2>10, <4>2
    <3> QED
      BY <2>10, <3>2, <3>3
  <2> HIDE DEF T
  <2>14. 0 .. n \subseteq T
    BY <2>3, <2>12, <2>13, UpTo
  <2> DEFINE D == C[n]
             s == V[n]
             S == {f \in FileIds : D[f] > 0 /\ f # s.curr_id}
  <2>15. Compared(s, posts[n], D, sign) /\ s \in Searching /\ D \in [FileIds -> Nat]
    BY <2>10, <2>11, <2>14 DEF T
  <2>16. r = Settle(s, sign) /\ \A f \in FileIds : D[f] = Count(w, f)
    BY <2>4, <2>5
  <2>17. posts[n].file_id \in FileIds
    BY <2>6, <2>10 DEF Post
  <2> HIDE DEF D, s
  <2>18. /\ s.curr_id \in FileIds /\ s.curr = D[s.curr_id] /\ D[s.curr_id] > 0
         /\ Chosen(s, S, D, sign) /\ S \in SUBSET FileIds
    BY <2>15, <2>17 DEF Compared
  <2>19. S \cup {s.curr_id} = With
    BY <2>16, <2>18
  <2> HIDE DEF S, With
  <2>20. Chosen(r, With, D, sign) /\ r.id # -1
    BY <2>15, <2>16, <2>18, <2>19, SettleChooses
  <2>21. /\ r.id \in With /\ r.best = D[r.id]
         /\ \A f \in With : \/ sign * D[f] < sign * D[r.id]
                            \/ D[f] = D[r.id] /\ Rank[f] >= Rank[r.id]
    BY <2>20 DEF Chosen
  <2>22. \A f \in With : f \in FileIds
    BY DEF With
  <2> QED
    BY <2>16, <2>21, <2>22 DEF r, With
<1>2. IndexInv => CountAnswersRight
  BY <1>1, Zenon DEF CountAnswersRight
<1> QED
  BY <1>2, IndexDescribesText, PTL

=============================================================================

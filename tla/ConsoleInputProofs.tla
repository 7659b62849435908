------------------------- MODULE ConsoleInputProofs -------------------------
(***************************************************************************)
(* How the console keeps in step with the lines the user types, for any    *)
(* lines, any number of them and any way of typing ahead.                  *)
(***************************************************************************)
EXTENDS ConsoleInput, SequenceTheorems, FiniteSetTheorems, WellFoundedInduction, TLAPS

-----------------------------------------------------------------------------
(* Induction over a set of numbers, as in StartupProofs. *)

LEMMA SetInduction ==
  ASSUME NEW T \in SUBSET Nat, 0 \in T, \A n \in T : n + 1 \in T
  PROVE  T = Nat
<1> DEFINE Rest == Nat \ T
           Less == {ss \in Nat \X Nat : ss[1] < ss[2]}
<1> SUFFICES ASSUME Rest # {} PROVE FALSE
  OBVIOUS
<1>1. IsWellFoundedOn(Less, Nat)
  BY NatLessThanWellFounded, Zenon DEF OpToRel
<1>2. \E x \in Rest : \A y \in Rest : ~(<<y, x>> \in Less)
  <2>1. Rest \subseteq Nat
    OBVIOUS
  <2> HIDE DEF Rest, Less
  <2> QED
    BY <1>1, <2>1, WFMin
<1>3. \A x, y \in Nat : y < x => <<y, x>> \in Less
  OBVIOUS
<1>4. PICK x \in Rest : \A y \in Rest : ~(y < x)
  <2>1. Rest \subseteq Nat
    OBVIOUS
  <2> HIDE DEF Rest, Less
  <2> QED
    BY <1>2, <1>3, <2>1
<1>5. x \in Nat /\ x # 0 /\ x - 1 \in Nat /\ x - 1 < x
  BY <1>4
<1>6. x - 1 \in T
  BY <1>4, <1>5
<1> QED
  BY <1>4, <1>5, <1>6

\* The first end of a line exists.
LEMMA MinExists ==
  ASSUME NEW S \in SUBSET Nat, S # {}
  PROVE  Min(S) \in S /\ \A n \in S : Min(S) <= n
<1> DEFINE T == {n \in Nat : \A m \in S : m > n}
<1>1. SUFFICES \E x \in S : \A n \in S : x <= n
  BY DEF Min
<1>2. SUFFICES ASSUME \A x \in S : \E n \in S : n < x
               PROVE  FALSE
  BY <1>1
<1>3. 0 \in T
  BY <1>2
<1>4. ASSUME NEW n \in T PROVE n + 1 \in T
  BY <1>2, <1>4
<1>5. T = Nat
  <2> HIDE DEF T
  <2>1. T \subseteq Nat
    BY DEF T
  <2> QED
    BY <1>3, <1>4, <2>1, SetInduction
<1>6. PICK m \in S : TRUE
  OBVIOUS
<1>7. m \in T /\ m \in Nat
  <2> HIDE DEF T
  <2> QED
    BY <1>5
<1> QED
  BY <1>7

-----------------------------------------------------------------------------
(* What was typed, as one text *)

\* The text up to line k, if text is what is before it.
Behind(ss, k, text) == IF k = 1 THEN ss[1] ELSE text \o ss[k]

\* The recursion FlattenSeq is defined by has a solution.
LEMMA FlattenBuilt ==
  ASSUME NEW S, NEW ss \in Seq(Seq(S)), ss # <<>>
  PROVE  \E f : /\ f \in [1 .. Len(ss) -> Seq(S)]
                /\ \A k \in 1 .. Len(ss) : f[k] = Behind(ss, k, f[k-1])
                /\ FlattenSeq(ss) = f[Len(ss)]
<1> DEFINE Solves(f, n) == f = [k \in 1 .. n |-> Behind(ss, k, f[k-1])]
           Solved == {n \in Nat : n <= Len(ss) => \E f : Solves(f, n)}
<1>1. Len(ss) \in Nat \ {0} /\ \A k \in 1 .. Len(ss) : ss[k] \in Seq(S)
  OBVIOUS
<1>2. 0 \in Solved
  <2>1. Solves([k \in 1 .. 0 |-> <<>>], 0)
    OBVIOUS
  <2> QED
    BY <2>1
<1>3. ASSUME NEW n \in Solved PROVE n + 1 \in Solved
  <2> SUFFICES ASSUME n + 1 <= Len(ss)
               PROVE  \E f : Solves(f, n + 1)
    BY <1>1
  <2>1. PICK f : Solves(f, n)
    BY <1>1
  <2> DEFINE g == [k \in 1 .. n+1 |-> IF k = n+1 THEN Behind(ss, n+1, f[n]) ELSE f[k]]
  <2>2. \A k \in 1 .. n : g[k] = f[k]
    OBVIOUS
  <2>3. \A k \in 1 .. n+1 : g[k] = Behind(ss, k, g[k-1])
    <3> HIDE DEF Solved
    <3> SUFFICES ASSUME NEW k \in 1 .. n+1
                 PROVE  g[k] = Behind(ss, k, g[k-1])
      OBVIOUS
    <3>1. n \in Nat
      BY DEF Solved
    <3>2. k = 1 \/ k-1 \in 1 .. n
      BY <3>1
    <3>3. CASE k = n+1
      BY <2>2, <3>1, <3>2, <3>3 DEF Behind
    <3>4. CASE k # n+1
      <4>1. k \in 1 .. n
        BY <3>1, <3>4
      <4>2. f[k] = Behind(ss, k, f[k-1])
        BY <2>1, <4>1
      <4> HIDE DEF g
      <4> QED
        BY <2>2, <3>2, <4>1, <4>2 DEF Behind
    <3> QED
      BY <3>3, <3>4
  <2>4. Solves(g, n+1)
    BY <2>3
  <2> QED
    BY <2>4
<1>4. \E f : Solves(f, Len(ss))
  <2>1. Solved = Nat
    <3>1. Solved \in SUBSET Nat
      OBVIOUS
    <3> HIDE DEF Solved
    <3> QED
      BY <1>2, <1>3, <3>1, SetInduction
  <2>2. Len(ss) \in Solved
    <3> HIDE DEF Solved
    <3> QED
      BY <1>1, <2>1
  <2> HIDE DEF Solves
  <2> QED
    BY <1>1, <2>2
<1> DEFINE F == CHOOSE f : Solves(f, Len(ss))
<1>5. Solves(F, Len(ss))
  BY <1>4
<1>6. FlattenSeq(ss) = F[Len(ss)]
  BY <1>1 DEF FlattenSeq, Behind
<1> HIDE DEF F
<1>7. \A k \in 1 .. Len(ss) : F[k] = Behind(ss, k, F[k-1])
  BY <1>5
<1> DEFINE Typed == {n \in Nat : n + 1 <= Len(ss) => F[n+1] \in Seq(S)}
<1>8. 0 \in Typed
  <2>1. 1 \in 1 .. Len(ss)
    BY <1>1
  <2>2. F[1] = ss[1]
    BY <1>7, <2>1 DEF Behind
  <2>3. F[0+1] \in Seq(S)
    BY <1>1, <2>1, <2>2
  <2> QED
    BY <2>3
<1>9. ASSUME NEW n \in Typed PROVE n + 1 \in Typed
  <2> SUFFICES ASSUME (n + 1) + 1 <= Len(ss)
               PROVE  F[(n+1)+1] \in Seq(S)
    OBVIOUS
  <2>1. (n+1)+1 \in 1 .. Len(ss) /\ n \in Nat /\ F[n+1] \in Seq(S)
    BY <1>1
  <2>2. F[(n+1)+1] = F[n+1] \o ss[(n+1)+1]
    <3> HIDE DEF Typed
    <3>1. (n+1)+1 # 1 /\ ((n+1)+1) - 1 = n+1
      BY <2>1
    <3> QED
      BY <1>7, <2>1, <3>1 DEF Behind
  <2>3. ss[(n+1)+1] \in Seq(S)
    BY <1>1, <2>1
  <2> HIDE DEF Typed
  <2> QED
    BY <2>1, <2>2, <2>3
<1>10. \A k \in 1 .. Len(ss) : F[k] \in Seq(S)
  <2>1. Typed = Nat
    <3>1. Typed \in SUBSET Nat
      OBVIOUS
    <3> HIDE DEF Typed
    <3> QED
      BY <1>8, <1>9, <3>1, SetInduction
  <2> SUFFICES ASSUME NEW k \in 1 .. Len(ss) PROVE F[k] \in Seq(S)
    OBVIOUS
  <2>2. k - 1 \in Nat /\ (k - 1) + 1 = k /\ k <= Len(ss)
    BY <1>1
  <2>3. k - 1 \in Typed
    <3> HIDE DEF Typed
    <3> QED
      BY <2>1, <2>2
  <2> QED
    BY <2>2, <2>3
<1>11. F \in [1 .. Len(ss) -> Seq(S)]
  BY <1>5, <1>10
<1> QED
  BY <1>6, <1>7, <1>11

LEMMA FlattenType ==
  ASSUME NEW S, NEW ss \in Seq(Seq(S))
  PROVE  FlattenSeq(ss) \in Seq(S) /\ (ss = <<>> => FlattenSeq(ss) = <<>>)
<1>1. CASE ss = <<>>
  BY <1>1 DEF FlattenSeq
<1>2. CASE ss # <<>>
  <2>1. Len(ss) \in 1 .. Len(ss)
    BY <1>2
  <2>2. PICK f : f \in [1 .. Len(ss) -> Seq(S)] /\ FlattenSeq(ss) = f[Len(ss)]
    BY <1>2, FlattenBuilt
  <2> QED
    BY <1>2, <2>1, <2>2
<1> QED
  BY <1>1, <1>2

\* One more line comes behind the others.
LEMMA FlattenAppend ==
  ASSUME NEW S, NEW ss \in Seq(Seq(S)), NEW s \in Seq(S)
  PROVE  FlattenSeq(Append(ss, s)) = FlattenSeq(ss) \o s
<1> DEFINE tt == Append(ss, s)
           n  == Len(ss)
<1>1. /\ n \in Nat /\ tt \in Seq(Seq(S)) /\ tt # <<>> /\ Len(tt) = n + 1
      /\ tt[n + 1] = s /\ \A k \in 1 .. n : tt[k] = ss[k]
  BY AppendProperties
<1> HIDE DEF tt, n
<1>2. PICK g : /\ g \in [1 .. n+1 -> Seq(S)]
               /\ \A k \in 1 .. n+1 : g[k] = Behind(tt, k, g[k-1])
               /\ FlattenSeq(tt) = g[n+1]
  <2>1. PICK g : /\ g \in [1 .. Len(tt) -> Seq(S)]
                 /\ \A k \in 1 .. Len(tt) : g[k] = Behind(tt, k, g[k-1])
                 /\ FlattenSeq(tt) = g[Len(tt)]
    <3>1. tt \in Seq(Seq(S)) /\ tt # <<>>
      BY <1>1
    <3> QED
      BY <3>1, FlattenBuilt
  <2>2. Len(tt) = n+1
    BY <1>1
  <2> QED
    BY <2>1, <2>2, Zenon
<1>3. CASE n = 0
  <2>1. ss = <<>> /\ FlattenSeq(ss) = <<>>
    BY <1>3, EmptySeq, FlattenType DEF n
  <2>2. g[1] = s
    BY <1>1, <1>2, <1>3 DEF Behind
  <2> QED
    BY <1>2, <1>3, <2>1, <2>2 DEF tt
<1>4. CASE n # 0
  <2>1. PICK f : /\ f \in [1 .. n -> Seq(S)]
                 /\ \A k \in 1 .. n : f[k] = Behind(ss, k, f[k-1])
                 /\ FlattenSeq(ss) = f[n]
    <3>1. ss # <<>>
      BY <1>4 DEF n
    <3> QED
      BY <3>1, FlattenBuilt DEF n
  <2> DEFINE Same == {m \in Nat : m + 1 <= n => g[m+1] = f[m+1]}
  <2>2. 0 \in Same
    <3>1. 1 \in 1 .. n /\ 1 \in 1 .. n+1
      BY <1>1, <1>4
    <3>2. g[1] = f[1]
      BY <1>1, <1>2, <2>1, <3>1 DEF Behind
    <3> QED
      BY <3>2
  <2>3. ASSUME NEW m \in Same PROVE m + 1 \in Same
    <3> SUFFICES ASSUME (m+1)+1 <= n PROVE g[(m+1)+1] = f[(m+1)+1]
      OBVIOUS
    <3>1. /\ m \in Nat /\ g[m+1] = f[m+1]
          /\ (m+1)+1 \in 1 .. n /\ (m+1)+1 \in 1 .. n+1 /\ (m+1)+1 # 1 /\ ((m+1)+1) - 1 = m+1
      BY <1>1
    <3> HIDE DEF Same
    <3>2. g[(m+1)+1] = g[m+1] \o tt[(m+1)+1] /\ f[(m+1)+1] = f[m+1] \o ss[(m+1)+1]
      BY <1>2, <2>1, <3>1 DEF Behind
    <3> QED
      BY <1>1, <3>1, <3>2
  <2>4. g[n] = f[n]
    <3>1. Same = Nat
      <4>1. Same \in SUBSET Nat
        OBVIOUS
      <4> HIDE DEF Same
      <4> QED
        BY <2>2, <2>3, <4>1, SetInduction
    <3>2. n - 1 \in Nat /\ (n - 1) + 1 = n
      BY <1>1, <1>4
    <3>3. n - 1 \in Same
      <4> HIDE DEF Same
      <4> QED
        BY <3>1, <3>2
    <3> QED
      BY <3>2, <3>3
  <2>5. g[n+1] = g[n] \o s
    <3>1. n+1 \in 1 .. n+1 /\ n+1 # 1 /\ (n+1) - 1 = n
      BY <1>1, <1>4
    <3> QED
      BY <1>1, <1>2, <3>1 DEF Behind
  <2> QED
    BY <1>2, <2>1, <2>4, <2>5 DEF tt
<1> QED
  BY <1>3, <1>4

\* The rest of a rest, in places of the whole.
LEMMA FromFrom ==
  ASSUME NEW s \in Seq(STRING), NEW p \in 0 .. Len(s)
  PROVE  /\ From(s, p+1) \in Seq(STRING)
         /\ Len(From(s, p+1)) = Len(s) - p
         /\ \A j \in 1 .. Len(s) - p : From(s, p+1)[j] = s[p + j]
         /\ \A k \in 1 .. Len(s) - p + 1 : From(From(s, p+1), k) = From(s, p + k)
<1>1. Len(s) \in Nat /\ p \in Nat /\ p <= Len(s)
  OBVIOUS
<1>2. ASSUME NEW q \in 0 .. Len(s)
      PROVE  /\ From(s, q+1) \in Seq(STRING)
             /\ Len(From(s, q+1)) = Len(s) - q
             /\ \A j \in 1 .. Len(s) - q : From(s, q+1)[j] = s[q + j]
  <2>1. \A i \in q+1 .. Len(s) : s[i] \in STRING
    BY <1>1
  <2>2. /\ From(s, q+1) \in Seq(STRING)
        /\ Len(From(s, q+1)) = IF q+1 <= Len(s) THEN Len(s)-(q+1)+1 ELSE 0
        /\ \A i \in 1 .. Len(s)-(q+1)+1 : From(s, q+1)[i] = s[(q+1)+i-1]
    BY <1>1, <2>1, SubSeqProperties DEF From
  <2>3. \A j \in 1 .. Len(s) - q : j \in 1 .. Len(s)-(q+1)+1 /\ (q+1)+j-1 = q + j
    BY <1>1
  <2> QED
    BY <1>1, <2>2, <2>3
<1>3. ASSUME NEW k \in 1 .. Len(s) - p + 1
      PROVE  From(From(s, p+1), k) = From(s, p + k)
  <2> DEFINE t == From(s, p+1)
  <2>1. t \in Seq(STRING) /\ Len(t) = Len(s) - p /\ \A j \in 1 .. Len(s) - p : t[j] = s[p + j]
    BY <1>2
  <2>2. p + k - 1 \in 0 .. Len(s) /\ (p + k - 1) + 1 = p + k
    BY <1>1
  <2>3. /\ From(s, p+k) \in Seq(STRING)
        /\ Len(From(s, p+k)) = Len(s) - (p + k - 1)
        /\ \A j \in 1 .. Len(s) - (p + k - 1) : From(s, p+k)[j] = s[(p + k - 1) + j]
    BY <1>2, <2>2
  <2> HIDE DEF t
  <2>4. \A i \in k .. Len(t) : t[i] \in STRING
    BY <2>1
  <2>5. /\ From(t, k) \in Seq(STRING)
        /\ Len(From(t, k)) = IF k <= Len(t) THEN Len(t) - k + 1 ELSE 0
        /\ \A i \in 1 .. Len(t) - k + 1 : From(t, k)[i] = t[k + i - 1]
    BY <1>1, <2>1, <2>4, SubSeqProperties DEF From
  <2>6. Len(From(t, k)) = Len(From(s, p+k)) /\ Len(From(t, k)) = Len(t) - k + 1
    BY <1>1, <2>1, <2>3, <2>5
  <2>7. \A i \in 1 .. Len(t) - k + 1 : From(t, k)[i] = From(s, p+k)[i]
    <3> SUFFICES ASSUME NEW i \in 1 .. Len(t) - k + 1
                 PROVE  From(t, k)[i] = From(s, p+k)[i]
      OBVIOUS
    <3>1. k + i - 1 \in 1 .. Len(s) - p /\ i \in 1 .. Len(s) - (p + k - 1)
          /\ p + (k + i - 1) = (p + k - 1) + i
      BY <1>1, <2>1
    <3> QED
      BY <2>1, <2>3, <2>5, <3>1
  <2>8. From(t, k) = From(s, p+k)
    BY <2>3, <2>5, <2>6, <2>7, SeqEqual
  <2> QED
    BY <2>8 DEF t
<1> QED
  BY <1>2, <1>3

-----------------------------------------------------------------------------
(* What the functions that read leave of their input *)

\* Input is there up to the end of a line or not at all, and words are apart.
Whole(s) ==
  /\ s \in Seq(STRING)
  /\ \A k \in 1 .. Len(s) : s[k] # NULL
  /\ \A k \in 1 .. Len(s) - 1 : s[k] \in Separators \/ s[k+1] \in Separators
  /\ s # <<>> => s[Len(s)] = "\n"

LEMMA NewlineFound ==
  ASSUME NEW s, Whole(s), s # <<>>
  PROVE  /\ NewlineAt(s) \in 1 .. Len(s)
         /\ s[NewlineAt(s)] = "\n"
         /\ \A k \in 1 .. Len(s) : s[k] = "\n" => NewlineAt(s) <= k
<1> DEFINE ends == {k \in DOMAIN s : s[k] = "\n"}
<1>1. DOMAIN s = 1 .. Len(s) /\ Len(s) \in Nat \ {0} /\ s[Len(s)] = "\n"
  BY EmptySeq DEF Whole
<1>2. ends \in SUBSET Nat /\ ends # {}
  <2>1. Len(s) \in ends
    BY <1>1
  <2> QED
    BY <1>1, <2>1
<1>3. NewlineAt(s) = Min(ends)
  BY DEF NewlineAt
<1> HIDE DEF ends
<1>4. Min(ends) \in ends /\ \A n \in ends : Min(ends) <= n
  BY <1>2, MinExists
<1> QED
  BY <1>1, <1>3, <1>4 DEF ends

\* The rest of whole input is whole.
LEMMA RestWhole ==
  ASSUME NEW s, Whole(s), NEW k \in 1 .. Len(s) + 1
  PROVE  /\ Whole(From(s, k)) /\ Len(From(s, k)) = Len(s) - k + 1
         /\ \A j \in 1 .. Len(s) - k + 1 : From(s, k)[j] = s[k + j - 1]
<1>1. s \in Seq(STRING) /\ Len(s) \in Nat
  BY DEF Whole
<1>2. k - 1 \in 0 .. Len(s) /\ (k - 1) + 1 = k /\ Len(s) - (k - 1) = Len(s) - k + 1
  BY <1>1
<1>3. /\ From(s, k) \in Seq(STRING) /\ Len(From(s, k)) = Len(s) - k + 1
      /\ \A j \in 1 .. Len(s) - k + 1 : From(s, k)[j] = s[(k - 1) + j]
  <2> DEFINE p == k - 1
  <2>1. p \in 0 .. Len(s) /\ p + 1 = k /\ Len(s) - p = Len(s) - k + 1
    BY <1>2
  <2> HIDE DEF p
  <2>2. /\ From(s, p+1) \in Seq(STRING) /\ Len(From(s, p+1)) = Len(s) - p
        /\ \A j \in 1 .. Len(s) - p : From(s, p+1)[j] = s[p + j]
    BY <1>1, <2>1, FromFrom
  <2>3. /\ From(s, k) \in Seq(STRING) /\ Len(From(s, k)) = Len(s) - k + 1
        /\ \A j \in 1 .. Len(s) - k + 1 : From(s, k)[j] = s[p + j]
    BY <2>1, <2>2
  <2> QED
    BY <2>3 DEF p
<1>4. \A j \in 1 .. Len(s) - k + 1 : (k - 1) + j = k + j - 1
  BY <1>1
<1>5. From(s, k) # <<>> => From(s, k)[Len(From(s, k))] = "\n"
  <2> SUFFICES ASSUME From(s, k) # <<>>
               PROVE  From(s, k)[Len(From(s, k))] = "\n"
    OBVIOUS
  <2>1. Len(From(s, k)) \in Nat \ {0}
    BY <1>3, EmptySeq
  <2>2. Len(s) - k + 1 \in 1 .. Len(s) - k + 1 /\ (k - 1) + (Len(s) - k + 1) = Len(s) /\ s # <<>>
    BY <1>1, <1>3, <2>1, EmptySeq
  <2> QED
    BY <1>3, <2>2 DEF Whole
<1>6. ASSUME NEW j \in 1 .. Len(From(s, k)) PROVE From(s, k)[j] # NULL
  <2>1. j \in 1 .. Len(s) - k + 1 /\ k + j - 1 \in 1 .. Len(s)
    BY <1>1, <1>3
  <2>2. From(s, k)[j] = s[k + j - 1]
    BY <1>3, <1>4, <2>1
  <2> QED
    BY <2>1, <2>2 DEF Whole
<1>7. ASSUME NEW j \in 1 .. Len(From(s, k)) - 1
      PROVE  From(s, k)[j] \in Separators \/ From(s, k)[j+1] \in Separators
  <2>1. /\ j \in 1 .. Len(s) - k + 1 /\ j + 1 \in 1 .. Len(s) - k + 1
        /\ k + j - 1 \in 1 .. Len(s) - 1 /\ (k - 1) + (j + 1) = (k + j - 1) + 1
    BY <1>1, <1>3
  <2>2. From(s, k)[j] = s[k + j - 1]
    BY <1>3, <1>4, <2>1
  <2>3. From(s, k)[j+1] = s[(k + j - 1) + 1]
    <3> DEFINE i == j + 1
    <3>1. i \in 1 .. Len(s) - k + 1 /\ (k - 1) + i = (k + j - 1) + 1
      BY <2>1
    <3> HIDE DEF i
    <3>2. From(s, k)[i] = s[(k - 1) + i]
      BY <1>3, <3>1
    <3> QED
      BY <3>1, <3>2 DEF i
  <2> QED
    BY <2>1, <2>2, <2>3 DEF Whole
<1> QED
  BY <1>3, <1>4, <1>5, <1>6, <1>7 DEF Whole

\* ReadTillNewline, from place k of the input on.
LEMMA LineRead ==
  ASSUME NEW s, Whole(s), NEW k \in 1 .. Len(s)
  PROVE  \E m \in k+1 .. Len(s) + 1 :
           /\ ReadTillNewline(From(s, k)) = From(s, m) /\ s[m - 1] = "\n"
           /\ \A j \in k .. m-2 : s[j] # "\n"
<1> DEFINE t == From(s, k)
           n == NewlineAt(t)
<1>1. s \in Seq(STRING) /\ Len(s) \in Nat /\ k \in 1 .. Len(s) + 1
  BY DEF Whole
<1>2. /\ Whole(t) /\ Len(t) = Len(s) - k + 1
      /\ \A j \in 1 .. Len(s) - k + 1 : t[j] = s[k + j - 1]
  BY <1>1, RestWhole
<1>3. t # <<>>
  BY <1>1, <1>2, EmptySeq
<1>4. n \in 1 .. Len(t) /\ t[n] = "\n" /\ \A j \in 1 .. Len(t) : t[j] = "\n" => n <= j
  BY <1>2, <1>3, NewlineFound
<1>5. ReadTillNewline(t) = From(t, n + 1)
  BY DEF ReadTillNewline
<1>6. From(t, n + 1) = From(s, k + n)
  <2>1. k - 1 \in 0 .. Len(s) /\ (k - 1) + 1 = k
    BY <1>1
  <2>2. \A j \in 1 .. Len(s) - (k-1) + 1 : From(From(s, (k-1)+1), j) = From(s, (k-1) + j)
    BY <1>1, <2>1, FromFrom
  <2> HIDE DEF n, t
  <2>3. n + 1 \in 1 .. Len(s) - (k-1) + 1 /\ (k-1) + (n+1) = k + n
    BY <1>1, <1>2, <1>4
  <2> QED
    BY <2>1, <2>2, <2>3 DEF t
<1> HIDE DEF n, t
<1>7. k + n \in k+1 .. Len(s) + 1 /\ s[(k + n) - 1] = "\n"
  BY <1>1, <1>2, <1>4
<1>8. ASSUME NEW j \in k .. (k + n) - 2 PROVE s[j] # "\n"
  <2>1. /\ j - k + 1 \in 1 .. Len(t) /\ j - k + 1 \in 1 .. Len(s) - k + 1
        /\ k + (j - k + 1) - 1 = j /\ ~(n <= j - k + 1)
    BY <1>1, <1>2, <1>4
  <2> QED
    BY <1>2, <1>4, <2>1
<1> QED
  BY <1>5, <1>6, <1>7, <1>8 DEF t

\* getWord, and the rest of its line.
LEMMA WordRead ==
  ASSUME NEW s, Whole(s), s # <<>>
  PROVE  /\ s[1] \in Separators => getWord(s).word = NULL /\ getWord(s).rest = From(s, 2)
                                   /\ getWord(s).c = s[1]
         /\ s[1] \notin Separators => /\ getWord(s).word = s[1] /\ getWord(s).c = s[2]
                                      /\ getWord(s).rest = From(s, 3) /\ Len(s) >= 2
         /\ \E m \in 2 .. Len(s) + 1 : RestOfInput(getWord(s)) = From(s, m) /\ s[m - 1] = "\n"
<1>1. s \in Seq(STRING) /\ Len(s) \in Nat \ {0} /\ s[Len(s)] = "\n"
  BY EmptySeq DEF Whole
<1>2. CASE s[1] \in Separators
  <2>1. getWord(s).word = NULL /\ getWord(s).rest = From(s, 2) /\ getWord(s).c = s[1]
    BY <1>2 DEF getWord
  <2>2. CASE s[1] = "\n"
    <3>1. RestOfInput(getWord(s)) = From(s, 2) /\ 2 \in 2 .. Len(s) + 1 /\ s[2 - 1] = "\n"
      BY <1>1, <2>1, <2>2 DEF RestOfInput
    <3> QED
      BY <1>2, <2>1, <3>1
  <2>3. CASE s[1] # "\n"
    <3>1. RestOfInput(getWord(s)) = ReadTillNewline(From(s, 2)) /\ 2 \in 1 .. Len(s)
      BY <1>1, <2>1, <2>3 DEF RestOfInput
    <3>2. PICK m \in 2+1 .. Len(s) + 1 : ReadTillNewline(From(s, 2)) = From(s, m) /\ s[m - 1] = "\n"
      BY <3>1, LineRead
    <3>3. m \in 2 .. Len(s) + 1
      OBVIOUS
    <3> QED
      BY <1>2, <2>1, <3>1, <3>2, <3>3
  <2> QED
    BY <2>2, <2>3
<1>3. CASE s[1] \notin Separators
  <2>1. Len(s) >= 2
    <3>1. "\n" \in Separators
      BY DEF Separators
    <3>2. Len(s) # 1
      BY <1>1, <1>3, <3>1
    <3>3. Len(s) \in Nat \ {0}
      BY <1>1
    <3> HIDE <1>1, <1>3
    <3> QED
      BY <3>2, <3>3
  <2>2. getWord(s).word = s[1] /\ getWord(s).rest = From(s, 3) /\ getWord(s).c = s[2]
    BY <1>3 DEF getWord
  <2>3. CASE s[2] = "\n"
    <3>1. RestOfInput(getWord(s)) = From(s, 3) /\ 3 \in 2 .. Len(s) + 1 /\ s[3 - 1] = "\n"
      BY <1>1, <2>1, <2>2, <2>3 DEF RestOfInput
    <3> QED
      BY <1>3, <2>1, <2>2, <3>1
  <2>4. CASE s[2] # "\n"
    <3>1. RestOfInput(getWord(s)) = ReadTillNewline(From(s, 3)) /\ 3 \in 1 .. Len(s)
      BY <1>1, <2>1, <2>2, <2>4 DEF RestOfInput
    <3>2. PICK m \in 3+1 .. Len(s) + 1 : ReadTillNewline(From(s, 3)) = From(s, m) /\ s[m - 1] = "\n"
      BY <3>1, LineRead
    <3>3. m \in 2 .. Len(s) + 1
      OBVIOUS
    <3> QED
      BY <1>3, <2>1, <2>2, <3>1, <3>2, <3>3
  <2> QED
    BY <2>3, <2>4
<1> QED
  BY <1>2, <1>3

-----------------------------------------------------------------------------
(* The words of a text *)

\* The words with one more symbol.
WithWord(words, symbol) == IF symbol \in Separators THEN words ELSE Append(words, symbol)

\* The recursion Words is defined by has a solution.
LEMMA WordsBuilt ==
  ASSUME NEW S, NEW s \in Seq(S)
  PROVE  \E f : /\ f \in [0 .. Len(s) -> Seq(S)]
                /\ f[0] = <<>>
                /\ \A k \in 1 .. Len(s) : f[k] = WithWord(f[k-1], s[k])
                /\ Words(s) = f[Len(s)]
<1> DEFINE Solves(f, n) == f = [k \in 0 .. n |-> IF k = 0 THEN <<>> ELSE WithWord(f[k-1], s[k])]
           Solved == {n \in Nat : n <= Len(s) => \E f : Solves(f, n)}
<1>1. Len(s) \in Nat /\ \A k \in 1 .. Len(s) : s[k] \in S
  OBVIOUS
<1>2. 0 \in Solved
  <2>1. Solves([k \in 0 .. 0 |-> <<>>], 0)
    OBVIOUS
  <2> QED
    BY <2>1
<1>3. ASSUME NEW n \in Solved PROVE n + 1 \in Solved
  <2> SUFFICES ASSUME n + 1 <= Len(s)
               PROVE  \E f : Solves(f, n + 1)
    BY <1>1
  <2>1. PICK f : Solves(f, n)
    BY <1>1
  <2> DEFINE g == [k \in 0 .. n+1 |-> IF k = n+1 THEN WithWord(f[n], s[n+1]) ELSE f[k]]
  <2>2. \A k \in 0 .. n : g[k] = f[k]
    OBVIOUS
  <2>3. \A k \in 0 .. n+1 : g[k] = IF k = 0 THEN <<>> ELSE WithWord(g[k-1], s[k])
    <3> HIDE DEF Solved
    <3> SUFFICES ASSUME NEW k \in 0 .. n+1
                 PROVE  g[k] = IF k = 0 THEN <<>> ELSE WithWord(g[k-1], s[k])
      OBVIOUS
    <3>1. n \in Nat
      BY DEF Solved
    <3>2. CASE k = n+1
      BY <2>2, <3>1, <3>2
    <3>3. CASE k # n+1
      <4>1. k \in 0 .. n /\ (k # 0 => k-1 \in 0 .. n)
        BY <3>1, <3>3
      <4>2. f[k] = IF k = 0 THEN <<>> ELSE WithWord(f[k-1], s[k])
        BY <2>1, <4>1
      <4> HIDE DEF g
      <4> QED
        BY <2>2, <4>1, <4>2
    <3> QED
      BY <3>2, <3>3
  <2>4. Solves(g, n+1)
    BY <2>3
  <2> QED
    BY <2>4
<1>4. \E f : Solves(f, Len(s))
  <2>1. Solved = Nat
    <3>1. Solved \in SUBSET Nat
      OBVIOUS
    <3> HIDE DEF Solved
    <3> QED
      BY <1>2, <1>3, <3>1, SetInduction
  <2>2. Len(s) \in Solved
    <3> HIDE DEF Solved
    <3> QED
      BY <1>1, <2>1
  <2> HIDE DEF Solves
  <2> QED
    BY <1>1, <2>2
<1> DEFINE F == CHOOSE f : Solves(f, Len(s))
<1>5. Solves(F, Len(s))
  BY <1>4
<1>6. Words(s) = F[Len(s)]
  BY DEF Words, WithWord
<1> HIDE DEF F
<1>7. \A k \in 0 .. Len(s) : F[k] = IF k = 0 THEN <<>> ELSE WithWord(F[k-1], s[k])
  BY <1>5
<1> DEFINE Typed == {n \in Nat : n <= Len(s) => F[n] \in Seq(S)}
<1>8. F[0] = <<>>
  <2>1. 0 \in 0 .. Len(s)
    BY <1>1
  <2> QED
    BY <1>7, <2>1
<1>9. 0 \in Typed
  <2>1. F[0] \in Seq(S)
    BY <1>8, EmptySeq
  <2> QED
    BY <2>1
<1>10. ASSUME NEW n \in Typed PROVE n + 1 \in Typed
  <2> SUFFICES ASSUME n + 1 <= Len(s)
               PROVE  F[n+1] \in Seq(S)
    BY <1>1
  <2>1. n + 1 \in 1 .. Len(s) /\ n \in Nat /\ F[n] \in Seq(S)
    BY <1>1
  <2> HIDE DEF Typed
  <2>2. F[n+1] = WithWord(F[n], s[n+1])
    <3>1. n+1 \in 0 .. Len(s) /\ n+1 # 0 /\ (n+1) - 1 = n
      BY <1>1, <2>1
    <3> QED
      BY <1>7, <3>1
  <2> QED
    BY <1>1, <2>1, <2>2, AppendProperties DEF WithWord
<1>11. \A k \in 0 .. Len(s) : F[k] \in Seq(S)
  <2>1. Typed = Nat
    <3>1. Typed \in SUBSET Nat
      OBVIOUS
    <3> HIDE DEF Typed
    <3> QED
      BY <1>9, <1>10, <3>1, SetInduction
  <2> QED
    BY <1>1, <2>1
<1>12. F \in [0 .. Len(s) -> Seq(S)]
  BY <1>5, <1>11
<1>13. \A k \in 1 .. Len(s) : F[k] = WithWord(F[k-1], s[k])
  BY <1>1, <1>7
<1> QED
  BY <1>6, <1>8, <1>12, <1>13

\* A text that begins with a word has words.
LEMMA FirstWord ==
  ASSUME NEW S, NEW s \in Seq(S), s # <<>>, s[1] \notin Separators
  PROVE  Words(s) # <<>>
<1>1. PICK f : /\ f \in [0 .. Len(s) -> Seq(S)]
               /\ f[0] = <<>>
               /\ \A k \in 1 .. Len(s) : f[k] = WithWord(f[k-1], s[k])
               /\ Words(s) = f[Len(s)]
  BY WordsBuilt
<1>2. Len(s) \in Nat \ {0} /\ \A k \in 1 .. Len(s) : s[k] \in S
  BY EmptySeq
<1> DEFINE Some == {n \in Nat : n + 1 <= Len(s) => f[n+1] # <<>>}
<1>3. 0 \in Some
  <2>1. 1 \in 1 .. Len(s) /\ 1 - 1 = 0
    BY <1>2
  <2>2. f[1] = Append(f[0], s[1]) /\ f[0] \in Seq(S) /\ s[1] \in S
    <3>1. f[1] = WithWord(f[0], s[1])
      BY <1>1, <2>1
    <3>2. f[0] \in Seq(S) /\ s[1] \in S
      BY <1>1, <1>2, <2>1
    <3> QED
      BY <3>1, <3>2, Zenon DEF WithWord
  <2>3. Append(f[0], s[1]) # <<>>
    BY <2>2, AppendProperties
  <2>4. f[0+1] # <<>>
    BY <2>2, <2>3
  <2> QED
    BY <2>4
<1>4. ASSUME NEW n \in Some PROVE n + 1 \in Some
  <2> SUFFICES ASSUME (n+1)+1 <= Len(s)
               PROVE  f[(n+1)+1] # <<>>
    OBVIOUS
  <2>1. /\ (n+1)+1 \in 1 .. Len(s) /\ ((n+1)+1) - 1 = n+1 /\ n \in Nat
        /\ n+1 \in 0 .. Len(s) /\ f[n+1] # <<>>
    BY <1>2
  <2> HIDE DEF Some
  <2>2. f[(n+1)+1] = WithWord(f[n+1], s[(n+1)+1]) /\ f[n+1] \in Seq(S)
    BY <1>1, <2>1
  <2>3. Append(f[n+1], s[(n+1)+1]) # <<>>
    BY <1>2, <2>1, <2>2
  <2> QED
    BY <2>1, <2>2, <2>3 DEF WithWord
<1>5. Some = Nat
  <2>1. Some \in SUBSET Nat
    OBVIOUS
  <2> HIDE DEF Some
  <2> QED
    BY <1>3, <1>4, <2>1, SetInduction
<1>6. Len(s) - 1 \in Nat /\ (Len(s) - 1) + 1 = Len(s)
  BY <1>2
<1>7. Len(s) - 1 \in Some
  <2> HIDE DEF Some
  <2> QED
    BY <1>5, <1>6
<1> QED
  BY <1>1, <1>6, <1>7

-----------------------------------------------------------------------------
(* What one step of the console reads *)

EmptyAt(s, k) == s[k] \in Separators /\ (k > 1 => s[k-1] \in Separators)

\* CreateQuerryStdin dies of an empty word, reads the line to its end, or reads up
\* to the deadline: then the -d is the first word if it comes back to the prompt.
LEMMA QuerryRead ==
  ASSUME Whole(stdin), CreateQuerryStdin
  PROVE  /\ UNCHANGED <<typed, command, stale>>
         /\ \/ /\ pc' = "crashed" /\ stdin' = stdin
               /\ \E k \in 1 .. Len(stdin) : EmptyAt(stdin, k)
            \/ /\ EndTurn(stale)
               /\ \E m \in 2 .. Len(stdin) + 1 : stdin' = From(stdin, m) /\ stdin[m-1] = "\n"
            \/ /\ pc' = "deadline" \/ EndTurn(stale)
               /\ \E last \in 1 .. Len(stdin) - 2 :
                    /\ stdin[last] = "-d" /\ stdin[last+1] = " " /\ stdin' = From(stdin, last + 2)
                    /\ pc' = "prompt" => last = 1
<1> DEFINE n      == NewlineAt(stdin)
           line   == SubSeq(stdin, 1, n)
           dashes == {k \in DOMAIN line : line[k] = "-d"}
           last   == IF dashes = {} THEN Len(line) + 1 ELSE Min(dashes)
<1>1. /\ pc = "querry" /\ stdin # <<>> /\ UNCHANGED <<typed, command, stale>>
      /\ stdin \in Seq(STRING) /\ Len(stdin) \in Nat
  BY DEF CreateQuerryStdin, Whole
<1>2. n \in 1 .. Len(stdin) /\ stdin[n] = "\n"
  BY <1>1, NewlineFound
<1>3. line \in Seq(STRING) /\ Len(line) = n /\ DOMAIN line = 1 .. n /\ \A k \in 1 .. n : line[k] = stdin[k]
  <2> HIDE DEF n
  <2> QED
    BY <1>1, <1>2
<1>4. \/ (\E k \in EmptyWords(line) : k < last) /\ pc' = "crashed" /\ stdin' = stdin
      \/ EndTurn(stale) /\ stdin' = ReadTillNewline(stdin)
      \/ /\ ~(dashes = {} \/ line[last+1] = "\n") /\ ~(\E k \in EmptyWords(line) : k < last)
         /\ pc' = "deadline" \/ EndTurn(stale)
         /\ stdin' = From(stdin, last + 2)
         /\ pc' = "prompt" => QuerryWords(line, last) = <<>>
  BY DEF CreateQuerryStdin
<1> HIDE DEF line, n
<1>5. CASE (\E k \in EmptyWords(line) : k < last) /\ pc' = "crashed" /\ stdin' = stdin
  <2>1. PICK k \in EmptyWords(line) : TRUE
    BY <1>5
  <2>2. k \in 1 .. n /\ line[k] \in Separators /\ (k > 1 => line[k-1] \in Separators)
    BY <1>3 DEF EmptyWords
  <2>3. k \in 1 .. Len(stdin) /\ (k > 1 => k-1 \in 1 .. n)
    BY <1>1, <1>2, <2>2
  <2>4. EmptyAt(stdin, k)
    BY <1>3, <2>2, <2>3 DEF EmptyAt
  <2> QED
    BY <1>1, <1>5, <2>3, <2>4
<1>6. CASE EndTurn(stale) /\ stdin' = ReadTillNewline(stdin)
  <2>1. n + 1 \in 2 .. Len(stdin) + 1 /\ (n + 1) - 1 = n
    BY <1>1, <1>2
  <2>2. stdin' = From(stdin, n + 1)
    BY <1>6 DEF ReadTillNewline, n
  <2> QED
    BY <1>1, <1>2, <1>6, <2>1, <2>2
<1>7. CASE /\ ~(dashes = {} \/ line[last+1] = "\n") /\ ~(\E k \in EmptyWords(line) : k < last)
           /\ pc' = "deadline" \/ EndTurn(stale)
           /\ stdin' = From(stdin, last + 2)
           /\ pc' = "prompt" => QuerryWords(line, last) = <<>>
  <2>1. last = Min(dashes) /\ dashes \in SUBSET Nat /\ dashes # {}
    BY <1>3, <1>7
  <2>2. last \in dashes
    <3> HIDE DEF dashes, last
    <3> QED
      BY <2>1, MinExists
  <2> HIDE DEF last
  <2>3. last \in 1 .. n /\ line[last] = "-d" /\ stdin[last] = "-d"
    BY <1>3, <2>2
  <2>4. last # n
    BY <1>2, <2>3
  <2>5. last + 1 \in 1 .. n
    BY <1>2, <2>3, <2>4
  <2>6. stdin[last+1] # "\n"
    BY <1>3, <1>7, <2>5
  <2>7. last + 1 # n
    BY <1>2, <2>6
  <2>8. last \in 1 .. Len(stdin) - 2
    BY <1>1, <1>2, <2>3, <2>5, <2>7
  <2>9. ASSUME QuerryWords(line, last) = <<>>, last # 1
        PROVE  FALSE
    <3> DEFINE t == SubSeq(line, 1, last - 1)
    <3>1. 1 \in 1 .. n /\ 1 < last
      BY <1>2, <2>3, <2>9
    <3>2. line[1] \notin Separators
      BY <1>3, <1>7, <3>1 DEF EmptyWords
    <3>3. t \in Seq(STRING) /\ Len(t) = last - 1 /\ t[1] = line[1]
      BY <1>1, <1>2, <1>3, <2>3, <3>1
    <3> HIDE DEF t
    <3>4. t # <<>>
      <4>1. Len(t) # 0
        BY <1>1, <1>2, <2>3, <3>1, <3>3
      <4> QED
        BY <4>1
    <3>5. Words(t) # <<>>
      BY <3>2, <3>3, <3>4, FirstWord
    <3> QED
      BY <2>9, <3>5 DEF QuerryWords, t
  <2>10. stdin[last+1] = " "
    <3>1. last \in 1 .. Len(stdin) - 1
      BY <1>1, <2>8
    <3>2. stdin[last] \notin Separators
      BY <2>3 DEF Separators
    <3>3. stdin[last+1] \in Separators
      BY <3>1, <3>2 DEF Whole
    <3> QED
      BY <2>6, <3>3 DEF Separators
  <2> QED
    BY <1>1, <1>7, <2>3, <2>8, <2>9, <2>10
<1> QED
  BY <1>4, <1>5, <1>6, <1>7

ConsoleStep ==
  \/ NoCommand \/ Dangling \/ Search \/ CreateQuerryStdin \/ ReadDeadline
  \/ Count \/ ReadKeyword \/ Wc \/ Exit \/ Unknown \/ SkipLine

\* The other steps read a word, the rest of a line, or a separator in place of a
\* word; only at an empty word they go by what is freed.
LEMMA StepReads ==
  ASSUME Whole(stdin), ConsoleStep, ~CreateQuerryStdin
  PROVE  /\ typed' = typed /\ stdin # <<>>
         /\ stale' = stale \/ (stale' \in BOOLEAN /\ (stale' => stdin[1] \in Separators))
         /\ command' = NULL =>
              /\ command = NULL
              /\ pc = "prompt" => pc' = "prompt" /\ stdin[1] \in Separators /\ stdin' = From(stdin, 2)
         /\ \/ \E m \in 2 .. Len(stdin) + 1 :
                 /\ stdin' = From(stdin, m) /\ stdin[m-1] = "\n"
                 /\ pc' = "prompt" \/ (pc' = "crashed" /\ (stale \/ stdin[1] \in Separators))
            \/ /\ pc = "prompt" /\ stdin[1] \in Separators /\ stdin' = From(stdin, 2)
               /\ pc' \in {"prompt", "crashed", "querry", "keyword", "skip", "done"}
               /\ pc' = "prompt" => command' = NULL
               /\ pc' = "querry" => command # NULL
            \/ /\ pc = "prompt" /\ stdin[1] \notin Separators /\ stdin' = From(stdin, 3) /\ Len(stdin) >= 2
               /\ pc' \in {"querry", "keyword", "skip", "done"}
               /\ pc' = "querry" => stdin[1] = "/search"
<1>1. typed' = typed /\ stdin # <<>> /\ Len(stdin) \in Nat \ {0}
  <2>1. typed' = typed
    BY DEF ConsoleStep, NoCommand, Dangling, Search, ReadDeadline, Count, ReadKeyword, Wc, Exit,
           Unknown, SkipLine
  <2>2. ReadDeadline => stdin # <<>>
    BY DEF ReadDeadline
  <2>3. stdin # <<>>
    BY <2>2 DEF ConsoleStep, NoCommand, Dangling, Search, Count, ReadKeyword, Wc, Exit, Unknown,
                SkipLine, Command
  <2> QED
    BY <2>1, <2>3, EmptySeq DEF Whole
<1>2. stdin[1] # NULL
  BY <1>1 DEF Whole
<1>3. /\ getWord(stdin).word = NULL <=> stdin[1] \in Separators
      /\ stdin[1] \in Separators => getWord(stdin).rest = From(stdin, 2)
      /\ stdin[1] \notin Separators => /\ getWord(stdin).word = stdin[1] /\ Len(stdin) >= 2
                                       /\ getWord(stdin).rest = From(stdin, 3)
      /\ \E m \in 2 .. Len(stdin) + 1 : RestOfInput(getWord(stdin)) = From(stdin, m) /\ stdin[m-1] = "\n"
  BY <1>1, <1>2, WordRead
<1>4. CASE NoCommand \/ Dangling
  BY <1>1, <1>3, <1>4 DEF NoCommand, Dangling
\* The command is a word or what is freed.
<1>5. ASSUME NEW text, Command(text), text # NULL
      PROVE  /\ pc = "prompt" /\ command' # NULL /\ stale' \in BOOLEAN
             /\ stale' => stdin[1] \in Separators
             /\ stdin[1] \in Separators => command # NULL
             /\ stdin[1] \notin Separators => text = stdin[1]
  BY <1>3, <1>5 DEF Command
<1>6. CASE Search \/ Count \/ Exit \/ Unknown
  <2>1. PICK text : /\ Command(text) /\ text # NULL /\ stdin' = getWord(stdin).rest
                    /\ pc' \in {"querry", "keyword", "skip", "done"}
                    /\ pc' = "querry" => text = "/search"
    BY <1>6 DEF Search, Count, Exit, Unknown, NULL
  <2> QED
    BY <1>1, <1>3, <1>5, <2>1
<1>7. CASE Wc
  <2>1. /\ Command("/wc") /\ "/wc" # NULL
        /\ stdin' = RestOfInput(getWord(stdin)) /\ EndTurn(stale')
    BY <1>7 DEF Wc, NULL
  <2> QED
    BY <1>1, <1>3, <1>5, <2>1 DEF EndTurn
<1>8. CASE ReadKeyword
  <2>1. /\ stdin' = RestOfInput(getWord(stdin)) /\ UNCHANGED <<command, stale>> /\ pc = "keyword"
        /\ EndTurn(stale) \/ (pc' = "crashed" /\ getWord(stdin).word = NULL)
    BY <1>8 DEF ReadKeyword
  <2> QED
    BY <1>1, <1>3, <2>1 DEF EndTurn
<1>9. CASE SkipLine
  <2>1. /\ stdin' = From(stdin, NewlineAt(stdin) + 1) /\ EndTurn(stale)
        /\ UNCHANGED <<command, stale>> /\ pc = "skip"
    BY <1>9 DEF SkipLine, ReadTillNewline
  <2>2. NewlineAt(stdin) \in 1 .. Len(stdin) /\ stdin[NewlineAt(stdin)] = "\n"
    BY <1>1, NewlineFound
  <2>3. NewlineAt(stdin) + 1 \in 2 .. Len(stdin) + 1 /\ (NewlineAt(stdin) + 1) - 1 = NewlineAt(stdin)
    BY <1>1, <2>2
  <2> QED
    BY <1>1, <2>1, <2>2, <2>3 DEF EndTurn
<1>10. CASE ReadDeadline
  <2>1. PICK k \in 1 .. Len(stdin) : stdin' = ReadTillNewline(From(stdin, k))
    BY <1>10 DEF ReadDeadline, Whole
  <2>2. EndTurn(stale) /\ UNCHANGED <<command, stale>> /\ pc = "deadline"
    BY <1>10 DEF ReadDeadline
  <2>3. PICK m \in k+1 .. Len(stdin) + 1 : stdin' = From(stdin, m) /\ stdin[m-1] = "\n"
    BY <2>1, LineRead
  <2>4. m \in 2 .. Len(stdin) + 1
    BY <1>1
  <2> QED
    BY <1>1, <2>2, <2>3, <2>4 DEF EndTurn
<1> QED
  BY <1>4, <1>6, <1>7, <1>8, <1>9, <1>10 DEF ConsoleStep

-----------------------------------------------------------------------------
(* What the console dies of *)

\* Words with one separator behind each.
Clean(s) ==
  /\ s # <<>> => s[1] \notin Separators
  /\ \A k \in 1 .. Len(s) - 1 : s[k] \in Separators <=> s[k+1] \notin Separators

\* What begins with a word is clean if what it is the rest of is.
LEMMA CleanRest ==
  ASSUME NEW s, Whole(s), Clean(s), NEW k \in 1 .. Len(s) + 1,
         k <= Len(s) => s[k] \notin Separators
  PROVE  Clean(From(s, k))
<1> DEFINE t == From(s, k)
<1>1. Len(s) \in Nat /\ t \in Seq(STRING)
  BY RestWhole DEF Whole
<1>2. Len(t) = Len(s) - k + 1 /\ \A j \in 1 .. Len(s) - k + 1 : t[j] = s[k + j - 1]
  BY RestWhole
<1> HIDE DEF t
<1>3. ASSUME t # <<>> PROVE t[1] \notin Separators
  <2>1. Len(t) > 0
    BY <1>1, <1>3, EmptySeq
  <2>2. k <= Len(s) /\ 1 \in 1 .. Len(s) - k + 1 /\ k + 1 - 1 = k
    BY <1>1, <1>2, <2>1
  <2> QED
    BY <1>2, <2>2
<1>4. ASSUME NEW j \in 1 .. Len(t) - 1
      PROVE  t[j] \in Separators <=> t[j+1] \notin Separators
  <2>1. /\ j \in 1 .. Len(s) - k + 1 /\ j + 1 \in 1 .. Len(s) - k + 1
        /\ k + j - 1 \in 1 .. Len(s) - 1 /\ k + (j + 1) - 1 = (k + j - 1) + 1
    BY <1>1, <1>2
  <2>2. t[j] = s[k + j - 1]
    BY <1>2, <2>1
  <2>3. t[j+1] = s[k + (j + 1) - 1]
    BY <1>2, <2>1
  <2>4. t[j+1] = s[(k + j - 1) + 1]
    BY <2>1, <2>3
  <2> QED
    BY <2>1, <2>2, <2>4 DEF Clean
<1> QED
  BY <1>3, <1>4 DEF Clean, t

\* A line with single blanks behind other clean text.
LEMMA LineBehind ==
  ASSUME NEW s, Whole(s), NEW line \in Lines
  PROVE  /\ Whole(s \o line)
         /\ Clean(s) /\ SingleBlanks(line) => Clean(s \o line)
<1> DEFINE t == s \o line
           n == Len(s)
           m == Len(line)
<1>1. /\ line \in Seq(STRING) /\ m \in Nat \ {0} /\ n \in Nat /\ s \in Seq(STRING)
      /\ \A k \in 1 .. m : line[k] # NULL /\ (line[k] = "\n" <=> k = m)
      /\ \A k \in 1 .. m - 1 : line[k] \in Separators \/ line[k+1] \in Separators
  BY LinesAssumption DEF Whole
<1>2. t \in Seq(STRING) /\ Len(t) = n + m
      /\ \A k \in 1 .. n + m : t[k] = IF k <= n THEN s[k] ELSE line[k - n]
  BY <1>1, ConcatProperties
<1> HIDE DEF t, n, m
<1>3. \A k \in 1 .. n : s[k] # NULL
  BY DEF Whole, n
<1>4. t # <<>> /\ t[n + m] = "\n" /\ \A k \in 1 .. n + m : t[k] # NULL
  <2>1. n + m \in 1 .. n + m /\ ~(n + m <= n) /\ n + m - n = m /\ m \in 1 .. m
    BY <1>1
  <2>2. ASSUME NEW k \in 1 .. n + m PROVE t[k] # NULL
    <3>1. CASE k <= n
      BY <1>1, <1>2, <1>3, <3>1
    <3>2. CASE ~(k <= n)
      <4>1. k - n \in 1 .. m /\ t[k] = line[k - n]
        BY <1>1, <1>2, <3>2
      <4> QED
        BY <1>1, <4>1
    <3> QED
      BY <3>1, <3>2
  <2>3. Len(t) # 0
    BY <1>1, <1>2
  <2>4. t # <<>>
    BY <2>3
  <2> QED
    BY <1>1, <1>2, <2>1, <2>2, <2>4
<1>5. Whole(t)
  <2>1. ASSUME NEW k \in 1 .. (n + m) - 1 PROVE t[k] \in Separators \/ t[k+1] \in Separators
    <3>1. k \in 1 .. n + m /\ k + 1 \in 1 .. n + m
      BY <1>1
    <3>2. CASE k + 1 <= n
      <4>1. k \in 1 .. n - 1 /\ t[k] = s[k] /\ t[k+1] = s[k+1]
        BY <1>1, <1>2, <3>1, <3>2
      <4> QED
        BY <4>1 DEF Whole, n
    <3>3. CASE k = n
      <4>1. t[k] = s[n] /\ n # 0
        BY <1>1, <1>2, <3>1, <3>3
      <4>2. s[n] = "\n"
        BY <4>1, EmptySeq DEF Whole, n
      <4> QED
        BY <4>1, <4>2 DEF Separators
    <3>4. CASE k > n
      <4>1. k - n \in 1 .. m - 1 /\ t[k] = line[k-n] /\ (k + 1) - n = (k - n) + 1
        BY <1>1, <1>2, <3>1, <3>4
      <4>2. t[k+1] = line[(k-n) + 1]
        BY <1>1, <1>2, <3>1, <3>4, <4>1
      <4> QED
        BY <1>1, <4>1, <4>2
    <3> QED
      BY <1>1, <3>2, <3>3, <3>4
  <2> QED
    BY <1>2, <1>4, <2>1 DEF Whole
<1>6. ASSUME Clean(s), SingleBlanks(line) PROVE Clean(t)
  <2>1. \A k \in 1 .. m : ~(line[k] \in Separators /\ (k > 1 => line[k-1] \in Separators))
    <3>1. DOMAIN line = 1 .. m
      BY <1>1 DEF m
    <3>2. {k \in DOMAIN line : line[k] \in Separators /\ (k > 1 => line[k-1] \in Separators)} = {}
      BY <1>6 DEF SingleBlanks, EmptyWords
    <3> QED
      BY <3>1, <3>2
  <2>2. line[1] \notin Separators /\ 1 \in 1 .. m
    BY <1>1, <2>1
  <2>3. ASSUME NEW k \in 1 .. m - 1 PROVE line[k] \in Separators <=> line[k+1] \notin Separators
    <3>1. k + 1 \in 1 .. m /\ k + 1 > 1 /\ (k + 1) - 1 = k
      BY <1>1
    <3>2. ~(line[k+1] \in Separators /\ line[k] \in Separators)
      BY <2>1, <3>1
    <3> QED
      BY <1>1, <3>2
  <2>4. \A k \in 1 .. n - 1 : s[k] \in Separators <=> s[k+1] \notin Separators
    BY <1>6 DEF Clean, n
  <2>5. n # 0 => s[1] \notin Separators /\ s[n] \in Separators
    <3>1. n # 0 => s # <<>>
      BY EmptySeq DEF n
    <3>2. s # <<>> => s[1] \notin Separators /\ s[n] = "\n"
      BY <1>6 DEF Clean, Whole, n
    <3> QED
      BY <3>1, <3>2 DEF Separators
  <2>6. ASSUME t # <<>> PROVE t[1] \notin Separators
    <3>1. 1 \in 1 .. n + m
      BY <1>1
    <3>2. CASE n = 0
      <4>1. t[1] = line[1]
        BY <1>1, <1>2, <3>1, <3>2
      <4> QED
        BY <2>2, <4>1
    <3>3. CASE n # 0
      <4>1. t[1] = s[1]
        BY <1>1, <1>2, <3>1, <3>3
      <4> QED
        BY <2>5, <3>3, <4>1
    <3> QED
      BY <3>2, <3>3
  <2>7. ASSUME NEW k \in 1 .. (n + m) - 1
        PROVE  t[k] \in Separators <=> t[k+1] \notin Separators
    <3>1. k \in 1 .. n + m /\ k + 1 \in 1 .. n + m
      BY <1>1
    <3>2. CASE k + 1 <= n
      <4>1. k \in 1 .. n - 1 /\ t[k] = s[k] /\ t[k+1] = s[k+1]
        BY <1>1, <1>2, <3>1, <3>2
      <4> QED
        BY <2>4, <4>1
    <3>3. CASE k = n
      <4>1. t[k] = s[n] /\ t[k+1] = line[1] /\ n # 0
        BY <1>1, <1>2, <3>1, <3>3
      <4> QED
        BY <2>2, <2>5, <4>1
    <3>4. CASE k > n
      <4>1. k - n \in 1 .. m - 1 /\ t[k] = line[k-n] /\ (k + 1) - n = (k - n) + 1
        BY <1>1, <1>2, <3>1, <3>4
      <4>2. t[k+1] = line[(k-n) + 1]
        BY <1>1, <1>2, <3>1, <3>4, <4>1
      <4> QED
        BY <2>3, <4>1, <4>2
    <3> QED
      BY <1>1, <3>2, <3>3, <3>4
  <2> QED
    BY <1>2, <2>6, <2>7 DEF Clean
<1> QED
  BY <1>5, <1>6 DEF t

SinglyTyped == \A k \in DOMAIN typed : SingleBlanks(typed[k])

\* As long as the blanks are single, what is left in stdin begins with a word, and
\* no freed one is used.
CrashInv ==
  /\ typed \in Seq(Lines)
  /\ Whole(stdin)
  /\ SinglyTyped => Clean(stdin) /\ pc # "crashed" /\ stale = FALSE

LEMMA CrashInvInit == Init => CrashInv
<1> SUFFICES ASSUME Init PROVE CrashInv
  OBVIOUS
<1>1. typed = <<>> /\ stdin = <<>> /\ pc = "prompt" /\ stale = FALSE
  BY DEF Init
<1>2. Whole(stdin) /\ Clean(stdin)
  BY <1>1 DEF Whole, Clean
<1> QED
  BY <1>1, <1>2 DEF CrashInv

\* What a step of the console leaves of clean text is clean.
LEMMA StepClean ==
  ASSUME Whole(stdin), ConsoleStep
  PROVE  /\ typed' = typed /\ Whole(stdin')
         /\ Clean(stdin) /\ stale = FALSE => Clean(stdin') /\ pc' # "crashed" /\ stale' = FALSE
<1> DEFINE n == Len(stdin)
           Kept == /\ Whole(stdin')
                   /\ Clean(stdin) /\ stale = FALSE =>
                        Clean(stdin') /\ pc' # "crashed" /\ stale' = FALSE
<1>1. n \in Nat
  BY DEF Whole
<1>2. ASSUME stdin # <<>>
      PROVE  n \in Nat \ {0} /\ stdin[n] \in Separators /\ (Clean(stdin) => stdin[1] \notin Separators)
  BY <1>2, EmptySeq DEF Whole, Clean, Separators
<1>3. \A k \in 1 .. n - 1 : Clean(stdin) => (stdin[k] \in Separators <=> stdin[k+1] \notin Separators)
  BY DEF Clean
<1>4. ASSUME NEW m \in 1 .. n + 1, stdin' = From(stdin, m),
             Clean(stdin) /\ stale = FALSE =>
               pc' # "crashed" /\ stale' = FALSE /\ (m <= n => stdin[m] \notin Separators)
      PROVE  Kept
  BY <1>4, RestWhole, CleanRest
<1> HIDE DEF n
<1>5. ASSUME NEW m \in 2 .. n + 1, stdin[m-1] = "\n", Clean(stdin), m <= n PROVE stdin[m] \notin Separators
  <2>1. m - 1 \in 1 .. n - 1 /\ (m - 1) + 1 = m
    BY <1>1, <1>5
  <2> QED
    BY <1>3, <1>5, <2>1 DEF Separators
<1>6. CASE CreateQuerryStdin
  <2>0. stale' = stale
    BY <1>6, QuerryRead
  <2>1. CASE /\ pc' = "crashed" /\ stdin' = stdin
             /\ \E k \in 1 .. n : EmptyAt(stdin, k)
    <3>1. PICK k \in 1 .. n : EmptyAt(stdin, k)
      BY <2>1
    <3>2. CASE k = 1
      BY <1>1, <1>6, <2>0, <2>1, <3>1, <3>2, QuerryRead DEF EmptyAt, Clean, CreateQuerryStdin
    <3>3. CASE k # 1
      <4>1. k > 1 /\ k - 1 \in 1 .. n - 1 /\ (k - 1) + 1 = k
        BY <1>1, <3>3
      <4>2. ~Clean(stdin)
        BY <1>3, <3>1, <4>1 DEF EmptyAt
      <4> QED
        BY <1>6, <2>0, <2>1, <4>2, QuerryRead
    <3> QED
      BY <3>2, <3>3
  <2>2. ASSUME EndTurn(stale), NEW m \in 2 .. n + 1, stdin' = From(stdin, m), stdin[m-1] = "\n"
        PROVE  Kept
    <3>1. m \in 1 .. n + 1
      BY <1>1
    <3> QED
      BY <1>4, <1>5, <2>0, <2>2, <3>1 DEF EndTurn
  <2>3. ASSUME pc' = "deadline" \/ EndTurn(stale), NEW last \in 1 .. n - 2,
               stdin[last] = "-d", stdin' = From(stdin, last + 2)
        PROVE  Kept
    <3>1. last + 2 \in 1 .. n + 1 /\ last \in 1 .. n - 1 /\ last + 1 \in 1 .. n - 1 /\ (last + 1) + 1 = last + 2
      BY <1>1
    <3>2. Clean(stdin) => stdin[last + 2] \notin Separators
      BY <1>3, <2>3, <3>1 DEF Separators
    <3> QED
      BY <1>4, <2>0, <2>3, <3>1, <3>2 DEF EndTurn
  <2> QED
    BY <1>6, <2>1, <2>2, <2>3, QuerryRead DEF n
<1>7. CASE ~CreateQuerryStdin
  <2>1. /\ typed' = typed /\ stdin # <<>>
        /\ Clean(stdin) /\ stale = FALSE => stale' = FALSE
    <3>1. stdin # <<>>
      BY <1>7, StepReads
    <3> QED
      BY <1>2, <1>7, <3>1, StepReads
  <2>2. ASSUME NEW m \in 2 .. n + 1, stdin' = From(stdin, m), stdin[m-1] = "\n",
               pc' = "prompt" \/ (pc' = "crashed" /\ (stale \/ stdin[1] \in Separators))
        PROVE  Kept
    <3>1. m \in 1 .. n + 1
      BY <1>1
    <3> QED
      BY <1>2, <1>4, <1>5, <2>1, <2>2, <3>1
  <2>3. CASE stdin[1] \in Separators /\ stdin' = From(stdin, 2)
    <3>1. 2 \in 1 .. n + 1
      BY <1>1, <1>2, <2>1
    <3> QED
      BY <1>2, <1>4, <2>1, <2>3, <3>1
  <2>4. CASE /\ stdin[1] \notin Separators /\ stdin' = From(stdin, 3) /\ n >= 2
             /\ pc' \in {"querry", "keyword", "skip", "done"}
    <3>1. 3 \in 1 .. n + 1 /\ 1 \in 1 .. n - 1 /\ (3 <= n => 2 \in 1 .. n - 1) /\ 1 + 1 = 2 /\ 2 + 1 = 3
      BY <1>1, <2>4
    <3>2. Clean(stdin) /\ 3 <= n => stdin[3] \notin Separators
      BY <1>3, <2>4, <3>1
    <3> QED
      BY <1>4, <2>1, <2>4, <3>1, <3>2
  <2> QED
    BY <1>7, <2>1, <2>2, <2>3, <2>4, StepReads DEF n
<1>8. typed' = typed
  BY StepReads, QuerryRead
<1> QED
  BY <1>6, <1>7, <1>8

LEMMA CrashInvNext == CrashInv /\ [Next]_vars => CrashInv'
<1> SUFFICES ASSUME CrashInv, [Next]_vars PROVE CrashInv'
  OBVIOUS
<1>1. ASSUME NEW line \in Lines, Type(line) PROVE CrashInv'
  <2>1. /\ typed' = Append(typed, line) /\ stdin' = stdin \o line /\ typed \in Seq(Lines)
        /\ UNCHANGED <<pc, stale>>
    BY <1>1 DEF Type, CrashInv
  <2>2. /\ typed' \in Seq(Lines) /\ Len(typed') = Len(typed) + 1 /\ typed'[Len(typed) + 1] = line
        /\ \A k \in 1 .. Len(typed) : typed'[k] = typed[k]
    BY <2>1, AppendProperties
  <2>3. Len(typed) \in Nat /\ DOMAIN typed = 1 .. Len(typed) /\ DOMAIN typed' = 1 .. Len(typed')
    BY <2>1, <2>2
  <2>4. ASSUME SinglyTyped' PROVE SinglyTyped /\ SingleBlanks(line)
    <3>1. \A k \in 1 .. Len(typed) + 1 : SingleBlanks(typed'[k])
      BY <2>2, <2>3, <2>4 DEF SinglyTyped
    <3>2. Len(typed) + 1 \in 1 .. Len(typed) + 1 /\ \A k \in 1 .. Len(typed) : k \in 1 .. Len(typed) + 1
      BY <2>3
    <3>3. SingleBlanks(typed'[Len(typed) + 1])
      BY <3>1, <3>2
    <3>4. \A k \in 1 .. Len(typed) : SingleBlanks(typed'[k])
      BY <3>1, <3>2
    <3> QED
      BY <2>2, <2>3, <3>3, <3>4 DEF SinglyTyped
  <2>5. Whole(stdin') /\ (Clean(stdin) /\ SingleBlanks(line) => Clean(stdin'))
    BY <2>1, LineBehind DEF CrashInv
  <2> QED
    BY <2>1, <2>2, <2>4, <2>5 DEF CrashInv
<1>2. CASE ConsoleStep
  <2>1. /\ typed' = typed /\ Whole(stdin')
        /\ Clean(stdin) /\ stale = FALSE => Clean(stdin') /\ pc' # "crashed" /\ stale' = FALSE
    BY <1>2, StepClean DEF CrashInv
  <2> QED
    BY <2>1 DEF CrashInv, SinglyTyped
<1>3. CASE UNCHANGED vars
  BY <1>3 DEF CrashInv, SinglyTyped, vars
<1> QED
  BY <1>1, <1>2, <1>3 DEF Next, ConsoleStep

\* The console dies only if an empty word was typed: with single blanks, no bare
\* command and no search without words makes it use a word it has not got.
THEOREM CrashesExplained == Spec => []CrashExplained
<1>1. CrashInv => CrashExplained
  BY DEF CrashInv, CrashExplained, SinglyTyped
<1> QED
  BY <1>1, CrashInvInit, CrashInvNext, PTL DEF Spec

-----------------------------------------------------------------------------
(* Where the lines begin in what was typed *)

\* The rest of two texts behind a place in the first.
LEMMA SuffixConcat ==
  ASSUME NEW S, NEW s \in Seq(S), NEW t \in Seq(S), NEW p \in 0 .. Len(s)
  PROVE  SubSeq(s \o t, p + 1, Len(s \o t)) = SubSeq(s, p + 1, Len(s)) \o t
<1> DEFINE st == s \o t
           n  == Len(s)
           m  == Len(t)
           u  == SubSeq(st, p + 1, Len(st))
           v  == SubSeq(s, p + 1, n)
<1>1. n \in Nat /\ m \in Nat /\ p \in Nat /\ p <= n
  OBVIOUS
<1>2. st \in Seq(S) /\ Len(st) = n + m /\ \A i \in 1 .. n + m : st[i] = IF i <= n THEN s[i] ELSE t[i - n]
  BY ConcatProperties
<1>3. \A i \in p + 1 .. n : s[i] \in S
  BY <1>1
<1>4. v \in Seq(S) /\ Len(v) = n - p /\ \A i \in 1 .. n - p : v[i] = s[p + i]
  <2>1. /\ v \in Seq(S) /\ Len(v) = IF p + 1 <= n THEN n - (p + 1) + 1 ELSE 0
        /\ \A i \in 1 .. n - (p + 1) + 1 : v[i] = s[(p + 1) + i - 1]
    BY <1>1, <1>3, SubSeqProperties
  <2>2. \A i \in 1 .. n - p : i \in 1 .. n - (p + 1) + 1 /\ (p + 1) + i - 1 = p + i
    BY <1>1
  <2> HIDE DEF v, n
  <2> QED
    BY <1>1, <2>1, <2>2
<1>5. u \in Seq(S) /\ Len(u) = n + m - p /\ \A i \in 1 .. n + m - p : u[i] = st[p + i]
  <2> HIDE DEF st, n, m
  <2>1. \A i \in p + 1 .. n + m : st[i] \in S
    BY <1>1, <1>2
  <2>2. /\ u \in Seq(S) /\ Len(u) = IF p + 1 <= n + m THEN n + m - (p + 1) + 1 ELSE 0
        /\ \A i \in 1 .. n + m - (p + 1) + 1 : u[i] = st[(p + 1) + i - 1]
    BY <1>1, <1>2, <2>1, SubSeqProperties
  <2>3. \A i \in 1 .. n + m - p : i \in 1 .. n + m - (p + 1) + 1 /\ (p + 1) + i - 1 = p + i
    BY <1>1
  <2> HIDE DEF u
  <2> QED
    BY <1>1, <2>2, <2>3
<1>6. /\ v \o t \in Seq(S) /\ Len(v \o t) = (n - p) + m
      /\ \A i \in 1 .. (n - p) + m : (v \o t)[i] = IF i <= n - p THEN v[i] ELSE t[i - (n - p)]
  <2>1. v \in Seq(S) /\ t \in Seq(S) /\ Len(v) = n - p
    BY <1>4
  <2> HIDE DEF v
  <2>2. /\ v \o t \in Seq(S) /\ Len(v \o t) = Len(v) + m
        /\ \A i \in 1 .. Len(v) + m : (v \o t)[i] = IF i <= Len(v) THEN v[i] ELSE t[i - Len(v)]
    BY <2>1, ConcatProperties
  <2> HIDE DEF n, m
  <2> QED
    BY <2>1, <2>2
<1> DEFINE w == v \o t
<1> HIDE DEF u, v, st, n, m
<1>7. /\ w \in Seq(S) /\ Len(w) = (n - p) + m
      /\ \A i \in 1 .. (n - p) + m : w[i] = IF i <= n - p THEN v[i] ELSE t[i - (n - p)]
  BY <1>6
<1> HIDE DEF w
<1>8. Len(u) = Len(w)
  BY <1>1, <1>5, <1>7
<1>9. \A i \in 1 .. Len(u) : u[i] = w[i]
  <2> SUFFICES ASSUME NEW i \in 1 .. n + m - p PROVE u[i] = w[i]
    BY <1>5
  <2>1. i \in 1 .. (n - p) + m /\ p + i \in 1 .. n + m
    BY <1>1
  <2>2. CASE i <= n - p
    <3>1. p + i <= n /\ i \in 1 .. n - p
      BY <1>1, <2>2
    <3>2. u[i] = s[p + i] /\ w[i] = v[i]
      BY <1>2, <1>5, <1>7, <2>1, <2>2, <3>1
    <3> QED
      BY <1>4, <3>1, <3>2
  <2>3. CASE ~(i <= n - p)
    <3>1. ~(p + i <= n) /\ (p + i) - n = i - (n - p)
      BY <1>1, <2>3
    <3>2. u[i] = t[(p + i) - n]
      <4>1. u[i] = st[p + i]
        BY <1>5
      <4>2. \A k \in 1 .. n + m : ~(k <= n) => st[k] = t[k - n]
        BY <1>2
      <4>3. st[p + i] = t[(p + i) - n]
        BY <2>1, <3>1, <4>2
      <4> QED
        BY <4>1, <4>3
    <3>3. w[i] = t[i - (n - p)]
      BY <1>7, <2>1, <2>3
    <3> QED
      BY <3>1, <3>2, <3>3
  <2> QED
    BY <2>2, <2>3
<1>10. u = w
  BY <1>5, <1>7, <1>8, <1>9, SeqEqual
<1> QED
  BY <1>10 DEF u, w, v, st, n

\* A new line comes behind those from any line on.
LEMMA LinesBehind ==
  ASSUME NEW S, NEW ss \in Seq(Seq(S)), NEW line \in Seq(S), NEW d \in 0 .. Len(ss)
  PROVE  /\ SubSeq(ss, d + 1, Len(ss)) \in Seq(Seq(S))
         /\ FlattenSeq(SubSeq(Append(ss, line), d + 1, Len(Append(ss, line))))
              = FlattenSeq(SubSeq(ss, d + 1, Len(ss))) \o line
<1> DEFINE rest == SubSeq(ss, d + 1, Len(ss))
           tt   == Append(ss, line)
<1>1. Len(ss) \in Nat /\ \A i \in d + 1 .. Len(ss) : ss[i] \in Seq(S)
  OBVIOUS
<1>2. rest \in Seq(Seq(S))
  BY <1>1, SubSeqProperties
<1>3. tt = ss \o <<line>> /\ <<line>> \in Seq(Seq(S))
  BY AppendIsConcat
<1>4. SubSeq(tt, d + 1, Len(tt)) = rest \o <<line>>
  BY <1>3, SuffixConcat
<1> HIDE DEF rest, tt
<1>5. rest \o <<line>> = Append(rest, line)
  BY <1>2, AppendIsConcat
<1>6. FlattenSeq(Append(rest, line)) = FlattenSeq(rest) \o line
  BY <1>2, FlattenAppend
<1> QED
  BY <1>2, <1>4, <1>5, <1>6 DEF rest, tt

\* Behind place p of the text stands line d + 1 and those after it.
BorderAt(ss, p, d) ==
  From(FlattenSeq(ss), p + 1) = FlattenSeq(SubSeq(ss, d + 1, Len(ss)))

AtBorder(text, p) == p = 0 \/ text[p] = "\n"

\* Behind every \n begins a line.
Bordered(ss) ==
  \A p \in 0 .. Len(FlattenSeq(ss)) :
    AtBorder(FlattenSeq(ss), p) => \E d \in 0 .. Len(ss) : BorderAt(ss, p, d)

LEMMA BorderedEmpty == Bordered(<<>>)
<1>1. FlattenSeq(<<>>) = <<>> /\ Len(<<>>) = 0
  BY FlattenType, EmptySeq
<1>2. SubSeq(<<>>, 1, 0) = <<>>
  BY SubSeqEmpty
<1> SUFFICES ASSUME NEW p \in 0 .. 0 PROVE BorderAt(<<>>, p, 0)
  BY <1>1 DEF Bordered
<1>3. p = 0 /\ p + 1 = 1 /\ 0 + 1 = 1
  OBVIOUS
<1>4. From(<<>>, 1) = <<>>
  BY <1>1, <1>2 DEF From
<1> QED
  BY <1>1, <1>2, <1>3, <1>4 DEF BorderAt

LEMMA BorderedAppend ==
  ASSUME NEW ss \in Seq(Lines), Bordered(ss), NEW line \in Lines
  PROVE  Bordered(Append(ss, line))
<1> DEFINE tt == Append(ss, line)
           text == FlattenSeq(ss)
           text2 == FlattenSeq(tt)
           n == Len(ss)
           l == Len(text)
           m == Len(line)
<1>1. ss \in Seq(Seq(STRING)) /\ line \in Seq(STRING)
  BY LinesAssumption, SeqMonotonic
<1>2. /\ tt \in Seq(Seq(STRING)) /\ Len(tt) = n + 1 /\ tt[n+1] = line
      /\ \A k \in 1 .. n : tt[k] = ss[k]
  BY <1>1, AppendProperties
<1>3. text \in Seq(STRING) /\ text2 = text \o line
  BY <1>1, FlattenType, FlattenAppend
<1>4. l \in Nat /\ n \in Nat /\ m \in Nat \ {0} /\ \A k \in 1 .. m : (line[k] = "\n" <=> k = m)
  BY <1>1, <1>3, LinesAssumption
<1>5. /\ text2 \in Seq(STRING) /\ Len(text2) = l + m
      /\ \A i \in 1 .. l + m : text2[i] = IF i <= l THEN text[i] ELSE line[i - l]
  BY <1>1, <1>3, ConcatProperties
<1>6. ASSUME NEW p \in 0 .. l PROVE From(text2, p + 1) = From(text, p + 1) \o line
  BY <1>1, <1>3, SuffixConcat DEF From
<1>7. ASSUME NEW d \in 0 .. n
      PROVE  FlattenSeq(SubSeq(tt, d + 1, n + 1)) = FlattenSeq(SubSeq(ss, d + 1, n)) \o line
  BY <1>1, <1>2, LinesBehind
<1> HIDE DEF tt, text, text2, n, l, m
<1>8. ASSUME NEW p \in 0 .. l + m, AtBorder(text2, p)
      PROVE  \E d \in 0 .. n + 1 : BorderAt(tt, p, d)
  <2>1. CASE p < l
    <3>1. p \in 0 .. l /\ AtBorder(text, p)
      BY <1>4, <1>5, <1>8, <2>1 DEF AtBorder
    <3>2. PICK d \in 0 .. n : BorderAt(ss, p, d)
      BY <3>1 DEF Bordered, text, l, n
    <3>3. From(text, p + 1) = FlattenSeq(SubSeq(ss, d + 1, n))
      BY <3>2 DEF BorderAt, text, n
    <3>4. From(text2, p + 1) = FlattenSeq(SubSeq(tt, d + 1, n + 1))
      BY <1>6, <1>7, <3>1, <3>3
    <3>5. d \in 0 .. n + 1
      BY <1>4
    <3>6. BorderAt(tt, p, d)
      BY <1>2, <3>4 DEF BorderAt, text2
    <3> QED
      BY <3>5, <3>6
  <2>2. CASE p = l
    <3>1. n \in 0 .. n /\ n \in 0 .. n + 1 /\ p \in 0 .. l
      BY <1>4, <2>2
    <3>2. From(text, l + 1) = <<>> /\ SubSeq(ss, n + 1, n) = <<>> /\ FlattenSeq(<<>>) = <<>>
      <4>1. l + 1 \in Int /\ l \in Int /\ l < l + 1 /\ n + 1 \in Int /\ n \in Int /\ n < n + 1
        BY <1>4
      <4>2. SubSeq(text, l + 1, l) = <<>> /\ SubSeq(ss, n + 1, n) = <<>>
        BY <4>1, SubSeqEmpty
      <4>3. FlattenSeq(<<>>) = <<>>
        BY FlattenType, EmptySeq
      <4> QED
        BY <4>2, <4>3 DEF From, l
    <3>3. From(text2, p + 1) = FlattenSeq(SubSeq(tt, n + 1, n + 1))
      BY <1>6, <1>7, <2>2, <3>1, <3>2
    <3>4. BorderAt(tt, p, n)
      BY <1>2, <3>3 DEF BorderAt, text2
    <3> QED
      BY <3>1, <3>4
  <2>3. CASE p > l
    <3>1. p - l \in 1 .. m /\ p # 0 /\ p \in 1 .. l + m /\ ~(p <= l)
      BY <1>4, <2>3
    <3>2. line[p - l] = "\n"
      BY <1>5, <1>8, <3>1 DEF AtBorder
    <3>3. p = l + m
      BY <1>4, <3>1, <3>2
    <3>4. n + 1 \in 0 .. n + 1 /\ l + m < p + 1 /\ n + 1 < (n + 1) + 1
      BY <1>4, <3>3
    <3>5. From(text2, p + 1) = <<>>
      BY <1>4, <1>5, <3>4, SubSeqEmpty DEF From
    <3>6. SubSeq(tt, (n + 1) + 1, n + 1) = <<>>
      BY <1>4, <3>4, SubSeqEmpty
    <3>7. FlattenSeq(<<>>) = <<>>
      BY FlattenType, EmptySeq
    <3>8. BorderAt(tt, p, n + 1)
      BY <1>2, <3>5, <3>6, <3>7 DEF BorderAt, text2
    <3> QED
      BY <3>4, <3>8
  <2> QED
    BY <1>4, <2>1, <2>2, <2>3
<1> QED
  BY <1>2, <1>5, <1>8 DEF Bordered, text2, tt

-----------------------------------------------------------------------------
(* Where the console stands when it prompts *)

\* Behind place p the console may prompt: a line begins there, or the deadline of a
\* search without words.
PromptPlace(text, p) ==
  \/ AtBorder(text, p)
  \/ p > 2 /\ text[p] = " " /\ text[p-1] = "-d" /\ QuerryAt(text, p - 2)

\* What was read is what the console stands behind.
Stands(p) ==
  LET text == FlattenSeq(typed)
  IN /\ stdin = From(text, p + 1)
     /\ pc = "prompt" => PromptPlace(text, p) \/ command = NULL
     /\ pc = "querry" => QuerryAt(text, p)
     /\ command = NULL => pc = "prompt" /\ \A k \in 1 .. p : text[k] \in Separators

AlignedInv ==
  /\ typed \in Seq(Lines)
  /\ Whole(stdin)
  /\ Bordered(typed)
  /\ \E p \in 0 .. Len(FlattenSeq(typed)) : Stands(p)

LEMMA AlignedInvInit == Init => AlignedInv
<1> SUFFICES ASSUME Init PROVE AlignedInv
  OBVIOUS
<1>1. typed = <<>> /\ stdin = <<>> /\ pc = "prompt" /\ Bordered(typed) /\ typed \in Seq(Lines)
  BY BorderedEmpty DEF Init
<1>2. Whole(stdin)
  BY <1>1 DEF Whole
<1>3. FlattenSeq(typed) = <<>> /\ Len(<<>>) = 0
  BY <1>1, FlattenType, EmptySeq
<1>4. From(<<>>, 0 + 1) = <<>>
  BY <1>3, SubSeqEmpty DEF From
<1>5. Stands(0) /\ 0 \in 0 .. Len(FlattenSeq(typed))
  BY <1>1, <1>3, <1>4 DEF Stands, PromptPlace, AtBorder
<1> QED
  BY <1>1, <1>2, <1>5 DEF AlignedInv

LEMMA AlignedInvType ==
  ASSUME AlignedInv, NEW line \in Lines, Type(line)
  PROVE  AlignedInv'
<1> DEFINE text == FlattenSeq(typed)
           l    == Len(text)
<1>1. /\ typed' = Append(typed, line) /\ stdin' = stdin \o line /\ typed \in Seq(Lines)
      /\ UNCHANGED <<pc, command>>
  BY DEF Type, AlignedInv
<1>2. typed' \in Seq(Lines) /\ Bordered(typed') /\ Whole(stdin')
  BY <1>1, AppendProperties, BorderedAppend, LineBehind DEF AlignedInv
<1>3. typed \in Seq(Seq(STRING)) /\ line \in Seq(STRING)
  BY <1>1, LinesAssumption, SeqMonotonic
<1>4. text \in Seq(STRING) /\ text' = text \o line
  BY <1>1, <1>3, FlattenType, FlattenAppend
<1>5. /\ l \in Nat /\ l <= Len(text') /\ Len(text') \in Nat
      /\ \A i \in 1 .. l : text'[i] = text[i]
  BY <1>3, <1>4, ConcatProperties
<1>6. PICK p \in 0 .. l : Stands(p)
  BY DEF AlignedInv
<1>7. stdin' = From(text', p + 1)
  BY <1>1, <1>3, <1>4, <1>6, SuffixConcat DEF Stands, From
<1>8. /\ pc = "prompt" => PromptPlace(text, p) \/ command = NULL
      /\ pc = "querry" => QuerryAt(text, p)
      /\ command = NULL => pc = "prompt" /\ \A k \in 1 .. p : text[k] \in Separators
  BY <1>6 DEF Stands
<1> HIDE DEF l, text
<1>9. ASSUME NEW q \in 0 .. l
      PROVE  QuerryAt(text, q) => QuerryAt(text', q)
  <2>1. q > 0 => q \in 1 .. l /\ (q > 1 => q - 1 \in 1 .. l)
    BY <1>5
  <2> QED
    BY <1>5, <2>1 DEF QuerryAt
<1>10. PromptPlace(text, p) => PromptPlace(text', p)
  <2>1. p # 0 => p \in 1 .. l /\ (p > 2 => p - 1 \in 1 .. l /\ p - 2 \in 0 .. l)
    BY <1>5
  <2> QED
    BY <1>5, <1>9, <2>1 DEF PromptPlace, AtBorder
<1>11. (\A k \in 1 .. p : text[k] \in Separators) => \A k \in 1 .. p : text'[k] \in Separators
  <2>1. \A k \in 1 .. p : k \in 1 .. l
    BY <1>5
  <2> QED
    BY <1>5, <2>1
<1>12. /\ pc' = "prompt" => PromptPlace(text', p) \/ command' = NULL
       /\ pc' = "querry" => QuerryAt(text', p)
       /\ command' = NULL => pc' = "prompt" /\ \A k \in 1 .. p : text'[k] \in Separators
  BY <1>1, <1>6, <1>8, <1>9, <1>10, <1>11
<1>13. Stands(p)' /\ p \in 0 .. Len(text')
  BY <1>5, <1>7, <1>12 DEF Stands, text
<1> QED
  BY <1>2, <1>13 DEF AlignedInv, text

LEMMA AlignedInvStep ==
  ASSUME AlignedInv, ConsoleStep
  PROVE  AlignedInv'
<1> DEFINE text == FlattenSeq(typed)
           l    == Len(text)
           n    == Len(stdin)
<1>1. typed' = typed /\ Whole(stdin') /\ typed \in Seq(Lines) /\ Bordered(typed) /\ Whole(stdin)
  BY StepClean DEF AlignedInv
<1>2. text \in Seq(STRING) /\ l \in Nat
  <2>1. typed \in Seq(Seq(STRING))
    BY <1>1, LinesAssumption, SeqMonotonic
  <2>2. text \in Seq(STRING)
    BY <2>1, FlattenType
  <2> HIDE DEF text
  <2> QED
    BY <2>2
<1>3. PICK p \in 0 .. l : Stands(p)
  BY DEF AlignedInv
<1>4. /\ stdin = From(text, p + 1)
      /\ pc = "prompt" => PromptPlace(text, p) \/ command = NULL
      /\ pc = "querry" => QuerryAt(text, p)
      /\ command = NULL => pc = "prompt" /\ \A k \in 1 .. p : text[k] \in Separators
  BY <1>3 DEF Stands
<1> HIDE DEF text
<1>5. /\ n = l - p /\ p \in Nat /\ n \in Nat /\ \A j \in 1 .. n : stdin[j] = text[p + j]
      /\ \A k \in 1 .. n + 1 : From(stdin, k) = From(text, p + k)
  <2>1. /\ Len(From(text, p + 1)) = l - p
        /\ \A j \in 1 .. l - p : From(text, p + 1)[j] = text[p + j]
        /\ \A k \in 1 .. l - p + 1 : From(From(text, p + 1), k) = From(text, p + k)
    BY <1>2, <1>3, FromFrom
  <2>2. n = l - p
    BY <1>4, <2>1
  <2> HIDE DEF l, n
  <2>3. p \in Nat /\ n \in Nat
    BY <1>2, <1>3, <2>2
  <2>4. \A j \in 1 .. n : stdin[j] = text[p + j]
    BY <1>4, <2>1, <2>2
  <2>5. \A k \in 1 .. n + 1 : From(stdin, k) = From(text, p + k)
    BY <1>4, <2>1, <2>2
  <2> QED
    BY <2>2, <2>3, <2>4, <2>5
<1> HIDE DEF l, n
\* It is enough to find the place of what is left.
<1>6. ASSUME NEW q \in 0 .. l, stdin' = From(text, q + 1),
             pc' = "prompt" => PromptPlace(text, q) \/ command' = NULL,
             pc' = "querry" => QuerryAt(text, q),
             command' = NULL => pc' = "prompt" /\ \A k \in 1 .. q : text[k] \in Separators
      PROVE  AlignedInv'
  <2>1. text' = text /\ l' = l /\ Bordered(typed')
    BY <1>1 DEF text, l
  <2>2. Stands(q)'
    BY <1>6, <2>1 DEF Stands, text
  <2>3. q \in 0 .. Len(FlattenSeq(typed))'
    BY <2>1 DEF l, text
  <2> QED
    BY <1>1, <2>1, <2>2, <2>3 DEF AlignedInv
\* The rest of a line was read.
<1>7. ASSUME NEW m \in 2 .. n + 1, stdin' = From(stdin, m), stdin[m-1] = "\n",
             pc' # "querry", command' # NULL
      PROVE  AlignedInv'
  <2>1. /\ m \in 1 .. n + 1 /\ m - 1 \in 1 .. n /\ p + (m - 1) \in 0 .. l
        /\ (p + (m - 1)) + 1 = p + m
    BY <1>2, <1>3, <1>5
  <2>2. stdin' = From(text, (p + (m - 1)) + 1) /\ text[p + (m - 1)] = "\n"
    BY <1>5, <1>7, <2>1
  <2> QED
    BY <1>6, <1>7, <2>1, <2>2 DEF PromptPlace, AtBorder
<1>8. CASE CreateQuerryStdin
  <2>1. pc = "querry" /\ command # NULL /\ command' = command /\ QuerryAt(text, p)
    BY <1>1, <1>4, <1>8, QuerryRead DEF CreateQuerryStdin
  <2>2. CASE pc' = "crashed" /\ stdin' = stdin
    BY <1>3, <1>4, <1>6, <2>1, <2>2
  <2>3. CASE EndTurn(stale) /\ \E m \in 2 .. n + 1 : stdin' = From(stdin, m) /\ stdin[m-1] = "\n"
    BY <1>7, <2>1, <2>3 DEF EndTurn
  <2>4. ASSUME NEW last \in 1 .. n - 2, pc' = "deadline" \/ EndTurn(stale),
               stdin[last] = "-d", stdin[last+1] = " ", stdin' = From(stdin, last + 2),
               pc' = "prompt" => last = 1
        PROVE  AlignedInv'
    <3>1. /\ last \in 1 .. n /\ last + 1 \in 1 .. n /\ last + 2 \in 1 .. n + 1
          /\ p + (last + 1) \in 0 .. l /\ (p + (last + 1)) + 1 = p + (last + 2)
      BY <1>2, <1>3, <1>5
    <3>2. stdin' = From(text, (p + (last + 1)) + 1)
      BY <1>5, <2>4, <3>1
    <3>3. ASSUME pc' = "prompt" PROVE PromptPlace(text, p + (last + 1))
      <4> DEFINE q == p + 2
      <4>1. last = 1 /\ last + 1 = 2 /\ p > 0
        <5>1. last = 1
          BY <2>4, <3>3
        <5>2. p > 0
          BY <2>1, Zenon DEF QuerryAt
        <5> QED
          BY <5>1, <5>2
      <4>2. /\ q = p + (last + 1) /\ q - 1 = p + 1 /\ q - 2 = p /\ q > 2
            /\ 1 \in 1 .. n /\ 2 \in 1 .. n
        <5>1. p \in Nat /\ n \in Nat
          BY <1>5
        <5>2. q - 1 = p + 1 /\ q - 2 = p /\ q > 2
          BY <4>1, <5>1
        <5>3. 1 \in 1 .. n /\ 2 \in 1 .. n
          BY <3>1, <4>1, <5>1
        <5> QED
          BY <4>1, <5>2, <5>3
      <4>3. stdin[1] = "-d" /\ stdin[2] = " "
        BY <2>4, <4>1
      <4>4. text[p + 1] = "-d" /\ text[p + 2] = " "
        BY <1>5, <4>2, <4>3
      <4>5. text[q] = " " /\ text[q - 1] = "-d" /\ QuerryAt(text, q - 2)
        BY <2>1, <4>2, <4>4
      <4> QED
        BY <4>2, <4>5 DEF PromptPlace
    <3>4. pc' # "querry"
      BY <2>4 DEF EndTurn
    <3> QED
      BY <1>6, <2>1, <3>1, <3>2, <3>3, <3>4
  <2> QED
    BY <1>1, <1>8, <2>2, <2>3, <2>4, QuerryRead DEF n
<1>9. CASE ~CreateQuerryStdin
  <2>1. n # 0 /\ 1 \in 1 .. n /\ 2 \in 1 .. n + 1 /\ p + 1 \in 0 .. l /\ (p + 1) + 1 = p + 2
    <3>1. n # 0
      BY <1>1, <1>9, StepReads, EmptySeq DEF Whole, n
    <3> QED
      BY <1>2, <1>3, <1>5, <3>1
  <2>2. stdin[1] = text[p + 1] /\ From(stdin, 2) = From(text, (p + 1) + 1)
    BY <1>5, <2>1
  \* Nothing but separators so far,
  <2>3. CASE command' = NULL
    <3>1. /\ command = NULL /\ pc = "prompt" /\ pc' = "prompt"
          /\ stdin[1] \in Separators /\ stdin' = From(stdin, 2)
          /\ \A k \in 1 .. p : text[k] \in Separators
      BY <1>1, <1>4, <1>9, <2>3, StepReads
    <3>2. \A k \in 1 .. p + 1 : text[k] \in Separators
      <4>1. \A k \in 1 .. p + 1 : k \in 1 .. p \/ k = p + 1
        BY <1>5
      <4> QED
        BY <2>2, <3>1, <4>1
    <3> QED
      BY <1>6, <2>1, <2>2, <2>3, <3>1, <3>2
  \* a separator that makes the console go by a text that is freed,
  <2>4. ASSUME command' # NULL, pc = "prompt", stdin[1] \in Separators, stdin' = From(stdin, 2),
               pc' # "prompt", pc' = "querry" => command # NULL
        PROVE  AlignedInv'
    <3>1. ASSUME pc' = "querry" PROVE QuerryAt(text, p + 1)
      <4>1. PromptPlace(text, p) /\ text[p + 1] \in Separators
        BY <1>4, <2>2, <2>4, <3>1
      <4>2. p = 0 \/ text[p] \in Separators
        BY <4>1 DEF PromptPlace, AtBorder, Separators
      <4>3. p + 1 > 0 /\ (p + 1 > 1 => p # 0) /\ (p + 1) - 1 = p
        BY <1>5
      <4> QED
        BY <4>1, <4>2, <4>3 DEF QuerryAt
    <3> QED
      BY <1>6, <2>1, <2>2, <2>4, <3>1
  \* or a word and the separator behind it.
  <2>5. ASSUME command' # NULL, pc = "prompt", stdin[1] \notin Separators, n >= 2,
               stdin' = From(stdin, 3), pc' # "prompt", pc' = "querry" => stdin[1] = "/search"
        PROVE  AlignedInv'
    <3>1. /\ 2 \in 1 .. n /\ 3 \in 1 .. n + 1 /\ p + 2 \in 0 .. l /\ (p + 2) + 1 = p + 3
          /\ (p + 2) - 1 = p + 1 /\ p + 2 > 0 /\ 1 \in 1 .. n - 1 /\ 1 + 1 = 2
      BY <1>2, <1>3, <1>5, <2>5
    <3>2. stdin' = From(text, (p + 2) + 1) /\ stdin[2] = text[p + 2]
      BY <1>5, <2>5, <3>1
    <3>3. stdin[2] \in Separators
      BY <1>1, <2>5, <3>1 DEF Whole, n
    <3>4. pc' = "querry" => QuerryAt(text, p + 2)
      BY <2>2, <2>5, <3>1, <3>2, <3>3 DEF QuerryAt
    <3> QED
      BY <1>6, <2>5, <3>1, <3>2, <3>4
  <2>6. ASSUME command' # NULL PROVE AlignedInv'
    <3>1. \/ \E m \in 2 .. n + 1 :
               /\ stdin' = From(stdin, m) /\ stdin[m-1] = "\n"
               /\ pc' = "prompt" \/ pc' = "crashed"
          \/ /\ pc = "prompt" /\ stdin[1] \in Separators /\ stdin' = From(stdin, 2)
             /\ pc' # "prompt" /\ (pc' = "querry" => command # NULL)
          \/ /\ pc = "prompt" /\ stdin[1] \notin Separators /\ stdin' = From(stdin, 3) /\ n >= 2
             /\ pc' # "prompt" /\ (pc' = "querry" => stdin[1] = "/search")
      BY <1>1, <1>9, <2>6, StepReads DEF n
    <3> QED
      BY <1>7, <2>4, <2>5, <2>6, <3>1
  <2> QED
    BY <2>3, <2>6
<1> QED
  BY <1>8, <1>9

\* Whatever is typed and however far ahead, when the console prompts it is behind a
\* line, behind the -d of a search without words, or behind blanks and no command:
\* for any lines and any number of them.
THEOREM PromptsAligned == Spec => []Aligned
<1>1. ASSUME AlignedInv, [Next]_vars PROVE AlignedInv'
  <2>1. CASE UNCHANGED vars
    BY <1>1, <2>1 DEF AlignedInv, Stands, vars
  <2> QED
    BY <1>1, <2>1, AlignedInvType, AlignedInvStep DEF Next, ConsoleStep
<1>2. ASSUME AlignedInv PROVE Aligned
  <2> DEFINE text == FlattenSeq(typed)
  <2>1. PICK p \in 0 .. Len(text) : Stands(p)
    BY <1>2 DEF AlignedInv
  <2>2. /\ stdin = From(text, p + 1)
        /\ pc = "prompt" => PromptPlace(text, p) \/ command = NULL
        /\ command = NULL => \A k \in 1 .. p : text[k] \in Separators
    BY <2>1 DEF Stands
  <2>3. text \in Seq(STRING)
    <3>1. typed \in Seq(Seq(STRING))
      BY <1>2, LinesAssumption, SeqMonotonic DEF AlignedInv
    <3> QED
      BY <3>1, FlattenType
  <2>4. AtBorder(text, p) =>
          \E d \in 0 .. Len(typed) : stdin = FlattenSeq(SubSeq(typed, d + 1, Len(typed)))
    BY <1>2, <2>1, <2>2 DEF AlignedInv, Bordered, BorderAt
  <2> HIDE DEF text
  <2>5. p = Len(text) - Len(stdin)
    <3>1. Len(stdin) = Len(text) - p
      BY <2>1, <2>2, <2>3, FromFrom
    <3> QED
      BY <2>1, <2>3, <3>1
  <2> QED
    BY <2>2, <2>4, <2>5 DEF Aligned, PromptPlace, text
<1> QED
  BY <1>1, <1>2, AlignedInvInit, PTL DEF Spec

-----------------------------------------------------------------------------
(* The words of lines and questions *)

LEMMA WordsType ==
  ASSUME NEW S, NEW s \in Seq(S)
  PROVE  Words(s) \in Seq(S) /\ (s = <<>> => Words(s) = <<>>)
<1>1. PICK f : f \in [0 .. Len(s) -> Seq(S)] /\ f[0] = <<>> /\ Words(s) = f[Len(s)]
  BY WordsBuilt
<1>2. Len(s) \in Nat /\ (s = <<>> => Len(s) = 0)
  BY EmptySeq
<1> QED
  BY <1>1, <1>2

LEMMA WordsAppend ==
  ASSUME NEW S, NEW s \in Seq(S), NEW x \in S
  PROVE  Words(Append(s, x)) = WithWord(Words(s), x)
<1> DEFINE t == Append(s, x)
           n == Len(s)
<1>1. n \in Nat /\ t \in Seq(S) /\ Len(t) = n + 1 /\ t[n+1] = x /\ \A k \in 1 .. n : t[k] = s[k]
  BY AppendProperties
<1>2. PICK f : /\ f[0] = <<>>
               /\ \A k \in 1 .. n : f[k] = WithWord(f[k-1], s[k])
               /\ Words(s) = f[n]
  BY WordsBuilt
<1> HIDE DEF t, n
<1>3. PICK g : /\ g[0] = <<>>
               /\ \A k \in 1 .. n+1 : g[k] = WithWord(g[k-1], t[k])
               /\ Words(t) = g[n+1]
  <2>1. \E g : /\ g[0] = <<>>
               /\ \A k \in 1 .. Len(t) : g[k] = WithWord(g[k-1], t[k])
               /\ Words(t) = g[Len(t)]
    BY <1>1, WordsBuilt
  <2> QED
    BY <1>1, <2>1
<1> DEFINE Same == {m \in Nat : m <= n => g[m] = f[m]}
<1>4. 0 \in Same
  BY <1>2, <1>3
<1>5. ASSUME NEW m \in Same PROVE m + 1 \in Same
  <2> SUFFICES ASSUME m + 1 <= n PROVE g[m+1] = f[m+1]
    OBVIOUS
  <2>1. m \in Nat /\ m + 1 \in 1 .. n /\ m + 1 \in 1 .. n + 1 /\ (m + 1) - 1 = m /\ g[m] = f[m]
    BY <1>1
  <2> HIDE DEF Same
  <2>2. g[m+1] = WithWord(g[m], t[m+1]) /\ f[m+1] = WithWord(f[m], s[m+1])
    BY <1>2, <1>3, <2>1
  <2> QED
    BY <1>1, <2>1, <2>2
<1>6. g[n] = f[n]
  <2>1. Same \in SUBSET Nat
    OBVIOUS
  <2>2. Same = Nat
    <3> HIDE DEF Same
    <3> QED
      BY <1>4, <1>5, <2>1, SetInduction
  <2>3. n \in Same
    <3> HIDE DEF Same
    <3> QED
      BY <1>1, <2>2
  <2> QED
    BY <1>1, <2>3
<1>7. g[n+1] = WithWord(g[n], t[n+1])
  <2>1. n + 1 \in 1 .. n + 1 /\ (n + 1) - 1 = n
    BY <1>1
  <2> QED
    BY <1>3, <2>1
<1> QED
  BY <1>1, <1>2, <1>3, <1>6, <1>7 DEF t

\* Of words with one separator behind each, the words.
LEMMA WordsOfPairs ==
  ASSUME NEW S, NEW s \in Seq(S), NEW m \in Nat, Len(s) = 2 * m,
         \A j \in 1 .. m : s[2*j - 1] \notin Separators /\ s[2*j] \in Separators
  PROVE  Len(Words(s)) = m /\ \A j \in 1 .. m : Words(s)[j] = s[2*j - 1]
<1>1. PICK f : /\ f \in [0 .. Len(s) -> Seq(S)]
               /\ f[0] = <<>>
               /\ \A k \in 1 .. Len(s) : f[k] = WithWord(f[k-1], s[k])
               /\ Words(s) = f[Len(s)]
  BY WordsBuilt
<1> DEFINE Right(n) == Len(f[2*n]) = n /\ \A j \in 1 .. n : f[2*n][j] = s[2*j - 1]
           Good == {n \in Nat : n <= m => Right(n)}
<1>2. 0 \in Good
  <2>1. Len(f[0]) = 0 /\ 2 * 0 = 0
    BY <1>1, EmptySeq
  <2> QED
    BY <2>1
<1>3. ASSUME NEW n \in Good PROVE n + 1 \in Good
  <2> SUFFICES ASSUME n + 1 <= m PROVE Right(n + 1)
    OBVIOUS
  <2>1. n \in Nat /\ Right(n)
    OBVIOUS
  <2> HIDE DEF Good
  <2>2. /\ n + 1 \in 1 .. m /\ 2*n \in 0 .. Len(s) /\ 2*n + 1 \in 1 .. Len(s) /\ 2*n + 2 \in 1 .. Len(s)
        /\ (2*n + 1) - 1 = 2*n /\ (2*n + 2) - 1 = 2*n + 1 /\ 2*(n+1) = 2*n + 2 /\ 2*(n+1) - 1 = 2*n + 1
    BY <2>1
  <2>3. s[2*n + 1] \notin Separators /\ s[2*n + 2] \in Separators
    BY <2>2
  <2>4. f[2*n + 1] = WithWord(f[2*n], s[2*n + 1]) /\ f[2*n + 2] = WithWord(f[2*n + 1], s[2*n + 2])
    BY <1>1, <2>2
  <2>5. f[2*n + 2] = Append(f[2*n], s[2*n + 1])
    BY <2>3, <2>4 DEF WithWord
  <2>6. f[2*n] \in Seq(S) /\ s[2*n + 1] \in S
    BY <1>1, <2>2
  <2> DEFINE a == f[2*n]
             b == s[2*n + 1]
  <2>7. /\ Len(Append(a, b)) = Len(a) + 1 /\ Append(a, b)[Len(a) + 1] = b
        /\ \A j \in 1 .. Len(a) : Append(a, b)[j] = a[j]
    BY <2>6, AppendProperties
  <2>8. Len(a) = n /\ \A j \in 1 .. n : a[j] = s[2*j - 1]
    BY <2>1
  <2>9. f[2*(n+1)] = Append(a, b) /\ b = s[2*(n+1) - 1]
    BY <2>2, <2>5
  <2> HIDE DEF a, b
  <2>10. ASSUME NEW j \in 1 .. n + 1 PROVE f[2*(n+1)][j] = s[2*j - 1]
    <3>1. CASE j = n + 1
      BY <2>7, <2>8, <2>9, <3>1
    <3>2. CASE j # n + 1
      <4>1. j \in 1 .. n
        BY <2>1, <3>2
      <4> QED
        BY <2>7, <2>8, <2>9, <4>1
    <3> QED
      BY <3>1, <3>2
  <2> QED
    BY <2>7, <2>8, <2>9, <2>10
<1>4. Good = Nat
  <2>1. Good \in SUBSET Nat
    OBVIOUS
  <2> HIDE DEF Good
  <2> QED
    BY <1>2, <1>3, <2>1, SetInduction
<1>5. Right(m)
  <2>1. m \in Good
    <3> HIDE DEF Good
    <3> QED
      BY <1>4
  <2> QED
    BY <2>1
<1> QED
  BY <1>1, <1>5

\* A line with single blanks is words with one separator behind each.
LEMMA LineShape ==
  ASSUME NEW line \in Lines, SingleBlanks(line)
  PROVE  \E m \in Nat \ {0} :
           /\ Len(line) = 2 * m
           /\ \A j \in 1 .. m : line[2*j - 1] \notin Separators /\ line[2*j] \in Separators
           /\ Len(Words(line)) = m /\ \A j \in 1 .. m : Words(line)[j] = line[2*j - 1]
<1> DEFINE L == Len(line)
<1>1. /\ line \in Seq(STRING) /\ L \in Nat \ {0} /\ DOMAIN line = 1 .. L
      /\ \A k \in 1 .. L : /\ line[k] = "\n" <=> k = L
                           /\ k < L => line[k] \in Separators \/ line[k+1] \in Separators
  BY LinesAssumption
<1>2. \A k \in 1 .. L : ~(line[k] \in Separators /\ (k > 1 => line[k-1] \in Separators))
  <2>1. {k \in DOMAIN line : line[k] \in Separators /\ (k > 1 => line[k-1] \in Separators)} = {}
    BY DEF SingleBlanks, EmptyWords
  <2> QED
    BY <1>1, <2>1
<1> HIDE DEF L
<1>3. line[L] \in Separators
  <2>1. L \in 1 .. L
    BY <1>1
  <2> QED
    BY <1>1, <2>1 DEF Separators
<1>4. ASSUME NEW k \in 1 .. L, line[k] \notin Separators
      PROVE  k + 1 \in 1 .. L /\ line[k+1] \in Separators
  <2>1. k # L
    BY <1>3, <1>4
  <2>2. k < L /\ k + 1 \in 1 .. L
    BY <1>1, <2>1
  <2> QED
    BY <1>1, <1>4, <2>2
<1>5. ASSUME NEW k \in 1 .. L, line[k] \in Separators, k + 1 \in 1 .. L
      PROVE  line[k+1] \notin Separators
  <2>1. k + 1 > 1 /\ (k + 1) - 1 = k
    BY <1>1
  <2> QED
    BY <1>2, <1>5, <2>1
<1> DEFINE Pair(j) == 2*j <= L /\ line[2*j - 1] \notin Separators /\ line[2*j] \in Separators
           Good == {j \in Nat : j >= 1 /\ 2*j - 1 <= L => Pair(j)}
<1>6. 0 \in Good
  OBVIOUS
<1>7. ASSUME NEW j \in Good PROVE j + 1 \in Good
  <2> SUFFICES ASSUME 2*(j+1) - 1 <= L PROVE Pair(j + 1)
    OBVIOUS
  <2>1. j \in Nat /\ (j >= 1 /\ 2*j - 1 <= L => Pair(j))
    OBVIOUS
  <2> HIDE DEF Good
  <2>2. 2*(j+1) - 1 \in 1 .. L /\ 2*(j+1) - 1 = 2*j + 1 /\ 2*(j+1) = (2*j + 1) + 1
    BY <1>1, <2>1
  <2>3. line[2*j + 1] \notin Separators
    <3>1. CASE j = 0
      <4>1. 2*j + 1 = 1 /\ 1 \in 1 .. L
        BY <1>1, <3>1
      <4> QED
        BY <1>2, <4>1
    <3>2. CASE j # 0
      <4>1. j >= 1 /\ 2*j - 1 <= L /\ 2*j \in 1 .. L /\ 2*j + 1 \in 1 .. L
        BY <1>1, <2>1, <2>2, <3>2
      <4>2. line[2*j] \in Separators
        BY <2>1, <4>1
      <4> QED
        BY <1>5, <4>1, <4>2
    <3> QED
      BY <3>1, <3>2
  <2>4. (2*j + 1) + 1 \in 1 .. L /\ line[(2*j + 1) + 1] \in Separators
    BY <1>4, <2>2, <2>3
  <2> QED
    BY <1>1, <2>2, <2>3, <2>4
<1>8. Good = Nat
  <2>1. Good \in SUBSET Nat
    OBVIOUS
  <2> HIDE DEF Good
  <2> QED
    BY <1>6, <1>7, <2>1, SetInduction
<1>9. \A j \in Nat \ {0} : 2*j - 1 <= L => Pair(j)
  <2> SUFFICES ASSUME NEW j \in Nat \ {0}, 2*j - 1 <= L PROVE Pair(j)
    OBVIOUS
  <2>1. j \in Good
    <3> HIDE DEF Good
    <3> QED
      BY <1>8
  <2> QED
    BY <2>1
<1>10. PICK m \in Nat \ {0} : L = 2 * m
  <2>1. \A l \in Nat \ {0} : \E m \in Nat \ {0} : l = 2 * m \/ l = 2 * m - 1
    <3> SUFFICES ASSUME NEW l \in Nat \ {0}
                 PROVE  \E m \in Nat \ {0} : l = 2 * m \/ l = 2 * m - 1
      OBVIOUS
    <3>1. (l + 1) \div 2 \in Nat \ {0} /\ (l = 2 * ((l + 1) \div 2) \/ l = 2 * ((l + 1) \div 2) - 1)
      OBVIOUS
    <3> QED
      BY <3>1
  <2>2. PICK m \in Nat \ {0} : L = 2 * m \/ L = 2 * m - 1
    BY <1>1, <2>1
  <2>3. L # 2 * m - 1
    <3> SUFFICES ASSUME L = 2 * m - 1 PROVE FALSE
      OBVIOUS
    <3>1. 2 * m <= L
      BY <1>1, <1>9
    <3> QED
      BY <1>1, <3>1
  <2> QED
    BY <2>2, <2>3
<1>11. \A j \in 1 .. m : line[2*j - 1] \notin Separators /\ line[2*j] \in Separators
  <2> SUFFICES ASSUME NEW j \in 1 .. m
               PROVE  line[2*j - 1] \notin Separators /\ line[2*j] \in Separators
    OBVIOUS
  <2>1. j \in Nat \ {0} /\ 2*j - 1 <= L
    BY <1>10
  <2> QED
    BY <1>9, <2>1
<1>12. Len(line) = 2 * m
  BY <1>10 DEF L
<1>13. Len(Words(line)) = m /\ \A j \in 1 .. m : Words(line)[j] = line[2*j - 1]
  BY <1>1, <1>11, <1>12, WordsOfPairs
<1> QED
  BY <1>11, <1>12, <1>13

\* Sequences are built by Append.
LEMMA SeqInduction ==
  ASSUME NEW S, NEW P, P \subseteq Seq(S), <<>> \in P,
         ASSUME NEW s \in P, NEW x \in S PROVE Append(s, x) \in P
  PROVE  P = Seq(S)
<1> DEFINE Good == {n \in Nat : \A s \in Seq(S) : Len(s) = n => s \in P}
<1>1. 0 \in Good
  BY EmptySeq
<1>2. ASSUME NEW n \in Good PROVE n + 1 \in Good
  <2>1. n \in Nat /\ n + 1 \in Nat /\ \A s \in Seq(S) : Len(s) = n => s \in P
    OBVIOUS
  <2>2. ASSUME NEW t \in Seq(S), Len(t) = n + 1 PROVE t \in P
    <3>1. t # <<>>
      BY <2>1, <2>2, EmptySeq
    <3>2. PICK s \in Seq(S), x \in S : t = Append(s, x)
      BY <3>1, SequenceEmptyOrAppend
    <3>3. Len(t) = Len(s) + 1 /\ Len(s) \in Nat
      BY <3>2, AppendProperties
    <3>4. Len(s) = n
      BY <2>1, <2>2, <3>3
    <3> QED
      BY <2>1, <3>2, <3>4
  <2> QED
    BY <2>1, <2>2
<1>3. Good = Nat
  <2>1. Good \in SUBSET Nat
    OBVIOUS
  <2> HIDE DEF Good
  <2> QED
    BY <1>1, <1>2, <2>1, SetInduction
<1>4. \A s \in Seq(S) : Len(s) \in Nat
  OBVIOUS
<1> QED
  BY <1>3, <1>4

\* What QuerryToStr writes of a word, and of words.
Blank == " "
Written(word) == <<Blank, word>>
AllWritten(words) == [k \in DOMAIN words |-> Written(words[k])]

LEMMA WrittenType ==
  ASSUME NEW S, Blank \in S, NEW w \in S
  PROVE  Written(w) \in Seq(S) /\ \A s \in Seq(S) : s \o Written(w) = Append(Append(s, Blank), w)
<1>1. ASSUME NEW b \in S, NEW s \in Seq(S)
      PROVE  <<b, w>> \in Seq(S) /\ s \o <<b, w>> = Append(Append(s, b), w)
  <2>1. <<b, w>> \in Seq(S) /\ <<b>> \in Seq(S) /\ <<w>> \in Seq(S) /\ <<b, w>> = <<b>> \o <<w>>
    OBVIOUS
  <2>2. s \o (<<b>> \o <<w>>) = (s \o <<b>>) \o <<w>>
    BY <2>1, ConcatAssociative
  <2>3. Append(s, b) = s \o <<b>> /\ Append(s, b) \in Seq(S)
    BY AppendIsConcat, AppendProperties
  <2>4. Append(Append(s, b), w) = Append(s, b) \o <<w>>
    BY <2>3, AppendIsConcat
  <2> QED
    BY <2>1, <2>2, <2>3, <2>4
<1>2. <<>> \in Seq(S)
  OBVIOUS
<1> QED
  BY <1>1, <1>2 DEF Written

LEMMA AllWrittenAppend ==
  ASSUME NEW S, Blank \in S, NEW ws \in Seq(S), NEW w \in S
  PROVE  /\ AllWritten(ws) \in Seq(Seq(S))
         /\ AllWritten(Append(ws, w)) = Append(AllWritten(ws), Written(w))
<1>1. ASSUME NEW vs \in Seq(S)
      PROVE  /\ AllWritten(vs) \in Seq(Seq(S)) /\ Len(AllWritten(vs)) = Len(vs)
             /\ \A k \in 1 .. Len(vs) : AllWritten(vs)[k] = Written(vs[k])
  <2>1. DOMAIN vs = 1 .. Len(vs) /\ Len(vs) \in Nat /\ \A k \in 1 .. Len(vs) : vs[k] \in S
    OBVIOUS
  <2>2. \A k \in 1 .. Len(vs) : Written(vs[k]) \in Seq(S)
    BY <2>1, WrittenType
  <2>3. AllWritten(vs) = [k \in 1 .. Len(vs) |-> Written(vs[k])]
    BY <2>1 DEF AllWritten
  <2> QED
    BY <2>1, <2>2, <2>3
<1> DEFINE n  == Len(ws)
           us == Append(ws, w)
           a  == AllWritten(us)
           b  == Append(AllWritten(ws), Written(w))
<1>2. n \in Nat /\ us \in Seq(S) /\ Len(us) = n + 1 /\ us[n+1] = w /\ \A k \in 1 .. n : us[k] = ws[k]
  BY AppendProperties
<1>3. /\ AllWritten(ws) \in Seq(Seq(S)) /\ Len(AllWritten(ws)) = n
      /\ \A k \in 1 .. n : AllWritten(ws)[k] = Written(ws[k])
  BY <1>1
<1>4. Written(w) \in Seq(S)
  BY WrittenType
<1>5. /\ b \in Seq(Seq(S)) /\ Len(b) = n + 1 /\ b[n+1] = Written(w)
      /\ \A k \in 1 .. n : b[k] = AllWritten(ws)[k]
  BY <1>3, <1>4, AppendProperties
<1>6. a \in Seq(Seq(S)) /\ Len(a) = n + 1 /\ \A k \in 1 .. n + 1 : a[k] = Written(us[k])
  BY <1>1, <1>2
<1> HIDE DEF a, b, us, n
<1>7. \A k \in 1 .. n + 1 : a[k] = b[k]
  <2>1. \A k \in 1 .. n + 1 : k = n + 1 \/ k \in 1 .. n
    BY <1>2
  <2> QED
    BY <1>2, <1>3, <1>5, <1>6, <2>1
<1>8. a = b
  BY <1>5, <1>6, <1>7, SeqEqual
<1> QED
  BY <1>3, <1>8 DEF a, b, us

\* A worker finds in a question the words the console put into it.
LEMMA QuestionBack ==
  ASSUME NEW S, Blank \in S, NEW instruction, NEW ws \in Seq(S),
         \A k \in 1 .. Len(ws) : ws[k] \notin Separators
  PROVE  CreateQuerry(Question(instruction, ws)) = ws
<1> DEFINE Wordy(vs) == \A k \in 1 .. Len(vs) : vs[k] \notin Separators
           Text(vs)  == FlattenSeq(AllWritten(vs))
           Good      == {vs \in Seq(S) : Wordy(vs) => Words(Text(vs)) = vs}
<1>1. ASSUME NEW vs \in Seq(S) PROVE Text(vs) \in Seq(S)
  BY AllWrittenAppend, FlattenType
<1>2. <<>> \in Good
  <2>1. AllWritten(<<>>) = <<>>
    BY DEF AllWritten
  <2>2. Text(<<>>) = <<>>
    <3>1. <<>> \in Seq(Seq(S))
      OBVIOUS
    <3>2. FlattenSeq(<<>>) = <<>>
      BY <3>1, FlattenType
    <3> QED
      BY <2>1, <3>2
  <2>3. Words(<<>>) = <<>> /\ <<>> \in Seq(S)
    BY WordsType, EmptySeq
  <2> HIDE DEF Text
  <2> QED
    BY <2>2, <2>3
<1>3. ASSUME NEW vs \in Good, NEW w \in S PROVE Append(vs, w) \in Good
  <2> DEFINE us == Append(vs, w)
             n  == Len(vs)
             G  == Text(vs)
  <2>1. /\ vs \in Seq(S) /\ us \in Seq(S) /\ n \in Nat /\ Len(us) = n + 1 /\ us[n+1] = w
        /\ \A k \in 1 .. n : us[k] = vs[k]
    BY AppendProperties
  <2>2. G \in Seq(S) /\ Append(G, Blank) \in Seq(S)
    <3>1. G \in Seq(S)
      BY <1>1, <2>1
    <3> HIDE DEF G
    <3> QED
      BY <3>1, AppendProperties
  <2>3. Text(us) = G \o Written(w)
    <3>1. AllWritten(vs) \in Seq(Seq(S)) /\ AllWritten(us) = Append(AllWritten(vs), Written(w))
      BY <2>1, AllWrittenAppend
    <3>2. Written(w) \in Seq(S)
      BY WrittenType
    <3>3. FlattenSeq(Append(AllWritten(vs), Written(w))) = FlattenSeq(AllWritten(vs)) \o Written(w)
      BY <3>1, <3>2, FlattenAppend
    <3> QED
      BY <3>1, <3>3
  <2>4. Wordy(us) => Wordy(vs) /\ w \notin Separators
    <3>1. n + 1 \in 1 .. n + 1 /\ \A k \in 1 .. n : k \in 1 .. n + 1
      BY <2>1
    <3> HIDE DEF us
    <3> QED
      BY <2>1, <3>1
  <2> HIDE DEF G
  <2>5. G \o Written(w) = Append(Append(G, Blank), w)
    BY <2>2, WrittenType
  <2>6. Words(Append(G, Blank)) = WithWord(Words(G), Blank)
    BY <2>2, WordsAppend
  <2>7. Words(Append(Append(G, Blank), w)) = WithWord(Words(Append(G, Blank)), w)
    BY <2>2, WordsAppend
  <2>8. Wordy(vs) => Words(G) = vs
    BY DEF G
  <2>9. Blank \in Separators
    BY DEF Separators, Blank
  <2>10. ASSUME Wordy(us) PROVE Words(Text(us)) = us
    <3>1. Words(G) = vs /\ w \notin Separators
      BY <2>4, <2>8, <2>10
    <3> HIDE DEF Wordy, Text
    <3> QED
      BY <2>3, <2>5, <2>6, <2>7, <2>9, <3>1 DEF WithWord
  <2> QED
    BY <2>1, <2>10
<1>4. ws \in Good
  <2>1. Good \subseteq Seq(S)
    OBVIOUS
  <2> HIDE DEF Good
  <2> QED
    BY <1>2, <1>3, <2>1, SeqInduction
<1> DEFINE T == Text(ws)
<1>5. Words(T) = ws /\ T \in Seq(S)
  BY <1>1, <1>4
<1>6. Question(instruction, ws) = <<instruction>> \o T
  BY DEF Question, AllWritten, Written, Blank
<1> HIDE DEF T
<1>7. Tail(<<instruction>> \o T) = T
  <2> DEFINE U == S \cup {instruction}
  <2>1. T \in Seq(U) /\ instruction \in U
    BY <1>5, SeqMonotonic
  <2> HIDE DEF U
  <2> QED
    BY <2>1
<1> QED
  BY <1>5, <1>6, <1>7 DEF CreateQuerry

-----------------------------------------------------------------------------
(* The lines that are still to be served, and what the others meant *)

\* The first line comes before the others.
LEMMA FlattenCons ==
  ASSUME NEW S, NEW l \in Seq(S), NEW ss \in Seq(Seq(S))
  PROVE  FlattenSeq(<<l>> \o ss) = l \o FlattenSeq(ss)
<1> DEFINE Good == {tt \in Seq(Seq(S)) : FlattenSeq(<<l>> \o tt) = l \o FlattenSeq(tt)}
<1>1. <<l>> \in Seq(Seq(S))
  OBVIOUS
<1>2. <<>> \in Good
  <2>1. <<>> \in Seq(Seq(S)) /\ FlattenSeq(<<>>) = <<>>
    BY EmptySeq, FlattenType
  <2>2. <<l>> \o <<>> = <<l>> /\ l \o <<>> = l
    BY <1>1, ConcatEmptySeq
  <2>3. FlattenSeq(<<l>>) = l
    <3>1. Append(<<>>, l) = <<l>> /\ <<>> \o l = l
      BY ConcatEmptySeq
    <3>2. FlattenSeq(Append(<<>>, l)) = FlattenSeq(<<>>) \o l
      BY <2>1, FlattenAppend
    <3> QED
      BY <2>1, <3>1, <3>2
  <2> QED
    BY <2>1, <2>2, <2>3
<1>3. ASSUME NEW uu \in Good, NEW e \in Seq(S) PROVE Append(uu, e) \in Good
  <2>1. uu \in Seq(Seq(S)) /\ FlattenSeq(<<l>> \o uu) = l \o FlattenSeq(uu)
    OBVIOUS
  <2> HIDE DEF Good
  <2>2. <<l>> \o Append(uu, e) = Append(<<l>> \o uu, e)
    <3>1. Append(uu, e) = uu \o <<e>> /\ <<e>> \in Seq(Seq(S)) /\ <<l>> \o uu \in Seq(Seq(S))
      BY <1>1, <2>1, AppendIsConcat, ConcatProperties
    <3>2. Append(<<l>> \o uu, e) = (<<l>> \o uu) \o <<e>>
      BY <3>1, AppendIsConcat
    <3>3. (<<l>> \o uu) \o <<e>> = <<l>> \o (uu \o <<e>>)
      BY <1>1, <2>1, <3>1, ConcatAssociative
    <3> QED
      BY <3>1, <3>2, <3>3
  <2>3. FlattenSeq(Append(<<l>> \o uu, e)) = FlattenSeq(<<l>> \o uu) \o e
    <3>1. <<l>> \o uu \in Seq(Seq(S))
      BY <1>1, <2>1, ConcatProperties
    <3> QED
      BY <3>1, FlattenAppend
  <2>4. FlattenSeq(Append(uu, e)) = FlattenSeq(uu) \o e /\ FlattenSeq(uu) \in Seq(S)
    BY <2>1, FlattenAppend, FlattenType
  <2>5. (l \o FlattenSeq(uu)) \o e = l \o (FlattenSeq(uu) \o e)
    BY <2>4, ConcatAssociative
  <2>6. Append(uu, e) \in Seq(Seq(S))
    BY <2>1, AppendProperties
  <2>7. FlattenSeq(<<l>> \o Append(uu, e)) = l \o FlattenSeq(Append(uu, e))
    BY <2>1, <2>2, <2>3, <2>4, <2>5
  <2> QED
    BY <2>6, <2>7 DEF Good
<1>4. Good = Seq(Seq(S))
  <2>1. Good \subseteq Seq(Seq(S))
    OBVIOUS
  <2> HIDE DEF Good
  <2> QED
    BY <1>2, <1>3, <2>1, SeqInduction
<1> QED
  BY <1>4

Rest(d) == FlattenSeq(SubSeq(typed, d + 1, Len(typed)))
Answered(d) == FlattenSeq([k \in 1 .. d |-> Meaning(typed[k])])

Commands == {"/search", "/count", "/wc", "/exit"}

\* The console is between two lines, or within a line of which it has read the command,
\* of a search perhaps the query and the -d.
Between(d) == pc = "prompt" /\ stdin = Rest(d)

Within(d) ==
  LET line == typed[d+1]
  IN /\ d < Len(typed)
     /\ \/ pc = "querry" /\ line[1] = "/search" /\ stdin = From(line, 3) \o Rest(d+1)
        \/ pc = "keyword" /\ line[1] = "/count" /\ stdin = From(line, 3) \o Rest(d+1)
        \/ pc = "skip" /\ line[1] \notin Commands /\ stdin = From(line, 3) \o Rest(d+1)
        \/ /\ pc = "deadline" /\ line[1] = "/search"
           /\ stdin = From(line, Len(line) - 1) \o Rest(d+1)
           /\ querry = SubSeq(Words(line), 2, Len(Words(line)) - 2)

ProperTyped == \A k \in DOMAIN typed : Proper(typed[k])

ServedInv ==
  /\ typed \in Seq(Lines)
  /\ ProperTyped /\ pc # "done" =>
       /\ stale = FALSE
       /\ \E d \in 0 .. Len(typed) : served = Answered(d) /\ (Between(d) \/ Within(d))

LEMMA RestFirst ==
  ASSUME typed \in Seq(Lines), NEW d \in 0 .. Len(typed)
  PROVE  /\ Rest(d) \in Seq(STRING)
         /\ d = Len(typed) => Rest(d) = <<>>
         /\ d < Len(typed) => /\ typed[d+1] \in Lines /\ d + 1 \in DOMAIN typed
                              /\ Rest(d+1) \in Seq(STRING) /\ Rest(d) = typed[d+1] \o Rest(d+1)
<1>1. typed \in Seq(Seq(STRING)) /\ Len(typed) \in Nat
  BY LinesAssumption, SeqMonotonic
<1>2. ASSUME NEW e \in 0 .. Len(typed)
      PROVE  SubSeq(typed, e + 1, Len(typed)) \in Seq(Seq(STRING)) /\ Rest(e) \in Seq(STRING)
  <2>1. SubSeq(typed, e + 1, Len(typed)) \in Seq(Seq(STRING))
    BY <1>1, LinesBehind, EmptySeq
  <2> QED
    BY <2>1, FlattenType DEF Rest
<1>3. ASSUME d = Len(typed) PROVE Rest(d) = <<>>
  <2>1. SubSeq(typed, d + 1, Len(typed)) = <<>>
    BY <1>1, <1>3, SubSeqEmpty
  <2> QED
    BY <1>1, <2>1, <1>2, FlattenType DEF Rest
<1>4. ASSUME d < Len(typed)
      PROVE  /\ typed[d+1] \in Lines /\ d + 1 \in DOMAIN typed
             /\ Rest(d+1) \in Seq(STRING) /\ Rest(d) = typed[d+1] \o Rest(d+1)
  <2>1. /\ d + 1 \in 1 .. Len(typed) /\ d + 1 \in 0 .. Len(typed) /\ d + 1 \in Int /\ Len(typed) \in Int
        /\ d + 1 <= Len(typed)
    BY <1>1, <1>4
  <2>2. typed[d+1] \in Lines /\ d + 1 \in DOMAIN typed
    BY <2>1
  <2>3. typed[d+1] \in Seq(STRING)
    BY <2>2, LinesAssumption
  <2> DEFINE rest == SubSeq(typed, (d + 1) + 1, Len(typed))
  <2>4. rest \in Seq(Seq(STRING)) /\ Rest(d+1) = FlattenSeq(rest) /\ Rest(d+1) \in Seq(STRING)
    BY <1>2, <2>1 DEF Rest
  <2>5. SubSeq(typed, d + 1, Len(typed)) = <<typed[d+1]>> \o rest
    <3>1. \A i \in d + 1 .. Len(typed) : typed[i] \in Lines
      BY <1>1
    <3> QED
      BY <2>1, <3>1, SubSeqRecursiveFirst
  <2> HIDE DEF rest
  <2>6. FlattenSeq(<<typed[d+1]>> \o rest) = typed[d+1] \o FlattenSeq(rest)
    BY <2>3, <2>4, FlattenCons
  <2> QED
    BY <2>2, <2>4, <2>5, <2>6 DEF Rest
<1> QED
  BY <1>2, <1>3, <1>4

\* A line asks for one command or for none.
Request(line) == Meaning(line)[1]
Requests == {Request(line) : line \in Lines}

LEMMA MeaningType ==
  ASSUME NEW line \in Lines
  PROVE  Meaning(line) \in Seq(Requests)
<1>1. Meaning(line) = <<>> \/ \E r : Meaning(line) = <<r>>
  BY DEF Meaning
<1>2. ASSUME NEW r, Meaning(line) = <<r>> PROVE Meaning(line) \in Seq(Requests)
  <2>1. r = Request(line)
    BY <1>2 DEF Request
  <2>2. r \in Requests
    BY <2>1 DEF Requests
  <2> HIDE DEF Requests
  <2> QED
    BY <1>2, <2>2
<1>3. <<>> \in Seq(Requests)
  OBVIOUS
<1> QED
  BY <1>1, <1>2, <1>3, Zenon

LEMMA AnsweredNext ==
  ASSUME typed \in Seq(Lines), NEW d \in 0 .. Len(typed)
  PROVE  /\ Answered(d) \in Seq(Requests)
         /\ d = 0 => Answered(d) = <<>>
         /\ d < Len(typed) => Answered(d+1) = Answered(d) \o Meaning(typed[d+1])
<1> DEFINE M(e) == [k \in 1 .. e |-> Meaning(typed[k])]
<1>1. Len(typed) \in Nat /\ \A k \in 1 .. Len(typed) : Meaning(typed[k]) \in Seq(Requests)
  BY MeaningType
<1>2. ASSUME NEW e \in 0 .. Len(typed)
      PROVE  M(e) \in Seq(Seq(Requests)) /\ Len(M(e)) = e /\ \A k \in 1 .. e : M(e)[k] = Meaning(typed[k])
  BY <1>1
<1>3. Answered(d) \in Seq(Requests)
  BY <1>2, FlattenType DEF Answered
<1>4. ASSUME d = 0 PROVE Answered(d) = <<>>
  <2>1. M(d) \in Seq(Seq(Requests)) /\ Len(M(d)) = 0
    BY <1>2, <1>4
  <2> HIDE DEF M
  <2>2. M(d) = <<>>
    BY <2>1, EmptySeq
  <2>3. FlattenSeq(M(d)) = <<>>
    BY <2>1, <2>2, FlattenType
  <2> QED
    BY <2>3 DEF Answered, M
<1>5. ASSUME d < Len(typed) PROVE Answered(d+1) = Answered(d) \o Meaning(typed[d+1])
  <2> DEFINE a == M(d+1)
             m == Meaning(typed[d+1])
             b == Append(M(d), m)
  <2>1. d + 1 \in 0 .. Len(typed) /\ d + 1 \in 1 .. d + 1 /\ d \in Nat /\ m \in Seq(Requests)
    BY <1>1, <1>5
  <2>2. /\ a \in Seq(Seq(Requests)) /\ Len(a) = d + 1
        /\ \A k \in 1 .. d + 1 : a[k] = Meaning(typed[k])
    BY <1>2, <2>1
  <2>3. M(d) \in Seq(Seq(Requests)) /\ Len(M(d)) = d /\ \A k \in 1 .. d : M(d)[k] = Meaning(typed[k])
    BY <1>2
  <2> HIDE DEF M, a
  <2>4. b \in Seq(Seq(Requests)) /\ Len(b) = d + 1 /\ b[d+1] = m /\ \A k \in 1 .. d : b[k] = M(d)[k]
    BY <2>1, <2>3, AppendProperties
  <2> HIDE DEF b
  <2>5. \A k \in 1 .. d + 1 : a[k] = b[k]
    <3>1. \A k \in 1 .. d + 1 : k = d + 1 \/ k \in 1 .. d
      BY <2>1
    <3>2. a[d+1] = b[d+1]
      BY <2>1, <2>2, <2>4
    <3>3. \A k \in 1 .. d : a[k] = b[k]
      <4>1. \A k \in 1 .. d : k \in 1 .. d + 1
        BY <2>1
      <4> QED
        BY <2>2, <2>3, <2>4, <4>1
    <3> QED
      BY <3>1, <3>2, <3>3
  <2>6. a = b
    BY <2>2, <2>4, <2>5, SeqEqual
  <2>7. FlattenSeq(b) = FlattenSeq(M(d)) \o m
    <3> HIDE DEF m
    <3> QED
      BY <2>1, <2>3, FlattenAppend DEF b
  <2> QED
    BY <2>6, <2>7 DEF Answered, a, M
<1> QED
  BY <1>3, <1>4, <1>5

LEMMA Prefix ==
  ASSUME NEW S, NEW s \in Seq(S), NEW n \in 0 .. Len(s)
  PROVE  /\ SubSeq(s, 1, n) \in Seq(S) /\ Len(SubSeq(s, 1, n)) = n
         /\ \A i \in 1 .. n : SubSeq(s, 1, n)[i] = s[i]
<1>1. n \in Nat /\ 1 \in Int /\ n \in Int /\ \A i \in 1 .. n : s[i] \in S
  OBVIOUS
<1>2. /\ SubSeq(s, 1, n) \in Seq(S)
      /\ Len(SubSeq(s, 1, n)) = IF 1 <= n THEN n - 1 + 1 ELSE 0
      /\ \A i \in 1 .. n - 1 + 1 : SubSeq(s, 1, n)[i] = s[1 + i - 1]
  BY <1>1, SubSeqProperties
<1> QED
  BY <1>1, <1>2

\* The input s, and its line, where a line from place k on stands before t.
StandsBefore(s, n, line, k, t) ==
  /\ s \in Seq(STRING) /\ s # <<>> /\ Len(s) = n + Len(t) /\ DOMAIN s = 1 .. n + Len(t)
  /\ From(line, k) \in Seq(STRING) /\ Len(From(line, k)) = n
  /\ \A j \in 1 .. n : s[j] = line[k + j - 1] /\ From(line, k)[j] = line[k + j - 1]
  /\ \A j \in 1 .. n : From(s, j + 1) = From(line, k + j) \o t
  /\ NewlineAt(s) = n /\ SubSeq(s, 1, n) = From(line, k) /\ ReadTillNewline(s) = t

LEMMA LineBefore ==
  ASSUME NEW line \in Lines, NEW t \in Seq(STRING), NEW k \in 1 .. Len(line)
  PROVE  StandsBefore(From(line, k) \o t, Len(line) - k + 1, line, k, t)
<1> DEFINE s == From(line, k) \o t
           n == Len(line) - k + 1
           u == From(line, k)
           l == Len(line)
           m == Len(t)
           p == k - 1
<1>1. /\ line \in Seq(STRING) /\ l \in Nat \ {0} /\ \A i \in 1 .. l : (line[i] = "\n" <=> i = l)
  BY LinesAssumption
<1>2. m \in Nat /\ n \in 1 .. l /\ p \in 0 .. l /\ p + 1 = k /\ l - p = n /\ k \in Nat
  BY <1>1
<1>3. /\ u \in Seq(STRING) /\ Len(u) = n /\ \A j \in 1 .. n : u[j] = line[p + j]
      /\ \A j \in 1 .. n + 1 : From(u, j) = From(line, p + j)
  <2> HIDE DEF p
  <2>1. /\ From(line, p+1) \in Seq(STRING)
        /\ Len(From(line, p+1)) = Len(line) - p
        /\ \A j \in 1 .. Len(line) - p : From(line, p+1)[j] = line[p + j]
        /\ \A j \in 1 .. Len(line) - p + 1 : From(From(line, p+1), j) = From(line, p + j)
    BY <1>1, <1>2, FromFrom
  <2> QED
    BY <1>2, <2>1
<1>4. \A j \in 1 .. n : p + j = k + j - 1
  BY <1>2
<1>5. p + (n + 1) = l + 1 /\ p + n = l /\ n + 1 \in 1 .. n + 1 /\ n \in 1 .. n
  BY <1>1, <1>2
<1>6. \A j \in 1 .. n : p + (j + 1) = k + j /\ j + 1 \in 1 .. n + 1 /\ j \in 0 .. n
  BY <1>2
<1> HIDE DEF u, l, m, p, n
<1>7. /\ s \in Seq(STRING) /\ Len(s) = n + m
      /\ \A i \in 1 .. n + m : s[i] = IF i <= n THEN u[i] ELSE t[i - n]
  <2>1. s = u \o t
    BY DEF u
  <2>2. /\ u \o t \in Seq(STRING) /\ Len(u \o t) = Len(u) + Len(t)
        /\ \A i \in 1 .. Len(u) + Len(t) : (u \o t)[i] = IF i <= Len(u) THEN u[i] ELSE t[i - Len(u)]
    BY <1>3, ConcatProperties
  <2> HIDE DEF s
  <2> QED
    BY <1>3, <2>1, <2>2 DEF m
<1> HIDE DEF s
<1>8. s # <<>> /\ DOMAIN s = 1 .. n + m
  <2>1. Len(s) # 0
    BY <1>2, <1>7
  <2> QED
    BY <1>7, <2>1, EmptySeq
<1>9. ASSUME NEW j \in 1 .. n PROVE s[j] = line[k + j - 1] /\ u[j] = line[k + j - 1]
  <2>1. j \in 1 .. n + m /\ j <= n
    BY <1>2
  <2> QED
    BY <1>3, <1>4, <1>7, <2>1
<1>10. ASSUME NEW j \in 0 .. n PROVE From(s, j + 1) = From(u, j + 1) \o t
  <2>1. SubSeq(u \o t, j + 1, Len(u \o t)) = SubSeq(u, j + 1, Len(u)) \o t
    BY <1>3, SuffixConcat
  <2>2. s = u \o t
    BY DEF s, u
  <2> QED
    BY <2>1, <2>2 DEF From
<1>11. ASSUME NEW j \in 1 .. n PROVE From(s, j + 1) = From(line, k + j) \o t
  BY <1>3, <1>6, <1>10
<1>12. From(s, n + 1) = t
  <2>1. From(u, n + 1) = <<>>
    <3>1. n + 1 \in Int /\ n \in Int /\ n < n + 1
      BY <1>2
    <3> QED
      BY <1>3, <3>1, SubSeqEmpty DEF From
  <2>2. <<>> \o t = t
    BY ConcatEmptySeq
  <2>3. n \in 0 .. n
    BY <1>2
  <2> QED
    BY <1>10, <2>1, <2>2, <2>3
<1>13. NewlineAt(s) = n
  <2> DEFINE ends == {i \in DOMAIN s : s[i] = "\n"}
  <2>1. s[n] = "\n"
    <3>1. l \in 1 .. l /\ k + n - 1 = l
      BY <1>1, <1>4, <1>5
    <3>2. s[n] = line[k + n - 1]
      BY <1>5, <1>9
    <3> QED
      BY <1>1, <3>1, <3>2
  <2>2. n \in ends /\ ends \in SUBSET Nat
    <3>1. n \in 1 .. n + m /\ 1 .. n + m \subseteq Nat
      BY <1>2
    <3> QED
      BY <1>8, <2>1, <3>1
  <2>3. ASSUME NEW i \in ends, i < n PROVE FALSE
    <3>1. i \in 1 .. n /\ s[i] = "\n" /\ k + i - 1 \in 1 .. l /\ k + i - 1 # l
      <4>1. i \in 1 .. n + m /\ s[i] = "\n"
        BY <1>8
      <4>2. i \in 1 .. n /\ k + i - 1 \in 1 .. l /\ k + i - 1 # l
        BY <1>1, <1>2, <2>3, <4>1
      <4> QED
        BY <4>1, <4>2
    <3>2. line[k + i - 1] = "\n"
      BY <1>9, <3>1
    <3> QED
      BY <1>1, <3>1, <3>2
  <2>4. Min(ends) = NewlineAt(s)
    BY DEF NewlineAt
  <2> HIDE DEF ends
  <2>5. Min(ends) \in ends /\ \A i \in ends : Min(ends) <= i
    BY <2>2, MinExists
  <2>6. Min(ends) \in Nat /\ Min(ends) <= n /\ ~(Min(ends) < n)
    BY <2>2, <2>3, <2>5
  <2> QED
    BY <1>2, <2>4, <2>6
<1>14. SubSeq(s, 1, n) = u
  <2>1. n \in 0 .. Len(s)
    BY <1>2, <1>7
  <2>2. /\ SubSeq(s, 1, n) \in Seq(STRING) /\ Len(SubSeq(s, 1, n)) = n
        /\ \A i \in 1 .. n : SubSeq(s, 1, n)[i] = s[i]
    BY <1>7, <2>1, Prefix
  <2>3. \A i \in 1 .. n : SubSeq(s, 1, n)[i] = u[i]
    BY <1>9, <2>2
  <2> QED
    BY <1>3, <2>2, <2>3, SeqEqual
<1>15. ReadTillNewline(s) = t
  BY <1>12, <1>13 DEF ReadTillNewline
<1> QED
  BY <1>3, <1>7, <1>8, <1>9, <1>11, <1>13, <1>14, <1>15 DEF StandsBefore, s, n, u, m

\* What is served is understood as it was read.
LEMMA Understood ==
  ASSUME NEW instruction, NEW ws \in Seq(STRING), \A k \in 1 .. Len(ws) : ws[k] \notin Separators,
         Serve({instruction}, ws), served \in Seq(Requests),
         NEW line \in Lines, Meaning(line) = <<[command |-> instruction, words |-> ws]>>
  PROVE  served' = served \o Meaning(line)
<1> DEFINE S == STRING \cup {Blank}
           r == [command |-> instruction, words |-> ws]
<1>1. ws \in Seq(S) /\ Blank \in S
  <2>1. STRING \subseteq S /\ Blank \in S
    OBVIOUS
  <2> HIDE DEF S
  <2> QED
    BY <2>1, SeqMonotonic
<1> HIDE DEF S
<1>2. CreateQuerry(Question(instruction, ws)) = ws
  BY <1>1, QuestionBack
<1>3. served' = Append(served, r)
  BY <1>2 DEF Serve
<1>4. r \in Requests
  <2>1. Request(line) = r
    BY DEF Request
  <2> HIDE DEF r
  <2> QED
    BY <2>1 DEF Requests
<1> HIDE DEF r
<1>5. Append(served, r) = served \o <<r>>
  BY <1>4, AppendIsConcat
<1> QED
  BY <1>3, <1>5 DEF r

-----------------------------------------------------------------------------
(* What the console makes of a proper line *)

\* m words with a separator behind each.
Paired(line, m) ==
  /\ Len(line) = 2 * m
  /\ \A j \in 1 .. m : line[2*j - 1] \notin Separators /\ line[2*j] \in Separators
  /\ Len(Words(line)) = m /\ \A j \in 1 .. m : Words(line)[j] = line[2*j - 1]

\* The -d stands before the last word of a /search.
ProperSearch(line, m) ==
  /\ m >= 4 /\ line[2*(m-1) - 1] = "-d" /\ \A j \in 1 .. m : j # m - 1 => line[2*j - 1] # "-d"
  /\ Meaning(line) = <<[command |-> "/search", words |-> SubSeq(Words(line), 2, m - 2)]>>

LEMMA ProperShape ==
  ASSUME NEW line \in Lines, Proper(line)
  PROVE  /\ line[1] \notin Separators /\ line[1] # NULL /\ 1 \in 1 .. Len(line)
         /\ \E m \in Nat \ {0} :
           /\ Paired(line, m)
           /\ line[1] = "/search" => ProperSearch(line, m)
           /\ line[1] = "/count" =>
                m >= 2 /\ Meaning(line) = <<[command |-> "/count", words |-> <<line[3]>>]>>
           /\ line[1] = "/wc" => Meaning(line) = <<[command |-> "/wc", words |-> <<>>]>>
           /\ line[1] \notin Commands => m >= 2 /\ Meaning(line) = <<>>
<1> DEFINE words == Words(line)
<1>1. PICK m \in Nat \ {0} :
        /\ Len(line) = 2 * m
        /\ \A j \in 1 .. m : line[2*j - 1] \notin Separators /\ line[2*j] \in Separators
        /\ Len(words) = m /\ \A j \in 1 .. m : words[j] = line[2*j - 1]
  BY LineShape DEF Proper
<1>2. \/ words[1] = "/search" /\ Len(words) >= 4 /\ words[Len(words)-1] = "-d" /\ words[2] # "-d"
           /\ Cardinality({k \in 1 .. Len(words) : words[k] = "-d"}) = 1
      \/ words[1] = "/count" /\ Len(words) >= 2
      \/ words[1] \in {"/wc", "/exit"}
      \/ words[1] \notin {"/search", "/count", "/wc", "/exit"} /\ Len(words) >= 2
  BY DEF Proper
<1>3. /\ words[1] = "/search" =>
           Meaning(line) = <<[command |-> "/search", words |-> SubSeq(words, 2, Len(words) - 2)]>>
      /\ words[1] = "/count" => Meaning(line) = <<[command |-> "/count", words |-> <<words[2]>>]>>
      /\ words[1] = "/wc" => Meaning(line) = <<[command |-> "/wc", words |-> <<>>]>>
      /\ words[1] \notin {"/search", "/count", "/wc"} => Meaning(line) = <<>>
  BY DEF Meaning
<1> HIDE DEF words
<1>4. Paired(line, m)
  BY <1>1 DEF Paired, words
<1>5. words[1] = line[1] /\ line[1] \notin Separators /\ 1 \in 1 .. Len(line)
  <2>1. 1 \in 1 .. m /\ 2*1 - 1 = 1 /\ 1 \in 1 .. Len(line)
    BY <1>1
  <2> QED
    BY <1>1, <2>1
<1>6. line[1] # NULL
  BY <1>5, LinesAssumption
<1>7. ASSUME line[1] = "/search" PROVE ProperSearch(line, m)
  <2>1. /\ m >= 4 /\ words[m - 1] = "-d" /\ Cardinality({k \in 1 .. m : words[k] = "-d"}) = 1
    BY <1>1, <1>2, <1>5, <1>7
  <2>2. m - 1 \in 1 .. m
    BY <1>1, <2>1
  <2>3. words[m - 1] = line[2*(m-1) - 1]
    BY <1>1, <2>2
  <2> DEFINE dashes == {k \in 1 .. m : words[k] = "-d"}
  <2>4. IsFiniteSet(dashes) /\ m - 1 \in dashes /\ Cardinality(dashes) = 1
    <3>1. IsFiniteSet(1 .. m)
      BY <1>1, FS_Interval
    <3>2. dashes \subseteq 1 .. m
      OBVIOUS
    <3>3. IsFiniteSet(dashes)
      BY <3>1, <3>2, FS_Subset
    <3> QED
      BY <2>1, <2>2, <3>3
  <2>5. ASSUME NEW j \in 1 .. m, j # m - 1 PROVE line[2*j - 1] # "-d"
    <3>1. j \notin dashes
      <4> HIDE DEF dashes
      <4>1. \E x : dashes = {x}
        BY <2>4, FS_Singleton
      <4> QED
        BY <2>4, <2>5, <4>1
    <3>2. words[j] # "-d"
      BY <3>1
    <3> QED
      BY <1>1, <3>2
  <2>6. Meaning(line) = <<[command |-> "/search", words |-> SubSeq(words, 2, m - 2)]>>
    BY <1>1, <1>3, <1>5, <1>7
  <2> QED
    BY <2>1, <2>3, <2>5, <2>6 DEF ProperSearch, words
<1>8. ASSUME line[1] = "/count"
      PROVE  m >= 2 /\ Meaning(line) = <<[command |-> "/count", words |-> <<line[3]>>]>>
  <2>1. m >= 2
    BY <1>1, <1>2, <1>5, <1>8
  <2>2. 2 \in 1 .. m /\ 2*2 - 1 = 3
    BY <1>1, <2>1
  <2>3. words[2] = line[3]
    BY <1>1, <2>2
  <2> QED
    BY <1>3, <1>5, <1>8, <2>1, <2>3
<1>9. line[1] = "/wc" => Meaning(line) = <<[command |-> "/wc", words |-> <<>>]>>
  BY <1>3, <1>5
<1>10. ASSUME line[1] \notin Commands PROVE m >= 2 /\ Meaning(line) = <<>>
  BY <1>1, <1>2, <1>3, <1>5, <1>10 DEF Commands
<1> QED
  BY <1>1, <1>4, <1>5, <1>6, <1>7, <1>8, <1>9, <1>10

\* The input s begins with the i-th of the m words of a line, at its place k, with what
\* is left of the line behind it and then t.
WordStands(s, line, m, i, k, t) ==
  /\ s # <<>> /\ s[1] = line[k] /\ line[k] \notin Separators
  /\ getWord(s).word = line[k] /\ RestOfInput(getWord(s)) = t /\ ReadTillNewline(s) = t
  /\ i < m => getWord(s).rest = From(line, k + 2) \o t

\* A word of a line, the last or with more behind it, is read with the separator behind it.
LEMMA WordOfLine ==
  ASSUME NEW line \in Lines, NEW m \in Nat \ {0}, Paired(line, m), NEW i \in 1 .. m,
         NEW t \in Seq(STRING), NEW k, k = 2*i - 1
  PROVE  WordStands(From(line, k) \o t, line, m, i, k, t)
<1> DEFINE s == From(line, k) \o t
           n == Len(line) - k + 1
<1>1. /\ line \in Seq(STRING) /\ Len(line) = 2*m
      /\ \A j \in 1 .. Len(line) : (line[j] = "\n" <=> j = Len(line))
      /\ line[2*i - 1] \notin Separators /\ line[2*i] \in Separators
  BY LinesAssumption DEF Paired
<1>2. /\ k \in 1 .. Len(line) /\ n >= 2 /\ n \in Nat /\ 1 \in 1 .. n /\ 2 \in 1 .. n /\ 2*i = k + 1
      /\ k + 1 - 1 = k /\ k + 2 - 1 = k + 1 /\ k + 1 \in 1 .. Len(line)
      /\ (i < m => k + 2 \in 1 .. Len(line)) /\ (i < m <=> k + 1 # Len(line)) /\ (i = m => n = 2)
  BY <1>1
<1>3. line[k] \notin Separators /\ line[k+1] \in Separators
  BY <1>1, <1>2
<1> DEFINE s2 == From(line, k + 2) \o t
           n2 == Len(line) - (k + 2) + 1
<1>4. StandsBefore(s, n, line, k, t)
  BY <1>2, LineBefore
<1>5. k + 2 \in 1 .. Len(line) => StandsBefore(s2, n2, line, k + 2, t)
  BY LineBefore
<1> HIDE DEF s, n, s2, n2
<1>6. /\ s \in Seq(STRING) /\ s # <<>> /\ NewlineAt(s) = n /\ ReadTillNewline(s) = t
      /\ \A j \in 1 .. n : s[j] = line[k + j - 1]
      /\ \A j \in 1 .. n : From(s, j + 1) = From(line, k + j) \o t
  BY <1>4 DEF StandsBefore
<1>7. s[1] = line[k] /\ s[2] = line[k+1]
  BY <1>2, <1>6
<1>8. From(s, 3) = From(line, k + 2) \o t
  <2>1. 2 + 1 = 3
    OBVIOUS
  <2> QED
    BY <1>2, <1>6, <2>1
<1>9. getWord(s).word = line[k] /\ getWord(s).c = line[k+1] /\ getWord(s).rest = From(line, k + 2) \o t
  BY <1>3, <1>7, <1>8 DEF getWord
<1>10. RestOfInput(getWord(s)) = t
  <2>1. CASE i < m
    <3>1. line[k+1] # "\n" /\ k + 2 \in 1 .. Len(line)
      BY <1>1, <1>2, <2>1
    <3>2. ReadTillNewline(s2) = t
      BY <1>5, <3>1 DEF StandsBefore
    <3> QED
      BY <1>9, <3>1, <3>2 DEF RestOfInput, s2
  <2>2. CASE ~(i < m)
    <3>1. line[k+1] = "\n" /\ NewlineAt(s) + 1 = 3
      <4>1. i = m
        BY <2>2
      <4>2. line[k+1] = "\n"
        BY <1>1, <1>2, <2>2
      <4> QED
        BY <1>2, <1>6, <4>1, <4>2
    <3>2. From(s, 3) = t
      BY <1>6, <3>1 DEF ReadTillNewline
    <3> QED
      BY <1>8, <1>9, <3>1, <3>2 DEF RestOfInput
  <2> QED
    BY <2>1, <2>2
<1> QED
  BY <1>3, <1>6, <1>7, <1>9, <1>10 DEF s, WordStands

\* At the beginning of a proper line.
LEMMA CommandRead ==
  ASSUME NEW line \in Lines, Proper(line), NEW t \in Seq(STRING), served \in Seq(Requests),
         pc = "prompt", stdin = line \o t, ConsoleStep
  PROVE  /\ stale' = FALSE
         /\ \/ pc' = "done"
            \/ /\ served' = served /\ stdin' = From(line, 3) \o t
               /\ \/ pc' = "querry" /\ line[1] = "/search"
                  \/ pc' = "keyword" /\ line[1] = "/count"
                  \/ pc' = "skip" /\ line[1] \notin Commands
            \/ pc' = "prompt" /\ stdin' = t /\ served' = served \o Meaning(line)
<1>1. PICK m \in Nat \ {0} :
           /\ Paired(line, m)
           /\ line[1] = "/search" => ProperSearch(line, m)
           /\ line[1] = "/count" =>
                m >= 2 /\ Meaning(line) = <<[command |-> "/count", words |-> <<line[3]>>]>>
           /\ line[1] = "/wc" => Meaning(line) = <<[command |-> "/wc", words |-> <<>>]>>
           /\ line[1] \notin Commands => m >= 2 /\ Meaning(line) = <<>>
  BY ProperShape
<1>2. line[1] \notin Separators /\ line[1] # NULL
  BY ProperShape
<1>3. From(line, 1) = line
  BY LinesAssumption, SubSeqFull DEF From
<1> DEFINE w == getWord(stdin)
<1>4. /\ stdin # <<>> /\ w.word = line[1] /\ RestOfInput(w) = t
      /\ 1 < m => w.rest = From(line, 3) \o t
  <2> DEFINE k == 1
             s == From(line, k) \o t
  <2>1. k = 2*1 - 1 /\ 1 \in 1 .. m /\ k + 2 = 3
    BY <1>1
  <2> HIDE DEF k
  <2>2. WordStands(s, line, m, 1, k, t)
    BY <1>1, <2>1, WordOfLine
  <2>3. s = stdin /\ From(line, k + 2) = From(line, 3) /\ line[k] = line[1]
    BY <1>3, <2>1 DEF k
  <2> HIDE DEF s
  <2> QED
    BY <2>2, <2>3 DEF WordStands
<1> HIDE DEF w
\* The command is the word that was typed.
<1>5. /\ ~NoCommand /\ ~Dangling
      /\ \A text : Command(text) => text = line[1] /\ stale' = FALSE
  BY <1>2, <1>4 DEF NoCommand, Dangling, Command, w
<1>6. CASE Search
  <2>1. line[1] = "/search" /\ stdin' = w.rest /\ pc' = "querry" /\ served' = served /\ stale' = FALSE
    BY <1>5, <1>6 DEF Search, w
  <2>2. 1 < m
    BY <1>1, <2>1 DEF ProperSearch
  <2> QED
    BY <1>4, <2>1, <2>2
<1>7. CASE Count
  <2>1. line[1] = "/count" /\ stdin' = w.rest /\ pc' = "keyword" /\ served' = served /\ stale' = FALSE
    BY <1>5, <1>7 DEF Count, w
  <2>2. 1 < m
    BY <1>1, <2>1
  <2> QED
    BY <1>4, <2>1, <2>2
<1>8. CASE Unknown
  <2>1. line[1] \notin Commands /\ stdin' = w.rest /\ pc' = "skip" /\ served' = served /\ stale' = FALSE
    BY <1>5, <1>8 DEF Unknown, Commands, w
  <2>2. 1 < m
    BY <1>1, <2>1
  <2> QED
    BY <1>4, <2>1, <2>2
<1>9. CASE Exit
  BY <1>5, <1>9 DEF Exit
<1>10. CASE Wc
  <2>1. line[1] = "/wc" /\ stdin' = t /\ pc' = "prompt" /\ Serve({"/wc"}, <<>>) /\ stale' = FALSE
    BY <1>4, <1>5, <1>10 DEF Wc, EndTurn, w
  <2>2. Meaning(line) = <<[command |-> "/wc", words |-> <<>>]>>
    BY <1>1, <2>1
  <2>3. <<>> \in Seq(STRING) /\ \A k \in 1 .. Len(<<>>) : <<>>[k] \notin Separators
    OBVIOUS
  <2>4. served' = served \o Meaning(line)
    BY <2>1, <2>2, <2>3, Understood
  <2> QED
    BY <2>1, <2>4
<1>11. ~CreateQuerryStdin /\ ~ReadDeadline /\ ~ReadKeyword /\ ~SkipLine
  BY DEF CreateQuerryStdin, ReadDeadline, ReadKeyword, SkipLine
<1> QED
  BY <1>5, <1>6, <1>7, <1>8, <1>9, <1>10, <1>11 DEF ConsoleStep

\* Behind the command of a count or of a line that is skipped, and at the deadline.
LEMMA LineFinished ==
  ASSUME NEW line \in Lines, Proper(line), NEW t \in Seq(STRING), served \in Seq(Requests),
         ConsoleStep, stale = FALSE,
         \/ pc = "keyword" /\ line[1] = "/count" /\ stdin = From(line, 3) \o t
         \/ pc = "skip" /\ line[1] \notin Commands /\ stdin = From(line, 3) \o t
         \/ /\ pc = "deadline" /\ line[1] = "/search" /\ stdin = From(line, Len(line) - 1) \o t
            /\ querry = SubSeq(Words(line), 2, Len(Words(line)) - 2)
  PROVE  pc' = "prompt" /\ stdin' = t /\ served' = served \o Meaning(line) /\ stale' = FALSE
<1>1. PICK m \in Nat \ {0} :
           /\ Paired(line, m)
           /\ line[1] = "/search" => ProperSearch(line, m)
           /\ line[1] = "/count" =>
                m >= 2 /\ Meaning(line) = <<[command |-> "/count", words |-> <<line[3]>>]>>
           /\ line[1] = "/wc" => Meaning(line) = <<[command |-> "/wc", words |-> <<>>]>>
           /\ line[1] \notin Commands => m >= 2 /\ Meaning(line) = <<>>
  BY ProperShape
<1>2. line \in Seq(STRING) /\ \A k \in 1 .. Len(line) : line[k] # NULL
  BY LinesAssumption
<1>3. ASSUME m >= 2, stdin = From(line, 3) \o t
      PROVE  /\ stdin # <<>> /\ getWord(stdin).word = line[3] /\ RestOfInput(getWord(stdin)) = t
             /\ ReadTillNewline(stdin) = t /\ line[3] \notin Separators /\ 3 \in 1 .. Len(line)
  <2>1. 2 \in 1 .. m /\ 3 = 2*2 - 1 /\ 3 \in 1 .. Len(line)
    BY <1>1, <1>3 DEF Paired
  <2>2. WordStands(stdin, line, m, 2, 3, t)
    BY <1>1, <1>3, <2>1, WordOfLine
  <2> QED
    BY <2>1, <2>2 DEF WordStands
<1>4. CASE pc = "keyword" /\ line[1] = "/count" /\ stdin = From(line, 3) \o t
  <2>1. ReadKeyword
    BY <1>4 DEF ConsoleStep, NoCommand, Dangling, Search, CreateQuerryStdin, ReadDeadline, Count, Wc, Exit,
                Unknown, SkipLine, Command
  <2>2. m >= 2 /\ Meaning(line) = <<[command |-> "/count", words |-> <<line[3]>>]>>
    BY <1>1, <1>4
  <2>3. /\ getWord(stdin).word = line[3] /\ RestOfInput(getWord(stdin)) = t
        /\ line[3] \notin Separators /\ 3 \in 1 .. Len(line)
    BY <1>3, <1>4, <2>2
  <2>4. line[3] # NULL /\ line[3] \in STRING
    BY <1>2, <2>3
  <2>5. pc' = "prompt" /\ stdin' = t /\ Serve({"/count"}, <<line[3]>>) /\ stale' = FALSE
    BY <2>1, <2>3, <2>4 DEF ReadKeyword, EndTurn, Instructions
  <2> DEFINE w == line[3]
  <2>6. w \in STRING /\ w \notin Separators
    BY <2>3, <2>4
  <2> HIDE DEF w
  <2>7. <<w>> \in Seq(STRING) /\ \A k \in 1 .. Len(<<w>>) : <<w>>[k] \notin Separators
    BY <2>6
  <2>8. served' = served \o Meaning(line)
    BY <2>2, <2>5, <2>7, Understood DEF w
  <2> QED
    BY <2>5, <2>8
<1>5. CASE pc = "skip" /\ line[1] \notin Commands /\ stdin = From(line, 3) \o t
  <2>1. SkipLine
    BY <1>5 DEF ConsoleStep, NoCommand, Dangling, Search, CreateQuerryStdin, ReadDeadline, Count, Wc, Exit,
                Unknown, ReadKeyword, Command
  <2>2. m >= 2 /\ Meaning(line) = <<>>
    BY <1>1, <1>5
  <2>3. ReadTillNewline(stdin) = t
    BY <1>3, <1>5, <2>2
  <2>4. served \o <<>> = served
    BY ConcatEmptySeq
  <2> QED
    BY <2>1, <2>2, <2>3, <2>4 DEF SkipLine, EndTurn
<1>6. CASE /\ pc = "deadline" /\ line[1] = "/search" /\ stdin = From(line, Len(line) - 1) \o t
           /\ querry = SubSeq(Words(line), 2, Len(Words(line)) - 2)
  <2>1. ReadDeadline
    BY <1>6 DEF ConsoleStep, NoCommand, Dangling, Search, CreateQuerryStdin, SkipLine, Count, Wc, Exit,
                Unknown, ReadKeyword, Command
  <2>2. m >= 4 /\ Meaning(line) = <<[command |-> "/search", words |-> SubSeq(Words(line), 2, m - 2)]>>
    BY <1>1, <1>6 DEF ProperSearch
  <2>3. /\ Len(line) = 2*m /\ Len(Words(line)) = m
        /\ \A j \in 1 .. m : line[2*j - 1] \notin Separators /\ Words(line)[j] = line[2*j - 1]
    BY <1>1 DEF Paired
  <2>4. stdin # <<>> /\ stdin[1] \notin Separators /\ ReadTillNewline(stdin) = t
    <3> DEFINE k == Len(line) - 1
    <3>1. m \in 1 .. m /\ k = 2*m - 1
      BY <2>3
    <3> HIDE DEF k
    <3>2. stdin = From(line, k) \o t
      BY <1>6 DEF k
    <3>3. WordStands(stdin, line, m, m, k, t)
      BY <1>1, <3>1, <3>2, WordOfLine
    <3> QED
      BY <3>3 DEF WordStands
  <2>5. From(stdin, 1) = stdin /\ 1 \in DOMAIN stdin
    <3>1. stdin \in Seq(STRING)
      <4>1. Len(line) - 1 \in 1 .. Len(line)
        BY <2>2, <2>3
      <4> QED
        BY <1>6, <4>1, LineBefore DEF StandsBefore
    <3>2. Len(stdin) \in Nat \ {0}
      BY <2>4, <3>1, EmptySeq
    <3> QED
      BY <3>1, <3>2, SubSeqFull DEF From
  <2>6. pc' = "prompt" /\ stdin' = t /\ Serve({"/search"}, querry) /\ stale' = FALSE
    <3>1. PICK k \in DOMAIN stdin :
            /\ \A j \in 1 .. k - 1 : stdin[j] \in Separators
            /\ stdin' = ReadTillNewline(From(stdin, k))
      BY <2>1 DEF ReadDeadline
    <3>2. k = 1
      <4>1. k \in Nat \ {0}
        <5>1. DOMAIN stdin \subseteq Nat \ {0}
          <6>1. stdin \in Seq(STRING)
            <7>1. Len(line) - 1 \in 1 .. Len(line)
              BY <2>2, <2>3
            <7> QED
              BY <1>6, <7>1, LineBefore DEF StandsBefore
          <6> QED
            BY <6>1
        <5> QED
          BY <3>1, <5>1
      <4>2. k # 1 => 1 \in 1 .. k - 1
        BY <4>1
      <4> QED
        BY <2>4, <3>1, <4>2
    <3> QED
      BY <2>1, <2>4, <2>5, <3>1, <3>2 DEF ReadDeadline, EndTurn, Instructions
  <2>7. querry = SubSeq(Words(line), 2, m - 2)
    BY <1>6, <2>3
  <2>8. querry \in Seq(STRING) /\ \A k \in 1 .. Len(querry) : querry[k] \notin Separators
    <3> DEFINE v == Words(line)
               q == SubSeq(v, 2, m - 2)
    <3>1. Len(v) = m /\ v \in Seq(STRING) /\ \A j \in 1 .. m : v[j] \notin Separators
      BY <1>2, <2>3, WordsType
    <3> HIDE DEF v
    <3>2. \A j \in 2 .. m - 2 : j \in 1 .. m /\ v[j] \in STRING
      BY <2>2, <3>1
    <3>3. 2 \in Int /\ m - 2 \in Int /\ 2 <= m - 2
      BY <2>2
    <3>4. /\ q \in Seq(STRING) /\ Len(q) = IF 2 <= m - 2 THEN (m - 2) - 2 + 1 ELSE 0
          /\ \A j \in 1 .. (m - 2) - 2 + 1 : q[j] = v[2 + j - 1]
      BY <3>2, <3>3, SubSeqProperties
    <3> HIDE DEF q
    <3>5. ASSUME NEW k \in 1 .. Len(q) PROVE q[k] \notin Separators
      <4>1. k \in 1 .. (m - 2) - 2 + 1 /\ 2 + k - 1 \in 1 .. m
        BY <3>3, <3>4
      <4> QED
        BY <3>1, <3>4, <4>1
    <3> QED
      BY <2>7, <3>4, <3>5 DEF q, v
  <2>9. Meaning(line) = <<[command |-> "/search", words |-> querry]>>
    BY <2>2, <2>7
  <2>10. served' = served \o Meaning(line)
    BY <2>6, <2>8, <2>9, Understood
  <2> QED
    BY <2>6, <2>10
<1> QED
  BY <1>4, <1>5, <1>6

\* Behind the command of a search.
LEMMA QuerryOfLine ==
  ASSUME NEW line \in Lines, Proper(line), NEW t \in Seq(STRING), ConsoleStep, stale = FALSE,
         pc = "querry", line[1] = "/search", stdin = From(line, 3) \o t
  PROVE  /\ pc' = "deadline" /\ served' = served /\ stdin' = From(line, Len(line) - 1) \o t
         /\ stale' = FALSE
         /\ querry' = SubSeq(Words(line), 2, Len(Words(line)) - 2)
<1>1. PICK m \in Nat \ {0} : Paired(line, m) /\ ProperSearch(line, m)
  BY ProperShape
<1> DEFINE rest == From(line, 3)
           c == 2*m - 5
           N == 2*m - 2
           v == Words(line)
<1>2. /\ m >= 4 /\ line[2*m - 3] = "-d" /\ \A j \in 1 .. m : j # m - 1 => line[2*j - 1] # "-d"
      /\ Len(line) = 2*m /\ Len(v) = m
      /\ \A j \in 1 .. m : line[2*j - 1] \notin Separators /\ line[2*j] \in Separators
                           /\ v[j] = line[2*j - 1]
  <2>1. 2*(m-1) - 1 = 2*m - 3
    BY <1>1
  <2> QED
    BY <1>1, <2>1 DEF Paired, ProperSearch
<1>3. /\ line \in Seq(STRING) /\ v \in Seq(STRING)
      /\ \A k \in 1 .. Len(line) : line[k] = "\n" <=> k = Len(line)
  BY LinesAssumption, WordsType
<1>4. /\ 3 \in 1 .. Len(line) /\ Len(line) - 3 + 1 = N /\ c \in 1 .. N /\ c + 1 \in 1 .. N
      /\ 3 + (c + 1) = Len(line) - 1 /\ c + 2 = (c + 1) + 1 /\ c + 2 = 2*m - 3
      /\ (c + 1) + 2 \in 1 .. Len(line) /\ (c + 1) + 2 # Len(line)
      /\ N \in Nat /\ c \in Nat /\ c - 1 \in 0 .. N /\ c - 1 = 2*(m - 3) /\ m - 3 \in Nat \ {0}
  BY <1>2
<1> HIDE DEF v
<1>5. StandsBefore(stdin, N, line, 3, t)
  <2>1. StandsBefore(stdin, Len(line) - 3 + 1, line, 3, t)
    BY <1>4, LineBefore
  <2> QED
    BY <1>4, <2>1
<1>6. /\ rest \in Seq(STRING) /\ Len(rest) = N /\ SubSeq(stdin, 1, NewlineAt(stdin)) = rest
      /\ stdin # <<>> /\ From(stdin, c + 2) = From(line, Len(line) - 1) \o t
  BY <1>4, <1>5 DEF StandsBefore
<1>7. ASSUME NEW j \in 1 .. N PROVE rest[j] = line[j + 2]
  <2>1. 3 + j - 1 = j + 2
    OBVIOUS
  <2> QED
    BY <1>5, <2>1 DEF StandsBefore
<1>8. DOMAIN rest = 1 .. N
  BY <1>6
<1> HIDE DEF rest, c
\* A place in the rest is that of a word of the line, or of the separator behind one.
<1>9. ASSUME NEW j \in 1 .. N
      PROVE  \E i \in 2 .. m : j + 2 = 2*i - 1 \/ j + 2 = 2*i
  <2>1. \A l \in Nat \ {0} : \E i \in Nat \ {0} : l = 2 * i \/ l = 2 * i - 1
    <3> SUFFICES ASSUME NEW l \in Nat \ {0}
                 PROVE  \E i \in Nat \ {0} : l = 2 * i \/ l = 2 * i - 1
      OBVIOUS
    <3>1. (l + 1) \div 2 \in Nat \ {0} /\ (l = 2 * ((l + 1) \div 2) \/ l = 2 * ((l + 1) \div 2) - 1)
      OBVIOUS
    <3> QED
      BY <3>1
  <2>2. j + 2 \in Nat \ {0}
    BY <1>4
  <2>3. PICK i \in Nat \ {0} : j + 2 = 2 * i \/ j + 2 = 2 * i - 1
    BY <2>1, <2>2
  <2>4. i \in 2 .. m
    BY <1>4, <2>3
  <2> QED
    BY <2>3, <2>4
<1>10. EmptyWords(rest) = {}
  <2> SUFFICES ASSUME NEW k \in 1 .. N, rest[k] \in Separators,
                      k > 1 => rest[k-1] \in Separators
               PROVE  FALSE
    BY <1>8 DEF EmptyWords
  <2>1. PICK i \in 2 .. m : k + 2 = 2*i - 1 \/ k + 2 = 2*i
    BY <1>9
  <2>2. i \in 1 .. m
    OBVIOUS
  <2>3. line[k+2] \in Separators
    BY <1>7
  <2>4. k + 2 = 2*i
    BY <1>2, <2>1, <2>2, <2>3
  <2>5. k > 1 /\ k - 1 \in 1 .. N /\ (k - 1) + 2 = 2*i - 1
    BY <1>4, <2>4
  <2>6. line[2*i - 1] \in Separators
    BY <1>7, <2>5
  <2> QED
    BY <1>2, <2>2, <2>6
<1> DEFINE dashes == {k \in DOMAIN rest : rest[k] = "-d"}
<1>11. rest[c] = "-d"
  BY <1>2, <1>4, <1>7
<1>12. dashes = {c}
  <2>1. c \in dashes
    BY <1>4, <1>8, <1>11
  <2>2. ASSUME NEW k \in 1 .. N, rest[k] = "-d" PROVE k = c
    <3>1. PICK i \in 2 .. m : k + 2 = 2*i - 1 \/ k + 2 = 2*i
      BY <1>9
    <3>2. line[k+2] = "-d" /\ i \in 1 .. m
      BY <1>7, <2>2
    <3>3. "-d" \notin Separators
      BY DEF Separators
    <3>4. k + 2 # 2*i
      <4>1. line[2*i] \in Separators
        BY <1>2, <3>2, Zenon
      <4> QED
        BY <3>2, <3>3, <4>1, Zenon
    <3>5. k + 2 = 2*i - 1
      BY <3>1, <3>4
    <3>6. i = m - 1
      BY <1>2, <3>2, <3>5
    <3> QED
      BY <3>5, <3>6 DEF c
  <2> QED
    BY <1>8, <2>1, <2>2
<1>13. Min(dashes) = c
  <2>1. dashes \in SUBSET Nat /\ dashes # {}
    BY <1>4, <1>12
  <2> HIDE DEF dashes
  <2>2. Min(dashes) \in dashes
    BY <2>1, MinExists
  <2> QED
    BY <1>12, <2>2
<1>14. rest[c + 1] # "\n"
  BY <1>3, <1>4, <1>7
<1>15. QuerryWords(rest, c) = SubSeq(v, 2, Len(v) - 2) /\ QuerryWords(rest, c) # <<>>
  <2> DEFINE q == SubSeq(rest, 1, c - 1)
             w == Words(q)
             u == SubSeq(v, 2, m - 2)
  <2>1. q \in Seq(STRING) /\ Len(q) = 2*(m - 3) /\ \A i \in 1 .. c - 1 : q[i] = rest[i]
    <3> DEFINE n == c - 1
    <3>1. n \in 0 .. Len(rest) /\ n = 2*(m - 3) /\ n = c - 1
      BY <1>4, <1>6
    <3> HIDE DEF n
    <3>2. rest \in Seq(STRING) /\ n \in 0 .. Len(rest)
      BY <1>6, <3>1
    <3>3. /\ SubSeq(rest, 1, n) \in Seq(STRING) /\ Len(SubSeq(rest, 1, n)) = n
          /\ \A i \in 1 .. n : SubSeq(rest, 1, n)[i] = rest[i]
      BY <3>2, Prefix
    <3> QED
      BY <3>1, <3>3
  <2> HIDE DEF q
  <2>2. ASSUME NEW j \in 1 .. m - 3
        PROVE  q[2*j - 1] = line[2*(j + 1) - 1] /\ q[2*j] = line[2*(j + 1)] /\ j + 1 \in 1 .. m
    <3>1. /\ 2*j - 1 \in 1 .. c - 1 /\ 2*j \in 1 .. c - 1 /\ 2*j - 1 \in 1 .. N /\ 2*j \in 1 .. N
          /\ (2*j - 1) + 2 = 2*(j + 1) - 1 /\ 2*j + 2 = 2*(j + 1) /\ j + 1 \in 1 .. m
      BY <1>4
    <3> QED
      BY <1>7, <2>1, <3>1
  <2>3. \A j \in 1 .. m - 3 : q[2*j - 1] \notin Separators /\ q[2*j] \in Separators
    BY <1>2, <2>2
  <2>4. w \in Seq(STRING) /\ Len(w) = m - 3 /\ \A j \in 1 .. m - 3 : w[j] = q[2*j - 1]
    BY <1>4, <2>1, <2>3, WordsOfPairs, WordsType
  <2>5. u \in Seq(STRING) /\ Len(u) = m - 3 /\ \A j \in 1 .. m - 3 : u[j] = v[j + 1]
    <3>1. 2 \in Int /\ m - 2 \in Int /\ 2 <= m - 2 /\ (m - 2) - 2 + 1 = m - 3
      BY <1>2
    <3>2. \A i \in 2 .. m - 2 : v[i] \in STRING
      BY <1>2, <1>3
    <3>3. /\ u \in Seq(STRING) /\ Len(u) = IF 2 <= m - 2 THEN (m - 2) - 2 + 1 ELSE 0
          /\ \A i \in 1 .. (m - 2) - 2 + 1 : u[i] = v[2 + i - 1]
      BY <3>1, <3>2, SubSeqProperties
    <3>4. \A j \in 1 .. m - 3 : 2 + j - 1 = j + 1
      BY <1>4
    <3> QED
      BY <3>1, <3>3, <3>4
  <2> HIDE DEF w, u
  <2>6. \A j \in 1 .. m - 3 : w[j] = u[j]
    <3> SUFFICES ASSUME NEW j \in 1 .. m - 3 PROVE w[j] = u[j]
      OBVIOUS
    <3>1. v[j + 1] = line[2*(j + 1) - 1]
      BY <1>2, <2>2
    <3> QED
      BY <2>2, <2>4, <2>5, <3>1
  <2>7. w = u
    BY <2>4, <2>5, <2>6, SeqEqual
  <2>8. w # <<>>
    BY <1>4, <2>4, EmptySeq
  <2> QED
    BY <1>2, <2>7, <2>8 DEF QuerryWords, q, w, u
<1>16. CreateQuerryStdin
  BY DEF ConsoleStep, NoCommand, Dangling, Search, ReadDeadline, SkipLine, Count, Wc, Exit,
         Unknown, ReadKeyword, Command
<1>17. /\ ~ \E k \in EmptyWords(rest) : k < c
       /\ dashes # {}
  BY <1>10, <1>12
<1>18. /\ pc' = "deadline" /\ stdin' = From(stdin, c + 2) /\ querry' = QuerryWords(rest, c)
       /\ served' = served /\ stale' = FALSE
  <2> DEFINE last == IF dashes = {} THEN Len(rest) + 1 ELSE Min(dashes)
  <2>1. last = c
    BY <1>13, <1>17
  <2> HIDE DEF last
  <2>2. /\ IF \E k \in EmptyWords(rest) : k < last
             THEN pc' = "crashed" /\ UNCHANGED <<stdin, querry>>
           ELSE IF dashes = {} \/ rest[last + 1] = "\n"
             THEN EndTurn(stale) /\ stdin' = ReadTillNewline(stdin) /\ UNCHANGED querry
           ELSE IF QuerryWords(rest, last) = <<>>
             THEN EndTurn(stale) /\ stdin' = From(stdin, last + 2) /\ UNCHANGED querry
           ELSE /\ pc' = "deadline" /\ stdin' = From(stdin, last + 2)
                /\ querry' = QuerryWords(rest, last)
        /\ UNCHANGED <<stale, served>>
    BY <1>6, <1>16 DEF CreateQuerryStdin, last
  <2> QED
    BY <1>14, <1>15, <1>17, <2>1, <2>2
<1> QED
  BY <1>6, <1>15, <1>18 DEF v

-----------------------------------------------------------------------------
(* Every line is served as it was meant *)

LEMMA ServedInvInit == Init => ServedInv
<1> SUFFICES ASSUME Init PROVE ServedInv
  OBVIOUS
<1>1. /\ typed = <<>> /\ stdin = <<>> /\ pc = "prompt" /\ served = <<>> /\ typed \in Seq(Lines)
      /\ stale = FALSE
  BY DEF Init
<1>2. Len(typed) = 0 /\ 0 \in 0 .. Len(typed)
  BY <1>1
<1>3. Rest(0) = <<>> /\ Answered(0) = <<>>
  BY <1>1, <1>2, RestFirst, AnsweredNext
<1> QED
  BY <1>1, <1>2, <1>3 DEF ServedInv, Between

LEMMA ServedInvType ==
  ASSUME ServedInv, NEW line \in Lines, Type(line)
  PROVE  ServedInv'
<1> DEFINE n == Len(typed)
<1>1. /\ typed' = Append(typed, line) /\ stdin' = stdin \o line /\ typed \in Seq(Lines)
      /\ pc # "done" /\ UNCHANGED <<pc, stale, served, querry>>
  BY DEF Type, ServedInv
<1>2. /\ typed' \in Seq(Lines) /\ Len(typed') = n + 1 /\ n \in Nat
      /\ \A k \in 1 .. n : typed'[k] = typed[k]
  BY <1>1, AppendProperties
<1>3. typed \in Seq(Seq(STRING)) /\ line \in Seq(STRING)
  BY <1>1, LinesAssumption, SeqMonotonic
<1> HIDE DEF n
<1>4. ASSUME NEW d \in 0 .. n PROVE Rest(d)' = Rest(d) \o line /\ Answered(d)' = Answered(d)
  <2>1. Rest(d)' = Rest(d) \o line
    BY <1>1, <1>3, LinesBehind DEF Rest, n
  <2>2. [k \in 1 .. d |-> Meaning(typed[k])]' = [k \in 1 .. d |-> Meaning(typed[k])]
    <3>1. \A k \in 1 .. d : typed'[k] = typed[k]
      BY <1>2
    <3> QED
      BY <3>1
  <2> QED
    BY <2>1, <2>2 DEF Answered
<1>5. ASSUME ProperTyped' PROVE ProperTyped
  <2>1. DOMAIN typed' = 1 .. n + 1 /\ DOMAIN typed = 1 .. n /\ \A k \in 1 .. n : k \in 1 .. n + 1
    BY <1>1, <1>2 DEF n
  <2> QED
    BY <1>2, <1>5, <2>1 DEF ProperTyped
<1>6. ASSUME ProperTyped'
      PROVE  /\ stale' = FALSE
             /\ \E d \in 0 .. Len(typed') : served' = Answered(d)' /\ (Between(d)' \/ Within(d)')
  <2>0. stale' = FALSE
    BY <1>1, <1>5, <1>6 DEF ServedInv
  <2>1. PICK d \in 0 .. n : served = Answered(d) /\ (Between(d) \/ Within(d))
    BY <1>1, <1>5, <1>6 DEF ServedInv, n
  <2>2. d \in 0 .. Len(typed') /\ served' = Answered(d)' /\ Rest(d)' = Rest(d) \o line
    BY <1>1, <1>2, <1>4, <2>1
  <2>3. CASE Between(d)
    BY <1>1, <2>0, <2>2, <2>3 DEF Between
  <2>4. CASE Within(d)
    <3> DEFINE l == typed[d+1]
    <3>1. d < n /\ d + 1 \in 1 .. n /\ d + 1 \in 0 .. n
      BY <1>2, <2>4 DEF Within, n
    <3>2. typed'[d+1] = l /\ d < Len(typed')
      BY <1>2, <3>1
    <3>3. Rest(d+1)' = Rest(d+1) \o line
      BY <1>4, <3>1
    <3>4. typed'[d+1] = l /\ d < Len(typed') /\ Rest(d+1)' = Rest(d+1) \o line
      BY <3>2, <3>3
    <3>5. Rest(d+1) \in Seq(STRING) /\ l \in Lines
      BY <1>1, <3>1, RestFirst DEF n
    <3>6. l \in Seq(STRING) /\ Len(l) \in Nat
      BY <3>5, LinesAssumption
    <3> DEFINE r == Rest(d+1)
    <3> HIDE DEF l, r
    <3>7. ASSUME NEW k \in Nat \ {0}, stdin = From(l, k) \o Rest(d+1)
          PROVE  stdin' = From(l, k) \o Rest(d+1)'
      <4> DEFINE f == From(l, k)
      <4>1. f \in Seq(STRING)
        <5>1. \A i \in k .. Len(l) : l[i] \in STRING
          BY <3>6
        <5> QED
          BY <3>6, <5>1, SubSeqProperties DEF From
      <4>2. r \in Seq(STRING) /\ stdin = f \o r
        BY <3>5, <3>7 DEF r
      <4> HIDE DEF f
      <4>3. (f \o r) \o line = f \o (r \o line)
        BY <1>3, <4>1, <4>2, ConcatAssociative
      <4> QED
        BY <1>1, <3>4, <4>2, <4>3 DEF f, r
    <3>8. l[1] = "/search" => Len(l) - 1 \in Nat \ {0}
      <4>1. Len(l) > 0 /\ \A i \in 1 .. Len(l) : (l[i] = "\n" <=> i = Len(l))
        BY <3>5, LinesAssumption
      <4>2. 1 \in 1 .. Len(l)
        BY <3>6, <4>1
      <4>3. l[1] = "/search" => Len(l) # 1
        BY <4>1, <4>2
      <4> QED
        BY <3>6, <4>1, <4>3
    <3>9. /\ stdin = From(l, 3) \o Rest(d+1) => stdin' = From(l, 3) \o Rest(d+1)'
          /\ l[1] = "/search" /\ stdin = From(l, Len(l) - 1) \o Rest(d+1) =>
               stdin' = From(l, Len(l) - 1) \o Rest(d+1)'
      <4> DEFINE k3 == 3
                 k2 == Len(l) - 1
      <4>1. k3 \in Nat \ {0} /\ (l[1] = "/search" => k2 \in Nat \ {0})
        BY <3>8
      <4> HIDE DEF k3, k2
      <4>2. stdin = From(l, k3) \o Rest(d+1) => stdin' = From(l, k3) \o Rest(d+1)'
        BY <3>7, <4>1
      <4>3. l[1] = "/search" /\ stdin = From(l, k2) \o Rest(d+1) => stdin' = From(l, k2) \o Rest(d+1)'
        BY <3>7, <4>1
      <4> QED
        BY <4>2, <4>3 DEF k3, k2
    <3>10. Within(d)'
      BY <1>1, <2>4, <3>4, <3>9 DEF Within, l
    <3> QED
      BY <2>0, <2>2, <3>10
  <2> QED
    BY <2>1, <2>3, <2>4
<1> QED
  BY <1>2, <1>6 DEF ServedInv

LEMMA ServedInvStep ==
  ASSUME ServedInv, ConsoleStep
  PROVE  ServedInv'
<1>1. typed' = typed /\ typed \in Seq(Lines)
  BY DEF ServedInv, ConsoleStep, NoCommand, Dangling, Search, CreateQuerryStdin, ReadDeadline, SkipLine, Count,
         Wc, Exit, Unknown, ReadKeyword
<1>2. pc # "done"
  BY DEF ConsoleStep, NoCommand, Dangling, Search, CreateQuerryStdin, ReadDeadline, SkipLine, Count,
         Wc, Exit, Unknown, ReadKeyword, Command
<1>3. ProperTyped' = ProperTyped
  BY <1>1 DEF ProperTyped
<1>4. ASSUME NEW e \in 0 .. Len(typed)
      PROVE  Rest(e)' = Rest(e) /\ Answered(e)' = Answered(e)
  BY <1>1 DEF Rest, Answered
<1> SUFFICES ASSUME ProperTyped, pc' # "done"
             PROVE  /\ stale' = FALSE
                    /\ \E e \in 0 .. Len(typed) : served' = Answered(e)' /\ (Between(e)' \/ Within(e)')
  BY <1>1, <1>3 DEF ServedInv
<1>5. PICK d \in 0 .. Len(typed) : stale = FALSE /\ served = Answered(d) /\ (Between(d) \/ Within(d))
  BY <1>2 DEF ServedInv
<1> DEFINE line == typed[d+1]
           t    == Rest(d+1)
<1>6. served \in Seq(Requests)
  BY <1>1, <1>5, AnsweredNext
<1>7. d < Len(typed)
  <2> SUFFICES ASSUME d = Len(typed) PROVE FALSE
    BY <1>1
  <2>1. ~(d < Len(typed))
    BY <1>1
  <2>2. Rest(d) = <<>>
    BY <1>1, RestFirst
  <2>3. pc = "prompt" /\ stdin = <<>>
    BY <1>5, <2>1, <2>2 DEF Between, Within
  <2> HIDE <1>5
  <2> QED
    BY <2>3 DEF ConsoleStep, NoCommand, Dangling, Search, CreateQuerryStdin, ReadDeadline, SkipLine, Count,
                Wc, Exit, Unknown, ReadKeyword, Command
<1>8. /\ line \in Lines /\ Proper(line) /\ t \in Seq(STRING) /\ Rest(d) = line \o t
      /\ d + 1 \in 0 .. Len(typed) /\ Answered(d+1) = served \o Meaning(line)
  <2>1. line \in Lines /\ d + 1 \in DOMAIN typed /\ t \in Seq(STRING) /\ Rest(d) = line \o t
    BY <1>1, <1>7, RestFirst
  <2>2. Proper(line)
    BY <2>1 DEF ProperTyped
  <2>3. d + 1 \in 0 .. Len(typed)
    BY <1>1, <1>7
  <2>4. Answered(d+1) = served \o Meaning(line)
    BY <1>1, <1>5, <1>7, AnsweredNext
  <2> QED
    BY <2>1, <2>2, <2>3, <2>4
<1>9. typed'[d+1] = line /\ Rest(d+1)' = t /\ d < Len(typed') /\ Answered(d)' = Answered(d)
  BY <1>1, <1>4, <1>7, <1>8
<1> HIDE DEF line, t
\* The line is done, or there is more of it.
<1>10. ASSUME pc' = "prompt", stdin' = t, served' = served \o Meaning(line)
       PROVE  \E e \in 0 .. Len(typed) : served' = Answered(e)' /\ (Between(e)' \/ Within(e)')
  <2>1. served' = Answered(d+1)' /\ Between(d+1)'
    BY <1>4, <1>8, <1>9, <1>10 DEF Between
  <2> QED
    BY <1>8, <2>1
<1>11. CASE pc = "prompt"
  <2>1. stdin = line \o t
    BY <1>5, <1>8, <1>11 DEF Between, Within
  <2>2. /\ stale' = FALSE
        /\ \/ /\ served' = served /\ stdin' = From(line, 3) \o t
              /\ \/ pc' = "querry" /\ line[1] = "/search"
                 \/ pc' = "keyword" /\ line[1] = "/count"
                 \/ pc' = "skip" /\ line[1] \notin Commands
           \/ pc' = "prompt" /\ stdin' = t /\ served' = served \o Meaning(line)
    BY <1>6, <1>8, <1>11, <2>1, CommandRead
  <2>3. ASSUME served' = served, stdin' = From(line, 3) \o t,
               \/ pc' = "querry" /\ line[1] = "/search"
               \/ pc' = "keyword" /\ line[1] = "/count"
               \/ pc' = "skip" /\ line[1] \notin Commands
        PROVE  Within(d)' /\ served' = Answered(d)'
    BY <1>5, <1>9, <2>3 DEF Within
  <2> QED
    BY <1>10, <2>2, <2>3
<1>12. CASE pc # "prompt"
  <2>1. \/ pc = "querry" /\ line[1] = "/search" /\ stdin = From(line, 3) \o t
        \/ pc = "keyword" /\ line[1] = "/count" /\ stdin = From(line, 3) \o t
        \/ pc = "skip" /\ line[1] \notin Commands /\ stdin = From(line, 3) \o t
        \/ /\ pc = "deadline" /\ line[1] = "/search"
           /\ stdin = From(line, Len(line) - 1) \o t
           /\ querry = SubSeq(Words(line), 2, Len(Words(line)) - 2)
    BY <1>5, <1>12 DEF Between, Within, line, t
  <2>2. CASE pc = "querry" /\ line[1] = "/search" /\ stdin = From(line, 3) \o t
    <3>1. /\ pc' = "deadline" /\ served' = served /\ stdin' = From(line, Len(line) - 1) \o t
          /\ querry' = SubSeq(Words(line), 2, Len(Words(line)) - 2) /\ stale' = FALSE
      BY <1>5, <1>8, <2>2, QuerryOfLine
    <3>2. Within(d)' /\ served' = Answered(d)'
      BY <1>5, <1>9, <2>2, <3>1 DEF Within
    <3> QED
      BY <3>1, <3>2
  <2>3. CASE pc # "querry"
    BY <1>5, <1>6, <1>8, <1>10, <2>1, <2>3, LineFinished
  <2> QED
    BY <2>1, <2>2, <2>3
<1> QED
  BY <1>11, <1>12

\* If the user types what README.md describes, then what the workers have been sent is
\* what the lines ask for, in order, and the rest of the lines is unread: whatever is
\* typed ahead and for any lines of any length.
THEOREM LinesAreServed == Spec => []LinesServed
<1>1. ASSUME ServedInv, [Next]_vars PROVE ServedInv'
  <2>1. CASE UNCHANGED vars
    BY <1>1, <2>1 DEF ServedInv, ProperTyped, Answered, Between, Within, Rest, vars
  <2> QED
    BY <1>1, <2>1, ServedInvType, ServedInvStep DEF Next, ConsoleStep
<1>2. ASSUME ServedInv PROVE LinesServed
  <2> SUFFICES ASSUME ProperTyped, pc = "prompt"
               PROVE  \E done \in 0 .. Len(typed) :
                        /\ served = FlattenSeq([k \in 1 .. done |-> Meaning(typed[k])])
                        /\ stdin = FlattenSeq(SubSeq(typed, done + 1, Len(typed)))
    BY DEF LinesServed, ProperTyped
  <2>1. PICK d \in 0 .. Len(typed) : served = Answered(d) /\ (Between(d) \/ Within(d))
    BY <1>2 DEF ServedInv
  <2>2. Between(d)
    BY <2>1 DEF Within
  <2> QED
    BY <2>1, <2>2 DEF Between, Answered, Rest
<1> QED
  BY <1>1, <1>2, ServedInvInit, PTL DEF Spec

=============================================================================

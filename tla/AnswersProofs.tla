---------------------------- MODULE AnswersProofs ---------------------------
(***************************************************************************)
(* /maxcount and /mincount show the best of the workers' answers and /wc   *)
(* their sums, however many workers, files and counts there are, and only  *)
(* what is too large for an int keeps a worker from answering.             *)
(***************************************************************************)
EXTENDS Answers, SequenceTheorems, FiniteSetTheorems, WellFoundedInduction, TLAPS

\* The answers PrintMaxCount or PrintMinCount has looked at.
Seen == {w \in Answering : w < i}

\* By the numbers the console reads, v's answer is no worse than that of w.
Ahead(v, w) ==
  LET n == NumberRead(found[v])
      m == NumberRead(found[w])
  IN \/ kind = "max" /\ n > m
     \/ kind = "min" /\ n < m
     \/ n = m /\ ~Before(w, v)

SeenNoticed == Seen \cap Noticed

\* The loop's invariant: as long as no number seen beats the one the loop begins with,
\* best is still that one, and the answer at pos, if any, equals it; afterwards best is
\* the number of an answer seen and no other number seen is better.
BestSoFar ==
  /\ SeenNoticed = {} => /\ best = Start
                         /\ pos = -1 \/ (pos \in Seen /\ NumberRead(found[pos]) = Start)
  /\ SeenNoticed # {} => /\ pos \in SeenNoticed
                         /\ best = NumberRead(found[pos])
                         /\ \A w \in SeenNoticed : Ahead(pos, w)
  /\ \A w \in Seen : found[w][2] < INT_MAX

Distinct == \A v, w \in Answering : v # w => found[v][1][1] # found[w][1][1]

BestInv ==
  /\ kind \in {"max", "min", "wc"}
  /\ found \in [Workers -> Answer]
  /\ Distinct
  /\ kind # "wc" => /\ i \in 0 .. N
                    /\ pc \in {"read", "shown", "crashed"}
                    /\ pc # "crashed" => BestSoFar
                    /\ pc = "shown" => i = N

-----------------------------------------------------------------------------
(* Lemmas *)

\* NumDigits has no digits to count for the largest int, so no worker sends it.
LEMMA LargestNotCountable ==
  ASSUME NEW answer \in Paths \X Counts, Countable(answer)
  PROVE  answer[2] < INT_MAX
<1>1. answer[2] \in Counts /\ answer[2] \in 1 .. INT_MAX /\ INT_MAX \in Nat \ {0}
  BY NumbersAssumption
<1>2. SUFFICES ASSUME answer[2] = INT_MAX
               PROVE  FALSE
  BY <1>1
<1>3. (INT_MAX + 1) % Width = INT_MAX + 1
  BY <1>1 DEF Width
<1>4. AsInt(INT_MAX + 1) = -INT_MAX - 1
  BY <1>1, <1>3 DEF AsInt, Width
<1>5. NumDigits(INT_MAX) = NoNumber
  BY <1>1, <1>4 DEF NumDigits
<1> QED
  BY <1>1, <1>2, <1>5 DEF Countable, NoNumber

\* What the console reads is an int, whatever the path.
LEMMA NumberReadTypes ==
  ASSUME NEW answer \in Paths \X Counts
  PROVE  /\ NumberRead(answer) \in Int
         /\ answer[1][1] \in Nat
         /\ answer[2] \in 1 .. INT_MAX
         /\ INT_MAX \in Nat
<1>1. answer[1] \in Nat \X Misread /\ answer[2] \in 1 .. INT_MAX /\ INT_MAX \in Nat
  BY NumbersAssumption
<1>2. answer[1][1] \in Nat /\ answer[1][2] \in Misread
  BY <1>1
<1>3. CASE answer[1][2] = <<>>
  BY <1>1, <1>2, <1>3 DEF NumberRead
<1>4. CASE answer[1][2] # <<>>
  <2>1. PICK n \in -INT_MAX-1 .. INT_MAX : answer[1][2] = <<n>>
    BY <1>2, <1>4 DEF Misread
  <2>2. NumberRead(answer) = n
    BY <1>4, <2>1 DEF NumberRead
  <2> QED
    BY <1>1, <1>2, <2>2
<1> QED
  BY <1>3, <1>4

LEMMA AnswerTypes ==
  ASSUME found \in [Workers -> Answer], NEW w \in Answering
  PROVE  w \in Workers /\ w \in Nat /\ found[w] \in Paths \X Counts
<1>1. w \in Workers /\ found[w] # <<>> /\ found[w] \in Answer
  BY DEF Answering
<1>2. N \in Nat
  BY NumbersAssumption
<1> QED
  BY <1>1, <1>2 DEF Answer, Workers

LEMMA BestInit == Init => BestInv
<1> SUFFICES ASSUME Init PROVE BestInv
  OBVIOUS
<1>1. found \in [Workers -> Answer]
  BY DEF Init, Answer
<1>2. Seen = {}
  BY <1>1, AnswerTypes DEF Seen, Init
<1>3. N \in Nat
  BY NumbersAssumption
<1>4. Distinct
  BY DEF Init, Distinct, Answering
<1>5. BestSoFar
  BY <1>2 DEF BestSoFar, SeenNoticed, Init
<1> QED
  BY <1>1, <1>3, <1>4, <1>5 DEF Init, BestInv

-----------------------------------------------------------------------------
(* The steps *)

\* One more answer: the last disjunct keeps the best one, the second replaces it,
\* and the order is transitive.
LEMMA PrintCountKeeps ==
  ASSUME BestInv, PrintCount
  PROVE  BestInv'
<1> USE DEF BestInv
<1>1. /\ pc = "read" /\ kind \in {"max", "min"} /\ i \in 0 .. N /\ i < N /\ N \in Nat
      /\ i' = i + 1 /\ kind' = kind /\ found' = found
      /\ i \in Workers /\ i \in Nat
  BY NumbersAssumption DEF PrintCount, Workers
<1>2. Answering' = Answering /\ Distinct' /\ Start' = Start
  BY <1>1 DEF Answering, Distinct, Start
<1>3. \A w \in Answering : w \in Workers /\ w \in Nat /\ found[w] \in Paths \X Counts
  BY AnswerTypes
<1>4. \A v, w : Ahead(v, w)' = Ahead(v, w)
  BY <1>1 DEF Ahead, Before
<1>5. BestSoFar
  BY <1>1
<1>6. i' \in 0 .. N
  BY <1>1
<1>7. Noticed' = Noticed
  BY <1>1, <1>2 DEF Noticed, numbers
<1>8. CASE found[i] = <<>>
  <2>1. Seen' = Seen /\ SeenNoticed' = SeenNoticed
    <3>1. i \notin Answering
      BY <1>8 DEF Answering
    <3>2. \A w \in Answering : w < i + 1 <=> w < i
      BY <1>1, <1>3, <3>1
    <3> QED
      BY <1>1, <1>2, <1>7, <3>2 DEF Seen, SeenNoticed
  <2>2. best' = best /\ pos' = pos /\ pc' = pc
    BY <1>8 DEF PrintCount
  <2>3. BestSoFar'
    BY <1>1, <1>2, <1>4, <1>5, <2>1, <2>2 DEF BestSoFar
  <2> QED
    BY <1>1, <1>2, <1>6, <2>2, <2>3
<1>9. CASE found[i] # <<>> /\ pc' = "crashed"
  BY <1>1, <1>2, <1>6, <1>9
<1>10. CASE found[i] # <<>> /\ pc' # "crashed"
  <2>0. /\ Countable(found[i]) /\ pc' = pc
        /\ \/ /\ Better(NumberRead(found[i])) \/ OutOfBounds(NumberRead(found[i]))
              /\ best' = NumberRead(found[i]) /\ pos' = i
           \/ /\ ~Better(NumberRead(found[i]))
              /\ best' = best /\ pos' = pos
    BY <1>10 DEF PrintCount
  <2>1. i \in Answering /\ found[i] \in Paths \X Counts
    BY <1>1, <1>3, <1>10 DEF Answering
  <2>2. Seen' = Seen \cup {i} /\ i \notin Seen
    <3>1. \A w \in Answering : w < i + 1 <=> w < i \/ w = i
      BY <1>1, <1>3
    <3>2. \A w : w \in Seen' <=> w \in Seen \/ w = i
      BY <1>1, <1>2, <2>1, <3>1 DEF Seen
    <3>3. i \notin Seen
      BY <1>1 DEF Seen
    <3> QED
      BY <3>2, <3>3
  <2>3. found[i][2] < INT_MAX
    BY <2>0, <2>1, LargestNotCountable
  <2>4. \A w \in Seen' : found'[w][2] < INT_MAX
    BY <1>1, <1>5, <2>2, <2>3 DEF BestSoFar
  <2>5. \A w \in Seen' : /\ NumberRead(found[w]) \in Int
                         /\ found[w][1][1] \in Nat
                         /\ w \in Nat /\ w # -1
    BY <1>3, <2>1, <2>2, NumberReadTypes DEF Seen
  <2>6. SeenNoticed' = SeenNoticed \cup (IF i \in Noticed THEN {i} ELSE {})
    BY <1>7, <2>2 DEF SeenNoticed
  <2>7. Start \in Int
    BY NumbersAssumption DEF Start
  <2>8. \A w \in Seen' : /\ w \in Noticed /\ kind = "max" => NumberRead(found[w]) > Start
                         /\ w \in Noticed /\ kind = "min" => NumberRead(found[w]) < Start
                         /\ w \notin Noticed /\ kind = "max" => NumberRead(found[w]) <= Start
                         /\ w \notin Noticed /\ kind = "min" => NumberRead(found[w]) >= Start
    <3>1. \A w \in Seen' : w \in Answering /\ numbers[w] = NumberRead(found[w])
      BY <2>1, <2>2 DEF Seen, numbers
    <3> QED
      BY <2>5, <2>7, <3>1 DEF Noticed
  <2>9. SeenNoticed \subseteq Seen /\ SeenNoticed \subseteq Noticed /\ Seen \subseteq Seen' /\ i \in Seen'
    BY <2>2 DEF SeenNoticed
  \* A number that is not better than the start leaves a best answer that is.
  <2>10. CASE i \notin Noticed
    <3>1. CASE SeenNoticed = {}
      <4>1. best = Start /\ (pos = -1 \/ (pos \in Seen /\ NumberRead(found[pos]) = Start))
        BY <1>5, <3>1 DEF BestSoFar
      <4>2. CASE best' = NumberRead(found[i]) /\ pos' = i /\ (Better(NumberRead(found[i])) \/ OutOfBounds(NumberRead(found[i])))
        <5>1. NumberRead(found[i]) = Start
          BY <1>1, <2>5, <2>7, <2>8, <2>9, <2>10, <4>1, <4>2 DEF Better, OutOfBounds
        <5>2. SeenNoticed' = {}
          BY <2>6, <2>10, <3>1
        <5>3. BestSoFar'
          BY <1>1, <1>2, <2>4, <2>9, <4>2, <5>1, <5>2 DEF BestSoFar
        <5> QED
          BY <1>1, <1>2, <1>6, <2>0, <5>3
      <4>3. CASE best' = best /\ pos' = pos
        <5>1. SeenNoticed' = {}
          BY <2>6, <2>10, <3>1
        <5>2. BestSoFar'
          BY <1>1, <1>2, <2>4, <2>9, <4>1, <4>3, <5>1 DEF BestSoFar
        <5> QED
          BY <1>1, <1>2, <1>6, <2>0, <5>2
      <4> QED
        BY <1>1, <1>2, <1>6, <2>0, <4>2, <4>3
    <3>2. CASE SeenNoticed # {}
      <4>1. pos \in SeenNoticed /\ best = NumberRead(found[pos]) /\ \A w \in SeenNoticed : Ahead(pos, w)
        BY <1>5, <3>2 DEF BestSoFar
      <4>2. ~Better(NumberRead(found[i])) /\ ~OutOfBounds(NumberRead(found[i]))
        BY <1>1, <2>5, <2>7, <2>8, <2>9, <2>10, <4>1 DEF Better, OutOfBounds
      <4>3. best' = best /\ pos' = pos
        BY <2>0, <4>2
      <4>4. SeenNoticed' = SeenNoticed
        BY <2>6, <2>10
      <4>5. BestSoFar'
        BY <1>1, <1>2, <1>4, <2>4, <3>2, <4>1, <4>3, <4>4 DEF BestSoFar
      <4> QED
        BY <1>1, <1>2, <1>6, <2>0, <4>5
    <3> QED
      BY <3>1, <3>2
  <2>11. CASE i \in Noticed
    <3>1. SeenNoticed' = SeenNoticed \cup {i}
      BY <2>6, <2>11
    <3>2. CASE SeenNoticed = {}
      <4>1. best = Start
        BY <1>5, <3>2 DEF BestSoFar
      <4>2. Better(NumberRead(found[i]))
        BY <1>1, <2>8, <2>9, <2>11, <4>1 DEF Better
      <4>3. best' = NumberRead(found[i]) /\ pos' = i
        BY <2>0, <4>2
      <4>4. Ahead(i, i)
        BY <2>5, <2>9 DEF Ahead, Before
      <4>5. SeenNoticed' = {i}
        BY <3>1, <3>2
      <4>6. BestSoFar'
        BY <1>1, <1>4, <2>4, <4>3, <4>4, <4>5 DEF BestSoFar
      <4> QED
        BY <1>1, <1>2, <1>6, <2>0, <4>6
    <3>3. CASE SeenNoticed # {}
      <4>1. pos \in SeenNoticed /\ best = NumberRead(found[pos]) /\ \A w \in SeenNoticed : Ahead(pos, w)
        BY <1>5, <3>3 DEF BestSoFar
      <4>2. pos # -1 /\ ~OutOfBounds(NumberRead(found[i]))
        BY <2>5, <2>9, <4>1 DEF OutOfBounds
      <4>3. CASE Better(NumberRead(found[i]))
        <5>1. best' = NumberRead(found[i]) /\ pos' = i
          BY <2>0, <4>3
        <5>2. ASSUME NEW w \in SeenNoticed'
              PROVE  Ahead(i, w)
          <6>1. CASE w = i
            BY <2>5, <2>9, <6>1 DEF Ahead, Before
          <6>2. CASE w # i
            <7>1. w \in SeenNoticed /\ Ahead(pos, w) /\ w \in Seen' /\ pos \in Seen'
              BY <2>9, <3>1, <4>1, <6>2
            <7>2. /\ NumberRead(found[i]) \in Int /\ NumberRead(found[pos]) \in Int
                  /\ NumberRead(found[w]) \in Int
                  /\ found[i][1][1] \in Nat /\ found[pos][1][1] \in Nat /\ found[w][1][1] \in Nat
              BY <2>5, <2>9, <7>1
            <7> QED
              BY <1>1, <4>1, <4>3, <7>1, <7>2 DEF Better, Ahead, Before
          <6> QED
            BY <6>1, <6>2
        <5>3. BestSoFar'
          BY <1>1, <1>4, <2>4, <3>1, <5>1, <5>2 DEF BestSoFar
        <5> QED
          BY <1>1, <1>2, <1>6, <2>0, <5>3
      <4>4. CASE ~Better(NumberRead(found[i]))
        <5>1. best' = best /\ pos' = pos
          BY <2>0, <4>2, <4>4
        <5>2. NumberRead(found[i]) \in Int /\ NumberRead(found[pos]) \in Int
          BY <2>5, <2>9, <4>1
        <5>3. Ahead(pos, i)
          BY <1>1, <4>1, <4>2, <4>4, <5>2 DEF Better, Ahead
        <5>4. BestSoFar'
          BY <1>1, <1>4, <2>4, <3>1, <4>1, <5>1, <5>3 DEF BestSoFar
        <5> QED
          BY <1>1, <1>2, <1>6, <2>0, <5>4
      <4> QED
        BY <4>3, <4>4
    <3> QED
      BY <3>2, <3>3
  <2> QED
    BY <2>10, <2>11
<1> QED
  BY <1>8, <1>9, <1>10

LEMMA BestStep == BestInv /\ [Next]_vars => BestInv'
<1> SUFFICES ASSUME BestInv, [Next]_vars PROVE BestInv'
  OBVIOUS
<1>1. CASE PrintCount
  BY <1>1, PrintCountKeeps
<1>2. CASE PrintWc
  BY <1>2 DEF PrintWc, BestInv, Distinct, Answering
<1>3. CASE Show
  <2>1. BestInv => BestSoFar \/ kind = "wc"
    BY <1>3 DEF Show, BestInv
  <2>2. /\ kind' = kind /\ found' = found /\ i' = i /\ best' = best /\ pos' = pos
        /\ i = N /\ pc' = "shown"
    BY <1>3 DEF Show
  <2>3. Answering' = Answering /\ Start' = Start /\ \A v, w : Ahead(v, w)' = Ahead(v, w)
    BY <2>2 DEF Answering, Ahead, Before, Start
  <2>4. Seen' = Seen /\ SeenNoticed' = SeenNoticed /\ (Distinct => Distinct')
    BY <2>2, <2>3 DEF Distinct, Seen, SeenNoticed, Noticed, numbers
  <2>5. BestSoFar => BestSoFar'
    BY <2>2, <2>3, <2>4 DEF BestSoFar
  <2> QED
    BY <2>1, <2>2, <2>4, <2>5, NumbersAssumption DEF BestInv
<1>4. CASE UNCHANGED vars
  BY <1>4 DEF vars, BestInv, Distinct, BestSoFar, Seen, SeenNoticed, Noticed, numbers,
               Start, Answering, Ahead, Before
<1> QED
  BY <1>1, <1>2, <1>3, <1>4 DEF Next

-----------------------------------------------------------------------------
(* What is shown *)

\* When the loop ends, every worker's answer was seen.
LEMMA BestInvShows == BestInv => BestShown
<1> SUFFICES ASSUME BestInv, pc = "shown", kind # "wc"
             PROVE  /\ Misleading = {} =>
                         IF Answering = {} THEN pos = -1 ELSE Wins(pos, counts, Answering)
                    /\ IF Noticed = {} THEN pos = -1 \/ (pos \in Answering /\ numbers[pos] = Start)
                                       ELSE Wins(pos, numbers, Noticed)
  BY DEF BestShown
<1> USE DEF BestInv
<1>1. \A w \in Answering : w \in Workers /\ w \in Nat /\ found[w] \in Paths \X Counts
  BY AnswerTypes
<1>2. Seen = Answering /\ SeenNoticed = Noticed
  <2>1. Seen = Answering
    BY <1>1, NumbersAssumption DEF Seen, Workers
  <2> QED
    BY <2>1 DEF SeenNoticed, Noticed
<1>3. BestSoFar /\ kind \in {"max", "min"}
  OBVIOUS
<1>4. \A w \in Answering : /\ NumberRead(found[w]) \in Int
                          /\ found[w][1][1] \in Nat
                          /\ found[w][2] \in 1 .. INT_MAX
                          /\ numbers[w] = NumberRead(found[w])
                          /\ counts[w] = found[w][2]
  BY <1>1, NumberReadTypes DEF numbers, counts
<1>5. Noticed \subseteq Answering
  BY DEF Noticed
<1>6. IF Noticed = {} THEN pos = -1 \/ (pos \in Answering /\ numbers[pos] = Start)
                      ELSE Wins(pos, numbers, Noticed)
  <2>1. CASE Noticed = {}
    BY <1>2, <1>3, <1>4, <2>1 DEF BestSoFar
  <2>2. CASE Noticed # {}
    <3>1. pos \in Noticed /\ \A w \in Noticed : Ahead(pos, w)
      BY <1>2, <1>3, <2>2 DEF BestSoFar
    <3>2. ASSUME NEW w \in Noticed \ {pos}
          PROVE  \/ kind = "max" /\ numbers[pos] > numbers[w]
                 \/ kind = "min" /\ numbers[pos] < numbers[w]
                 \/ numbers[pos] = numbers[w] /\ Before(pos, w)
      <4>1. found[pos][1][1] # found[w][1][1] /\ w \in Answering /\ pos \in Answering
        BY <1>5, <3>1 DEF Distinct
      <4> QED
        BY <1>4, <3>1, <4>1 DEF Ahead, Before
    <3> QED
      BY <2>2, <3>1, <3>2 DEF Wins
  <2> QED
    BY <2>1, <2>2
\* A count is above -1, and the largest int never arrives.
<1>7. ASSUME Misleading = {}
      PROVE  IF Answering = {} THEN pos = -1 ELSE Wins(pos, counts, Answering)
  <2>1. \A w \in Answering : numbers[w] = counts[w]
    BY <1>4, <1>7 DEF Misleading, NumberRead
  <2>2. Noticed = Answering
    <3>1. \A w \in Answering : counts[w] > -1 /\ counts[w] < INT_MAX
      BY <1>2, <1>3, <1>4 DEF BestSoFar
    <3> QED
      BY <1>3, <2>1, <3>1 DEF Noticed, Start
  <2>3. CASE Answering = {}
    BY <1>6, <2>2, <2>3
  <2>4. CASE Answering # {}
    BY <1>6, <2>1, <2>2, <2>4 DEF Wins
  <2> QED
    BY <2>3, <2>4
<1> QED
  BY <1>6, <1>7

\* Whatever the workers found, however the files are shared out and in whatever order
\* the answers are looked at, /maxcount and /mincount show the best answer, and the
\* first in the alphabet of several equal ones, as long as no path has text behind a
\* blank; otherwise the same of the numbers the console reads there.
THEOREM BestAnswerShown == Spec => []BestShown
<1>1. Init => BestInv
  BY BestInit
<1>2. BestInv /\ [Next]_vars => BestInv'
  BY BestStep
<1>3. BestInv => BestShown
  BY BestInvShows
<1> QED
  BY <1>1, <1>2, <1>3, PTL DEF Spec

-----------------------------------------------------------------------------
(* Recursion *)

\* Induction over a set of numbers, as in StartupProofs.
LEMMA SetInduction ==
  ASSUME NEW T \in SUBSET Nat, 0 \in T, \A n \in T : n + 1 \in T
  PROVE  T = Nat
<1> DEFINE Rest == Nat \ T
           Less == {ss \in Nat \X Nat : ss[1] < ss[2]}
<1> SUFFICES ASSUME Rest # {} PROVE FALSE
  OBVIOUS
<1>1. IsWellFoundedOn(Less, Nat)
  BY NatLessThanWellFounded, Zenon DEF OpToRel
<1>2. \E x \in Rest : \A y \in Rest : ~(<<y, x>> \in Less)
  <2>1. Rest \subseteq Nat
    OBVIOUS
  <2> HIDE DEF Rest, Less
  <2> QED
    BY <1>1, <2>1, WFMin
<1>3. \A x, y \in Nat : y < x => <<y, x>> \in Less
  OBVIOUS
<1>4. PICK x \in Rest : \A y \in Rest : ~(y < x)
  <2>1. Rest \subseteq Nat
    OBVIOUS
  <2> HIDE DEF Rest, Less
  <2> QED
    BY <1>2, <1>3, <2>1
<1>5. x \in Nat /\ x # 0 /\ x - 1 \in Nat /\ x - 1 < x
  BY <1>4
<1>6. x - 1 \in T
  BY <1>4, <1>5
<1> QED
  BY <1>4, <1>5, <1>6

\* f is the one function with f[0] = c and f[k] = G[<<f[k-1], k>>] up to n.
Solution(f, n, c, G) ==
  /\ f \in [0 .. n -> Nat]
  /\ f[0] = c /\ \A k \in 1 .. n : f[k] = G[<<f[k-1], k>>]
  /\ \A h : h[0] = c /\ (\A k \in 1 .. n : h[k-1] \in Nat => h[k] = G[<<h[k-1], k>>])
              => \A k \in 0 .. n : h[k] = f[k]

LEMMA Recursion ==
  ASSUME NEW n \in Nat, NEW c \in Nat, NEW G \in [Nat \X Nat -> Nat]
  PROVE  \E f : Solution(f, n, c, G)
<1> DEFINE Solves(f, m) == f[0] = c /\ \A k \in 1 .. m : f[k] = G[<<f[k-1], k>>]
           Solved == {m \in Nat : \E f \in [0 .. m -> Nat] : Solves(f, m)}
<1>1. 0 \in Solved
  <2>1. [k \in 0 .. 0 |-> c] \in [0 .. 0 -> Nat] /\ Solves([k \in 0 .. 0 |-> c], 0)
    OBVIOUS
  <2> QED
    BY <2>1
<1>2. ASSUME NEW m \in Solved PROVE m + 1 \in Solved
  <2>1. m \in Nat /\ m + 1 \in Nat /\ \E f \in [0 .. m -> Nat] : Solves(f, m)
    OBVIOUS
  <2>2. PICK f \in [0 .. m -> Nat] : Solves(f, m)
    BY <2>1
  <2> DEFINE g == [k \in 0 .. m + 1 |-> IF k = m + 1 THEN G[<<f[m], m + 1>>] ELSE f[k]]
  <2> HIDE DEF Solved
  <2>3. /\ \A k \in 0 .. m : g[k] = f[k] /\ f[k] \in Nat /\ k \in 0 .. m + 1
        /\ g[m+1] = G[<<f[m], m + 1>>] /\ m \in 0 .. m /\ G[<<f[m], m + 1>>] \in Nat
        /\ 0 \in 0 .. m
    BY <2>1, <2>2
  <2>4. g \in [0 .. m + 1 -> Nat]
    BY <2>1, <2>3
  <2>5. ASSUME NEW k \in 1 .. m + 1 PROVE g[k] = G[<<g[k-1], k>>]
    <3>1. CASE k = m + 1
      <4>1. k - 1 = m
        BY <2>1, <3>1
      <4> HIDE DEF g
      <4> QED
        BY <2>3, <3>1, <4>1
    <3>2. CASE k # m + 1
      <4>1. k \in 1 .. m /\ k \in 0 .. m /\ k - 1 \in 0 .. m
        BY <2>1, <3>2
      <4> HIDE DEF g
      <4> QED
        BY <2>2, <2>3, <4>1
    <3> QED
      BY <3>1, <3>2
  <2> HIDE DEF g
  <2>6. g[0] = c
    BY <2>2, <2>3
  <2> QED
    BY <2>1, <2>4, <2>5, <2>6 DEF Solved
<1>3. Solved = Nat
  <2>1. Solved \in SUBSET Nat
    OBVIOUS
  <2> HIDE DEF Solved
  <2> QED
    BY <1>1, <1>2, <2>1, SetInduction
<1>4. PICK f \in [0 .. n -> Nat] : Solves(f, n)
  <2>1. n \in Solved
    <3> HIDE DEF Solved
    <3> QED
      BY <1>3
  <2> QED
    BY <2>1
<1>5. ASSUME NEW h, h[0] = c,
             \A k \in 1 .. n : h[k-1] \in Nat => h[k] = G[<<h[k-1], k>>]
      PROVE  \A k \in 0 .. n : h[k] = f[k]
  <2> DEFINE Same == {k \in Nat : k <= n => h[k] = f[k]}
  <2>1. 0 \in Same
    BY <1>4, <1>5
  <2>2. ASSUME NEW k \in Same PROVE k + 1 \in Same
    <3>1. k \in Nat /\ (k <= n => h[k] = f[k])
      OBVIOUS
    <3> HIDE DEF Same
    <3>2. ASSUME k + 1 <= n PROVE h[k+1] = f[k+1]
      <4>1. k + 1 \in 1 .. n /\ (k + 1) - 1 = k /\ k \in 0 .. n /\ k <= n
        BY <3>1, <3>2
      <4>2. f[k+1] = G[<<f[k], k+1>>]
        BY <1>4, <4>1
      <4>3. h[k] = f[k] /\ f[k] \in Nat
        BY <3>1, <4>1
      <4>4. h[k+1] = G[<<h[k], k+1>>]
        BY <1>5, <4>1, <4>3
      <4> QED
        BY <4>2, <4>3, <4>4
    <3> QED
      BY <3>1, <3>2 DEF Same
  <2>3. Same = Nat
    <3>1. Same \in SUBSET Nat
      OBVIOUS
    <3> HIDE DEF Same
    <3> QED
      BY <2>1, <2>2, <3>1, SetInduction
  <2>4. \A k \in 0 .. n : k \in Same
    <3> HIDE DEF Same
    <3> QED
      BY <2>3
  <2> QED
    BY <2>4
<1> HIDE DEF Solved
<1> QED
  BY <1>4, <1>5 DEF Solution

-----------------------------------------------------------------------------
(* Numbers and their digits *)

\* What Value is defined by.
LEMMA ValueBuilt ==
  ASSUME NEW s \in Seq(Nat)
  PROVE  \E f \in [0 .. Len(s) -> Nat] :
           f[0] = 0 /\ (\A k \in 1 .. Len(s) : f[k] = 10 * f[k-1] + s[k]) /\ Value(s) = f[Len(s)]
<1> DEFINE n == Len(s)
           G == [p \in Nat \X Nat |-> IF p[2] \in 1 .. n THEN 10 * p[1] + s[p[2]] ELSE 0]
           Solves(v) == v = [k \in 0 .. n |-> IF k = 0 THEN 0 ELSE 10 * v[k-1] + s[k]]
           V == CHOOSE v : Solves(v)
<1>1. n \in Nat /\ \A k \in 1 .. n : s[k] \in Nat
  OBVIOUS
<1> HIDE DEF n
<1>2. G \in [Nat \X Nat -> Nat]
  BY <1>1
<1>3. \A x \in Nat : \A k \in 1 .. n : G[<<x, k>>] = 10 * x + s[k]
  BY <1>1
<1> HIDE DEF G
<1>4. PICK f : Solution(f, n, 0, G)
  BY <1>1, <1>2, Recursion
<1>5. \A k \in 1 .. n : k - 1 \in 0 .. n /\ f[k-1] \in Nat
  BY <1>1, <1>4 DEF Solution
<1>6. \A k \in 1 .. n : f[k] = 10 * f[k-1] + s[k]
  BY <1>3, <1>4, <1>5 DEF Solution
<1>7. Solves(f)
  <2>1. \A k \in 0 .. n : k # 0 => k \in 1 .. n
    OBVIOUS
  <2>2. \A k \in 0 .. n : f[k] = IF k = 0 THEN 0 ELSE 10 * f[k-1] + s[k]
    BY <1>4, <1>6, <2>1 DEF Solution
  <2> QED
    BY <1>4, <2>2 DEF Solution
<1>8. Solves(V)
  BY <1>7
<1>9. V[0] = 0 /\ \A k \in 1 .. n : V[k] = 10 * V[k-1] + s[k]
  <2>1. \A k \in 0 .. n : V[k] = IF k = 0 THEN 0 ELSE 10 * V[k-1] + s[k]
    BY <1>8
  <2>2. 0 \in 0 .. n /\ \A k \in 1 .. n : k \in 0 .. n /\ k # 0
    BY <1>1
  <2> HIDE DEF V
  <2> QED
    BY <2>1, <2>2
<1>10. Value(s) = V[n]
  BY DEF Value, n
<1> HIDE DEF V, Solves
<1>11. V[n] = f[n]
  <2>1. \A k \in 1 .. n : V[k-1] \in Nat => V[k] = G[<<V[k-1], k>>]
    BY <1>3, <1>9
  <2> QED
    BY <1>1, <1>4, <1>9, <2>1 DEF Solution
<1> QED
  BY <1>4, <1>6, <1>10, <1>11 DEF n, Solution

\* One more digit.
LEMMA ValueAppend ==
  ASSUME NEW s \in Seq(Nat), NEW d \in Nat
  PROVE  Value(s) \in Nat /\ Value(Append(s, d)) = 10 * Value(s) + d
<1> DEFINE n == Len(s)
           t == Append(s, d)
<1>1. /\ n \in Nat /\ t \in Seq(Nat) /\ Len(t) = n + 1 /\ t[n+1] = d
      /\ \A k \in 1 .. n : t[k] = s[k]
  BY AppendProperties
<1>2. PICK f \in [0 .. n -> Nat] :
        f[0] = 0 /\ (\A k \in 1 .. n : f[k] = 10 * f[k-1] + s[k]) /\ Value(s) = f[n]
  BY ValueBuilt
<1>3. PICK g \in [0 .. n+1 -> Nat] :
        g[0] = 0 /\ (\A k \in 1 .. n+1 : g[k] = 10 * g[k-1] + t[k]) /\ Value(t) = g[n+1]
  <2> HIDE DEF t
  <2>1. \E g \in [0 .. Len(t) -> Nat] :
          g[0] = 0 /\ (\A k \in 1 .. Len(t) : g[k] = 10 * g[k-1] + t[k]) /\ Value(t) = g[Len(t)]
    BY <1>1, ValueBuilt
  <2>2. Len(t) = n + 1
    BY <1>1
  <2> QED
    BY <2>1, <2>2, Zenon
<1> HIDE DEF n, t
<1> DEFINE Same == {k \in Nat : k <= n => g[k] = f[k]}
<1>4. 0 \in Same
  BY <1>2, <1>3
<1>5. ASSUME NEW k \in Same PROVE k + 1 \in Same
  <2>1. k \in Nat /\ (k <= n => g[k] = f[k])
    OBVIOUS
  <2> HIDE DEF Same
  <2>2. ASSUME k + 1 <= n PROVE g[k+1] = f[k+1]
    <3>1. k + 1 \in 1 .. n /\ k + 1 \in 1 .. n+1 /\ (k + 1) - 1 = k /\ k <= n
      BY <1>1, <2>1, <2>2
    <3>2. f[k+1] = 10 * f[k] + s[k+1]
      BY <1>2, <3>1
    <3>3. g[k+1] = 10 * g[k] + t[k+1]
      BY <1>3, <3>1
    <3>4. t[k+1] = s[k+1] /\ g[k] = f[k]
      BY <1>1, <2>1, <3>1
    <3> QED
      BY <3>2, <3>3, <3>4
  <2> QED
    BY <2>1, <2>2 DEF Same
<1>6. Same = Nat
  <2>1. Same \in SUBSET Nat
    OBVIOUS
  <2> HIDE DEF Same
  <2> QED
    BY <1>4, <1>5, <2>1, SetInduction
<1>7. g[n] = f[n]
  <2>1. n \in Same
    <3> HIDE DEF Same
    <3> QED
      BY <1>1, <1>6
  <2> QED
    BY <1>1, <2>1
<1>8. g[n+1] = 10 * g[n] + d
  <2>1. n + 1 \in 1 .. n+1 /\ (n + 1) - 1 = n
    BY <1>1
  <2> QED
    BY <1>1, <1>3, <2>1
<1>9. f[n] \in Nat
  BY <1>1, <1>2
<1> QED
  BY <1>2, <1>3, <1>7, <1>8, <1>9 DEF t

Decimal == 0 .. 9

LEMMA DigitsAreInts ==
  ASSUME NEW s \in Seq(Decimal)
  PROVE  s \in Seq(Nat) /\ s \in Seq(Int)
<1>1. Decimal \subseteq Nat /\ Decimal \subseteq Int
  BY DEF Decimal
<1>2. s \in Seq(Nat)
  BY <1>1, SeqMonotonic
<1>3. s \in Seq(Int)
  BY <1>1, SeqMonotonic
<1> QED
  BY <1>2, <1>3

\* t are powers of ten.
Powers(t, n) ==
  t[0] = 1 /\ \A d \in 0 .. n : t[d] \in Nat /\ (d < n => t[d+1] = 10 * t[d])

\* What Tens is defined by.
LEMMA TensBuilt ==
  ASSUME NEW n \in Nat
  PROVE  Powers(Tens(n), n)
<1> DEFINE G == [p \in Nat \X Nat |-> 10 * p[1]]
           Solves(f) == f = [d \in 0 .. n |-> IF d = 0 THEN 1 ELSE 10 * f[d-1]]
           T == CHOOSE f : Solves(f)
<1>1. G \in [Nat \X Nat -> Nat] /\ \A x, k \in Nat : G[<<x, k>>] = 10 * x
  OBVIOUS
<1> HIDE DEF G
<1>2. PICK f : Solution(f, n, 1, G)
  BY <1>1, Recursion
<1>3. Solves(f)
  <2>1. \A d \in 0 .. n : d # 0 => d \in 1 .. n /\ d - 1 \in 0 .. n
    OBVIOUS
  <2>2. f \in [0 .. n -> Nat] /\ f[0] = 1 /\ \A d \in 1 .. n : f[d] = G[<<f[d-1], d>>]
    BY <1>2 DEF Solution
  <2>3. ASSUME NEW d \in 0 .. n, d # 0 PROVE f[d] = 10 * f[d-1]
    <3>1. f[d-1] \in Nat /\ d \in Nat /\ f[d] = G[<<f[d-1], d>>]
      BY <2>1, <2>2, <2>3
    <3> QED
      BY <1>1, <3>1
  <2>4. \A d \in 0 .. n : f[d] = IF d = 0 THEN 1 ELSE 10 * f[d-1]
    BY <2>2, <2>3
  <2> QED
    BY <2>2, <2>4
<1>4. Solves(T)
  BY <1>3
<1>5. Tens(n) = T
  BY DEF Tens
<1> HIDE DEF T
<1>6. \A d \in 0 .. n : T[d] = IF d = 0 THEN 1 ELSE 10 * T[d-1]
  BY <1>4
<1>7. \A d \in 0 .. n : T[d] = f[d] /\ T[d] \in Nat
  <2>1. \A d \in 1 .. n : T[d] = 10 * T[d-1]
    BY <1>6
  <2>2. \A d \in 1 .. n : T[d-1] \in Nat => T[d] = G[<<T[d-1], d>>]
    BY <1>1, <2>1
  <2>3. T[0] = 1
    BY <1>6
  <2> QED
    BY <1>2, <2>2, <2>3 DEF Solution
<1>8. \A d \in 0 .. n : d < n => d + 1 \in 0 .. n /\ d + 1 # 0 /\ (d + 1) - 1 = d
  OBVIOUS
<1>9. \A d \in 0 .. n : d < n => T[d+1] = 10 * T[d]
  BY <1>6, <1>8
<1>10. T[0] = 1
  BY <1>6
<1> QED
  BY <1>5, <1>7, <1>9, <1>10 DEF Powers

\* s are the digits of m, and as many as the powers of ten t say.
DigitsOf(s, m, t) ==
  /\ s \in Seq(Decimal) /\ Len(s) \in 1 .. m + 1 /\ Value(s) = m
  /\ t[Len(s)] > m
  /\ m > 0 => \A e \in 0 .. Len(s) - 1 : t[e] <= m

\* One digit, and one more.
LEMMA OneDigit ==
  ASSUME NEW m \in 0 .. 9, NEW n \in Nat, n >= 1, NEW t, Powers(t, n)
  PROVE  DigitsOf(<<m>>, m, t)
<1>1. <<m>> \in Seq(Decimal) /\ Len(<<m>>) = 1
  BY DEF Decimal
<1>2. Value(<<m>>) = m
  <2>1. PICK f \in [0 .. 1 -> Nat] :
          f[0] = 0 /\ (\A k \in 1 .. 1 : f[k] = 10 * f[k-1] + <<m>>[k]) /\ Value(<<m>>) = f[1]
    <3>1. <<m>> \in Seq(Nat)
      OBVIOUS
    <3> QED
      BY <1>1, <3>1, ValueBuilt
  <2>2. f[1] = 10 * f[0] + m
    BY <2>1
  <2> QED
    BY <2>1, <2>2
<1>3. t[0] = 1 /\ t[1] = 10
  BY DEF Powers
<1> QED
  BY <1>1, <1>2, <1>3 DEF DigitsOf

LEMMA OneMoreDigit ==
  ASSUME NEW m \in Nat, m > 9, NEW n \in Nat, m < n, NEW t, Powers(t, n),
         NEW s, DigitsOf(s, m \div 10, t)
  PROVE  DigitsOf(Append(s, m % 10), m, t)
<1> DEFINE q == m \div 10
           r == m % 10
           u == Append(s, r)
           l == Len(s)
<1>1. q \in Nat /\ r \in 0 .. 9 /\ m = 10 * q + r /\ q > 0 /\ q < m
  OBVIOUS
<1>2. /\ s \in Seq(Decimal) /\ l \in 1 .. q + 1 /\ Value(s) = q /\ t[l] > q
      /\ \A e \in 0 .. l - 1 : t[e] <= q
  BY <1>1 DEF DigitsOf
<1> HIDE DEF q
<1>3. u \in Seq(Decimal) /\ Len(u) = l + 1
  BY <1>1, <1>2, AppendProperties DEF Decimal
<1>4. Value(u) = m
  <2>1. s \in Seq(Nat)
    BY <1>2, DigitsAreInts
  <2> HIDE DEF r
  <2>2. Value(u) = 10 * Value(s) + r
    BY <1>1, <2>1, ValueAppend
  <2> QED
    BY <1>1, <1>2, <2>2
<1> HIDE DEF r, u, l
<1>5. l \in Nat /\ l < n /\ l + 1 \in 1 .. m + 1 /\ l \in 0 .. n
  BY <1>1, <1>2
<1>6. t[l+1] > m
  <2>1. t[l] \in Nat /\ t[l+1] = 10 * t[l]
    BY <1>5 DEF Powers
  <2> QED
    BY <1>1, <1>2, <2>1
<1>7. ASSUME NEW e \in 0 .. l PROVE t[e] <= m
  <2>1. CASE e = 0
    <3>1. t[0] = 1
      BY Zenon DEF Powers
    <3>2. m >= 1
      OBVIOUS
    <3> QED
      BY <2>1, <3>1, <3>2
  <2>2. CASE e # 0
    <3>1. e - 1 \in 0 .. l - 1 /\ (e - 1) + 1 = e /\ e - 1 \in 0 .. n /\ e - 1 < n
      BY <1>5, <2>2
    <3>2. t[e-1] \in Nat /\ t[e] = 10 * t[e-1]
      BY <3>1 DEF Powers
    <3>3. t[e-1] <= q
      BY <1>2, <3>1
    <3> QED
      BY <1>1, <3>2, <3>3
  <2> QED
    BY <2>1, <2>2
<1>8. DigitsOf(u, m, t)
  <2>1. Len(u) - 1 = l
    BY <1>3, <1>5
  <2> QED
    BY <1>3, <1>4, <1>5, <1>6, <1>7, <2>1 DEF DigitsOf
<1> QED
  BY <1>8 DEF u, r

\* sprintf writes the digits of a number.
LEMMA DigitsBuilt ==
  ASSUME NEW n \in Nat, NEW t, Powers(t, n + 1)
  PROVE  DigitsOf(Digits(n), n, t)
<1> DEFINE Step(f, m) == IF m < 10 THEN <<m>> ELSE Append(f[m \div 10], m % 10)
           Solves(f, k) == f = [m \in 0 .. k |-> Step(f, m)]
           Solved == {k \in Nat : \E f : Solves(f, k)}
<1>1. 0 \in Solved
  <2>1. Solves([m \in 0 .. 0 |-> <<0>>], 0)
    OBVIOUS
  <2> QED
    BY <2>1
<1>2. ASSUME NEW k \in Solved PROVE k + 1 \in Solved
  <2>1. k \in Nat /\ k + 1 \in Nat /\ \E f : Solves(f, k)
    <3> HIDE DEF Solves
    <3> QED
      OBVIOUS
  <2>2. PICK f : Solves(f, k)
    BY <2>1
  <2> DEFINE g == [m \in 0 .. k + 1 |-> IF m = k + 1 THEN Step(f, k + 1) ELSE f[m]]
  <2> HIDE DEF Solved
  <2>3. \A m \in 0 .. k : f[m] = Step(f, m)
    BY <2>2
  <2>4. /\ \A m \in 0 .. k : g[m] = f[m]
        /\ g[k+1] = Step(f, k + 1)
    BY <2>1
  <2> HIDE DEF g
  <2>5. \A m \in 0 .. k + 1 : m >= 10 => m \div 10 \in 0 .. k
    BY <2>1
  <2>6. ASSUME NEW m \in 0 .. k + 1 PROVE g[m] = Step(g, m)
    <3>1. Step(f, m) = Step(g, m)
      <4>1. m >= 10 => f[m \div 10] = g[m \div 10]
        BY <2>4, <2>5
      <4> QED
        BY <4>1
    <3>2. m = k + 1 \/ m \in 0 .. k
      BY <2>1
    <3> HIDE DEF Step
    <3> QED
      BY <2>3, <2>4, <3>1, <3>2
  <2>7. Solves(g, k + 1)
    <3>1. g = [m \in 0 .. k + 1 |-> g[m]]
      BY DEF g
    <3> HIDE DEF Step
    <3> QED
      BY <2>6, <3>1
  <2> HIDE DEF Solves
  <2> QED
    BY <2>1, <2>7 DEF Solved
<1>3. Solved = Nat
  <2>1. Solved \in SUBSET Nat
    OBVIOUS
  <2> HIDE DEF Solved
  <2> QED
    BY <1>1, <1>2, <2>1, SetInduction
<1>4. \E f : Solves(f, n)
  <2>1. n \in Solved
    <3> HIDE DEF Solved
    <3> QED
      BY <1>3
  <2> QED
    BY <2>1
<1> DEFINE D == CHOOSE f : Solves(f, n)
<1>5. Solves(D, n)
  BY <1>4
<1>6. Digits(n) = D[n]
  BY DEF Digits
<1> HIDE DEF D, Solved
<1>7. \A m \in 0 .. n : D[m] = Step(D, m)
  BY <1>5
<1> DEFINE Right == {k \in Nat : \A m \in 0 .. k : m <= n => DigitsOf(D[m], m, t)}
<1>8. ASSUME NEW m \in 0 .. n, m > 9 => DigitsOf(D[m \div 10], m \div 10, t)
      PROVE  DigitsOf(D[m], m, t)
  <2>1. CASE m <= 9
    <3>1. D[m] = <<m>>
      <4>1. m < 10
        BY <2>1
      <4>2. D[m] = Step(D, m)
        BY <1>7
      <4> QED
        BY <4>1, <4>2, Zenon
    <3>2. m \in 0 .. 9 /\ n + 1 \in Nat /\ n + 1 >= 1
      BY <2>1
    <3> QED
      BY <3>1, <3>2, OneDigit
  <2>2. CASE m > 9
    <3>1. D[m] = Append(D[m \div 10], m % 10)
      <4>1. ~(m < 10)
        BY <2>2
      <4>2. D[m] = Step(D, m)
        BY <1>7
      <4> QED
        BY <4>1, <4>2, Zenon
    <3>2. m \in Nat /\ n + 1 \in Nat /\ m < n + 1
      OBVIOUS
    <3>3. DigitsOf(D[m \div 10], m \div 10, t)
      BY <1>8, <2>2
    <3>4. DigitsOf(Append(D[m \div 10], m % 10), m, t)
      BY <2>2, <3>3, <3>2, OneMoreDigit
    <3> QED
      BY <3>1, <3>4
  <2> QED
    BY <2>1, <2>2
<1>9. 0 \in Right
  <2>1. DigitsOf(D[0], 0, t)
    BY <1>8
  <2> QED
    BY <2>1
<1>10. ASSUME NEW k \in Right PROVE k + 1 \in Right
  <2>1. k \in Nat /\ k + 1 \in Nat /\ \A m \in 0 .. k : m <= n => DigitsOf(D[m], m, t)
    OBVIOUS
  <2> HIDE DEF Right
  <2>2. ASSUME k + 1 <= n PROVE DigitsOf(D[k+1], k + 1, t)
    <3>1. k + 1 \in 0 .. n /\ (k + 1 > 9 => (k + 1) \div 10 \in 0 .. k /\ (k + 1) \div 10 <= n)
      BY <2>1, <2>2
    <3>2. k + 1 > 9 => DigitsOf(D[(k + 1) \div 10], (k + 1) \div 10, t)
      BY <2>1, <3>1
    <3> QED
      BY <1>8, <3>1, <3>2
  <2>3. \A m \in 0 .. k + 1 : m = k + 1 \/ m \in 0 .. k
    BY <2>1
  <2> QED
    BY <2>1, <2>2, <2>3 DEF Right
<1>11. Right = Nat
  <2>1. Right \in SUBSET Nat
    OBVIOUS
  <2> HIDE DEF Right
  <2> QED
    BY <1>9, <1>10, <2>1, SetInduction
<1>12. DigitsOf(D[n], n, t)
  <2>1. n \in Right
    <3> HIDE DEF Right
    <3> QED
      BY <1>11
  <2> QED
    BY <2>1
<1> QED
  BY <1>6, <1>12

\* NumDigits counts the digits that sprintf writes, of every int but the largest.
LEMMA CountDigits ==
  ASSUME NEW n \in Nat, n < INT_MAX
  PROVE  /\ Digits(n) \in Seq(Decimal) /\ Value(Digits(n)) = n
         /\ NumDigits(n) = Len(Digits(n)) /\ NumDigits(n) > 0
<1> DEFINE m == n + 1
           T == Tens(m)
           L == Len(Digits(n))
           Is(d) == T[d] >= m /\ \A e \in 0 .. d-1 : T[e] < m
<1>1. INT_MAX \in Nat \ {0} /\ m \in Nat /\ m > 0 /\ m <= INT_MAX
  BY NumbersAssumption
<1>2. Powers(T, m)
  BY <1>1, TensBuilt
<1>3. DigitsOf(Digits(n), n, T)
  BY <1>2, DigitsBuilt
<1> HIDE DEF T
<1>4. /\ Digits(n) \in Seq(Decimal) /\ Value(Digits(n)) = n
      /\ L \in 1 .. m /\ T[L] > n /\ (n > 0 => \A e \in 0 .. L - 1 : T[e] <= n)
  BY <1>3 DEF DigitsOf
<1> HIDE DEF L
<1>5. \A d \in 0 .. m : T[d] \in Nat
  BY <1>2 DEF Powers
<1>6. CASE n = 0
  <2>1. NumDigits(n) = 1 /\ L = 1
    BY <1>4, <1>6 DEF NumDigits
  <2> QED
    BY <1>4, <2>1 DEF L
<1>7. CASE n # 0
  <2>1. AsInt(m) = m
    <3>1. m % Width = m
      BY <1>1 DEF Width
    <3> HIDE DEF m
    <3> QED
      BY <1>1, <3>1 DEF AsInt
  <2>2. L \in 0 .. m /\ Is(L)
    <3>1. ASSUME NEW e \in 0 .. L - 1 PROVE T[e] < m
      <4>1. e \in 0 .. m
        BY <1>1, <1>4
      <4> QED
        BY <1>4, <1>5, <1>7, <4>1
    <3> QED
      BY <1>1, <1>4, <1>5, <3>1
  <2> DEFINE c == CHOOSE d \in 0 .. m : Is(d)
  <2>3. c \in 0 .. m /\ Is(c)
    BY <2>2
  <2>4. NumDigits(n) = c
    BY <1>1, <1>7, <2>1 DEF NumDigits, CeilLog10, T
  <2> HIDE DEF c, m
  <2>5. c = L
    <3>1. ~(c < L)
      <4>1. c < L => c \in 0 .. L - 1
        BY <1>1, <2>2, <2>3
      <4> QED
        BY <1>1, <1>5, <2>2, <2>3, <4>1
    <3>2. ~(L < c)
      <4>1. L < c => L \in 0 .. c - 1
        BY <1>1, <2>2, <2>3
      <4> QED
        BY <1>1, <1>5, <2>2, <2>3, <4>1
    <3> QED
      BY <1>1, <2>2, <2>3, <3>1, <3>2
  <2> QED
    BY <1>1, <1>4, <2>4, <2>5 DEF L
<1> QED
  BY <1>6, <1>7

-----------------------------------------------------------------------------
(* The text of an answer to /wc *)

LEMMA BehindPrefix ==
  ASSUME NEW p \in Seq(Int), NEW u \in Seq(Int), u # <<>>
  PROVE  SubSeq(p \o u, Len(p) + 1, Len(p \o u)) = u
<1>1. Len(p) \in Nat /\ Len(u) \in Nat \ {0} /\ Len(p \o u) = Len(p) + Len(u)
  OBVIOUS
<1>2. /\ Len(p) + 1 \in Len(p) + 1 .. Len(p) + Len(u)
      /\ Len(p) + Len(u) \in Len(p) + 1 .. Len(p) + Len(u)
      /\ (Len(p) + 1) - Len(p) = 1 /\ (Len(p) + Len(u)) - Len(p) = Len(u)
  BY <1>1
<1>3. SubSeq(p \o u, Len(p) + 1, Len(p) + Len(u))
        = SubSeq(u, (Len(p) + 1) - Len(p), (Len(p) + Len(u)) - Len(p))
  BY <1>2, SubSeqOfConcat2
<1>4. SubSeq(u, 1, Len(u)) = u
  BY SubSeqFull
<1> QED
  BY <1>1, <1>2, <1>3, <1>4

\* A number is found where its digits begin, if a blank or nothing is behind them.
LEMMA NumberAt ==
  ASSUME NEW p \in Seq(Int), NEW a \in Seq(Decimal), a # <<>>, NEW s \in Seq(Int),
         s # <<>> => s[1] = -1
  PROVE  strtol(p \o (a \o s), Len(p)) = Value(a)
<1> DEFINE t == p \o (a \o s)
           rest == SubSeq(t, Len(p) + 1, Len(t))
           blanks == {k \in DOMAIN rest : rest[k] = -1}
           n == Len(a)
<1>1. a \in Seq(Int) /\ n \in Nat \ {0} /\ Len(s) \in Nat /\ (s # <<>> => Len(s) > 0)
  <2>1. a \in Seq(Int)
    BY DigitsAreInts
  <2>2. n \in Nat /\ n # 0
    BY <2>1
  <2> QED
    BY <2>1, <2>2
<1>2. \A k \in 1 .. n : a[k] # -1
  <2>1. \A k \in 1 .. n : a[k] \in Decimal
    OBVIOUS
  <2>2. \A d \in Decimal : d # -1
    BY DEF Decimal
  <2> QED
    BY <2>1, <2>2
<1>3. /\ a \o s \in Seq(Int) /\ Len(a \o s) = n + Len(s) /\ a \o s # <<>>
      /\ \A k \in 1 .. n + Len(s) : (a \o s)[k] = IF k <= n THEN a[k] ELSE s[k - n]
  <2>1. /\ a \o s \in Seq(Int) /\ Len(a \o s) = n + Len(s)
        /\ \A k \in 1 .. n + Len(s) : (a \o s)[k] = IF k <= n THEN a[k] ELSE s[k - n]
    BY <1>1, ConcatProperties
  <2> QED
    BY <1>1, <2>1
<1>4. rest = a \o s
  BY <1>3, BehindPrefix
<1> HIDE DEF rest
<1>6. DOMAIN rest = 1 .. n + Len(s) /\ \A k \in 1 .. n : rest[k] # -1
  <2>1. \A k \in 1 .. n : k \in 1 .. n + Len(s) /\ k <= n
    BY <1>1
  <2>2. \A k \in 1 .. n : rest[k] = a[k]
    BY <1>3, <1>4, <2>1
  <2>3. DOMAIN rest = 1 .. n + Len(s)
    BY <1>3, <1>4
  <2> QED
    BY <1>2, <2>2, <2>3
\* No blank is skipped.
<1>5. strtol(t, Len(p)) = Value(IF blanks = {} THEN rest ELSE SubSeq(rest, 1, Min(blanks) - 1))
  <2> DEFINE begins == {k \in DOMAIN rest : rest[k] # -1}
             first  == Min(begins)
             number == SubSeq(rest, first, Len(rest))
  <2>1. 1 \in begins /\ \A k \in begins : k \in Nat /\ 1 <= k
    BY <1>1, <1>6
  <2>2. first = 1 /\ begins # {}
    <3> HIDE DEF begins
    <3>1. \A x \in begins : (\A y \in begins : x <= y) => x = 1
      BY <2>1
    <3> QED
      BY <2>1, <3>1 DEF Min
  <2>3. rest \in Seq(Int)
    BY <1>3, <1>4
  <2>4. SubSeq(rest, 1, Len(rest)) = rest
    BY <2>3, SubSeqFull
  <2>5. strtol(t, Len(p)) =
          LET number0 == IF begins = {} THEN <<>> ELSE number
              blanks0 == {k \in DOMAIN number0 : number0[k] = -1}
          IN Value(IF blanks0 = {} THEN number0 ELSE SubSeq(number0, 1, Min(blanks0) - 1))
    BY DEF strtol, rest
  <2> HIDE DEF t, begins, first
  <2>6. number = rest
    BY <2>2, <2>4
  <2> QED
    BY <2>2, <2>5, <2>6
<1> HIDE DEF t
<1>7. CASE s = <<>>
  <2>1. rest = a
    BY <1>1, <1>4, <1>7
  <2>2. blanks = {}
    BY <1>1, <1>6, <1>7
  <2> QED
    BY <1>5, <2>1, <2>2 DEF t
<1>8. CASE s # <<>>
  <2>1. rest[n+1] = -1 /\ n + 1 \in 1 .. n + Len(s)
    <3>1. n + 1 \in 1 .. n + Len(s) /\ ~(n + 1 <= n) /\ (n + 1) - n = 1
      BY <1>1, <1>8
    <3>2. rest[n+1] = s[1]
      BY <1>3, <1>4, <3>1
    <3> QED
      BY <1>8, <3>1, <3>2
  <2>2. n + 1 \in blanks /\ \A k \in blanks : k \in Nat /\ n + 1 <= k
    BY <1>1, <1>6, <2>1
  <2> HIDE DEF blanks
  <2>3. Min(blanks) = n + 1
    <3>1. \A x \in blanks : (\A y \in blanks : x <= y) => x = n + 1
      BY <1>1, <2>2
    <3> HIDE DEF n
    <3> QED
      BY <2>2, <3>1 DEF Min
  <2>4. SubSeq(rest, 1, n) = a
    <3>1. SubSeq(a \o s, 1, n) = SubSeq(a, 1, n)
      <4>1. 1 \in 1 .. Len(a) /\ n \in 1 .. Len(a)
        BY <1>1
      <4> QED
        BY <1>1, <4>1, SubSeqOfConcat1
    <3>2. SubSeq(a, 1, Len(a)) = a
      BY SubSeqFull
    <3> QED
      BY <1>4, <3>1, <3>2
  <2>5. Min(blanks) - 1 = n /\ blanks # {}
    BY <1>1, <2>2, <2>3
  <2> QED
    BY <1>5, <2>4, <2>5 DEF t
<1> QED
  BY <1>7, <1>8

\* What may be written is not negative and below the largest int.
LEMMA WritableRange ==
  ASSUME NEW n \in Nat, NumDigits(AsInt(AsUnsigned(n))) > 0
  PROVE  AsInt(AsUnsigned(n)) \in 0 .. INT_MAX - 1
<1> DEFINE s == AsInt(AsUnsigned(n))
<1>1. INT_MAX \in Nat \ {0} /\ Width \in Nat /\ Width = 2 * INT_MAX + 2 /\ Width > 0
  BY NumbersAssumption DEF Width
<1>2. s \in -INT_MAX - 1 .. INT_MAX
  <2> DEFINE u == (n % Width) % Width
  <2>1. u \in 0 .. Width - 1
    BY <1>1
  <2>2. s = IF u <= INT_MAX THEN u ELSE u - Width
    BY DEF AsInt, AsUnsigned
  <2> HIDE DEF u, s
  <2> QED
    BY <1>1, <2>1, <2>2
<1> HIDE DEF s
<1>3. NoNumber < 0
  BY <1>1 DEF NoNumber
<1>4. ASSUME s < 0 \/ s = INT_MAX PROVE FALSE
  <2>1. AsInt(s + 1) <= 0
    <3>1. CASE s = INT_MAX
      <4>1. (INT_MAX + 1) % Width = INT_MAX + 1
        BY <1>1
      <4> QED
        BY <1>1, <3>1, <4>1 DEF AsInt
    <3>2. CASE s = -1
      <4>1. 0 % Width = 0
        BY <1>1
      <4> QED
        BY <1>1, <3>2, <4>1 DEF AsInt
    <3>3. CASE s < -1
      <4>1. (s + 1) % Width = s + 1 + Width
        <5>1. s + 1 + Width \in 0 .. Width - 1 /\ s + 1 \in Int
          BY <1>1, <1>2, <3>3
        <5>2. (s + 1) % Width \in 0 .. Width - 1
          BY <1>1, <5>1
        <5> QED
          BY <1>1, <5>1, <5>2
      <4> QED
        BY <1>1, <1>2, <3>3, <4>1 DEF AsInt
    <3> QED
      BY <1>2, <1>4, <3>1, <3>2, <3>3
  <2>2. NumDigits(s) = NoNumber
    <3>1. s # 0
      BY <1>1, <1>4
    <3>2. ~(AsInt(s + 1) > 0)
      <4>1. (s + 1) % Width \in 0 .. Width - 1
        BY <1>1, <1>2
      <4>2. AsInt(s + 1) \in Int
        BY <1>1, <4>1 DEF AsInt
      <4> QED
        BY <2>1, <4>2
    <3> QED
      BY <2>1, <3>1, <3>2, Zenon DEF NumDigits
  <2>3. NumDigits(s) > 0
    BY DEF s
  <2> QED
    BY <1>1, <1>3, <2>2, <2>3 DEF NoNumber
<1>5. s \in 0 .. INT_MAX - 1
  BY <1>1, <1>2, <1>4
<1> QED
  BY <1>5 DEF s

\* The text t of three numbers and two blanks s, taken apart at the first and at the second.
InParts(t, a, s, b, c) ==
  t = (a \o s) \o (b \o (s \o c)) /\ t = <<>> \o (a \o (s \o (b \o (s \o c))))

LEMMA ConcatAny ==
  ASSUME NEW S, NEW x \in Seq(S), NEW y \in Seq(S), NEW z \in Seq(S)
  PROVE  (x \o y) \o z = x \o (y \o z) /\ x \o y \in Seq(S) /\ <<>> \o x = x
<1>1. (x \o y) \o z = x \o (y \o z)
  BY ConcatAssociative
<1>2. x \o y \in Seq(S)
  BY ConcatProperties
<1>3. <<>> \o x = x
  BY ConcatEmptySeq
<1> QED
  BY <1>1, <1>2, <1>3

LEMMA TextParts ==
  ASSUME NEW a \in Seq(Int), NEW b \in Seq(Int), NEW c \in Seq(Int), NEW s \in Seq(Int)
  PROVE  InParts((((a \o s) \o b) \o s) \o c, a, s, b, c)
<1> DEFINE Cat(x, y) == x \o y
<1>1. ASSUME NEW x \in Seq(Int), NEW y \in Seq(Int), NEW z \in Seq(Int)
      PROVE  Cat(Cat(x, y), z) = Cat(x, Cat(y, z)) /\ Cat(x, y) \in Seq(Int)
             /\ Cat(<<>>, x) = x
  <2> DEFINE S == Int
  <2> HIDE DEF S
  <2>1. x \in Seq(S) /\ y \in Seq(S) /\ z \in Seq(S)
    BY DEF S
  <2>2. (x \o y) \o z = x \o (y \o z) /\ x \o y \in Seq(S) /\ <<>> \o x = x
    BY <2>1, ConcatAny
  <2> QED
    BY <2>2 DEF S
<1> HIDE DEF Cat
<1>2. /\ Cat(a, s) \in Seq(Int) /\ Cat(s, c) \in Seq(Int) /\ Cat(b, Cat(s, c)) \in Seq(Int)
      /\ Cat(Cat(a, s), b) \in Seq(Int) /\ Cat(s, Cat(b, Cat(s, c))) \in Seq(Int)
      /\ Cat(a, Cat(s, Cat(b, Cat(s, c)))) \in Seq(Int)
  BY <1>1
<1>3. Cat(Cat(Cat(Cat(a, s), b), s), c) = Cat(Cat(a, s), Cat(b, Cat(s, c)))
  <2>1. Cat(Cat(Cat(Cat(a, s), b), s), c) = Cat(Cat(Cat(a, s), b), Cat(s, c))
    BY <1>1, <1>2
  <2>2. Cat(Cat(Cat(a, s), b), Cat(s, c)) = Cat(Cat(a, s), Cat(b, Cat(s, c)))
    BY <1>1, <1>2
  <2> QED
    BY <2>1, <2>2
<1>4. Cat(Cat(a, s), Cat(b, Cat(s, c))) = Cat(<<>>, Cat(a, Cat(s, Cat(b, Cat(s, c)))))
  BY <1>1, <1>2
<1> QED
  BY <1>3, <1>4, Zenon DEF Cat, InParts

\* PrintWc finds each of the three numbers that SendWcAnswer has written.
LEMMA TotalsFound ==
  ASSUME NEW t, \A f \in Fields : t[f] \in Nat, Writable(t), NEW f \in Fields
  PROVE  /\ strtol(WcText(t), Offset(WcText(t), f)) = Sent(t, f)
         /\ Sent(t, f) \in 0 .. INT_MAX - 1
<1> DEFINE a == Digits(Sent(t, 1))
           b == Digits(Sent(t, 2))
           c == Digits(Sent(t, 3))
           la == NumDigits(Sent(t, 1))
           lb == NumDigits(Sent(t, 2))
           text == WcText(t)
<1>1. ASSUME NEW g \in Fields
      PROVE  /\ Sent(t, g) \in 0 .. INT_MAX - 1 /\ Digits(Sent(t, g)) \in Seq(Decimal)
             /\ Value(Digits(Sent(t, g))) = Sent(t, g)
             /\ NumDigits(Sent(t, g)) = Len(Digits(Sent(t, g))) /\ Digits(Sent(t, g)) # <<>>
  <2>1. NumDigits(Sent(t, g)) > 0
    BY DEF Writable
  <2>2. Sent(t, g) \in 0 .. INT_MAX - 1
    BY <2>1, WritableRange DEF Sent
  <2>3. Sent(t, g) \in Nat /\ Sent(t, g) < INT_MAX
    BY <2>2, NumbersAssumption
  <2>4. /\ Digits(Sent(t, g)) \in Seq(Decimal) /\ Value(Digits(Sent(t, g))) = Sent(t, g)
        /\ NumDigits(Sent(t, g)) = Len(Digits(Sent(t, g)))
    BY <2>3, CountDigits
  <2>5. Digits(Sent(t, g)) # <<>>
    <3>1. Len(Digits(Sent(t, g))) > 0
      BY <2>1, <2>4
    <3> QED
      BY <3>1
  <2> QED
    BY <2>2, <2>4, <2>5
<1>2. /\ a \in Seq(Decimal) /\ Value(a) = Sent(t, 1) /\ la = Len(a) /\ a # <<>>
      /\ b \in Seq(Decimal) /\ Value(b) = Sent(t, 2) /\ lb = Len(b) /\ b # <<>>
      /\ c \in Seq(Decimal) /\ Value(c) = Sent(t, 3) /\ c # <<>>
  BY <1>1 DEF Fields
<1>3. text = (((a \o Blank) \o b) \o Blank) \o c
  BY DEF WcText
<1> HIDE DEF a, b, c, la, lb, text
<1>4. a \in Seq(Int) /\ b \in Seq(Int) /\ c \in Seq(Int)
  BY <1>2, DigitsAreInts
<1>5. Blank \in Seq(Int) /\ Len(Blank) = 1 /\ Blank[1] = -1
  BY DEF Blank
<1>6. ASSUME NEW s \in Seq(Int) PROVE Blank \o s \in Seq(Int) /\ (Blank \o s)[1] = -1
  <2>1. Len(s) \in Nat
    OBVIOUS
  <2>2. 1 \in 1 .. Len(Blank) + Len(s) /\ 1 <= Len(Blank)
    BY <1>5, <2>1
  <2> QED
    BY <1>5, <2>2, ConcatProperties
<1> HIDE DEF Blank
<1> DEFINE bc  == b \o (Blank \o c)
           ab  == a \o Blank
           abb == (ab \o b) \o Blank
<1>7. \A x, y \in Seq(Int) : x \o y \in Seq(Int) /\ Len(x \o y) = Len(x) + Len(y)
  OBVIOUS
<1>8. /\ Blank \o c \in Seq(Int) /\ bc \in Seq(Int) /\ ab \in Seq(Int) /\ ab \o b \in Seq(Int)
       /\ abb \in Seq(Int)
  BY <1>4, <1>5, <1>7, Zenon
<1>9. Len(ab) = la + 1 /\ Len(abb) = la + 1 + lb + 1
  <2>1. Len(ab) = Len(a) + Len(Blank)
    BY <1>4, <1>5, <1>7, Zenon
  <2>2. Len(ab \o b) = Len(ab) + Len(b)
    BY <1>4, <1>7, <1>8, Zenon
  <2>3. Len(abb) = Len(ab \o b) + Len(Blank)
    BY <1>5, <1>7, <1>8, Zenon
  <2>4. Len(a) \in Nat /\ Len(b) \in Nat
    BY <1>4
  <2> HIDE DEF ab, abb
  <2> QED
    BY <1>2, <1>5, <2>1, <2>2, <2>3, <2>4
<1>10. text = ab \o bc /\ text = <<>> \o (a \o (Blank \o bc))
  <2>1. InParts((((a \o Blank) \o b) \o Blank) \o c, a, Blank, b, c)
    BY <1>4, <1>5, TextParts
  <2>2. InParts(text, a, Blank, b, c)
    BY <1>3, <2>1
  <2> QED
    BY <2>2, Zenon DEF InParts
<1>11. strtol(text, 0) = Value(a)
  <2> HIDE DEF bc
  <2>1. <<>> \in Seq(Int) /\ Len(<<>>) = 0
    OBVIOUS
  <2>2. strtol(<<>> \o (a \o (Blank \o bc)), Len(<<>>)) = Value(a)
    BY <1>2, <1>6, <1>8, <2>1, NumberAt
  <2> QED
    BY <1>10, <2>1, <2>2
<1>12. strtol(text, la + 1) = Value(b)
  <2>1. strtol(ab \o (b \o (Blank \o c)), Len(ab)) = Value(b)
    BY <1>2, <1>4, <1>6, <1>8, NumberAt
  <2> QED
    BY <1>9, <1>10, <2>1 DEF bc
<1>13. strtol(text, la + 1 + lb + 1) = Value(c)
  <2>1. c \o <<>> = c
    BY <1>4, ConcatEmptySeq
  <2>2. strtol(abb \o (c \o <<>>), Len(abb)) = Value(c)
    <3> HIDE DEF abb
    <3>1. <<>> \in Seq(Int)
      OBVIOUS
    <3> QED
      BY <1>2, <1>8, <3>1, NumberAt
  <2> QED
    BY <1>3, <1>9, <2>1, <2>2
<1>14. /\ Offset(text, 1) = 0 /\ Offset(text, 2) = la + 1
       /\ Offset(text, 3) = la + 1 + lb + 1
  <2>1. NumDigits(strtol(text, 0)) = la
    BY <1>2, <1>11 DEF la
  <2>2. NumDigits(strtol(text, la + 1)) = lb
    BY <1>2, <1>12 DEF lb
  <2> QED
    BY <2>1, <2>2 DEF Offset
<1>15. strtol(text, Offset(text, f)) = Sent(t, f)
  <2>1. f = 1 \/ f = 2 \/ f = 3
    BY DEF Fields
  <2> QED
    BY <1>2, <1>11, <1>12, <1>13, <1>14, <2>1
<1> QED
  BY <1>1, <1>15 DEF text

-----------------------------------------------------------------------------
(* What keeps a worker from answering *)

CrashInv ==
  /\ found \in [Workers -> Answer]
  /\ \A w \in Workers : \A f \in Fields : total[w][f] \in Nat
  /\ OnlyLargeTotalsCrash
  /\ i \in Nat
  /\ pos = -1 => best = Start

LEMMA CrashInvInit == Init => CrashInv
<1> SUFFICES ASSUME Init PROVE CrashInv
  OBVIOUS
<1>1. found \in [Workers -> Answer]
  BY DEF Init, Answer
<1>2. \A w \in Workers : \A f \in Fields : total[w][f] \in Nat
  <2>1. CASE kind = "wc"
    BY <2>1, NumbersAssumption DEF Init
  <2>2. CASE kind # "wc"
    BY <2>2 DEF Init
  <2> QED
    BY <2>1, <2>2
<1> QED
  BY <1>1, <1>2 DEF CrashInv, Init, OnlyLargeTotalsCrash, Start

LEMMA CrashInvNext == CrashInv /\ [Next]_vars => CrashInv'
<1> SUFFICES ASSUME CrashInv, [Next]_vars PROVE CrashInv'
  OBVIOUS
<1> DEFINE Large == \E w \in Workers :
                      (\E f \in Fields : total[w][f] >= INT_MAX)
                        \/ (w \in Answering /\ (found[w][2] >= INT_MAX \/ found[w][1][2] = <<Start>>))
<1>1. found' = found /\ total' = total /\ kind' = kind /\ i' \in Nat
  BY DEF CrashInv, Next, PrintCount, PrintWc, Show, vars
<1>2. Large' = Large /\ (OnlyLargeTotalsCrash <=> (pc = "crashed" => Large))
  <2>1. Start' = Start /\ Answering' = Answering
    BY <1>1 DEF Start, Answering
  <2>2. Large' = Large
    BY <1>1, <2>1
  <2> QED
    BY <2>2 DEF OnlyLargeTotalsCrash
<1>3. ASSUME pc' = "crashed", pc # "crashed" PROVE Large
  <2>1. i \in Workers
    <3>1. i < N
      BY <1>3 DEF Next, PrintCount, PrintWc, Show, vars
    <3> QED
      BY <3>1, NumbersAssumption DEF CrashInv, Workers
  <2>2. CASE PrintCount
    <3>1. /\ found[i] # <<>>
          /\ ~Countable(found[i]) \/ OutOfBounds(NumberRead(found[i]))
      BY <1>3, <2>2 DEF PrintCount
    <3>2. i \in Answering /\ found[i] \in Paths \X Counts
      BY <2>1, <3>1, AnswerTypes DEF Answering, CrashInv
    <3>3. found[i][2] \in 1 .. INT_MAX /\ INT_MAX \in Nat
      BY <3>2, NumbersAssumption
    <3>4. CASE ~Countable(found[i])
      <4>1. ~(found[i][2] < INT_MAX)
        BY <3>3, <3>4, CountDigits DEF Countable
      <4> QED
        BY <2>1, <3>2, <3>3, <4>1
    \* No count equals what the loop begins with, but the largest int.
    <3>5. CASE OutOfBounds(NumberRead(found[i]))
      <4>1. NumberRead(found[i]) = Start
        BY <3>5 DEF OutOfBounds, CrashInv
      <4>2. CASE found[i][1][2] = <<>>
        <5>1. found[i][2] = Start
          BY <4>1, <4>2 DEF NumberRead
        <5>2. found[i][2] >= INT_MAX
          BY <3>3, <5>1 DEF Start
        <5> QED
          BY <2>1, <3>2, <5>2
      <4>3. CASE found[i][1][2] # <<>>
        <5>1. found[i][1] \in Nat \X Misread
          BY <3>2, NumbersAssumption
        <5>2. PICK n \in -INT_MAX-1 .. INT_MAX : found[i][1][2] = <<n>>
          BY <4>3, <5>1 DEF Misread
        <5>3. n = Start
          BY <4>1, <4>3, <5>2 DEF NumberRead
        <5> QED
          BY <2>1, <3>2, <5>2, <5>3
      <4> QED
        BY <4>2, <4>3
    <3> QED
      BY <3>1, <3>4, <3>5
  <2>3. CASE PrintWc
    <3>1. ~Writable(total[i])
      BY <1>3, <2>3 DEF PrintWc
    <3>2. PICK f \in Fields : ~(NumDigits(Sent(total[i], f)) > 0)
      BY <3>1 DEF Writable
    <3> DEFINE t == total[i][f]
    <3>3. t \in Nat /\ INT_MAX \in Nat \ {0}
      BY <2>1, NumbersAssumption DEF CrashInv
    <3>4. Sent(total[i], f) = AsInt(AsUnsigned(t))
      BY DEF Sent
    <3> HIDE DEF t
    <3>5. ~(t < INT_MAX)
      <4> SUFFICES ASSUME t < INT_MAX PROVE FALSE
        OBVIOUS
      <4>1. t % Width = t
        BY <3>3 DEF Width
      <4>2. AsInt(AsUnsigned(t)) = t
        BY <3>3, <4>1 DEF AsInt, AsUnsigned
      <4> QED
        BY <3>2, <3>3, <3>4, <4>2, CountDigits
    <3> QED
      BY <2>1, <3>3, <3>5 DEF t
  <2> QED
    BY <1>3, <2>2, <2>3 DEF Next, Show, vars
<1>4. OnlyLargeTotalsCrash'
  <2>1. OnlyLargeTotalsCrash' <=> (pc' = "crashed" => Large')
    BY DEF OnlyLargeTotalsCrash
  <2>2. pc = "crashed" => Large
    BY DEF CrashInv, OnlyLargeTotalsCrash
  <2> QED
    BY <1>2, <1>3, <2>1, <2>2
<1>5. (pos = -1 => best = Start)'
  <2>1. (pos' = pos /\ best' = best) \/ pos' = i
    BY DEF Next, PrintCount, PrintWc, Show, vars
  <2>2. Start' = Start
    BY <1>1 DEF Start
  <2> QED
    BY <2>1, <2>2 DEF CrashInv
<1> QED
  BY <1>1, <1>4, <1>5 DEF CrashInv

\* Neither a worker nor the console dies of an answer as long as everything counted is
\* below the largest int and no path has the start value of the loop behind its first
\* blank, for ints of any width.
THEOREM SmallTotalsAnswered == Spec => []OnlyLargeTotalsCrash
<1>1. CrashInv => OnlyLargeTotalsCrash
  BY DEF CrashInv
<1> QED
  BY <1>1, CrashInvInit, CrashInvNext, PTL DEF Spec

-----------------------------------------------------------------------------
(* The totals *)

\* What PartialSums is defined by; the sums grow.
LEMMA SumsBuilt ==
  ASSUME NEW f \in Fields, NEW all, \A w \in Workers : all[w][f] \in Nat
  PROVE  LET S == PartialSums(all, f)
         IN S[0] = 0 /\ \A w \in Workers : /\ S[w] \in Nat /\ S[w+1] = S[w] + all[w][f]
                                          /\ S[w+1] <= S[N]
<1>1. N \in Nat \ {0} /\ \A w \in Workers : w \in 0 .. N-1
  BY NumbersAssumption DEF Workers
<1> DEFINE G == [p \in Nat \X Nat |->
                   IF p[2] \in 1 .. N THEN p[1] + all[p[2] - 1][f] ELSE 0]
           Solves(s) == s = [w \in 0 .. N |-> IF w = 0 THEN 0 ELSE s[w-1] + all[w-1][f]]
           S == CHOOSE s : Solves(s)
<1>2. G \in [Nat \X Nat -> Nat]
  <2>1. \A p \in Nat \X Nat : p[2] \in 1 .. N => all[p[2] - 1][f] \in Nat
    <3>1. \A k \in 1 .. N : k - 1 \in Workers
      BY <1>1 DEF Workers
    <3> QED
      BY <3>1
  <2> QED
    BY <2>1
<1>3. \A x \in Nat : \A k \in 1 .. N : G[<<x, k>>] = x + all[k-1][f]
  BY <1>1
<1> HIDE DEF G
<1>4. PICK s : Solution(s, N, 0, G)
  BY <1>1, <1>2, Recursion
<1>5. \A k \in 1 .. N : k - 1 \in 0 .. N /\ s[k-1] \in Nat
  BY <1>1, <1>4 DEF Solution
<1>6. Solves(s)
  <2>1. \A k \in 1 .. N : s[k] = s[k-1] + all[k-1][f]
    BY <1>3, <1>4, <1>5 DEF Solution
  <2>2. \A k \in 0 .. N : k # 0 => k \in 1 .. N
    OBVIOUS
  <2>3. \A k \in 0 .. N : s[k] = IF k = 0 THEN 0 ELSE s[k-1] + all[k-1][f]
    BY <1>4, <2>1, <2>2 DEF Solution
  <2> QED
    BY <1>4, <2>3 DEF Solution
<1>7. Solves(S)
  BY <1>6
<1>8. S[0] = 0 /\ \A k \in 1 .. N : S[k] = S[k-1] + all[k-1][f]
  <2>1. \A k \in 0 .. N : S[k] = IF k = 0 THEN 0 ELSE S[k-1] + all[k-1][f]
    BY <1>7
  <2>2. 0 \in 0 .. N /\ \A k \in 1 .. N : k \in 0 .. N /\ k # 0
    BY <1>1
  <2> HIDE DEF S
  <2> QED
    BY <2>1, <2>2
<1>9. PartialSums(all, f) = S
  BY DEF PartialSums
<1> HIDE DEF S, Solves
<1>10. \A k \in 0 .. N : S[k] = s[k] /\ S[k] \in Nat
  <2>1. \A k \in 1 .. N : S[k-1] \in Nat => S[k] = G[<<S[k-1], k>>]
    BY <1>3, <1>8
  <2> QED
    BY <1>4, <1>8, <2>1 DEF Solution
<1>11. ASSUME NEW w \in Workers
       PROVE  w \in 0 .. N /\ w + 1 \in 1 .. N /\ S[w] \in Nat /\ S[w+1] = S[w] + all[w][f]
  <2>1. w + 1 \in 1 .. N /\ (w + 1) - 1 = w /\ w \in 0 .. N
    BY <1>1
  <2> QED
    BY <1>8, <1>10, <2>1
\* The sums grow.
<1> DEFINE Upto == {k \in Nat : k <= N => \A j \in 0 .. k : S[j] <= S[k]}
<1>12. 0 \in Upto
  BY <1>1, <1>8
<1>13. ASSUME NEW k \in Upto PROVE k + 1 \in Upto
  <2>1. k \in Nat /\ (k <= N => \A j \in 0 .. k : S[j] <= S[k])
    OBVIOUS
  <2> HIDE DEF Upto
  <2>2. ASSUME k + 1 <= N, NEW j \in 0 .. k + 1 PROVE S[j] <= S[k+1]
    <3>1. k \in Workers /\ k \in 0 .. N /\ k + 1 \in 0 .. N /\ j \in 0 .. N /\ k <= N
      BY <1>1, <2>1, <2>2 DEF Workers
    <3>2. S[k+1] = S[k] + all[k][f] /\ all[k][f] \in Nat /\ S[k] \in Nat /\ S[j] \in Nat
      BY <1>10, <1>11, <3>1
    <3>3. j = k + 1 \/ j \in 0 .. k
      BY <2>1
    <3>4. j \in 0 .. k => S[j] <= S[k]
      BY <2>1, <3>1
    <3> QED
      BY <3>2, <3>3, <3>4
  <2> QED
    BY <2>1, <2>2 DEF Upto
<1>14. Upto = Nat
  <2>1. Upto \in SUBSET Nat
    OBVIOUS
  <2> HIDE DEF Upto
  <2> QED
    BY <1>12, <1>13, <2>1, SetInduction
<1>15. \A j \in 0 .. N : S[j] <= S[N]
  <2>1. N \in Upto
    <3> HIDE DEF Upto
    <3> QED
      BY <1>1, <1>14
  <2> QED
    BY <1>1, <2>1
<1> HIDE DEF Upto
<1>16. \A w \in Workers : w + 1 \in 0 .. N
  BY <1>1
<1> QED
  BY <1>8, <1>9, <1>11, <1>15, <1>16

\* The sums of the workers looked at so far, where they are not too large.
TotalsInv ==
  kind = "wc" =>
    /\ \A w \in Workers : \A f \in Fields : total[w][f] \in Nat
    /\ i \in 0 .. N
    /\ pc \in {"read", "shown", "crashed"} /\ (pc = "shown" => i = N)
    /\ pc # "crashed" =>
         \A f \in Fields : SumOf(f) <= INT_MAX => sums[f] = PartialSums(total, f)[i]

LEMMA TotalsInvInit == Init => TotalsInv
<1> SUFFICES ASSUME Init, kind = "wc" PROVE TotalsInv
  BY DEF TotalsInv
<1>1. \A w \in Workers : \A f \in Fields : total[w][f] \in Nat
  BY NumbersAssumption DEF Init
<1>2. \A f \in Fields : PartialSums(total, f)[0] = 0
  BY <1>1, SumsBuilt
<1>3. N \in Nat
  BY NumbersAssumption
<1> QED
  BY <1>1, <1>2, <1>3 DEF Init, TotalsInv

LEMMA TotalsInvNext == TotalsInv /\ [Next]_vars => TotalsInv'
<1> SUFFICES ASSUME TotalsInv, [Next]_vars, kind' = "wc" PROVE TotalsInv'
  BY DEF TotalsInv
<1>1. kind = "wc" /\ total' = total
  BY DEF Next, PrintCount, PrintWc, Show, vars
<1>2. /\ \A w \in Workers : \A f \in Fields : total[w][f] \in Nat
      /\ i \in 0 .. N
      /\ pc \in {"read", "shown", "crashed"} /\ (pc = "shown" => i = N)
      /\ pc # "crashed" =>
           \A f \in Fields : SumOf(f) <= INT_MAX => sums[f] = PartialSums(total, f)[i]
  BY <1>1 DEF TotalsInv
<1>3. \A f : SumOf(f)' = SumOf(f)
  BY <1>1 DEF SumOf
<1>4. CASE PrintWc
  <2>1. i < N /\ i \in Workers /\ i' = i + 1 /\ i' \in 0 .. N
    BY <1>2, <1>4, NumbersAssumption DEF PrintWc, Workers
  <2>2. CASE ~Writable(total[i])
    <3>1. pc' = "crashed"
      BY <1>4, <2>2 DEF PrintWc
    <3> QED
      BY <1>1, <1>2, <2>1, <3>1 DEF TotalsInv
  <2>3. CASE Writable(total[i])
    <3>1. /\ pc = "read" /\ pc' = pc
          /\ sums' = [f \in Fields |-> AsUnsigned(sums[f] + strtol(WcText(total[i]),
                                                            Offset(WcText(total[i]), f)))]
      BY <1>4, <2>3 DEF PrintWc
    <3>2. ASSUME NEW f \in Fields, SumOf(f) <= INT_MAX
          PROVE  sums'[f] = PartialSums(total, f)[i+1]
      <4> DEFINE S == PartialSums(total, f)
                 x == total[i][f]
      <4>1. S[i] \in Nat /\ x \in Nat /\ S[i+1] = S[i] + x /\ S[i+1] <= INT_MAX
        <5>1. \A w \in Workers : total[w][f] \in Nat
          BY <1>2
        <5>2. S[i] \in Nat /\ S[i+1] = S[i] + total[i][f] /\ S[i+1] <= S[N]
          BY <2>1, <5>1, SumsBuilt
        <5>3. \A w \in Workers : S[w] \in Nat /\ S[w+1] = S[w] + total[w][f]
          BY <5>1, SumsBuilt
        <5>4. S[N] = SumOf(f)
          BY DEF SumOf
        <5>5. N - 1 \in Workers /\ (N - 1) + 1 = N
          BY NumbersAssumption DEF Workers
        <5>6. S[N] = S[N-1] + total[N-1][f] /\ S[N-1] \in Nat /\ total[N-1][f] \in Nat
          BY <5>1, <5>3, <5>5
        <5> HIDE DEF S
        <5> QED
          BY <2>1, <3>2, <5>1, <5>2, <5>4, <5>6, NumbersAssumption
      <4>2. sums[f] = S[i]
        BY <1>2, <3>1, <3>2
      <4>3. strtol(WcText(total[i]), Offset(WcText(total[i]), f)) = Sent(total[i], f)
        BY <1>2, <2>1, <2>3, TotalsFound
      <4> HIDE DEF S
      <4>4. Sent(total[i], f) = x
        <5>1. INT_MAX \in Nat /\ x <= INT_MAX
          BY <4>1, NumbersAssumption
        <5> HIDE DEF x
        <5>2. x % Width = x
          BY <4>1, <5>1 DEF Width
        <5>3. AsInt(AsUnsigned(x)) = x
          BY <5>1, <5>2 DEF AsInt, AsUnsigned
        <5> QED
          BY <5>3 DEF Sent, x
      <4>5. AsUnsigned(S[i] + x) = S[i] + x
        <5>1. INT_MAX \in Nat /\ S[i] + x \in Nat /\ S[i] + x <= INT_MAX
          <6> HIDE DEF x
          <6> QED
            BY <4>1, NumbersAssumption
        <5> DEFINE y == S[i] + x
        <5> HIDE DEF y
        <5>2. y % Width = y
          BY <5>1 DEF Width, y
        <5> QED
          BY <5>2 DEF AsUnsigned, y
      <4> HIDE DEF x
      <4> QED
        BY <3>1, <4>1, <4>2, <4>3, <4>4, <4>5 DEF S
    <3> QED
      BY <1>1, <1>2, <1>3, <2>1, <3>1, <3>2 DEF TotalsInv
  <2> QED
    BY <2>2, <2>3
<1>5. CASE ~PrintWc
  <2>1. /\ i' = i /\ sums' = sums /\ (pc' = pc \/ (pc = "read" /\ pc' = "shown" /\ i = N))
    BY <1>1, <1>5 DEF Next, PrintCount, Show, vars
  <2> QED
    BY <1>1, <1>2, <1>3, <2>1 DEF TotalsInv
<1> QED
  BY <1>4, <1>5

\* What /wc prints is the sum of what the workers have counted, wherever that is an
\* int, for any number of workers and ints of any width: PrintWc finds each number
\* where SendWcAnswer has put it.
THEOREM TotalsAreSums == Spec => []TotalsRight
<1>1. TotalsInv => TotalsRight
  <2> SUFFICES ASSUME TotalsInv, pc = "shown", kind = "wc", NEW f \in Fields, SumOf(f) <= INT_MAX
               PROVE  AsInt(sums[f]) = SumOf(f)
    BY DEF TotalsRight
  <2> DEFINE y == SumOf(f)
  <2>1. sums[f] = y
    BY DEF TotalsInv, SumOf
  <2>2. y \in Nat /\ INT_MAX \in Nat /\ y <= INT_MAX
    <3> DEFINE S == PartialSums(total, f)
    <3>1. \A w \in Workers : S[w] \in Nat /\ S[w+1] = S[w] + total[w][f] /\ total[w][f] \in Nat
      <4>1. \A w \in Workers : total[w][f] \in Nat
        BY DEF TotalsInv
      <4> QED
        BY <4>1, SumsBuilt
    <3>2. N - 1 \in Workers /\ (N - 1) + 1 = N
      BY NumbersAssumption DEF Workers
    <3>3. S[N] = S[N-1] + total[N-1][f] /\ S[N-1] \in Nat /\ total[N-1][f] \in Nat
      BY <3>1, <3>2
    <3> HIDE DEF S
    <3>4. S[N] \in Nat
      BY <3>3
    <3> QED
      BY <3>4, NumbersAssumption DEF S, SumOf
  <2> HIDE DEF y
  <2>3. y % Width = y
    BY <2>2 DEF Width
  <2>4. AsInt(y) = y
    BY <2>2, <2>3 DEF AsInt
  <2> QED
    BY <2>1, <2>4 DEF y
<1> QED
  BY <1>1, TotalsInvInit, TotalsInvNext, PTL DEF Spec

=============================================================================

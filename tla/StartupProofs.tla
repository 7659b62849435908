--------------------------- MODULE StartupProofs ---------------------------
(***************************************************************************)
(* Every directory is with one worker, a worker exits and a session ends   *)
(* early only for a reason, and no fifo is left behind after /exit, for    *)
(* any number of workers, files of paths, commands and failures.           *)
(***************************************************************************)
EXTENDS Startup, WellFoundedInduction, SequenceTheorems,
        FiniteSetTheorems, TLAPS

Fifos == {"to", "from"} \X Workers

\* The fifos of workers that are not made yet do not exist, those of workers that
\* are gone through at the end no longer do; in between the console may be at any.
FifoInv ==
  /\ fifos \subseteq Fifos /\ opened \subseteq Fifos
  /\ failures \in Nat /\ leftovers \in BOOLEAN
  /\ pc \in {"make", "fork", "to", "from", "distribute", "send", "unlink"} => idx \in Workers
  /\ idx \in Nat
  /\ pc = "check" => idx \in 0 .. N
  /\ revived \in Workers \cup {NOBODY}
  /\ reviving => pc \in {"make", "fork", "to", "from", "distribute", "gone"}
  /\ reviving /\ pc \in {"make", "fork", "to", "from"} => revived = idx
  /\ pc = "make" /\ reviving => fifos \cap Pair(idx) = {}
  /\ pc = "make" /\ ~reviving /\ ~leftovers =>
       \A i \in Workers : i >= idx => fifos \cap Pair(i) = {}
  /\ pc = "fork" /\ ~reviving /\ ~leftovers =>
       \A i \in Workers : i > idx => fifos \cap Pair(i) = {}
  /\ pc = "unlink" => \A i \in Workers : i < idx => (fifos \cup opened) \cap Pair(i) = {}
  /\ pc = "done" => fifos = {} /\ opened = {}

-----------------------------------------------------------------------------
(* The fifos *)

LEMMA FifoInit == Init => FifoInv
<1> SUFFICES ASSUME Init PROVE FifoInv
  OBVIOUS
<1>1. /\ pc = "make" /\ idx = 0 /\ revived = NOBODY /\ fifos = {} /\ opened = {}
      /\ failures = 0 /\ leftovers = FALSE
  BY DEF Init
<1>2. 0 \in Workers
  BY WorkersAssumption DEF Workers
<1> QED
  BY <1>1, <1>2 DEF FifoInv, reviving

\* A revival finds no fifo in its way, whatever earlier sessions have left, and main
\* finds none if they have left nothing.
LEMMA MakeKeeps ==
  ASSUME FifoInv, MakePipePair
  PROVE  FifoInv' /\ (pc' = "gone" => leftovers)
<1> USE DEF FifoInv
<1>1. pc = "make" /\ idx \in Workers /\ MakePair
  BY DEF MakePipePair
<1>2. /\ revived' = revived /\ (reviving' <=> reviving) /\ opened' = opened
      /\ failures' = failures /\ leftovers' = leftovers
  BY DEF MakePipePair, history, reviving
<1>3. CASE fifos \cap Pair(idx) # {}
  <2>1. pc' = "gone" /\ idx' = idx /\ fifos' \subseteq Fifos
    BY <1>1, <1>3 DEF MakePair, At, Pair, Fifos
  <2>2. leftovers /\ ~reviving
    BY <1>1, <1>3, WorkersAssumption DEF Workers
  <2> QED
    BY <1>2, <2>1, <2>2
<1>4. CASE fifos \cap Pair(idx) = {}
  <2>1. pc' = "fork" /\ idx' = idx /\ fifos' = fifos \cup Pair(idx)
    BY <1>1, <1>4 DEF MakePair, At, Pair
  <2>2. Pair(idx) \subseteq Fifos
    BY <1>1 DEF Pair, Fifos
  <2>3. \A i \in Workers : i > idx => Pair(i) \cap Pair(idx) = {}
    BY <1>1, WorkersAssumption DEF Pair, Workers
  <2>4. ~reviving /\ ~leftovers => \A i \in Workers : i > idx => fifos \cap Pair(i) = {}
    BY <1>1, WorkersAssumption DEF Workers
  <2>5. ~reviving /\ ~leftovers => \A i \in Workers : i > idx => fifos' \cap Pair(i) = {}
    BY <2>1, <2>3, <2>4
  <2> QED
    BY <1>1, <1>2, <2>1, <2>2, <2>5
<1> QED
  BY <1>3, <1>4

\* Fork goes to the next worker, or to the first open.
LEMMA ForkKeeps == ASSUME FifoInv, Fork PROVE FifoInv'
<1> USE DEF FifoInv
<1>1. /\ pc = "fork" /\ idx \in Workers /\ idx \in 0 .. N-1 /\ N \in Nat \ {0}
      /\ fifos' = fifos /\ opened' = opened /\ revived' = revived /\ (reviving' <=> reviving)
      /\ failures' = failures /\ leftovers' = leftovers
  BY WorkersAssumption DEF Fork, history, Workers, reviving
<1>2. CASE reviving
  BY <1>1, <1>2 DEF Fork, At
<1>3. CASE ~reviving /\ idx < N-1
  <2>1. pc' = "make" /\ idx' = idx + 1 /\ idx' \in Workers /\ idx' \in Nat
    BY <1>1, <1>3 DEF Fork, At, Workers
  <2>2. ~leftovers => \A i \in Workers : i >= idx' => fifos \cap Pair(i) = {}
    BY <1>1, <1>3, <2>1 DEF Workers
  <2> QED
    BY <1>1, <1>3, <2>1, <2>2
<1>4. CASE ~reviving /\ ~(idx < N-1)
  BY <1>1, <1>4 DEF Fork, At, Workers
<1> QED
  BY <1>2, <1>3, <1>4

LEMMA CheckKeeps == ASSUME FifoInv, CheckChild PROVE FifoInv'
<1> USE DEF FifoInv
<1>1. /\ pc = "check" /\ idx \in 0 .. N-1 /\ idx \in Workers /\ N \in Nat \ {0} /\ ~reviving
      /\ failures' = failures /\ leftovers' = leftovers
  BY WorkersAssumption DEF CheckChild, history, Workers
<1>2. CASE Alive(idx)
  BY <1>1, <1>2 DEF CheckChild, At, reviving
<1>3. CASE ~Alive(idx)
  <2>1. /\ pc' = "make" /\ idx' = idx /\ revived' = idx
        /\ fifos' = fifos \ Pair(idx) /\ opened' = opened \ Pair(idx)
    BY <1>1, <1>3 DEF CheckChild, At
  <2>2. reviving'
    BY <1>1, <2>1 DEF reviving, NOBODY
  <2> QED
    BY <1>1, <2>1, <2>2
<1> QED
  BY <1>2, <1>3

LEMMA DealKeeps == ASSUME FifoInv, DistributePaths \/ DistributePath PROVE FifoInv'
<1> USE DEF FifoInv
<1>1. /\ pc = "distribute" /\ idx \in 0 .. N-1 /\ idx \in Workers /\ N \in Nat \ {0}
      /\ fifos' = fifos /\ opened' = opened /\ failures' = failures /\ leftovers' = leftovers
      /\ 0 \in 0 .. N
  BY WorkersAssumption DEF DistributePaths, DistributePath, history, Workers
<1>2. \/ /\ revived' = revived
         /\ \/ pc' = "distribute" /\ idx' = idx + 1 /\ idx < N-1
            \/ pc' = "gone" /\ idx' = idx
            \/ pc' = "check" /\ idx' = 0 /\ ~reviving
      \/ revived' = NOBODY /\ reviving /\ pc' = "check" /\ idx' = revived + 1
  BY DEF DistributePaths, DistributePath, At
<1>3. reviving => revived \in 0 .. N-1 /\ revived + 1 \in 0 .. N
  BY <1>1 DEF reviving, Workers
<1>4. (reviving' => reviving /\ revived' = revived)
  BY <1>2 DEF reviving
<1>5. /\ idx < N-1 => idx + 1 \in Workers
      /\ idx + 1 \in Nat
  BY <1>1 DEF Workers
<1>6. /\ idx' \in Nat
      /\ pc' = "distribute" => idx' \in Workers
      /\ pc' = "check" => idx' \in 0 .. N
      /\ pc' \in {"distribute", "gone", "check"}
  BY <1>1, <1>2, <1>3, <1>5
<1>7. revived' \in Workers \cup {NOBODY} /\ (pc' = "check" => ~reviving')
  BY <1>2 DEF reviving
<1> QED
  BY <1>1, <1>4, <1>6, <1>7

\* When the last pair is removed nothing is left, of this session or an earlier one.
LEMMA UnlinkKeeps == ASSUME FifoInv, UnlinkExecutorPipe PROVE FifoInv'
<1> USE DEF FifoInv
<1>1. /\ pc = "unlink" /\ idx \in 0 .. N-1 /\ idx \in Workers /\ N \in Nat \ {0}
      /\ ~reviving /\ ~reviving' /\ revived' = revived
      /\ failures' = failures /\ leftovers' = leftovers
      /\ fifos' = fifos \ Pair(idx) /\ opened' = opened \ Pair(idx)
  BY WorkersAssumption DEF UnlinkExecutorPipe, UnlinkPair, history, Workers, reviving
<1>2. \A i \in Workers : i < idx + 1 => (fifos' \cup opened') \cap Pair(i) = {}
  <2> SUFFICES ASSUME NEW i \in Workers, i < idx + 1
               PROVE  (fifos' \cup opened') \cap Pair(i) = {}
    OBVIOUS
  <2>1. CASE i = idx
    BY <1>1, <2>1
  <2>2. CASE i # idx
    <3>1. i < idx
      BY <1>1, <2>2 DEF Workers
    <3> QED
      BY <1>1, <3>1
  <2> QED
    BY <2>1, <2>2
<1>3. CASE idx < N-1
  <2>1. pc' = "unlink" /\ idx' = idx + 1 /\ idx' \in Workers /\ idx' \in Nat
    BY <1>1, <1>3 DEF UnlinkExecutorPipe, At, Workers
  <2> QED
    BY <1>1, <1>2, <2>1
<1>4. CASE ~(idx < N-1)
  <2>1. pc' = "done" /\ idx' = 0
    BY <1>1, <1>4 DEF UnlinkExecutorPipe, At
  <2>2. \A i \in Workers : (fifos' \cup opened') \cap Pair(i) = {}
    BY <1>1, <1>2, <1>4 DEF Workers
  <2>3. \A fifo \in Fifos : \E i \in Workers : fifo \in Pair(i)
    BY DEF Fifos, Pair
  <2>4. fifos' = {} /\ opened' = {}
    BY <1>1, <2>2, <2>3
  <2> QED
    BY <1>1, <2>1, <2>4
<1> QED
  BY <1>3, <1>4

LEMMA NextSessionKeeps == ASSUME FifoInv, NextSession PROVE FifoInv'
<1> USE DEF FifoInv
<1>1. /\ pc \in {"gone", "done"} /\ pc' = "make" /\ idx' = 0 /\ revived' = NOBODY /\ ~reviving'
      /\ fifos' = fifos /\ opened' = {} /\ failures' = failures
      /\ leftovers' = (leftovers \/ pc = "gone")
  BY DEF NextSession, At, reviving
<1>2. 0 \in Workers
  BY WorkersAssumption DEF Workers
<1>3. ~leftovers' => fifos = {}
  BY <1>1
<1>4. leftovers' \in BOOLEAN
  BY <1>1
<1> QED
  BY <1>1, <1>2, <1>3, <1>4

LEMMA FifoStep == FifoInv /\ [Next]_vars => FifoInv'
<1> SUFFICES ASSUME FifoInv, [Next]_vars PROVE FifoInv'
  OBVIOUS
<1> USE DEF FifoInv
<1>1. N \in Nat \ {0} /\ 0 \in Workers
  BY WorkersAssumption DEF Workers
<1>2. CASE ForkFails \/ ConsoleKilled
  <2>1. /\ UNCHANGED <<revived, fifos, opened, leftovers>> /\ pc' = "gone" /\ idx' = idx
        /\ failures' = failures + 1 /\ reviving' = reviving
    BY <1>2 DEF ForkFails, ConsoleKilled, At, reviving
  <2> QED
    BY <2>1
<1>3. CASE OpenTo
  <2>1. /\ pc = "to" /\ pc' = "from" /\ idx' = idx
        /\ UNCHANGED <<revived, fifos, failures, leftovers>> /\ (reviving' <=> reviving)
        /\ opened' = opened \cup {<<"to", idx>>} /\ <<"to", idx>> \in Fifos
    BY <1>3 DEF OpenTo, At, history, Fifos, reviving
  <2> QED
    BY <2>1
<1>4. CASE OpenFrom
  <2>1. /\ pc = "from" /\ idx \in 0 .. N-1
        /\ UNCHANGED <<revived, fifos, failures, leftovers>> /\ (reviving' <=> reviving)
        /\ opened' = opened \cup {<<"from", idx>>} /\ <<"from", idx>> \in Fifos
    BY <1>4 DEF OpenFrom, history, Fifos, Workers, reviving
  <2>2. pc' \in {"distribute", "to"} /\ idx' \in Workers /\ idx' \in Nat
    BY <1>1, <1>4, <2>1 DEF OpenFrom, At, Workers
  <2>3. reviving' => pc' = "distribute"
    BY <1>4, <2>1 DEF OpenFrom, At
  <2> QED
    BY <2>1, <2>2, <2>3
<1>5. CASE Prompt \/ Command \/ Exit \/ WaitForChildren
  <2>1. /\ pc \in {"check", "prompt", "wait"} /\ idx' = 0 /\ ~reviving /\ ~reviving'
        /\ UNCHANGED <<revived, fifos, opened, failures, leftovers>>
    BY <1>5 DEF Prompt, Command, Exit, WaitForChildren, At, history, reviving
  <2>2. pc' \in {"send", "prompt", "unlink"}
    BY <1>5 DEF Prompt, Command, Exit, WaitForChildren, At
  <2>3. \A i \in Workers : ~(i < 0)
    BY <1>1 DEF Workers
  <2> QED
    BY <1>1, <2>1, <2>2, <2>3
<1>6. CASE SendToAll \/ GetAllAnswers
  <2>1. /\ pc \in {"send", "answers"} /\ ~reviving /\ ~reviving'
        /\ UNCHANGED <<revived, fifos, opened, failures, leftovers>>
    BY <1>6 DEF SendToAll, GetAllAnswers, history, reviving
  <2>2. \/ pc' \in {"wait", "answers", "check", "gone"} /\ idx' = 0
        \/ pc' = "send" /\ idx' = idx + 1 /\ pc = "send" /\ idx < N-1
    BY <1>6 DEF SendToAll, GetAllAnswers, Sent, At
  <2>3. idx' \in Nat /\ (pc' = "send" => idx' \in Workers) /\ (pc' = "check" => idx' \in 0 .. N)
    BY <1>1, <2>2 DEF Workers
  <2> QED
    BY <1>1, <2>1, <2>2, <2>3
<1>7. ASSUME NEW w \in Workers, WorkerStep(w) \/ WorkerKilled(w)
      PROVE  FifoInv'
  <2>1. /\ UNCHANGED <<pc, idx, revived, fifos, opened, leftovers>> /\ (reviving' <=> reviving)
        /\ failures' \in {failures, failures + 1}
    BY <1>7 DEF WorkerStep, OpenWorkerPipe, ReceiveDirs, ReceiveCommand, Leave, WorkerKilled,
                history, console, reviving
  <2> QED
    BY <2>1
<1>8. CASE UNCHANGED vars
  BY <1>8 DEF vars, history, console, reviving
<1> QED
  BY <1>2, <1>3, <1>4, <1>5, <1>6, <1>7, <1>8, MakeKeeps, ForkKeeps, CheckKeeps,
     DealKeeps, UnlinkKeeps, NextSessionKeeps DEF Next, ConsoleStep

-----------------------------------------------------------------------------
(* Induction.  The library's induction rules take a predicate as parameter,  *)
(* which the provers cannot instantiate; this one takes a set.               *)

LEMMA SetInduction ==
  ASSUME NEW T \in SUBSET Nat, 0 \in T, \A n \in T : n + 1 \in T
  PROVE  T = Nat
<1> DEFINE Rest == Nat \ T
           Less == {ss \in Nat \X Nat : ss[1] < ss[2]}
<1> SUFFICES ASSUME Rest # {} PROVE FALSE
  OBVIOUS
<1>1. IsWellFoundedOn(Less, Nat)
  BY NatLessThanWellFounded, Zenon DEF OpToRel
<1>2. \E x \in Rest : \A y \in Rest : ~(<<y, x>> \in Less)
  <2>1. Rest \subseteq Nat
    OBVIOUS
  <2> HIDE DEF Rest, Less
  <2> QED
    BY <1>1, <2>1, WFMin
<1>3. \A x, y \in Nat : y < x => <<y, x>> \in Less
  OBVIOUS
<1>4. PICK x \in Rest : \A y \in Rest : ~(y < x)
  <2>1. Rest \subseteq Nat
    OBVIOUS
  <2> HIDE DEF Rest, Less
  <2> QED
    BY <1>2, <1>3, <2>1
<1>5. x \in Nat /\ x # 0 /\ x - 1 \in Nat /\ x - 1 < x
  BY <1>4
<1>6. x - 1 \in T
  BY <1>4, <1>5
<1> QED
  BY <1>4, <1>5, <1>6

\* The first of the empty tokens exists.
LEMMA MinExists ==
  ASSUME NEW S \in SUBSET Nat, S # {}
  PROVE  Min(S) \in S /\ \A n \in S : Min(S) <= n
<1> DEFINE T == {n \in Nat : \A m \in S : m > n}
<1>1. SUFFICES \E x \in S : \A n \in S : x <= n
  BY DEF Min
<1>2. SUFFICES ASSUME \A x \in S : \E n \in S : n < x
               PROVE  FALSE
  BY <1>1
<1>3. 0 \in T
  BY <1>2
<1>4. ASSUME NEW n \in T PROVE n + 1 \in T
  BY <1>2, <1>4
<1>5. T = Nat
  <2> HIDE DEF T
  <2>1. T \subseteq Nat
    BY DEF T
  <2> QED
    BY <1>3, <1>4, <2>1, SetInduction
<1>6. PICK m \in S : TRUE
  OBVIOUS
<1>7. m \in T /\ m \in Nat
  <2> HIDE DEF T
  <2> QED
    BY <1>5
<1> QED
  BY <1>7

-----------------------------------------------------------------------------
(* The text of a load *)

Token == Nat \X {"whole", "left", "right", "NULL", "garbage"}

LEMMA TokensOfLine ==
  ASSUME lines \in Seq(LineKinds), NEW k \in 1 .. numPaths
  PROVE  /\ Tokens(k) \in Seq(Token)
         /\ \A i \in DOMAIN Tokens(k) : Tokens(k)[i] = NULL \/ Tokens(k)[i][1] = k
         /\ \A i \in DOMAIN Tokens(k) : Tokens(k)[i] # Garbage
         /\ NULL \in {Tokens(k)[i] : i \in DOMAIN Tokens(k)} <=> lines[k] \in {"trailing", "blank"}
         /\ Dir(k) \in {Tokens(k)[i] : i \in DOMAIN Tokens(k)} <=> lines[k] \in {"path", "trailing"}
         /\ lines[k] = "path" => Tokens(k) = <<Dir(k)>>
         /\ lines[k] = "spaced" => Tokens(k)[1] = <<k, "left">> /\ 1 \in DOMAIN Tokens(k)
         /\ lines[k] # "spaced" =>
              \A i \in DOMAIN Tokens(k) : Tokens(k)[i] = NULL \/ Tokens(k)[i] = Dir(k)
<1>1. lines[k] \in LineKinds /\ k \in Nat /\ k # 0
  BY DEF numPaths
<1> USE DEF Dir, NULL, Garbage, Token
<1>2. CASE lines[k] = "path"
  <2>1. Tokens(k) = <<Dir(k)>>
    BY <1>2 DEF Tokens
  <2> QED
    BY <1>1, <1>2, <2>1
<1>3. CASE lines[k] = "spaced"
  <2>1. Tokens(k) = << <<k, "left">>, <<k, "right">> >>
    BY <1>3 DEF Tokens
  <2> QED
    BY <1>1, <1>3, <2>1
<1>4. CASE lines[k] = "trailing"
  <2>1. Tokens(k) = <<Dir(k), NULL>>
    BY <1>4 DEF Tokens
  <2> QED
    BY <1>1, <1>4, <2>1
<1>5. CASE lines[k] = "blank"
  <2>1. Tokens(k) = <<NULL>>
    BY <1>5 DEF Tokens
  <2> QED
    BY <1>1, <1>5, <2>1
<1> QED
  BY <1>1, <1>2, <1>3, <1>4, <1>5 DEF LineKinds

\* The text behind line k, if text is what is before it.
Behind(ks, k, text) == IF k \in ks THEN text \o Tokens(k) ELSE text

\* The recursion Text is defined by has a solution; that it is the one chosen.
LEMMA TextBuilt ==
  ASSUME lines \in Seq(LineKinds), NEW ks
  PROVE  \E f : /\ f \in [0 .. numPaths -> Seq(Token)]
                /\ f[0] = <<>>
                /\ \A k \in 1 .. numPaths : f[k] = Behind(ks, k, f[k-1])
                /\ Text(ks) = f[numPaths]
<1> DEFINE Solves(f, n) == f = [k \in 0 .. n |-> IF k = 0 THEN <<>> ELSE Behind(ks, k, f[k-1])]
           Solved == {n \in Nat : n <= numPaths => \E f : Solves(f, n)}
<1>1. numPaths \in Nat
  BY DEF numPaths
<1>2. 0 \in Solved
  <2>1. Solves([k \in 0 .. 0 |-> <<>>], 0)
    OBVIOUS
  <2> QED
    BY <2>1
<1>3. ASSUME NEW n \in Solved PROVE n + 1 \in Solved
  <2> SUFFICES ASSUME n + 1 <= numPaths
               PROVE  \E f : Solves(f, n + 1)
    BY <1>1
  <2>1. PICK f : Solves(f, n)
    BY <1>1
  <2> DEFINE g == [k \in 0 .. n+1 |-> IF k = n+1 THEN Behind(ks, n+1, f[n]) ELSE f[k]]
  <2>2. \A k \in 0 .. n : g[k] = f[k]
    OBVIOUS
  <2>3. \A k \in 0 .. n+1 : g[k] = IF k = 0 THEN <<>> ELSE Behind(ks, k, g[k-1])
    <3> HIDE DEF Solved
    <3> SUFFICES ASSUME NEW k \in 0 .. n+1
                 PROVE  g[k] = IF k = 0 THEN <<>> ELSE Behind(ks, k, g[k-1])
      OBVIOUS
    <3>0. n \in Nat
      BY DEF Solved
    <3>1. CASE k = n+1
      BY <2>2, <3>0, <3>1
    <3>2. CASE k # n+1
      <4>1. k \in 0 .. n /\ (k # 0 => k-1 \in 0 .. n)
        BY <3>0, <3>2
      <4>2. f[k] = IF k = 0 THEN <<>> ELSE Behind(ks, k, f[k-1])
        BY <2>1, <4>1
      <4> HIDE DEF g
      <4> QED
        BY <2>2, <4>1, <4>2
    <3> QED
      BY <3>1, <3>2
  <2>4. Solves(g, n+1)
    BY <2>3
  <2> QED
    BY <2>4
<1>4. \E f : Solves(f, numPaths)
  <2>1. Solved = Nat
    <3>1. Solved \in SUBSET Nat
      OBVIOUS
    <3> HIDE DEF Solved
    <3> QED
      BY <1>2, <1>3, <3>1, SetInduction
  <2>2. numPaths \in Solved
    <3> HIDE DEF Solved
    <3> QED
      BY <1>1, <2>1
  <2> HIDE DEF Solves
  <2> QED
    BY <1>1, <2>2
<1> DEFINE F == CHOOSE f : Solves(f, numPaths)
<1>5. Solves(F, numPaths)
  BY <1>4
<1>6. Text(ks) = F[numPaths]
  BY DEF Text, Behind
<1> HIDE DEF F
<1>7. \A k \in 0 .. numPaths : F[k] = IF k = 0 THEN <<>> ELSE Behind(ks, k, F[k-1])
  BY <1>5
<1> DEFINE Typed == {n \in Nat : n <= numPaths => F[n] \in Seq(Token)}
<1>8. 0 \in Typed
  <2>1. 0 \in 0 .. numPaths
    BY <1>1
  <2>2. F[0] = <<>>
    BY <1>7, <2>1
  <2>3. <<>> \in Seq(Token)
    OBVIOUS
  <2>4. F[0] \in Seq(Token)
    BY <2>2, <2>3, Zenon
  <2> QED
    BY <2>4
<1>9. ASSUME NEW n \in Typed PROVE n + 1 \in Typed
  <2> SUFFICES ASSUME n + 1 <= numPaths
               PROVE  F[n+1] \in Seq(Token)
    BY <1>1
  <2>1. n + 1 \in 1 .. numPaths /\ n \in Nat /\ F[n] \in Seq(Token)
    BY <1>1
  <2>2. F[n+1] = Behind(ks, n+1, F[n])
    <3> HIDE DEF Typed
    <3>1. n+1 \in 0 .. numPaths /\ n+1 # 0 /\ (n+1) - 1 = n
      BY <2>1, <1>1
    <3> QED
      BY <1>7, <3>1
  <2>3. Tokens(n+1) \in Seq(Token)
    BY <2>1, TokensOfLine
  <2> QED
    BY <2>1, <2>2, <2>3 DEF Behind
<1>10. \A k \in 0 .. numPaths : F[k] \in Seq(Token)
  <2>1. Typed = Nat
    <3>1. Typed \in SUBSET Nat
      OBVIOUS
    <3> HIDE DEF Typed
    <3> QED
      BY <1>8, <1>9, <3>1, SetInduction
  <2> QED
    BY <1>1, <2>1
<1>11. F \in [0 .. numPaths -> Seq(Token)]
  BY <1>5, <1>10
<1>12. \A k \in 1 .. numPaths : F[k] = Behind(ks, k, F[k-1])
  BY <1>1, <1>7
<1>13. F[0] = <<>>
  BY <1>1, <1>7
<1> QED
  BY <1>6, <1>11, <1>12, <1>13

LEMMA Concatenated ==
  ASSUME NEW S, NEW s \in Seq(S), NEW t \in Seq(S)
  PROVE  /\ s \o t \in Seq(S)
         /\ \A i \in DOMAIN s : i \in DOMAIN (s \o t) /\ (s \o t)[i] = s[i]
         /\ \A j \in DOMAIN t : Len(s) + j \in DOMAIN (s \o t) /\ (s \o t)[Len(s) + j] = t[j]
         /\ \A i \in DOMAIN (s \o t) : i \in DOMAIN s \/ \E j \in DOMAIN t : i = Len(s) + j
<1>1. s \o t \in Seq(S) /\ Len(s \o t) = Len(s) + Len(t) /\ Len(s) \in Nat /\ Len(t) \in Nat
  OBVIOUS
<1>2. DOMAIN s = 1 .. Len(s) /\ DOMAIN t = 1 .. Len(t) /\ DOMAIN (s \o t) = 1 .. Len(s) + Len(t)
  BY <1>1
<1>3. ASSUME NEW i \in DOMAIN (s \o t), i \notin DOMAIN s
      PROVE  \E j \in DOMAIN t : i = Len(s) + j
  <2>1. i - Len(s) \in DOMAIN t /\ i = Len(s) + (i - Len(s))
    BY <1>1, <1>2, <1>3
  <2> QED
    BY <2>1
<1> QED
  BY <1>1, <1>2, <1>3

\* The text of a load has the tokens of its lines and no others, and none twice if
\* every line is one path.
LEMMA TextTokens ==
  ASSUME lines \in Seq(LineKinds), NEW ks \in SUBSET (1 .. numPaths)
  PROVE  /\ Text(ks) \in Seq(Token)
         /\ \A i \in DOMAIN Text(ks) :
              \E k \in ks : \E j \in DOMAIN Tokens(k) : Text(ks)[i] = Tokens(k)[j]
         /\ \A k \in ks : \A j \in DOMAIN Tokens(k) :
              \E i \in DOMAIN Text(ks) : Text(ks)[i] = Tokens(k)[j]
         /\ (\A k \in ks : lines[k] = "path") => IsInjective(Text(ks))
<1>1. PICK f : /\ f \in [0 .. numPaths -> Seq(Token)]
               /\ f[0] = <<>>
               /\ \A k \in 1 .. numPaths : f[k] = Behind(ks, k, f[k-1])
               /\ Text(ks) = f[numPaths]
  BY TextBuilt
<1>2. numPaths \in Nat
  BY DEF numPaths
<1> DEFINE From(n) == \A i \in DOMAIN f[n] :
                        \E k \in ks : k <= n /\ \E j \in DOMAIN Tokens(k) : f[n][i] = Tokens(k)[j]
           All(n) == \A k \in ks : k <= n => \A j \in DOMAIN Tokens(k) :
                        \E i \in DOMAIN f[n] : f[n][i] = Tokens(k)[j]
           Once(n) == (\A k \in ks : lines[k] = "path") =>
                         \A i, j \in DOMAIN f[n] : f[n][i] = f[n][j] => i = j
           Good == {n \in Nat : n <= numPaths => From(n) /\ All(n) /\ Once(n)}
<1>3. 0 \in Good
  <2>1. DOMAIN f[0] = {}
    BY <1>1
  <2> QED
    BY <2>1
<1>4. ASSUME NEW n \in Good PROVE n + 1 \in Good
  <2> SUFFICES ASSUME n + 1 <= numPaths
               PROVE  From(n+1) /\ All(n+1) /\ Once(n+1)
    BY <1>2
  <2>1. /\ n \in Nat /\ n + 1 \in 1 .. numPaths /\ n \in 0 .. numPaths
        /\ From(n) /\ All(n) /\ Once(n)
    <3> HIDE DEF From, All, Once
    <3> QED
      BY <1>2
  <2> HIDE DEF Good
  <2>0. n \in Nat /\ \A k \in ks : k \in Nat
    BY <2>1
  <2>2. f[n+1] = Behind(ks, n+1, f[n]) /\ f[n] \in Seq(Token)
    BY <1>1, <2>1
  <2>3. \A k \in ks : k <= n+1 => k <= n \/ k = n+1
    BY <2>0
  <2>4. \A k \in ks : k <= n => k <= n+1
    BY <2>0
  <2>5. CASE n+1 \notin ks
    <3>1. f[n+1] = f[n]
      BY <2>2, <2>5 DEF Behind
    <3>2. \A k \in ks : k <= n+1 <=> k <= n
      BY <2>3, <2>4, <2>5
    <3> QED
      BY <2>1, <3>1, <3>2
  <2>6. CASE n+1 \in ks
    <3> DEFINE s == f[n]
               t == Tokens(n+1)
    <3>1. t \in Seq(Token)
      BY <2>1, TokensOfLine
    <3>2. s \in Seq(Token) /\ f[n+1] = s \o t
      BY <2>2, <2>6 DEF Behind
    <3>3. /\ \A i \in DOMAIN s : i \in DOMAIN (s \o t) /\ (s \o t)[i] = s[i]
          /\ \A j \in DOMAIN t : Len(s) + j \in DOMAIN (s \o t) /\ (s \o t)[Len(s) + j] = t[j]
          /\ \A i \in DOMAIN (s \o t) : i \in DOMAIN s \/ \E j \in DOMAIN t : i = Len(s) + j
      <4> HIDE DEF s, t
      <4> QED
        BY <3>1, <3>2, Concatenated
    <3>4. From(n+1)
      <4> SUFFICES ASSUME NEW i \in DOMAIN (s \o t)
                   PROVE  \E k \in ks : k <= n+1 /\ \E j \in DOMAIN Tokens(k) : (s \o t)[i] = Tokens(k)[j]
        BY <3>2
      <4>1. CASE i \in DOMAIN s
        BY <2>1, <2>4, <3>3, <4>1
      <4>2. CASE \E j \in DOMAIN t : i = Len(s) + j
        <5>1. n+1 <= n+1
          BY <2>1
        <5> QED
          BY <2>6, <3>3, <4>2, <5>1
      <4> QED
        BY <3>3, <4>1, <4>2
    <3>5. All(n+1)
      <4> SUFFICES ASSUME NEW k \in ks, k <= n+1, NEW j \in DOMAIN Tokens(k)
                   PROVE  \E i \in DOMAIN (s \o t) : (s \o t)[i] = Tokens(k)[j]
        BY <3>2
      <4>1. CASE k <= n
        <5>1. PICK i \in DOMAIN s : s[i] = Tokens(k)[j]
          BY <2>1, <4>1
        <5> QED
          BY <3>3, <5>1
      <4>2. CASE k = n+1
        BY <3>3, <4>2
      <4> QED
        BY <2>3, <4>1, <4>2
    <3>6. Once(n+1)
      <4> SUFFICES ASSUME \A k \in ks : lines[k] = "path",
                          NEW i \in DOMAIN (s \o t), NEW j \in DOMAIN (s \o t),
                          (s \o t)[i] = (s \o t)[j]
                   PROVE  i = j
        BY <3>2
      <4>1. t = <<Dir(n+1)>>
        BY <2>1, <2>6, TokensOfLine
      <4>2. DOMAIN t = {1} /\ t[1] = Dir(n+1)
        BY <4>1
      <4>3. \A h \in DOMAIN s : s[h] # Dir(n+1)
        <5> SUFFICES ASSUME NEW h \in DOMAIN s PROVE s[h] # Dir(n+1)
          OBVIOUS
        <5>1. PICK k \in ks : k <= n /\ \E m \in DOMAIN Tokens(k) : s[h] = Tokens(k)[m]
          BY <2>1
        <5>2. Tokens(k) = <<Dir(k)>>
          BY <5>1, TokensOfLine
        <5>3. s[h] = Dir(k) /\ k # n+1
          BY <2>1, <5>1, <5>2
        <5> QED
          BY <5>3 DEF Dir
      <4> HIDE DEF s, t
      <4>4. \A m \in DOMAIN (s \o t) : m \in DOMAIN s \/ m = Len(s) + 1
        BY <3>3, <4>2
      <4>5. (s \o t)[Len(s) + 1] = Dir(n+1)
        BY <3>3, <4>2
      <4>6. \A m \in DOMAIN s : (s \o t)[m] = s[m] /\ s[m] # Dir(n+1)
        BY <3>3, <4>3
      <4>7. \A m, h \in DOMAIN s : s[m] = s[h] => m = h
        BY <2>1 DEF s
      <4> QED
        BY <4>4, <4>5, <4>6, <4>7
    <3> QED
      BY <3>4, <3>5, <3>6
  <2> QED
    BY <2>5, <2>6
<1>5. From(numPaths) /\ All(numPaths) /\ Once(numPaths)
  <2>1. Good = Nat
    <3>1. Good \in SUBSET Nat
      OBVIOUS
    <3> HIDE DEF Good
    <3> QED
      BY <1>3, <1>4, <3>1, SetInduction
  <2>2. numPaths \in Good
    <3> HIDE DEF Good
    <3> QED
      BY <1>2, <2>1
  <2> QED
    BY <1>2, <2>2
<1>6. Text(ks) \in Seq(Token)
  BY <1>1, <1>2
<1>7. \A k \in ks : k <= numPaths
  BY <1>2
<1> HIDE DEF Good
<1> QED
  BY <1>1, <1>5, <1>6, <1>7 DEF IsInjective

-----------------------------------------------------------------------------
(* The loads *)

\* What a worker can make of a load, whatever its lines are.
LEMMA DirsOfLoad ==
  ASSUME lines \in Seq(LineKinds), NEW ks \in SUBSET (1 .. numPaths),
         NEW dirs \in DivideDirs(<<"load", ks>>)
  PROVE  /\ \A i \in DOMAIN dirs : dirs[i] # Garbage => dirs[i][1] \in ks
         /\ CanOpen(dirs) /\ (\A k \in ks : lines[k] \notin {"trailing", "blank"}) =>
              \A k \in ks : \E i \in DOMAIN dirs : dirs[i] = Dir(k)
         /\ ~CanOpen(dirs) => \/ \E k \in ks : lines[k] = "spaced"
                              \/ numPaths \in ks /\ ~terminated
         /\ WellFormed => dirs = Text(ks)
<1> DEFINE text  == Text(ks)
           empty == {i \in DOMAIN text : text[i] = NULL}
<1>1. /\ text \in Seq(Token)
      /\ \A i \in DOMAIN text : \E k \in ks : \E j \in DOMAIN Tokens(k) : text[i] = Tokens(k)[j]
      /\ \A k \in ks : \A j \in DOMAIN Tokens(k) : \E i \in DOMAIN text : text[i] = Tokens(k)[j]
  BY TextTokens
<1>2. \/ empty # {} /\ dirs = SubSeq(text, 1, Min(empty) - 1)
      \/ empty = {} /\ dirs = text
      \/ empty = {} /\ dirs = Append(text, Garbage) /\ numPaths \in ks /\ ~terminated
  BY DEF DivideDirs
<1> HIDE DEF text
<1>3. \A i \in DOMAIN text : text[i] # Garbage /\ (text[i] # NULL => text[i][1] \in ks)
  <2> SUFFICES ASSUME NEW i \in DOMAIN text
               PROVE  text[i] # Garbage /\ (text[i] # NULL => text[i][1] \in ks)
    OBVIOUS
  <2>1. PICK k \in ks : \E j \in DOMAIN Tokens(k) : text[i] = Tokens(k)[j]
    BY <1>1
  <2> QED
    BY <2>1, TokensOfLine
<1>4. (\A k \in ks : lines[k] \notin {"trailing", "blank"}) => empty = {}
  <2> SUFFICES ASSUME \A k \in ks : lines[k] \notin {"trailing", "blank"}, NEW i \in empty
               PROVE  FALSE
    OBVIOUS
  <2>1. PICK k \in ks : \E j \in DOMAIN Tokens(k) : NULL = Tokens(k)[j]
    BY <1>1
  <2> QED
    BY <2>1, TokensOfLine
<1>5. ASSUME empty = {}
      PROVE  /\ \A i \in DOMAIN text : i \in DOMAIN dirs /\ dirs[i] = text[i]
             /\ \A i \in DOMAIN dirs : dirs[i] = Garbage \/ (i \in DOMAIN text /\ dirs[i] = text[i])
  <2>1. CASE dirs = text
    BY <2>1
  <2>2. CASE dirs = Append(text, Garbage)
    <3>1. DOMAIN text = 1 .. Len(text) /\ Len(text) \in Nat
      BY <1>1
    <3>2. Garbage \in Token
      BY DEF Garbage, Token
    <3>3. /\ DOMAIN dirs = 1 .. Len(text) + 1 /\ dirs[Len(text) + 1] = Garbage
          /\ \A i \in 1 .. Len(text) : dirs[i] = text[i]
      BY <1>1, <2>2, <3>2
    <3> QED
      BY <3>1, <3>3
  <2> HIDE DEF empty
  <2> QED
    BY <1>2, <1>5, <2>1, <2>2
<1>6. \A i \in DOMAIN dirs : \/ dirs[i] = Garbage /\ numPaths \in ks /\ ~terminated
                             \/ i \in DOMAIN text /\ dirs[i] = text[i] /\ text[i] # NULL
  <2>1. CASE empty # {}
    <3>1. empty \subseteq Nat /\ DOMAIN text = 1 .. Len(text) /\ Len(text) \in Nat
      BY <1>1
    <3>2. Min(empty) \in empty /\ \A n \in empty : Min(empty) <= n
      <4> HIDE DEF empty
      <4> QED
        BY <2>1, <3>1, MinExists
    <3>3. Min(empty) \in 1 .. Len(text)
      BY <3>1, <3>2
    <3>4. \A i \in DOMAIN dirs : i \in DOMAIN text /\ i < Min(empty) /\ dirs[i] = text[i]
      <4> DEFINE m == Min(empty)
      <4>1. m \in 1 .. Len(text) /\ dirs = SubSeq(text, 1, m - 1)
        BY <1>2, <2>1, <3>3
      <4> HIDE DEF empty, m
      <4>2. Len(dirs) = m - 1 /\ DOMAIN dirs = 1 .. m - 1 /\ \A i \in 1 .. m - 1 : dirs[i] = text[i]
        BY <1>1, <3>1, <4>1
      <4>3. \A i \in 1 .. m - 1 : i \in 1 .. Len(text) /\ i < m
        BY <3>1, <4>1
      <4> QED
        BY <3>1, <4>2, <4>3 DEF m
    <3>5. \A i \in DOMAIN dirs : i \notin empty
      <4> HIDE DEF empty
      <4>1. Min(empty) \in Nat
        BY <3>1, <3>2
      <4> QED
        BY <3>1, <3>2, <3>4, <4>1
    <3> QED
      BY <3>4, <3>5
  <2>2. CASE empty = {}
    <3>1. (\E i \in DOMAIN dirs : dirs[i] = Garbage) => numPaths \in ks /\ ~terminated
      BY <1>2, <1>3, <2>2
    <3> QED
      BY <1>3, <1>5, <2>2, <3>1
  <2> QED
    BY <2>1, <2>2
<1>7. ASSUME CanOpen(dirs), \A k \in ks : lines[k] \notin {"trailing", "blank"}, NEW k \in ks
      PROVE  \E i \in DOMAIN dirs : dirs[i] = Dir(k)
  <2>1. \A j \in DOMAIN Tokens(k) : \E i \in DOMAIN dirs : dirs[i] = Tokens(k)[j]
    BY <1>1, <1>4, <1>5, <1>7
  <2>2. lines[k] \in {"path", "spaced"}
    BY <1>7 DEF LineKinds, numPaths
  <2>3. CASE lines[k] = "path"
    <3>1. Tokens(k) = <<Dir(k)>>
      BY <2>3, TokensOfLine
    <3>2. 1 \in DOMAIN Tokens(k) /\ Tokens(k)[1] = Dir(k)
      BY <3>1
    <3> QED
      BY <2>1, <3>2
  <2>4. CASE lines[k] = "spaced"
    <3>1. 1 \in DOMAIN Tokens(k) /\ Tokens(k)[1] = <<k, "left">>
      BY <2>4, TokensOfLine
    <3>2. PICK i \in DOMAIN dirs : dirs[i] = <<k, "left">>
      BY <2>1, <3>1
    <3> QED
      BY <1>7, <3>2 DEF CanOpen, Dir
  <2> QED
    BY <2>2, <2>3, <2>4
<1>8. WellFormed => dirs = text
  <2>1. WellFormed => terminated /\ \A k \in ks : lines[k] \notin {"trailing", "blank"}
    BY DEF WellFormed
  <2> QED
    BY <1>2, <1>4, <2>1
<1>9. \A i \in DOMAIN dirs : dirs[i] # Garbage => dirs[i][1] \in ks
  BY <1>3, <1>6
<1>10. ASSUME ~(\E k \in ks : lines[k] = "spaced"), ~(numPaths \in ks /\ ~terminated)
       PROVE  CanOpen(dirs)
  <2> SUFFICES ASSUME NEW i \in DOMAIN dirs
               PROVE  \E k \in 1 .. numPaths : dirs[i] = Dir(k)
    BY DEF CanOpen
  <2>1. i \in DOMAIN text /\ dirs[i] = text[i] /\ text[i] # NULL
    BY <1>6, <1>10
  <2>2. PICK k \in ks : \E j \in DOMAIN Tokens(k) : text[i] = Tokens(k)[j]
    BY <1>1, <2>1
  <2>3. lines[k] # "spaced" /\ k \in 1 .. numPaths
    BY <1>10
  <2> QED
    BY <2>1, <2>2, <2>3, TokensOfLine
<1> QED
  BY <1>7, <1>8, <1>9, <1>10 DEF text

\* The shares do not overlap: each ends before the next begins.
LEMMA SharesDisjoint ==
  ASSUME lines \in Seq(LineKinds), NEW v \in Workers, NEW w \in Workers,
         NEW k \in Share(v), k \in Share(w)
  PROVE  v = w
<1>1. numPaths \in Nat /\ N \in Nat \ {0} /\ v \in Nat /\ w \in Nat /\ k \in Nat
  BY WorkersAssumption DEF numPaths, Workers, Share
<1>2. load_size \in Nat
  BY <1>1 DEF load_size
<1>3. \A a, b \in Nat : a < b => (a + 1) * load_size <= b * load_size
  <2> SUFFICES ASSUME NEW a \in Nat, NEW b \in Nat, a < b
               PROVE  (a + 1) * load_size <= b * load_size
    OBVIOUS
  <2>1. b - (a + 1) \in Nat
    OBVIOUS
  <2>2. (b - (a + 1)) * load_size \in Nat
    BY <1>2, <2>1
  <2>3. b * load_size = (a + 1) * load_size + (b - (a + 1)) * load_size
    BY <1>2
  <2>4. (a + 1) * load_size \in Nat /\ b * load_size \in Nat
    BY <1>2
  <2> HIDE DEF load_size
  <2> QED
    BY <2>2, <2>3, <2>4
<1>4. /\ v * load_size < k /\ k <= (v + 1) * load_size
      /\ w * load_size < k /\ k <= (w + 1) * load_size
  BY DEF Share
<1>5. /\ v * load_size \in Nat /\ (v + 1) * load_size \in Nat
      /\ w * load_size \in Nat /\ (w + 1) * load_size \in Nat
  BY <1>1, <1>2
<1>6. ~(v < w)
  <2> SUFFICES ASSUME v < w PROVE FALSE
    OBVIOUS
  <2>1. (v + 1) * load_size <= w * load_size
    BY <1>1, <1>3
  <2> QED
    BY <1>1, <1>4, <1>5, <2>1
<1>7. ~(w < v)
  <2> SUFFICES ASSUME w < v PROVE FALSE
    OBVIOUS
  <2>1. (w + 1) * load_size <= v * load_size
    BY <1>1, <1>3
  <2> QED
    BY <1>1, <1>4, <1>5, <2>1
<1> QED
  BY <1>1, <1>6, <1>7

\* The shares of all workers are the whole file: load_size is rounded up.
LEMMA SharesCover ==
  ASSUME lines \in Seq(LineKinds), NEW k \in 1 .. numPaths
  PROVE  \E w \in Workers : k \in Share(w)
<1>1. numPaths \in Nat /\ N \in Nat \ {0} /\ k \in Nat /\ 1 <= k /\ k <= numPaths
  BY WorkersAssumption DEF numPaths
<1> DEFINE size == load_size
           w    == (k - 1) \div size
<1>2. size \in Nat /\ N * size >= numPaths /\ N * size \in Nat
  <2>1. \A m \in Nat, n \in Nat \ {0} :
          /\ (m + n - 1) \div n \in Nat
          /\ n * ((m + n - 1) \div n) >= m
          /\ n * ((m + n - 1) \div n) \in Nat
    OBVIOUS
  <2> QED
    BY <1>1, <2>1 DEF load_size
<1> HIDE DEF size
<1>3. size # 0
  BY <1>1, <1>2
<1>4. w \in Nat /\ size * w <= k - 1 /\ k - 1 < size * w + size /\ size * w \in Nat
  <2>1. \A m \in Nat, n \in Nat \ {0} :
          /\ m \div n \in Nat
          /\ n * (m \div n) <= m
          /\ m < n * (m \div n) + n
          /\ n * (m \div n) \in Nat
    OBVIOUS
  <2>2. k - 1 \in Nat /\ size \in Nat \ {0}
    BY <1>1, <1>2, <1>3
  <2> QED
    BY <2>1, <2>2
<1> HIDE DEF w
<1>5. w * size < k /\ k <= (w + 1) * size
  <2>1. w * size = size * w /\ (w + 1) * size = size * w + size
    BY <1>2, <1>4
  <2> QED
    BY <1>1, <1>2, <1>4, <2>1
<1>6. w < N
  <2> SUFFICES ASSUME w >= N PROVE FALSE
    BY <1>1, <1>4
  <2>1. (w - N) \in Nat
    BY <1>1, <1>4
  <2>2. (w - N) * size \in Nat
    BY <1>2, <2>1
  <2>3. size * w = N * size + (w - N) * size
    BY <1>1, <1>2, <1>4
  <2> QED
    BY <1>1, <1>2, <1>4, <2>2, <2>3
<1> QED
  BY <1>1, <1>4, <1>5, <1>6 DEF Share, Workers, size

\* Behind an empty share there are only empty ones.
LEMMA EmptyShares ==
  ASSUME lines \in Seq(LineKinds), NEW v \in Workers, NEW w \in Workers, v <= w, Share(v) = {}
  PROVE  Share(w) = {}
<1>1. numPaths \in Nat /\ v \in Nat /\ w \in Nat /\ N \in Nat \ {0}
  BY WorkersAssumption DEF numPaths, Workers
<1>2. load_size \in Nat
  BY <1>1 DEF load_size
<1>3. v * load_size \in Nat /\ w * load_size \in Nat /\ v * load_size <= w * load_size
  <2>1. w - v \in Nat
    BY <1>1
  <2>2. (w - v) * load_size \in Nat /\ v * load_size \in Nat
    BY <1>1, <1>2, <2>1
  <2>3. w * load_size = v * load_size + (w - v) * load_size
    BY <1>1, <1>2
  <2> QED
    BY <2>2, <2>3
<1>4. (v + 1) * load_size = v * load_size + load_size /\ (w + 1) * load_size = w * load_size + load_size
  BY <1>1, <1>2
<1>5. CASE load_size = 0
  <2>1. \A k \in 1 .. numPaths : ~(w * load_size < k /\ k <= (w + 1) * load_size)
    BY <1>3, <1>4, <1>5
  <2> QED
    BY <2>1 DEF Share
<1>6. CASE load_size # 0
  <2>1. ~(v * load_size + 1 \in 1 .. numPaths)
    <3> DEFINE k == v * load_size + 1
    <3>1. v * load_size < k /\ k <= (v + 1) * load_size
      BY <1>2, <1>3, <1>4, <1>6
    <3> QED
      BY <3>1 DEF Share
  <2>2. \A k \in 1 .. numPaths : ~(w * load_size < k)
    BY <1>1, <1>3, <2>1
  <2> QED
    BY <2>2 DEF Share
<1> QED
  BY <1>5, <1>6

\* Where the index is when the load of the worker i is made.
IndexOf(i) == IF i * load_size <= numPaths THEN i * load_size ELSE numPaths

\* Counted on from the beginning of the file, every load is the share of its worker.
LEMMA LoadsAreShares ==
  ASSUME lines \in Seq(LineKinds), NEW i \in Workers
  PROVE  MakeLoad(IndexOf(i)) = Share(i) /\ IndexAfter(IndexOf(i)) = IndexOf(i + 1)
<1>1. numPaths \in Nat /\ i \in Nat /\ N \in Nat \ {0}
  BY WorkersAssumption DEF numPaths, Workers
<1>2. load_size \in Nat
  BY <1>1 DEF load_size
<1> DEFINE a == i * load_size
<1>3. a \in Nat /\ (i + 1) * load_size = a + load_size
  BY <1>1, <1>2
<1>4. Share(i) = {k \in 1 .. numPaths : a < k /\ k <= a + load_size}
  BY <1>3 DEF Share
<1>5. IndexOf(i) = (IF a <= numPaths THEN a ELSE numPaths)
  BY DEF IndexOf
<1>6. IndexOf(i + 1) = (IF a + load_size <= numPaths THEN a + load_size ELSE numPaths)
  BY <1>3 DEF IndexOf
<1> HIDE DEF a
<1>7. CASE a <= numPaths
  BY <1>1, <1>2, <1>3, <1>4, <1>5, <1>6, <1>7 DEF MakeLoad, IndexAfter
<1>8. CASE ~(a <= numPaths)
  <2>1. \A k \in 1 .. numPaths : ~(a < k) /\ ~(numPaths < k)
    BY <1>1, <1>3, <1>8
  <2>2. Share(i) = {} /\ MakeLoad(numPaths) = {}
    BY <1>4, <2>1 DEF MakeLoad
  <2>3. IndexAfter(numPaths) = numPaths
    BY <1>1, <1>2 DEF IndexAfter
  <2>4. IndexOf(i + 1) = numPaths
    BY <1>1, <1>2, <1>3, <1>6, <1>8
  <2> QED
    BY <1>5, <1>8, <2>2, <2>3, <2>4
<1> QED
  BY <1>7, <1>8

-----------------------------------------------------------------------------
(* The pipes to the workers *)

Message == {"load", "command", "exit"} \X SUBSET Nat

\* A worker that has not read its load, nor has it in its pipe.
Owed(w) == /\ Alive(w) /\ wstate[w] # "ready"
           /\ toPipe[w] = <<>> /\ Share(w) # {}

\* The console has still to come to worker w with its load, or is dead.
Awaited(w) ==
  \/ pc = "gone"
  \/ pc \in {"make", "fork", "to", "from"} /\ (~reviving \/ w = revived)
  \/ pc = "distribute" /\ idx <= w /\ (~reviving \/ w = revived)

\* Before any command a worker is sent its share, if it has one; /exit is the last
\* message of a session.
PipeInv ==
  /\ lines \in Seq(LineKinds)
  /\ DOMAIN wstate = Workers
  /\ toPipe \in [Workers -> Seq(Message)]
  /\ sending \in {"command", "exit"}
  /\ pc = "distribute" => Paths_index = IndexOf(idx)
  /\ pc \in {"make", "fork"} =>
       \A w \in Workers : ~reviving \/ w = revived => toPipe[w] = <<>>
  /\ \A w \in Workers : \A i \in DOMAIN toPipe[w] :
       /\ toPipe[w][i][1] = "load" => toPipe[w][i][2] = Share(w)
       /\ toPipe[w][i][1] = "exit" =>
            sending = "exit" /\ pc \in {"send", "wait", "unlink", "done", "gone"}
  /\ \A w \in Workers :
       /\ Alive(w) /\ wstate[w] # "ready" /\ toPipe[w] # <<>> =>
            toPipe[w][1][1] = "load" \/ Share(w) = {}
       /\ Owed(w) => Awaited(w)

LEMMA PipeInit == Init => PipeInv
<1> SUFFICES ASSUME Init PROVE PipeInv
  OBVIOUS
<1>1. lines \in Seq(LineKinds) /\ sending = "command" /\ pc = "make"
  BY FilesAssumption DEF Init
<1>2. /\ DOMAIN wstate = Workers /\ toPipe = [w \in Workers |-> <<>>]
      /\ \A w \in Workers : wstate[w] = "none"
  BY DEF Init, FreshWorkers
<1>3. toPipe \in [Workers -> Seq(Message)]
  BY <1>2
<1> QED
  BY <1>1, <1>2, <1>3 DEF PipeInv, Owed, Alive

\* Everything said of a load depends on the file of paths alone.
LEMMA InputFixed ==
  ASSUME UNCHANGED input
  PROVE  /\ lines' = lines /\ terminated' = terminated
         /\ \A w : Share(w)' = Share(w)
         /\ \A w : IndexOf(w)' = IndexOf(w)
         /\ \A msg : DivideDirs(msg)' = DivideDirs(msg)
         /\ \A dirs : CanOpen(dirs)' = CanOpen(dirs)
         /\ \A w : MayExit(w)' = MayExit(w)
<1>1. lines' = lines /\ terminated' = terminated /\ numPaths' = numPaths
  BY DEF input, numPaths
<1>2. \A k : Tokens(k)' = Tokens(k)
  BY <1>1 DEF Tokens
<1>3. \A ks : Text(ks)' = Text(ks)
  BY <1>1, <1>2 DEF Text
<1>4. \A msg : DivideDirs(msg)' = DivideDirs(msg)
  BY <1>1, <1>3 DEF DivideDirs
<1>5. load_size' = load_size
  BY <1>1 DEF load_size
<1>6. \A w : Share(w)' = Share(w)
  BY <1>1, <1>5 DEF Share
<1>7. \A dirs : CanOpen(dirs)' = CanOpen(dirs)
  BY <1>1 DEF CanOpen
<1>8. \A w : MayExit(w)' = MayExit(w)
  BY <1>1, <1>6 DEF MayExit
<1>9. \A w : IndexOf(w)' = IndexOf(w)
  BY <1>1, <1>5 DEF IndexOf
<1> QED
  BY <1>1, <1>4, <1>6, <1>7, <1>8, <1>9

LEMMA InputUnchanged == [Next]_vars => UNCHANGED input
BY DEF Next, vars, ConsoleStep, MakePipePair, Fork, OpenTo, OpenFrom, DistributePaths, DistributePath,
   CheckChild, Prompt, SendToAll, GetAllAnswers, WaitForChildren, UnlinkExecutorPipe, Command, Exit,
   ForkFails, ConsoleKilled, NextSession, WorkerStep, OpenWorkerPipe, ReceiveDirs, ReceiveCommand,
   Leave, WorkerKilled

\* What a message does to the pipe it is written to.
LEMMA Delivered ==
  ASSUME PipeInv, NEW w \in Workers, NEW msg \in Message, Deliver(w, msg)
  PROVE  /\ toPipe' \in [Workers -> Seq(Message)]
         /\ \A v \in Workers \ {w} : toPipe'[v] = toPipe[v]
         /\ \A i \in DOMAIN toPipe'[w] :
              \/ i \in DOMAIN toPipe[w] /\ toPipe'[w][i] = toPipe[w][i]
              \/ toPipe'[w][i] = msg
         /\ Alive(w) => /\ toPipe'[w] # <<>>
                        /\ toPipe[w] = <<>> => toPipe'[w][1] = msg
                        /\ toPipe[w] # <<>> => toPipe'[w][1] = toPipe[w][1]
         /\ ~Alive(w) => toPipe' = toPipe
<1> DEFINE s == toPipe[w]
<1>1. s \in Seq(Message) /\ toPipe \in [Workers -> Seq(Message)]
  BY DEF PipeInv
<1>2. CASE Alive(w)
  <2>1. toPipe' = [toPipe EXCEPT ![w] = Append(s, msg)]
    BY <1>2 DEF Deliver
  <2>2. Append(s, msg) \in Seq(Message)
    BY <1>1
  <2>3. toPipe'[w] = Append(s, msg)
    BY <1>1, <2>1
  <2> HIDE DEF s
  <2>4. /\ DOMAIN Append(s, msg) = 1 .. Len(s) + 1 /\ Len(s) \in Nat /\ DOMAIN s = 1 .. Len(s)
        /\ \A i \in 1 .. Len(s) : Append(s, msg)[i] = s[i]
        /\ Append(s, msg)[Len(s) + 1] = msg
    BY <1>1
  <2>5. \A i \in DOMAIN Append(s, msg) :
          (i \in DOMAIN s /\ Append(s, msg)[i] = s[i]) \/ Append(s, msg)[i] = msg
    BY <2>4
  <2>6. /\ Append(s, msg) # <<>>
        /\ s = <<>> => Append(s, msg)[1] = msg
        /\ s # <<>> => Append(s, msg)[1] = s[1]
    <3>1. (s = <<>> => Len(s) = 0) /\ (s # <<>> => Len(s) > 0)
      BY <1>1, EmptySeq
    <3>2. 1 \in 1 .. Len(s) + 1
      BY <2>4
    <3>3. Append(s, msg) # <<>>
      <4>1. DOMAIN <<>> = {}
        OBVIOUS
      <4> QED
        BY <2>4, <3>2, <4>1
    <3>4. s = <<>> => Append(s, msg)[1] = msg
      BY <2>4, <3>1
    <3>5. s # <<>> => Append(s, msg)[1] = s[1]
      <4>1. s # <<>> => 1 \in 1 .. Len(s)
        BY <2>4, <3>1
      <4> QED
        BY <2>4, <4>1
    <3> QED
      BY <3>3, <3>4, <3>5
  <2> QED
    BY <1>1, <1>2, <2>1, <2>2, <2>3, <2>5, <2>6 DEF s
<1>3. CASE ~Alive(w)
  BY <1>1, <1>3 DEF Deliver
<1> QED
  BY <1>2, <1>3

\* Where the console may be once it has sent /exit.
Ending == {"send", "wait", "unlink", "done", "gone"}

\* The steps of the console that leave the workers and their pipes alone.
LEMMA QuietKeeps ==
  ASSUME PipeInv, UNCHANGED <<input, wstate, toPipe>>,
         sending' \in {"command", "exit"},
         pc \in Ending => sending' = sending /\ pc' \in Ending,
         pc' = "distribute" => Paths_index' = IndexOf(idx'),
         pc' \in {"make", "fork"} => pc \in {"make", "fork"} /\ revived' = revived,
         \A w \in Workers : Awaited(w) => Awaited(w)'
  PROVE  PipeInv'
<1> USE DEF PipeInv
<1>1. lines' = lines /\ (\A w : Share(w)' = Share(w)) /\ (\A w : IndexOf(w)' = IndexOf(w))
  BY InputFixed
<1>2. \A w : (Alive(w)' <=> Alive(w)) /\ (Owed(w)' <=> Owed(w))
  BY <1>1 DEF Alive, Owed
<1>3. pc' \in {"make", "fork"} => \A w \in Workers : ~reviving' \/ w = revived' => toPipe[w] = <<>>
  BY DEF reviving
<1>4. \A w \in Workers : \A i \in DOMAIN toPipe[w] :
        toPipe[w][i][1] = "exit" => sending' = "exit" /\ pc' \in Ending
  BY DEF Ending
<1>5. \A w \in Workers : Owed(w)' => Awaited(w)'
  BY <1>2
<1>6. (pc = "distribute" => Paths_index = IndexOf(idx))'
  <2>1. numPaths' = numPaths /\ load_size' = load_size
    BY <1>1 DEF numPaths, load_size
  <2> QED
    BY <2>1 DEF IndexOf
<1> QED
  BY <1>1, <1>2, <1>3, <1>4, <1>5, <1>6 DEF Ending

LEMMA QuietSteps ==
  ASSUME PipeInv, FifoInv, [Next]_vars,
         \/ MakePipePair \/ ForkFails \/ ConsoleKilled \/ OpenTo \/ OpenFrom \/ Prompt \/ Command
         \/ Exit \/ GetAllAnswers \/ WaitForChildren \/ UnlinkExecutorPipe
  PROVE  PipeInv'
<1>1. UNCHANGED <<input, wstate, toPipe>> /\ UNCHANGED revived
  BY InputUnchanged DEF MakePipePair, ForkFails, ConsoleKilled, OpenTo, OpenFrom, Prompt, Command,
     Exit, GetAllAnswers, WaitForChildren, UnlinkExecutorPipe, workers
<1>2. sending' \in {"command", "exit"} /\ (sending' = sending \/ pc = "prompt")
  BY DEF PipeInv, MakePipePair, ForkFails, ConsoleKilled, OpenTo, OpenFrom, Prompt, Command,
     Exit, GetAllAnswers, WaitForChildren, UnlinkExecutorPipe
<1>3. reviving' <=> reviving
  BY <1>1 DEF reviving
<1>4. N \in Nat \ {0} /\ Workers \subseteq Nat
  BY WorkersAssumption DEF Workers
<1>5. CASE MakePipePair
  <2>1. pc = "make" /\ idx' = idx /\ pc' \in {"fork", "gone"}
    BY <1>5 DEF MakePipePair, MakePair, At
  <2> QED
    BY <1>1, <1>2, <1>3, <2>1, QuietKeeps DEF Awaited, Ending
<1>6. CASE ForkFails \/ ConsoleKilled
  <2>1. pc' = "gone" /\ sending' = sending
    BY <1>6 DEF ForkFails, ConsoleKilled, At
  <2> QED
    BY <1>1, <1>2, <1>3, <2>1, QuietKeeps DEF Awaited, Ending
<1>7. CASE OpenTo
  <2>1. pc = "to" /\ idx' = idx /\ pc' = "from"
    BY <1>7 DEF OpenTo, At
  <2> QED
    BY <1>1, <1>2, <1>3, <2>1, QuietKeeps DEF Awaited, Ending
<1>8. CASE OpenFrom
  <2>1. /\ pc = "from" /\ Paths_index' = 0
        /\ pc' = "to" \/ (pc' = "distribute" /\ idx' = 0)
    BY <1>8 DEF OpenFrom, At
  <2>2. IndexOf(0) = 0
    <3>1. numPaths \in Nat
      BY DEF numPaths, PipeInv
    <3>2. load_size \in Nat
      BY <1>4, <3>1 DEF load_size
    <3>3. 0 * load_size = 0
      BY <3>2
    <3> QED
      BY <3>1, <3>3 DEF IndexOf
  <2>3. \A w \in Workers : Awaited(w) => Awaited(w)'
    BY <1>1, <1>3, <1>4, <2>1 DEF Awaited
  <2> QED
    BY <1>1, <1>2, <2>1, <2>2, <2>3, QuietKeeps DEF Ending
<1>9. CASE Prompt \/ Command \/ Exit \/ GetAllAnswers \/ WaitForChildren \/ UnlinkExecutorPipe
  <2>1. pc \in {"check", "prompt", "answers", "wait", "unlink"}
    BY <1>9 DEF Prompt, Command, Exit, GetAllAnswers, WaitForChildren, UnlinkExecutorPipe
  <2>2. /\ pc' \in {"prompt", "send", "check", "gone", "unlink", "done"}
        /\ pc \in {"wait", "unlink"} => pc' \in {"unlink", "done"}
    BY <1>9 DEF Prompt, Command, Exit, GetAllAnswers, WaitForChildren, UnlinkExecutorPipe, At
  <2>3. \A w \in Workers : ~Awaited(w)
    BY <2>1 DEF Awaited
  <2> QED
    BY <1>1, <1>2, <2>1, <2>2, <2>3, QuietKeeps DEF Ending
<1> QED
  BY <1>5, <1>6, <1>7, <1>8, <1>9

\* The steps that deliver a message to the worker the console is at.
LEMMA LoadDelivered ==
  ASSUME PipeInv, FifoInv, UNCHANGED <<input, wstate, sending>>, pc = "distribute",
         Deliver(idx, <<"load", MakeLoad(Paths_index)>>),
         pc' \in {"distribute", "check"},
         pc' = "distribute" => Paths_index' = IndexOf(idx'),
         \A w \in Workers \ {idx} : Awaited(w) => Awaited(w)'
  PROVE  PipeInv'
<1> USE DEF PipeInv
<1>1. lines' = lines /\ (\A w : Share(w)' = Share(w)) /\ (\A w : IndexOf(w)' = IndexOf(w))
  BY InputFixed
<1>2. idx \in Workers /\ MakeLoad(Paths_index) = Share(idx)
  BY LoadsAreShares DEF FifoInv
<1> DEFINE msg == <<"load", Share(idx)>>
<1>3. msg \in Message /\ Deliver(idx, msg)
  <2>1. numPaths \in Nat
    BY DEF numPaths
  <2>2. Share(idx) \in SUBSET Nat
    BY <2>1 DEF Share
  <2> QED
    BY <1>2, <2>2 DEF Message
<1>4. /\ toPipe' \in [Workers -> Seq(Message)]
      /\ \A v \in Workers \ {idx} : toPipe'[v] = toPipe[v]
      /\ \A i \in DOMAIN toPipe'[idx] :
           \/ i \in DOMAIN toPipe[idx] /\ toPipe'[idx][i] = toPipe[idx][i]
           \/ toPipe'[idx][i] = msg
      /\ Alive(idx) => /\ toPipe'[idx] # <<>>
                       /\ toPipe[idx] = <<>> => toPipe'[idx][1] = msg
                       /\ toPipe[idx] # <<>> => toPipe'[idx][1] = toPipe[idx][1]
  BY <1>2, <1>3, Delivered
<1>5. msg[1] = "load" /\ msg[2] = Share(idx)
  OBVIOUS
<1> HIDE DEF msg
<1>6. \A w : Alive(w)' <=> Alive(w)
  BY DEF Alive
<1>7. \A w \in Workers : \A i \in DOMAIN toPipe'[w] :
        /\ toPipe'[w][i][1] = "load" => toPipe'[w][i][2] = Share(w)
        /\ toPipe'[w][i][1] # "exit"
  <2> SUFFICES ASSUME NEW w \in Workers, NEW i \in DOMAIN toPipe'[w]
               PROVE  /\ toPipe'[w][i][1] = "load" => toPipe'[w][i][2] = Share(w)
                      /\ toPipe'[w][i][1] # "exit"
    OBVIOUS
  <2>1. CASE toPipe'[w][i] = msg /\ w = idx
    BY <1>5, <2>1
  <2>2. CASE i \in DOMAIN toPipe[w] /\ toPipe'[w][i] = toPipe[w][i]
    BY <2>2
  <2> QED
    BY <1>4, <2>1, <2>2
<1>8. ASSUME NEW w \in Workers, Alive(w), wstate[w] # "ready", toPipe'[w] # <<>>
      PROVE  toPipe'[w][1][1] = "load" \/ Share(w) = {}
  <2>1. CASE w = idx
    BY <1>4, <1>5, <1>8, <2>1
  <2>2. CASE w # idx
    BY <1>4, <1>8, <2>2
  <2> QED
    BY <2>1, <2>2
<1>9. ASSUME NEW w \in Workers, Owed(w)' PROVE Awaited(w)'
  <2>1. w # idx
    BY <1>4, <1>6, <1>9 DEF Owed
  <2>2. Owed(w)
    BY <1>1, <1>4, <1>6, <1>9, <2>1 DEF Owed
  <2> QED
    BY <2>1, <2>2
<1> QED
  BY <1>1, <1>4, <1>6, <1>7, <1>8, <1>9

LEMMA DealSteps ==
  ASSUME PipeInv, FifoInv, [Next]_vars, DistributePaths \/ DistributePath
  PROVE  PipeInv'
<1>1. /\ UNCHANGED <<input, wstate, sending>> /\ pc = "distribute" /\ idx \in Workers
      /\ Paths_index = IndexOf(idx) /\ Paths_index' = IndexAfter(Paths_index)
      /\ lines \in Seq(LineKinds)
  BY InputUnchanged DEF DistributePaths, DistributePath, PipeInv, FifoInv
<1>2. /\ MakeLoad(Paths_index) = Share(idx) /\ Paths_index' = IndexOf(idx + 1)
      /\ idx \in 0 .. N-1 /\ N \in Nat \ {0} /\ Workers = 0 .. N-1
  BY <1>1, LoadsAreShares, WorkersAssumption DEF Workers
<1>3. CASE DistributePaths /\ Share(idx) = {}
  <2>1. pc' = "check" /\ ~reviving /\ toPipe' = toPipe
    BY <1>2, <1>3 DEF DistributePaths, At
  <2>2. \A w \in Workers : ~Owed(w)
    <3>1. \A w \in Workers : idx <= w => Share(w) = {}
      BY <1>1, <1>3, EmptyShares
    <3> QED
      BY <1>1, <3>1 DEF PipeInv, Owed, Awaited
  <2>3. /\ lines' = lines /\ \A w : Share(w)' = Share(w)
    BY <1>1, InputFixed
  <2>4. \A w : (Alive(w)' <=> Alive(w)) /\ (Owed(w)' <=> Owed(w))
    BY <1>1, <2>1, <2>3 DEF Alive, Owed
  <2> QED
    BY <1>1, <2>1, <2>2, <2>3, <2>4 DEF PipeInv
<1>4. CASE DistributePaths /\ Share(idx) # {}
  <2>1. /\ ~reviving /\ revived' = revived /\ ~reviving'
        /\ Deliver(idx, <<"load", MakeLoad(Paths_index)>>)
        /\ \/ pc' = "distribute" /\ idx' = idx + 1
           \/ pc' = "check" /\ ~(idx < N-1)
    BY <1>2, <1>4 DEF DistributePaths, At, reviving
  <2>2. \A w \in Workers \ {idx} : Awaited(w) => Awaited(w)'
    BY <1>1, <1>2, <2>1 DEF Awaited
  <2> QED
    BY <1>1, <1>2, <2>1, <2>2, LoadDelivered
<1>5. CASE DistributePath /\ idx = revived /\ Share(idx) # {}
  <2>1. /\ reviving /\ Deliver(idx, <<"load", MakeLoad(Paths_index)>>)
        /\ \/ pc' = "distribute" /\ idx' = idx + 1
           \/ pc' = "check"
    BY <1>2, <1>5 DEF DistributePath, At
  <2>2. \A w \in Workers \ {idx} : ~Awaited(w)
    BY <1>1, <1>5, <2>1 DEF Awaited
  <2> QED
    BY <1>1, <1>2, <2>1, <2>2, LoadDelivered
<1>6. CASE DistributePath /\ ~(idx = revived /\ Share(idx) # {})
  <2>1. /\ reviving /\ toPipe' = toPipe
        /\ \/ pc' = "gone"
           \/ pc' = "distribute" /\ idx' = idx + 1 /\ revived' = revived /\ reviving' /\ idx # revived
           \/ pc' = "check" /\ ~(idx < N-1) /\ idx # revived
    BY <1>2, <1>6 DEF DistributePath, At, reviving
  <2>2. \A w \in Workers : Awaited(w) => Awaited(w)'
    BY <1>1, <1>2, <2>1 DEF Awaited
  <2>3. sending \in {"command", "exit"}
    BY DEF PipeInv
  <2> QED
    BY <1>1, <1>2, <2>1, <2>2, <2>3, QuietKeeps DEF Ending
<1> QED
  BY <1>3, <1>4, <1>5, <1>6

LEMMA SendSteps ==
  ASSUME PipeInv, FifoInv, [Next]_vars, SendToAll
  PROVE  PipeInv'
<1> USE DEF PipeInv
<1>1. /\ UNCHANGED <<input, wstate, sending>> /\ pc = "send" /\ idx \in Workers
      /\ Deliver(idx, <<sending, {}>>)
  BY InputUnchanged DEF SendToAll, FifoInv
<1>2. lines' = lines /\ (\A w : Share(w)' = Share(w)) /\ (\A w : Alive(w)' <=> Alive(w))
  BY <1>1, InputFixed DEF Alive
<1>3. /\ pc' \in {"send", "wait", "answers", "check"}
      /\ sending = "exit" => pc' \in {"send", "wait"}
  BY DEF SendToAll, Sent, At
<1> DEFINE msg == <<sending, {}>>
<1>4. msg \in Message
  BY DEF Message
<1>5. /\ toPipe' \in [Workers -> Seq(Message)]
      /\ \A v \in Workers \ {idx} : toPipe'[v] = toPipe[v]
      /\ \A i \in DOMAIN toPipe'[idx] :
           \/ i \in DOMAIN toPipe[idx] /\ toPipe'[idx][i] = toPipe[idx][i]
           \/ toPipe'[idx][i] = msg
      /\ Alive(idx) => /\ toPipe'[idx] # <<>>
                       /\ toPipe[idx] = <<>> => toPipe'[idx][1] = msg
                       /\ toPipe[idx] # <<>> => toPipe'[idx][1] = toPipe[idx][1]
  BY <1>1, <1>4, Delivered
<1>6. msg[1] = sending
  OBVIOUS
<1> HIDE DEF msg
<1>7. \A w \in Workers : \A i \in DOMAIN toPipe'[w] :
        /\ toPipe'[w][i][1] = "load" => toPipe'[w][i][2] = Share(w)
        /\ toPipe'[w][i][1] = "exit" => sending = "exit"
  <2> SUFFICES ASSUME NEW w \in Workers, NEW i \in DOMAIN toPipe'[w]
               PROVE  /\ toPipe'[w][i][1] = "load" => toPipe'[w][i][2] = Share(w)
                      /\ toPipe'[w][i][1] = "exit" => sending = "exit"
    OBVIOUS
  <2>1. CASE toPipe'[w][i] = msg
    BY <1>6, <2>1
  <2>2. CASE i \in DOMAIN toPipe[w] /\ toPipe'[w][i] = toPipe[w][i]
    BY <2>2
  <2> QED
    BY <1>5, <2>1, <2>2
\* Nobody is owed a load any more.
<1>8. \A w \in Workers : ~Owed(w)
  BY <1>1 DEF Awaited
<1>9. ASSUME NEW w \in Workers, Alive(w), wstate[w] # "ready"
      PROVE  /\ toPipe'[w] # <<>> => toPipe'[w][1][1] = "load" \/ Share(w) = {}
             /\ toPipe'[w] = <<>> => Share(w) = {}
  <2>1. toPipe[w] = <<>> => Share(w) = {}
    BY <1>8, <1>9 DEF Owed
  <2>2. CASE w = idx
    BY <1>5, <1>9, <2>1, <2>2
  <2>3. CASE w # idx
    BY <1>5, <1>9, <2>1, <2>3
  <2> QED
    BY <2>2, <2>3
<1>10. \A w \in Workers : ~Owed(w)'
  BY <1>1, <1>2, <1>9 DEF Owed
<1> QED
  BY <1>1, <1>2, <1>3, <1>5, <1>7, <1>9, <1>10


\* The steps of a worker: it takes the first message from its pipe, or none, and goes
\* on to open its fifos, or has had its load, or is dead.
LEMMA WorkerKeeps ==
  ASSUME PipeInv, UNCHANGED <<input, console>>, NEW w \in Workers,
         DOMAIN wstate' = Workers, \A v \in Workers \ {w} : wstate'[v] = wstate[v],
         \/ toPipe' = toPipe
         \/ toPipe[w] # <<>> /\ toPipe' = [toPipe EXCEPT ![w] = Tail(@)],
         \/ wstate'[w] \in {"ready", "exited", "gone"}
         \/ Alive(w) /\ wstate[w] # "ready" /\ toPipe' = toPipe
  PROVE  PipeInv'
<1> USE DEF PipeInv
<1>1. /\ lines' = lines /\ (\A v : Share(v)' = Share(v))
      /\ UNCHANGED <<pc, idx, revived, Paths_index, sending>>
  BY InputFixed DEF console
<1>2. (pc = "distribute" => Paths_index = IndexOf(idx))'
  <2>1. numPaths' = numPaths /\ load_size' = load_size
    BY <1>1 DEF numPaths, load_size
  <2> QED
    BY <1>1, <2>1 DEF IndexOf
<1>3. \A v : Awaited(v)' <=> Awaited(v)
  BY <1>1 DEF Awaited, reviving
<1>4. /\ toPipe' \in [Workers -> Seq(Message)]
      /\ \A v \in Workers \ {w} : toPipe'[v] = toPipe[v]
      /\ \A i \in DOMAIN toPipe'[w] : \E j \in DOMAIN toPipe[w] : toPipe'[w][i] = toPipe[w][j]
      /\ toPipe[w] = <<>> => toPipe'[w] = <<>>
  <2>1. CASE toPipe' = toPipe
    BY <2>1
  <2>2. CASE toPipe[w] # <<>> /\ toPipe' = [toPipe EXCEPT ![w] = Tail(@)]
    <3> DEFINE s == toPipe[w]
    <3>1. s \in Seq(Message) /\ s # <<>>
      BY <2>2
    <3>2. toPipe' = [toPipe EXCEPT ![w] = Tail(s)] /\ toPipe'[w] = Tail(s)
      BY <2>2
    <3> HIDE DEF s
    <3>3. Tail(s) \in Seq(Message) /\ \A i \in DOMAIN Tail(s) : i + 1 \in DOMAIN s /\ Tail(s)[i] = s[i+1]
      BY <3>1
    <3> QED
      BY <2>2, <3>1, <3>2, <3>3 DEF s
  <2> QED
    BY <2>1, <2>2
<1>5. pc' \in {"make", "fork"} =>
        \A v \in Workers : ~reviving' \/ v = revived' => toPipe'[v] = <<>>
  BY <1>1, <1>4 DEF reviving
<1>6. \A v \in Workers : \A i \in DOMAIN toPipe'[v] :
        /\ toPipe'[v][i][1] = "load" => toPipe'[v][i][2] = Share(v)
        /\ toPipe'[v][i][1] = "exit" =>
             sending = "exit" /\ pc \in {"send", "wait", "unlink", "done", "gone"}
  <2> SUFFICES ASSUME NEW v \in Workers, NEW i \in DOMAIN toPipe'[v]
               PROVE  \E j \in DOMAIN toPipe[v] : toPipe'[v][i] = toPipe[v][j]
    OBVIOUS
  <2> QED
    BY <1>4
<1>7. ASSUME NEW v \in Workers, Alive(v)', wstate'[v] # "ready"
      PROVE  Alive(v) /\ wstate[v] # "ready" /\ toPipe'[v] = toPipe[v]
  BY <1>4, <1>7 DEF Alive
<1>8. \A v \in Workers : Owed(v)' => Owed(v)
  BY <1>1, <1>7 DEF Owed
<1> QED
  BY <1>1, <1>2, <1>3, <1>4, <1>5, <1>6, <1>7, <1>8

LEMMA WorkerSteps ==
  ASSUME PipeInv, [Next]_vars, NEW w \in Workers, WorkerStep(w) \/ WorkerKilled(w)
  PROVE  PipeInv'
<1>1. UNCHANGED <<input, console>> /\ DOMAIN wstate = Workers
  BY DEF PipeInv, WorkerStep, OpenWorkerPipe, ReceiveDirs, ReceiveCommand, Leave, WorkerKilled
<1>2. CASE OpenWorkerPipe(w)
  <2>1. /\ toPipe' = toPipe /\ Alive(w) /\ wstate[w] # "ready"
        /\ \E place \in {"from", "dirs"} : wstate' = [wstate EXCEPT ![w] = place]
    BY <1>2 DEF OpenWorkerPipe, WorkerOrder, Alive
  <2> QED
    BY <1>1, <2>1, WorkerKeeps
<1>3. CASE ReceiveDirs(w)
  <2>1. /\ toPipe[w] # <<>> /\ toPipe' = [toPipe EXCEPT ![w] = Tail(@)]
        /\ \E place \in {"ready", "exited"} : wstate' = [wstate EXCEPT ![w] = place]
    BY <1>3 DEF ReceiveDirs
  <2> QED
    BY <1>1, <2>1, WorkerKeeps
<1>4. CASE ReceiveCommand(w)
  <2>1. /\ toPipe[w] # <<>> /\ toPipe' = [toPipe EXCEPT ![w] = Tail(@)]
        /\ wstate[w] = "ready"
        /\ wstate' = wstate \/ wstate' = [wstate EXCEPT ![w] = "gone"]
    BY <1>4 DEF ReceiveCommand
  <2> QED
    BY <1>1, <2>1, WorkerKeeps
<1>5. CASE Leave(w) \/ WorkerKilled(w)
  <2>1. toPipe' = toPipe /\ wstate' = [wstate EXCEPT ![w] = "gone"]
    BY <1>5 DEF Leave, WorkerKilled
  <2> QED
    BY <1>1, <2>1, WorkerKeeps
<1> QED
  BY <1>2, <1>3, <1>4, <1>5 DEF WorkerStep

\* The child that is forked has an empty pipe, and its load still to come.
LEMMA ForkSteps == ASSUME PipeInv, FifoInv, [Next]_vars, Fork PROVE PipeInv'
<1> USE DEF PipeInv
<1>1. /\ pc = "fork" /\ idx \in Workers /\ UNCHANGED <<revived, sending, toPipe>>
      /\ wstate' = [wstate EXCEPT ![idx] = "to"] /\ (reviving' <=> reviving)
      /\ reviving => revived = idx
  BY DEF Fork, WorkerOrder, FifoInv, reviving
<1>2. lines' = lines /\ \A w : Share(w)' = Share(w)
  BY InputFixed, InputUnchanged
<1>3. pc' \in {"make", "to"} /\ (pc' = "make" => ~reviving)
  BY DEF Fork, At
<1>4. toPipe[idx] = <<>>
  BY <1>1
<1>5. \A w \in Workers : Awaited(w) \/ w = idx => Awaited(w)'
  BY <1>1, <1>3 DEF Awaited
<1>6. \A w \in Workers : w # idx => (Alive(w)' <=> Alive(w)) /\ wstate'[w] = wstate[w]
  BY <1>1 DEF Alive
<1>7. \A w \in Workers : Owed(w)' => Owed(w) \/ w = idx
  BY <1>1, <1>2, <1>6 DEF Owed
<1>8. \A w \in Workers : \A i \in DOMAIN toPipe[w] : toPipe[w][i][1] # "exit"
  BY <1>1
<1> QED
  BY <1>1, <1>2, <1>3, <1>4, <1>5, <1>6, <1>7, <1>8

\* What a dead worker has not read goes with its fifos.
LEMMA CheckSteps == ASSUME PipeInv, FifoInv, [Next]_vars, CheckChild PROVE PipeInv'
<1> USE DEF PipeInv
<1>1. /\ pc = "check" /\ UNCHANGED <<input, sending, wstate>>
      /\ \A w \in Workers : ~Owed(w)
  BY InputUnchanged DEF CheckChild, Awaited
<1>2. CASE Alive(idx)
  <2>1. pc' = "check" /\ toPipe' = toPipe /\ \A w \in Workers : ~Awaited(w)
    BY <1>1, <1>2 DEF CheckChild, At, Awaited
  <2> QED
    BY <1>1, <2>1, QuietKeeps DEF Ending
<1>3. CASE ~Alive(idx)
  <2>1. /\ pc' = "make" /\ revived' = idx /\ reviving' /\ idx \in Workers
        /\ toPipe' = [toPipe EXCEPT ![idx] = <<>>]
    BY <1>1, <1>3, WorkersAssumption DEF CheckChild, At, reviving, NOBODY, FifoInv, Workers
  <2>2. lines' = lines /\ (\A w : Share(w)' = Share(w)) /\ (\A w : Alive(w)' <=> Alive(w))
    BY <1>1, InputFixed DEF Alive
  <2>3. /\ toPipe' \in [Workers -> Seq(Message)] /\ toPipe'[idx] = <<>>
        /\ \A w \in Workers : w # idx => toPipe'[w] = toPipe[w]
    BY <2>1
  <2>4. \A w \in Workers : \A i \in DOMAIN toPipe'[w] :
          i \in DOMAIN toPipe[w] /\ toPipe'[w][i] = toPipe[w][i] /\ toPipe'[w][i][1] # "exit"
    BY <1>1, <2>3
  <2>5. \A w \in Workers : ~Owed(w)'
    BY <1>1, <1>3, <2>2, <2>3 DEF Owed
  <2> QED
    BY <1>1, <1>3, <2>1, <2>2, <2>3, <2>4, <2>5
<1> QED
  BY <1>2, <1>3

LEMMA PipeStep == FifoInv /\ PipeInv /\ [Next]_vars => PipeInv'
<1> SUFFICES ASSUME FifoInv, PipeInv, [Next]_vars PROVE PipeInv'
  OBVIOUS
<1>1. CASE NextSession
  <2>1. /\ lines' \in Seq(LineKinds) /\ sending' = "command" /\ pc' = "make"
        /\ wstate' = [w \in Workers |-> "none"] /\ toPipe' = [w \in Workers |-> <<>>]
    BY <1>1, InputUnchanged DEF NextSession, FreshWorkers, At, PipeInv, input
  <2>2. toPipe' \in [Workers -> Seq(Message)] /\ \A w \in Workers : ~Owed(w)' /\ ~Alive(w)'
    BY <2>1 DEF Owed, Alive
  <2> QED
    BY <2>1, <2>2 DEF PipeInv
<1>2. CASE UNCHANGED vars
  <2>1. UNCHANGED <<input, console, fifos, opened, workers, history>>
    BY <1>2 DEF vars
  <2>2. \A w \in Workers : Awaited(w) => Awaited(w)'
    BY <2>1 DEF console, Awaited, reviving
  <2>3. pc' = "distribute" => Paths_index' = IndexOf(idx')
    BY <2>1 DEF console, PipeInv
  <2> QED
    BY <2>1, <2>2, <2>3, QuietKeeps DEF console, workers, PipeInv, Ending
<1> QED
  BY <1>1, <1>2, QuietSteps, DealSteps, SendSteps, ForkSteps, CheckSteps, WorkerSteps
     DEF Next, ConsoleStep

-----------------------------------------------------------------------------
(* What the workers have *)

\* What a worker has made of its first message: its share, or an instruction that
\* reached it because it has none.
DirsInv ==
  /\ DOMAIN Dirs = Workers
  /\ \A w \in Workers :
       /\ Dirs[w] \in {<<>>, <<Instruction>>} \cup DivideDirs(<<"load", Share(w)>>)
       /\ wstate[w] = "ready" => Dirs[w] \in DivideDirs(<<"load", Share(w)>>) /\ CanOpen(Dirs[w])
       /\ wstate[w] = "exited" => MayExit(w)

LEMMA DirsInit == Init => DirsInv
BY DEF Init, DirsInv, FreshWorkers

\* The first message of a worker is its load, or it has none.
LEMMA FirstMessage ==
  ASSUME PipeInv, NEW w \in Workers, ReceiveDirs(w)
  PROVE  \E dirs \in {<<Instruction>>} \cup DivideDirs(<<"load", Share(w)>>) :
           /\ Dirs' = [Dirs EXCEPT ![w] = dirs]
           /\ wstate' = [wstate EXCEPT ![w] = IF CanOpen(dirs) THEN "ready" ELSE "exited"]
           /\ CanOpen(dirs) => dirs \in DivideDirs(<<"load", Share(w)>>)
           /\ ~CanOpen(dirs) => MayExit(w)
<1> DEFINE msg == toPipe[w][1]
<1>1. /\ toPipe[w] # <<>> /\ toPipe[w] \in Seq(Message) /\ lines \in Seq(LineKinds)
      /\ Alive(w) /\ wstate[w] # "ready"
  BY DEF ReceiveDirs, PipeInv, Alive
<1>2. 1 \in DOMAIN toPipe[w] /\ msg \in Message /\ Head(toPipe[w]) = msg
  BY <1>1
<1>3. /\ msg[1] = "load" => msg[2] = Share(w)
      /\ msg[1] = "load" \/ Share(w) = {}
  BY <1>1, <1>2 DEF PipeInv
<1>4. msg = <<msg[1], msg[2]>>
  BY <1>2 DEF Message
<1>5. PICK dirs \in DivideDirs(msg) :
        /\ Dirs' = [Dirs EXCEPT ![w] = dirs]
        /\ wstate' = [wstate EXCEPT ![w] = IF CanOpen(dirs) THEN "ready" ELSE "exited"]
  BY <1>2 DEF ReceiveDirs
<1> HIDE DEF msg
<1>6. CASE msg[1] = "load"
  <2>1. dirs \in DivideDirs(<<"load", Share(w)>>)
    BY <1>3, <1>4, <1>6
  <2>2. Share(w) \in SUBSET (1 .. numPaths)
    BY DEF Share
  <2>3. ~CanOpen(dirs) => MayExit(w)
    BY <1>1, <2>1, <2>2, DirsOfLoad DEF MayExit
  <2> QED
    BY <1>5, <2>1, <2>3
<1>7. CASE msg[1] # "load"
  <2>1. dirs = <<Instruction>> /\ MayExit(w)
    BY <1>3, <1>7 DEF DivideDirs, MayExit
  <2>2. ~CanOpen(<<Instruction>>)
    BY DEF CanOpen, Instruction, Dir
  <2> QED
    BY <1>5, <2>1, <2>2
<1> QED
  BY <1>6, <1>7

LEMMA DirsStep == PipeInv /\ DirsInv /\ [Next]_vars => DirsInv'
<1> SUFFICES ASSUME PipeInv, DirsInv, [Next]_vars PROVE DirsInv'
  OBVIOUS
<1> USE DEF DirsInv
<1>1. DOMAIN wstate = Workers
  BY DEF PipeInv
<1>2. /\ \A w : Share(w)' = Share(w)
      /\ \A msg : DivideDirs(msg)' = DivideDirs(msg)
      /\ \A dirs : CanOpen(dirs)' = CanOpen(dirs)
      /\ \A w : MayExit(w)' = MayExit(w)
  BY InputUnchanged, InputFixed
<1>3. \A w \in Workers : (DivideDirs(<<"load", Share(w)>>))' = DivideDirs(<<"load", Share(w)>>)
  BY <1>2
<1>4. CASE Fork
  <2>1. /\ wstate' = [wstate EXCEPT ![idx] = "to"] /\ Dirs' = [Dirs EXCEPT ![idx] = <<>>]
    BY <1>4 DEF Fork, WorkerOrder
  <2> QED
    BY <1>1, <1>2, <1>3, <2>1
<1>5. CASE NextSession
  BY <1>2, <1>5 DEF NextSession, FreshWorkers
<1>6. ASSUME NEW w \in Workers, ReceiveDirs(w)
      PROVE  DirsInv'
  <2>1. PICK dirs \in {<<Instruction>>} \cup DivideDirs(<<"load", Share(w)>>) :
           /\ Dirs' = [Dirs EXCEPT ![w] = dirs]
           /\ wstate' = [wstate EXCEPT ![w] = IF CanOpen(dirs) THEN "ready" ELSE "exited"]
           /\ CanOpen(dirs) => dirs \in DivideDirs(<<"load", Share(w)>>)
           /\ ~CanOpen(dirs) => MayExit(w)
    BY <1>6, FirstMessage
  <2> QED
    BY <1>1, <1>2, <1>3, <2>1
<1>7. ASSUME NEW w \in Workers,
             OpenWorkerPipe(w) \/ ReceiveCommand(w) \/ Leave(w) \/ WorkerKilled(w)
      PROVE  DirsInv'
  <2>1. /\ Dirs' = Dirs
        /\ \/ wstate' = wstate
           \/ \E place \in {"from", "dirs", "gone"} : wstate' = [wstate EXCEPT ![w] = place]
    BY <1>7 DEF OpenWorkerPipe, ReceiveCommand, Leave, WorkerKilled, WorkerOrder
  <2> QED
    BY <1>1, <1>2, <1>3, <2>1
<1>8. CASE UNCHANGED <<wstate, Dirs>>
  BY <1>2, <1>3, <1>8
<1>9. CASE \/ MakePipePair \/ OpenTo \/ OpenFrom \/ DistributePaths \/ DistributePath \/ CheckChild
           \/ Prompt \/ SendToAll \/ GetAllAnswers \/ WaitForChildren \/ UnlinkExecutorPipe
           \/ Command \/ Exit \/ ForkFails \/ ConsoleKilled \/ UNCHANGED vars
  BY <1>8, <1>9 DEF MakePipePair, OpenTo, OpenFrom, DistributePaths, DistributePath, CheckChild,
     Prompt, SendToAll, GetAllAnswers, WaitForChildren, UnlinkExecutorPipe, Command, Exit,
     ForkFails, ConsoleKilled, vars, workers
<1> QED
  BY <1>4, <1>5, <1>6, <1>7, <1>9 DEF Next, ConsoleStep, WorkerStep

LEMMA DirsAreOwn == lines \in Seq(LineKinds) /\ DirsInv => NoForeignPath
<1> SUFFICES ASSUME lines \in Seq(LineKinds), DirsInv, NEW w \in Workers
             PROVE  /\ \A i \in DOMAIN Dirs[w], v \in Workers \ {w} : Dirs[w][i][1] \notin Share(v)
                    /\ wstate[w] = "ready" /\ (\E k \in Share(w) : w \notin Holders(k)) =>
                         \E k \in Share(w) : lines[k] \in {"trailing", "blank"}
                    /\ wstate[w] = "exited" => MayExit(w)
  BY DEF NoForeignPath
<1>1. \A v \in Workers : Share(v) \in SUBSET (1 .. numPaths) /\ 0 \notin Share(v)
  BY DEF Share
<1>2. Dirs[w] \in {<<>>, <<Instruction>>} \cup DivideDirs(<<"load", Share(w)>>)
  BY DEF DirsInv
<1>3. \A i \in DOMAIN Dirs[w] : Dirs[w][i][1] = 0 \/ Dirs[w][i][1] \in Share(w)
  <2>1. CASE Dirs[w] \in {<<>>, <<Instruction>>}
    BY <2>1 DEF Instruction
  <2>2. CASE Dirs[w] \in DivideDirs(<<"load", Share(w)>>)
    BY <1>1, <2>2, DirsOfLoad DEF Garbage
  <2> QED
    BY <1>2, <2>1, <2>2
<1>4. \A i \in DOMAIN Dirs[w], v \in Workers \ {w} : Dirs[w][i][1] \notin Share(v)
  BY <1>1, <1>3, SharesDisjoint
<1>5. ASSUME wstate[w] = "ready", \A k \in Share(w) : lines[k] \notin {"trailing", "blank"},
             NEW k \in Share(w)
      PROVE  w \in Holders(k)
  <2>1. Dirs[w] \in DivideDirs(<<"load", Share(w)>>) /\ CanOpen(Dirs[w])
    BY <1>5 DEF DirsInv
  <2>2. \E i \in DOMAIN Dirs[w] : Dirs[w][i] = Dir(k)
    BY <1>1, <1>5, <2>1, DirsOfLoad
  <2> QED
    BY <2>2 DEF Holders
<1> QED
  BY <1>4, <1>5 DEF DirsInv

LEMMA PathsOnce == lines \in Seq(LineKinds) /\ DirsInv => EveryPathOnce
<1> SUFFICES ASSUME lines \in Seq(LineKinds), DirsInv, WellFormed
             PROVE  /\ \A w \in Workers : IsInjective(Dirs[w])
                    /\ \A k \in 1 .. numPaths :
                         /\ Cardinality(Holders(k)) <= 1
                         /\ (\A w \in Workers : wstate[w] = "ready" \/ Share(w) = {}) =>
                              Cardinality(Holders(k)) = 1
  BY DEF EveryPathOnce
<1>1. \A w \in Workers : Share(w) \in SUBSET (1 .. numPaths)
  BY DEF Share
<1>2. \A w \in Workers : Dirs[w] \in {<<>>, <<Instruction>>, Text(Share(w))}
  BY <1>1, DirsOfLoad DEF DirsInv
<1>3. \A w \in Workers : IsInjective(Text(Share(w)))
  BY <1>1, TextTokens DEF WellFormed
<1>4. \A w \in Workers : IsInjective(Dirs[w])
  <2>1. IsInjective(<<>>) /\ IsInjective(<<Instruction>>)
    BY DEF IsInjective
  <2> QED
    BY <1>2, <1>3, <2>1
<1>5. ASSUME NEW k \in 1 .. numPaths
      PROVE  /\ Cardinality(Holders(k)) <= 1
             /\ (\A w \in Workers : wstate[w] = "ready" \/ Share(w) = {}) =>
                  Cardinality(Holders(k)) = 1
  <2>1. PICK w \in Workers : k \in Share(w)
    BY SharesCover
  <2>2. Holders(k) \subseteq {w}
    <3> SUFFICES ASSUME NEW v \in Holders(k), v # w PROVE FALSE
      OBVIOUS
    <3>1. v \in Workers
      BY DEF Holders
    <3>2. PICK i \in DOMAIN Dirs[v] : Dirs[v][i] = Dir(k)
      BY DEF Holders
    <3>3. Dirs[v][i][1] = k
      BY <3>2 DEF Dir
    <3>4. Dirs[v][i][1] \notin Share(w)
      BY <3>1, DirsAreOwn DEF NoForeignPath
    <3> QED
      BY <2>1, <3>3, <3>4
  <2>3. (\A v \in Workers : wstate[v] = "ready" \/ Share(v) = {}) => w \in Holders(k)
    <3> SUFFICES ASSUME \A v \in Workers : wstate[v] = "ready" \/ Share(v) = {}
                 PROVE  w \in Holders(k)
      OBVIOUS
    <3>1. Dirs[w] \in DivideDirs(<<"load", Share(w)>>) /\ CanOpen(Dirs[w])
      BY <2>1 DEF DirsInv
    <3>2. \A j \in Share(w) : lines[j] \notin {"trailing", "blank"}
      BY <1>1 DEF WellFormed
    <3>3. \E i \in DOMAIN Dirs[w] : Dirs[w][i] = Dir(k)
      BY <1>1, <2>1, <3>1, <3>2, DirsOfLoad
    <3> QED
      BY <3>3 DEF Holders
  <2>4. Cardinality({w}) = 1 /\ Cardinality({}) = 0
    BY FS_Singleton, FS_EmptySet
  <2>5. Holders(k) = {} \/ Holders(k) = {w}
    BY <2>2
  <2>6. Cardinality(Holders(k)) \in {0, 1} /\ (w \in Holders(k) => Cardinality(Holders(k)) = 1)
    <3>1. CASE Holders(k) = {}
      BY <2>4, <3>1
    <3>2. CASE Holders(k) = {w}
      BY <2>4, <3>2
    <3> QED
      BY <2>5, <3>1, <3>2
  <2> QED
    BY <2>3, <2>6
<1> QED
  BY <1>4, <1>5

-----------------------------------------------------------------------------
(* The ends of sessions *)

\* Only workers that a session has not come to yet are not made, and one that is
\* dead without a failure has exited, or has been told to, or has no console.
DeathInv ==
  \A w \in Workers :
    /\ wstate[w] = "none" =>
         pc = "gone" \/ (~reviving /\ pc \in {"make", "fork"} /\ idx <= w)
    /\ failures = 0 /\ wstate[w] = "gone" =>
         pc \in {"wait", "unlink", "done", "gone"} \/ (pc = "send" /\ sending = "exit")

LEMMA DeathInit == Init => DeathInv
<1> SUFFICES ASSUME Init PROVE DeathInv
  OBVIOUS
<1>1. pc = "make" /\ idx = 0 /\ ~reviving /\ \A w \in Workers : wstate[w] = "none"
  BY DEF Init, FreshWorkers, reviving
<1>2. \A w \in Workers : 0 <= w
  BY WorkersAssumption DEF Workers
<1> QED
  BY <1>1, <1>2 DEF DeathInv

LEMMA DeathStep == FifoInv /\ PipeInv /\ DeathInv /\ [Next]_vars => DeathInv'
<1> SUFFICES ASSUME FifoInv, PipeInv, DeathInv, [Next]_vars PROVE DeathInv'
  OBVIOUS
<1> USE DEF DeathInv
<1>1. /\ DOMAIN wstate = Workers /\ N \in Nat \ {0} /\ Workers = 0 .. N-1 /\ idx \in Nat
      /\ failures \in Nat
      /\ reviving => pc \in {"make", "fork", "to", "from", "distribute", "gone"}
      /\ pc \in {"make", "fork"} => idx \in Workers
      /\ reviving /\ pc \in {"make", "fork"} => revived = idx
  BY WorkersAssumption DEF PipeInv, FifoInv, Workers
<1>2. CASE MakePipePair
  <2>1. /\ pc = "make" /\ pc' \in {"fork", "gone"} /\ idx' = idx /\ (reviving' <=> reviving)
        /\ UNCHANGED <<wstate, failures, sending>>
    BY <1>2 DEF MakePipePair, MakePair, At, workers, history, reviving
  <2> QED
    BY <1>1, <2>1
<1>3. CASE Fork
  <2>1. /\ pc = "fork" /\ wstate' = [wstate EXCEPT ![idx] = "to"] /\ (reviving' <=> reviving)
        /\ failures' = failures
        /\ \/ reviving
           \/ ~reviving /\ pc' = "make" /\ idx' = idx + 1
           \/ ~reviving /\ ~(idx < N-1)
    BY <1>3 DEF Fork, WorkerOrder, At, history, reviving
  <2> QED
    BY <1>1, <2>1
<1>4. CASE ForkFails \/ ConsoleKilled
  <2>1. pc' = "gone"
    BY <1>4 DEF ForkFails, ConsoleKilled, At
  <2> QED
    BY <2>1
<1>5. CASE NextSession
  <2>1. /\ pc' = "make" /\ idx' = 0 /\ ~reviving' /\ wstate' = [w \in Workers |-> "none"]
    BY <1>5 DEF NextSession, FreshWorkers, At, reviving
  <2> QED
    BY <1>1, <2>1
<1>6. CASE OpenTo \/ OpenFrom \/ DistributePaths \/ DistributePath \/ CheckChild \/ Prompt
           \/ Command \/ Exit \/ GetAllAnswers
  <2>1. /\ UNCHANGED <<wstate, failures>>
        /\ pc \in {"to", "from", "distribute", "check", "prompt", "answers"}
    BY <1>6 DEF OpenTo, OpenFrom, DistributePaths, DistributePath, CheckChild, Prompt,
       Command, Exit, GetAllAnswers, workers, history
  <2> QED
    BY <2>1
<1>7. CASE SendToAll \/ WaitForChildren \/ UnlinkExecutorPipe
  <2>1. /\ UNCHANGED <<wstate, failures, sending>>
        /\ pc \in {"send", "wait", "unlink"}
        /\ pc = "send" /\ sending = "exit" => pc' \in {"send", "wait"}
        /\ pc \in {"wait", "unlink"} => pc' \in {"unlink", "done"}
    BY <1>7 DEF SendToAll, Sent, WaitForChildren, UnlinkExecutorPipe, At, workers, history
  <2> QED
    BY <2>1
<1>8. ASSUME NEW w \in Workers, OpenWorkerPipe(w) \/ ReceiveDirs(w)
      PROVE  DeathInv'
  <2>1. /\ UNCHANGED <<pc, idx, sending, failures>> /\ (reviving' <=> reviving)
        /\ \E place \in {"from", "dirs", "ready", "exited"} : wstate' = [wstate EXCEPT ![w] = place]
    BY <1>8 DEF OpenWorkerPipe, ReceiveDirs, WorkerOrder, console, history, reviving
  <2> QED
    BY <1>1, <2>1
<1>9. ASSUME NEW w \in Workers, ReceiveCommand(w)
      PROVE  DeathInv'
  <2>1. /\ UNCHANGED <<pc, idx, sending, failures>> /\ (reviving' <=> reviving)
        /\ toPipe[w] # <<>> /\ toPipe[w] \in Seq(Message)
        /\ \/ wstate' = wstate
           \/ wstate' = [wstate EXCEPT ![w] = "gone"] /\ Head(toPipe[w])[1] = "exit"
    BY <1>9 DEF ReceiveCommand, console, history, reviving, PipeInv
  <2>2. 1 \in DOMAIN toPipe[w] /\ Head(toPipe[w]) = toPipe[w][1]
    BY <2>1
  <2>3. Head(toPipe[w])[1] = "exit" => sending = "exit" /\ pc \in Ending
    BY <2>2 DEF PipeInv, Ending
  <2> QED
    BY <1>1, <2>1, <2>3 DEF Ending
<1>10. ASSUME NEW w \in Workers, Leave(w) \/ WorkerKilled(w)
       PROVE  DeathInv'
  <2>1. /\ UNCHANGED <<pc, idx, sending>> /\ (reviving' <=> reviving)
        /\ wstate' = [wstate EXCEPT ![w] = "gone"]
        /\ pc = "gone" \/ failures' = failures + 1
    BY <1>10 DEF Leave, WorkerKilled, console, reviving
  <2> QED
    BY <1>1, <2>1
<1>11. CASE UNCHANGED vars
  BY <1>11 DEF vars, console, workers, history, reviving
<1> QED
  BY <1>2, <1>3, <1>4, <1>5, <1>6, <1>7, <1>8, <1>9, <1>10, <1>11
     DEF Next, ConsoleStep, WorkerStep

StartupInv == FifoInv /\ PipeInv /\ DirsInv /\ DeathInv /\ EarlyEndExplained

LEMMA StartupInit == Init => StartupInv
<1>1. Init => EarlyEndExplained
  BY DEF Init, EarlyEndExplained
<1> QED
  BY <1>1, FifoInit, PipeInit, DirsInit, DeathInit DEF StartupInv

\* The step that ends a session has a reason.
LEMMA EndHasReason ==
  ASSUME StartupInv, [Next]_vars, pc # "gone", pc' = "gone", failures' = 0
  PROVE  leftovers' \/ \E w \in Workers : MayExit(w)'
<1>1. FifoInv /\ PipeInv /\ DirsInv /\ DeathInv
  BY DEF StartupInv
<1>2. \A w : MayExit(w)' = MayExit(w)
  BY InputUnchanged, InputFixed
<1>3. CASE MakePipePair
  <2>1. leftovers' = leftovers
    BY <1>3 DEF MakePipePair, history
  <2> QED
    BY <1>1, <1>3, <2>1, MakeKeeps
<1>4. CASE ForkFails \/ ConsoleKilled
  <2>1. failures' = failures + 1 /\ failures \in Nat
    BY <1>1, <1>4 DEF ForkFails, ConsoleKilled, FifoInv
  <2> QED
    BY <2>1
<1>5. CASE DistributePath
  <2>1. idx \in Workers /\ lines \in Seq(LineKinds) /\ Paths_index = IndexOf(idx)
    BY <1>1, <1>5 DEF DistributePath, FifoInv, PipeInv
  <2>2. MakeLoad(Paths_index) = {}
    BY <1>5 DEF DistributePath, At
  <2>3. Share(idx) = {}
    BY <2>1, <2>2, LoadsAreShares
  <2> QED
    BY <1>2, <2>1, <2>3 DEF MayExit
<1>6. CASE GetAllAnswers
  <2>1. pc = "answers" /\ failures = 0
    BY <1>6 DEF GetAllAnswers, history
  <2>2. \E w \in Workers : ~Alive(w)
    BY <1>6 DEF GetAllAnswers, At
  <2>3. \A w \in Workers : wstate[w] \notin {"none", "gone"}
    BY <1>1, <2>1 DEF DeathInv
  <2>4. \E w \in Workers : wstate[w] = "exited"
    BY <2>2, <2>3 DEF Alive
  <2> QED
    BY <1>1, <1>2, <2>4 DEF DirsInv
<1>7. CASE \/ Fork \/ OpenTo \/ OpenFrom \/ DistributePaths \/ CheckChild \/ Prompt \/ SendToAll
           \/ WaitForChildren \/ UnlinkExecutorPipe \/ Command \/ Exit \/ NextSession
  BY <1>7 DEF Fork, OpenTo, OpenFrom, DistributePaths, CheckChild, Prompt, SendToAll, Sent,
     WaitForChildren, UnlinkExecutorPipe, Command, Exit, NextSession, At
<1>8. CASE UNCHANGED console
  BY <1>8 DEF console
<1> QED
  BY <1>3, <1>4, <1>5, <1>6, <1>7, <1>8 DEF Next, ConsoleStep, WorkerStep, OpenWorkerPipe,
     ReceiveDirs, ReceiveCommand, Leave, WorkerKilled, vars

LEMMA StartupStep == StartupInv /\ [Next]_vars => StartupInv'
<1> SUFFICES ASSUME StartupInv, [Next]_vars PROVE StartupInv'
  OBVIOUS
<1>1. FifoInv' /\ PipeInv' /\ DirsInv' /\ DeathInv'
  BY FifoStep, PipeStep, DirsStep, DeathStep DEF StartupInv
<1>2. ASSUME pc' = "gone", failures' = 0 PROVE leftovers' \/ \E w \in Workers : MayExit(w)'
  <2>1. CASE pc = "gone"
    <3>1. failures = 0 /\ leftovers' = leftovers
      <4>1. failures \in Nat
        BY DEF StartupInv, FifoInv
      <4>2. ~NextSession /\ ~ForkFails
        BY <1>2, <2>1 DEF NextSession, ForkFails, At
      <4> QED
        BY <1>2, <2>1, <4>1, <4>2 DEF Next, ConsoleStep, MakePipePair, Fork, OpenTo, OpenFrom,
           DistributePaths, DistributePath, CheckChild, Prompt, SendToAll, GetAllAnswers,
           WaitForChildren, UnlinkExecutorPipe, Command, Exit, ConsoleKilled, WorkerStep,
           OpenWorkerPipe, ReceiveDirs, ReceiveCommand, Leave, WorkerKilled, vars, history
    <3>2. \A w : MayExit(w)' = MayExit(w)
      BY InputUnchanged, InputFixed
    <3> QED
      BY <2>1, <3>1, <3>2 DEF StartupInv, EarlyEndExplained
  <2>2. CASE pc # "gone"
    BY <1>2, <2>2, EndHasReason
  <2> QED
    BY <2>1, <2>2
<1>3. EarlyEndExplained'
  BY <1>1, <1>2 DEF EarlyEndExplained, FifoInv
<1> QED
  BY <1>1, <1>3 DEF StartupInv

\* A session ends before /exit only when a fork fails or a process is killed, over
\* fifos of an earlier one, or when there is a worker with no load, with a path that
\* has a blank in it or with an unterminated last line; one that ended with /exit
\* leaves no fifo, whatever was revived in it.
THEOREM EarlyEndsExplained == Spec => []EarlyEndExplained
<1>1. StartupInv => EarlyEndExplained
  BY DEF StartupInv
<1> QED
  BY <1>1, StartupInit, StartupStep, PTL DEF Spec

\* Whatever the lines of the file of paths are, and however many workers die and are
\* replaced, no worker has a directory of another one's share, only lines that
\* are not a path make it miss one of its own, and only having none, a path with
\* a blank in it or an unterminated last line make it exit.
THEOREM OwnPathsOnly == Spec => []NoForeignPath
<1>1. StartupInv => NoForeignPath
  BY DirsAreOwn DEF StartupInv, PipeInv
<1> QED
  BY <1>1, StartupInit, StartupStep, PTL DEF Spec

\* Every directory of a file of paths is with one worker at most, and with exactly one
\* when all workers that have a share are ready: nothing is indexed twice or not
\* at all, for any number of workers and paths, revivals included.
THEOREM PathsDealtOnce == Spec => []EveryPathOnce
<1>1. StartupInv => EveryPathOnce
  BY PathsOnce DEF StartupInv, PipeInv
<1> QED
  BY <1>1, StartupInit, StartupStep, PTL DEF Spec

=============================================================================

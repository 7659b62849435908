---------------------------- MODULE ServiceProofs ----------------------------
(***************************************************************************)
(* What the user of a session can rely on, failed broadcasts and revivals  *)
(* included.  First what reaches a worker, and what comes back, in which   *)
(* order: the load before any command, the commands as they were typed,    *)
(* and no answer behind one that was already shown.  Then that the         *)
(* jobExecutor implements the QueryService: every step of it, under the    *)
(* mapping of MCJobExecutor, is a step of the service or a stutter.        *)
(* Liveness is no part of the service, so nothing of it is left to TLC.    *)
(***************************************************************************)
EXTENDS MCJobExecutor, JobExecutorProofs

USE DEF Workers, NoAnswer

-----------------------------------------------------------------------------
(* Sequences, element by element *)

\* What is appended comes last.
LEMMA AppendElements ==
  ASSUME NEW S, NEW s \in Seq(S), NEW e \in S
  PROVE  /\ Append(s, e) # <<>>
         /\ DOMAIN s \subseteq DOMAIN Append(s, e)
         /\ \A i \in DOMAIN s : Append(s, e)[i] = s[i]
         /\ \A i \in DOMAIN Append(s, e) :
              \/ i \in DOMAIN s
              \/ /\ Append(s, e)[i] = e
                 /\ \A j \in DOMAIN s : j < i
<1>1. /\ Append(s, e) \in Seq(S) /\ Len(Append(s, e)) = Len(s) + 1
      /\ \A i \in 1 .. Len(s) : Append(s, e)[i] = s[i]
      /\ Append(s, e)[Len(s) + 1] = e
  OBVIOUS
<1>2. DOMAIN s = 1 .. Len(s) /\ DOMAIN Append(s, e) = 1 .. Len(s) + 1 /\ Len(s) \in Nat
  BY <1>1
<1>3. QED
  BY <1>1, <1>2

\* What is taken comes first, and the rest moves up by one.
LEMMA TailElements ==
  ASSUME NEW S, NEW s \in Seq(S), s # <<>>
  PROVE  /\ 1 \in DOMAIN s /\ Head(s) = s[1] /\ Tail(s) \in Seq(S)
         /\ \A i \in DOMAIN Tail(s) : /\ i \in Nat /\ i + 1 \in DOMAIN s /\ 1 < i + 1
                                      /\ Tail(s)[i] = s[i + 1]
<1>1. /\ Tail(s) \in Seq(S) /\ Len(Tail(s)) = Len(s) - 1 /\ Head(s) = s[1]
      /\ \A i \in 1 .. Len(s) - 1 : Tail(s)[i] = s[i + 1]
  OBVIOUS
<1>2. DOMAIN s = 1 .. Len(s) /\ DOMAIN Tail(s) = 1 .. Len(s) - 1 /\ Len(s) \in Nat /\ Len(s) # 0
  BY <1>1
<1>3. QED
  BY <1>1, <1>2

\* An element of s \o t is one of s or one of t, and those of s come first.
LEMMA ConcatElements ==
  ASSUME NEW S, NEW s \in Seq(S), NEW t \in Seq(S)
  PROVE  /\ s \o t \in Seq(S)
         /\ \A i \in DOMAIN (s \o t) :
              \/ i \in DOMAIN s /\ (s \o t)[i] = s[i]
              \/ i - Len(s) \in DOMAIN t /\ (s \o t)[i] = t[i - Len(s)] /\ i > Len(s)
<1>1. /\ s \o t \in Seq(S) /\ Len(s \o t) = Len(s) + Len(t)
      /\ \A i \in 1 .. Len(s) + Len(t) :
           (s \o t)[i] = IF i <= Len(s) THEN s[i] ELSE t[i - Len(s)]
  OBVIOUS
<1>2. /\ DOMAIN s = 1 .. Len(s) /\ DOMAIN t = 1 .. Len(t)
      /\ DOMAIN (s \o t) = 1 .. Len(s) + Len(t) /\ Len(s) \in Nat /\ Len(t) \in Nat
  BY <1>1
<1>3. QED
  BY <1>1, <1>2

\* Increasing sequences, all of the first below all of the second, can be joined.
LEMMA ConcatIncreasing ==
  ASSUME NEW s \in Seq(Nat), NEW t \in Seq(Nat), Increasing(s), Increasing(t),
         \A i \in DOMAIN s, j \in DOMAIN t : s[i] < t[j]
  PROVE  Increasing(s \o t)
<1> SUFFICES ASSUME NEW i \in DOMAIN (s \o t), NEW j \in DOMAIN (s \o t), i < j
             PROVE  (s \o t)[i] < (s \o t)[j]
  BY DEF Increasing
<1>1. /\ DOMAIN s = 1 .. Len(s) /\ Len(s) \in Nat /\ s \o t \in Seq(Nat)
      /\ \A k \in DOMAIN (s \o t) :
           \/ k \in DOMAIN s /\ (s \o t)[k] = s[k]
           \/ k - Len(s) \in DOMAIN t /\ (s \o t)[k] = t[k - Len(s)] /\ k > Len(s)
  BY ConcatElements
<1>0. i \in Nat /\ j \in Nat
  BY <1>1
<1>2. CASE i \in DOMAIN s /\ j \in DOMAIN s
  <2>1. (s \o t)[i] = s[i] /\ (s \o t)[j] = s[j]
    BY <1>0, <1>1, <1>2
  <2>2. QED
    BY <1>2, <2>1 DEF Increasing
<1>3. CASE i \in DOMAIN s /\ j \notin DOMAIN s
  <2>1. (s \o t)[i] = s[i] /\ j - Len(s) \in DOMAIN t /\ (s \o t)[j] = t[j - Len(s)]
    BY <1>0, <1>1, <1>3
  <2>2. QED
    BY <1>3, <2>1
<1>4. CASE i \notin DOMAIN s
  <2>1. /\ i - Len(s) \in DOMAIN t /\ (s \o t)[i] = t[i - Len(s)]
        /\ j - Len(s) \in DOMAIN t /\ (s \o t)[j] = t[j - Len(s)]
    BY <1>0, <1>1, <1>4
  <2>2. i - Len(s) < j - Len(s)
    BY <1>0, <1>1
  <2>3. QED
    BY <2>1, <2>2 DEF Increasing
<1>5. QED
  BY <1>2, <1>3, <1>4

\* The indices of a sequence are numbers, its elements are of its set.
LEMMA SeqElements ==
  ASSUME NEW S, NEW s \in Seq(S)
  PROVE  \A i \in DOMAIN s : i \in Nat /\ s[i] \in S
<1>1. DOMAIN s = 1 .. Len(s) /\ Len(s) \in Nat
  OBVIOUS
<1>2. QED
  BY <1>1

\* A message has a number.
LEMMA MessageNumber == \A m \in Message : m.id \in Nat
BY DEF Message

\* Messages numbered in increasing order still are when the first is taken, and
\* it was the least.
LEMMA TailInOrder ==
  ASSUME NEW s \in Seq(Message), s # <<>>,
         \A i, j \in DOMAIN s : i < j => s[i].id < s[j].id
  PROVE  /\ Head(s) \in Message
         /\ \E i \in DOMAIN s : Head(s) = s[i]
         /\ \A i \in DOMAIN Tail(s) : \E j \in DOMAIN s : Tail(s)[i] = s[j]
         /\ \A i \in DOMAIN Tail(s) : Head(s).id < Tail(s)[i].id
         /\ \A i, j \in DOMAIN Tail(s) : i < j => Tail(s)[i].id < Tail(s)[j].id
<1>1. /\ 1 \in DOMAIN s /\ Head(s) = s[1]
      /\ \A i \in DOMAIN Tail(s) : /\ i \in Nat /\ i + 1 \in DOMAIN s /\ 1 < i + 1
                                   /\ Tail(s)[i] = s[i + 1]
  BY TailElements
<1>2. Head(s) \in Message
  BY <1>1, SeqElements
<1>3. \A i, j \in DOMAIN Tail(s) : i < j => i + 1 < j + 1
  BY <1>1
<1>4. QED
  BY <1>1, <1>2, <1>3

\* Numbers in increasing order still are when a greater one is appended.
LEMMA AppendInOrder ==
  ASSUME NEW s \in Seq(Nat), NEW n \in Nat,
         \A i, j \in DOMAIN s : i < j => s[i] < s[j],
         \A i \in DOMAIN s : s[i] < n
  PROVE  /\ \A i \in DOMAIN Append(s, n) :
              (\E j \in DOMAIN s : Append(s, n)[i] = s[j]) \/ Append(s, n)[i] = n
         /\ \A i, j \in DOMAIN Append(s, n) : i < j => Append(s, n)[i] < Append(s, n)[j]
<1>1. \A i \in DOMAIN Append(s, n) :
        \/ i \in DOMAIN s /\ Append(s, n)[i] = s[i]
        \/ Append(s, n)[i] = n /\ \A j \in DOMAIN s : j < i
  BY AppendElements
<1>2. Append(s, n) \in Seq(Nat)
  OBVIOUS
<1>3. \A i \in DOMAIN Append(s, n) : i \in Nat
  BY <1>2, SeqElements
<1>4. ASSUME NEW i \in DOMAIN Append(s, n), NEW j \in DOMAIN Append(s, n), i < j
      PROVE  Append(s, n)[i] < Append(s, n)[j]
  <2>1. CASE j \in DOMAIN s /\ Append(s, n)[j] = s[j]
    <3>1. i \in DOMAIN s /\ Append(s, n)[i] = s[i]
      BY <1>1, <1>3, <1>4, <2>1
    <3>2. QED
      BY <1>4, <2>1, <3>1
  <2>2. CASE Append(s, n)[j] = n /\ \A k \in DOMAIN s : k < j
    <3>1. i \in DOMAIN s => Append(s, n)[i] < Append(s, n)[j]
      BY <1>1, <2>2, AppendElements
    <3>2. i \in DOMAIN s
      <4>1. DOMAIN s = 1 .. Len(s) /\ DOMAIN Append(s, n) = 1 .. Len(s) + 1 /\ Len(s) \in Nat
        OBVIOUS
      <4>2. QED
        BY <1>4, <4>1
    <3>3. QED
      BY <3>1, <3>2
  <2>3. QED
    BY <1>1, <2>1, <2>2
<1>5. QED
  BY <1>1, <1>4

-----------------------------------------------------------------------------
(* What a worker's step does to its pipes *)

\* The pipes and states of the other workers are left alone.
LEMMA WorkerFrame ==
  ASSUME NEW w \in Workers, TypeOK, WorkerStep(w) \/ Crash(w)
  PROVE  \A v \in Workers \ {w} : /\ wstate'[v] = wstate[v] /\ cur'[v] = cur[v]
                                  /\ toPipe'[v] = toPipe[v] /\ fromPipe'[v] = fromPipe[v]
<1> USE DEF TypeOK, WorkersOK, PipesOK
<1>1. CASE Die(w)
  BY <1>1 DEF Die
<1>2. CASE ~Die(w)
  BY <1>2 DEF WorkerStep, ReceiveDirs, BeginSearch, AnswerSearch, WithholdAnswer, EndSearch,
              AnswerOther, HandleExit, DeliverSIGUSR1, Crash, Consume, Reply,
              pipeVars, workerVars
<1>3. QED
  BY <1>1, <1>2

\* The worker itself dies, reads its load, takes up a search, ends one with or
\* without an answer, answers another command, or touches neither pipe.
LEMMA WorkerMoves ==
  ASSUME NEW w \in Workers, TypeOK, WorkerStep(w) \/ Crash(w)
  PROVE  \/ wstate'[w] = "dead" /\ toPipe'[w] = <<>> /\ fromPipe'[w] = fromPipe[w]
         \/ /\ wstate[w] = "dirs" /\ wstate'[w] = "idle"
            /\ toPipe[w] # <<>> /\ Head(toPipe[w]).kind = "dirs"
            /\ toPipe'[w] = Tail(toPipe[w]) /\ fromPipe'[w] = fromPipe[w]
         \/ /\ wstate[w] = "idle" /\ wstate'[w] = "search"
            /\ toPipe[w] # <<>> /\ Head(toPipe[w]).kind = "search"
            /\ cur'[w] = Head(toPipe[w]).id
            /\ toPipe'[w] = Tail(toPipe[w]) /\ fromPipe'[w] = fromPipe[w]
         \/ /\ wstate[w] = "search" /\ wstate'[w] = "answered" /\ toPipe'[w] = toPipe[w]
            /\ fromPipe'[w] \in {fromPipe[w], Append(fromPipe[w], cur[w])}
         \/ /\ wstate[w] = "answered" /\ wstate'[w] = "idle"
            /\ toPipe'[w] = toPipe[w] /\ fromPipe'[w] = fromPipe[w]
         \/ /\ wstate[w] = "idle" /\ wstate'[w] = "idle"
            /\ toPipe[w] # <<>> /\ Head(toPipe[w]).kind \in {"count", "wc"}
            /\ toPipe'[w] = Tail(toPipe[w])
            /\ fromPipe'[w] = Append(fromPipe[w], Head(toPipe[w]).id)
         \/ /\ wstate'[w] = wstate[w] /\ cur'[w] = cur[w]
            /\ toPipe'[w] = toPipe[w] /\ fromPipe'[w] = fromPipe[w]
<1> USE DEF TypeOK, WorkersOK, PipesOK
<1>1. CASE Die(w)
  BY <1>1 DEF Die
<1>2. CASE ReceiveDirs(w) /\ ~Die(w)
  BY <1>2 DEF ReceiveDirs, Receives, Consume
<1>3. CASE BeginSearch(w)
  BY <1>3 DEF BeginSearch, Receives, Consume
<1>4. CASE AnswerSearch(w)
  BY <1>4 DEF AnswerSearch, Reply
<1>5. CASE WithholdAnswer(w)
  BY <1>5 DEF WithholdAnswer, pipeVars
<1>6. CASE EndSearch(w)
  BY <1>6 DEF EndSearch, pipeVars
<1>7. CASE AnswerOther(w)
  BY <1>7 DEF AnswerOther, Receives, Consume, Reply, workerVars
<1>8. CASE DeliverSIGUSR1(w) /\ ~Die(w)
  BY <1>8 DEF DeliverSIGUSR1, pipeVars
<1>9. QED
  BY <1>1, <1>2, <1>3, <1>4, <1>5, <1>6, <1>7, <1>8 DEF WorkerStep, HandleExit, Crash

\* What a worker awaiting its load does is at most to die.
LEMMA FreshWorker ==
  ASSUME NEW w \in Workers, TypeOK, EmptyBeforeLoad, FreshInv, WorkerStep(w) \/ Crash(w)
  PROVE  FreshInv'
<1>1. UNCHANGED <<pc, idx>>
  BY WorkerLeavesParent DEF parentVars
<1>2. \A v \in Workers \ {w} : wstate'[v] = wstate[v] /\ fromPipe'[v] = fromPipe[v]
  BY WorkerFrame
<1>3. wstate'[w] = "open" => wstate[w] = "open"
  BY WorkerMoves
<1>4. wstate[w] \in {"open", "dirs", "dead"} /\ toPipe[w] = <<>>
        => wstate'[w] \in {"open", "dirs", "dead"} /\ fromPipe'[w] = fromPipe[w]
  BY WorkerMoves
<1>5. LoadAwaited(w) =>
        wstate[w] \in {"open", "dirs", "dead"} /\ toPipe[w] = <<>> /\ fromPipe[w] = <<>>
  BY DEF FreshInv, EmptyBeforeLoad
<1>6. QED
  BY <1>1, <1>2, <1>3, <1>4, <1>5 DEF FreshInv, LoadAwaited

\* The jobExecutor meets the workers in the order in which it goes on to load them.
LEMMA FreshParent == TypeOK /\ FreshInv /\ ParentStep => FreshInv'
<1> SUFFICES ASSUME TypeOK, FreshInv, ParentStep PROVE FreshInv'
  OBVIOUS
<1> USE CountAssumption DEF Goto, FreshInv, LoadAwaited
<1>0. idx \in 0 .. N /\ fromPipe \in [Workers -> Seq(Nat)]
      /\ wstate \in [Workers -> {"open", "dirs", "idle", "search", "answered", "dead"}]
  BY DEF TypeOK, ControlOK, WorkersOK, PipesOK
<1>1. CASE OpenExecutorPipes
  <2>1. wstate' = [wstate EXCEPT ![idx] = "dirs"] /\ fromPipe' = fromPipe /\ pc = "open"
    BY <1>1 DEF OpenExecutorPipes, OpenPipes, pipeVars
  <2>2. \/ idx + 1 = N /\ pc' = "distribute" /\ idx' = 0
        \/ idx + 1 # N /\ pc' = "open" /\ idx' = idx + 1
    BY <1>1 DEF OpenExecutorPipes
  <2>3. \A w \in Workers : wstate[w] \in {"open", "dirs", "dead"} /\ fromPipe[w] = <<>>
                           /\ (wstate[w] = "open" => w >= idx)
    BY <2>1
  <2>4. \A w \in Workers : wstate'[w] = "open" => w >= idx + 1
    BY <1>0, <2>1, <2>3
  <2>5. QED
    BY <1>0, <2>1, <2>2, <2>3, <2>4
<1>2. CASE DistributePaths
  <2>1. \A w \in Workers : w >= idx + 1 => w >= idx
    BY <1>0
  <2>2. QED
    BY <1>2, <2>1 DEF DistributePaths, workerVars
<1>8. CASE SendToWorker
  BY <1>8 DEF SendToWorker, workerVars
<1>3. CASE ReviveChild
  BY <1>0, <1>3 DEF ReviveChild
<1>4. CASE ReopenPipes
  BY <1>0, <1>4 DEF ReopenPipes, OpenPipes, pipeVars
<1>5. CASE ReceiveAnswer
  BY <1>5 DEF ReceiveAnswer, workerVars
<1>6. CASE DistributePath
  BY <1>6 DEF DistributePath, workerVars
<1>7. CASE \/ PathsDistributed \/ ChildLives \/ ChildrenChecked \/ SendToAllFails \/ SentToAll
           \/ Poll \/ NonResponsive \/ SkipPipe \/ PollAgain \/ AllAnswered \/ PrintAnswers
           \/ WaitForChildren
  BY <1>7
     DEF PathsDistributed, ChildLives, ChildrenChecked, SendToAllFails, SentToAll, Poll,
         NonResponsive, SkipPipe, PollAgain, AllAnswered, PrintAnswers, WaitForChildren,
         workerVars, pipeVars
<1>9. QED
  BY <1>1, <1>2, <1>3, <1>4, <1>5, <1>6, <1>7, <1>8 DEF ParentStep

\* Every step keeps the pipes of a worker without its load fresh.
LEMMA FreshStep == TypeOK /\ EmptyBeforeLoad /\ FreshInv /\ [Next]_vars => FreshInv'
<1> SUFFICES ASSUME TypeOK, EmptyBeforeLoad, FreshInv, [Next]_vars PROVE FreshInv'
  OBVIOUS
<1>1. CASE UserStep
  BY <1>1 DEF UserStep, BadCommand, ReadCommand, Goto, FreshInv, LoadAwaited,
              workerVars, pipeVars
<1>2. CASE AlarmFires
  BY <1>2 DEF AlarmFires, FreshInv, LoadAwaited, pipeVars
<1>3. CASE UNCHANGED vars
  BY <1>3 DEF vars, parentVars, workerVars, pipeVars, FreshInv, LoadAwaited
<1>4. QED
  BY <1>1, <1>2, <1>3, FreshParent, FreshWorker DEF Next, Finished

\* A worker's pipes are untouched until its load is sent.
THEOREM FreshUntilLoaded == Spec => []FreshInv
<1>1. Init => FreshInv
  BY CountAssumption DEF Init, FreshInv, LoadAwaited
<1>2. RoundInv => EmptyBeforeLoad
  BY DEF RoundInv
<1>3. QED
  BY <1>1, <1>2, FreshStep, TypesAndReadiness, RoundsDoNotOverlap, PTL DEF Spec

-----------------------------------------------------------------------------
(* The load comes first *)

\* LoadComesFirst and LoadInv, of one worker.
LoadFirst(w) ==
  /\ \A i \in DOMAIN toPipe[w] : (toPipe[w][i].kind = "dirs") <=> (wstate[w] = "dirs" /\ i = 1)
  /\ wstate[w] = "dirs" => LoadAwaited(w) \/ toPipe[w] # <<>>

\* A worker reads its load before anything else, and keeps the order of the rest.
LEMMA LoadWorker ==
  ASSUME NEW w \in Workers, TypeOK, WorkerStep(w) \/ Crash(w),
         NEW v \in Workers, LoadFirst(v)
  PROVE  LoadFirst(v)'
<1>1. UNCHANGED <<pc, idx>>
  BY WorkerLeavesParent DEF parentVars
<1>2. CASE v # w
  <2>1. wstate'[v] = wstate[v] /\ toPipe'[v] = toPipe[v]
    BY <1>2, WorkerFrame
  <2>2. QED
    BY <1>1, <2>1 DEF LoadFirst, LoadAwaited
<1>3. CASE v = w
  <2>1. CASE toPipe'[w] = <<>> /\ wstate'[w] # "dirs"
    BY <1>3, <2>1 DEF LoadFirst
  <2>2. CASE toPipe[w] # <<>> /\ toPipe'[w] = Tail(toPipe[w]) /\ wstate'[w] # "dirs"
    <3>1. toPipe[w] \in Seq(Message)
      BY DEF TypeOK, PipesOK
    <3>2. \A i \in DOMAIN Tail(toPipe[w]) : /\ i + 1 \in DOMAIN toPipe[w] /\ i + 1 # 1
                                            /\ Tail(toPipe[w])[i] = toPipe[w][i + 1]
      BY <2>2, <3>1, TailElements
    <3>3. QED
      BY <1>3, <2>2, <3>2 DEF LoadFirst
  <2>3. CASE toPipe'[w] = toPipe[w] /\ (wstate'[w] = "dirs" <=> wstate[w] = "dirs")
    BY <1>1, <1>3, <2>3 DEF LoadFirst, LoadAwaited
  <2>4. QED
    <3>1. \/ toPipe'[w] = <<>> /\ wstate'[w] # "dirs"
          \/ toPipe[w] # <<>> /\ toPipe'[w] = Tail(toPipe[w]) /\ wstate'[w] # "dirs"
          \/ toPipe'[w] = toPipe[w] /\ (wstate'[w] = "dirs" <=> wstate[w] = "dirs")
      BY WorkerMoves
    <3>2. QED
      BY <2>1, <2>2, <2>3, <3>1
<1>4. QED
  BY <1>2, <1>3

\* The jobExecutor sends the load into an empty pipe, and a command only to
\* workers that have been sent theirs.
LEMMA LoadParent ==
  ASSUME TypeOK, EmptyBeforeLoad, FreshInv, ParentStep,
         \A w \in Workers : HasLoad(w), \A w \in Workers : LoadFirst(w)
  PROVE  \A w \in Workers : LoadFirst(w)'
<1> USE CountAssumption DEF Goto
<1>0. /\ idx \in 0 .. N /\ toPipe \in [Workers -> Seq(Message)]
      /\ wstate \in [Workers -> {"open", "dirs", "idle", "search", "answered", "dead"}]
      /\ (pc \in {"open", "reopen", "redistribute"} => idx < N)
  BY DEF TypeOK, ControlOK, WorkersOK, PipesOK
<1>1. CASE OpenExecutorPipes \/ ReopenPipes
  <2>1. PICK i \in Workers : i = idx
    BY <1>0, <1>1 DEF OpenExecutorPipes, ReopenPipes
  <2>2. wstate' = [wstate EXCEPT ![i] = "dirs"] /\ toPipe' = toPipe
    BY <1>1, <2>1 DEF OpenExecutorPipes, ReopenPipes, OpenPipes, pipeVars
  <2>3. LoadAwaited(i) /\ LoadAwaited(i)'
        /\ \A w \in Workers : LoadAwaited(w) => LoadAwaited(w)'
    BY <1>0, <1>1, <2>1 DEF OpenExecutorPipes, ReopenPipes, LoadAwaited
  <2>4. toPipe[i] = <<>>
    BY <2>3 DEF EmptyBeforeLoad
  <2>5. LoadFirst(i)'
    BY <2>2, <2>3, <2>4 DEF LoadFirst
  <2>6. \A w \in Workers \ {i} : LoadFirst(w)'
    BY <1>0, <2>2, <2>3 DEF LoadFirst
  <2>7. QED
    BY <2>5, <2>6
<1>2. CASE DistributePaths \/ DistributePath
  <2>1. PICK i \in Workers : i = idx
    BY <1>0, <1>2 DEF DistributePaths, DistributePath
  <2>2. wstate' = wstate /\ Deliver(i, Dirs)
    BY <1>2, <2>1 DEF DistributePaths, DistributePath, workerVars
  <2>3. LoadAwaited(i) /\ pc \notin {"open", "reopen"}
    BY <1>0, <1>2, <2>1 DEF DistributePaths, DistributePath, LoadAwaited
  <2>4. toPipe[i] = <<>> /\ wstate[i] \in {"dirs", "dead"}
    BY <2>3 DEF EmptyBeforeLoad, FreshInv
  <2>5. Dirs \in Message /\ Dirs.kind = "dirs"
    BY DEF Dirs, Message
  <2>6. \A w \in Workers \ {i} : toPipe'[w] = toPipe[w] /\ (LoadAwaited(w) => LoadAwaited(w)')
    <3>1. \A w \in Workers \ {i} : w >= idx => w >= idx + 1
      BY <1>0, <2>1
    <3>2. QED
      BY <1>0, <1>2, <2>1, <2>2, <3>1 DEF Deliver, DistributePaths, DistributePath, LoadAwaited
  <2>7. \A w \in Workers \ {i} : LoadFirst(w)'
    BY <2>2, <2>6 DEF LoadFirst
  <2>8. LoadFirst(i)'
    <3>1. CASE wstate[i] = "dirs"
      <4>1. toPipe'[i] = <<Dirs>>
        BY <1>0, <2>2, <2>4, <3>1, ShortPipes DEF Deliver, Alive
      <4>2. DOMAIN <<Dirs>> = {1} /\ <<Dirs>>[1] = Dirs /\ <<Dirs>> # <<>>
        OBVIOUS
      <4>3. QED
        BY <2>2, <2>5, <3>1, <4>1, <4>2 DEF LoadFirst
    <3>2. CASE wstate[i] = "dead"
      BY <2>2, <2>4, <3>2 DEF Deliver, Alive, LoadFirst
    <3>3. QED
      BY <2>4, <3>1, <3>2
  <2>9. QED
    BY <2>7, <2>8
<1>3. CASE ReviveChild
  BY <1>0, <1>3 DEF ReviveChild, LoadFirst, LoadAwaited
<1>4. CASE SendToWorker
  <2>1. PICK i \in Workers : i = idx
    BY <1>0, <1>4 DEF SendToWorker
  <2>2. wstate' = wstate /\ pc = "send" /\ pc' = "send"
        /\ toPipe' = [toPipe EXCEPT ![i] = Append(@, cmd)]
    BY <1>0, <1>4, <2>1 DEF SendToWorker, Deliver, workerVars
  <2>3. cmd \in Message /\ cmd.kind # "dirs"
    BY DEF TypeOK, ControlOK, Message, CommandKinds
  <2>4. \A w \in Workers \ {i} : LoadFirst(w)'
    BY <1>0, <2>2 DEF LoadFirst, LoadAwaited
  <2>5. LoadFirst(i)'
    <3>1. PICK s \in Seq(Message) : s = toPipe[i]
      BY <1>0
    <3>2. toPipe'[i] = Append(s, cmd)
      BY <1>0, <2>2, <3>1
    <3>3. wstate[i] = "dirs" => 1 \in DOMAIN s
      BY <2>2, <3>1, TailElements DEF LoadFirst, LoadAwaited
    <3>4. /\ Append(s, cmd) # <<>>
          /\ \A k \in DOMAIN Append(s, cmd) :
               \/ k \in DOMAIN s /\ Append(s, cmd)[k] = toPipe[i][k]
               \/ Append(s, cmd)[k] = cmd /\ (1 \in DOMAIN s => 1 < k)
      BY <2>3, <3>1, AppendElements
    <3>5. \A k \in DOMAIN Append(s, cmd) :
            (Append(s, cmd)[k].kind = "dirs") <=> (wstate[i] = "dirs" /\ k = 1)
      BY <2>3, <3>1, <3>3, <3>4 DEF LoadFirst
    <3>6. QED
      BY <2>2, <3>2, <3>4, <3>5 DEF LoadFirst
  <2>6. QED
    BY <2>4, <2>5
<1>5. CASE PathsDistributed
  <2>1. pc = "distribute" /\ UNCHANGED <<wstate, toPipe>> /\ ~(idx < N)
    BY <1>0, <1>5 DEF PathsDistributed, workerVars, pipeVars
  <2>2. \A w \in Workers : ~LoadAwaited(w)
    BY <1>0, <2>1 DEF LoadAwaited
  <2>3. QED
    BY <2>1, <2>2 DEF LoadFirst
<1>6. CASE \/ ChildLives \/ ChildrenChecked \/ SendToAllFails \/ SentToAll
           \/ Poll \/ ReceiveAnswer \/ NonResponsive \/ SkipPipe \/ PollAgain
           \/ AllAnswered \/ PrintAnswers \/ WaitForChildren
  BY <1>6
     DEF ChildLives, ChildrenChecked, SendToAllFails, SentToAll, Poll, ReceiveAnswer,
         NonResponsive, SkipPipe, PollAgain, AllAnswered, PrintAnswers, WaitForChildren,
         workerVars, pipeVars, LoadFirst, LoadAwaited
<1>7. QED
  BY <1>1, <1>2, <1>3, <1>4, <1>5, <1>6 DEF ParentStep

\* Every step keeps the load of every worker first, if there are loads for all.
LEMMA LoadStep ==
  TypeOK /\ EmptyBeforeLoad /\ FreshInv /\ LoadInv /\ LoadComesFirst /\ [Next]_vars
    => LoadInv' /\ LoadComesFirst'
<1> SUFFICES ASSUME TypeOK, EmptyBeforeLoad, FreshInv, LoadInv, LoadComesFirst, [Next]_vars,
                    \A w \in Workers : HasLoad(w)
             PROVE  \A w \in Workers : LoadFirst(w)'
  BY DEF LoadInv, LoadComesFirst, LoadFirst, HasLoad, load_size
<1>1. \A w \in Workers : LoadFirst(w)
  BY DEF LoadInv, LoadComesFirst, LoadFirst
<1>2. CASE UserStep
  BY <1>1, <1>2 DEF UserStep, BadCommand, ReadCommand, Goto, LoadFirst, LoadAwaited,
                    workerVars, pipeVars
<1>3. CASE AlarmFires
  BY <1>1, <1>3 DEF AlarmFires, LoadFirst, LoadAwaited, pipeVars
<1>4. CASE UNCHANGED vars
  BY <1>1, <1>4 DEF vars, parentVars, workerVars, pipeVars, LoadFirst, LoadAwaited
<1>5. QED
  BY <1>1, <1>2, <1>3, <1>4, LoadParent, LoadWorker DEF Next, Finished

\* As long as every worker has a load, a new or revived worker finds its load
\* before any command, once, and never takes a load for a command.
THEOREM LoadArrivesFirst == Spec => []LoadComesFirst
<1>1. Init => LoadInv /\ LoadComesFirst
  BY DEF Init, LoadInv, LoadComesFirst, LoadAwaited
<1>2. RoundInv => EmptyBeforeLoad
  BY DEF RoundInv
<1>3. QED
  BY <1>1, <1>2, LoadStep, TypesAndReadiness, RoundsDoNotOverlap, FreshUntilLoaded, PTL
     DEF Spec

-----------------------------------------------------------------------------
(* Commands and answers stay in order *)

\* What OrderInv says of what is on its way through worker w.
WorkerOrder(w) ==
  /\ \A i \in DOMAIN toPipe[w] : toPipe[w][i].kind = "dirs" => toPipe[w][i] = Dirs
  /\ InOrder(w)
  /\ NewerThan(w, shown[w]) /\ NewerThan(w, Answers[w])
  /\ UpTo(w, IF pc = "send" /\ w >= idx THEN cmd.id - 1 ELSE cmd.id)

\* A worker passes commands on in the order in which it reads them.
LEMMA OrderWorker ==
  ASSUME NEW w \in Workers, TypeOK, WorkerStep(w) \/ Crash(w),
         NEW v \in Workers, WorkerOrder(v)
  PROVE  WorkerOrder(v)'
<1> USE DEF WorkerOrder, InOrder, NewerThan, UpTo
<1>1. UNCHANGED <<pc, idx, cmd, shown, Answers>>
  BY WorkerLeavesParent DEF parentVars, consoleVars, roundVars
<1>2. CASE v # w
  <2>1. wstate'[v] = wstate[v] /\ cur'[v] = cur[v]
        /\ toPipe'[v] = toPipe[v] /\ fromPipe'[v] = fromPipe[v]
    BY <1>2, WorkerFrame
  <2>2. QED
    BY <1>1, <2>1
<1>3. CASE v = w
  <2>0. /\ toPipe[w] \in Seq(Message) /\ fromPipe[w] \in Seq(Nat) /\ cur[w] \in Nat
        /\ shown[w] \in Nat /\ Answers[w] \in Nat
    BY DEF TypeOK, PipesOK, WorkersOK, RoundOK
  <2>1. /\ \A i \in DOMAIN toPipe[w] : toPipe[w][i].id \in Nat
        /\ \A i \in DOMAIN fromPipe[w] : fromPipe[w][i] \in Nat
    BY <2>0, SeqElements, MessageNumber
  <2>2. toPipe[w] # <<>> =>
          /\ Head(toPipe[w]).id \in Nat
          /\ \E i \in DOMAIN toPipe[w] : Head(toPipe[w]) = toPipe[w][i]
          /\ \A i \in DOMAIN Tail(toPipe[w]) :
               \E j \in DOMAIN toPipe[w] : Tail(toPipe[w])[i] = toPipe[w][j]
          /\ \A i \in DOMAIN Tail(toPipe[w]) : Head(toPipe[w]).id < Tail(toPipe[w])[i].id
          /\ \A i, j \in DOMAIN Tail(toPipe[w]) :
               i < j => Tail(toPipe[w])[i].id < Tail(toPipe[w])[j].id
    BY <1>3, <2>0, TailInOrder, MessageNumber
  <2>3. \A n \in Nat : (\A i \in DOMAIN fromPipe[w] : fromPipe[w][i] < n) =>
          /\ \A i \in DOMAIN Append(fromPipe[w], n) :
               \/ \E j \in DOMAIN fromPipe[w] : Append(fromPipe[w], n)[i] = fromPipe[w][j]
               \/ Append(fromPipe[w], n)[i] = n
          /\ \A i, j \in DOMAIN Append(fromPipe[w], n) :
               i < j => Append(fromPipe[w], n)[i] < Append(fromPipe[w], n)[j]
    BY <1>3, <2>0, AppendInOrder
  <2>4. CASE toPipe'[w] = <<>> /\ fromPipe'[w] = fromPipe[w] /\ wstate'[w] # "search"
    BY <1>1, <1>3, <2>4
  <2>5. CASE /\ toPipe'[w] = toPipe[w] /\ fromPipe'[w] = fromPipe[w] /\ cur'[w] = cur[w]
             /\ wstate'[w] = wstate[w]
    BY <1>1, <1>3, <2>5
  <2>6. CASE toPipe'[w] = toPipe[w] /\ fromPipe'[w] = fromPipe[w] /\ wstate'[w] # "search"
    BY <1>1, <1>3, <2>6
  <2>7. CASE /\ toPipe[w] # <<>> /\ wstate'[w] # "search"
             /\ toPipe'[w] = Tail(toPipe[w]) /\ fromPipe'[w] = fromPipe[w]
    <3>1. InOrder(w)'
      BY <1>1, <1>3, <2>1, <2>2, <2>7
    <3>2. QED
      BY <1>1, <1>3, <2>2, <2>7, <3>1
  <2>8. CASE /\ toPipe[w] # <<>> /\ Head(toPipe[w]).kind = "search" /\ wstate'[w] = "search"
             /\ cur'[w] = Head(toPipe[w]).id
             /\ toPipe'[w] = Tail(toPipe[w]) /\ fromPipe'[w] = fromPipe[w]
    <3>1. Head(toPipe[w]) # Dirs
      BY <2>8 DEF Dirs
    <3>2. InOrder(w)'
      BY <1>1, <1>3, <2>1, <2>2, <2>8
    <3>3. QED
      BY <1>1, <1>3, <2>2, <2>8, <3>1, <3>2
  <2>9. CASE /\ wstate[w] = "search" /\ wstate'[w] = "answered" /\ toPipe'[w] = toPipe[w]
             /\ fromPipe'[w] = Append(fromPipe[w], cur[w])
    <3>1. PICK n \in Nat : n = cur[w] /\ \A i \in DOMAIN fromPipe[w] : fromPipe[w][i] < n
      BY <1>3, <2>0, <2>9
    <3>2. /\ \A i \in DOMAIN fromPipe'[w] :
               (\E j \in DOMAIN fromPipe[w] : fromPipe'[w][i] = fromPipe[w][j])
               \/ fromPipe'[w][i] = n
          /\ \A i, j \in DOMAIN fromPipe'[w] : i < j => fromPipe'[w][i] < fromPipe'[w][j]
      <4>1. fromPipe'[w] = Append(fromPipe[w], n)
        BY <2>9, <3>1
      <4>2. \A i, j \in DOMAIN fromPipe[w] : i < j => fromPipe[w][i] < fromPipe[w][j]
        BY <1>3
      <4> HIDE DEF WorkerOrder, InOrder, NewerThan, UpTo
      <4> QED
        BY <2>3, <3>1, <4>1, <4>2
    <3>3. InOrder(w)'
      <4>1. \A j \in DOMAIN toPipe[w] : n < toPipe[w][j].id
        BY <1>3, <2>9, <3>1
      <4>2. QED
        BY <1>3, <2>9, <3>2, <4>1
    <3>4. QED
      BY <1>1, <1>3, <2>9, <3>1, <3>2, <3>3
  <2>10. CASE /\ wstate'[w] = "idle"
              /\ toPipe[w] # <<>> /\ Head(toPipe[w]).kind \in {"count", "wc"}
              /\ toPipe'[w] = Tail(toPipe[w])
              /\ fromPipe'[w] = Append(fromPipe[w], Head(toPipe[w]).id)
    <3>1. PICK n \in Nat : n = Head(toPipe[w]).id
      BY <2>1, <2>2, <2>10
    <3>2. Head(toPipe[w]) # Dirs
      BY <2>10 DEF Dirs
    <3>3. /\ \A i \in DOMAIN fromPipe'[w] :
               (\E j \in DOMAIN fromPipe[w] : fromPipe'[w][i] = fromPipe[w][j])
               \/ fromPipe'[w][i] = n
          /\ \A i, j \in DOMAIN fromPipe'[w] : i < j => fromPipe'[w][i] < fromPipe'[w][j]
      BY <1>3, <2>2, <2>3, <2>10, <3>1
    <3>4. \A j \in DOMAIN toPipe'[w] :
            (\E i \in DOMAIN toPipe[w] : toPipe'[w][j] = toPipe[w][i]) /\ n < toPipe'[w][j].id
      BY <2>2, <2>10, <3>1
    <3>5. PICK h \in DOMAIN toPipe[w] : Head(toPipe[w]) = toPipe[w][h]
      BY <2>2, <2>10
    <3>6. InOrder(w)'
      BY <1>3, <2>2, <2>10, <3>3, <3>4
    <3>7. \A i \in DOMAIN toPipe'[w] : toPipe'[w][i].kind = "dirs" => toPipe'[w][i] = Dirs
      BY <1>3, <3>4
    <3>8. NewerThan(w, shown[w])' /\ NewerThan(w, Answers[w])'
      BY <1>1, <1>3, <2>10, <3>1, <3>2, <3>3, <3>4, <3>5
    <3>9. UpTo(w, IF pc = "send" /\ w >= idx THEN cmd.id - 1 ELSE cmd.id)'
      BY <1>1, <1>3, <2>10, <3>1, <3>3, <3>4, <3>5
    <3>10. QED
      BY <1>3, <3>6, <3>7, <3>8, <3>9
  <2>11. QED
    BY <2>4, <2>5, <2>6, <2>7, <2>8, <2>9, <2>10, WorkerMoves
<1>4. QED
  BY <1>2, <1>3

\* The rest of OrderInv, of one worker: what was received from it.
AnswerOrder(w) ==
  /\ shown[w] <= cmd.id /\ Answers[w] <= cmd.id
  /\ pc = "send" => shown[w] < cmd.id /\ Answers[w] < cmd.id
  /\ pc \in {"poll", "read", "print"} => Answers[w] = NoAnswer \/ shown[w] < Answers[w]

\* What does not exceed the number before the command's does not exceed the
\* command's.
LEMMA SendBound ==
  ASSUME TypeOK, NEW w \in Workers,
         UpTo(w, IF pc = "send" /\ w >= idx THEN cmd.id - 1 ELSE cmd.id)
  PROVE  UpTo(w, cmd.id)
<1>1. cmd.id \in Nat
  BY BoundAssumption DEF TypeOK, ControlOK
<1>2. CASE ~(pc = "send" /\ w >= idx)
  BY <1>2
<1>3. CASE UpTo(w, cmd.id - 1)
  <2>1. /\ toPipe[w] \in Seq(Message) /\ fromPipe[w] \in Seq(Nat) /\ cur[w] \in Nat
    BY DEF TypeOK, PipesOK, WorkersOK
  <2>2. /\ \A k \in DOMAIN toPipe[w] : toPipe[w][k].id \in Nat
        /\ \A k \in DOMAIN fromPipe[w] : fromPipe[w][k] \in Nat
    BY <2>1, SeqElements, MessageNumber
  <2>3. QED
    BY <1>1, <1>3, <2>1, <2>2 DEF UpTo
<1>4. QED
  BY <1>2, <1>3

\* What is newer than some answer is newer than none.
LEMMA NewerThanNone ==
  ASSUME TypeOK, NEW w \in Workers, NEW n \in Nat, NewerThan(w, n)
  PROVE  NewerThan(w, NoAnswer)
<1>1. /\ toPipe[w] \in Seq(Message) /\ fromPipe[w] \in Seq(Nat) /\ cur[w] \in Nat
  BY DEF TypeOK, PipesOK, WorkersOK
<1>2. /\ \A k \in DOMAIN toPipe[w] : toPipe[w][k].id \in Nat
      /\ \A k \in DOMAIN fromPipe[w] : fromPipe[w][k] \in Nat
  BY <1>1, SeqElements, MessageNumber
<1>3. QED
  BY <1>1, <1>2 DEF NewerThan

\* The jobExecutor broadcasts increasing numbers, and takes answers from the
\* front of a pipe.
LEMMA OrderParent ==
  ASSUME TypeOK, ReadyMeansReadable, EmptyBeforeLoad, FreshInv, OrderInv, ParentStep
  PROVE  OrderInv'
<1> SUFFICES \A w \in Workers : WorkerOrder(w)' /\ AnswerOrder(w)'
  BY DEF OrderInv, WorkerOrder, AnswerOrder
<1> USE CountAssumption DEF Goto
<1>n. cmd.id \in Nat /\ cmd \in Message /\ cmd.kind # "dirs"
  BY BoundAssumption DEF TypeOK, ControlOK, Message, CommandKinds
<1>0. /\ idx \in 0 .. N
      /\ toPipe \in [Workers -> Seq(Message)] /\ fromPipe \in [Workers -> Seq(Nat)]
      /\ wstate \in [Workers -> {"open", "dirs", "idle", "search", "answered", "dead"}]
      /\ cur \in [Workers -> Nat] /\ Answers \in [Workers -> Nat] /\ shown \in [Workers -> Nat]
      /\ (pc \in {"open", "reopen", "redistribute"} => idx < N)
  BY DEF TypeOK, ControlOK, WorkersOK, PipesOK, RoundOK
<1>1. \A w \in Workers : WorkerOrder(w) /\ AnswerOrder(w)
  BY DEF OrderInv, WorkerOrder, AnswerOrder
<1>2. CASE OpenExecutorPipes \/ ReopenPipes
  <2>1. PICK i \in Workers : i = idx /\ wstate' = [wstate EXCEPT ![i] = "dirs"]
    BY <1>0, <1>2 DEF OpenExecutorPipes, ReopenPipes, OpenPipes
  <2>2. UNCHANGED <<cmd, Answers, shown, cur, toPipe, fromPipe>>
        /\ pc \in {"open", "reopen"} /\ pc' \in {"open", "distribute", "redistribute"}
    BY <1>2 DEF OpenExecutorPipes, ReopenPipes, OpenPipes, consoleVars, roundVars, pipeVars
  <2>3. \A w \in Workers : wstate'[w] = "search" => wstate[w] = "search"
    BY <1>0, <2>1
  <2>4. QED
    BY <1>1, <2>2, <2>3 DEF WorkerOrder, AnswerOrder, InOrder, NewerThan, UpTo
<1>3. CASE DistributePaths \/ DistributePath
  <2>1. PICK i \in Workers : i = idx
    BY <1>0, <1>3 DEF DistributePaths, DistributePath
  <2>2. /\ UNCHANGED <<cmd, Answers, shown, cur, wstate, fromPipe>>
        /\ pc # "send" /\ pc' \in {"distribute", "check", "crashed"}
        /\ toPipe' = toPipe \/ Deliver(i, Dirs)
    BY <1>3, <2>1 DEF DistributePaths, DistributePath, consoleVars, roundVars, workerVars
  <2>3. toPipe[i] = <<>> /\ fromPipe[i] = <<>> /\ wstate[i] # "search"
    BY <1>3, <2>1 DEF DistributePaths, DistributePath, EmptyBeforeLoad, FreshInv, LoadAwaited
  <2>4. toPipe'[i] \in {<<>>, <<Dirs>>} /\ \A w \in Workers \ {i} : toPipe'[w] = toPipe[w]
    <3>1. toPipe' = toPipe \/ toPipe' = [toPipe EXCEPT ![i] = Append(@, Dirs)]
      BY <2>2 DEF Deliver
    <3>2. Append(toPipe[i], Dirs) = <<Dirs>>
      BY <2>3, ShortPipes
    <3>3. QED
      BY <1>0, <2>3, <3>1, <3>2
  <2>5. \A k \in DOMAIN toPipe'[i] : k = 1 /\ toPipe'[i][k] = Dirs
    BY <2>4
  <2>6. WorkerOrder(i)'
    <3>1. Dirs.id = 0 /\ UpTo(i, cmd.id)'
      BY <1>n, <2>2, <2>3, <2>5 DEF UpTo, Dirs
    <3>2. InOrder(i)'
      BY <2>2, <2>3, <2>5 DEF InOrder
    <3>3. NewerThan(i, shown[i])' /\ NewerThan(i, Answers[i])'
      BY <2>2, <2>3, <2>5 DEF NewerThan
    <3>4. pc' # "send"
      BY <2>2
    <3>5. QED
      BY <2>5, <3>1, <3>2, <3>3, <3>4 DEF WorkerOrder
  <2>7. \A w \in Workers \ {i} : WorkerOrder(w)'
    BY <1>1, <2>2, <2>4 DEF WorkerOrder, InOrder, NewerThan, UpTo
  <2>8. \A w \in Workers : AnswerOrder(w)'
    BY <1>1, <2>2 DEF AnswerOrder
  <2>9. QED
    BY <2>6, <2>7, <2>8
<1>4. CASE ReviveChild
  <2>1. PICK i \in Workers : i = idx
    BY <1>0, <1>4 DEF ReviveChild
  <2>2. /\ UNCHANGED <<cmd, Answers, shown, cur>> /\ pc = "check" /\ pc' = "reopen"
        /\ toPipe'[i] = <<>> /\ fromPipe'[i] = <<>> /\ wstate'[i] = "open"
        /\ \A w \in Workers \ {i} : /\ toPipe'[w] = toPipe[w] /\ fromPipe'[w] = fromPipe[w]
                                    /\ wstate'[w] = wstate[w]
    BY <1>0, <1>4, <2>1 DEF ReviveChild, consoleVars, roundVars
  <2>3. WorkerOrder(i)'
    BY <2>2 DEF WorkerOrder, InOrder, NewerThan, UpTo
  <2>4. \A w \in Workers \ {i} : WorkerOrder(w)'
    BY <1>1, <2>2 DEF WorkerOrder, InOrder, NewerThan, UpTo
  <2>5. \A w \in Workers : AnswerOrder(w)'
    BY <1>1, <2>2 DEF AnswerOrder
  <2>6. QED
    BY <2>3, <2>4, <2>5
<1>5. CASE SendToWorker
  <2>1. PICK i \in Workers : i = idx
    BY <1>0, <1>5 DEF SendToWorker
  <2>2. /\ UNCHANGED <<cmd, Answers, shown, cur, wstate, fromPipe>>
        /\ pc = "send" /\ pc' = "send" /\ idx' = idx + 1
        /\ toPipe' = [toPipe EXCEPT ![i] = Append(@, cmd)]
    BY <1>5, <2>1 DEF SendToWorker, Deliver, consoleVars, roundVars, workerVars
  <2>3. \A w \in Workers : w >= idx + 1 => w >= idx
    BY <1>0
  <2>4. \A w \in Workers \ {i} : WorkerOrder(w)'
    <3>1. \A w \in Workers \ {i} : w >= idx + 1 <=> w >= idx
      BY <1>0, <2>1
    <3>2. \A w \in Workers \ {i} : toPipe'[w] = toPipe[w]
      BY <1>0, <2>2
    <3>3. \A w \in Workers \ {i} : WorkerOrder(w)
      BY <1>1
    <3>4. QED
      BY <2>2, <3>1, <3>2, <3>3 DEF WorkerOrder, InOrder, NewerThan, UpTo
  <2>5. WorkerOrder(i)'
    <3>1. UpTo(i, cmd.id - 1) /\ shown[i] < cmd.id /\ Answers[i] < cmd.id /\ ~(i >= idx')
      BY <1>0, <1>1, <2>1, <2>2 DEF WorkerOrder, AnswerOrder
    <3>2. PICK s \in Seq(Message) : s = toPipe[i]
      BY <1>0
    <3>3. toPipe'[i] = Append(s, cmd)
      BY <1>0, <2>2, <3>2
    <3>4. \A k \in DOMAIN Append(s, cmd) :
            \/ k \in DOMAIN s /\ Append(s, cmd)[k] = s[k]
            \/ Append(s, cmd)[k] = cmd /\ \A j \in DOMAIN s : j < k
      BY <1>n, AppendElements
    <3>5. /\ \A k \in DOMAIN s : s[k].id \in Nat
          /\ \A k \in DOMAIN fromPipe[i] : fromPipe[i][k] \in Nat
          /\ cur[i] \in Nat
      BY <1>0, SeqElements, MessageNumber
    <3>6. /\ \A k \in DOMAIN s : s[k].id < cmd.id
          /\ \A k \in DOMAIN fromPipe[i] : fromPipe[i][k] < cmd.id
          /\ wstate[i] = "search" => cur[i] < cmd.id
      <4>1. \A a, b \in Nat : a <= b - 1 => a < b
        OBVIOUS
      <4>2. /\ \A k \in DOMAIN s : s[k].id <= cmd.id - 1
            /\ \A k \in DOMAIN fromPipe[i] : fromPipe[i][k] <= cmd.id - 1
            /\ wstate[i] = "search" => cur[i] <= cmd.id - 1
        BY <3>1, <3>2 DEF UpTo
      <4>3. QED
        BY <1>n, <3>5, <4>1, <4>2
    <3>7. UpTo(i, cmd.id)'
      <4>1. \A a, b \in Nat : a < b => a <= b
        OBVIOUS
      <4>2. \A k \in DOMAIN Append(s, cmd) : Append(s, cmd)[k].id <= cmd.id
        BY <1>n, <3>4, <3>5, <3>6, <4>1
      <4>3. /\ \A k \in DOMAIN fromPipe[i] : fromPipe[i][k] <= cmd.id
            /\ wstate[i] = "search" => cur[i] <= cmd.id
        BY <1>n, <3>5, <3>6, <4>1
      <4>4. QED
        BY <2>2, <3>3, <4>2, <4>3 DEF UpTo
    <3>8. \A j, k \in DOMAIN Append(s, cmd) :
            j < k => Append(s, cmd)[j].id < Append(s, cmd)[k].id
      <4>1. Append(s, cmd) \in Seq(Message)
        BY <1>n
      <4>2. \A j \in DOMAIN Append(s, cmd) : j \in Nat
        BY <4>1, SeqElements
      <4>3. \A j, k \in DOMAIN s : j < k => s[j].id < s[k].id
        BY <1>1, <3>2 DEF WorkerOrder, InOrder
      <4>4. ASSUME NEW j \in DOMAIN Append(s, cmd), NEW k \in DOMAIN Append(s, cmd), j < k
            PROVE  Append(s, cmd)[j].id < Append(s, cmd)[k].id
        <5>1. j \in DOMAIN s
          <6>1. DOMAIN s = 1 .. Len(s) /\ DOMAIN Append(s, cmd) = 1 .. Len(s) + 1
                /\ Len(s) \in Nat
            BY <1>n
          <6>2. QED
            BY <4>4, <6>1
        <5>2. Append(s, cmd)[j] = s[j]
          BY <1>n, <5>1, AppendElements
        <5>3. QED
          BY <3>4, <3>6, <4>3, <4>4, <5>1, <5>2
      <4>5. QED
        BY <4>4
    <3>9. InOrder(i)'
      BY <1>1, <2>2, <3>2, <3>3, <3>4, <3>6, <3>8 DEF WorkerOrder, InOrder
    <3>10. NewerThan(i, shown[i])' /\ NewerThan(i, Answers[i])'
      BY <1>1, <2>2, <3>1, <3>2, <3>3, <3>4 DEF WorkerOrder, NewerThan
    <3>11. \A k \in DOMAIN toPipe'[i] : toPipe'[i][k].kind = "dirs" => toPipe'[i][k] = Dirs
      BY <1>n, <1>1, <3>2, <3>3, <3>4 DEF WorkerOrder
    <3>12. QED
      BY <3>1, <3>7, <3>9, <3>10, <3>11 DEF WorkerOrder
  <2>6. \A w \in Workers : AnswerOrder(w)'
    BY <1>1, <2>2 DEF AnswerOrder
  <2>7. QED
    BY <2>4, <2>5, <2>6
<1>6. CASE SendToAllFails
  <2>1. /\ UNCHANGED <<cmd, Answers, shown, cur, wstate, toPipe, fromPipe>>
        /\ pc = "send" /\ pc' \in {"wait", "check"}
    BY <1>6 DEF SendToAllFails, roundVars, workerVars, pipeVars
  <2>2. \A w \in Workers : UpTo(w, cmd.id)'
    BY <1>1, <2>1, SendBound DEF WorkerOrder, UpTo
  <2>3. QED
    BY <1>1, <2>1, <2>2 DEF WorkerOrder, AnswerOrder, InOrder, NewerThan
<1>7. CASE SentToAll
  <2>1. /\ UNCHANGED <<cmd, shown, cur, wstate, toPipe, fromPipe>>
        /\ pc = "send" /\ pc' \in {"wait", "poll"}
        /\ Answers' = Answers \/ Answers' = [w \in Workers |-> NoAnswer]
        /\ pc' = "poll" => Answers' = [w \in Workers |-> NoAnswer]
    BY <1>7 DEF SentToAll, consoleVars, roundVars, workerVars, pipeVars
  <2>2. \A w \in Workers : UpTo(w, cmd.id)'
    BY <1>1, <2>1, SendBound DEF WorkerOrder, UpTo
  <2>3. \A w \in Workers : NewerThan(w, NoAnswer)
    BY <1>0, <1>1, NewerThanNone DEF WorkerOrder
  <2>4. \A w \in Workers : Answers'[w] \in {Answers[w], NoAnswer}
    BY <2>1
  <2>5. \A w \in Workers : NewerThan(w, shown[w])' /\ NewerThan(w, Answers[w])'
    BY <1>1, <2>1, <2>3, <2>4 DEF WorkerOrder, NewerThan
  <2>6. \A w \in Workers : AnswerOrder(w)'
    BY <1>n, <1>1, <2>1, <2>4 DEF AnswerOrder
  <2>7. QED
    BY <1>1, <2>1, <2>2, <2>5, <2>6 DEF WorkerOrder, InOrder
<1>8. CASE ReceiveAnswer
  <2>1. PICK i \in Workers : i = idx
    BY <1>0, <1>8 DEF ReceiveAnswer
  <2>2. /\ UNCHANGED <<cmd, shown, cur, wstate, toPipe>> /\ pc = "read" /\ pc' = "read"
        /\ fromPipe' = [fromPipe EXCEPT ![i] = Tail(@)]
        /\ Answers' = [Answers EXCEPT ![i] = IF DEADLINE THEN NoAnswer
                                             ELSE Head(fromPipe[i])]
        /\ fromPipe[i] # <<>>
    BY <1>8, <2>1 DEF ReceiveAnswer, ReadyMeansReadable, consoleVars, workerVars
  <2>3. \A w \in Workers \ {i} : WorkerOrder(w)' /\ AnswerOrder(w)'
    <3>1. \A w \in Workers \ {i} : fromPipe'[w] = fromPipe[w] /\ Answers'[w] = Answers[w]
      BY <1>0, <2>2
    <3>2. QED
      BY <1>1, <2>2, <3>1 DEF WorkerOrder, AnswerOrder, InOrder, NewerThan, UpTo
  <2>4. PICK s \in Seq(Nat) : s = fromPipe[i]
    BY <1>0
  <2>5. /\ s # <<>> /\ fromPipe'[i] = Tail(s) /\ Answers'[i] \in {NoAnswer, Head(s)}
    BY <1>0, <2>2, <2>4
  <2>6. /\ 1 \in DOMAIN s /\ Head(s) = s[1]
        /\ \A k \in DOMAIN Tail(s) : /\ k \in Nat /\ k + 1 \in DOMAIN s /\ 1 < k + 1
                                     /\ Tail(s)[k] = s[k + 1]
    BY <2>5, TailElements
  <2>7. InOrder(i)'
    <3>1. \A j, k \in DOMAIN Tail(s) : j < k => Tail(s)[j] < Tail(s)[k]
      <4>1. \A j, k \in DOMAIN Tail(s) : j < k => j + 1 < k + 1
        BY <2>6
      <4>2. \A j, k \in DOMAIN s : j < k => s[j] < s[k]
        BY <1>1, <2>4 DEF WorkerOrder, InOrder
      <4>3. QED
        BY <2>6, <4>1, <4>2
    <3>2. \A k \in DOMAIN Tail(s) : \E j \in DOMAIN fromPipe[i] : Tail(s)[k] = fromPipe[i][j]
      BY <2>4, <2>6
    <3>3. InOrder(i)
      BY <1>1 DEF WorkerOrder
    <3>4. \A j, k \in DOMAIN fromPipe'[i] : j < k => fromPipe'[i][j] < fromPipe'[i][k]
      BY <2>5, <3>1
    <3>5. \A k \in DOMAIN fromPipe'[i] : \E j \in DOMAIN fromPipe[i] :
            fromPipe'[i][k] = fromPipe[i][j]
      BY <2>5, <3>2
    <3>6. QED
      BY <2>2, <3>3, <3>4, <3>5 DEF InOrder
  <2>8. NewerThan(i, NoAnswer) /\ NewerThan(i, shown[i])
    BY <1>0, <1>1, NewerThanNone DEF WorkerOrder
  <2>9. NewerThan(i, NoAnswer)' /\ NewerThan(i, shown[i])'
    BY <2>2, <2>4, <2>5, <2>6, <2>8 DEF NewerThan
  <2>10. PICK h \in Nat : /\ h = Head(s) /\ shown[i] < h /\ h <= cmd.id
                          /\ \A k \in DOMAIN Tail(s) : h < Tail(s)[k]
                          /\ \A k \in DOMAIN toPipe[i] : h < toPipe[i][k].id
                          /\ wstate[i] = "search" => h < cur[i]
    <3>1. Head(s) \in Nat
      BY <2>6, SeqElements
    <3>2. shown[i] < Head(s) /\ Head(s) <= cmd.id
      BY <1>1, <2>2, <2>4, <2>6, <2>8 DEF WorkerOrder, NewerThan, UpTo
    <3>3. /\ \A k \in DOMAIN Tail(s) : Head(s) < Tail(s)[k]
          /\ \A k \in DOMAIN toPipe[i] : Head(s) < toPipe[i][k].id
          /\ wstate[i] = "search" => Head(s) < cur[i]
      BY <1>1, <2>4, <2>6 DEF WorkerOrder, InOrder
    <3>4. QED
      BY <3>1, <3>2, <3>3
  <2>11. NewerThan(i, Answers[i])'
    <3>1. CASE Answers'[i] = NoAnswer
      BY <2>9, <3>1 DEF NewerThan
    <3>2. CASE Answers'[i] = h
      BY <2>2, <2>5, <2>10, <3>2 DEF NewerThan
    <3>3. QED
      BY <2>5, <2>10, <3>1, <3>2
  <2>12. UpTo(i, cmd.id)'
    BY <1>1, <2>2, <2>4, <2>5, <2>6 DEF WorkerOrder, UpTo
  <2>13. WorkerOrder(i)'
    BY <1>1, <2>2, <2>7, <2>9, <2>11, <2>12 DEF WorkerOrder
  <2>14. AnswerOrder(i)'
    BY <1>n, <1>1, <2>2, <2>5, <2>10 DEF AnswerOrder
  <2>15. QED
    BY <2>3, <2>13, <2>14
<1>9. CASE NonResponsive
  <2>1. PICK i \in Workers : i = idx
    BY <1>0, <1>9 DEF NonResponsive
  <2>2. /\ UNCHANGED <<cmd, shown, cur, wstate, toPipe, fromPipe>> /\ pc = "read" /\ pc' = "read"
        /\ Answers' = [Answers EXCEPT ![i] = NoAnswer]
    BY <1>9, <2>1 DEF NonResponsive, consoleVars, workerVars, pipeVars
  <2>3. \A w \in Workers : NewerThan(w, NoAnswer)
    BY <1>0, <1>1, NewerThanNone DEF WorkerOrder
  <2>4. \A w \in Workers : Answers'[w] \in {Answers[w], NoAnswer}
    BY <1>0, <2>2
  <2>5. \A w \in Workers : NewerThan(w, shown[w])' /\ NewerThan(w, Answers[w])'
    BY <1>1, <2>2, <2>3, <2>4 DEF WorkerOrder, NewerThan
  <2>6. \A w \in Workers : AnswerOrder(w)'
    BY <1>n, <1>1, <2>2, <2>4 DEF AnswerOrder
  <2>7. QED
    BY <1>1, <2>2, <2>5, <2>6 DEF WorkerOrder, InOrder, UpTo
<1>10. CASE PrintAnswers
  <2>1. /\ UNCHANGED <<cmd, Answers, cur, wstate, toPipe, fromPipe>>
        /\ pc = "print" /\ pc' \in {"check", "crashed"}
    BY <1>10 DEF PrintAnswers, roundVars, workerVars, pipeVars
  <2>2. \A w \in Workers : shown'[w] \in {shown[w], Answers[w]}
    BY <1>10 DEF PrintAnswers
  <2>3. \A w \in Workers : NewerThan(w, shown[w])' /\ NewerThan(w, Answers[w])'
    BY <1>1, <2>1, <2>2 DEF WorkerOrder, NewerThan
  <2>4. \A w \in Workers : AnswerOrder(w)'
    BY <1>1, <2>1, <2>2 DEF AnswerOrder
  <2>5. QED
    BY <1>1, <2>1, <2>3, <2>4 DEF WorkerOrder, InOrder, UpTo
<1>11. CASE \/ PathsDistributed \/ ChildLives \/ ChildrenChecked
            \/ Poll \/ SkipPipe \/ PollAgain \/ AllAnswered \/ WaitForChildren
  <2>1. /\ UNCHANGED <<cmd, Answers, shown, cur, wstate, toPipe, fromPipe>>
        /\ pc # "send" /\ pc' # "send"
        /\ pc' \in {"poll", "read", "print"} => pc \in {"poll", "read", "print"}
    BY <1>11 DEF PathsDistributed, ChildLives, ChildrenChecked, Poll, SkipPipe, PollAgain,
                 AllAnswered, WaitForChildren, consoleVars, roundVars, workerVars, pipeVars
  <2>2. QED
    BY <1>1, <2>1 DEF WorkerOrder, AnswerOrder, InOrder, NewerThan, UpTo
<1>12. QED
  BY <1>2, <1>3, <1>4, <1>5, <1>6, <1>7, <1>8, <1>9, <1>10, <1>11 DEF ParentStep

\* Every step keeps commands and answers in order.
LEMMA OrderStep ==
  TypeOK /\ ReadyMeansReadable /\ EmptyBeforeLoad /\ FreshInv /\ OrderInv /\ [Next]_vars
    => OrderInv'
<1> SUFFICES ASSUME TypeOK, ReadyMeansReadable, EmptyBeforeLoad, FreshInv, OrderInv,
                    [Next]_vars
             PROVE  OrderInv'
  OBVIOUS
<1>1. \A w \in Workers : WorkerOrder(w) /\ AnswerOrder(w)
  BY DEF OrderInv, WorkerOrder, AnswerOrder
<1>2. ASSUME NEW k \in Kinds, ReadCommand(k) PROVE OrderInv'
  <2>1. /\ UNCHANGED <<Answers, shown, cur, wstate, toPipe, fromPipe>>
        /\ pc = "prompt" /\ pc' = "send" /\ cmd'.id = cmd.id + 1
    BY <1>2 DEF ReadCommand, Goto, roundVars, workerVars, pipeVars
  <2>2. /\ cmd.id \in Nat /\ shown \in [Workers -> Nat] /\ Answers \in [Workers -> Nat]
        /\ \A w \in Workers : /\ toPipe[w] \in Seq(Message) /\ fromPipe[w] \in Seq(Nat)
                              /\ cur[w] \in Nat
    BY BoundAssumption DEF TypeOK, ControlOK, RoundOK, PipesOK, WorkersOK
  <2>3. \A w \in Workers : /\ \A k1 \in DOMAIN toPipe[w] : toPipe[w][k1].id \in Nat
                           /\ \A k1 \in DOMAIN fromPipe[w] : fromPipe[w][k1] \in Nat
    BY <2>2, SeqElements, MessageNumber
  <2>4. \A w \in Workers : UpTo(w, cmd.id)
    BY <1>1, <2>1 DEF WorkerOrder
  <2>5. \A w \in Workers :
          UpTo(w, IF pc = "send" /\ w >= idx THEN cmd.id - 1 ELSE cmd.id)'
    BY <2>1, <2>2, <2>3, <2>4 DEF UpTo
  <2>6. \A w \in Workers : AnswerOrder(w)'
    BY <1>1, <2>1, <2>2 DEF AnswerOrder
  <2>7. \A w \in Workers : WorkerOrder(w)'
    BY <1>1, <2>1, <2>5 DEF WorkerOrder, InOrder, NewerThan
  <2>8. QED
    BY <2>6, <2>7 DEF OrderInv, WorkerOrder, AnswerOrder
<1>3. ASSUME UNCHANGED <<cmd, Answers, shown, cur, wstate, toPipe, fromPipe>>,
             \/ UNCHANGED <<pc, idx>>
             \/ pc = "prompt" /\ pc' = "check"
      PROVE  OrderInv'
  BY <1>1, <1>3 DEF WorkerOrder, AnswerOrder, InOrder, NewerThan, UpTo, OrderInv
<1>4. CASE BadCommand
  BY <1>3, <1>4 DEF BadCommand, Goto, consoleVars, roundVars, workerVars, pipeVars
<1>5. CASE AlarmFires
  BY <1>3, <1>5 DEF AlarmFires, roundVars, pipeVars
<1>6. CASE UNCHANGED vars
  BY <1>3, <1>6 DEF vars, parentVars, consoleVars, roundVars, workerVars, pipeVars
<1>7. ASSUME NEW w \in Workers, WorkerStep(w) \/ Crash(w) PROVE OrderInv'
  <2>1. \A v \in Workers : WorkerOrder(v)'
    BY <1>1, <1>7, OrderWorker
  <2>2. \A v \in Workers : AnswerOrder(v)'
    BY <1>1, <1>7, WorkerLeavesParent DEF AnswerOrder, parentVars, consoleVars, roundVars
  <2>3. QED
    BY <2>1, <2>2 DEF OrderInv, WorkerOrder, AnswerOrder
<1>8. QED
  BY <1>2, <1>4, <1>5, <1>6, <1>7, OrderParent DEF Next, UserStep, Finished

\* Segment by segment is as good as the whole.
LEMMA OrderIsEnough == TypeOK /\ OrderInv => CommandsInOrder
<1> SUFFICES ASSUME TypeOK, OrderInv, NEW w \in Workers
             PROVE  /\ Increasing(Pipeline(w))
                    /\ \A i \in DOMAIN Pipeline(w) : Pipeline(w)[i] <= cmd.id
                    /\ \A i \in DOMAIN fromPipe[w] : fromPipe[w][i] > shown[w]
  BY DEF CommandsInOrder
<1>1. /\ toPipe[w] \in Seq(Message) /\ fromPipe[w] \in Seq(Nat) /\ cur[w] \in Nat
      /\ shown[w] \in Nat /\ cmd.id \in Nat
  BY BoundAssumption DEF TypeOK, PipesOK, WorkersOK, RoundOK, ControlOK
<1>2. /\ InOrder(w) /\ NewerThan(w, shown[w]) /\ UpTo(w, cmd.id)
  BY SendBound DEF OrderInv
<1>3. /\ Ids(w) \in Seq(Nat) /\ DOMAIN Ids(w) = DOMAIN toPipe[w]
      /\ \A i \in DOMAIN toPipe[w] : Ids(w)[i] = toPipe[w][i].id
  <2>1. DOMAIN toPipe[w] = 1 .. Len(toPipe[w]) /\ Len(toPipe[w]) \in Nat
    BY <1>1
  <2>2. \A i \in 1 .. Len(toPipe[w]) : toPipe[w][i].id \in Nat
    BY <1>1, <2>1, SeqElements, MessageNumber
  <2>3. Ids(w) = [i \in 1 .. Len(toPipe[w]) |-> toPipe[w][i].id]
    BY <2>1 DEF Ids
  <2>4. QED
    BY <2>1, <2>2, <2>3
<1>4. Serving(w) \in Seq(Nat) /\ Increasing(Serving(w))
      /\ \A i \in DOMAIN Serving(w) : wstate[w] = "search" /\ Serving(w)[i] = cur[w]
  BY <1>1 DEF Serving, Increasing
<1>5. Increasing(Ids(w)) /\ Increasing(fromPipe[w])
  BY <1>2, <1>3 DEF InOrder, Increasing
<1>6. \A i \in DOMAIN fromPipe[w], j \in DOMAIN Serving(w) : fromPipe[w][i] < Serving(w)[j]
  BY <1>2, <1>4 DEF InOrder
<1>7. /\ fromPipe[w] \o Serving(w) \in Seq(Nat) /\ Increasing(fromPipe[w] \o Serving(w))
      /\ \A i \in DOMAIN (fromPipe[w] \o Serving(w)) :
           \/ \E j \in DOMAIN fromPipe[w] : (fromPipe[w] \o Serving(w))[i] = fromPipe[w][j]
           \/ \E j \in DOMAIN Serving(w) : (fromPipe[w] \o Serving(w))[i] = Serving(w)[j]
  BY <1>1, <1>4, <1>5, <1>6, ConcatIncreasing, ConcatElements
<1>8. PICK s \in Seq(Nat) : s = fromPipe[w] \o Serving(w)
  BY <1>7
<1>9. \A i \in DOMAIN s, j \in DOMAIN Ids(w) : s[i] < Ids(w)[j]
  <2>1. \A i \in DOMAIN fromPipe[w], j \in DOMAIN Ids(w) : fromPipe[w][i] < Ids(w)[j]
    BY <1>2, <1>3 DEF InOrder
  <2>2. \A i \in DOMAIN Serving(w), j \in DOMAIN Ids(w) : Serving(w)[i] < Ids(w)[j]
    BY <1>2, <1>3, <1>4 DEF InOrder
  <2>3. \A i \in DOMAIN s : \/ \E j \in DOMAIN fromPipe[w] : s[i] = fromPipe[w][j]
                          \/ \E j \in DOMAIN Serving(w) : s[i] = Serving(w)[j]
    BY <1>7, <1>8
  <2>4. QED
    BY <2>1, <2>2, <2>3
<1>10. /\ Increasing(s \o Ids(w))
       /\ \A i \in DOMAIN (s \o Ids(w)) :
            \/ \E j \in DOMAIN s : (s \o Ids(w))[i] = s[j]
            \/ \E j \in DOMAIN Ids(w) : (s \o Ids(w))[i] = Ids(w)[j]
  <2>1. PICK t \in Seq(Nat) : t = Ids(w)
    BY <1>3
  <2>2. Increasing(s) /\ Increasing(t) /\ \A i \in DOMAIN s, j \in DOMAIN t : s[i] < t[j]
    BY <1>5, <1>7, <1>8, <1>9, <2>1
  <2>3. Increasing(s \o t)
    BY <2>2, ConcatIncreasing
  <2>4. \A i \in DOMAIN (s \o t) : \/ \E j \in DOMAIN s : (s \o t)[i] = s[j]
                                   \/ \E j \in DOMAIN t : (s \o t)[i] = t[j]
    BY ConcatElements
  <2>5. QED
    BY <2>1, <2>3, <2>4
<1>11. Pipeline(w) = s \o Ids(w)
  BY <1>8 DEF Pipeline
<1>12. \A i \in DOMAIN s : s[i] <= cmd.id
  BY <1>2, <1>4, <1>7, <1>8 DEF UpTo
<1>13. \A j \in DOMAIN Ids(w) : Ids(w)[j] <= cmd.id
  BY <1>2, <1>3 DEF UpTo
<1>14. \A i \in DOMAIN fromPipe[w] : fromPipe[w][i] > shown[w]
  BY <1>1, <1>2, SeqElements DEF NewerThan
<1>15. QED
  BY <1>10, <1>11, <1>12, <1>13, <1>14

\* The segments of every pipeline are increasing, whatever failed before.
THEOREM SegmentsInOrder == Spec => []OrderInv
<1>1. Init => OrderInv
  BY BoundAssumption DEF Init, OrderInv, InOrder, NewerThan, UpTo
<1>2. RoundInv => EmptyBeforeLoad
  BY DEF RoundInv
<1>3. QED
  BY <1>1, <1>2, OrderStep, TypesAndReadiness, RoundsDoNotOverlap, FreshUntilLoaded, PTL
     DEF Spec

\* Every worker answers each command at most once and in the order typed, and
\* nothing it still has to say is older than what was shown of it: the fresh
\* pipes of CheckChildren and the order of the broadcasts suffice.
THEOREM CommandsStayInOrder == Spec => []CommandsInOrder
BY OrderIsEnough, TypesAndReadiness, SegmentsInOrder, PTL
-----------------------------------------------------------------------------
(* The session as the abstract service *)

\* The phase of the service is a function of where the jobExecutor is and of the
\* kind of the command.
LEMMA PhaseOf ==
  /\ pc \in {"open", "distribute", "check", "reopen", "redistribute", "prompt"}
       => phase = "ready"
  /\ pc \in {"poll", "read", "print"} => phase = "busy"
  /\ pc = "send" => phase = IF cmd.kind = "exit" THEN "closing" ELSE "busy"
  /\ pc = "wait" => phase = "closing"
  /\ pc = "done" => phase = "closed"
  /\ pc = "crashed" => phase = "failed"
BY DEF phase

\* The same of the next state.
LEMMA NextPhaseOf ==
  /\ pc' \in {"open", "distribute", "check", "reopen", "redistribute", "prompt"}
       => phase' = "ready"
  /\ pc' \in {"poll", "read", "print"} => phase' = "busy"
  /\ pc' = "send" => phase' = IF cmd'.kind = "exit" THEN "closing" ELSE "busy"
  /\ pc' = "wait" => phase' = "closing"
  /\ pc' = "done" => phase' = "closed"
  /\ pc' = "crashed" => phase' = "failed"
BY DEF phase

\* A session starts as one of the service.
LEMMA ServiceInit == Init => Service!Init
BY PhaseOf DEF Init, Service!Init

\* The jobExecutor's own steps.  Only a command's beginning, its end and its
\* diagnostics can be seen from outside.
LEMMA ServiceParent ==
  TypeOK /\ OrderInv /\ NoStaleAnswer /\ ParentStep => [Service!Next]_(Service!vars)
<1> SUFFICES ASSUME TypeOK, OrderInv, NoStaleAnswer, ParentStep
             PROVE  [Service!Next]_(Service!vars)
  OBVIOUS
<1> USE DEF Goto
<1>1. CASE \/ OpenExecutorPipes \/ DistributePaths \/ PathsDistributed
           \/ ChildLives \/ ReviveChild \/ ReopenPipes \/ ChildrenChecked
  <2>1. /\ UNCHANGED <<cmd, clean, shown>>
        /\ pc \in {"open", "distribute", "check", "reopen"}
        /\ pc' \in {"open", "distribute", "check", "reopen", "redistribute", "prompt"}
    BY <1>1 DEF OpenExecutorPipes, OpenPipes, DistributePaths, PathsDistributed, ChildLives,
                ReviveChild, ReopenPipes, ChildrenChecked, consoleVars
  <2>2. QED
    BY <2>1, PhaseOf, NextPhaseOf DEF Service!vars
<1>2. CASE DistributePath
  <2>1. UNCHANGED <<cmd, clean, shown>> /\ pc = "redistribute" /\ pc' \in {"check", "crashed"}
    BY <1>2 DEF DistributePath, consoleVars
  <2>2. CASE pc' = "check"
    BY <2>1, <2>2, PhaseOf, NextPhaseOf DEF Service!vars
  <2>3. CASE pc' = "crashed"
    <3>1. Service!Fail
      BY <2>1, <2>3, PhaseOf, NextPhaseOf DEF Service!Fail
    <3>2. QED
      BY <3>1 DEF Service!Next
  <2>4. QED
    BY <2>1, <2>2, <2>3
<1>3. CASE SendToWorker \/ SentToAll
  <2>1. UNCHANGED <<cmd, clean, shown>> /\ pc = "send"
        /\ pc' \in {"send", IF cmd.kind = "exit" THEN "wait" ELSE "poll"}
    BY <1>3 DEF SendToWorker, SentToAll, consoleVars
  <2>2. QED
    BY <2>1, PhaseOf, NextPhaseOf DEF Service!vars
<1>4. CASE SendToAllFails
  <2>1. UNCHANGED <<cmd, shown>> /\ pc = "send"
    BY <1>4 DEF SendToAllFails
  <2>2. CASE cmd.kind = "exit"
    <3>1. pc' = "wait" /\ clean' = clean
      BY <1>4, <2>2 DEF SendToAllFails
    <3>2. QED
      BY <2>1, <2>2, <3>1, PhaseOf, NextPhaseOf DEF Service!vars
  <2>3. CASE cmd.kind # "exit"
    <3>1. pc' = "check" /\ clean' = FALSE
      BY <1>4, <2>3 DEF SendToAllFails
    <3>2. Service!Refuse
      BY <2>1, <2>3, <3>1, PhaseOf, NextPhaseOf DEF Service!Refuse
    <3>3. QED
      BY <3>2 DEF Service!Next
  <2>4. QED
    BY <2>2, <2>3
<1>5. CASE Poll \/ ReceiveAnswer \/ NonResponsive \/ SkipPipe \/ PollAgain
  <2>1. UNCHANGED <<cmd, clean, shown>> /\ pc \in {"poll", "read"} /\ pc' \in {"poll", "read"}
    BY <1>5 DEF Poll, ReceiveAnswer, NonResponsive, SkipPipe, PollAgain, consoleVars
  <2>2. QED
    BY <2>1, PhaseOf, NextPhaseOf DEF Service!vars
<1>6. CASE AllAnswered
  <2>1. UNCHANGED <<cmd, shown>> /\ pc = "read" /\ pc' = "print"
        /\ clean' = (clean /\ numAnswers >= N)
    BY <1>6 DEF AllAnswered
  <2>2. clean' = clean \/ clean' = FALSE
    BY <2>1 DEF TypeOK, ControlOK
  <2>3. CASE clean' = clean
    BY <2>1, <2>3, PhaseOf, NextPhaseOf DEF Service!vars
  <2>4. CASE clean' = FALSE
    <3>1. Service!Warn
      BY <2>1, <2>4, PhaseOf, NextPhaseOf DEF Service!Warn
    <3>2. QED
      BY <3>1 DEF Service!Next
  <2>5. QED
    BY <2>2, <2>3, <2>4
<1>7. CASE PrintAnswers
  <2>1. UNCHANGED <<cmd, clean>> /\ pc = "print"
        /\ \/ pc' = "crashed" /\ shown' = shown
           \/ /\ pc' = "check"
              /\ shown' = [w \in Workers |-> IF Answers[w] = NoAnswer THEN shown[w]
                                                                     ELSE Answers[w]]
    BY <1>7 DEF PrintAnswers
  <2>2. CASE pc' = "crashed" /\ shown' = shown
    <3>1. Service!Fail
      BY <2>1, <2>2, PhaseOf, NextPhaseOf DEF Service!Fail
    <3>2. QED
      BY <3>1 DEF Service!Next
  <2>3. CASE /\ pc' = "check"
             /\ shown' = [w \in Workers |-> IF Answers[w] = NoAnswer THEN shown[w]
                                                                    ELSE Answers[w]]
    <3>1. ASSUME NEW w \in Workers, shown'[w] # shown[w]
          PROVE  IF clean THEN shown'[w] = cmd.id ELSE shown'[w] \in shown[w] + 1 .. cmd.id
      <4>1. shown'[w] = Answers[w] /\ Answers[w] # NoAnswer
        BY <2>3, <3>1
      <4>2. clean => Answers[w] = cmd.id
        BY <2>1, <4>1 DEF NoStaleAnswer
      <4>3. shown[w] < Answers[w] /\ Answers[w] <= cmd.id
        BY <2>1, <4>1 DEF OrderInv
      <4>4. shown[w] \in Nat /\ Answers[w] \in Nat /\ cmd.id \in Nat
        BY BoundAssumption DEF TypeOK, RoundOK, ControlOK
      <4>5. QED
        BY <4>1, <4>2, <4>3, <4>4
    <3>2. DOMAIN shown' = Workers
      BY <2>3
    <3>3. Service!Respond
      BY <2>1, <2>3, <3>1, <3>2, PhaseOf, NextPhaseOf DEF Service!Respond
    <3>4. QED
      BY <3>3 DEF Service!Next
  <2>4. QED
    BY <2>1, <2>2, <2>3
<1>8. CASE WaitForChildren
  <2>1. UNCHANGED <<cmd, clean, shown>> /\ pc = "wait" /\ pc' = "done"
    BY <1>8 DEF WaitForChildren, consoleVars
  <2>2. Service!Close
    BY <2>1, PhaseOf, NextPhaseOf DEF Service!Close
  <2>3. QED
    BY <2>2 DEF Service!Next
<1>9. QED
  BY <1>1, <1>2, <1>3, <1>4, <1>5, <1>6, <1>7, <1>8 DEF ParentStep

\* Every step of the system.
LEMMA ServiceStep ==
  TypeOK /\ OrderInv /\ NoStaleAnswer /\ [Next]_vars => [Service!Next]_(Service!vars)
<1> SUFFICES ASSUME TypeOK, OrderInv, NoStaleAnswer, [Next]_vars
             PROVE  [Service!Next]_(Service!vars)
  OBVIOUS
<1>1. ASSUME UNCHANGED <<pc, cmd, clean, shown>> PROVE [Service!Next]_(Service!vars)
  BY <1>1 DEF Service!vars, phase
<1>2. ASSUME NEW k \in Kinds, ReadCommand(k) PROVE [Service!Next]_(Service!vars)
  <2>1. UNCHANGED <<clean, shown>> /\ pc = "prompt" /\ pc' = "send"
        /\ cmd' = [kind |-> k, id |-> cmd.id + 1]
    BY <1>2 DEF ReadCommand, Goto
  <2>2. CASE k = "exit"
    <3>1. Service!Leave
      BY <2>1, <2>2, PhaseOf, NextPhaseOf DEF Service!Leave
    <3>2. QED
      BY <3>1 DEF Service!Next
  <2>3. CASE k # "exit"
    <3>1. Service!Ask
      BY <2>1, <2>3, PhaseOf, NextPhaseOf DEF Service!Ask
    <3>2. QED
      BY <3>1 DEF Service!Next
  <2>4. QED
    BY <2>2, <2>3
<1>3. CASE BadCommand
  <2>1. UNCHANGED <<cmd, clean, shown>> /\ pc = "prompt" /\ pc' = "check"
    BY <1>3 DEF BadCommand, Goto, consoleVars
  <2>2. QED
    BY <2>1, PhaseOf, NextPhaseOf DEF Service!vars
<1>4. CASE AlarmFires
  BY <1>1, <1>4 DEF AlarmFires
<1>5. ASSUME NEW w \in Workers, WorkerStep(w) \/ Crash(w)
      PROVE  [Service!Next]_(Service!vars)
  BY <1>1, <1>5, WorkerLeavesParent DEF parentVars, consoleVars
<1>6. CASE UNCHANGED vars
  BY <1>1, <1>6 DEF vars, parentVars, consoleVars
<1>7. QED
  BY <1>2, <1>3, <1>4, <1>5, <1>6, ServiceParent DEF Next, UserStep, Finished

\* Every session of the jobExecutor, with any deaths and deadlines, is a session
\* of the service: commands are served one at a time, no answer is shown twice
\* or after a newer one, and none for the wrong command before a diagnostic.
THEOREM ServiceImplemented == Spec => ImplementsService
BY ServiceInit, ServiceStep, TypesAndReadiness, SegmentsInOrder, NoStaleAnswers, PTL
   DEF Spec, ImplementsService, Service!Spec

=============================================================================

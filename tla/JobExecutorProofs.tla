------------------------- MODULE JobExecutorProofs -------------------------
(***************************************************************************)
(* Theorems about JobExecutor, for every number of workers, paths and      *)
(* commands, every choice of commands and deadlines, and any number of     *)
(* deaths.                                                                 *)
(***************************************************************************)
EXTENDS JobExecutor, FiniteSetTheorems, SequenceTheorems, TLAPS

USE DEF Workers, NoAnswer, CommandKinds, LoadAwaited

-----------------------------------------------------------------------------
(* Type correctness *)

\* A step that leaves the variables of a part alone keeps its types.
LEMMA SameRound == RoundOK /\ UNCHANGED <<roundVars, shown>> => RoundOK'
BY DEF RoundOK, roundVars

LEMMA SameWorkers == WorkersOK /\ UNCHANGED workerVars => WorkersOK'
BY DEF WorkersOK, workerVars

LEMMA SamePipes == PipesOK /\ UNCHANGED pipeVars => PipesOK'
BY DEF PipesOK, pipeVars

\* A message written to a worker keeps the pipes well typed, read or lost.
LEMMA DeliverType ==
  ASSUME NEW w \in Workers, NEW m \in Message, PipesOK, Deliver(w, m),
         UNCHANGED fromPipe
  PROVE  PipesOK'
<1>1. CASE Alive(w)
  BY <1>1 DEF Deliver, PipesOK
<1>2. CASE ~Alive(w)
  BY <1>2 DEF Deliver, PipesOK
<1>3. QED
  BY <1>1, <1>2

\* Every step of the jobExecutor keeps the types.  ReceiveAnswer does because
\* poll's snapshot is still true of the pipe it reads (ReadyMeansReadable).
LEMMA ParentType == TypeOK /\ ReadyMeansReadable /\ ParentStep => TypeOK'
<1> SUFFICES ASSUME TypeOK, ReadyMeansReadable, ParentStep PROVE TypeOK'
  OBVIOUS
<1> USE CountAssumption DEF TypeOK, Goto
<1>1. CASE OpenExecutorPipes
  <2>1. ControlOK'
    BY <1>1 DEF OpenExecutorPipes, OpenPipes, ControlOK, consoleVars
  <2>2. RoundOK' /\ PipesOK'
    BY <1>1, SameRound, SamePipes DEF OpenExecutorPipes, OpenPipes
  <2>3. WorkersOK'
    BY <1>1 DEF OpenExecutorPipes, OpenPipes, ControlOK, WorkersOK
  <2>4. QED
    BY <2>1, <2>2, <2>3
<1>2. CASE DistributePaths
  <2>1. ControlOK'
    BY <1>2 DEF DistributePaths, ControlOK, consoleVars
  <2>2. RoundOK' /\ WorkersOK'
    BY <1>2, SameRound, SameWorkers DEF DistributePaths
  <2>3. PipesOK'
    BY <1>2, DeliverType DEF DistributePaths, Dirs, Message, ControlOK
  <2>4. QED
    BY <2>1, <2>2, <2>3
<1>3. CASE PathsDistributed
  <2>1. ControlOK'
    BY <1>3 DEF PathsDistributed, ControlOK, consoleVars
  <2>2. RoundOK' /\ WorkersOK' /\ PipesOK'
    BY <1>3, SameRound, SameWorkers, SamePipes DEF PathsDistributed
  <2>3. QED
    BY <2>1, <2>2
<1>4. CASE ChildLives
  <2>1. ControlOK'
    BY <1>4 DEF ChildLives, ControlOK, consoleVars
  <2>2. RoundOK' /\ WorkersOK' /\ PipesOK'
    BY <1>4, SameRound, SameWorkers, SamePipes DEF ChildLives
  <2>3. QED
    BY <2>1, <2>2
<1>5. CASE ReviveChild
  <2>1. ControlOK'
    BY <1>5 DEF ReviveChild, ControlOK, consoleVars
  <2>2. RoundOK'
    BY <1>5, SameRound DEF ReviveChild
  <2>3. WorkersOK'
    BY <1>5 DEF ReviveChild, ControlOK, WorkersOK
  <2>4. PipesOK'
    BY <1>5 DEF ReviveChild, ControlOK, PipesOK
  <2>5. QED
    BY <2>1, <2>2, <2>3, <2>4
<1>6. CASE ReopenPipes
  <2>1. ControlOK'
    BY <1>6 DEF ReopenPipes, OpenPipes, ControlOK, consoleVars
  <2>2. RoundOK' /\ PipesOK'
    BY <1>6, SameRound, SamePipes DEF ReopenPipes, OpenPipes
  <2>3. WorkersOK'
    BY <1>6 DEF ReopenPipes, OpenPipes, ControlOK, WorkersOK
  <2>4. QED
    BY <2>1, <2>2, <2>3
<1>7. CASE DistributePath
  <2>1. RoundOK' /\ WorkersOK'
    BY <1>7, SameRound, SameWorkers DEF DistributePath
  <2>2. PipesOK'
    <3>1. Deliver(idx, Dirs) \/ UNCHANGED toPipe
      BY <1>7 DEF DistributePath
    <3>2. UNCHANGED fromPipe
      BY <1>7 DEF DistributePath
    <3>3. QED
      BY <1>7, <3>1, <3>2, DeliverType, SamePipes
         DEF DistributePath, ControlOK, Dirs, Message, pipeVars
  <2>3. ControlOK'
    <3>1. (pc' = "check" /\ idx' = idx + 1) \/ (pc' = "crashed" /\ idx' = idx)
      BY <1>7 DEF DistributePath
    <3>2. QED
      BY <1>7, <3>1 DEF DistributePath, ControlOK, consoleVars
  <2>4. QED
    BY <2>1, <2>2, <2>3
<1>8. CASE ChildrenChecked
  <2>1. ControlOK'
    BY <1>8 DEF ChildrenChecked, ControlOK, consoleVars
  <2>2. RoundOK' /\ WorkersOK' /\ PipesOK'
    BY <1>8, SameRound, SameWorkers, SamePipes DEF ChildrenChecked
  <2>3. QED
    BY <2>1, <2>2
<1>9. CASE SendToWorker
  <2>1. ControlOK'
    BY <1>9 DEF SendToWorker, ControlOK, consoleVars
  <2>2. RoundOK' /\ WorkersOK'
    BY <1>9, SameRound, SameWorkers DEF SendToWorker
  <2>3. PipesOK'
    BY <1>9, DeliverType DEF SendToWorker, Message, ControlOK
  <2>4. QED
    BY <2>1, <2>2, <2>3
<1>10. CASE SendToAllFails
  <2>1. RoundOK' /\ WorkersOK' /\ PipesOK'
    BY <1>10, SameRound, SameWorkers, SamePipes DEF SendToAllFails
  <2>2. pc' \in {"wait", "check"} /\ idx' = 0
    BY <1>10 DEF SendToAllFails
  <2>3. armed' \in BOOLEAN /\ clean' \in BOOLEAN
    BY <1>10 DEF SendToAllFails, ControlOK
  <2>4. ControlOK'
    BY <1>10, <2>2, <2>3 DEF SendToAllFails, ControlOK
  <2>5. QED
    BY <2>1, <2>4
<1>11. CASE SentToAll
  <2>1. ControlOK'
    BY <1>11 DEF SentToAll, ControlOK, consoleVars
  <2>2. WorkersOK' /\ PipesOK'
    BY <1>11, SameWorkers, SamePipes DEF SentToAll
  <2>3. CASE cmd.kind = "exit"
    BY <1>11, <2>1, <2>2, <2>3, SameRound DEF SentToAll
  <2>4. CASE cmd.kind # "exit"
    <3>1. RoundOK'
      BY <1>11, <2>4 DEF SentToAll, RoundOK
    <3>2. QED
      BY <2>1, <2>2, <3>1
  <2>5. QED
    BY <2>3, <2>4
<1>12. CASE Poll
  <2>1. ControlOK'
    BY <1>12 DEF Poll, ControlOK, consoleVars
  <2>2. WorkersOK' /\ PipesOK'
    BY <1>12, SameWorkers, SamePipes DEF Poll
  <2>3. RoundOK'
    BY <1>12 DEF Poll, Readiness, RoundOK
  <2>4. QED
    BY <2>1, <2>2, <2>3
<1>13. CASE ReceiveAnswer
  <2>1. ControlOK'
    BY <1>13 DEF ReceiveAnswer, ControlOK, consoleVars
  <2>2. WorkersOK'
    BY <1>13, SameWorkers DEF ReceiveAnswer
  <2>3. idx \in Workers
    BY <1>13 DEF ReceiveAnswer, ControlOK
  <2>4. fromPipe[idx] # <<>> /\ fromPipe[idx] \in Seq(Nat)
    <3>1. idx >= idx /\ revents[idx] = "IN" /\ pc = "read"
      BY <1>13, <2>3 DEF ReceiveAnswer
    <3>2. fromPipe[idx] # <<>>
      BY <2>3, <3>1 DEF ReadyMeansReadable
    <3>3. QED
      BY <2>3, <3>2 DEF PipesOK
  <2>5. Head(fromPipe[idx]) \in Nat /\ Tail(fromPipe[idx]) \in Seq(Nat)
    BY <2>4
  <2>6. RoundOK'
    <3>1. Answers' \in [Workers -> Nat]
      <4>1. (IF DEADLINE THEN NoAnswer ELSE Head(fromPipe[idx])) \in Nat
        BY <2>5
      <4>2. QED
        BY <1>13, <4>1 DEF ReceiveAnswer, RoundOK
    <3>2. QED
      BY <1>13, <3>1 DEF ReceiveAnswer, RoundOK
  <2>7. PipesOK'
    BY <1>13, <2>5 DEF ReceiveAnswer, PipesOK
  <2>8. QED
    BY <2>1, <2>2, <2>6, <2>7
<1>14. CASE NonResponsive
  <2>1. ControlOK'
    BY <1>14 DEF NonResponsive, ControlOK, consoleVars
  <2>2. WorkersOK' /\ PipesOK'
    BY <1>14, SameWorkers, SamePipes DEF NonResponsive
  <2>3. RoundOK'
    BY <1>14 DEF NonResponsive, ControlOK, RoundOK
  <2>4. QED
    BY <2>1, <2>2, <2>3
<1>15. CASE SkipPipe
  <2>1. ControlOK'
    BY <1>15 DEF SkipPipe, ControlOK, consoleVars
  <2>2. RoundOK' /\ WorkersOK' /\ PipesOK'
    BY <1>15, SameRound, SameWorkers, SamePipes DEF SkipPipe
  <2>3. QED
    BY <2>1, <2>2
<1>16. CASE PollAgain
  <2>1. ControlOK'
    BY <1>16 DEF PollAgain, ControlOK, consoleVars
  <2>2. RoundOK' /\ WorkersOK' /\ PipesOK'
    BY <1>16, SameRound, SameWorkers, SamePipes DEF PollAgain
  <2>3. QED
    BY <2>1, <2>2
<1>17. CASE AllAnswered
  <2>1. ControlOK'
    BY <1>17 DEF AllAnswered, ControlOK, consoleVars
  <2>2. RoundOK' /\ WorkersOK' /\ PipesOK'
    BY <1>17, SameRound, SameWorkers, SamePipes DEF AllAnswered
  <2>3. QED
    BY <2>1, <2>2
<1>18. CASE PrintAnswers
  <2>1. WorkersOK' /\ PipesOK'
    BY <1>18, SameWorkers, SamePipes DEF PrintAnswers
  <2>2. pc' \in {"check", "crashed"} /\ idx' = 0
    BY <1>18 DEF PrintAnswers
  <2>3. armed' \in BOOLEAN /\ DEADLINE' \in BOOLEAN
    BY <1>18 DEF PrintAnswers, ControlOK
  <2>4. ControlOK'
    BY <1>18, <2>2, <2>3 DEF PrintAnswers, ControlOK
  <2>5. shown' = shown \/ shown' = [w \in Workers |->
                           IF Answers[w] = NoAnswer THEN shown[w] ELSE Answers[w]]
    BY <1>18 DEF PrintAnswers
  <2>6. RoundOK'
    BY <1>18, <2>5 DEF PrintAnswers, RoundOK, roundVars
  <2>7. QED
    BY <2>1, <2>4, <2>6
<1>19. CASE WaitForChildren
  <2>1. ControlOK'
    BY <1>19 DEF WaitForChildren, ControlOK, consoleVars
  <2>2. RoundOK' /\ WorkersOK' /\ PipesOK'
    BY <1>19, SameRound, SameWorkers, SamePipes DEF WaitForChildren
  <2>3. QED
    BY <2>1, <2>2
<1>20. QED
  BY <1>1, <1>2, <1>3, <1>4, <1>5, <1>6, <1>7, <1>8, <1>9, <1>10, <1>11, <1>12, <1>13, <1>14, <1>15, <1>16, <1>17, <1>18, <1>19 DEF ParentStep

\* A death keeps the types.
LEMMA DieType ==
  ASSUME NEW w \in Workers, RoundOK, WorkersOK, PipesOK, Die(w)
  PROVE  RoundOK' /\ WorkersOK' /\ PipesOK'
<1>1. RoundOK'
  BY SameRound DEF Die, parentVars
<1>2. WorkersOK'
  BY DEF Die, WorkersOK
<1>3. PipesOK'
  BY DEF Die, PipesOK
<1>4. QED
  BY <1>1, <1>2, <1>3

\* Workers change no variable of the jobExecutor.
LEMMA WorkerLeavesParent ==
  ASSUME NEW w \in Workers, WorkerStep(w) \/ Crash(w)
  PROVE  UNCHANGED parentVars
BY DEF WorkerStep, ReceiveDirs, BeginSearch, AnswerSearch, WithholdAnswer, EndSearch,
       AnswerOther, HandleExit, DeliverSIGUSR1, Crash, Die

\* Every step of a worker, its death included, keeps the types.
LEMMA WorkerType ==
  ASSUME NEW w \in Workers, TypeOK, WorkerStep(w) \/ Crash(w)
  PROVE  TypeOK'
<1> USE DEF TypeOK
<1>1. ControlOK' /\ RoundOK'
  <2>1. crashes' \in 0 .. MaxCrashes
    BY BoundAssumption
       DEF ControlOK, WorkerStep, ReceiveDirs, BeginSearch, AnswerSearch, WithholdAnswer,
           EndSearch, AnswerOther, HandleExit, DeliverSIGUSR1, Crash
  <2>2. QED
    BY <2>1, WorkerLeavesParent, SameRound DEF ControlOK, parentVars, consoleVars
<1>2. toPipe[w] # <<>> =>
        Head(toPipe[w]) \in Message /\ Tail(toPipe[w]) \in Seq(Message)
  BY DEF PipesOK
<1>3. CASE ReceiveDirs(w)
  <2>1. CASE Head(toPipe[w]).kind = "dirs"
    BY <1>1, <1>2, <1>3, <2>1 DEF ReceiveDirs, Receives, Consume, WorkersOK, PipesOK
  <2>2. CASE Head(toPipe[w]).kind # "dirs"
    BY <1>1, <1>3, <2>2, DieType DEF ReceiveDirs
  <2>3. QED
    BY <2>1, <2>2
<1>4. CASE BeginSearch(w)
  <2>1. WorkersOK'
    BY <1>2, <1>4 DEF BeginSearch, Receives, WorkersOK, Message
  <2>2. PipesOK'
    BY <1>2, <1>4 DEF BeginSearch, Receives, Consume, PipesOK
  <2>3. QED
    BY <1>1, <2>1, <2>2
<1>5. CASE AnswerSearch(w)
  <2>1. WorkersOK'
    BY <1>5 DEF AnswerSearch, WorkersOK
  <2>2. PipesOK'
    BY <1>5 DEF AnswerSearch, Reply, WorkersOK, PipesOK
  <2>3. QED
    BY <1>1, <2>1, <2>2
<1>6. CASE WithholdAnswer(w)
  BY <1>1, <1>6, SamePipes DEF WithholdAnswer, WorkersOK
<1>7. CASE EndSearch(w)
  BY <1>1, <1>7, SamePipes DEF EndSearch, WorkersOK
<1>8. CASE AnswerOther(w)
  <2>1. Head(toPipe[w]).id \in Nat /\ Tail(toPipe[w]) \in Seq(Message)
    BY <1>2, <1>8 DEF AnswerOther, Receives, Message
  <2>2. PipesOK'
    <3>1. /\ toPipe' = [toPipe EXCEPT ![w] = Tail(@)]
          /\ fromPipe' = [fromPipe EXCEPT ![w] = Append(@, Head(toPipe[w]).id)]
      BY <1>8 DEF AnswerOther, Consume, Reply
    <3>2. toPipe' \in [Workers -> Seq(Message)]
      BY <2>1, <3>1 DEF PipesOK
    <3>3. fromPipe' \in [Workers -> Seq(Nat)]
      BY <2>1, <3>1 DEF PipesOK
    <3>4. QED
      BY <3>2, <3>3 DEF PipesOK
  <2>3. QED
    BY <1>1, <1>8, <2>2, SameWorkers DEF AnswerOther
<1>9. CASE HandleExit(w)
  BY <1>1, <1>9, DieType DEF HandleExit
<1>10. CASE DeliverSIGUSR1(w)
  <2>1. CASE wstate[w] \in {"search", "answered"}
    BY <1>1, <1>10, <2>1, SamePipes DEF DeliverSIGUSR1, WorkersOK
  <2>2. CASE wstate[w] \notin {"search", "answered"}
    BY <1>1, <1>10, <2>2, DieType DEF DeliverSIGUSR1
  <2>3. QED
    BY <2>1, <2>2
<1>11. CASE Crash(w)
  BY <1>1, <1>11, DieType DEF Crash
<1>12. QED
  BY <1>3, <1>4, <1>5, <1>6, <1>7, <1>8, <1>9, <1>10, <1>11 DEF WorkerStep

\* Only the jobExecutor takes answers out of a pipe, and it takes one per snapshot.
LEMMA StepReady == TypeOK /\ ReadyMeansReadable /\ [Next]_vars => ReadyMeansReadable'
<1> SUFFICES ASSUME TypeOK, ReadyMeansReadable, [Next]_vars PROVE ReadyMeansReadable'
  OBVIOUS
<1> USE CountAssumption DEF TypeOK, Goto
<1>1. ASSUME NEW w \in Workers, WorkerStep(w) \/ Crash(w) PROVE ReadyMeansReadable'
  <2>1. UNCHANGED <<pc, idx, revents>>
    BY <1>1, WorkerLeavesParent DEF parentVars, roundVars
  <2>2. \A v \in Workers : fromPipe[v] # <<>> => fromPipe'[v] # <<>>
    <3>1. CASE AnswerSearch(w) \/ AnswerOther(w)
      BY <3>1 DEF AnswerSearch, AnswerOther, Reply, PipesOK
    <3>2. CASE ~(AnswerSearch(w) \/ AnswerOther(w))
      BY <1>1, <3>2
         DEF WorkerStep, ReceiveDirs, BeginSearch, WithholdAnswer, EndSearch,
             HandleExit, DeliverSIGUSR1, Crash, Die, pipeVars
    <3>3. QED
      BY <3>1, <3>2
  <2>3. QED
    BY <2>1, <2>2 DEF ReadyMeansReadable
<1>2. CASE Poll
  BY <1>2 DEF Poll, Readiness, ReadyMeansReadable, pipeVars
<1>3. CASE ReceiveAnswer
  <2>1. \A w \in Workers : w >= idx + 1 => w >= idx /\ fromPipe'[w] = fromPipe[w]
    BY <1>3 DEF ReceiveAnswer, ControlOK, PipesOK
  <2>2. QED
    BY <1>3, <2>1 DEF ReceiveAnswer, ReadyMeansReadable
<1>4. CASE NonResponsive
  BY <1>4 DEF NonResponsive, ReadyMeansReadable, ControlOK, pipeVars
<1>5. CASE SkipPipe
  BY <1>5 DEF SkipPipe, ReadyMeansReadable, ControlOK, roundVars, pipeVars
<1>6. CASE AlarmFires
  BY <1>6 DEF AlarmFires, ReadyMeansReadable, roundVars, pipeVars
<1>7. CASE UNCHANGED vars
  BY <1>7 DEF vars, parentVars, roundVars, pipeVars, ReadyMeansReadable
<1>8. CASE UserStep
  BY <1>8 DEF UserStep, BadCommand, ReadCommand, ReadyMeansReadable
<1>9. CASE ParentStep /\ ~(Poll \/ ReceiveAnswer \/ NonResponsive \/ SkipPipe)
  BY <1>9
     DEF ReadyMeansReadable, ParentStep, OpenExecutorPipes, DistributePaths,
         PathsDistributed, ChildLives, ReviveChild, ReopenPipes, DistributePath,
         ChildrenChecked, SendToWorker, SendToAllFails, SentToAll, PollAgain,
         AllAnswered, PrintAnswers, WaitForChildren
<1>10. QED
  BY <1>1, <1>2, <1>3, <1>4, <1>5, <1>6, <1>7, <1>8, <1>9 DEF Next, Finished

\* Types and readiness are invariant only together.
LEMMA TypesAndReadiness == Spec => [](TypeOK /\ ReadyMeansReadable)
<1>1. Init => TypeOK /\ ReadyMeansReadable
  <2> SUFFICES ASSUME Init PROVE TypeOK /\ ReadyMeansReadable
    OBVIOUS
  <2>1. ControlOK
    <3>1. cmd \in [kind : CommandKinds, id : 0 .. MaxCommands]
      BY BoundAssumption DEF Init
    <3>2. idx \in 0 .. N /\ idx < N /\ crashes \in 0 .. MaxCrashes
      BY CountAssumption, BoundAssumption DEF Init
    <3>3. QED
      BY <3>1, <3>2 DEF Init, ControlOK
  <2>2. RoundOK
    BY DEF Init, RoundOK
  <2>3. WorkersOK /\ PipesOK
    BY DEF Init, WorkersOK, PipesOK
  <2>4. QED
    BY <2>1, <2>2, <2>3 DEF Init, TypeOK, ReadyMeansReadable
<1>2. TypeOK /\ ReadyMeansReadable /\ [Next]_vars => TypeOK'
  <2> SUFFICES ASSUME TypeOK, ReadyMeansReadable, [Next]_vars PROVE TypeOK'
    OBVIOUS
  <2> USE CountAssumption, BoundAssumption DEF TypeOK, Goto
  <2>1. CASE BadCommand
    BY <2>1, SameRound, SameWorkers, SamePipes DEF BadCommand, ControlOK, consoleVars
  <2>2. ASSUME NEW k \in Kinds, ReadCommand(k) PROVE TypeOK'
    <3>1. ControlOK'
      <4>1. k \in CommandKinds
        BY CommandAssumption
      <4>2. DEADLINE' \in BOOLEAN /\ armed' \in BOOLEAN
        BY <2>2, CommandAssumption DEF ReadCommand, ControlOK
      <4>3. cmd' \in [kind : CommandKinds, id : 0 .. MaxCommands]
        BY <2>2, <4>1 DEF ReadCommand, ControlOK
      <4>4. QED
        BY <2>2, <4>2, <4>3 DEF ReadCommand, ControlOK
    <3>2. QED
      BY <2>2, <3>1, SameRound, SameWorkers, SamePipes DEF ReadCommand
  <2>3. CASE AlarmFires
    <3>1. ControlOK'
      BY <2>3 DEF AlarmFires, ControlOK
    <3>2. WorkersOK'
      BY <2>3 DEF AlarmFires, WorkersOK, Alive
    <3>3. QED
      BY <2>3, <3>1, <3>2, SameRound, SamePipes DEF AlarmFires
  <2>4. CASE UNCHANGED vars
    BY <2>4, SameRound, SameWorkers, SamePipes
       DEF vars, parentVars, ControlOK, consoleVars
  <2>5. QED
    BY <2>1, <2>2, <2>3, <2>4, ParentType, WorkerType DEF Next, UserStep, Finished
<1>3. QED
  BY <1>1, <1>2, StepReady, PTL DEF Spec

\* Every variable keeps its type; in particular the loops of OpenExecutorPipes,
\* CheckChildren, SendToAll and GetAllAnswers stay within the N workers.
THEOREM TypeCorrect == Spec => []TypeOK
BY TypesAndReadiness, PTL

\* GetAllAnswers calls Receive only on a pipe that holds an unread answer,
\* however the workers moved or died since poll returned.
THEOREM ReceiveNeverBlocks == Spec => []ReadyMeansReadable
BY TypesAndReadiness, PTL

-----------------------------------------------------------------------------
(* The alarm and the flag *)

\* The alarm is armed by /search alone and cancelled on both ways out of it.
LEMMA AlarmStep == AlarmOnlyInSearch /\ [Next]_vars => AlarmOnlyInSearch'
<1> SUFFICES ASSUME AlarmOnlyInSearch, [Next]_vars PROVE AlarmOnlyInSearch'
  OBVIOUS
<1> USE DEF AlarmOnlyInSearch, Goto
<1>1. CASE UNCHANGED <<pc, cmd, armed>>
  BY <1>1
<1>2. CASE ParentStep
  <2>1. CASE SendToAllFails
    BY <2>1 DEF SendToAllFails
  <2>2. CASE PrintAnswers
    BY <2>2 DEF PrintAnswers
  <2>3. CASE SentToAll \/ AllAnswered
    BY <2>3 DEF SentToAll, AllAnswered, consoleVars
  <2>4. CASE SendToWorker \/ Poll \/ ReceiveAnswer \/ NonResponsive \/ SkipPipe \/ PollAgain
    BY <2>4 DEF SendToWorker, Poll, ReceiveAnswer, NonResponsive, SkipPipe, PollAgain,
                consoleVars
  <2>5. CASE \/ OpenExecutorPipes \/ DistributePaths \/ PathsDistributed
             \/ ChildLives \/ ReviveChild \/ ReopenPipes \/ DistributePath
             \/ ChildrenChecked \/ WaitForChildren
    BY <2>5 DEF OpenExecutorPipes, OpenPipes, DistributePaths, PathsDistributed, ChildLives,
                ReviveChild, ReopenPipes, DistributePath, ChildrenChecked, WaitForChildren,
                consoleVars
  <2>6. QED
    BY <1>2, <2>1, <2>2, <2>3, <2>4, <2>5 DEF ParentStep
<1>3. CASE UserStep
  <2>1. CASE BadCommand
    BY <2>1 DEF BadCommand, consoleVars
  <2>2. ASSUME NEW k \in Kinds, ReadCommand(k) PROVE AlarmOnlyInSearch'
    BY <2>2 DEF ReadCommand
  <2>3. QED
    BY <1>3, <2>1, <2>2 DEF UserStep
<1>4. CASE AlarmFires
  BY <1>4 DEF AlarmFires
<1>5. ASSUME NEW w \in Workers, WorkerStep(w) \/ Crash(w) PROVE AlarmOnlyInSearch'
  BY <1>1, <1>5, WorkerLeavesParent DEF parentVars, consoleVars
<1>6. CASE UNCHANGED vars
  BY <1>1, <1>6 DEF vars, parentVars, consoleVars
<1>7. QED
  BY <1>2, <1>3, <1>4, <1>5, <1>6 DEF Next, Finished

\* SIGUSR1 is only ever sent on behalf of the /search being served.
THEOREM AlarmSafe == Spec => []AlarmOnlyInSearch
<1>1. Init => AlarmOnlyInSearch
  BY DEF Init, AlarmOnlyInSearch
<1>2. QED
  BY <1>1, AlarmStep, PTL DEF Spec

\* Until a broadcast fails, the flag is cleared wherever the alarm is cancelled.
LEMMA DeadlineStep ==
  AlarmOnlyInSearch /\ DeadlineOnlyInSearch /\ [Next]_vars => DeadlineOnlyInSearch'
<1> SUFFICES ASSUME AlarmOnlyInSearch, DeadlineOnlyInSearch, [Next]_vars
             PROVE  DeadlineOnlyInSearch'
  OBVIOUS
<1> USE DEF DeadlineOnlyInSearch, Goto
<1>1. CASE UNCHANGED <<pc, cmd, DEADLINE, clean>>
  BY <1>1
<1>2. CASE ParentStep
  <2>1. CASE SendToAllFails
    BY <2>1 DEF SendToAllFails
  <2>2. CASE PrintAnswers
    BY <2>2 DEF PrintAnswers
  <2>3. CASE SentToAll \/ AllAnswered
    BY <2>3 DEF SentToAll, AllAnswered, consoleVars
  <2>4. CASE SendToWorker \/ Poll \/ ReceiveAnswer \/ NonResponsive \/ SkipPipe \/ PollAgain
    BY <2>4 DEF SendToWorker, Poll, ReceiveAnswer, NonResponsive, SkipPipe, PollAgain,
                consoleVars
  <2>5. CASE \/ OpenExecutorPipes \/ DistributePaths \/ PathsDistributed
             \/ ChildLives \/ ReviveChild \/ ReopenPipes \/ DistributePath
             \/ ChildrenChecked \/ WaitForChildren
    BY <2>5 DEF OpenExecutorPipes, OpenPipes, DistributePaths, PathsDistributed, ChildLives,
                ReviveChild, ReopenPipes, DistributePath, ChildrenChecked, WaitForChildren,
                consoleVars
  <2>6. QED
    BY <1>2, <2>1, <2>2, <2>3, <2>4, <2>5 DEF ParentStep
<1>3. CASE UserStep
  <2>1. CASE BadCommand
    BY <2>1 DEF BadCommand, consoleVars
  <2>2. ASSUME NEW k \in Kinds, ReadCommand(k) PROVE DeadlineOnlyInSearch'
    BY <2>2 DEF ReadCommand
  <2>3. QED
    BY <1>3, <2>1, <2>2 DEF UserStep
<1>4. CASE AlarmFires
  BY <1>4 DEF AlarmFires, AlarmOnlyInSearch
<1>5. ASSUME NEW w \in Workers, WorkerStep(w) \/ Crash(w) PROVE DeadlineOnlyInSearch'
  BY <1>1, <1>5, WorkerLeavesParent DEF parentVars, consoleVars
<1>6. CASE UNCHANGED vars
  BY <1>1, <1>6 DEF vars, parentVars, consoleVars
<1>7. QED
  BY <1>2, <1>3, <1>4, <1>5, <1>6 DEF Next, Finished

\* In a session without diagnostics no command is served under a flag left over
\* from an earlier search.
THEOREM DeadlineSafe == Spec => []DeadlineOnlyInSearch
<1>1. Init => AlarmOnlyInSearch /\ DeadlineOnlyInSearch
  BY DEF Init, AlarmOnlyInSearch, DeadlineOnlyInSearch
<1>2. QED
  BY <1>1, AlarmStep, DeadlineStep, PTL DEF Spec

-----------------------------------------------------------------------------
(* Rounds do not overlap *)

\* Pipes that hold at most two messages.
LEMMA ShortPipes ==
  ASSUME NEW a, NEW b
  PROVE  /\ Append(<<>>, a) = <<a>> /\ Append(<<a>>, b) = <<a, b>>
         /\ Head(<<a>>) = a /\ Tail(<<a>>) = <<>>
         /\ Head(<<a, b>>) = a /\ Tail(<<a, b>>) = <<b>>
         /\ <<a>> # <<>> /\ <<a, b>> # <<>>
<1>1. Append(<<a>>, b) = <<a, b>>
  <2> DEFINE S == {a, b}
  <2>1. <<a>> \in Seq(S) /\ <<a, b>> \in Seq(S) /\ b \in S
    OBVIOUS
  <2> HIDE DEF S
  <2>2. Len(Append(<<a>>, b)) = Len(<<a, b>>) /\ Append(<<a>>, b) \in Seq(S)
    BY <2>1
  <2>3. \A i \in 1 .. Len(Append(<<a>>, b)) : Append(<<a>>, b)[i] = <<a, b>>[i]
    BY <2>1
  <2>4. QED
    BY <2>1, <2>2, <2>3, SeqEqual
<1>2. Append(<<>>, a) = <<a>> /\ Head(<<a>>) = a /\ Tail(<<a>>) = <<>>
  OBVIOUS
<1>3. Head(<<a, b>>) = a /\ Tail(<<a, b>>) = <<b>>
  OBVIOUS
<1>4. <<a>> # <<>> /\ <<a, b>> # <<>>
  OBVIOUS
<1>5. QED
  BY <1>1, <1>2, <1>3, <1>4

\* A death leaves the other workers as they are; the worker itself keeps quiet
\* or loses the command, but may leave its answer behind.
LEMMA DieRound ==
  ASSUME NEW w \in Workers, TypeOK, Die(w)
  PROVE  /\ \A v \in Workers \ {w} : (Quiet(v) <=> Quiet(v)') /\ (Asked(v) <=> Asked(v)')
         /\ Quiet(w) => Quiet(w)'
         /\ Asked(w) => Asked(w)' \/ Quiet(w)'
<1> USE DEF TypeOK, WorkersOK, PipesOK
<1>1. cmd' = cmd /\ fromPipe' = fromPipe
  BY DEF Die, parentVars, consoleVars
<1>2. \A v \in Workers \ {w} : /\ wstate'[v] = wstate[v] /\ cur'[v] = cur[v]
                              /\ toPipe'[v] = toPipe[v]
  BY DEF Die
<1>3. wstate'[w] = "dead" /\ toPipe'[w] = <<>>
  BY DEF Die
<1>4. \A v \in Workers \ {w} : (Quiet(v) <=> Quiet(v)') /\ (Asked(v) <=> Asked(v)')
  BY <1>1, <1>2 DEF Quiet, Asked
<1>5. (Quiet(w) => Quiet(w)') /\ (Asked(w) => Asked(w)' \/ Quiet(w)')
  BY <1>1, <1>3 DEF Quiet, Asked
<1>6. QED
  BY <1>4, <1>5

\* No step of a worker makes a second copy of the command, or an answer to
\* anything else.
LEMMA WorkerRound ==
  ASSUME NEW w \in Workers, TypeOK, WorkerStep(w) \/ Crash(w)
  PROVE  /\ \A v \in Workers \ {w} : (Quiet(v) <=> Quiet(v)') /\ (Asked(v) <=> Asked(v)')
         /\ Quiet(w) => Quiet(w)'
         /\ Asked(w) => Asked(w)' \/ Quiet(w)'
<1> USE DEF TypeOK, WorkersOK, PipesOK
<1>1. CASE Die(w)
  BY <1>1, DieRound
<1>2. CASE ~Die(w)
  <2>1. cmd' = cmd
    BY <1>2 DEF WorkerStep, ReceiveDirs, BeginSearch, AnswerSearch, WithholdAnswer, EndSearch,
       AnswerOther, HandleExit, DeliverSIGUSR1, Crash, parentVars, consoleVars
  <2>2. \A v \in Workers \ {w} : /\ wstate'[v] = wstate[v] /\ cur'[v] = cur[v]
                      /\ toPipe'[v] = toPipe[v] /\ fromPipe'[v] = fromPipe[v]
    BY <1>2 DEF WorkerStep, ReceiveDirs, BeginSearch, AnswerSearch, WithholdAnswer, EndSearch,
       AnswerOther, HandleExit, DeliverSIGUSR1, Crash, Receives, Consume, Reply, pipeVars, workerVars
  <2>3. \A v \in Workers \ {w} : (Quiet(v) <=> Quiet(v)') /\ (Asked(v) <=> Asked(v)')
    BY <2>1, <2>2 DEF Quiet, Asked
  <2>4. (Quiet(w) => Quiet(w)') /\ (Asked(w) => Asked(w)' \/ Quiet(w)')
    <3>1. CASE ReceiveDirs(w)
      <4>1. /\ toPipe[w] # <<>> /\ toPipe'[w] = Tail(toPipe[w]) /\ fromPipe' = fromPipe
            /\ wstate'[w] = "idle" /\ wstate[w] = "dirs" /\ cur' = cur /\ Head(toPipe[w]).kind = "dirs"
        BY <1>2, <3>1 DEF ReceiveDirs, Receives, Consume
      <4>2. CASE toPipe[w] = <<Dirs>>
        <5>1. toPipe'[w] = <<>>
          BY <4>1, <4>2, ShortPipes
        <5>2. ~Asked(w)
          <6>1. Head(<<cmd>>) = cmd /\ cmd.kind # "dirs"
            BY ShortPipes DEF ControlOK, CommandKinds
          <6>2. toPipe[w] # <<cmd>> /\ toPipe[w] # <<Dirs, cmd>>
            BY <4>1, <4>2, <5>1, <6>1, ShortPipes
          <6>3. QED
            BY <4>1, <6>2 DEF Asked
        <5>3. QED
          BY <4>1, <5>1, <5>2 DEF Quiet
      <4>3. CASE toPipe[w] = <<Dirs, cmd>>
        <5>1. toPipe'[w] = <<cmd>>
          BY <4>1, <4>3, ShortPipes
        <5>2. toPipe[w] # <<Dirs>>
          BY <4>1, <4>3, <5>1, ShortPipes
        <5>3. QED
          BY <2>1, <4>1, <5>1, <5>2 DEF Quiet, Asked
      <4>4. CASE toPipe[w] # <<Dirs>> /\ toPipe[w] # <<Dirs, cmd>>
        <5>1. Head(<<cmd>>) = cmd /\ cmd.kind # "dirs"
          BY ShortPipes DEF ControlOK, CommandKinds
        <5>2. toPipe[w] # <<cmd>>
          BY <4>1, <5>1
        <5>3. QED
          BY <4>1, <4>4, <5>2 DEF Quiet, Asked
      <4>5. QED
        BY <4>2, <4>3, <4>4
    <3>2. CASE BeginSearch(w)
      <4>1. /\ toPipe[w] # <<>> /\ toPipe'[w] = Tail(toPipe[w]) /\ fromPipe' = fromPipe
            /\ wstate'[w] = "search" /\ wstate[w] = "idle"
            /\ cur'[w] = Head(toPipe[w]).id /\ Head(toPipe[w]).kind = "search"
        BY <3>2 DEF BeginSearch, Receives, Consume
      <4>2. QED
        BY <2>1, <4>1, ShortPipes DEF Quiet, Asked, Dirs
    <3>3. CASE AnswerSearch(w)
      <4>1. /\ toPipe' = toPipe /\ fromPipe'[w] = Append(fromPipe[w], cur[w])
            /\ wstate'[w] = "answered" /\ wstate[w] = "search"
        BY <3>3 DEF AnswerSearch, Reply
      <4>2. QED
        BY <2>1, <4>1, ShortPipes DEF Quiet, Asked
    <3>4. CASE WithholdAnswer(w)
      <4>1. UNCHANGED pipeVars /\ wstate[w] = "search" /\ wstate'[w] = "answered"
        BY <3>4 DEF WithholdAnswer
      <4>2. QED
        BY <2>1, <4>1 DEF Quiet, Asked, pipeVars
    <3>5. CASE EndSearch(w)
      <4>1. UNCHANGED pipeVars /\ wstate[w] = "answered" /\ wstate'[w] = "idle"
        BY <3>5 DEF EndSearch
      <4>2. QED
        BY <2>1, <4>1 DEF Quiet, Asked, pipeVars
    <3>6. CASE AnswerOther(w)
      <4>1. /\ toPipe[w] # <<>> /\ toPipe'[w] = Tail(toPipe[w])
            /\ fromPipe'[w] = Append(fromPipe[w], Head(toPipe[w]).id)
            /\ wstate'[w] = "idle" /\ wstate[w] = "idle"
            /\ Head(toPipe[w]).kind # "dirs"
        BY <3>6 DEF AnswerOther, Receives, Consume, Reply, workerVars
      <4>2. ~Quiet(w)
        BY <4>1, ShortPipes DEF Quiet, Dirs
      <4>3. CASE toPipe[w] = <<cmd>> /\ fromPipe[w] = <<>>
        <5>1. fromPipe'[w] = <<cmd.id>> /\ toPipe'[w] = <<>>
          BY <4>1, <4>3, ShortPipes
        <5>2. QED
          BY <2>1, <4>1, <4>2, <5>1 DEF Asked
      <4>4. CASE ~(toPipe[w] = <<cmd>> /\ fromPipe[w] = <<>>)
        <5>1. toPipe[w] # <<Dirs, cmd>>
          <6>1. Head(<<Dirs, cmd>>) = Dirs
            BY ShortPipes
          <6>2. QED
            BY <4>1, <6>1 DEF Dirs
        <5>2. ~Asked(w)
          BY <4>1, <4>4, <5>1 DEF Asked
        <5>3. QED
          BY <4>2, <5>2
      <4>5. QED
        BY <4>2, <4>3, <4>4
    <3>7. CASE DeliverSIGUSR1(w)
      <4>1. UNCHANGED <<pipeVars, wstate, cur>>
        BY <1>2, <3>7 DEF DeliverSIGUSR1
      <4>2. QED
        BY <2>1, <4>1 DEF Quiet, Asked, pipeVars
    <3>8. QED
      BY <1>2, <3>1, <3>2, <3>3, <3>4, <3>5, <3>6, <3>7 DEF WorkerStep, Crash, HandleExit
  <2>5. QED
    BY <2>3, <2>4
<1>3. QED
  BY <1>1, <1>2

\* What the parent leaves alone.
\* Quiet and Asked depend only on these variables.
LEMMA SamePicture ==
  ASSUME UNCHANGED <<cmd, wstate, cur, pipeVars>>
  PROVE  /\ \A w \in Workers : (Quiet(w) <=> Quiet(w)') /\ (Asked(w) <=> Asked(w)')
         /\ QuietWorkers' = QuietWorkers
         /\ UNCHANGED toPipe
BY DEF Quiet, Asked, QuietWorkers, pipeVars

\* When as many workers are quiet as there are, all are.
LEMMA QuietCount ==
  /\ IsFiniteSet(QuietWorkers) /\ Cardinality(QuietWorkers) \in Nat
  /\ Cardinality(QuietWorkers) >= N => \A w \in Workers : Quiet(w)
<1>1. IsFiniteSet(Workers) /\ Cardinality(Workers) = N
  <2>1. 0 \in Int /\ N - 1 \in Int /\ N \in Nat /\ N > 0
    BY CountAssumption
  <2>2. QED
    BY <2>1, FS_Interval
<1>2. QuietWorkers \subseteq Workers
  BY DEF QuietWorkers
<1>3. IsFiniteSet(QuietWorkers) /\ Cardinality(QuietWorkers) <= N
      /\ (Cardinality(QuietWorkers) = N => QuietWorkers = Workers)
  BY <1>1, <1>2, FS_Subset
<1>4. Cardinality(QuietWorkers) \in Nat
  BY <1>3, FS_CardinalityType
<1>5. QED
  BY <1>3, <1>4, CountAssumption DEF QuietWorkers

\* A session starts quiet.
LEMMA RoundInit == Init => RoundInv
BY DEF Init, RoundInv, EmptyBeforeLoad, Quiet

\* Workers keep the round invariant.
LEMMA RoundWorker ==
  ASSUME NEW w \in Workers, TypeOK, RoundInv, WorkerStep(w) \/ Crash(w)
  PROVE  RoundInv'
<1>1. UNCHANGED <<pc, idx, cmd, clean, numAnswers>>
  BY WorkerLeavesParent DEF parentVars, consoleVars, roundVars
<1>2. EmptyBeforeLoad'
  <2>1. \A v \in Workers : toPipe[v] = <<>> => toPipe'[v] = <<>>
    BY DEF TypeOK, PipesOK, WorkerStep, ReceiveDirs, BeginSearch, AnswerSearch,
           WithholdAnswer, EndSearch, AnswerOther, HandleExit, DeliverSIGUSR1, Crash,
           Die, Receives, Consume, pipeVars
  <2>2. QED
    BY <1>1, <2>1 DEF RoundInv, EmptyBeforeLoad
<1>3. /\ \A v \in Workers : Quiet(v) => Quiet(v)'
      /\ \A v \in Workers : Asked(v) => Asked(v)' \/ Quiet(v)'
  BY WorkerRound
<1>4. /\ Cardinality(QuietWorkers) <= Cardinality(QuietWorkers')
      /\ Cardinality(QuietWorkers') \in Nat
  <2>1. QuietWorkers \subseteq QuietWorkers' /\ QuietWorkers' \subseteq Workers
    BY <1>3 DEF QuietWorkers
  <2>2. IsFiniteSet(QuietWorkers')
    <3>1. IsFiniteSet(Workers)
      BY FS_Interval, CountAssumption
    <3>2. QED
      BY <2>1, <3>1, FS_Subset
  <2>3. QED
    BY <2>1, <2>2, FS_Subset, FS_CardinalityType
<1>5. CASE ~clean
  BY <1>1, <1>2, <1>5 DEF RoundInv
<1>6. CASE clean
  <2>1. pc \in {"open", "distribute", "check", "reopen", "redistribute", "prompt", "print"} =>
         \A v \in Workers : Quiet(v)'
    BY <1>3, <1>6 DEF RoundInv
  <2>2. pc = "send" => \A v \in Workers : Quiet(v)' \/ (v < idx /\ Asked(v)')
    BY <1>3, <1>6 DEF RoundInv
  <2>3. pc \in {"poll", "read"} =>
         /\ \A v \in Workers : Quiet(v)' \/ Asked(v)'
         /\ numAnswers <= Cardinality(QuietWorkers')
    <3>1. Cardinality(QuietWorkers) \in Nat /\ numAnswers \in Nat
      BY QuietCount DEF TypeOK, RoundOK
    <3>2. QED
      BY <1>3, <1>4, <1>6, <3>1 DEF RoundInv
  <2>4. QED
    BY <1>1, <1>2, <2>1, <2>2, <2>3 DEF RoundInv
<1>7. QED
  BY <1>5, <1>6

\* The jobExecutor keeps the round invariant.
LEMMA RoundParent == TypeOK /\ ReadyMeansReadable /\ RoundInv /\ ParentStep => RoundInv'
<1> SUFFICES ASSUME TypeOK, ReadyMeansReadable, RoundInv, ParentStep PROVE RoundInv'
  OBVIOUS
<1> USE CountAssumption DEF Goto
<1>0. idx \in 0 .. N /\ toPipe \in [Workers -> Seq(Message)]
      /\ fromPipe \in [Workers -> Seq(Nat)] /\ numAnswers \in Nat
      /\ wstate \in [Workers -> {"open", "dirs", "idle", "search", "answered", "dead"}]
  BY DEF TypeOK, ControlOK, RoundOK, WorkersOK, PipesOK
<1>1. CASE OpenExecutorPipes \/ ReopenPipes
  <2>1. UNCHANGED <<cmd, clean, cur, pipeVars>> /\ idx \in Workers
        /\ wstate' = [wstate EXCEPT ![idx] = "dirs"] /\ wstate[idx] = "open"
    BY <1>1, <1>0 DEF OpenExecutorPipes, ReopenPipes, OpenPipes, consoleVars, TypeOK, ControlOK
  <2>2. \A w \in Workers : Quiet(w) => Quiet(w)'
    BY <1>0, <2>1 DEF Quiet, pipeVars
  <2>3. EmptyBeforeLoad'
    BY <1>0, <1>1, <2>1 DEF OpenExecutorPipes, ReopenPipes, RoundInv, EmptyBeforeLoad, pipeVars
  <2>4. QED
    BY <1>1, <2>1, <2>2, <2>3 DEF OpenExecutorPipes, ReopenPipes, RoundInv
<1>2. CASE DistributePaths \/ DistributePath
  <2>1. UNCHANGED <<cmd, clean, wstate, cur, fromPipe>> /\ idx \in Workers
    BY <1>2, <1>0 DEF DistributePaths, DistributePath, consoleVars, workerVars, TypeOK, ControlOK
  <2>2. toPipe' = toPipe \/ toPipe' = [toPipe EXCEPT ![idx] = Append(@, Dirs)]
    BY <1>2 DEF DistributePaths, DistributePath, Deliver
  <2>3. toPipe[idx] = <<>>
    BY <1>2, <2>1 DEF DistributePaths, DistributePath, RoundInv, EmptyBeforeLoad
  <2>4. toPipe'[idx] \in {<<>>, <<Dirs>>}
        /\ \A w \in Workers \ {idx} : toPipe'[w] = toPipe[w]
    BY <1>0, <2>1, <2>2, <2>3, ShortPipes
  <2>5. \A w \in Workers : Quiet(w) => Quiet(w)'
    BY <2>1, <2>4 DEF Quiet
  <2>6. EmptyBeforeLoad'
    <3>1. CASE DistributePaths
      <4>1. \A w \in Workers : w >= idx + 1 => w >= idx /\ w # idx
        BY <1>0
      <4>2. QED
        BY <2>4, <3>1, <4>1 DEF DistributePaths, RoundInv, EmptyBeforeLoad
    <3>2. CASE DistributePath
      BY <3>2 DEF DistributePath, EmptyBeforeLoad
    <3>3. QED
      BY <1>2, <3>1, <3>2
  <2>7. QED
    BY <1>2, <2>1, <2>5, <2>6 DEF DistributePaths, DistributePath, RoundInv
<1>3. CASE ReviveChild
  <2>1. \A w \in Workers : Quiet(w) => Quiet(w)'
    BY <1>0, <1>3 DEF ReviveChild, Quiet
  <2>2. EmptyBeforeLoad'
    BY <1>0, <1>3 DEF ReviveChild, EmptyBeforeLoad
  <2>3. QED
    BY <1>3, <2>1, <2>2 DEF ReviveChild, consoleVars, RoundInv
<1>4. CASE PathsDistributed \/ ChildLives \/ ChildrenChecked
  <2>1. UNCHANGED <<cmd, clean, wstate, cur, pipeVars>>
    BY <1>4 DEF PathsDistributed, ChildLives, ChildrenChecked, consoleVars, workerVars
  <2>2. QED
    BY <1>4, <2>1, SamePicture
       DEF PathsDistributed, ChildLives, ChildrenChecked, RoundInv, EmptyBeforeLoad
<1>5. CASE SendToWorker
  <2>1. UNCHANGED <<cmd, clean, wstate, cur, fromPipe>> /\ idx \in Workers
        /\ toPipe' = [toPipe EXCEPT ![idx] = Append(@, cmd)]
        /\ pc = "send" /\ pc' = "send" /\ idx' = idx + 1
    BY <1>0, <1>5 DEF SendToWorker, Deliver, consoleVars, workerVars
  <2>2. PICK i \in Workers : i = idx
    BY <2>1
  <2>3. \A w \in Workers \ {i} : (Quiet(w) <=> Quiet(w)') /\ (Asked(w) <=> Asked(w)')
    BY <1>0, <2>1, <2>2 DEF Quiet, Asked
  <2>4. Quiet(i) => Asked(i)'
    <3>1. Quiet(i) => toPipe'[i] = <<cmd>> \/ toPipe'[i] = <<Dirs, cmd>>
      BY <1>0, <2>1, <2>2, ShortPipes DEF Quiet
    <3>2. QED
      BY <2>1, <3>1 DEF Quiet, Asked
  <2>5. ASSUME clean
        PROVE  \A w \in Workers : Quiet(w)' \/ (w < idx' /\ Asked(w)')
    <3>1. \A w \in Workers : Quiet(w) \/ (w < idx /\ Asked(w))
      BY <2>1, <2>5 DEF RoundInv
    <3>2. i < idx' /\ Quiet(i)
      BY <1>0, <2>1, <2>2, <3>1
    <3>3. \A w \in Workers : w < idx => w < idx'
      BY <1>0, <2>1
    <3>4. QED
      BY <2>3, <2>4, <3>1, <3>2, <3>3
  <2>6. EmptyBeforeLoad'
    BY <2>1 DEF EmptyBeforeLoad
  <2>7. QED
    BY <2>1, <2>5, <2>6 DEF RoundInv
<1>6. CASE SendToAllFails
  <2>1. ~clean' \/ pc' = "wait"
    BY <1>6 DEF SendToAllFails
  <2>2. QED
    BY <1>6, <2>1 DEF SendToAllFails, RoundInv, EmptyBeforeLoad
<1>7. CASE SentToAll
  <2>1. UNCHANGED <<cmd, clean, wstate, cur, pipeVars>>
    BY <1>7 DEF SentToAll, consoleVars, workerVars
  <2>2. pc' = "wait" \/ (pc' = "poll" /\ numAnswers' = 0)
    BY <1>7 DEF SentToAll
  <2>3. pc = "send"
    BY <1>7 DEF SentToAll
  <2>4. QED
    BY <2>1, <2>2, <2>3, SamePicture, QuietCount DEF RoundInv, EmptyBeforeLoad
<1>8. CASE ReceiveAnswer
  <2>1. UNCHANGED <<cmd, clean, wstate, cur, toPipe>> /\ idx \in Workers
        /\ fromPipe' = [fromPipe EXCEPT ![idx] = Tail(@)] /\ numAnswers' = numAnswers + 1
        /\ pc = "read" /\ pc' = "read"
    BY <1>0, <1>8 DEF ReceiveAnswer, consoleVars, workerVars
  <2>2. PICK i \in Workers : i = idx
    BY <2>1
  <2>3. fromPipe[i] # <<>>
    BY <1>8, <2>1, <2>2 DEF ReceiveAnswer, ReadyMeansReadable
  <2>4. \A w \in Workers \ {i} : (Quiet(w) <=> Quiet(w)') /\ (Asked(w) <=> Asked(w)')
    BY <1>0, <2>1, <2>2 DEF Quiet, Asked
  <2>5. EmptyBeforeLoad'
    BY <2>1 DEF EmptyBeforeLoad
  <2>6. ASSUME clean
        PROVE  /\ \A w \in Workers : Quiet(w)' \/ Asked(w)'
               /\ numAnswers' <= Cardinality(QuietWorkers')
    <3>1. /\ \A w \in Workers : Quiet(w) \/ Asked(w)
          /\ numAnswers <= Cardinality(QuietWorkers)
      BY <2>1, <2>6 DEF RoundInv
    <3>2. /\ fromPipe[i] = <<cmd.id>> /\ toPipe[i] = <<>> /\ wstate[i] # "search"
          /\ ~Quiet(i)
      BY <2>3, <3>1 DEF Quiet, Asked
    <3>3. fromPipe'[i] = <<>>
      BY <1>0, <2>1, <2>2, <3>2, ShortPipes
    <3>4. Quiet(i)'
      BY <2>1, <3>2, <3>3 DEF Quiet
    <3>5. QuietWorkers' = QuietWorkers \cup {i} /\ i \notin QuietWorkers
      BY <2>4, <3>2, <3>4 DEF QuietWorkers
    <3>6. Cardinality(QuietWorkers') = Cardinality(QuietWorkers) + 1
      BY <3>5, QuietCount, FS_AddElement
    <3>7. numAnswers' <= Cardinality(QuietWorkers')
      BY <1>0, <2>1, <3>1, <3>6, QuietCount
    <3>8. QED
      BY <2>4, <3>1, <3>4, <3>7
  <2>7. QED
    BY <2>1, <2>5, <2>6 DEF RoundInv
<1>9. CASE Poll \/ NonResponsive \/ SkipPipe \/ PollAgain
  <2>1. UNCHANGED <<cmd, clean, numAnswers, wstate, cur, pipeVars>>
        /\ pc \in {"poll", "read"} /\ pc' \in {"poll", "read"}
    BY <1>9 DEF Poll, NonResponsive, SkipPipe, PollAgain, consoleVars, roundVars, workerVars
  <2>2. QED
    BY <2>1, SamePicture DEF RoundInv, EmptyBeforeLoad
<1>10. CASE AllAnswered
  <2>1. UNCHANGED <<cmd, wstate, cur, pipeVars>> /\ pc = "read" /\ pc' = "print"
        /\ (clean' => clean /\ numAnswers >= N)
    BY <1>10 DEF AllAnswered, workerVars
  <2>2. clean' => \A w \in Workers : Quiet(w)
    BY <1>0, <2>1, QuietCount DEF RoundInv
  <2>3. QED
    BY <2>1, <2>2, SamePicture DEF RoundInv, EmptyBeforeLoad
<1>11. CASE PrintAnswers
  <2>1. UNCHANGED <<cmd, clean, wstate, cur, pipeVars>> /\ pc = "print"
        /\ pc' \in {"check", "crashed"}
    BY <1>11 DEF PrintAnswers, workerVars
  <2>2. QED
    BY <2>1, SamePicture DEF RoundInv, EmptyBeforeLoad
<1>12. CASE WaitForChildren
  BY <1>12 DEF WaitForChildren, RoundInv, EmptyBeforeLoad
<1>13. QED
  BY <1>1, <1>2, <1>3, <1>4, <1>5, <1>6, <1>7, <1>8, <1>9, <1>10, <1>11, <1>12
     DEF ParentStep

\* Every step keeps the round invariant.
LEMMA RoundStep == TypeOK /\ ReadyMeansReadable /\ RoundInv /\ [Next]_vars => RoundInv'
<1> SUFFICES ASSUME TypeOK, ReadyMeansReadable, RoundInv, [Next]_vars PROVE RoundInv'
  OBVIOUS
<1>1. ASSUME NEW k \in Kinds, ReadCommand(k) PROVE RoundInv'
  <2>1. UNCHANGED <<clean, wstate, cur, pipeVars>> /\ pc = "prompt" /\ pc' = "send"
    BY <1>1 DEF ReadCommand, Goto, workerVars
  <2>2. QED
    BY <2>1 DEF RoundInv, EmptyBeforeLoad, Quiet, pipeVars
<1>2. CASE BadCommand
  <2>1. UNCHANGED <<cmd, clean, wstate, cur, pipeVars>> /\ pc = "prompt" /\ pc' = "check"
    BY <1>2 DEF BadCommand, Goto, consoleVars, workerVars
  <2>2. QED
    BY <2>1, SamePicture DEF RoundInv, EmptyBeforeLoad
<1>3. ASSUME UNCHANGED <<pc, idx, cmd, clean, numAnswers, wstate, cur, pipeVars>>
      PROVE  RoundInv'
  BY <1>3, SamePicture DEF RoundInv, EmptyBeforeLoad
<1>4. CASE AlarmFires
  BY <1>3, <1>4 DEF AlarmFires, roundVars
<1>5. CASE UNCHANGED vars
  BY <1>3, <1>5 DEF vars, parentVars, consoleVars, roundVars, workerVars
<1>6. QED
  BY <1>1, <1>2, <1>4, <1>5, RoundParent, RoundWorker DEF Next, UserStep, Finished

\* What is between the console and its workers in a clean session is the current
\* command, at most once per worker.
THEOREM RoundsDoNotOverlap == Spec => []RoundInv
BY RoundInit, RoundStep, TypesAndReadiness, PTL DEF Spec

\* An answer received in a clean session is one to the command being served.
LEMMA StaleStep ==
  TypeOK /\ ReadyMeansReadable /\ RoundInv /\ NoStaleAnswer /\ [Next]_vars => NoStaleAnswer'
<1> SUFFICES ASSUME TypeOK, ReadyMeansReadable, RoundInv, NoStaleAnswer, [Next]_vars
             PROVE  NoStaleAnswer'
  OBVIOUS
<1> USE DEF Goto
<1>1. CASE UNCHANGED <<pc, cmd, clean, Answers>>
  BY <1>1 DEF NoStaleAnswer
<1>2. CASE ParentStep
  <2>1. CASE SentToAll
    BY <2>1 DEF SentToAll, NoStaleAnswer
  <2>2. CASE Poll \/ SkipPipe \/ PollAgain \/ AllAnswered
    BY <2>2 DEF Poll, SkipPipe, PollAgain, AllAnswered, NoStaleAnswer, consoleVars, roundVars
  <2>3. CASE NonResponsive
    BY <2>3 DEF NonResponsive, NoStaleAnswer, consoleVars, TypeOK, RoundOK
  <2>4. CASE ReceiveAnswer
    <3>1. UNCHANGED <<cmd, clean>> /\ pc = "read" /\ idx < N /\ revents[idx] = "IN"
      BY <2>4 DEF ReceiveAnswer, consoleVars
    <3>2. idx \in Workers /\ idx >= idx
      BY <3>1, CountAssumption DEF TypeOK, ControlOK, Workers
    <3>3. fromPipe[idx] # <<>>
      BY <3>1, <3>2 DEF ReadyMeansReadable
    <3>4. clean => Head(fromPipe[idx]) = cmd.id
      <4>1. clean => fromPipe[idx] = <<cmd.id>>
        BY <3>1, <3>2, <3>3 DEF RoundInv, Quiet, Asked
      <4>2. QED
        BY <4>1, ShortPipes
    <3>5. clean => \A w \in Workers : Answers'[w] \in {NoAnswer, cmd.id}
      BY <2>4, <3>1, <3>2, <3>4 DEF ReceiveAnswer, NoStaleAnswer, TypeOK, RoundOK
    <3>6. QED
      BY <3>1, <3>5 DEF NoStaleAnswer
  <2>5. CASE ~(SentToAll \/ Poll \/ SkipPipe \/ PollAgain \/ AllAnswered
               \/ NonResponsive \/ ReceiveAnswer)
    BY <1>2, <2>5
       DEF NoStaleAnswer, ParentStep, OpenExecutorPipes, DistributePaths, PathsDistributed,
           ChildLives, ReviveChild, ReopenPipes, DistributePath, ChildrenChecked,
           SendToWorker, SendToAllFails, PrintAnswers, WaitForChildren
  <2>6. QED
    BY <2>1, <2>2, <2>3, <2>4, <2>5
<1>3. CASE UserStep
  BY <1>3 DEF UserStep, BadCommand, ReadCommand, NoStaleAnswer
<1>4. CASE AlarmFires
  BY <1>1, <1>4 DEF AlarmFires, roundVars
<1>5. ASSUME NEW w \in Workers, WorkerStep(w) \/ Crash(w) PROVE NoStaleAnswer'
  BY <1>1, <1>5, WorkerLeavesParent DEF parentVars, consoleVars, roundVars
<1>6. CASE UNCHANGED vars
  BY <1>1, <1>6 DEF vars, parentVars, consoleVars, roundVars
<1>7. QED
  BY <1>2, <1>3, <1>4, <1>5, <1>6 DEF Next, Finished

\* Until the console admits a failure it never pairs a command with an answer to
\* another one, whatever workers die and whatever deadlines pass.
THEOREM NoStaleAnswers == Spec => []NoStaleAnswer
<1>1. Init => NoStaleAnswer
  BY DEF Init, NoStaleAnswer
<1>2. QED
  BY <1>1, StaleStep, TypesAndReadiness, RoundsDoNotOverlap, PTL DEF Spec

-----------------------------------------------------------------------------
(* Why no answer goes missing silently: GetAllAnswers counts answers, not    *)
(* workers, so that the theorem rests on whom the count stands for.          *)

HIDE DEF CommandKinds, LoadAwaited


\* A set of workers is finite and has at most N elements, all of them if N.
LEMMA SomeWorkers ==
  ASSUME NEW S \in SUBSET Workers
  PROVE  /\ IsFiniteSet(S) /\ Cardinality(S) \in Nat
         /\ Cardinality(S) >= N => S = Workers
<1>1. IsFiniteSet(Workers) /\ Cardinality(Workers) = N
  <2>1. 0 \in Int /\ N - 1 \in Int /\ N \in Nat /\ N > 0
    BY CountAssumption
  <2>2. QED
    BY <2>1, FS_Interval
<1>2. IsFiniteSet(S) /\ Cardinality(S) <= N /\ (Cardinality(S) = N => S = Workers)
  BY <1>1, FS_Subset
<1>3. QED
  BY <1>2, FS_CardinalityType, CountAssumption

\* In particular those that were heard.
LEMMA HeardCount ==
  /\ IsFiniteSet(Heard) /\ Cardinality(Heard) \in Nat
  /\ Cardinality(Heard) >= N => Heard = Workers
BY SomeWorkers DEF Heard

\* Nobody but the jobExecutor brings a worker back.
LEMMA DeadStayDead ==
  ASSUME NEW w \in Workers, TypeOK, WorkerStep(w) \/ Crash(w)
  PROVE  \A v \in Workers : ~Alive(v) => ~Alive(v)'
<1> USE DEF TypeOK, WorkersOK, Alive
<1>1. CASE Die(w)
  BY <1>1 DEF Die
<1>2. CASE ReceiveDirs(w) /\ ~Die(w)
  BY <1>2 DEF ReceiveDirs, Receives
<1>3. CASE BeginSearch(w) \/ AnswerOther(w)
  BY <1>3 DEF BeginSearch, AnswerOther, Receives, workerVars
<1>4. CASE AnswerSearch(w) \/ WithholdAnswer(w) \/ EndSearch(w)
  BY <1>4 DEF AnswerSearch, WithholdAnswer, EndSearch
<1>5. CASE DeliverSIGUSR1(w) /\ ~Die(w)
  BY <1>5 DEF DeliverSIGUSR1
<1>6. QED
  BY <1>1, <1>2, <1>3, <1>4, <1>5 DEF WorkerStep, HandleExit, Crash

\* Who has been heard stays heard, whatever the workers do.
LEMMA HeardWorker ==
  ASSUME NEW w \in Workers, TypeOK, HeardInv, WorkerStep(w) \/ Crash(w)
  PROVE  HeardInv'
<1>1. UNCHANGED <<pc, idx, cmd, DEADLINE, clean, revents, Answers, numAnswers>>
  BY WorkerLeavesParent DEF parentVars, consoleVars, roundVars
<1>2. \A v \in Workers : (Quiet(v) => Quiet(v)') /\ (~Alive(v) => ~Alive(v)')
  BY WorkerRound, DeadStayDead
<1>3. Heard \subseteq Heard' /\ Heard' \subseteq Workers
  BY <1>1, <1>2 DEF Heard
<1>4. IsFiniteSet(Heard')
  BY <1>3, SomeWorkers
<1>5. Cardinality(Heard) <= Cardinality(Heard') /\ Cardinality(Heard') \in Nat
  BY <1>3, <1>4, FS_Subset, FS_CardinalityType
<1>6. Cardinality(Heard) \in Nat /\ numAnswers \in Nat
  BY HeardCount DEF TypeOK, RoundOK
<1>7. QED
  BY <1>1, <1>2, <1>5, <1>6 DEF HeardInv

\* The count and the set of those heard start empty and grow together; a hangup
\* takes back only the answer of a worker that is dead.
LEMMA HeardParent ==
  TypeOK /\ ReadyMeansReadable /\ RoundInv /\ HeardInv /\ ParentStep => HeardInv'
<1> SUFFICES ASSUME TypeOK, ReadyMeansReadable, RoundInv, HeardInv, ParentStep
             PROVE  HeardInv'
  OBVIOUS
<1> USE CountAssumption DEF Goto
<1>0. idx \in 0 .. N /\ fromPipe \in [Workers -> Seq(Nat)] /\ numAnswers \in Nat
      /\ Answers \in [Workers -> Nat]
  BY DEF TypeOK, ControlOK, RoundOK, PipesOK
<1>1. CASE SentToAll
  <2>1. pc' = "wait" \/ (pc' = "poll" /\ numAnswers' = 0)
    BY <1>1 DEF SentToAll
  <2>2. pc = "send" /\ UNCHANGED <<cmd, toPipe, fromPipe, wstate>>
    BY <1>1 DEF SentToAll, consoleVars, pipeVars, workerVars
  <2>3. Heard' \subseteq Workers
    BY DEF Heard
  <2>4. Cardinality(Heard') \in Nat
    BY <2>3, SomeWorkers
  <2>5. QED
    BY <2>1, <2>2, <2>4 DEF HeardInv
<1>2. CASE Poll
  <2>1. UNCHANGED <<cmd, clean, DEADLINE, numAnswers, Answers, wstate, cur, pipeVars>>
        /\ pc = "poll"
    BY <1>2 DEF Poll, consoleVars, workerVars
  <2>2. Heard' = Heard
    BY <2>1, SamePicture DEF Heard, Alive
  <2>3. \A w \in Workers : revents'[w] = "HUP" => ~Alive(w)
    BY <1>2 DEF Poll, Readiness
  <2>4. QED
    BY <2>1, <2>2, <2>3 DEF HeardInv, Alive
<1>3. CASE ReceiveAnswer
  <2>1. UNCHANGED <<cmd, clean, DEADLINE, revents, wstate, cur, toPipe>>
        /\ numAnswers' = numAnswers + 1 /\ pc = "read" /\ pc' = "read" /\ idx' = idx + 1
        /\ fromPipe' = [fromPipe EXCEPT ![idx] = Tail(@)]
    BY <1>3 DEF ReceiveAnswer, consoleVars, workerVars
  <2>2. PICK i \in Workers : i = idx
    BY <1>0, <1>3 DEF ReceiveAnswer
  <2>3. fromPipe[i] # <<>>
    BY <1>3, <2>1, <2>2 DEF ReceiveAnswer, ReadyMeansReadable
  <2>4. ASSUME clean, ~DEADLINE PROVE numAnswers' <= Cardinality(Heard')
    <3>1. fromPipe[i] = <<cmd.id>> /\ toPipe[i] = <<>> /\ wstate[i] # "search" /\ ~Quiet(i)
      BY <2>1, <2>3, <2>4 DEF RoundInv, Quiet, Asked
    <3>2. fromPipe'[i] = <<>> /\ Answers'[i] # NoAnswer
      BY <1>0, <1>3, <2>1, <2>2, <2>4, <3>1, ShortPipes DEF ReceiveAnswer, HeardInv
    <3>3. Quiet(i)'
      BY <2>1, <3>1, <3>2 DEF Quiet
    <3>4. \A w \in Workers \ {i} : (Quiet(w) <=> Quiet(w)') /\ Answers'[w] = Answers[w]
      BY <1>0, <1>3, <2>1, <2>2 DEF ReceiveAnswer, Quiet
    <3>5. Heard' = Heard \cup {i} /\ i \notin Heard
      BY <2>1, <3>1, <3>2, <3>3, <3>4 DEF Heard, Alive
    <3>6. Cardinality(Heard') = Cardinality(Heard) + 1
      BY <3>5, HeardCount, FS_AddElement
    <3>7. QED
      BY <1>0, <2>1, <2>4, <3>6, HeardCount DEF HeardInv
  <2>5. \A w \in Workers : w >= idx' => w >= idx
    BY <1>0, <2>1
  <2>6. QED
    BY <2>1, <2>4, <2>5 DEF HeardInv, Alive
<1>4. CASE NonResponsive
  <2>1. UNCHANGED <<cmd, clean, DEADLINE, revents, numAnswers, wstate, cur, pipeVars>>
        /\ Answers' = [Answers EXCEPT ![idx] = NoAnswer] /\ pc = "read" /\ idx' = idx + 1
        /\ idx < N /\ revents[idx] = "HUP"
    BY <1>4 DEF NonResponsive, consoleVars, workerVars
  <2>2. ~Alive(idx)
    BY <1>0, <2>1 DEF HeardInv
  <2>3. Heard \subseteq Heard' /\ Heard' \subseteq Workers
    BY <1>0, <2>1, <2>2, SamePicture DEF Heard, Alive
  <2>4. Cardinality(Heard) <= Cardinality(Heard') /\ Cardinality(Heard') \in Nat
    BY <2>3, SomeWorkers, FS_Subset
  <2>5. \A w \in Workers : w >= idx' => w >= idx
    BY <1>0, <2>1
  <2>6. QED
    BY <1>0, <2>1, <2>4, <2>5, HeardCount DEF HeardInv, Alive
<1>5. CASE SkipPipe \/ PollAgain
  <2>1. UNCHANGED <<cmd, clean, DEADLINE, revents, numAnswers, Answers, wstate, cur, pipeVars>>
        /\ pc = "read" /\ pc' \in {"poll", "read"} /\ (pc' = "read" => idx' = idx + 1)
    BY <1>5 DEF SkipPipe, PollAgain, consoleVars, roundVars, workerVars
  <2>2. Heard' = Heard
    BY <2>1, SamePicture DEF Heard, Alive
  <2>3. pc' = "read" => \A w \in Workers : w >= idx' => w >= idx
    BY <1>0, <2>1
  <2>4. QED
    BY <2>1, <2>2, <2>3 DEF HeardInv, Alive
<1>6. CASE AllAnswered
  BY <1>6 DEF AllAnswered, HeardInv
<1>7. CASE SendToWorker
  BY <1>7 DEF SendToWorker, HeardInv, consoleVars
<1>8. CASE \/ OpenExecutorPipes \/ DistributePaths \/ PathsDistributed \/ ChildLives
           \/ ReviveChild \/ ReopenPipes \/ DistributePath \/ ChildrenChecked
           \/ SendToAllFails \/ PrintAnswers \/ WaitForChildren
  BY <1>8
     DEF OpenExecutorPipes, DistributePaths, PathsDistributed, ChildLives, ReviveChild,
         ReopenPipes, DistributePath, ChildrenChecked, SendToAllFails, PrintAnswers,
         WaitForChildren, HeardInv
<1>9. QED
  BY <1>1, <1>2, <1>3, <1>4, <1>5, <1>6, <1>7, <1>8 DEF ParentStep

\* Every step keeps the count within those heard.
LEMMA HeardStep ==
  TypeOK /\ ReadyMeansReadable /\ RoundInv /\ HeardInv /\ [Next]_vars => HeardInv'
<1> SUFFICES ASSUME TypeOK, ReadyMeansReadable, RoundInv, HeardInv, [Next]_vars
             PROVE  HeardInv'
  OBVIOUS
<1>1. ASSUME NEW k \in Kinds, ReadCommand(k) PROVE HeardInv'
  BY <1>1 DEF ReadCommand, Goto, HeardInv, TypeOK, ControlOK
<1>2. CASE BadCommand
  BY <1>2 DEF BadCommand, Goto, HeardInv
<1>3. CASE AlarmFires
  <2>1. UNCHANGED <<pc, idx, cmd, revents, wstate>> /\ DEADLINE'
    BY <1>3 DEF AlarmFires, roundVars
  <2>2. QED
    BY <2>1 DEF HeardInv, Alive
<1>4. CASE UNCHANGED vars
  <2>1. UNCHANGED <<pc, idx, cmd, clean, DEADLINE, revents, numAnswers, Answers, wstate,
                    cur, pipeVars>>
    BY <1>4 DEF vars, parentVars, consoleVars, roundVars, workerVars
  <2>2. Heard' = Heard
    BY <2>1, SamePicture DEF Heard, Alive
  <2>3. QED
    BY <2>1, <2>2 DEF HeardInv, Alive
<1>5. QED
  BY <1>1, <1>2, <1>3, <1>4, HeardParent, HeardWorker DEF Next, UserStep, Finished

\* GetAllAnswers, until it admits a failure, returns in time only with everyone
\* heard: whose answer it lacks has hung up.
LEMMA MissingStep ==
  TypeOK /\ HeardInv /\ MissingAnswerExplained /\ [Next]_vars => MissingAnswerExplained'
<1> SUFFICES ASSUME TypeOK, HeardInv, MissingAnswerExplained, [Next]_vars
             PROVE  MissingAnswerExplained'
  OBVIOUS
<1> USE DEF Goto
<1>1. CASE AllAnswered
  <2>1. UNCHANGED <<DEADLINE, Answers, wstate>> /\ pc = "read"
        /\ (clean' => clean /\ numAnswers >= N)
    BY <1>1 DEF AllAnswered, roundVars, workerVars
  <2>2. clean' /\ ~DEADLINE => Heard = Workers
    BY <2>1, HeardCount, CountAssumption DEF HeardInv, TypeOK, RoundOK
  <2>3. QED
    BY <2>1, <2>2 DEF MissingAnswerExplained, Heard, Alive
<1>2. ASSUME NEW w \in Workers, WorkerStep(w) \/ Crash(w) PROVE MissingAnswerExplained'
  <2>1. UNCHANGED <<pc, clean, DEADLINE, Answers>>
    BY <1>2, WorkerLeavesParent DEF parentVars, consoleVars, roundVars
  <2>2. QED
    BY <1>2, <2>1, DeadStayDead DEF MissingAnswerExplained
<1>3. CASE AlarmFires
  BY <1>3 DEF AlarmFires, MissingAnswerExplained
<1>4. CASE UNCHANGED vars
  BY <1>4 DEF vars, parentVars, consoleVars, roundVars, workerVars, Alive,
              MissingAnswerExplained
<1>5. CASE UserStep
  BY <1>5 DEF UserStep, BadCommand, ReadCommand, MissingAnswerExplained
<1>6. CASE ParentStep /\ ~AllAnswered
  BY <1>6
     DEF MissingAnswerExplained, ParentStep, OpenExecutorPipes, DistributePaths,
         PathsDistributed, ChildLives, ReviveChild, ReopenPipes, DistributePath,
         ChildrenChecked, SendToWorker, SendToAllFails, SentToAll, Poll, ReceiveAnswer,
         NonResponsive, SkipPipe, PollAgain, PrintAnswers, WaitForChildren
<1>7. QED
  BY <1>1, <1>2, <1>3, <1>4, <1>5, <1>6 DEF Next, Finished

\* Those counted in a round were all heard.
THEOREM CountedWereHeard == Spec => []HeardInv
<1>1. Init => HeardInv
  BY DEF Init, HeardInv
<1>2. QED
  BY <1>1, HeardStep, TypesAndReadiness, RoundsDoNotOverlap, PTL DEF Spec

\* In a session without diagnostics an answer is missing from what is printed
\* only because the deadline expired or because its worker is dead.
THEOREM NoAnswerLost == Spec => []MissingAnswerExplained
<1>1. Init => MissingAnswerExplained
  BY DEF Init, MissingAnswerExplained
<1>2. QED
  BY <1>1, MissingStep, TypesAndReadiness, CountedWereHeard, PTL DEF Spec

=============================================================================

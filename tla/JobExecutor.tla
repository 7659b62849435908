---------------------------- MODULE JobExecutor ----------------------------
(***************************************************************************)
(* The protocol between the jobExecutor (JobExecutor.c, Console.c) and its *)
(* workers (Worker.c) over one pair of named pipes per worker (Piping.c),  *)
(* with the directory loads of ReadPaths.c, the deadline alarm of /search  *)
(* and SIGUSR1.  It starts when main has forked every worker and ends with *)
(* main's return or with a crash of the jobExecutor.                       *)
(*                                                                         *)
(* A message is a record [kind, id]: a load of directories is the message  *)
(* Dirs, the id-th command typed by the user carries the number id, and an *)
(* answer is the number of the command it answers (what it says is the     *)
(* subject of other modules).  Messages are atomic here: module Piping     *)
(* models how Send and Receive cut them into writes.                       *)
(***************************************************************************)
EXTENDS Naturals, Sequences, FiniteSets

CONSTANTS
  N,            \* numWorkers, the option -w
  NumPaths,     \* number of directories listed in the input file
  Kinds,        \* the commands the user types
  Deadlines,    \* TRUE \in Deadlines: a deadline > 0 may be typed;
                \* FALSE \in Deadlines: deadline 0, with which alarm() sets none
  MaxCommands,  \* bound: valid commands typed in one session
  MaxCrashes    \* bound: workers that die from outside causes

CommandKinds == {"search", "count", "wc", "exit"}

ASSUME CountAssumption   == N \in Nat \ {0} /\ NumPaths \in Nat
ASSUME CommandAssumption == Kinds \subseteq CommandKinds /\ Deadlines \subseteq BOOLEAN
ASSUME BoundAssumption   == MaxCommands \in Nat /\ MaxCrashes \in Nat

Workers == 0 .. N-1

VARIABLES
  pc,          \* where the jobExecutor is
  idx,         \* the counter i of the loop it is in
  cmd,         \* the command being served (the last one between commands)
  DEADLINE,    \* the parent's flag
  armed,       \* an alarm for SIGALRM is pending
  revents,     \* PollPipes[i].revents
  Answers,     \* Answers[i]: number of the command answered, NoAnswer for NULL
  numAnswers,
  numNon,      \* numNonResposive
  clean,       \* history: neither "unresponsive children" nor "x/N Workers
               \* answered in time" has been printed in this session
  shown,       \* history: the last answer of worker i shown to the user
  wstate,      \* where worker i is
  cur,         \* the last /search worker i took, until it has answered it
  wDEADLINE,   \* worker i's flag
  sigusr,      \* SIGUSR1 sent to worker i and not yet delivered
  toPipe,      \* jobExecutor -> worker i
  fromPipe,    \* worker i -> jobExecutor
  crashes

consoleVars == <<cmd, DEADLINE, armed, clean>>
roundVars   == <<revents, Answers, numAnswers, numNon>>
parentVars  == <<pc, idx, consoleVars, roundVars, shown>>
workerVars  == <<wstate, cur, wDEADLINE, sigusr>>
pipeVars    == <<toPipe, fromPipe>>
vars        == <<parentVars, workerVars, pipeVars, crashes>>

NoAnswer == 0
Dirs     == [kind |-> "dirs", id |-> 0]
Message  == [kind : CommandKinds \cup {"dirs"}, id : Nat]

Alive(w) == wstate[w] # "dead"

\* DistributePaths and DistributePath give worker w the paths from
\* w * load_size on; MakeLoad returns NULL when there are none left.
load_size  == (NumPaths + N - 1) \div N
HasLoad(w) == w * load_size < NumPaths

ControlOK ==
  /\ pc \in {"open", "distribute", "check", "reopen", "redistribute", "prompt",
             "send", "poll", "read", "print", "wait", "done", "crashed"}
  /\ idx \in 0 .. N
  /\ pc \in {"open", "reopen", "redistribute"} => idx < N
  /\ cmd \in [kind : CommandKinds, id : 0 .. MaxCommands]
  /\ DEADLINE \in BOOLEAN /\ armed \in BOOLEAN /\ clean \in BOOLEAN
  /\ crashes \in 0 .. MaxCrashes

RoundOK ==
  /\ revents \in [Workers -> {"none", "IN", "HUP", "INHUP"}]
  /\ Answers \in [Workers -> Nat]
  /\ shown \in [Workers -> Nat]
  /\ numAnswers \in Nat
  /\ numNon \in Nat

WorkersOK ==
  /\ wstate \in [Workers -> {"open", "dirs", "idle", "search", "answered", "dead"}]
  /\ cur \in [Workers -> Nat]
  /\ wDEADLINE \in [Workers -> BOOLEAN]
  /\ sigusr \in [Workers -> BOOLEAN]

PipesOK ==
  /\ toPipe \in [Workers -> Seq(Message)]
  /\ fromPipe \in [Workers -> Seq(Nat)]

TypeOK == ControlOK /\ RoundOK /\ WorkersOK /\ PipesOK

Init ==
  /\ pc = "open" /\ idx = 0
  /\ cmd = [kind |-> "wc", id |-> 0]
  /\ DEADLINE = FALSE /\ armed = FALSE /\ clean = TRUE
  /\ revents = [w \in Workers |-> "none"]
  /\ Answers = [w \in Workers |-> NoAnswer]
  /\ shown = [w \in Workers |-> NoAnswer]
  /\ numAnswers = 0 /\ numNon = 0
  /\ wstate = [w \in Workers |-> "open"]
  /\ cur = [w \in Workers |-> 0]
  /\ wDEADLINE = [w \in Workers |-> FALSE]
  /\ sigusr = [w \in Workers |-> FALSE]
  /\ toPipe = [w \in Workers |-> <<>>]
  /\ fromPipe = [w \in Workers |-> <<>>]
  /\ crashes = 0

-----------------------------------------------------------------------------
(* The jobExecutor *)

Goto(label, i) == pc' = label /\ idx' = i

\* write(2) into a pipe whose reader is gone fails with EPIPE.
Deliver(w, m) ==
  toPipe' = IF Alive(w) THEN [toPipe EXCEPT ![w] = Append(@, m)] ELSE toPipe

\* OpenExecutorPipe: open(2) on each end of a fifo waits for the other end, so
\* the step is the rendezvous with OpenWorkerPipes; it never comes when the
\* worker has died before it.
OpenPipes(w) ==
  /\ wstate[w] = "open"
  /\ wstate' = [wstate EXCEPT ![w] = "dirs"]
  /\ UNCHANGED <<consoleVars, roundVars, cur, wDEADLINE, sigusr, pipeVars, shown, crashes>>

\* Mutant: the loop runs to i <= numWorkers.
OneMorePipe ==
  /\ pc = "open"
  /\ OpenPipes(idx)
  /\ Goto("open", idx + 1)

OpenExecutorPipes ==
  /\ pc = "open"
  /\ OpenPipes(idx)
  /\ IF idx + 1 = N THEN Goto("distribute", 0) ELSE Goto("open", idx + 1)

\* One turn of the loop of DistributePaths; the result of Send is ignored.
DistributePaths ==
  /\ pc = "distribute" /\ idx < N /\ HasLoad(idx)
  /\ Deliver(idx, Dirs)
  /\ Goto("distribute", idx + 1)
  /\ UNCHANGED <<consoleVars, roundVars, workerVars, fromPipe, shown, crashes>>

\* The loop ends, or breaks at the first worker without a load.
PathsDistributed ==
  /\ pc = "distribute" /\ (idx < N => ~HasLoad(idx))
  /\ Goto("check", 0)
  /\ UNCHANGED <<consoleVars, roundVars, workerVars, pipeVars, shown, crashes>>

\* CheckChildren: waitpid(WNOHANG) says that worker i lives.
ChildLives ==
  /\ pc = "check" /\ idx < N /\ Alive(idx)
  /\ Goto("check", idx + 1)
  /\ UNCHANGED <<consoleVars, roundVars, workerVars, pipeVars, shown, crashes>>

\* CheckChildren: worker i is dead; its pipes are unlinked, a new pair is made
\* and a new worker forked.
ReviveChild ==
  /\ pc = "check" /\ idx < N /\ ~Alive(idx)
  /\ wstate' = [wstate EXCEPT ![idx] = "open"]
  /\ toPipe' = [toPipe EXCEPT ![idx] = <<>>]
  /\ fromPipe' = [fromPipe EXCEPT ![idx] = <<>>]
  /\ Goto("reopen", idx)
  /\ UNCHANGED <<consoleVars, roundVars, cur, wDEADLINE, sigusr, shown, crashes>>

ReopenPipes ==
  /\ pc = "reopen"
  /\ OpenPipes(idx)
  /\ Goto("redistribute", idx)

\* Mutant: a revived worker is not sent its load.
NoNewLoad ==
  /\ pc = "redistribute"
  /\ Goto("check", idx + 1)
  /\ UNCHANGED <<consoleVars, roundVars, workerVars, pipeVars, shown, crashes>>

\* DistributePath sends the load again; without one it passes NULL to Send,
\* whose strlen(NULL) ends the jobExecutor.
DistributePath ==
  /\ pc = "redistribute"
  /\ IF HasLoad(idx)
       THEN Deliver(idx, Dirs) /\ Goto("check", idx + 1)
       ELSE UNCHANGED toPipe /\ Goto("crashed", idx)
  /\ UNCHANGED <<consoleVars, roundVars, workerVars, fromPipe, shown, crashes>>

ChildrenChecked ==
  /\ pc = "check" /\ idx = N
  /\ Goto("prompt", 0)
  /\ UNCHANGED <<consoleVars, roundVars, workerVars, pipeVars, shown, crashes>>

\* The user types a command; /search has SetDeadlineAlarm reset the flag and
\* arm the alarm.
ReadCommand(k) ==
  /\ pc = "prompt" /\ cmd.id < MaxCommands
  /\ cmd' = [kind |-> k, id |-> cmd.id + 1]
  /\ IF k = "search" THEN DEADLINE' = FALSE /\ armed' \in Deadlines
                     ELSE UNCHANGED <<DEADLINE, armed>>
  /\ Goto("send", 0)
  /\ UNCHANGED <<clean, roundVars, workerVars, pipeVars, shown, crashes>>

\* An unknown command, or a query CreateQuerryStdin refuses.
BadCommand ==
  /\ pc = "prompt"
  /\ Goto("check", 0)
  /\ UNCHANGED <<consoleVars, roundVars, workerVars, pipeVars, shown, crashes>>

\* SendToAll: the write to worker i succeeds.
SendToWorker ==
  /\ pc = "send" /\ idx < N /\ Alive(idx)
  /\ Deliver(idx, cmd)
  /\ Goto("send", idx + 1)
  /\ UNCHANGED <<consoleVars, roundVars, workerVars, fromPipe, shown, crashes>>

\* Mutant: the alarm is left running.
AlarmLeftOn ==
  /\ pc = "send" /\ idx < N /\ ~Alive(idx)
  /\ IF cmd.kind = "exit"
       THEN Goto("wait", 0) /\ UNCHANGED clean
       ELSE Goto("check", 0) /\ clean' = FALSE
  /\ UNCHANGED <<cmd, DEADLINE, armed, roundVars, workerVars, pipeVars, shown, crashes>>

\* Mutant: a failed broadcast is given up without a word.
GivenUpSilently ==
  /\ pc = "send" /\ idx < N /\ ~Alive(idx)
  /\ armed' = FALSE
  /\ Goto(IF cmd.kind = "exit" THEN "wait" ELSE "check", 0)
  /\ UNCHANGED <<cmd, DEADLINE, clean, roundVars, workerVars, pipeVars, shown, crashes>>

\* SendToAll returns at the first failure.  /exit ignores it; the others print
\* "unresponsive children ... Try again" and go on, /search after alarm(0).
SendToAllFails ==
  /\ pc = "send" /\ idx < N /\ ~Alive(idx)
  /\ IF cmd.kind = "exit"
       THEN Goto("wait", 0) /\ UNCHANGED <<armed, clean>>
       ELSE /\ Goto("check", 0)
            /\ clean' = FALSE
            /\ armed' = IF cmd.kind = "search" THEN FALSE ELSE armed
  /\ UNCHANGED <<cmd, DEADLINE, roundVars, workerVars, pipeVars, shown, crashes>>

\* Everyone has been written to: on to GetAllAnswers, which clears Answers.
SentToAll ==
  /\ pc = "send" /\ idx = N
  /\ IF cmd.kind = "exit"
       THEN Goto("wait", 0) /\ UNCHANGED roundVars
       ELSE /\ Goto("poll", 0)
            /\ Answers' = [w \in Workers |-> NoAnswer]
            /\ numAnswers' = 0 /\ numNon' = 0
            /\ UNCHANGED revents
  /\ UNCHANGED <<consoleVars, workerVars, pipeVars, shown, crashes>>

\* What poll(2) reports of fromPipe[w]: the last writer is gone once the worker
\* is dead, and unread data stays readable.
Readiness(w) ==
  IF fromPipe[w] # <<>> THEN IF Alive(w) THEN "IN" ELSE "INHUP"
                        ELSE IF Alive(w) THEN "none" ELSE "HUP"

\* poll(..., -1) blocks until some pipe is ready.
Poll ==
  /\ pc = "poll" /\ \E w \in Workers : Readiness(w) # "none"
  /\ revents' = [w \in Workers |-> Readiness(w)]
  /\ Goto("read", 0)
  /\ UNCHANGED <<consoleVars, Answers, numAnswers, numNon,
                 workerVars, pipeVars, shown, crashes>>

\* Mutant: a worker is read from until it has nothing more to say.
KeepReceiving ==
  /\ pc = "read" /\ idx < N /\ revents[idx] = "IN"
  /\ Answers' = [Answers EXCEPT ![idx] = Head(fromPipe[idx])]
  /\ numAnswers' = numAnswers + 1
  /\ fromPipe' = [fromPipe EXCEPT ![idx] = Tail(@)]
  /\ UNCHANGED <<pc, idx, consoleVars, revents, numNon, workerVars, toPipe, shown, crashes>>

\* Mutant: an answer dropped after the deadline is not counted.
DroppedNotCounted ==
  /\ pc = "read" /\ idx < N /\ revents[idx] = "IN"
  /\ Answers' = [Answers EXCEPT ![idx] =
                   IF DEADLINE THEN NoAnswer ELSE Head(fromPipe[idx])]
  /\ numAnswers' = IF DEADLINE THEN numAnswers ELSE numAnswers + 1
  /\ fromPipe' = [fromPipe EXCEPT ![idx] = Tail(@)]
  /\ Goto("read", idx + 1)
  /\ UNCHANGED <<consoleVars, revents, numNon, workerVars, toPipe, shown, crashes>>

\* revents == POLLIN: the answer is received, and dropped after the deadline.
ReceiveAnswer ==
  /\ pc = "read" /\ idx < N /\ revents[idx] = "IN"
  /\ Answers' = [Answers EXCEPT ![idx] =
                   IF DEADLINE THEN NoAnswer ELSE Head(fromPipe[idx])]
  /\ numAnswers' = numAnswers + 1
  /\ fromPipe' = [fromPipe EXCEPT ![idx] = Tail(@)]
  /\ Goto("read", idx + 1)
  /\ UNCHANGED <<consoleVars, revents, numNon, workerVars, toPipe, shown, crashes>>

\* revents == POLLHUP: the worker is counted as non responsive and whatever it
\* has answered in this round is lost.
NonResponsive ==
  /\ pc = "read" /\ idx < N /\ revents[idx] = "HUP"
  /\ Answers' = [Answers EXCEPT ![idx] = NoAnswer]
  /\ numNon' = numNon + 1
  /\ Goto("read", idx + 1)
  /\ UNCHANGED <<consoleVars, revents, numAnswers, workerVars, pipeVars, shown, crashes>>

\* Nothing to read, or POLLIN | POLLHUP, which no branch matches.
SkipPipe ==
  /\ pc = "read" /\ idx < N /\ revents[idx] \in {"none", "INHUP"}
  /\ Goto("read", idx + 1)
  /\ UNCHANGED <<consoleVars, roundVars, workerVars, pipeVars, shown, crashes>>

EnoughAnswers == numAnswers + numNon >= N

\* Mutant: InitalizeArray is called in every turn of the loop.
PollAfresh ==
  /\ pc = "read" /\ idx = N /\ ~EnoughAnswers
  /\ Goto("poll", 0)
  /\ Answers' = [w \in Workers |-> NoAnswer]
  /\ UNCHANGED <<consoleVars, revents, numAnswers, numNon, workerVars, pipeVars,
                 shown, crashes>>

PollAgain ==
  /\ pc = "read" /\ idx = N /\ ~EnoughAnswers
  /\ Goto("poll", 0)
  /\ UNCHANGED <<consoleVars, roundVars, workerVars, pipeVars, shown, crashes>>

\* Mutant: the message is printed when the loop's own condition holds.
NoMessage ==
  /\ pc = "read" /\ idx = N /\ EnoughAnswers
  /\ clean' = (clean /\ numAnswers + numNon >= N)
  /\ Goto("print", 0)
  /\ UNCHANGED <<cmd, DEADLINE, armed, roundVars, workerVars, pipeVars, shown, crashes>>

\* "x/N Workers answered in time" is printed when fewer than N answers came.
AllAnswered ==
  /\ pc = "read" /\ idx = N /\ EnoughAnswers
  /\ clean' = (clean /\ numAnswers >= N)
  /\ Goto("print", 0)
  /\ UNCHANGED <<cmd, DEADLINE, armed, roundVars, workerVars, pipeVars, shown, crashes>>

\* Mutant: DEADLINE = 0 is missing.
FlagKept ==
  /\ pc = "print"
  /\ armed' = FALSE
  /\ Goto("check", 0)
  /\ UNCHANGED <<cmd, DEADLINE, clean, roundVars, workerVars, pipeVars, shown, crashes>>

\* /search cancels the alarm and clears the flag; PrintMaxCount and
\* PrintMinCount read Answers[i][0] before they ask whether Answers[i] is NULL.
PrintAnswers ==
  /\ pc = "print"
  /\ IF cmd.kind = "search" THEN armed' = FALSE /\ DEADLINE' = FALSE
                            ELSE UNCHANGED <<armed, DEADLINE>>
  /\ IF cmd.kind = "count" /\ \E w \in Workers : Answers[w] = NoAnswer
       THEN /\ Goto("crashed", 0)
            /\ UNCHANGED shown
       ELSE /\ Goto("check", 0)
            /\ shown' = [w \in Workers |->
                           IF Answers[w] = NoAnswer THEN shown[w] ELSE Answers[w]]
  /\ UNCHANGED <<cmd, clean, roundVars, workerVars, pipeVars, crashes>>

\* while(wait(&status) > 0): wait returns -1 when no child is left.
WaitForChildren ==
  /\ pc = "wait" /\ \A w \in Workers : ~Alive(w)
  /\ Goto("done", 0)
  /\ UNCHANGED <<consoleVars, roundVars, workerVars, pipeVars, shown, crashes>>

\* SIGALRM: alrm_handler sets the flag and signals every worker.
AlarmFires ==
  /\ armed /\ pc \notin {"done", "crashed"}
  /\ armed' = FALSE /\ DEADLINE' = TRUE
  /\ sigusr' = [w \in Workers |-> Alive(w)]
  /\ UNCHANGED <<pc, idx, cmd, clean, roundVars, wstate, cur, wDEADLINE,
                 pipeVars, shown, crashes>>

-----------------------------------------------------------------------------
(* The workers.  A worker with a pending SIGUSR1 runs its handler, or dies, *)
(* before it does anything else.                                            *)

\* The process is gone: its end of both pipes is closed and what was sent to it
\* will never be read; what it has written can still be.
Die(w) ==
  /\ wstate' = [wstate EXCEPT ![w] = "dead"]
  /\ cur' = [cur EXCEPT ![w] = 0]
  /\ wDEADLINE' = [wDEADLINE EXCEPT ![w] = FALSE]
  /\ sigusr' = [sigusr EXCEPT ![w] = FALSE]
  /\ toPipe' = [toPipe EXCEPT ![w] = <<>>]
  /\ UNCHANGED <<parentVars, fromPipe>>

Receives(w, s) ==
  /\ wstate[w] = s /\ ~sigusr[w] /\ toPipe[w] # <<>>

Consume(w) == toPipe' = [toPipe EXCEPT ![w] = Tail(@)]

Reply(w, id) == fromPipe' = [fromPipe EXCEPT ![w] = Append(@, id)]

\* The first message is parsed as the list of directories.  A command parsed so
\* names directories like "/wc" that do not exist: exit(CANT_OPEN_DIR).
ReceiveDirs(w) ==
  /\ Receives(w, "dirs")
  /\ IF Head(toPipe[w]).kind = "dirs"
       THEN /\ wstate' = [wstate EXCEPT ![w] = "idle"]
            /\ Consume(w)
            /\ UNCHANGED <<parentVars, cur, wDEADLINE, sigusr, fromPipe>>
       ELSE Die(w)
  /\ UNCHANGED crashes

\* /search: DEADLINE = 0 and SIGUSR1 is caught from here on.
BeginSearch(w) ==
  /\ Receives(w, "idle") /\ Head(toPipe[w]).kind = "search"
  /\ wstate' = [wstate EXCEPT ![w] = "search"]
  /\ cur' = [cur EXCEPT ![w] = Head(toPipe[w]).id]
  /\ wDEADLINE' = [wDEADLINE EXCEPT ![w] = FALSE]
  /\ Consume(w)
  /\ UNCHANGED <<parentVars, sigusr, fromPipe, crashes>>

\* Mutant: the "else" is missing, the empty answer is followed by the real one.
AnswerTwice(w) ==
  /\ wstate[w] = "search" /\ ~sigusr[w]
  /\ fromPipe' = [fromPipe EXCEPT ![w] = @ \o <<cur[w], cur[w]>>]
  /\ cur' = [cur EXCEPT ![w] = 0]
  /\ wstate' = [wstate EXCEPT ![w] = "answered"]
  /\ UNCHANGED <<parentVars, wDEADLINE, sigusr, toPipe, crashes>>

\* The answer is sent: the empty one (no results) whatever the flag says, a
\* real one when the flag was still clear as SendSearchAnswer tested it.
AnswerSearch(w) ==
  /\ wstate[w] = "search" /\ ~sigusr[w]
  /\ Reply(w, cur[w])
  /\ cur' = [cur EXCEPT ![w] = 0]
  /\ wstate' = [wstate EXCEPT ![w] = "answered"]
  /\ UNCHANGED <<parentVars, wDEADLINE, sigusr, toPipe, crashes>>

\* SendSearchAnswer finds the flag set and sends nothing.
WithholdAnswer(w) ==
  /\ wstate[w] = "search" /\ ~sigusr[w] /\ wDEADLINE[w]
  /\ wstate' = [wstate EXCEPT ![w] = "answered"]
  /\ UNCHANGED <<parentVars, cur, wDEADLINE, sigusr, pipeVars, crashes>>

\* signal(SIGUSR1, SIG_DFL).
EndSearch(w) ==
  /\ wstate[w] = "answered" /\ ~sigusr[w]
  /\ wstate' = [wstate EXCEPT ![w] = "idle"]
  /\ wDEADLINE' = [wDEADLINE EXCEPT ![w] = FALSE]
  /\ UNCHANGED <<parentVars, cur, sigusr, pipeVars, crashes>>

\* Mutant: a worker without the keyword only writes its log.
MaybeAnswer(w) ==
  /\ Receives(w, "idle") /\ Head(toPipe[w]).kind \in {"count", "wc"}
  /\ Consume(w)
  /\ Reply(w, Head(toPipe[w]).id) \/ UNCHANGED fromPipe
  /\ UNCHANGED <<parentVars, workerVars, crashes>>

\* /maxcount, /mincount and /wc are received, computed and answered.
AnswerOther(w) ==
  /\ Receives(w, "idle") /\ Head(toPipe[w]).kind \in {"count", "wc"}
  /\ Consume(w)
  /\ Reply(w, Head(toPipe[w]).id)
  /\ UNCHANGED <<parentVars, workerVars, crashes>>

\* Mutant: "continue" for "break".
IgnoreExit(w) ==
  /\ Receives(w, "idle") /\ Head(toPipe[w]).kind = "exit"
  /\ Consume(w)
  /\ UNCHANGED <<parentVars, workerVars, fromPipe, crashes>>

HandleExit(w) ==
  /\ Receives(w, "idle") /\ Head(toPipe[w]).kind = "exit"
  /\ Die(w)
  /\ UNCHANGED crashes

\* deadline_handler sets the flag during a search; at any other time SIGUSR1
\* has its default action.
DeliverSIGUSR1(w) ==
  /\ sigusr[w]
  /\ IF wstate[w] \in {"search", "answered"}
       THEN /\ wDEADLINE' = [wDEADLINE EXCEPT ![w] = TRUE]
            /\ sigusr' = [sigusr EXCEPT ![w] = FALSE]
            /\ UNCHANGED <<parentVars, wstate, cur, pipeVars>>
       ELSE Die(w)
  /\ UNCHANGED crashes

\* The worker dies of something else: a signal, a directory it cannot open.
Crash(w) ==
  /\ Alive(w) /\ crashes < MaxCrashes
  /\ crashes' = crashes + 1
  /\ Die(w)

-----------------------------------------------------------------------------
UserStep == BadCommand \/ \E k \in Kinds : ReadCommand(k)

ParentStep ==
  \/ OpenExecutorPipes \/ DistributePaths \/ PathsDistributed
  \/ ChildLives \/ ReviveChild \/ ReopenPipes \/ DistributePath \/ ChildrenChecked
  \/ SendToWorker \/ SendToAllFails \/ SentToAll
  \/ Poll \/ ReceiveAnswer \/ NonResponsive \/ SkipPipe \/ PollAgain
  \/ AllAnswered \/ PrintAnswers \/ WaitForChildren

WorkerStep(w) ==
  \/ ReceiveDirs(w) \/ BeginSearch(w) \/ AnswerSearch(w) \/ WithholdAnswer(w)
  \/ EndSearch(w) \/ AnswerOther(w) \/ HandleExit(w) \/ DeliverSIGUSR1(w)

\* main has returned.
Finished == pc = "done" /\ UNCHANGED vars

Next ==
  \/ UserStep \/ ParentStep \/ AlarmFires \/ Finished
  \/ \E w \in Workers : WorkerStep(w) \/ Crash(w)

Spec == Init /\ [][Next]_vars

\* Every process that can run is scheduled.  Nothing makes the user type, an
\* alarm fire or a worker die.
Fairness == WF_vars(ParentStep) /\ \A w \in Workers : WF_vars(WorkerStep(w))

FairSpec == Spec /\ Fairness

-----------------------------------------------------------------------------
(* Safety *)

Increasing(s) == \A i, j \in DOMAIN s : i < j => s[i] < s[j]

Serving(w) == IF wstate[w] = "search" THEN <<cur[w]>> ELSE <<>>
Ids(w)     == [i \in DOMAIN toPipe[w] |-> toPipe[w][i].id]

\* The unread answers of w, the command it serves and those waiting for it.
Pipeline(w) == fromPipe[w] \o Serving(w) \o Ids(w)

\* Every worker answers each command at most once and in the order in which
\* the commands were typed, and nothing it still has to say has been shown
\* before: after any crash, failed broadcast or revival, what is on its way
\* through the worker and its two pipes is newer than what was shown and
\* strictly increasing (the loop of Worker; CheckChildren's fresh pipes).
CommandsInOrder ==
  \A w \in Workers :
    /\ Increasing(Pipeline(w))
    /\ \A i \in DOMAIN Pipeline(w) : Pipeline(w)[i] <= cmd.id
    /\ \A i \in DOMAIN fromPipe[w] : fromPipe[w][i] > shown[w]

\* Worker.c:32, "these will be the dirs": as long as every worker has a load,
\* a new or revived worker finds its load before any command, once, and never
\* takes a load for a command.
LoadComesFirst ==
  (\A w \in Workers : HasLoad(w)) =>
    \A w \in Workers : \A i \in DOMAIN toPipe[w] :
      (toPipe[w][i].kind = "dirs") <=> (wstate[w] = "dirs" /\ i = 1)

\* GetAllAnswers pairs answers with the command only by waiting for all of
\* them.  That suffices until the console admits a failure: in a session
\* without a diagnostic, whatever workers died and whatever alarms fired, every
\* answer collected belongs to the command being served.
NoStaleAnswer ==
  clean /\ pc \in {"poll", "read", "print"} =>
    \A w \in Workers : Answers[w] \in {NoAnswer, cmd.id}

\* In such a session an answer is missing from what is printed only because
\* the deadline expired or because its worker is dead.
MissingAnswerExplained ==
  clean /\ pc = "print" /\ ~DEADLINE =>
    \A w \in Workers : Answers[w] = NoAnswer => ~Alive(w)

\* An alarm is pending only while its own /search is served, so SIGUSR1 is
\* never sent on behalf of a finished, failed or different command (the
\* alarm(0) of both exits from the /search branch).
AlarmOnlyInSearch ==
  armed => cmd.kind = "search" /\ pc \in {"send", "poll", "read", "print"}

\* As long as no broadcast failed, a set DEADLINE is the current search's: no
\* other command loses its answers to it.
DeadlineOnlyInSearch ==
  clean /\ DEADLINE => cmd.kind = "search" /\ pc \in {"send", "poll", "read", "print"}

\* A pipe that poll found readable still is when its turn comes, so Receive never
\* blocks the console, whatever the workers did since (nobody else reads it).
ReadyMeansReadable ==
  pc = "read" => \A w \in Workers :
    w >= idx /\ revents[w] \in {"IN", "INHUP"} => fromPipe[w] # <<>>

-----------------------------------------------------------------------------
(* Why a clean session shows no stale answer: an inductive invariant *)

\* Nothing but the load is on its way to w, and nothing from it.
Quiet(w) ==
  /\ fromPipe[w] = <<>> /\ wstate[w] # "search"
  /\ toPipe[w] = <<>> \/ toPipe[w] = <<Dirs>>

\* Exactly the current command is on its way through w.
Asked(w) ==
  \/ /\ fromPipe[w] = <<>> /\ wstate[w] # "search"
     /\ toPipe[w] = <<cmd>> \/ toPipe[w] = <<Dirs, cmd>>
  \/ fromPipe[w] = <<>> /\ wstate[w] = "search" /\ cur[w] = cmd.id /\ toPipe[w] = <<>>
  \/ fromPipe[w] = <<cmd.id>> /\ wstate[w] # "search" /\ toPipe[w] = <<>>

QuietWorkers == {w \in Workers : Quiet(w)}

\* The jobExecutor has yet to send worker w its load.
LoadAwaited(w) ==
  \/ pc = "open"
  \/ pc = "distribute" /\ w >= idx
  \/ pc \in {"reopen", "redistribute"} /\ w = idx

\* A load is only ever written into an empty pipe.
EmptyBeforeLoad == \A w \in Workers : LoadAwaited(w) => toPipe[w] = <<>>

\* Between commands all is quiet; a broadcast leaves at most one copy of the
\* command with each worker it has reached; and the answers counted in a round
\* come from as many workers, which are quiet since.
RoundInv ==
  /\ EmptyBeforeLoad
  /\ clean =>
    /\ pc \in {"open", "distribute", "check", "reopen", "redistribute", "prompt", "print"} =>
         \A w \in Workers : Quiet(w)
    /\ pc = "send" =>
         \A w \in Workers : Quiet(w) \/ (w < idx /\ Asked(w))
    /\ pc \in {"poll", "read"} =>
         /\ \A w \in Workers : Quiet(w) \/ Asked(w)
         /\ numAnswers <= Cardinality(QuietWorkers)

-----------------------------------------------------------------------------
(* Why no answer goes missing in a clean session: whom numAnswers counts *)

\* Workers that have been heard in this round, or never will be again.
Heard == {w \in Workers : Quiet(w) /\ (Answers[w] # NoAnswer \/ ~Alive(w))}

\* A command being served has a number, which is no NoAnswer; poll reports a
\* hangup only of the dead; and as long as no deadline drops answers, those
\* counted come from as many workers that were heard.
HeardInv ==
  /\ pc \in {"send", "poll", "read", "print"} => cmd.id # NoAnswer
  /\ pc = "read" => \A w \in Workers : w >= idx /\ revents[w] = "HUP" => ~Alive(w)
  /\ clean /\ ~DEADLINE /\ pc \in {"poll", "read"} => numAnswers <= Cardinality(Heard)

-----------------------------------------------------------------------------
(* Why the load comes first and commands stay in order *)

\* A worker that awaits its load has said nothing yet, and it is past
\* OpenWorkerPipes as soon as the jobExecutor is past OpenExecutorPipe.
FreshInv ==
  \A w \in Workers :
    /\ LoadAwaited(w) => wstate[w] \in {"open", "dirs", "dead"} /\ fromPipe[w] = <<>>
    /\ wstate[w] = "open" => \/ pc = "open" /\ w >= idx
                             \/ pc = "reopen" /\ w = idx

\* From then on a worker that has not read its load has it before it.
LoadInv ==
  (\A w \in Workers : HasLoad(w)) =>
    \A w \in Workers : wstate[w] = "dirs" => LoadAwaited(w) \/ toPipe[w] # <<>>

\* The number of every command on its way through w, and of every answer
\* coming back, exceeds those of the answers received from w.
NewerThan(w, n) ==
  /\ \A i \in DOMAIN fromPipe[w] : n < fromPipe[w][i]
  /\ wstate[w] = "search" => n < cur[w]
  /\ \A i \in DOMAIN toPipe[w] : toPipe[w][i] # Dirs => n < toPipe[w][i].id

\* Pipeline(w) is increasing, segment by segment and from one to the next.
InOrder(w) ==
  /\ \A i, j \in DOMAIN fromPipe[w] : i < j => fromPipe[w][i] < fromPipe[w][j]
  /\ \A i, j \in DOMAIN toPipe[w] : i < j => toPipe[w][i].id < toPipe[w][j].id
  /\ wstate[w] = "search" =>
       /\ \A i \in DOMAIN fromPipe[w] : fromPipe[w][i] < cur[w]
       /\ \A j \in DOMAIN toPipe[w] : cur[w] < toPipe[w][j].id
  /\ \A i \in DOMAIN fromPipe[w], j \in DOMAIN toPipe[w] :
       fromPipe[w][i] < toPipe[w][j].id

\* Nothing exceeds n.
UpTo(w, n) ==
  /\ \A i \in DOMAIN fromPipe[w] : fromPipe[w][i] <= n
  /\ wstate[w] = "search" => cur[w] <= n
  /\ \A i \in DOMAIN toPipe[w] : toPipe[w][i].id <= n

\* The broadcast of a command finds only older ones; what is received in a
\* round is newer than what was shown before.
OrderInv ==
  \A w \in Workers :
    /\ \A i \in DOMAIN toPipe[w] : toPipe[w][i].kind = "dirs" => toPipe[w][i] = Dirs
    /\ InOrder(w)
    /\ NewerThan(w, shown[w]) /\ NewerThan(w, Answers[w])
    /\ UpTo(w, IF pc = "send" /\ w >= idx THEN cmd.id - 1 ELSE cmd.id)
    /\ shown[w] <= cmd.id /\ Answers[w] <= cmd.id
    /\ pc = "send" => shown[w] < cmd.id /\ Answers[w] < cmd.id
    /\ pc \in {"poll", "read", "print"} => Answers[w] = NoAnswer \/ shown[w] < Answers[w]

-----------------------------------------------------------------------------
(* Liveness *)

\* Every broadcast command returns the user to the prompt.
CommandServed == pc = "send" /\ cmd.kind # "exit" ~> pc = "prompt"

\* /exit ends the session with every worker gone.
ExitTerminates == pc = "send" /\ cmd.kind = "exit" ~> pc = "done"

\* A worker that died leaving unread answers, or that lives and has withheld
\* its answer to the very search that is served (SendSearchAnswer after the
\* deadline): no turn of the loop counts either.
NeverCounted(w) ==
  \/ ~Alive(w) /\ fromPipe[w] # <<>>
  \/ Alive(w) /\ wstate[w] # "search" /\ cur[w] = cmd.id

\* GetAllAnswers returns, whoever dies and whenever, unless some worker is one
\* it can never count (the do-while loop over poll); a worker that answered, in
\* time or too late, is no excuse.
RoundEnds ==
  pc = "poll" ~> pc \notin {"poll", "read"} \/ \E w \in Workers : NeverCounted(w)

\* Console.h:12: once workers no longer die from outside causes, one that is
\* dead before the prompt is back at work, its load read, without any help from
\* the user (CheckChildren, and the rendezvous it waits for in open), unless the
\* deadline of the next /search is signalled to it while it still loads.
DeadWorkerRevived ==
  \A w \in Workers :
    crashes = MaxCrashes /\ pc = "check" /\ idx <= w /\ ~Alive(w)
      ~> wstate[w] = "idle" \/ sigusr[w]

=============================================================================

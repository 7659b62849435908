------------------------------ MODULE Startup ------------------------------
(***************************************************************************)
(* Sessions of the jobExecutor around its prompt: main makes the fifos and *)
(* the workers, each side opens its ends (Piping.c), the lines of the file *)
(* of paths are dealt out (ReadPaths.c), a worker takes the first message  *)
(* it gets for its directories, commands and /exit are sent from one       *)
(* worker to the next, dead workers are replaced, and the fifos are        *)
(* removed at the end.  A session may fail in the middle, and the next one *)
(* finds what it left behind.                                              *)
(*                                                                         *)
(* What becomes of the answers is in JobExecutor.tla, which takes an open  *)
(* on both sides for one step and a load for sent or not.                  *)
(***************************************************************************)
EXTENDS Integers, Sequences, FiniteSets, SequencesExt

CONSTANTS
  N,             \* numWorkers
  Files,         \* the files of paths: sequences of forms of lines
  MaxSessions,   \* bound: sessions
  MaxTurns,      \* bound: commands of a session
  MaxFailures    \* bound: failed forks and processes killed

ASSUME WorkersAssumption == N \in Nat \ {0}
ASSUME LimitsAssumption  == {MaxSessions, MaxTurns, MaxFailures} \subseteq Nat

Workers == 0 .. N-1

\* A line is one path, a path with a blank in it, one with a blank behind it, or
\* it has nothing before its first blank.
LineKinds == {"path", "spaced", "trailing", "blank"}

ASSUME FilesAssumption == Files \subseteq Seq(LineKinds)

VARIABLES
  lines, terminated,   \* the file of paths: the form of each line; the last has its \n
  pc, idx,             \* the console, the worker it is at
  revived,             \* the worker CheckChildren replaces
  Paths_index,         \* the paths dealt out so far
  sending,             \* what SendToAll sends: a command or /exit
  wstate,              \* the workers of this session
  fifos,               \* the fifos that exist
  opened,              \* the ends that the console has opened: the fifos
  toPipe,              \* the messages in the to pipe of each worker
  answers,             \* the number of answers in its from pipe
  Dirs,                \* what each worker made of its first message
  session, turns, failures, leftovers   \* leftovers: some earlier session left fifos

input   == <<lines, terminated>>
history == <<session, turns, failures, leftovers>>
console == <<pc, idx, revived, Paths_index, sending>>
workers == <<wstate, toPipe, answers, Dirs>>
vars    == <<input, console, fifos, opened, workers, history>>

-----------------------------------------------------------------------------
(* The file of paths *)

Dir(k)  == <<k, "whole">>
NULL    == <<0, "NULL">>
Garbage == <<0, "garbage">>
Instruction == <<0, "instruction">>

\* What getWordStr returns from the beginning of line k and from each place
\* behind a blank.
Tokens(k) ==
  CASE lines[k] = "path"     -> <<Dir(k)>>
    [] lines[k] = "spaced"   -> << <<k, "left">>, <<k, "right">> >>
    [] lines[k] = "trailing" -> <<Dir(k), NULL>>
    [] lines[k] = "blank"    -> <<NULL>>

numPaths == Len(lines)

\* ceil((double)numPaths/numWorkers)
load_size == (numPaths + N - 1) \div N

\* Mutant: the loads overlap in one path.
MakeLoadOverlapping(index) ==
  {k \in 1 .. numPaths : index <= k /\ k <= index + load_size}

\* MakeLoad: the lines behind the index, none for NULL.
MakeLoad(index) == {k \in 1 .. numPaths : index < k /\ k <= index + load_size}

\* Mutant: the next load begins with the last line of this one.
IndexOfLast(index) == IF index + load_size <= numPaths THEN index + load_size - 1 ELSE numPaths

\* Where MakeLoad leaves the index.
IndexAfter(index) == IF index + load_size <= numPaths THEN index + load_size ELSE numPaths

\* The tokens of these lines, in the order of the file.
Text(ks) ==
  LET upTo[k \in 0 .. numPaths] ==
        IF k = 0 THEN <<>>
        ELSE IF k \in ks THEN upTo[k-1] \o Tokens(k) ELSE upTo[k-1]
  IN upTo[numPaths]

\* DivideDirs stops at the first empty token.  Behind an unterminated last line
\* it reads a byte past the message: nothing is found there, or something.  A
\* command or /exit is taken for directories as well.
DivideDirs(msg) ==
  LET text  == Text(msg[2])
      empty == {i \in DOMAIN text : text[i] = NULL}
  IN CASE msg[1] # "load" -> {<<Instruction>>}
       [] msg[1] = "load" /\ empty # {} -> {SubSeq(text, 1, Min(empty) - 1)}
       [] msg[1] = "load" /\ empty = {} /\ numPaths \in msg[2] /\ ~terminated ->
            {text, Append(text, Garbage)}
       [] OTHER -> {text}

\* GetDirFiles opens every directory or exits.
CanOpen(dirs) == \A i \in DOMAIN dirs : \E k \in 1 .. numPaths : dirs[i] = Dir(k)

-----------------------------------------------------------------------------
Pair(i) == {<<"to", i>>, <<"from", i>>}

NOBODY == -1
reviving == revived # NOBODY

\* Nothing has been made yet.
FreshWorkers ==
  [wstate |-> [w \in Workers |-> "none"], toPipe |-> [w \in Workers |-> <<>>],
   answers |-> [w \in Workers |-> 0], Dirs |-> [w \in Workers |-> <<>>]]

Init ==
  /\ lines \in Files
  /\ terminated \in BOOLEAN
  /\ pc = "make" /\ idx = 0 /\ revived = NOBODY /\ Paths_index = 0 /\ sending = "command"
  /\ wstate = FreshWorkers.wstate /\ toPipe = FreshWorkers.toPipe
  /\ answers = FreshWorkers.answers /\ Dirs = FreshWorkers.Dirs
  /\ fifos = {} /\ opened = {}
  /\ session = 1 /\ turns = 0 /\ failures = 0 /\ leftovers = FALSE

At(place, i) == pc' = place /\ idx' = i

Alive(w) == wstate[w] \notin {"none", "exited", "gone"}

\* write to the pipe of a dead worker fails.
Deliver(w, msg) ==
  toPipe' = IF Alive(w) THEN [toPipe EXCEPT ![w] = Append(@, msg)] ELSE toPipe

\* mkfifo fails if there is something of that name; main and CheckChildren exit.
MakePair ==
  CASE <<"to", idx>> \in fifos   -> fifos' = fifos /\ At("gone", idx)
    [] <<"from", idx>> \in fifos -> fifos' = fifos \cup {<<"to", idx>>} /\ At("gone", idx)
    [] OTHER                     -> fifos' = fifos \cup Pair(idx) /\ At("fork", idx)

MakePipePair ==
  /\ pc = "make" /\ MakePair
  /\ UNCHANGED <<input, revived, Paths_index, sending, opened, workers, history>>

\* Mutant: the worker opens the fifo to the console first.
WorkerOrderSwapped == <<"from", "to">>

\* The order of the two opens in OpenWorkerPipes.
WorkerOrder == <<"to", "from">>

\* The child begins to open its ends.
Fork ==
  /\ pc = "fork"
  /\ wstate' = [wstate EXCEPT ![idx] = WorkerOrder[1]]
  /\ Dirs' = [Dirs EXCEPT ![idx] = <<>>]
  /\ CASE reviving           -> At("to", idx)
       [] ~reviving /\ idx < N-1 -> At("make", idx + 1)
       [] OTHER              -> At("to", 0)
  /\ UNCHANGED <<input, revived, Paths_index, sending, fifos, opened, toPipe, answers, history>>

ForkFails ==
  /\ pc = "fork" /\ failures < MaxFailures
  /\ failures' = failures + 1
  /\ At("gone", idx)
  /\ UNCHANGED <<input, revived, Paths_index, sending, fifos, opened, workers,
                 session, turns, leftovers>>

\* Worker w is in the open of that fifo, or has been.
HasOpened(w, fifo) ==
  \/ wstate[w] \in {"dirs", "ready"}
  \/ wstate[w] = WorkerOrder[1] /\ fifo = WorkerOrder[1]
  \/ wstate[w] = WorkerOrder[2]

\* open returns once the other side has called it.
OpenTo ==
  /\ pc = "to" /\ HasOpened(idx, "to")
  /\ opened' = opened \cup {<<"to", idx>>}
  /\ At("from", idx)
  /\ UNCHANGED <<input, revived, Paths_index, sending, fifos, workers, history>>

OpenFrom ==
  /\ pc = "from" /\ HasOpened(idx, "from")
  /\ opened' = opened \cup {<<"from", idx>>}
  /\ IF ~reviving /\ idx < N-1 THEN At("to", idx + 1) ELSE At("distribute", 0)
  /\ Paths_index' = 0
  /\ UNCHANGED <<input, revived, sending, fifos, workers, history>>

\* The next turn of the loop in DistributePaths, which stops at the first empty
\* load; what Send returns is ignored.
DistributePaths ==
  /\ pc = "distribute" /\ ~reviving
  /\ IF MakeLoad(Paths_index) = {}
       THEN At("check", 0) /\ UNCHANGED toPipe
       ELSE /\ Deliver(idx, <<"load", MakeLoad(Paths_index)>>)
            /\ IF idx < N-1 THEN At("distribute", idx + 1) ELSE At("check", 0)
  /\ Paths_index' = IndexAfter(Paths_index)
  /\ UNCHANGED <<input, revived, sending, fifos, opened, wstate, answers, Dirs, history>>

\* The next turn of the loop in DistributePath, which makes all loads again and
\* sends one of them; Send follows the null pointer there is for an empty one.
DistributePath ==
  /\ pc = "distribute" /\ reviving
  /\ IF idx = revived /\ MakeLoad(Paths_index) # {}
       THEN Deliver(idx, <<"load", MakeLoad(Paths_index)>>)
       ELSE UNCHANGED toPipe
  /\ CASE idx = revived /\ MakeLoad(Paths_index) = {} -> At("gone", idx) /\ UNCHANGED revived
       [] ~(idx = revived /\ MakeLoad(Paths_index) = {}) /\ idx < N-1 ->
            At("distribute", idx + 1) /\ UNCHANGED revived
       [] OTHER -> At("check", revived + 1) /\ revived' = NOBODY
  /\ Paths_index' = IndexAfter(Paths_index)
  /\ UNCHANGED <<input, sending, fifos, opened, wstate, answers, Dirs, history>>

\* CheckChildren; the fifos of a dead worker are removed first.
CheckChild ==
  /\ pc = "check" /\ idx < N
  /\ IF Alive(idx)
       THEN At("check", idx + 1) /\ UNCHANGED <<revived, fifos, opened, toPipe, answers>>
       ELSE /\ At("make", idx) /\ revived' = idx
            /\ fifos' = fifos \ Pair(idx) /\ opened' = opened \ Pair(idx)
            /\ toPipe' = [toPipe EXCEPT ![idx] = <<>>]
            /\ answers' = [answers EXCEPT ![idx] = 0]
  /\ UNCHANGED <<input, Paths_index, sending, wstate, Dirs, history>>

Prompt ==
  /\ pc = "check" /\ idx = N
  /\ At("prompt", 0)
  /\ UNCHANGED <<input, revived, Paths_index, sending, fifos, opened, workers, history>>

Command ==
  /\ pc = "prompt" /\ turns < MaxTurns
  /\ turns' = turns + 1
  /\ sending' = "command" /\ At("send", 0)
  /\ UNCHANGED <<input, revived, Paths_index, fifos, opened, workers,
                 session, failures, leftovers>>

Exit ==
  /\ pc = "prompt"
  /\ sending' = "exit" /\ At("send", 0)
  /\ UNCHANGED <<input, revived, Paths_index, fifos, opened, workers, history>>

\* Where the console goes when SendToAll returns.  Behind /exit it waits for the
\* workers, whatever SendToAll returned.
Sent(ok) == IF sending = "exit" THEN At("wait", 0)
            ELSE IF ok THEN At("answers", 0) ELSE At("check", 0)

\* The next turn of the loop in SendToAll, which returns at the first worker that is
\* dead: those behind it get nothing.
SendToAll ==
  /\ pc = "send"
  /\ Deliver(idx, <<sending, {}>>)
  /\ CASE ~Alive(idx)              -> Sent(FALSE)
       [] Alive(idx) /\ idx < N-1 -> At("send", idx + 1)
       [] OTHER                    -> Sent(TRUE)
  /\ UNCHANGED <<input, revived, Paths_index, sending, fifos, opened,
                 wstate, answers, Dirs, history>>

\* GetAllAnswers returns when it has an answer of every worker, or counts a dead one
\* until it has as many as it waits for.  PrintMaxCount and PrintMinCount follow the
\* null pointer that stands for an answer it has not got.
GetAllAnswers ==
  /\ pc = "answers"
  /\ \E got \in SUBSET {w \in Workers : answers[w] > 0} :
       /\ got = Workers \/ \E w \in Workers : ~Alive(w)
       /\ answers' = [w \in Workers |-> IF w \in got THEN answers[w] - 1 ELSE answers[w]]
       /\ At("check", 0) \/ (got # Workers /\ At("gone", 0))
  /\ UNCHANGED <<input, revived, Paths_index, sending, fifos, opened,
                 wstate, toPipe, Dirs, history>>

WaitForChildren ==
  /\ pc = "wait" /\ \A w \in Workers : ~Alive(w)
  /\ At("unlink", 0)
  /\ UNCHANGED <<input, revived, Paths_index, sending, fifos, opened, workers, history>>

\* Mutant: the fifos of the last worker stay.
UnlinkAllButLast ==
  fifos' = IF idx < N-1 THEN fifos \ Pair(idx) ELSE fifos

UnlinkPair == fifos' = fifos \ Pair(idx)

UnlinkExecutorPipe ==
  /\ pc = "unlink"
  /\ UnlinkPair /\ opened' = opened \ Pair(idx)
  /\ IF idx < N-1 THEN At("unlink", idx + 1) ELSE At("done", 0)
  /\ UNCHANGED <<input, revived, Paths_index, sending, workers, history>>

ConsoleKilled ==
  /\ pc \notin {"gone", "done"} /\ failures < MaxFailures
  /\ failures' = failures + 1
  /\ At("gone", idx)
  /\ UNCHANGED <<input, revived, Paths_index, sending, fifos, opened, workers,
                 session, turns, leftovers>>

\* The user starts the program again; workers of the session before that still
\* wait have the old fifos.
NextSession ==
  /\ pc \in {"gone", "done"} /\ session < MaxSessions
  /\ session' = session + 1 /\ turns' = 0
  /\ leftovers' = (leftovers \/ pc = "gone")
  /\ At("make", 0) /\ revived' = NOBODY /\ Paths_index' = 0 /\ sending' = "command"
  /\ wstate' = FreshWorkers.wstate /\ toPipe' = FreshWorkers.toPipe
  /\ answers' = FreshWorkers.answers /\ Dirs' = FreshWorkers.Dirs
  /\ opened' = {}
  /\ UNCHANGED <<input, fifos, failures>>

-----------------------------------------------------------------------------
(* Workers *)

\* The console is in the open of that fifo, or has been.
ConsoleOpened(w, fifo) == <<fifo, w>> \in opened \/ (pc = fifo /\ idx = w)

OpenWorkerPipe(w) ==
  /\ \/ /\ wstate[w] = WorkerOrder[1] /\ ConsoleOpened(w, WorkerOrder[1])
        /\ wstate' = [wstate EXCEPT ![w] = WorkerOrder[2]]
     \/ /\ wstate[w] = WorkerOrder[2] /\ ConsoleOpened(w, WorkerOrder[2])
        /\ wstate' = [wstate EXCEPT ![w] = "dirs"]
  /\ UNCHANGED <<input, console, fifos, opened, toPipe, answers, Dirs, history>>

\* Receive, DivideDirs, GetDirFiles: the first message, whatever it is.
ReceiveDirs(w) ==
  /\ wstate[w] = "dirs" /\ toPipe[w] # <<>>
  /\ \E dirs \in DivideDirs(Head(toPipe[w])) :
       /\ Dirs' = [Dirs EXCEPT ![w] = dirs]
       /\ wstate' = [wstate EXCEPT ![w] = IF CanOpen(dirs) THEN "ready" ELSE "exited"]
  /\ toPipe' = [toPipe EXCEPT ![w] = Tail(@)]
  /\ UNCHANGED <<input, console, fifos, opened, answers, history>>

\* A command is answered, /exit ends the loop.
ReceiveCommand(w) ==
  /\ wstate[w] = "ready" /\ toPipe[w] # <<>>
  /\ \/ /\ Head(toPipe[w])[1] = "command"
        /\ answers' = [answers EXCEPT ![w] = @ + 1] /\ UNCHANGED wstate
     \/ /\ Head(toPipe[w])[1] = "exit"
        /\ wstate' = [wstate EXCEPT ![w] = "gone"] /\ UNCHANGED answers
  /\ toPipe' = [toPipe EXCEPT ![w] = Tail(@)]
  /\ UNCHANGED <<input, console, fifos, opened, Dirs, history>>

\* A worker with both fifos open ends when there is no console at the other end: it
\* reads nothing more, or nobody reads its answer.
Leave(w) ==
  /\ pc = "gone"
  /\ wstate[w] = "ready" \/ (wstate[w] = "dirs" /\ toPipe[w] = <<>>)
  /\ wstate' = [wstate EXCEPT ![w] = "gone"]
  /\ UNCHANGED <<input, console, fifos, opened, toPipe, answers, Dirs, history>>

WorkerKilled(w) ==
  /\ Alive(w) /\ failures < MaxFailures
  /\ failures' = failures + 1
  /\ wstate' = [wstate EXCEPT ![w] = "gone"]
  /\ UNCHANGED <<input, console, fifos, opened, toPipe, answers, Dirs,
                 session, turns, leftovers>>

ConsoleStep ==
  \/ MakePipePair \/ Fork \/ OpenTo \/ OpenFrom \/ DistributePaths \/ DistributePath
  \/ CheckChild \/ Prompt \/ SendToAll \/ WaitForChildren \/ UnlinkExecutorPipe

WorkerStep(w) == OpenWorkerPipe(w) \/ ReceiveDirs(w) \/ ReceiveCommand(w) \/ Leave(w)

Next ==
  \/ ConsoleStep \/ Command \/ Exit \/ GetAllAnswers \/ ForkFails \/ ConsoleKilled \/ NextSession
  \/ \E w \in Workers : WorkerStep(w) \/ WorkerKilled(w)

\* The console and each worker are processes the system schedules.  The user need
\* not type anything; whether GetAllAnswers returns is in JobExecutor.tla.
Spec == /\ Init /\ [][Next]_vars
        /\ WF_vars(ConsoleStep) /\ \A w \in Workers : WF_vars(WorkerStep(w))

-----------------------------------------------------------------------------
(* Properties *)

\* Every line of the file is one path.
WellFormed == terminated /\ \A k \in 1 .. numPaths : lines[k] = "path"

\* The lines meant for worker w: the w-th part of the file.
Share(w) == {k \in 1 .. numPaths : w * load_size < k /\ k <= (w + 1) * load_size}

\* There is nothing for worker w, a path with a blank in it, or something
\* behind the last line.
MayExit(w) ==
  \/ Share(w) = {}
  \/ \E k \in Share(w) : lines[k] = "spaced"
  \/ numPaths \in Share(w) /\ ~terminated

Holders(k) == {w \in Workers : \E i \in DOMAIN Dirs[w] : Dirs[w][i] = Dir(k)}

\* Of a file of paths no directory is with two workers, none twice with one, and
\* after a worker has been replaced every directory still is with one when all
\* have received theirs (ReadPaths.h, "Distribute the paths to the workers").
EveryPathOnce ==
  WellFormed =>
    /\ \A w \in Workers : IsInjective(Dirs[w])
    /\ \A k \in 1 .. numPaths :
         /\ Cardinality(Holders(k)) <= 1
         /\ (\A w \in Workers : wstate[w] = "ready" \/ Share(w) = {}) =>
              Cardinality(Holders(k)) = 1

\* Whatever the file contains and whoever is replaced, a worker takes no directory of
\* another one's load; one that serves commands misses a directory of its own only
\* behind a line with nothing before its first blank or behind a blank; and one that
\* exits over a directory it cannot open has got no load, a path with a blank in it,
\* or an unterminated last line.
NoForeignPath ==
  \A w \in Workers :
    /\ \A i \in DOMAIN Dirs[w], v \in Workers \ {w} : Dirs[w][i][1] \notin Share(v)
    /\ wstate[w] = "ready" /\ (\E k \in Share(w) : w \notin Holders(k)) =>
         \E k \in Share(w) : lines[k] \in {"trailing", "blank"}
    /\ wstate[w] = "exited" => MayExit(w)

\* The console waits in open for a worker that is dead, for ever: nothing looks
\* after a worker before its fifos are open (Piping.c:55).
Hung == pc \in {"to", "from"} /\ ~Alive(idx)

\* A session ends early only when a fork fails or a process is killed, when an
\* earlier session has left fifos, or when the file of paths has a worker exit: its
\* revival, or a command it does not answer, ends the console too.  One that ended
\* with /exit has closed and removed all fifos (README.md, "making sure no ...
\* unlinked pipes"), so that the next stumbles over nothing.
EarlyEndExplained ==
  /\ pc = "gone" /\ failures = 0 => leftovers \/ \E w \in Workers : MayExit(w)
  /\ pc = "done" => fifos = {} /\ opened = {}

\* The two sides open in the same order, so a session gets to its prompt, and back
\* to it after each command, however many workers have to be replaced.
PromptReached ==
  pc \in {"make", "check"} ~> pc \in {"prompt", "gone"} \/ Hung

\* /exit has not been sent to worker w, since one before it was dead.
LeftBehind(w) ==
  /\ \A i \in DOMAIN toPipe[w] : toPipe[w][i][1] # "exit"
  /\ \E v \in Workers : v < w /\ ~Alive(v)

\* No worker waits in open for ever while its console goes on, nor for a command
\* while its console waits for it to end, unless a worker before it was dead when
\* /exit was sent.
NoOrphans ==
  \A w \in Workers :
    /\ wstate[w] \in {"to", "from"} ~> wstate[w] \notin {"to", "from"} \/ pc = "gone" \/ Hung
    /\ pc = "wait" ~> ~Alive(w) \/ pc = "gone" \/ LeftBehind(w)

=============================================================================

# Verification of the distributed file manager

TLA+ modules, TLC configurations and TLAPS proofs for the program in `src/`: a
console process (`jobExecutor`) that forks `numWorkers` worker processes, gives
each of them directories to index, and answers the user's queries by asking all
of them over named pipes. Paths below are relative to `src/source/` unless they
begin with `include/` or name the repository's own `README.md`.

    tlc -workers 2 -config MCFaults.cfg MCJobExecutor.tla
    tlc -workers 2 -config MCLoadFile.cfg LoadFile.tla
    tlapm JobExecutorProofs.tla     # and ServiceProofs, PipingProofs, StartupProofs,
    tlapm IndexProofs.tla           # ConsoleInputProofs, AnswersProofs, LoadFileProofs

`PROJECT.json` lists the runs, the source lines each definition models, the
mutants that show that each property can fail, the hazards and the theorems.

## The system

| Part | State | Operations | Correct when |
|---|---|---|---|
| `main`, `Console` (`JobExecutor.c`, `Console.c`) | stdin, `Children`, both arrays of pipe descriptors, `DEADLINE`, the pending alarm, `Answers`, `numAnswers`, `numNonResposive` | open the pipes, `CheckChildren`, the five commands, `SendToAll`, `GetAllAnswers`, `alrm_handler`, the print functions, `wait` | what is shown for a command answers that command; what is missing is admitted; a dead worker comes back; the user always gets a prompt again; `/exit` ends |
| `Worker` (`Worker.c`) | its flag `DEADLINE`, whether SIGUSR1 is caught, the index | receive the directories, `/search`, `/maxcount`, `/mincount`, `/wc`, `/exit`, `deadline_handler` | one answer per command, in order; the load before any command |
| `Send`, `Receive` (`Piping.c`) | offset in the message, the header, the buffer | a message is cut into parts of at most `MAX_MSG_SIZE` bytes, each behind an `int` that says how long it is and whether it is the last | a message arrives whole or its loss is noticed; a header is read where a header was written |
| Distribution (`ReadPaths.c`) | the index into `Paths` | `DistributePaths`, `DistributePath`, `MakeLoad`; on the other side `DivideDirs`, `GetDirFiles` | every path is with exactly one worker, the same one after a revival |
| Posting lists (`PostingList.c`, `Post.c`) | per word the posts, newest first, and two counters | `CreatePostingList`, `AddPost`, `GroupAllByFile`, `MaxRecurrenceFile`, `MinRecurrenceFile` | one post per document with the word; the answers to the count commands |
| Files and documents (`LoadFile.c`, `DocumentMap.c`, `ReallocDocument.c`) | per file the lines; `TOTAL_SIZE`, `MEAN_DOC_SIZE`, `WORDS_IN_FILES` | `LoadFiles`, `LoadFile`, `AddWord`, `NewDocument`, `DeleteDocument`, `GetNumLines` | the map holds the documents the posts point to; the totals of `/wc` |
| Trie (`Trie.c`, `AVL_tree.c`) | a tree of letters, each level an AVL tree | `TrieInsert`, `SearchTrie`, `SearchTrieQuerry` | finds exactly the words inserted |
| Queries, words (`Querry.c`, `Word.c`, `StringManipulation.c`) | none | `CreateQuerry`, `getWordStr`, `NumDigits`, `mystrcmp` | the words the user typed |
| `Arguments.c`, `List.c`, `Log.c`, the three log scripts | options, a list nobody reads, log files | | |

The console and each worker share two pipes and two signals and nothing else.
Commands go down the `to` pipe, at most one answer per command comes up the
`from` pipe, and neither carries a number: an answer is taken for the answer to
the command being served because the console is believed to have read every
earlier one. SIGALRM sets the console's flag and has it send SIGUSR1 to all
workers; a worker catches SIGUSR1 only inside `/search`.

What is hard here is what two of these processes do at the same time: a worker
dies between two writes of a broadcast, or with its answer unread; the alarm
fires while answers are in the pipes; SIGUSR1 arrives before `sigaction` or
after `signal(SIGUSR1,SIG_DFL)`; a broadcast fails half way; a message is larger
than the pipe; a handler interrupts a `write`. Inside a worker the difficulty is
sequential: lists that rely on the order in which files are loaded, document
numbers that are reused, single-pass searches. `hazards` in `PROJECT.json` names
each of these at its line.

## The modules

| Module | What it is |
|---|---|
| `JobExecutor` | console, workers, pipes and signals between two prompts; messages are atomic |
| `QueryService` | what the user of the console is promised, with no workers' internals |
| `MCJobExecutor` | instances of `JobExecutor` for TLC, and the mapping under which it implements `QueryService` |
| `JobExecutorProofs` | theorems about `JobExecutor`: types, signals, that no stale answer is taken, and why no answer of a clean session is missing without a reason |
| `ServiceProofs` | what reaches a worker, and comes back, in which order, and that `JobExecutor` implements `QueryService` |
| `Startup`, `MCStartup`, `StartupProofs` | sessions around the prompt: fifos, forks, opens, the distribution of the paths, revival, the end, and the next session; theorems about the fifos and who has which path |
| `Piping`, `MCPiping`, `PipingProofs` | `Send` and `Receive`, write by write and read by read, and theorems about them |
| `ConsoleInput`, `MCConsoleInput`, `ConsoleInputProofs` | what the console makes of stdin and sends to the workers, and theorems about where it goes on reading |
| `Answers`, `MCAnswers`, `AnswersProofs` | what the console makes of the workers' answers, and that the best one wins |
| `Index`, `MCIndex`, `IndexProofs` | the index of one worker and the answers it gives, and theorems that both are right for the text that was read |
| `LoadFile`, `LoadFileProofs` | the buffers and counters of loading, character by character, and theorems about them |
| `Trie`, `Dictionary`, `MCTrie` | the AVL trees of the Trie, the map they implement, and an instance |

The modules meet at the operations of the code: `Piping` says when the atomic
messages of `JobExecutor` may be taken for atomic; `Startup` says when its one-step
open is right and computes the loads of which it only knows whether there is one;
`ConsoleInput` says which commands there are to serve, `Answers` what is printed for
those; `Index` gives the answers a worker sends, takes the Trie for the function
that `Dictionary` says it is, and its documents for the lines that `LoadFile` reads.

### JobExecutor

`pc` and `idx` say in which loop the console is and at which worker. Its life
before the first prompt is `open` (`OpenExecutorPipes`), `distribute`
(`DistributePaths`); every turn of `Console` is `check` (`CheckChildren`, with
`reopen` and `redistribute` for a dead worker), `prompt`, `send` (`SendToAll`),
then `poll` and `read` (`GetAllAnswers`, one action per branch on `revents`) and
`print`, or `wait` after `/exit`. `done` is `main`'s return and `crashed` a
console killed by its own null pointer.

A worker is `open` until the console has opened the other ends of its pipes,
`dirs` until it has read its first message, `idle` in the loop, `search` between
`sigaction` and the decision to answer, `answered` until it restores SIGUSR1,
and `dead`. The two steps of `/search` are there because SIGUSR1 means something
else before, inside and after. A pending SIGUSR1 is delivered before the worker
does anything else.

What is abstracted:

- A message is atomic; `Piping` shows on what conditions it may be. Pipes have no
  limit here: the console never has more than a load and the commands of failed
  broadcasts under way, a few of the 64 KiB a pipe holds.
- An answer is the number of the command it answers. The number exists only in
  the model; the code has none.
- `/maxcount` and `/mincount` are one kind, `count`: their code is the same but
  for the comparison.
- `open` on a fifo waits for the other end, so opening a pair is one step of both
  processes (`Startup` has the four opens). A worker that dies before it leaves the
  console waiting for ever; so does one that dies between its two `open`s, which the
  model counts among those.
- `poll` interrupted by SIGALRM returns -1 with all `revents` 0, which the loop
  takes for "nothing ready" and polls again: a stutter.
- `waitpid` and `wait` are used as they behave when SIGCHLD is ignored: no
  zombies, and an error for a child that is gone.
- `Crash(w)` stands for whatever ends a worker from outside, and for
  `exit(CANT_OPEN_DIR)`; `MaxCrashes` bounds it.
- `N` is at least 1. `ReadArguments` records an error for anything less, which
  `main` never looks at; a console without workers answers every command with
  nothing and is not modelled.
- Fifos that cannot be made and forks that fail are in `Startup`; the logs are left out.
- `clean` and `shown` are history variables: whether a diagnostic has been
  printed, and the last answer of each worker the user has seen.

### Startup

A file of paths is a sequence of forms of lines: one path, a path with a blank in
it, one with a blank behind it, and one with nothing before its first blank; the
last line may lack its `\n`. `pc` walks through `main`: `make` and `fork` for each
worker, `to` and `from` for the console's two opens of each pair, `distribute`,
`check`, `prompt`, `send` (`SendToAll`), `answers` (`GetAllAnswers`), `wait`, `unlink`,
`done`; `gone` is a console that exited or was killed. `revived` is the worker that
`make` to `distribute` replace when they are those of `CheckChildren`. A worker is
in its open of `to`, in that of `from`, waits for its first message in `dirs`, is
`ready`, has `exited` over a directory it cannot open, or is `gone`.

- An open returns once the other side has called its own.
- `Paths_index` is the running index of both distributions. `DistributePaths` sends one
  load per step and stops at the first empty one; `DistributePath` begins at 0 again,
  makes every load and sends one, and an empty one kills the console.
- `toPipe` keeps messages in order, so the first one a worker finds is taken for its
  directories whatever it is: a worker without a load exits at the first command.
- `DivideDirs` has the code's offset, which moves past the last token: at an unterminated
  last line it reads a byte past the message and finds nothing or garbage.
- `SendToAll` writes to one worker per step and returns at the first dead one; behind
  `/exit` the console waits all the same.
- `GetAllAnswers` is one step that may be taken when every answer is there or some worker is
  dead; the loop over `poll` is in `JobExecutor`. An answer that is missing may kill the
  console, as it does for the two count commands.
- `NextSession` starts the program again in the same directory, with the fifos the last
  session left.

Bounds: `MaxSessions`, `MaxTurns` (commands), `MaxFailures` (failed forks and processes
killed).

### Piping

One direction of one pair of pipes. A cell of the pipe is a byte, which knows
its message and place, or a header. A header is one cell although it has four
bytes: it is always written by one atomic `write`. `Room(n)` is POSIX's rule for
writes of at most `PIPE_BUF` bytes: all or, while there is no room, none.
`HeaderLost` is the unsigned comparison of `Piping.c:134`: a header that could not
be written passes for one that was. No `read` is checked, so at the end of the
file, or when SIGALRM interrupts it, `Receive` goes on with what its variables
held; the values it may find there are `Garbage`. `FromWorker`, chosen in `Init`, is the
direction: the console ignores SIGPIPE, a worker dies of it; the console's calls
can be interrupted, a worker's `Receive` cannot. A worker that was revived
inherits the console's ends of the other pipes, so that after the console's death
the survivors of such a session may not see the end of the file; the model is
that of a session's first workers. `SentFromInside` in `TypeOK` says that what `Send` writes is
always inside its message, whatever failed before.

### Index

`text` is what has been read so far, chosen word by word, so TLC explores every
small text. A word list is a function from words to posting lists in place of the
Trie; a path is its rank in the order of `mystrcmp`. `ReadWord`, `EndLine` and
`EndFile` are the two loops of `LoadFile`; `SkipFile` is the `continue` of
`LoadFiles`. The answers are operators over the state: `RecurrenceFile` follows the
single pass of `MaxRecurrenceFile` and `MinRecurrenceFile` (`sign` tells them apart),
`PostsByFile` that of `GroupAllByFile`, `Answer` that of `SendSearchAnswer`,
`GetNumLines` its sum. These loops are recursive functions from the number of turns to
what has been computed; `Keep` is the one that goes through a list and keeps the elements
of a set, in `GroupByFile` as in the properties. There `FileLines(f)` are the lines of a
file as a reader counts them, and `Lines(f)` those with words in them. Positions of words in a line are stored by
the code and read by nobody; they are left out.

### LoadFile

The worker reads a letter, a blank or a `\n`; only the class of a character matters,
of the buffer only its size and where it is written. `at` is where `LoadFile` is:
between files, in `SkipWhitespace`, or inside a word. `Letter` is `AddWord`'s test,
`ReallocDocument` and write; `AddBlank` the write behind a word; `FinishDocument` the two
ways a line can end, with `UpdateMEAN_DOC_SIZE`, whose division by 0 documents gives
0 once it is converted by what the Makefile builds. `overflow` records a write
behind a buffer, `stored` the characters `/wc` should report, and `smallest` the
smallest buffer a document began with.

### Trie

A node is a record with the fields of `AVL_tree.h`, `NULL` one with height 0. A
letter is a number, a posting list its `term_frequency`. `TrieInsert` follows the code
down and up, with the flag that says whether a node was created at this level.
`LeftLeft` and `LeftRight` are the two comparisons on the left side, made one after
the other as the code does: the second looks at what the first has rotated. `Crash`
is what an expression is that follows a null pointer. The comparisons decide by the
letter that is inserted and the balance by heights, so a tree that is left
unbalanced by one insertion can make a later one fail.

### Answers

Of a path only its place in the alphabet matters, and what the console reads behind its
first blank: nothing for a path without one, or some number (`Misread`: 0 of `a b.txt`,
2018 of `a 2018.txt`). `OutOfBounds` is the comparison with `Answers[-1]`, for a number that equals
what the loop begins with (`Start`); whether the console survives it is left open. The
text of an answer to `/wc` is a sequence of digits and blanks, since `PrintWc` finds
the second and third number by `NumDigits` of those before. `AsUnsigned` and `AsInt` are
the conversions on the way: 64-bit totals to `unsigned int` parameters, printed as
`int`s. `INT_MAX` is a constant, 127 in the run, so that all widths are met by small
numbers. `NumDigits` is the first power of ten that is not below the number plus one
(`CeilLog10`, over `Tens`). One action per answer, in the order of the loop.

### ConsoleInput

stdin is a sequence of symbols: a word is one, blanks and ends of lines are their
own. The user may type a line at any moment, so every way of typing ahead occurs.
`getWord` returns the word, the character behind it and what it leaves; each action is
one call that may have to wait for input. `served` are the commands as a worker
understands them, after `QuerryToStr` and `CreateQuerry`.

`command` is what the pointer of `Console.c:38` points to. Before the first command that is
nothing or anything; behind it, the text of the turn before, which was freed. `getWord`
leaves the pointer alone at an empty word: the console reads on only while it is NULL
(`NoCommand`), and otherwise dies of a text that is none (`Dangling`), executes the command
of the turn before again, or takes what is there for an unknown command and skips a line
(`Command`, `Unknown`). Such a turn is `stale`: the text may be overwritten before it is copied
into a question (`Instructions`), and is freed a second time (`EndTurn`), which the
process may not survive. Tabs and the end of stdin are left out, and so is what a second
`free` that is survived does to other memory later.

## The runs

| Run | Instance | Shows |
|---|---|---|
| `faults` | 2 workers, 2 paths, 3 commands of any kind, 2 deaths, deadlines at any time; 4.1 million states | `TypeOK`; `CommandsInOrder`, `LoadComesFirst`, `NoStaleAnswer`, `MissingAnswerExplained`, `AlarmOnlyInSearch`, `DeadlineOnlyInSearch`, `ReadyMeansReadable`, the inductive `RoundInv`, and that the console implements `QueryService` |
| `reliable` | 3 workers, 5 paths, no deaths, no deadlines; deadlock is checked | every command is served (`CommandServed`), `/exit` ends (`ExitTerminates`) |
| `round_ends` | 2 workers, 2 commands, 2 deaths, deadlines | the wait for answers ends unless a worker died with its answer unread or has withheld its answer to this very search (`RoundEnds`); a dead worker comes back (`DeadWorkerRevived`); 550,000 states |
| `startup` | 2 workers, 14 files of up to 3 lines, terminated or not, 2 sessions of 2 commands, 2 failures; 570,000 states | `EveryPathOnce`, `NoForeignPath`, `EarlyEndExplained`, `PromptReached`, `NoOrphans` |
| `piping` | both directions, 3 messages of 1, 2 and 5 bytes, parts of 2, a pipe of 3 cells, either process may die at any point, 1 interruption; 436,000 states | `OkMeansAccepted`, `FramesAligned`, `ReceivedAsSent`, `EverythingReceived` |
| `console_input` | up to 4 lines of 21 kinds, typed at any time; 1.9 million states | `LinesServed`, `Aligned`, `CrashExplained` |
| `answers` | 3 workers, 6 paths, counts of 1, 2, 10 and 127, totals at 0, 9, 10, 99, 100, 127, 200 and 257, ints up to 127; 4.9 million states | `BestShown`, `TotalsRight`, `OnlyLargeTotalsCrash` |
| `index` | 2 files of up to 3 lines, 5 words in all out of 2, files that cannot be opened; 70,000 states | `PostsDescribeText`, `DocumentsAreLines`, `CountAnswersRight`, `SearchComplete` |
| `load_file` | 2 files, 16 characters, first buffer of 5; 81,000 states | `WritesInside`, `EveryDocumentCounted` |
| `trie` | 11 words of one letter and one of two, two of them inserted twice, in every order; 133,000 trees | `RotationsSafe`, and that the Trie implements `Dictionary` |
| `doc_revive`, `doc_trie` | see "Where documents and code disagree" | what a comment of the sources says, violated |

Each property is stated in words above its definition.

Two workers are enough for `faults` because the code never relates two workers
except through counters and the order of the loops; with two there is one before
and one after the worker that fails. Three commands are: one that fails or times
out, one that could be answered with its remains, and one more that could see
what that left. Two deaths let both workers die, or one die, be revived and die
again. `reliable` has three workers and five paths, loads of two, two and one.

In `startup` three lines and two workers are loads of two and one; one line or none
leaves a worker without a load; two commands are one that such a worker takes for its
directories, and a turn of `CheckChildren` behind it, or a broadcast that stops half way and
the next one; two failures are a fork that fails in the first session and one in the next,
or a worker killed and its successor. `SmallFiles` has every form of line alone, and
before and behind a path.

In `piping`, sizes 1, 2 and 5 with parts of 2 are a message smaller than a part,
exactly one part (the boundary of `msg_size - msg_offset > MAX_MSG_SIZE`), and two
full parts and a rest; a pipe of 3 cells takes no more than one part and its
header, or the end of one message with the beginning of the next. In `index`, two files and three
lines are the smallest text in which a list has posts about the same file, about
another with the same document number, an empty line before, between and after,
and a tie between files; five words let a word occur twice in a line of each.

In `load_file` sixteen characters are enough to shrink the mean of 5 to each size
down to 0 and to fill the next buffer: the thresholds 3 and 4 of its properties are
sharp, with 2 and 3 TLC finds violations. In `trie` eleven letters are the least
for which a rotation follows a null pointer, six for a tree that is out of balance
(0, 4, 5, 2, 3, 1); the word of two letters makes nodes with a sub_tree move. In
`answers` the totals are on both sides of each number of digits, of the largest
int, and of the width of the unsigned parameters, the counts on both sides of one and
at the largest int, for which `NumDigits` has no answer; the paths read as their count, as a smaller and a
larger number, and as the start values of both loops; three workers let an answer be
beaten by a later one and that one by the last. In `console_input` four lines are
one that leaves something behind or a command to be freed, the one that takes it, one
that the freed command takes, and one that shows whether the console is at the
beginning of a line again.

### Fairness

`FairSpec` of `JobExecutor` asks for weak fairness of the console's steps and of each
worker's: they are processes the system schedules, and each step is one that a
process which can go on will take. Nothing makes the user type, the alarm fire
or a worker die, so no liveness result rests on one of these happening.
`Startup` and `Piping` ask for the same of their processes and for nothing of forks
that fail, deaths or interruptions. In `Piping` the fair steps are those that leave `interrupts`
alone: a sender without room or a console that waits in `read` is never promised a signal
that would get it out. In `Startup` the user need neither type nor start another session, and
`GetAllAnswers` need not return: with a dead worker it may not (`RoundEnds`).

`CHECK_DEADLOCK FALSE` is set where the system may really stop: with deaths the
console can wait in `open`, in `poll` or in `wait` for ever (see below), and the
other modules end when their bounded input does. `reliable` checks for deadlock.

### Where documents and code disagree

Two runs check a statement of a comment, and TLC shows a behaviour of the code
that violates it:

- `doc_revive`: `include/Console.h:12`, "Check if all children are still alive,
  revive these that are dead". With 3 workers and 4 paths the loads are 2, 2 and
  none. Worker 2 takes the first command for its directories and exits, and
  reviving it passes NULL to `Send` (`ReadPaths.c:117`), whose `strlen` kills the
  console.
- `doc_trie`: `include/Trie.h:17`, "Insert a word in the Trie or if the word already
  exists just +1 to its plist". The comment at `Trie.c:76` says the tree is rebalanced; after
  words that begin with 0, 1, 2, 9, 10, 4, 7, 8, 6 and 3, in this order, the one
  that begins with 5 makes a rotation follow a null pointer, and the worker dies.

Further disagreements are in the models, where the passing properties exclude
them by a stated condition:

- README.md:30 says that after the deadline the jobExecutor "will stop receiving
  answers". `poll` has no timeout, and a worker that sees the flag sends nothing
  (`Worker.c:230`): the console waits for it without end. `RoundEnds` excludes it.
- README.md:7, "i handle these failures": a worker that dies after it has answered
  leaves `POLLIN | POLLHUP`, which equals none of the values `GetAllAnswers` compares
  with (`Console.c:231`): it polls for ever, busily.
- After a broadcast that failed half way (`Console.c:61`) the workers before the dead
  one still answer it, and the next command is shown with their answers to the
  failed one. `NoStaleAnswer` speaks of sessions without a diagnostic.
- `/exit` ignores a failed broadcast (`Console.c:171`, `Piping.c:218`): the workers behind a
  dead one are never told, and `main` waits for them for ever, against README.md:47, "making
  sure no zombie processes are leftover or any unlinked pipes". `NoOrphans` names them as its
  exception (`LeftBehind`). Fifos and waiting workers are also left whenever the console exits
  early (`EarlyEndExplained`).
- `include/ReadPaths.h`, "Distribute the paths to the workers": a worker behind the last load
  gets none, waits, takes the first command for directories and exits (`ReadPaths.c:158`);
  reviving it kills the console, or, in a count, its missing answer does. No process has
  to fail for that: `EarlyEndExplained` and `NoForeignPath` name the files of paths that do it
  (`MayExit`), `doc_revive` shows it.
- README.md:12, every line of a file is a document, and `include/DocumentMap.h:4`, document `i` is
  line `i`: not behind a line without words, whose document is deleted. `LoadFile.c:64`, "marked
  as NULL in the map": it is not; the next line takes its number (`LoadFile.c:65`).
  README.md:43, `/wc` prints the total number of lines: it does not count those without words.
  `DocumentsAreLines` states both: the claim for files without such lines, and by how much
  it fails for others.
- `Worker.c:180` says duplicates are ignored; with two words they are not, since the
  posts of the second follow all those of the first.
- `LoadFile.c:11` and README.md:43 call `TOTAL_SIZE` the size of all documents; one that
  fills its buffer is not in it (`LoadFile.c:70`). `LoadFile.c:14` calls `MEAN_DOC_SIZE` a mean; it
  divides the size of all files by the documents of one.
- `Console.c:41`, "dont accept empty input": `command` is not initialised, so behind the first
  command an empty line, or a blank, may have the freed command executed again, with its
  keyword or query read from what follows; or be taken for an unknown command, which costs the
  next line; or kill the console, at the comparison or at the second `free`. `CrashExplained` and
  `Aligned` say what holds nevertheless.
- README.md:34, `/maxcount` finds the file that contains the keyword most: not if a path has
  a blank, behind which `strtol` reads its number (`Console.c:310`): 0 of `a b.txt 3`, 2018 of
  `a 2018.txt 3`, and with the start value of the loop there `Answers[-1]` is compared.
  `BestShown` states the claim where no path is such, and what is shown otherwise.

And these hazards: an answer dropped after the deadline is counted as given in time
(`Console.c:233`); SIGUSR1 kills a worker that is not inside `/search`; a dead worker
is counted again in every turn, so the wait may end before the living have
answered (`Console.c:247`); after a failed `/search` whose alarm had already fired,
`DEADLINE` stays set and the next command loses its answers (`Console.c:62`); a worker
lost during `/maxcount` or `/mincount` takes the console with it (`Console.c:306`,
`Console.c:343`); an interrupted header passes unnoticed (`Piping.c:134`) and a worker that
dies between two parts keeps the console in `Receive` (`Piping.c:183`); buffers that begin
with fewer than three places, as they do after empty or very short lines, are written behind
(`LoadFile.c:128`; `WritesInside` excludes them); a skipped file kills its worker
at `/wc` (`DocumentMap.c:73`), as do totals from the largest int on (`Worker.c:259`) and
a word that is in a file that often (`Worker.c:243`);
an unknown command that is alone in its line takes the next line with it
(`Console.c:178`).

## What is proved

A theorem holds for every value of its module's constants, bounds included; the
assumptions it rests on are the named ones of that module and nothing else.

| Module | Theorem | Property |
|---|---|---|
| `JobExecutorProofs` | `TypeCorrect` | `TypeOK` |
| | `ReceiveNeverBlocks` | `ReadyMeansReadable`: what `poll` found readable still is when the loop gets there |
| | `AlarmSafe` | `AlarmOnlyInSearch` |
| | `DeadlineSafe` | `DeadlineOnlyInSearch` |
| | `RoundsDoNotOverlap` | `RoundInv` |
| | `NoStaleAnswers` | `NoStaleAnswer` |
| | `CountedWereHeard` | `HeardInv` |
| | `NoAnswerLost` | `MissingAnswerExplained` |
| `ServiceProofs` | `FreshUntilLoaded` | `FreshInv` |
| | `LoadArrivesFirst` | `LoadComesFirst` |
| | `SegmentsInOrder` | `OrderInv` |
| | `CommandsStayInOrder` | `CommandsInOrder` |
| | `ServiceImplemented` | `ImplementsService` |
| `PipingProofs` | `PipingTypes` | `TypeOK` |
| | `OkWasAccepted` | `OkMeansAccepted` |
| | `PipeInStep` | `PipingInv` |
| | `MessagesKeptApart` | `ReceivedAsSent` |
| | `HeadersFound` | `FramesAligned` |
| `StartupProofs` | `EarlyEndsExplained` | `EarlyEndExplained` |
| | `OwnPathsOnly` | `NoForeignPath` |
| | `PathsDealtOnce` | `EveryPathOnce` |
| `ConsoleInputProofs` | `CrashesExplained` | `CrashExplained` |
| | `PromptsAligned` | `Aligned` |
| | `LinesAreServed` | `LinesServed` |
| `AnswersProofs` | `BestAnswerShown` | `BestShown` |
| | `SmallTotalsAnswered` | `OnlyLargeTotalsCrash` |
| | `TotalsAreSums` | `TotalsRight` |
| `IndexProofs` | `IndexDescribesText` | `IndexInv` |
| | `IndexTypes` | `TypeOK` |
| | `PostsAreRight` | `PostsDescribeText` |
| | `MapsAreRight` | `DocumentsAreLines` |
| | `SearchesAnswered` | `SearchComplete`, and the same of queries of any number of words (`EverySearchComplete`) |
| | `CountsAnswered` | `CountAnswersRight` |
| `LoadFileProofs` | `LoadTypeCorrect` | `TypeOK`: in particular no size becomes negative |
| | `BufferSafe` | `WritesInside`: with room for three characters in every new buffer nothing is written behind one |
| | `BytesRight` | `EveryDocumentCounted`: with room for four, `/wc` reports every character; in any case none too many |

The inductive invariants (`RoundInv`, `HeardInv`, `FreshInv`, `LoadInv`, `OrderInv`,
`PipingInv`, `FifoInv`, `PipeInv`, `DirsInv`, `DeathInv`, the two `CrashInv`, `AlignedInv`, `ServedInv`,
`BestInv`, `TotalsInv`, `IndexInv`) stand with the properties they are for or with
their proofs. Each was checked with TLC on the constants of its run, as a further
invariant, before it was proved. TLC cannot enumerate the functions that `PipingInv` asks
for; it was checked with the one that exists computed from the state.

### Console and workers

Assumed: `N` is positive, `Kinds` and `Deadlines` are subsets of what there is, the
bounds are numbers.

`TypeOK` alone is not inductive: `Head` of the pipe in `ReceiveAnswer` is an answer only
if the pipe is not empty, which `ReadyMeansReadable` says; the two are proved together.
`AlarmOnlyInSearch` is inductive by itself, and `DeadlineOnlyInSearch` needs it (the
alarm sets the flag).

`NoStaleAnswer` speaks of answers already collected, and nothing in it says what is
still in the pipes, so it needs a description of them: `RoundInv`. Between two
prompts of a session without a diagnostic every worker is `Quiet` (nothing but a
load on its way to it, nothing from it); a broadcast makes the workers it has
reached `Asked` (exactly one copy of the current command is in the `to` pipe, being
served, or answered in the `from` pipe); and while answers are collected
`numAnswers` is at most the number of quiet workers. The last part is the heart of
the argument. The code leaves the loop when `numAnswers + numNonResposive` reaches
N and prints a diagnostic unless `numAnswers` alone does; without a diagnostic
there are N quiet workers, that is, all of them, so the next broadcast starts with
empty pipes. The step that counts an answer (`ReceiveAnswer`) makes an asked worker
quiet and so raises both sides by one; a death or a withheld answer makes a worker
quiet and raises only the right one. `EmptyBeforeLoad` is there for the first
message of a new worker. `QuietCount` and `ShortPipes` are the lemmas about
cardinalities and about pipes of one or two messages this rests on.

`MissingAnswerExplained` looks at what is printed and asks why an answer is not there.
The code does not know: it counts answers, not workers. `HeardInv` says whom the
count stands for. As long as no deadline drops answers, `numAnswers` is at most the
number of workers that are quiet and either have their answer in `Answers` or are
dead; so if the round ends without a diagnostic, all N are one or the other. A
hangup that `poll` reported is still one when the loop gets there, since the dead stay
dead within a round, and a command's number is never that of `NoAnswer`.

The first half of `ServiceProofs` holds in every session, those with failed broadcasts included, where
`RoundInv` says nothing. `CommandsInOrder` is about one sequence per worker, answers
coming back, the command being served and commands under way; to be inductive it
is taken apart into its three segments (`InOrder`), each ascending and each below the next,
with a bound on either side: nothing is older than what has been shown or received
(`NewerThan`), nothing newer than the command the console is at, and older than that
as long as a broadcast has not reached the worker (`UpTo`). The numbers the pipes are
left with by a failed broadcast are therefore below the next command's.
`LoadComesFirst` needs that a worker which has not read its load has it before it
in the pipe (`LoadInv`), and that one the load has not been sent to has said nothing and
has its pipes open as soon as the console has its ends (`FreshInv`), so that no worker begins
to wait for a load after the loads were sent.

`ServiceImplemented` goes through the steps of the console and of a worker and gives for
each the step of `QueryService` it is, under the mapping of `MCJobExecutor`, or shows that it
changes none of the mapped variables. What the service promises of an answer shown
(never twice, never behind a newer one, in a trusted session that of the command)
is not in the step itself; it comes from `OrderInv` and `NoStaleAnswer`. The service
has no liveness part.

### Send and Receive

Assumed: `MAX_MSG_SIZE` is positive and no larger than the pipe, messages are not
empty (`Send` counts the final `\0`), the bounds are numbers, and who may die is
one of the two.

`TypeOK` needs that `Send` goes on only while something of its message is left (`TypeInv`), and
holds whatever is interrupted. The rest is `PipingInv`, and holds as long as no handler has
interrupted a call; that condition is in the properties, and necessary.

`SendInv` says where `Send` is: at the header or the body of part `p`, for some `p`
up to `FullParts(msg_size)`, with `msg_offset = p * MAX_MSG_SIZE`, and what the pipe has
accepted of this message are the cells of `Frames` before that. It gives
`OkMeansAccepted`: without interruptions a write fails only when the receiver is dead,
and from a header that was lost so (`Piping.c:134` does not notice) the next write of a part
returns `WRITE_ERR`.

`InPipe(start)` says what the pipe holds without saying how much has been read: there
is a place `start[k]` for each message, negative for one that has begun to
be read, such that cell `o` of message `k` is at `start[k] + o`, and the last one written
is the last one there. A write does not move any of them and a read
moves all by the same distance (`Nearer`). `InStep(start)` says that `Receive` is at
a border of what was written: at a message, at a header, or behind one that says how
many bytes follow, with the parts before it in `msg`. From the two, a header
is read where one was written (`HeaderNext`), a part is in the pipe whole or not at all
(`BodyWhole`: one atomic write of at most `Capacity` cells put it there, so the unchecked
`read` of `Piping.c:183` never finds half of it), and the message
put together is the one that was sent. Once the sender is dead and the pipe is empty,
`Receive` makes up its messages (`Derailed`); by then it has returned all that `Send`
finished. `FrameCells` is the lemma about the layout: where the header and bytes of part `p`
are, by the division of `Frames`; it, `PartAt` and `LastPart` are all the
arithmetic of sizes there is.

### Loading

Assumed are the two named assumptions of `LoadFile`.

`WritesInside` says nothing of where the next write goes, so it needs `Room`: a buffer
that begins with three places keeps `char_index` at or before its end, and one of
exactly three is never full, because one that is full has grown. `Growth` is the lemma
about the golden ratio on integers: at least one place from a size of 2 on, at
least two from 4 on, the two that a one-letter word with its blank needs. `Counted` is
the same one place further: with four, a word ends before the end of the buffer, so
`LoadFile.c:70` counts every document. `NeverTooMany` is inductive on its own.

### The index

Assumed are `FileAssumption` and `IndexAssumption`.

`PostsDescribeText` says what is in a posting list, and nothing about its order. That a word
is counted in the right post rests on the order: `AddPost` looks at the first post alone.
`PostsInv` adds that a list is `Sorted`, later lines of later files first, so that the
first post is the only one that can be about the current document (`InsertedKeeps`).
Which number that document has is said by `MapsInv`: the map of the file that is
being read has a document for each line with words before the current line, and one for the
current line, empty or not; `EndLine` deletes it if it is empty, so the next line gets its
number (`EndLineKeeps`). So the lines with words are the documents, and a word appended to
the current line changes one post, one document and one place of the text
(`OneMorePost`, `OneMorePlace`); the counters are numbers of places (`WordsInv`).

The answers are loops over what `IndexInv` describes. Each is a recursive function, of
which it is first shown that it exists and what its turns do (`Recursion` and the lemmas
named `...Built`), then what holds after each turn (`UpTo`, induction over the turns).
`SearchesAnswered` needs of `Keep` that it takes all elements that are in its set, in their
order (`KeepSelects`): the posts of a word about one file descend, and comparing
each with the one sent before it finds every repetition. With two words it does not,
which is why the property says so of one word only; no document is missed in either case.

`DocumentsAreLines` compares with the lines as a reader counts them. `LinesAddUp` splits a file into
its lines with words and its empty ones, by induction over the lines, and `PairsCounted` adds up the
files.

`CountsAnswered` is about a single pass that forgets each file once it goes on to the
next. `Compared` is the invariant of the loop: the current file is counted so far, and the
best one is chosen among all files that have been counted, the current one excepted. It
is inductive because file numbers descend along a sorted list, so a file that has been
settled never comes back (`NextTurn`). `PostsCounted` shows that adding up the posts
about a file counts each place of the word once.

### Startup and the paths

Assumed: `N` is positive, the files are sequences of the four forms of lines, the bounds are
numbers.

`EarlyEndExplained` asks why `mkfifo` failed, so `FifoInv` says which fifos exist
at each place of the fork loop, the revival and the end: in a session that found none,
not those of the workers the loop has yet to reach; in a revival, not those of the worker
whose pair was just unlinked; at the end, those behind `idx` only. It asks, too, why a worker was dead
when it was revived or did not answer. `DeathInv` says it: without a failure, and before
`/exit`, a worker that is dead has `exited`, so one that does not answer is one `MayExit` names
(`EndHasReason`).

Who gets which load is decided by a running index, in two loops. `PipeInv` has it: at worker `idx`
of either the index is that of its share (`IndexOf`, `LoadsAreShares`), and a worker that waits for
its first message has its own share first in its pipe, or is still to be sent it
(`Owed`, `Awaited`), or has no share. In `DistributePaths` that needs that no load behind the first empty one is
left to send (`EmptyShares`), in a broadcast that a command goes to the end of the pipe
(`LoadDelivered`, `SendSteps`). So the first message is the load, or, of a worker without a share, a
command (`FirstMessage`), and `DirsInv` says of every worker that what it indexes is what
`DivideDirs` can make of its own share, whoever it replaces. The rest is about the functions, and needs induction over the lines: `TextTokens`
(the text of a load has the tokens of its lines and no others), `DirsOfLoad` (what
`DivideDirs` makes of it, with the byte behind an unterminated last line), `SharesDisjoint` and
`SharesCover` (rounded up, the loads are the whole file and do not overlap, also when the
last workers get none). `Text` is a recursive function; the library's induction is out
of the provers' reach since it takes an operator as a parameter, but for a set of
numbers it is a fact about sets: `SetInduction` derives it from the well-foundedness
of `<`, and `TextBuilt` proves with it that the recursion has a solution.

### What the console reads

Assumed of `Lines`: a line is a sequence of words, blanks and one `\n` at its end, no two words
follow each other without one between them, and what stands for the null pointer is no
word.

`CrashExplained` compares what was typed with what happens much later in some other
line, so `CrashInv` says what single blanks mean for stdin: words and separators
take turns and a word comes first (`Clean`). Whatever the console reads, a word with
what is behind it, a line, or a search up to its deadline, it leaves text of that kind
(`StepClean`), and what kills it is never found there. In such text `getWord` always finds
a word, so no freed command is ever used: that `stale` is FALSE is part of `CrashInv`.

For `Aligned` the text read so far has to be kept: `AlignedInv` says that stdin is what stands
behind place `p` of all that was typed, that behind every `\n` of it the rest of the
lines begins (`Bordered`, preserved by what is typed, `BorderedAppend`), and where `p` is
(`Stands`): at the prompt, behind a `\n` or at one of the two exceptions (`PromptPlace`); in a
query, where one may begin (`QuerryAt`): behind a `/search` and its blank, or behind the second
of two separators, for which the console took the freed command again. Reading up to a
`\n`, at whatever line, leads back to a border, so a stale command that reads a query, a
keyword or a line ends at one like any other. `StepReads` and `QuerryRead` are what the proofs need to
know of the console's actions.

`LinesServed` speaks of the end of a session, when all lines have been read. `ServedInv` says
how far the console is before that, as long as every line is as README.md describes it: the
first `d` lines are served, as they were meant, and it is either between two lines
(`Between`) or in line `d + 1`, of which it has read the command and, of a `/search`,
perhaps the query and the `-d` (`Within`). A line is words with one separator behind each
(`LineShape`), so its command is what stands before the first separator (`WordOfLine`), and
the `-d` of a search, which stands nowhere else in it, is the next-to-last word: what
`CreateQuerryStdin` collects are the words between (`WordsOfPairs`). The worker takes them apart again;
`QuestionBack` shows that what `CreateQuerry` finds in the text of `QuerryToStr` are the words
put into it. `FlattenBuilt` and `FlattenAppend` are what has to be known of
`FlattenSeq`, the lines typed one behind the other, by the same induction over sets of numbers
as in `StartupProofs`.

### The answers

Assumed is `NumbersAssumption`. `BestSoFar` is the loop's invariant: of the answers looked at
whose number beats the start value (`SeenNoticed`) none is better than the one kept, by the
number the console reads, which is the count or what a path has behind its first blank; as long
as there is none, `best` is the start value. Without such paths every answer is noticed, since no
worker sends the largest int: `NumDigits` has no answer for it (`LargestNotCountable`), and
the worker dies first.

The rest is about numbers and their digits, which `sprintf` writes by one recursion,
`strtol` reads by a second one and `NumDigits` counts with the powers of ten, a third one.
`Recursion` says that such a recursion over numbers has one solution; `DigitsBuilt` gives
from it, digit by digit, that the digits of a number have its value and that there are as
many as powers of ten up to it (`DigitsOf`). So `NumDigits` counts what `sprintf` writes, of
every int but the largest (`CountDigits`). That is why below it every number has a size that
can be allocated, which is `OnlyLargeTotalsCrash`.

`TotalsRight` needs besides that a number is read back where its digits begin (`NumberAt`).
The console computes that place from the numbers it has read before: `TotalsFound` takes the
text of an answer apart behind the first and the second blank (`TextParts`). A total that does
not fit into an int is sent as another number (`WritableRange`); the places of the others are
right nevertheless. `TotalsInv` says that the sums are those of the workers looked at, and
`SumsBuilt` that these grow, so that none of them has wrapped as long as the last one is an int.

### Only model-checked

`RotationsSafe` and the refinement of `Dictionary` by `Trie`: `TrieInsert`, `SearchTrie` and
the height of a tree are RECURSIVE operators over trees, as in the code, behind which the
provers lose their arithmetic, and what they compute is a matter of induction over
trees. `IndexProofs` therefore rests on `Dictionary` as `Index` does.
Liveness under fairness is beyond the prover: `CommandServed`, `ExitTerminates`, `RoundEnds`,
`DeadWorkerRevived`, `PromptReached`, `NoOrphans`, `EverythingReceived`.

## Plan

The plan is done: what the runs check as an invariant or as a refinement is also proved,
but for the Trie, and liveness is model-checked. What could be added is a Trie written without
RECURSIVE operators, a descent that keeps its path and an ascent that rebalances along it, to
prove the heights of its nodes right.

## Not modelled

- `Arguments.c`: one pass over `argv`; its errors are recorded and not read.
- `List.c` (built and freed, never read), `Log.c` and the scripts (output only; the
  program does not read its logs), printing and freeing of structures.
- Functions nobody calls: `SendSearchAnswers`, `getNextWord`, `GoToEndOfline`, `PrintChars`,
  `PrintWhitespace`.
- `PrintSearch`, which prints what it was given; what is in that is in `JobExecutor` and
  `Index`.
- Tabs and the end of stdin at the prompt: `getWord` does not know EOF and appends it
  for ever (`StringManipulation.c:16`).
- A file of paths that cannot be opened: `numPaths` stays uninitialised and
  `DistributePaths` follows a null pointer (`JobExecutor.c:62`), before there is any state.
- A byte 255 in a file is EOF once it is in a `char` (`LoadFile.c:27`); in `LoadFile` a
  file may end anywhere.
- What a second `free` that the console survives (`Console.c:66` and the like, of a stale
  command) does to other memory later.
- Failures of `malloc`, and of `open`, `unlink` and `close` for other reasons than a fifo
  that is there or not.

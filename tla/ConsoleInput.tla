---------------------------- MODULE ConsoleInput ----------------------------
(***************************************************************************)
(* How the console reads what the user types, and what arrives at the      *)
(* workers: getWord, CreateQuerryStdin, scanf and ReadTillNewline each     *)
(* take some of stdin, and nothing but what they leave there keeps         *)
(* commands and lines together.  Questions are made and taken apart again  *)
(* by QuerryToStr, CreateQuerry and getWordStr.                            *)
(*                                                                         *)
(* A word is one symbol; blanks and ends of lines are symbols of their     *)
(* own.  "/count" stands for /maxcount and /mincount.  What happens to a   *)
(* question after it is sent is in JobExecutor.tla.                        *)
(***************************************************************************)
EXTENDS Integers, Sequences, FiniteSets, SequencesExt

CONSTANTS
  Lines,      \* what the user may type, with the \n at the end
  MaxLines    \* bound: lines typed

Separators == {" ", "\n"}

NULL == "NULL"

\* A line has one end, two words are apart, and what stands for the null pointer is no
\* word.
ASSUME LinesAssumption ==
  /\ MaxLines \in Nat
  /\ Lines \subseteq Seq(STRING)
  /\ \A line \in Lines :
       /\ Len(line) > 0
       /\ \A k \in DOMAIN line :
            /\ line[k] # NULL
            /\ line[k] = "\n" <=> k = Len(line)
            /\ k < Len(line) => line[k] \in Separators \/ line[k+1] \in Separators

VARIABLES
  typed,     \* history: the lines typed so far
  stdin,     \* what of it has not been read
  pc,        \* the function that reads next, or "done", or "crashed"
  command,   \* what the pointer points to: the text of the turn before is freed
  stale,     \* this turn goes by such a text
  querry,    \* the words of a /search
  served     \* the commands sent to the workers, as they understand them

vars == <<typed, stdin, pc, command, stale, querry, served>>

Garbled == "garbled"

\* The pointer is not initialised.
Init ==
  /\ typed = <<>> /\ stdin = <<>> /\ pc = "prompt"
  /\ command \in {NULL, Garbled} /\ stale = FALSE
  /\ querry = <<>> /\ served = <<>>

\* The user types ahead or waits.
Type(line) ==
  /\ Len(typed) < MaxLines /\ pc \notin {"done", "crashed"}
  /\ typed' = Append(typed, line) /\ stdin' = stdin \o line
  /\ UNCHANGED <<pc, command, stale, querry, served>>

-----------------------------------------------------------------------------
(* Reading *)

From(s, k) == SubSeq(s, k, Len(s))
NewlineAt(s) == Min({k \in DOMAIN s : s[k] = "\n"})

\* Mutant: the end of the line is put back.
ReadTillNewlineBefore(s) == From(s, NewlineAt(s))

\* What ReadTillNewline leaves.
ReadTillNewline(s) == From(s, NewlineAt(s) + 1)

\* getWord: the word, the character behind it, and what it leaves.
getWord(s) ==
  IF s[1] \in Separators
    THEN [word |-> NULL, c |-> s[1], rest |-> From(s, 2)]
    ELSE [word |-> s[1], c |-> s[2], rest |-> From(s, 3)]

\* Mutant: the rest of the line stays.
RestOfInputKept(w) == w.rest

\* What is left behind the line that a word was read from.
RestOfInput(w) == IF w.c = "\n" THEN w.rest ELSE ReadTillNewline(w.rest)

\* What stands between the blanks and ends of lines of a text.
Words(s) ==
  LET upTo[k \in 0 .. Len(s)] ==
        IF k = 0 THEN <<>>
        ELSE IF s[k] \in Separators THEN upTo[k-1] ELSE Append(upTo[k-1], s[k])
  IN upTo[Len(s)]

\* A word of a search that is empty: two separators in a row.
EmptyWords(line) == {k \in DOMAIN line : line[k] \in Separators
                                           /\ (k > 1 => line[k-1] \in Separators)}

\* The words before the -d at place k.
QuerryWords(line, k) == Words(SubSeq(line, 1, k - 1))

-----------------------------------------------------------------------------
(* Questions *)

\* QuerryToStr with " ", behind the instruction.
Question(instruction, words) ==
  <<instruction>> \o FlattenSeq([k \in DOMAIN words |-> <<" ", words[k]>>])

\* Mutant: CreateQuerry does not leave out the instruction.
CreateQuerryAll(msg) == Words(msg)

\* CreateQuerry: the words behind the instruction.  A worker takes the keyword of
\* /count from there too (getWordStr of msg+10), and for /wc there are none.
CreateQuerry(msg) == Words(Tail(msg))

\* Freed text may be overwritten before it is copied into the question.
Instructions(instruction) == IF stale THEN {instruction, Garbled} ELSE {instruction}

Serve(instructions, words) ==
  \E instruction \in instructions :
    served' = Append(served, [command |-> instruction,
                              words   |-> CreateQuerry(Question(instruction, words))])

-----------------------------------------------------------------------------
(* The console *)

\* A turn ends with free(command), for the second time in a turn that is stale.
EndTurn(freed) == pc' = "prompt" \/ (freed /\ pc' = "crashed")

\* getWord leaves the pointer alone when there is no word; the console reads on as
\* long as it is NULL.
NoCommand ==
  /\ pc = "prompt" /\ stdin # <<>> /\ getWord(stdin).word = NULL
  /\ command = NULL
  /\ stdin' = getWord(stdin).rest
  /\ UNCHANGED <<typed, pc, command, stale, querry, served>>

\* Otherwise it compares what the pointer of the turn before, or of nobody, points
\* to: that is no text,
Dangling ==
  /\ pc = "prompt" /\ stdin # <<>> /\ getWord(stdin).word = NULL
  /\ command # NULL
  /\ stdin' = getWord(stdin).rest /\ pc' = "crashed"
  /\ UNCHANGED <<typed, command, stale, querry, served>>

\* or the command of the turn before, or something else.
Command(text) ==
  /\ pc = "prompt" /\ stdin # <<>>
  /\ IF getWord(stdin).word # NULL
       THEN text = getWord(stdin).word /\ stale' = FALSE
       ELSE command # NULL /\ text \in {command, Garbled} /\ stale' = TRUE
  /\ command' = text

Search ==
  /\ Command("/search")
  /\ stdin' = getWord(stdin).rest /\ pc' = "querry"
  /\ UNCHANGED <<typed, querry, served>>

\* CreateQuerryStdin, up to the first -d or the end of the line.
CreateQuerryStdin ==
  /\ pc = "querry" /\ stdin # <<>>
  /\ LET line   == SubSeq(stdin, 1, NewlineAt(stdin))
         dashes == {k \in DOMAIN line : line[k] = "-d"}
         last   == IF dashes = {} THEN Len(line) + 1 ELSE Min(dashes)
     IN IF \E k \in EmptyWords(line) : k < last
          THEN \* the terminating 0 goes to NULL
               pc' = "crashed" /\ UNCHANGED <<stdin, querry>>
        ELSE IF dashes = {} \/ line[last + 1] = "\n"
          THEN \* no deadline
               EndTurn(stale) /\ stdin' = ReadTillNewline(stdin) /\ UNCHANGED querry
        ELSE IF QuerryWords(line, last) = <<>>
          THEN \* no query; the deadline is not read
               EndTurn(stale) /\ stdin' = From(stdin, last + 2) /\ UNCHANGED querry
        ELSE /\ pc' = "deadline" /\ stdin' = From(stdin, last + 2)
             /\ querry' = QuerryWords(line, last)
  /\ UNCHANGED <<typed, command, stale, served>>

\* scanf("%u") skips all white space, also that of the next line; what is no
\* number stays, until ReadTillNewline takes it away.
ReadDeadline ==
  /\ pc = "deadline"
  /\ \E k \in DOMAIN stdin :
       /\ stdin[k] \notin Separators /\ \A j \in 1 .. k-1 : stdin[j] \in Separators
       /\ stdin' = ReadTillNewline(From(stdin, k))
  /\ Serve(Instructions("/search"), querry)
  /\ EndTurn(stale)
  /\ UNCHANGED <<typed, command, stale, querry>>

Count ==
  /\ Command("/count")
  /\ stdin' = getWord(stdin).rest /\ pc' = "keyword"
  /\ UNCHANGED <<typed, querry, served>>

\* The length of a keyword that is not there is taken all the same.
ReadKeyword ==
  /\ pc = "keyword" /\ stdin # <<>>
  /\ stdin' = RestOfInput(getWord(stdin))
  /\ IF getWord(stdin).word = NULL
       THEN pc' = "crashed" /\ UNCHANGED served
       ELSE EndTurn(stale) /\ Serve(Instructions("/count"), <<getWord(stdin).word>>)
  /\ UNCHANGED <<typed, command, stale, querry>>

Wc ==
  /\ Command("/wc")
  /\ stdin' = RestOfInput(getWord(stdin))
  /\ Serve({"/wc"}, <<>>)
  /\ EndTurn(stale')
  /\ UNCHANGED <<typed, querry>>

Exit ==
  /\ Command("/exit")
  /\ stdin' = getWord(stdin).rest /\ pc' = "done"
  /\ UNCHANGED <<typed, querry, served>>

\* An unknown command; then a line is skipped, also behind a command that was the
\* last word of its own.
Unknown ==
  /\ pc = "prompt" /\ stdin # <<>>
  /\ \E text \in {getWord(stdin).word, command, Garbled} \
                    {NULL, "/search", "/count", "/wc", "/exit"} : Command(text)
  /\ stdin' = getWord(stdin).rest /\ pc' = "skip"
  /\ UNCHANGED <<typed, querry, served>>

SkipLine ==
  /\ pc = "skip" /\ stdin # <<>>
  /\ stdin' = ReadTillNewline(stdin)
  /\ EndTurn(stale)
  /\ UNCHANGED <<typed, command, stale, querry, served>>

Next ==
  \/ \E line \in Lines : Type(line)
  \/ NoCommand \/ Dangling \/ Search \/ CreateQuerryStdin \/ ReadDeadline
  \/ Count \/ ReadKeyword \/ Wc \/ Exit \/ Unknown \/ SkipLine

Spec == Init /\ [][Next]_vars

-----------------------------------------------------------------------------
(* Properties *)

\* A line as README.md describes it: words with one blank between them, of a
\* search a -d and one word behind it, of a count at least a keyword.
SingleBlanks(line) == EmptyWords(line) = {}

Proper(line) ==
  /\ SingleBlanks(line)
  /\ LET words == Words(line)
         n     == Len(words)
     IN \/ words[1] = "/search" /\ n >= 4 /\ words[n-1] = "-d" /\ words[2] # "-d"
           /\ Cardinality({k \in 1 .. n : words[k] = "-d"}) = 1
        \/ words[1] = "/count" /\ n >= 2
        \/ words[1] \in {"/wc", "/exit"}
        \/ words[1] \notin {"/search", "/count", "/wc", "/exit"} /\ n >= 2

\* What such a line asks for.
Meaning(line) ==
  LET words == Words(line)
  IN CASE words[1] = "/search" ->
            <<[command |-> "/search", words |-> SubSeq(words, 2, Len(words) - 2)]>>
       [] words[1] = "/count" -> <<[command |-> "/count", words |-> <<words[2]>>]>>
       [] words[1] = "/wc" -> <<[command |-> "/wc", words |-> <<>>]>>
       [] OTHER -> <<>>

\* Every proper line is served as it was meant, in order, none twice and none left
\* out, whatever the user has typed ahead; the remains of one are never taken
\* for the next.
LinesServed ==
  (\A k \in DOMAIN typed : Proper(typed[k])) /\ pc = "prompt" =>
    \E done \in 0 .. Len(typed) :
      /\ served = FlattenSeq([k \in 1 .. done |-> Meaning(typed[k])])
      /\ stdin = FlattenSeq(SubSeq(typed, done + 1, Len(typed)))

\* Behind the first n symbols of the text a query begins: a /search is there, or
\* an empty word that made the console search again.
QuerryAt(text, n) ==
  /\ n > 0 /\ text[n] \in Separators
  /\ n > 1 => text[n-1] \in Separators \cup {"/search"}

\* Whatever is typed, the console comes back to its prompt at the beginning of a
\* line, except before the deadline of a search without words, or in blanks before
\* the first command: freed text that it takes for a command, too, costs it whole
\* lines only.
Aligned ==
  LET text == FlattenSeq(typed)
      read == Len(text) - Len(stdin)
  IN pc = "prompt" =>
       \/ \E done \in 0 .. Len(typed) : stdin = FlattenSeq(SubSeq(typed, done + 1, Len(typed)))
       \/ read > 2 /\ text[read] = " " /\ text[read-1] = "-d" /\ QuerryAt(text, read - 2)
       \/ command = NULL /\ \A k \in 1 .. read : text[k] \in Separators

\* The console dies only of an empty word: a line that is empty or begins with a
\* blank, two blanks in a row, or a blank before the end of the line.  No bare
\* command nor the deadline of a search without words makes it look for a word
\* where there is none, or take a text that is freed, as long as the blanks are single.
CrashExplained ==
  pc = "crashed" => \E k \in DOMAIN typed : ~SingleBlanks(typed[k])

=============================================================================

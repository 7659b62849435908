------------------------------ MODULE LoadFile ------------------------------
(***************************************************************************)
(* How a worker reads its files, character by character (LoadFile.c,       *)
(* ReallocDocument.c): the buffer of the current document, which begins    *)
(* with the mean size of the documents so far and grows by the golden      *)
(* ratio, and the count of characters that /wc reports.                    *)
(*                                                                         *)
(* Of a character only its class matters, of the buffer only its size and  *)
(* the place written to.  What the words are used for is in Index.tla.     *)
(***************************************************************************)
EXTENDS Integers

CONSTANTS
  FirstSize,   \* MEAN_DOC_SIZE in the beginning, 5
  MaxFiles,    \* bound: files
  MaxChars     \* bound: characters of all files

ASSUME SizeAssumption  == FirstSize \in Nat \ {0}
ASSUME BoundAssumption == MaxFiles \in Nat /\ MaxChars \in Nat

VARIABLES
  at,              \* "between" files, "skip"ping blanks, or inside a "word"
  doc_size,        \* the buffer of the current document has doc_size + 1 bytes
  char_index,
  size,            \* Dmap->size
  TOTAL_SIZE,
  MEAN_DOC_SIZE,
  \* history: the documents' characters, the smallest buffer a document began
  \* with, whether something was written behind a buffer, files and characters read
  stored, smallest, overflow, files, chars

counters == <<TOTAL_SIZE, MEAN_DOC_SIZE>>
vars == <<at, doc_size, char_index, size, counters,
          stored, smallest, overflow, files, chars>>

TypeOK ==
  /\ at \in {"between", "skip", "word"}
  /\ doc_size \in Nat /\ smallest \in Nat
  /\ size \in Nat /\ (at # "between" => size > 0)
  /\ char_index \in Nat \cup {-1}
  /\ TOTAL_SIZE \in Nat /\ MEAN_DOC_SIZE \in Nat /\ stored \in Nat
  /\ overflow \in BOOLEAN
  /\ files \in Nat /\ chars \in Nat

Init ==
  /\ at = "between" /\ files = 0 /\ chars = 0
  /\ doc_size = 0 /\ char_index = -1 /\ size = 0
  /\ TOTAL_SIZE = 0 /\ MEAN_DOC_SIZE = FirstSize
  /\ stored = 0 /\ smallest = FirstSize /\ overflow = FALSE

-----------------------------------------------------------------------------
(* ReallocDocument *)

\* Mutant: the buffer grows by a constant.
GrownByOne(n) == n + 1

\* (*doc_size) *= GOLDEN_RATIO, truncated.
Grown(n) == (n * 1618034) \div 1000000

\* Mutant: the test does not leave room for the blank behind the word.
TooSmallTight(i, n) == i > n

\* AddWord's test before it writes a letter at place i.
TooSmall(i, n) == i > n - 2

\* One write behind the doc_size + 1 bytes of the buffer.
Outside(i, n) == i > n

-----------------------------------------------------------------------------
(* Documents *)

\* The mean over all files is taken over the documents of the current one.  The
\* division by 0 for the empty first line of a file gives NaN or infinity, of
\* which the conversion of this build keeps 0 in the low bits that doc_size takes.
Mean(total, documents) ==
  IF documents = 0 THEN 0 ELSE (total + documents - 1) \div documents

UpdateMEAN_DOC_SIZE(new_doc_size, documents) ==
  /\ TOTAL_SIZE' = TOTAL_SIZE + new_doc_size
  /\ MEAN_DOC_SIZE' = Mean(TOTAL_SIZE', documents)

NewDocument(documents) ==
  /\ doc_size' = MEAN_DOC_SIZE' /\ char_index' = -1
  /\ size' = documents + 1
  /\ smallest' = IF MEAN_DOC_SIZE' < smallest THEN MEAN_DOC_SIZE' ELSE smallest

\* A document that fills its buffer is not counted.
Count ==
  IF char_index < doc_size THEN UpdateMEAN_DOC_SIZE(char_index, size)
                           ELSE UNCHANGED counters

\* Mutant: an empty document is finished like any other.
FinishEveryDocument(documents) ==
  documents = size /\ Count /\ stored' = stored + char_index

\* The end of a line: an empty document is deleted, another one is terminated at
\* char_index.  `documents` is the size of the map after that.
FinishDocument(documents) ==
  IF char_index = -1
    THEN /\ documents = size - 1
         /\ UpdateMEAN_DOC_SIZE(0, documents)
         /\ UNCHANGED stored
    ELSE /\ documents = size
         /\ Count
         /\ stored' = stored + char_index

-----------------------------------------------------------------------------
Input == chars < MaxChars /\ chars' = chars + 1

OpenFile ==
  /\ at = "between" /\ files < MaxFiles
  /\ files' = files + 1 /\ at' = "skip"
  /\ UNCHANGED <<counters, stored, overflow, chars>>
  /\ NewDocument(0)

\* A letter: the first of a word, behind the blank of the word before it, or the
\* next one.
Letter ==
  /\ at \in {"skip", "word"} /\ Input
  /\ LET i == IF at = "skip" THEN char_index + 1 ELSE char_index
     IN /\ doc_size' = IF TooSmall(i, doc_size) THEN Grown(doc_size) ELSE doc_size
        /\ overflow' = (overflow \/ Outside(i, doc_size'))
        /\ char_index' = i + 1
  /\ at' = "word"
  /\ UNCHANGED <<size, counters, stored, smallest, files>>

SkipWhitespace ==
  /\ at = "skip" /\ Input
  /\ UNCHANGED <<at, doc_size, char_index, size, counters, stored, smallest, overflow, files>>

\* A blank is written behind a word, whatever ends it.
AddBlank == overflow' = (overflow \/ (at = "word" /\ Outside(char_index, doc_size)))

EndWord ==
  /\ at = "word" /\ Input
  /\ AddBlank
  /\ at' = "skip"
  /\ UNCHANGED <<doc_size, char_index, size, counters, stored, smallest, files>>

Newline ==
  /\ at \in {"skip", "word"} /\ Input
  /\ AddBlank
  /\ \E documents \in {size, size - 1} :
       FinishDocument(documents) /\ NewDocument(documents)
  /\ at' = "skip"
  /\ UNCHANGED files

\* EOF, or a byte 255, which is EOF once it is in a char.
EndOfFile ==
  /\ at \in {"skip", "word"}
  /\ AddBlank
  /\ \E documents \in {size, size - 1} :
       FinishDocument(documents) /\ size' = documents
  /\ at' = "between"
  /\ UNCHANGED <<doc_size, char_index, smallest, files, chars>>

Next == OpenFile \/ Letter \/ SkipWhitespace \/ EndWord \/ Newline \/ EndOfFile

Spec == Init /\ [][Next]_vars

-----------------------------------------------------------------------------
(* Properties *)

\* Nothing is written behind the buffer of a document as long as documents begin
\* with room for three characters: from 3 on, the golden ratio makes the buffer
\* grow by enough for the two places a one-letter word needs.
WritesInside == smallest >= 3 => ~overflow

\* /wc never reports a character that is not in a document, and reports every one
\* as long as documents begin with room for four: none of them then fills its
\* buffer exactly.
EveryDocumentCounted ==
  /\ TOTAL_SIZE <= stored
  /\ smallest >= 4 => TOTAL_SIZE = stored

=============================================================================

------------------------------- MODULE Index -------------------------------
(***************************************************************************)
(* The index of one worker: LoadFiles reads its files word by word, keeps  *)
(* for each file the map of its documents (DocumentMap.c) and for each     *)
(* word a posting list (PostingList.c, Post.c), from which the worker      *)
(* answers /maxcount, /mincount, /search and the lines and words of /wc.   *)
(*                                                                         *)
(* A file is a sequence of lines, a line a sequence of words.  The Trie is *)
(* the function from words to their posting lists, the text of a document  *)
(* its number of words (doc_lenght), a path its rank in the alphabet.      *)
(***************************************************************************)
EXTENDS Integers, Sequences, FiniteSets, SequencesExt

CONSTANTS
  Words,
  numFiles,
  Rank,       \* Rank[f]: the place of FilePaths[f] in the order of mystrcmp
  MaxLines,   \* bound: lines of one file
  MaxWords    \* bound: words of all files

FileIds == 0 .. numFiles-1

ASSUME FileAssumption  == numFiles \in Nat \ {0} /\ Rank \in [FileIds -> Nat]
ASSUME IndexAssumption == MaxLines \in Nat \ {0} /\ MaxWords \in Nat

VARIABLES
  text,            \* history: text[f] is what has been read of file f
  file,            \* the file LoadFiles is at
  reading,         \* it is inside LoadFile
  opened,          \* the files it could open
  doc_lenght,      \* DocMaps[f]->doc_lenght; its length is DocMaps[f]->size
  plist,           \* the Trie
  WORDS_IN_FILES

vars == <<text, file, reading, opened, doc_lenght, plist, WORDS_IN_FILES>>

Post == [file_id : FileIds, doc_id : Nat, recurrence : Nat]

\* plist->post is the sequence of posts from the first on; a word that has no
\* posting list yet is one that has no posts.
PostingList == [term_frequency : Nat, doc_frequency : Nat, post : Seq(Post)]
NoList      == [term_frequency |-> 0, doc_frequency |-> 0, post |-> <<>>]

TypeOK ==
  /\ text \in [FileIds -> Seq(Seq(Words))]
  /\ file \in 0 .. numFiles /\ reading \in BOOLEAN /\ (reading => file < numFiles)
  /\ opened \subseteq FileIds
  /\ doc_lenght \in [FileIds -> Seq(Nat)]
  /\ plist \in [Words -> PostingList]
  /\ WORDS_IN_FILES \in Nat

Init ==
  /\ text = [f \in FileIds |-> <<>>]
  /\ file = 0 /\ reading = FALSE /\ opened = {}
  /\ doc_lenght = [f \in FileIds |-> <<>>]
  /\ plist = [w \in Words |-> NoList]
  /\ WORDS_IN_FILES = 0

-----------------------------------------------------------------------------
(* Posting lists *)

CreatePost(f, d) == [file_id |-> f, doc_id |-> d, recurrence |-> 1]

CreatePostingList(f, d) ==
  [term_frequency |-> 1, doc_frequency |-> 1, post |-> <<CreatePost(f, d)>>]

\* Mutant: documents are told apart by their number in their file alone.
AddPostByDoc(pl, f, d) ==
  IF pl.post[1].doc_id = d
    THEN [pl EXCEPT !.term_frequency = @ + 1, !.post[1].recurrence = @ + 1]
    ELSE [pl EXCEPT !.term_frequency = @ + 1, !.doc_frequency = @ + 1,
                    !.post = <<CreatePost(f, d)>> \o @]

\* Only the first post is looked at.
AddPost(pl, f, d) ==
  IF pl.post[1].doc_id = d /\ pl.post[1].file_id = f
    THEN [pl EXCEPT !.term_frequency = @ + 1, !.post[1].recurrence = @ + 1]
    ELSE [pl EXCEPT !.term_frequency = @ + 1, !.doc_frequency = @ + 1,
                    !.post = <<CreatePost(f, d)>> \o @]

\* What TrieInsert does at the last letter of a word.
Insert(w, f, d) ==
  plist' = [plist EXCEPT ![w] =
              IF @ = NoList THEN CreatePostingList(f, d) ELSE AddPost(@, f, d)]

-----------------------------------------------------------------------------
(* LoadFiles *)

\* The last document of file f, DocMaps[f]->size - 1, and its words.
current      == Len(doc_lenght[file]) - 1
currentWords == doc_lenght[file][current + 1]

\* LoadFile makes a map and begins with a new document for the first line.
OpenFile ==
  /\ ~reading /\ file < numFiles
  /\ reading' = TRUE /\ opened' = opened \cup {file}
  /\ doc_lenght' = [doc_lenght EXCEPT ![file] = <<0>>]
  /\ text' = [text EXCEPT ![file] = << <<>> >>]
  /\ UNCHANGED <<file, plist, WORDS_IN_FILES>>

\* Mutant: the loop runs to i <= numFiles.
OneFileMore ==
  /\ ~reading /\ file <= numFiles
  /\ file' = file + 1
  /\ UNCHANGED <<text, reading, opened, doc_lenght, plist, WORDS_IN_FILES>>

\* A file that cannot be opened is skipped: DocMaps[i] = NULL.
SkipFile ==
  /\ ~reading /\ file < numFiles
  /\ file' = file + 1
  /\ UNCHANGED <<text, reading, opened, doc_lenght, plist, WORDS_IN_FILES>>

\* The next word of the line is w.
ReadWord(w) ==
  /\ reading /\ WORDS_IN_FILES < MaxWords
  /\ doc_lenght' = [doc_lenght EXCEPT ![file][current + 1] = @ + 1]
  /\ WORDS_IN_FILES' = WORDS_IN_FILES + 1
  /\ Insert(w, file, current)
  /\ text' = [text EXCEPT ![file][Len(text[file])] = Append(@, w)]
  /\ UNCHANGED <<file, reading, opened>>

\* Mutant: the document of an empty line stays in the map.
KeepEmpty == doc_lenght[file]

\* At the end of a line an empty document is deleted.
Documents == IF currentWords = 0 THEN Front(doc_lenght[file]) ELSE doc_lenght[file]

EndLine ==
  /\ reading /\ Len(text[file]) < MaxLines
  /\ doc_lenght' = [doc_lenght EXCEPT ![file] = Append(Documents, 0)]
  /\ text' = [text EXCEPT ![file] = Append(@, <<>>)]
  /\ UNCHANGED <<file, reading, opened, plist, WORDS_IN_FILES>>

EndFile ==
  /\ reading
  /\ doc_lenght' = [doc_lenght EXCEPT ![file] = Documents]
  /\ reading' = FALSE /\ file' = file + 1
  /\ UNCHANGED <<text, opened, plist, WORDS_IN_FILES>>

Next ==
  \/ OpenFile \/ SkipFile \/ EndLine \/ EndFile
  \/ \E w \in Words : ReadWord(w)

Spec == Init /\ [][Next]_vars

-----------------------------------------------------------------------------
(* Answers *)

Loaded == file = numFiles

\* SearchTrie finds a posting list.
Known(w) == plist[w] # NoList

\* The state of MaxRecurrenceFile (sign 1) and MinRecurrenceFile (sign -1): the
\* best file so far with its count, and the current file with its count.  On
\* equal counts the path that comes first in the alphabet is chosen.
\* Mutant: on equal counts the file found last is preferred.
PreferLast(s, sign) ==
  s.id = -1 \/ sign * s.curr >= sign * s.best

Preferred(s, sign) ==
  \/ s.id = -1
  \/ sign * s.curr > sign * s.best
  \/ s.curr = s.best /\ Rank[s.curr_id] < Rank[s.id]

Settle(s, sign) ==
  IF Preferred(s, sign) THEN [s EXCEPT !.id = s.curr_id, !.best = s.curr] ELSE s

\* One turn of their loop: the posts about one file follow one another.
Visit(s, p, sign) ==
  IF p.file_id = s.curr_id
    THEN [s EXCEPT !.curr = @ + p.recurrence]
    ELSE [(IF s.curr_id = -1 THEN s ELSE Settle(s, sign))
            EXCEPT !.curr_id = p.file_id, !.curr = p.recurrence]

RecurrenceFile(w, sign) ==
  LET n == plist[w].doc_frequency
      s[k \in 0 .. n] ==
        IF k = 0 THEN [id |-> -1, best |-> 0, curr_id |-> -1, curr |-> 0]
                 ELSE Visit(s[k-1], plist[w].post[k], sign)
  IN Settle(s[n], sign)

\* The elements of s that are in S, in their order.
Keep(s, S) ==
  LET K[k \in 0 .. Len(s)] ==
        IF k = 0 THEN <<>>
        ELSE IF s[k] \in S THEN Append(K[k-1], s[k]) ELSE K[k-1]
  IN K[Len(s)]

\* What GroupByFile finds for file f in the posting list of w, if SearchTrieQuerry
\* finds one.
InFile(w, f) ==
  IF Known(w) THEN Keep(plist[w].post, [file_id : {f}, doc_id : Nat, recurrence : Nat])
              ELSE <<>>

\* GroupAllByFile: the posts about file f of the posting lists found, in order.
PostsByFile(querry, f) ==
  LET Results[k \in 0 .. Len(querry)] ==
        IF k = 0 THEN <<>> ELSE Results[k-1] \o InFile(querry[k], f)
  IN Results[Len(querry)]

\* Mutant: prev_doc_id starts at 0.
FromZero(docs) == IF docs = <<>> THEN 0 ELSE docs[Len(docs)]

\* The document that was sent last.
prev_doc_id(docs) == IF docs = <<>> THEN -1 ELSE docs[Len(docs)]

\* SendSearchAnswer: the documents of file f it sends, in order; one is left out
\* when it is the one just sent.
Answer(querry, f) ==
  LET posts == PostsByFile(querry, f)
      docs[k \in 0 .. Len(posts)] ==
        IF k = 0 THEN <<>>
        ELSE IF posts[k].doc_id = prev_doc_id(docs[k-1]) THEN docs[k-1]
        ELSE Append(docs[k-1], posts[k].doc_id)
  IN docs[Len(posts)]

\* GetNumLines reads DocMaps[i]->size of every file: the worker dies of a file
\* that was skipped.
Crash == -1
GetNumLines ==
  LET total_lines[k \in 0 .. numFiles] ==
        IF k = 0 THEN 0 ELSE total_lines[k-1] + Len(doc_lenght[k-1])
  IN IF opened = FileIds THEN total_lines[numFiles] ELSE Crash

-----------------------------------------------------------------------------
(* Properties: the index against the text it was built from *)

\* The lines of f with words in them, and the places in a line, in a file and in
\* all files where a word of W is.
Lines(f)        == Keep(text[f], Seq(Words) \ {<<>>})
InLine(W, line) == {i \in DOMAIN line : line[i] \in W}
Places(W, f)    == UNION {{l} \X InLine(W, Lines(f)[l]) : l \in DOMAIN Lines(f)}
AllPlaces(W)    == UNION {{f} \X Places(W, f) : f \in FileIds}

Times(w, line) == Cardinality(InLine({w}, line))
Count(w, f)    == Cardinality(Places({w}, f))

\* The posts that the lines with w in them should have.
PostOf(w, f, l) == [file_id |-> f, doc_id |-> l - 1, recurrence |-> Times(w, Lines(f)[l])]
Containing(w) ==
  UNION {{PostOf(w, f, l) : l \in {l \in DOMAIN Lines(f) : Times(w, Lines(f)[l]) > 0}} :
         f \in FileIds}

\* A posting list has one post for each line with the word, with the number of its
\* occurrences there, and no other, and counts them right, although AddPost looks
\* at the first post only and documents are renumbered when an empty one is
\* deleted.
PostsDescribeText ==
  \A w \in Words :
    /\ ToSet(plist[w].post) = Containing(w)
    /\ IsInjective(plist[w].post)
    /\ plist[w].doc_frequency = Len(plist[w].post)
    /\ plist[w].term_frequency = Cardinality(AllPlaces({w}))

\* The lines of f as a reader of the file counts them (nothing behind the last
\* newline is no line), those without words, and the same for all files.
FileLines(f) ==
  IF text[f] # <<>> /\ Last(text[f]) = <<>> THEN Front(text[f]) ELSE text[f]
EmptyLines(f) == {l \in DOMAIN FileLines(f) : FileLines(f)[l] = <<>>}
AllLines      == UNION {{f} \X DOMAIN FileLines(f) : f \in FileIds}
AllEmptyLines == UNION {{f} \X EmptyLines(f) : f \in FileIds}

LineLengths(t) == [l \in DOMAIN t |-> Len(t[l])]

\* README.md:12, DocumentMap.h:4: document i of a file is its line i.  So it is as
\* long as the file has no line without words; such a line gets no document
\* ("marked as NULL in the map", LoadFile.c:64, is not what DeleteDocument
\* does), and the lines behind it move up, still in order.  README.md:43, /wc
\* prints the total number of lines: it prints as many as that less the
\* lines without words, if every file could be opened, and all words.
DocumentsAreLines ==
  /\ WORDS_IN_FILES = Cardinality(AllPlaces(Words))
  /\ \A f \in FileIds : f < file =>
       /\ doc_lenght[f] = LineLengths(Lines(f))
       /\ EmptyLines(f) = {} => doc_lenght[f] = LineLengths(FileLines(f))
  /\ Loaded /\ opened = FileIds =>
       GetNumLines = Cardinality(AllLines) - Cardinality(AllEmptyLines)

\* PostingList.h:53-55: /maxcount (/mincount) names a file that contains the word
\* most (least) among those that contain it, the first in the alphabet of
\* several, with the right count; the single pass over the list relies on the
\* posts about a file being consecutive.
CountAnswersRight ==
  \A w \in Words, sign \in {1, -1} : Known(w) =>
    LET r    == RecurrenceFile(w, sign)
        With == {f \in FileIds : Count(w, f) > 0}
    IN /\ r.id \in With /\ r.best = Count(w, r.id)
       /\ \A f \in With \ {r.id} :
            \/ sign * Count(w, f) < sign * r.best
            \/ Count(w, f) = r.best /\ Rank[f] >= Rank[r.id]

\* The documents of file f with a word of the query.
Matching(querry, f) ==
  {p.doc_id : p \in {p \in UNION {Containing(querry[i]) : i \in DOMAIN querry} :
                       p.file_id = f}}

OneWord  == {<<w>> : w \in Words}
TwoWords == {<<v, w>> : v, w \in Words}

\* The answer to a query names every document with one of its words, and no
\* other; to a query of one word it names none twice.
SearchComplete ==
  \A f \in FileIds :
    /\ \A q \in OneWord \cup TwoWords : ToSet(Answer(q, f)) = Matching(q, f)
    /\ \A q \in OneWord : IsInjective(Answer(q, f))

=============================================================================

--------------------------- MODULE LoadFileProofs ---------------------------
(***************************************************************************)
(* Theorems about LoadFile: for every size the first buffer may have and   *)
(* every text, the writes stay inside the buffer, and every document is    *)
(* counted, as long as no buffer begins too small.                         *)
(***************************************************************************)
EXTENDS LoadFile, TLAPS

\* How much a buffer grows: what AddWord relies on without testing again.
LEMMA Growth ==
  ASSUME NEW n \in Nat
  PROVE  /\ Grown(n) \in Nat /\ Grown(n) >= n
         /\ n >= 2 => Grown(n) >= n + 1
         /\ n >= 4 => Grown(n) >= n + 2
<1>1. 1000000 * Grown(n) <= n * 1618034 /\ n * 1618034 < 1000000 * (Grown(n) + 1)
      /\ Grown(n) \in Int
  BY SMT DEF Grown
<1> QED BY <1>1, SMT

LEMMA MeanType ==
  ASSUME NEW total \in Nat, NEW documents \in Nat
  PROVE  Mean(total, documents) \in Nat
<1>1. CASE documents = 0
  BY <1>1 DEF Mean
<1>2. CASE documents > 0
  <2> DEFINE q == (total + documents - 1) \div documents
  <2>1. q \in Int /\ documents * q <= total + documents - 1 
        /\ total + documents - 1 < documents * (q + 1)
    BY <1>2, SMT
  <2>2. q >= 0
    BY <2>1, <1>2, SMT
  <2> QED BY <2>1, <2>2, <1>2 DEF Mean
<1> QED BY <1>1, <1>2

-----------------------------------------------------------------------------
(* Type correctness *)

LEMMA UpdateType ==
  ASSUME TypeOK, NEW n \in Nat, NEW documents \in Nat, UpdateMEAN_DOC_SIZE(n, documents)
  PROVE  TOTAL_SIZE' \in Nat /\ MEAN_DOC_SIZE' \in Nat
<1>1. TOTAL_SIZE' \in Nat
  BY DEF TypeOK, UpdateMEAN_DOC_SIZE
<1>2. MEAN_DOC_SIZE' \in Nat
  BY <1>1, MeanType DEF UpdateMEAN_DOC_SIZE
<1> QED BY <1>1, <1>2

\* The two ways a line can end, with the documents that are left.
LEMMA Finished ==
  ASSUME TypeOK, at # "between", NEW documents \in {size, size - 1},
         FinishDocument(documents)
  PROVE  /\ documents \in Nat
         /\ TOTAL_SIZE' \in Nat /\ MEAN_DOC_SIZE' \in Nat /\ stored' \in Nat
<1>1. documents \in Nat
  BY DEF TypeOK
<1>2. CASE char_index = -1
  BY <1>1, <1>2, UpdateType DEF TypeOK, FinishDocument
<1>3. CASE char_index # -1
  <2>1. char_index \in Nat /\ stored' \in Nat /\ documents = size /\ Count
    BY <1>3 DEF TypeOK, FinishDocument
  <2>2. CASE char_index < doc_size
    BY <1>1, <2>1, <2>2, UpdateType DEF Count
  <2>3. CASE ~(char_index < doc_size)
    BY <1>1, <2>1, <2>3 DEF Count, counters, TypeOK
  <2> QED BY <2>2, <2>3
<1> QED BY <1>2, <1>3

LEMMA TypeStep == TypeOK /\ [Next]_vars => TypeOK'
<1> SUFFICES ASSUME TypeOK, [Next]_vars PROVE TypeOK'
  OBVIOUS
<1>1. CASE OpenFile
  BY <1>1 DEF OpenFile, NewDocument, counters, TypeOK
<1>2. CASE Letter
  <2>1. Grown(doc_size) \in Nat
    BY Growth DEF TypeOK
  <2> QED BY <1>2, <2>1 DEF Letter, Input, counters, TypeOK
<1>3. CASE SkipWhitespace
  BY <1>3 DEF SkipWhitespace, Input, counters, TypeOK
<1>4. CASE EndWord
  BY <1>4 DEF EndWord, Input, AddBlank, Outside, counters, TypeOK
<1>5. CASE Newline
  <2>1. PICK documents \in {size, size - 1} :
          FinishDocument(documents) /\ NewDocument(documents)
    BY <1>5 DEF Newline
  <2>2. /\ documents \in Nat
        /\ TOTAL_SIZE' \in Nat /\ MEAN_DOC_SIZE' \in Nat /\ stored' \in Nat
    BY <1>5, <2>1, Finished DEF Newline
  <2>3. overflow' \in BOOLEAN /\ chars' \in Nat /\ at' = "skip" /\ files' \in Nat
    BY <1>5 DEF Newline, Input, AddBlank, Outside, TypeOK
  <2> QED BY <2>1, <2>2, <2>3 DEF NewDocument, TypeOK
<1>6. CASE EndOfFile
  <2>1. PICK documents \in {size, size - 1} :
          FinishDocument(documents) /\ size' = documents
    BY <1>6 DEF EndOfFile
  <2>2. /\ documents \in Nat
        /\ TOTAL_SIZE' \in Nat /\ MEAN_DOC_SIZE' \in Nat /\ stored' \in Nat
    BY <1>6, <2>1, Finished DEF EndOfFile
  <2> QED BY <1>6, <2>1, <2>2 DEF EndOfFile, AddBlank, Outside, TypeOK
<1>7. CASE UNCHANGED vars
  BY <1>7 DEF vars, counters, TypeOK
<1> QED BY <1>1, <1>2, <1>3, <1>4, <1>5, <1>6, <1>7 DEF Next

\* The variables keep their types; in particular no size becomes negative, which
\* as the unsigned number it is in the code would be a huge one.
THEOREM LoadTypeCorrect == Spec => []TypeOK
<1>1. Init => TypeOK
  <2>1. FirstSize \in Nat
    BY SizeAssumption
  <2>2. Init => char_index \in Nat \cup {-1}
    BY DEF Init
  <2>3. Init => overflow \in BOOLEAN
    BY DEF Init
  <2>4. Init => /\ at = "between" /\ doc_size = 0 /\ size = 0 /\ files = 0 /\ chars = 0
                /\ TOTAL_SIZE = 0 /\ MEAN_DOC_SIZE \in Nat
                /\ stored = 0 /\ smallest \in Nat
    BY <2>1 DEF Init
  <2> QED BY <2>2, <2>3, <2>4 DEF TypeOK
<1> QED BY <1>1, TypeStep, PTL DEF Spec

-----------------------------------------------------------------------------
(* The buffer *)

\* Where the next write may go, in a file whose buffers all begin with three
\* places or more: a word ends at doc_size or before it, so the next one begins
\* one place further at most, and a buffer of three has not been filled to its
\* end, because one that is filled has grown.
Room ==
  smallest >= 3 =>
    /\ ~overflow
    /\ at # "between" =>
         /\ doc_size >= 3 /\ char_index <= doc_size
         /\ doc_size = 3 => char_index <= 2

\* With four places a word ends before doc_size, and the document is counted.
Counted ==
  smallest >= 4 =>
    /\ TOTAL_SIZE = stored
    /\ at # "between" => doc_size >= 4 /\ char_index < doc_size

\* A document that is counted is counted with the characters stored.
LEMMA FinishedCount ==
  ASSUME TypeOK, at # "between", NEW documents \in {size, size - 1},
         FinishDocument(documents)
  PROVE  \/ TOTAL_SIZE' - TOTAL_SIZE = stored' - stored
         \/ /\ TOTAL_SIZE' = TOTAL_SIZE /\ stored' >= stored
            /\ char_index >= doc_size
<1>1. CASE char_index = -1
  BY <1>1 DEF FinishDocument, UpdateMEAN_DOC_SIZE, TypeOK
<1>2. CASE char_index # -1 /\ char_index < doc_size
  BY <1>2 DEF FinishDocument, Count, UpdateMEAN_DOC_SIZE, TypeOK
<1>3. CASE char_index # -1 /\ ~(char_index < doc_size)
  BY <1>3 DEF FinishDocument, Count, counters, TypeOK
<1> QED BY <1>1, <1>2, <1>3

LEMMA RoomStep == TypeOK /\ Room /\ [Next]_vars => Room'
<1> SUFFICES ASSUME TypeOK, Room, [Next]_vars PROVE Room'
  OBVIOUS
<1>1. CASE OpenFile
  BY <1>1 DEF OpenFile, NewDocument, counters, TypeOK, Room
<1>2. CASE Letter
  <2> DEFINE i == IF at = "skip" THEN char_index + 1 ELSE char_index
  <2>1. CASE TooSmall(i, doc_size)
    BY <1>2, <2>1, Growth DEF Letter, TooSmall, Outside, TypeOK, Room
  <2>2. CASE ~TooSmall(i, doc_size)
    BY <1>2, <2>2 DEF Letter, TooSmall, Outside, TypeOK, Room
  <2> QED BY <2>1, <2>2
<1>3. CASE SkipWhitespace
  BY <1>3 DEF SkipWhitespace, counters, Room
<1>4. CASE EndWord
  BY <1>4 DEF EndWord, AddBlank, Outside, TypeOK, Room
<1>5. CASE Newline
  <2>1. overflow' = (overflow \/ (at = "word" /\ Outside(char_index, doc_size)))
    BY <1>5 DEF Newline, AddBlank
  <2>2. /\ doc_size' = MEAN_DOC_SIZE' /\ char_index' = -1
        /\ smallest' = IF MEAN_DOC_SIZE' < smallest THEN MEAN_DOC_SIZE' ELSE smallest
        /\ at # "between"
    BY <1>5 DEF Newline, NewDocument
  <2>3. TypeOK'
    BY TypeStep
  <2> QED BY <2>1, <2>2, <2>3 DEF Outside, TypeOK, Room
<1>6. CASE EndOfFile
  BY <1>6 DEF EndOfFile, AddBlank, Outside, TypeOK, Room
<1>7. CASE UNCHANGED vars
  BY <1>7 DEF vars, counters, Room
<1> QED BY <1>1, <1>2, <1>3, <1>4, <1>5, <1>6, <1>7 DEF Next

LEMMA CountedStep == TypeOK /\ Counted /\ [Next]_vars => Counted'
<1> SUFFICES ASSUME TypeOK, Counted, [Next]_vars PROVE Counted'
  OBVIOUS
<1> USE DEF Counted
<1>1. CASE OpenFile
  BY <1>1 DEF OpenFile, NewDocument, counters, TypeOK
<1>2. CASE Letter
  <2> DEFINE i == IF at = "skip" THEN char_index + 1 ELSE char_index
  <2>1. CASE TooSmall(i, doc_size)
    BY <1>2, <2>1, Growth DEF Letter, TooSmall, counters, TypeOK
  <2>2. CASE ~TooSmall(i, doc_size)
    BY <1>2, <2>2 DEF Letter, TooSmall, counters, TypeOK
  <2> QED BY <2>1, <2>2
<1>3. CASE SkipWhitespace
  BY <1>3 DEF SkipWhitespace, counters
<1>4. CASE EndWord
  BY <1>4 DEF EndWord, counters
<1>5. CASE Newline
  <2>1. PICK documents \in {size, size - 1} :
          FinishDocument(documents) /\ NewDocument(documents)
    BY <1>5 DEF Newline
  <2>2. \/ TOTAL_SIZE' - TOTAL_SIZE = stored' - stored
        \/ TOTAL_SIZE' = TOTAL_SIZE /\ stored' >= stored /\ char_index >= doc_size
    BY <1>5, <2>1, FinishedCount DEF Newline
  <2>3. TypeOK'
    BY TypeStep
  <2> QED BY <1>5, <2>1, <2>2, <2>3 DEF Newline, NewDocument, TypeOK
<1>6. CASE EndOfFile
  <2>1. PICK documents \in {size, size - 1} :
          FinishDocument(documents) /\ size' = documents
    BY <1>6 DEF EndOfFile
  <2>2. \/ TOTAL_SIZE' - TOTAL_SIZE = stored' - stored
        \/ TOTAL_SIZE' = TOTAL_SIZE /\ stored' >= stored /\ char_index >= doc_size
    BY <1>6, <2>1, FinishedCount DEF EndOfFile
  <2>3. TypeOK'
    BY TypeStep
  <2> QED BY <1>6, <2>1, <2>2, <2>3 DEF EndOfFile, TypeOK
<1>7. CASE UNCHANGED vars
  BY <1>7 DEF vars, counters
<1> QED BY <1>1, <1>2, <1>3, <1>4, <1>5, <1>6, <1>7 DEF Next

\* AddWord and LoadFile write inside the buffer of a document in every run in which
\* no document begins with less than three places.
THEOREM BufferSafe == Spec => []WritesInside
<1>1. Init => Room
  BY DEF Init, Room
<1>2. Room => WritesInside
  BY DEF Room, WritesInside
<1> QED BY <1>1, <1>2, LoadTypeCorrect, RoomStep, PTL DEF Spec

\* TOTAL_SIZE never exceeds what is stored, whatever the documents begin with.
NeverTooMany == TOTAL_SIZE <= stored

LEMMA NeverTooManyStep == TypeOK /\ NeverTooMany /\ [Next]_vars => NeverTooMany'
<1> SUFFICES ASSUME TypeOK, NeverTooMany, [Next]_vars PROVE NeverTooMany'
  OBVIOUS
<1>1. CASE at # "between" /\ (Newline \/ EndOfFile)
  <2>1. PICK documents \in {size, size - 1} : FinishDocument(documents)
    BY <1>1 DEF Newline, EndOfFile
  <2>2. \/ TOTAL_SIZE' - TOTAL_SIZE = stored' - stored
        \/ TOTAL_SIZE' = TOTAL_SIZE /\ stored' >= stored
    BY <1>1, <2>1, FinishedCount
  <2>3. TypeOK'
    BY TypeStep
  <2> QED BY <2>2, <2>3 DEF TypeOK, NeverTooMany
<1>2. CASE OpenFile \/ Letter \/ SkipWhitespace \/ EndWord \/ UNCHANGED vars
  BY <1>2 DEF OpenFile, Letter, SkipWhitespace, EndWord, vars, counters, NeverTooMany
<1> QED BY <1>1, <1>2 DEF Next, Newline, EndOfFile

\* In every run TOTAL_SIZE is at most the number of characters of the documents,
\* and in every run in which none begins with less than four places it is that
\* number.
THEOREM BytesRight == Spec => []EveryDocumentCounted
<1>1. Init => Counted /\ NeverTooMany
  BY DEF Init, Counted, NeverTooMany
<1>2. Counted /\ NeverTooMany => EveryDocumentCounted
  BY DEF Counted, NeverTooMany, EveryDocumentCounted
<1> QED BY <1>1, <1>2, LoadTypeCorrect, CountedStep, NeverTooManyStep, PTL DEF Spec

=============================================================================

---------------------------- MODULE PipingProofs ----------------------------
(***************************************************************************)
(* Send and Receive keep the messages of a pipe apart, whatever their      *)
(* sizes, the size of a part, the room in the pipe and the deaths of the   *)
(* two processes, as long as no handler interrupts a system call.          *)
(***************************************************************************)
EXTENDS Piping, SequenceTheorems, TLAPS

USE SizeAssumption, ProcessAssumption, LimitAssumption

-----------------------------------------------------------------------------
(* Types *)

\* What Send writes is never uninitialised memory, and it goes on as long as
\* something of its message is left.
Written == {c \in Cell : c.type # "junk"}

TypeInv ==
  /\ Types
  /\ pipe \in Seq(Written)
  /\ spc # "idle" => sent # <<>> /\ msg_offset < msg_size

\* The first cells of a sequence, and those behind them.
LEMMA Split ==
  ASSUME NEW S, NEW s \in Seq(S), NEW n \in Nat, n <= Len(s)
  PROVE  /\ SubSeq(s, 1, n) \in Seq(S) /\ Len(SubSeq(s, 1, n)) = n
         /\ \A i \in 1 .. n : SubSeq(s, 1, n)[i] = s[i]
         /\ SubSeq(s, n + 1, Len(s)) \in Seq(S)
         /\ Len(SubSeq(s, n + 1, Len(s))) = Len(s) - n
         /\ \A i \in 1 .. Len(s) - n : SubSeq(s, n + 1, Len(s))[i] = s[n + i]
<1>1. Len(s) \in Nat /\ \A i \in 1 .. Len(s) : s[i] \in S
  BY ElementOfSeq
<1>2. /\ SubSeq(s, 1, n) \in Seq(S) /\ Len(SubSeq(s, 1, n)) = n
      /\ \A i \in 1 .. n : SubSeq(s, 1, n)[i] = s[i]
  <2>1. \A i \in 1 .. n : s[i] \in S
    BY <1>1
  <2>2. /\ SubSeq(s, 1, n) \in Seq(S)
        /\ Len(SubSeq(s, 1, n)) = IF 1 <= n THEN n - 1 + 1 ELSE 0
        /\ \A i \in 1 .. n - 1 + 1 : SubSeq(s, 1, n)[i] = s[1 + i - 1]
    BY <2>1, SubSeqProperties
  <2>3. QED
    BY <2>2
<1>3. /\ SubSeq(s, n + 1, Len(s)) \in Seq(S)
      /\ Len(SubSeq(s, n + 1, Len(s))) = Len(s) - n
      /\ \A i \in 1 .. Len(s) - n : SubSeq(s, n + 1, Len(s))[i] = s[n + i]
  <2>1. \A i \in n + 1 .. Len(s) : s[i] \in S
    BY <1>1
  <2>2. /\ SubSeq(s, n + 1, Len(s)) \in Seq(S)
        /\ Len(SubSeq(s, n + 1, Len(s))) =
             IF n + 1 <= Len(s) THEN Len(s) - (n + 1) + 1 ELSE 0
        /\ \A i \in 1 .. Len(s) - (n + 1) + 1 :
             SubSeq(s, n + 1, Len(s))[i] = s[n + 1 + i - 1]
    BY <1>1, <2>1, SubSeqProperties
  <2>3. QED
    BY <1>1, <2>2
<1>4. QED
  BY <1>2, <1>3

\* A read takes the first cells of the pipe and leaves the others.
LEMMA FoundFirst ==
  ASSUME NEW S, pipe \in Seq(S), NEW n \in Nat
  PROVE  LET m == Len(Found(n))
             rest == SubSeq(pipe, m + 1, Len(pipe))
         IN  /\ m \in Nat /\ m <= n /\ m <= Len(pipe) /\ (m < n => m = Len(pipe))
             /\ Found(n) \in Seq(S) /\ \A i \in 1 .. m : Found(n)[i] = pipe[i]
             /\ rest \in Seq(S) /\ Len(rest) = Len(pipe) - m
             /\ \A i \in 1 .. Len(pipe) - m : rest[i] = pipe[m + i]
<1>1. Len(pipe) \in Nat
  OBVIOUS
<1>2. DEFINE m == Shorter(n, Len(pipe))
<1>3. m \in Nat /\ m <= n /\ m <= Len(pipe) /\ (m < n => m = Len(pipe))
  BY <1>1 DEF Shorter
<1>4. Found(n) = SubSeq(pipe, 1, m)
  BY DEF Found
<1>5. HIDE DEF m
<1>6. /\ Found(n) \in Seq(S) /\ Len(Found(n)) = m
      /\ \A i \in 1 .. m : Found(n)[i] = pipe[i]
      /\ SubSeq(pipe, m + 1, Len(pipe)) \in Seq(S)
      /\ Len(SubSeq(pipe, m + 1, Len(pipe))) = Len(pipe) - m
      /\ \A i \in 1 .. Len(pipe) - m : SubSeq(pipe, m + 1, Len(pipe))[i] = pipe[m + i]
  BY <1>3, <1>4, Split
<1>7. QED
  BY <1>3, <1>6, Zenon

\* The message Send works on has at least one byte.
LEMMA SizePositive ==
  ASSUME sent \in Seq(Sizes), sent # <<>>
  PROVE  /\ msg_size \in Sizes /\ msg_size \in Nat \ {0}
         /\ Len(sent) \in Nat \ {0} /\ \A k \in 1 .. Len(sent) : sent[k] \in Nat \ {0}
<1>1. Len(sent) \in Nat \ {0}
  OBVIOUS
<1>2. \A k \in 1 .. Len(sent) : sent[k] \in Sizes
  BY ElementOfSeq
<1>3. msg_size \in Sizes
  BY <1>1, <1>2 DEF msg_size
<1>4. QED
  BY <1>1, <1>2, <1>3, SizeAssumption

\* The part that is written next: it is not empty, and it is no longer than what is
\* left of the message.
LEMMA PartSize ==
  ASSUME TypeInv, spc # "idle"
  PROVE  /\ real_size \in 1 .. MAX_MSG_SIZE
         /\ msg_offset + real_size <= msg_size
         /\ Fits => msg_offset + real_size = msg_size
         /\ ~Fits => real_size = MAX_MSG_SIZE /\ msg_offset + real_size < msg_size
<1>1. msg_size \in Nat \ {0} /\ msg_offset \in Nat /\ msg_offset < msg_size
  BY SizePositive DEF TypeInv, Types
<1>2. QED
  BY <1>1 DEF real_size, Fits

\* The cells Send writes.
LEMMA SentCells ==
  ASSUME TypeInv, spc # "idle"
  PROVE  /\ SendHeader \in Written /\ <<SendHeader>> \in Seq(Written)
         /\ Body \in Seq(Written) /\ Len(Body) = real_size
         /\ \A i \in 1 .. real_size : Body[i] = Byte(Len(sent), msg_offset + i)
<1>1. real_size \in Nat /\ msg_offset \in Nat /\ Len(sent) \in 0 .. MaxMessages
  BY PartSize DEF TypeInv, Types
<1>2. SendHeader \in Written
  BY <1>1 DEF SendHeader, Part, Last, Written, Cell
<1>3. \A i \in 1 .. real_size : Byte(Len(sent), msg_offset + i) \in Written
  BY <1>1 DEF Byte, Written, Cell
<1>4. Body \in [1 .. real_size -> Written]
  BY <1>3 DEF Body
<1>5. Body \in Seq(Written) /\ Len(Body) = real_size
  BY <1>1, <1>4
<1>6. <<SendHeader>> \in Seq(Written)
  BY <1>2
<1>7. \A i \in 1 .. real_size : Body[i] = Byte(Len(sent), msg_offset + i)
  BY DEF Body
<1>8. QED
  BY <1>2, <1>5, <1>6, <1>7

\* A read may be a sequence of cells of any type.
LEMMA WrittenCells == Written \subseteq Cell /\ Seq(Written) \subseteq Seq(Cell)
BY SeqMonotonic DEF Written

\* Whatever is read as a header states a part's size, or the last one's.
LEMMA HeaderTypes ==
  ASSUME pipe \in Seq(Written), pipe # <<>>, NEW h \in HeaderRead
  PROVE  h \in Cell /\ h.type \in {"part", "last"}
<1>1. Head(pipe) \in Written
  BY HeadTailProperties
<1>2. CASE Head(pipe).type = "byte"
  BY <1>2 DEF HeaderRead, Garbage, Part, Last, Cell
<1>3. CASE Head(pipe).type # "byte"
  BY <1>1, <1>3 DEF HeaderRead, Written, Cell
<1>4. QED
  BY <1>2, <1>3

\* What Receive has put together after a read.
LEMMA ExtendedType ==
  ASSUME TypeInv, NEW n \in Nat
  PROVE  Extended(n) \in Seq(Cell)
<1>1. Found(n) \in Seq(Cell)
  BY FoundFirst DEF TypeInv, Types
<1>2. Garbled \in Seq(Cell)
  BY DEF Garbled, Junk, Cell
<1>3. msg \o Found(n) \in Seq(Cell)
  BY <1>1, ConcatProperties DEF TypeInv, Types
<1>4. QED
  BY <1>2, <1>3 DEF Extended

\* A step of Send keeps the types.
LEMMA TypeSend ==
  ASSUME TypeInv, SendStep \/ \E size \in Sizes : CallSend(size) /\ UNCHANGED FromWorker
  PROVE  TypeInv'
<1> USE DEF sendVars, receiveVars
<1>1. pipe \in Seq(Cell) /\ Len(pipe) \in Nat /\ accepted \in Seq(Cell)
  BY DEF TypeInv, Types
<1>2. ASSUME NEW size \in Sizes, CallSend(size), UNCHANGED FromWorker
      PROVE  TypeInv'
  <2>1. /\ sent' \in Seq(Sizes) /\ Len(sent') = Len(sent) + 1 /\ Len(sent') \in Nat
        /\ sent' # <<>> /\ msg_size' = size
    <3>1. sent \in Seq(Sizes) /\ Len(sent) \in Nat /\ sent' = Append(sent, size)
      BY <1>2 DEF CallSend, TypeInv, Types
    <3>2. /\ sent' \in Seq(Sizes) /\ Len(sent') = Len(sent) + 1 /\ sent' # <<>>
          /\ sent'[Len(sent) + 1] = size
      BY <3>1, AppendProperties
    <3>3. msg_size' = size
      BY <3>2 DEF msg_size
    <3>4. QED
      BY <3>1, <3>2, <3>3
  <2>2. msg_offset' < msg_size' /\ msg_offset' \in Nat
    BY <1>2, <2>1 DEF CallSend
  <2>3. Len(sent') <= MaxMessages
    BY <1>2, <2>1 DEF CallSend, TypeInv, Types
  <2>4. accepted' \in Seq(Cell)
    BY <1>2 DEF CallSend
  <2>5. QED
    BY <1>2, <2>1, <2>2, <2>3, <2>4 DEF CallSend, TypeInv, Types
<1>3. CASE WriteHeader /\ UNCHANGED FromWorker
  <2>1. spc # "idle" /\ <<SendHeader>> \in Seq(Written) /\ Len(<<SendHeader>>) = 1
    BY <1>3, SentCells DEF WriteHeader
  <2>2. /\ pipe' \in Seq(Written) /\ pipe' \in Seq(Cell) /\ Len(pipe') <= Capacity
        /\ accepted' \in Seq(Cell)
    <3>1. pipe \o <<SendHeader>> \in Seq(Written) /\ Len(pipe \o <<SendHeader>>) = Len(pipe) + 1
      BY <2>1, ConcatProperties DEF TypeInv
    <3>2. accepted \o <<SendHeader>> \in Seq(Cell)
      BY <1>1, <2>1, WrittenCells, ConcatProperties
    <3>3. QED
      BY <1>3, <3>1, <3>2, WrittenCells DEF WriteHeader, Accept, Room
  <2>3. QED
    BY <1>3, <2>1, <2>2 DEF WriteHeader, TypeInv, Types, msg_size
<1>4. CASE HeaderLost /\ UNCHANGED FromWorker
  BY <1>4 DEF HeaderLost, WriteFails, TypeInv, Types, msg_size
<1>5. ASSUME spc # "idle", NextPart, UNCHANGED sent
      PROVE  /\ msg_offset' \in Nat /\ spc' \in {"idle", "header"}
             /\ results' \in Seq({"OK", "WRITE_ERR"})
             /\ spc' # "idle" => msg_offset' < msg_size'
  <2>1. msg_offset' \in Nat
    BY <1>5, PartSize DEF NextPart, TypeInv, Types
  <2>2. results' \in Seq({"OK", "WRITE_ERR"})
    <3>1. results \in Seq({"OK", "WRITE_ERR"})
      BY DEF TypeInv, Types
    <3>2. Append(results, "OK") \in Seq({"OK", "WRITE_ERR"})
      BY <3>1
    <3>3. results' = results \/ results' = Append(results, "OK")
      BY <1>5 DEF NextPart, Return
    <3>4. QED
      BY <3>1, <3>2, <3>3
  <2>3. QED
    BY <1>5, <2>1, <2>2 DEF NextPart, Return, msg_size
<1>6. CASE WriteBody /\ UNCHANGED FromWorker
  <2>1. spc # "idle" /\ Body \in Seq(Written) /\ Len(Body) = real_size
    BY <1>6, SentCells DEF WriteBody
  <2>2. /\ pipe' \in Seq(Written) /\ pipe' \in Seq(Cell) /\ Len(pipe') <= Capacity
        /\ accepted' \in Seq(Cell)
    <3>1. pipe \o Body \in Seq(Written) /\ Len(pipe \o Body) = Len(pipe) + real_size
      BY <2>1, ConcatProperties DEF TypeInv
    <3>2. accepted \o Body \in Seq(Cell)
      BY <1>1, <2>1, WrittenCells, ConcatProperties
    <3>3. QED
      BY <1>6, <3>1, <3>2, WrittenCells DEF WriteBody, Accept, Room
  <2>3. NextPart /\ UNCHANGED sent
    BY <1>6 DEF WriteBody
  <2>4. QED
    BY <1>5, <1>6, <2>1, <2>2, <2>3 DEF WriteBody, TypeInv, Types
<1>7. CASE BodyLost /\ UNCHANGED FromWorker
  <2>1. results' \in Seq({"OK", "WRITE_ERR"})
    BY <1>7 DEF BodyLost, Return, TypeInv, Types
  <2>2. QED
    BY <1>7, <2>1 DEF BodyLost, Return, WriteFails, TypeInv, Types
<1>8. CASE SigpipeKills /\ UNCHANGED FromWorker
  BY <1>8 DEF SigpipeKills, TypeInv, Types, msg_size
<1>9. QED
  BY <1>2, <1>3, <1>4, <1>6, <1>7, <1>8 DEF SendStep

\* So does a step of Receive.
LEMMA TypeReceive ==
  ASSUME TypeInv, ReceiveStep
  PROVE  TypeInv'
<1> USE DEF sendVars, receiveVars
<1>1. pipe \in Seq(Cell) /\ Len(pipe) \in Nat /\ msg \in Seq(Cell) /\ received \in Seq(Seq(Cell))
  BY DEF TypeInv, Types
<1>2. \A h \in Garbage : h \in Cell /\ h.type \in {"part", "last"}
  BY DEF Garbage, Part, Last, Cell
<1>3. ASSUME Read, header' \in HeaderRead, pipe' = Tail(pipe)
      PROVE  /\ header' \in Cell /\ header'.type \in {"part", "last"}
             /\ pipe' \in Seq(Written) /\ pipe' \in Seq(Cell) /\ Len(pipe') <= Capacity
  <2>1. Tail(pipe) \in Seq(Written) /\ Len(Tail(pipe)) = Len(pipe) - 1
    BY <1>3, HeadTailProperties DEF Read, TypeInv
  <2>2. header' \in Cell /\ header'.type \in {"part", "last"}
    BY <1>3, HeaderTypes DEF Read, TypeInv
  <2>3. Len(pipe) <= Capacity
    BY DEF TypeInv, Types
  <2>4. QED
    BY <1>1, <1>3, <2>1, <2>2, <2>3, WrittenCells
<1>4. CASE FirstHeader /\ UNCHANGED FromWorker
  <2>1. /\ header' \in Cell /\ header'.type \in {"part", "last"}
        /\ pipe' \in Seq(Written) /\ pipe' \in Seq(Cell) /\ Len(pipe') <= Capacity
    BY <1>1, <1>2, <1>3, <1>4 DEF FirstHeader, TypeInv, Types
  <2>2. msg' \in Seq(Cell) /\ rpc' \in {"part", "last"}
    BY <1>4, <2>1 DEF FirstHeader
  <2>3. QED
    BY <1>4, <2>1, <2>2 DEF FirstHeader, TypeInv, Types, msg_size
<1>5. CASE NextHeader /\ UNCHANGED FromWorker
  <2>1. /\ header' \in Cell /\ header'.type \in {"part", "last"}
        /\ pipe' \in Seq(Written) /\ pipe' \in Seq(Cell) /\ Len(pipe') <= Capacity
        /\ interrupts' \in 0 .. MaxInterrupts
    BY <1>1, <1>3, <1>5 DEF NextHeader, Interrupted, TypeInv, Types
  <2>2. rpc' \in {"part", "last"}
    BY <1>5, <2>1 DEF NextHeader
  <2>3. QED
    BY <1>5, <2>1, <2>2 DEF NextHeader, TypeInv, Types, msg_size
<1>6. ASSUME pipe' = SubSeq(pipe, Len(Found(header.n)) + 1, Len(pipe)), BodyRead(header.n)
      PROVE  /\ pipe' \in Seq(Written) /\ pipe' \in Seq(Cell) /\ Len(pipe') <= Capacity
             /\ interrupts' \in 0 .. MaxInterrupts /\ Extended(header.n) \in Seq(Cell)
  <2>1. header.n \in Nat
    BY DEF TypeInv, Types, Cell
  <2>2. pipe' \in Seq(Written) /\ Len(pipe') <= Len(pipe)
    <3>1. pipe \in Seq(Written)
      BY DEF TypeInv
    <3>2. /\ pipe' \in Seq(Written)
          /\ Len(pipe') = Len(pipe) - Len(Found(header.n)) /\ Len(Found(header.n)) \in Nat
      BY <1>6, <2>1, <3>1, FoundFirst
    <3>3. QED
      BY <1>1, <3>2
  <2>3. interrupts' \in 0 .. MaxInterrupts
    BY <1>6 DEF BodyRead, Interrupted, TypeInv, Types
  <2>4. Len(pipe) <= Capacity /\ Len(pipe') \in Nat
    BY <2>2 DEF TypeInv, Types
  <2>5. Len(pipe') <= Capacity
    BY <1>1, <2>2, <2>4
  <2>6. Extended(header.n) \in Seq(Cell)
    BY <2>1, ExtendedType
  <2>7. QED
    BY <2>2, <2>3, <2>5, <2>6, WrittenCells
<1>7. CASE ReadPart /\ UNCHANGED FromWorker
  BY <1>6, <1>7 DEF ReadPart, TypeInv, Types, msg_size
<1>8. CASE ReadLast /\ UNCHANGED FromWorker
  <2>1. /\ pipe' \in Seq(Written) /\ pipe' \in Seq(Cell) /\ Len(pipe') <= Capacity
        /\ interrupts' \in 0 .. MaxInterrupts /\ Extended(header.n) \in Seq(Cell)
    BY <1>6, <1>8 DEF ReadLast
  <2>2. received' \in Seq(Seq(Cell)) /\ msg' \in Seq(Cell)
    BY <1>1, <1>8, <2>1 DEF ReadLast
  <2>3. QED
    BY <1>8, <2>1, <2>2 DEF ReadLast, TypeInv, Types, msg_size
<1>9. QED
  BY <1>4, <1>5, <1>7, <1>8 DEF ReceiveStep

\* Every step keeps the types.
LEMMA TypeStep ==
  ASSUME TypeInv, [Next]_vars
  PROVE  TypeInv'
<1> USE DEF sendVars, receiveVars
<1>1. CASE SendStep \/ \E size \in Sizes : CallSend(size) /\ UNCHANGED FromWorker
  BY <1>1, TypeSend
<1>2. CASE ReceiveStep
  BY <1>2, TypeReceive
<1>3. ASSUME NEW p \in Mortal, Die(p), UNCHANGED FromWorker
      PROVE  TypeInv'
  BY <1>3 DEF Die, TypeInv, Types, msg_size
<1>4. CASE UNCHANGED vars
  BY <1>4 DEF vars, TypeInv, Types, msg_size
<1>5. QED
  BY <1>1, <1>2, <1>3, <1>4 DEF Next

\* A sequence keeps what holds of all its cells when cells of the same kind
\* are appended, and when its first cells are taken away.
LEMMA InsideAppended ==
  ASSUME Types, NEW cells \in Seq(Cell), SentFromInside, UNCHANGED sent,
         pipe' = pipe \o cells, \A i \in DOMAIN cells : Inside(cells[i])
  PROVE  SentFromInside'
<1>1. pipe \in Seq(Cell)
  BY DEF Types
<1>2. /\ Len(pipe') = Len(pipe) + Len(cells)
      /\ Len(pipe) \in Nat /\ Len(cells) \in Nat
      /\ DOMAIN pipe' = 1 .. Len(pipe')
      /\ DOMAIN pipe = 1 .. Len(pipe) /\ DOMAIN cells = 1 .. Len(cells)
      /\ \A i \in 1 .. Len(pipe') :
           pipe'[i] = IF i <= Len(pipe) THEN pipe[i] ELSE cells[i - Len(pipe)]
  BY <1>1, ConcatProperties
<1> SUFFICES ASSUME NEW i \in 1 .. Len(pipe')
             PROVE  Inside(pipe[i])'
  BY <1>2 DEF SentFromInside
<1>3. CASE i <= Len(pipe)
  BY <1>2, <1>3 DEF SentFromInside, Inside
<1>4. CASE i > Len(pipe)
  <2>1. i - Len(pipe) \in DOMAIN cells /\ pipe'[i] = cells[i - Len(pipe)]
    BY <1>2, <1>4
  <2>2. QED
    BY <2>1 DEF Inside
<1>5. QED
  BY <1>2, <1>3, <1>4

LEMMA InsideRemoved ==
  ASSUME Types, SentFromInside, UNCHANGED sent,
         NEW n \in Nat, n <= Len(pipe), pipe' = SubSeq(pipe, n + 1, Len(pipe))
  PROVE  SentFromInside'
<1>1. pipe \in Seq(Cell) /\ Len(pipe) \in Nat
  BY DEF Types
<1>2. /\ pipe' \in Seq(Cell) /\ Len(pipe') = Len(pipe) - n
      /\ \A i \in 1 .. Len(pipe) - n : pipe'[i] = pipe[n + i]
      /\ DOMAIN pipe' = 1 .. Len(pipe') /\ DOMAIN pipe = 1 .. Len(pipe)
  BY <1>1, Split
<1> SUFFICES ASSUME NEW i \in 1 .. Len(pipe')
             PROVE  Inside(pipe[i])'
  BY <1>2 DEF SentFromInside
<1>3. n + i \in DOMAIN pipe /\ pipe'[i] = pipe[n + i]
  BY <1>1, <1>2, SMT
<1>4. QED
  BY <1>3 DEF SentFromInside, Inside

\* Whatever is read, and whoever dies, Send writes from inside its message.
LEMMA InsideStep ==
  ASSUME TypeInv, SentFromInside, [Next]_vars
  PROVE  SentFromInside'
<1> USE DEF sendVars, receiveVars
<1>1. pipe \in Seq(Cell) /\ Len(pipe) \in Nat /\ sent \in Seq(Sizes) /\ Len(sent) \in Nat
  BY DEF TypeInv, Types
<1>2. ASSUME NEW size \in Sizes, CallSend(size)
      PROVE  SentFromInside'
  <2>1. sent' = Append(sent, size) /\ pipe' = pipe
    BY <1>2 DEF CallSend
  <2>2. \A k \in DOMAIN sent : k \in DOMAIN sent' /\ sent'[k] = sent[k]
    BY <1>1, <2>1
  <2>3. QED
    BY <2>1, <2>2 DEF SentFromInside, Inside
<1>3. CASE WriteHeader
  <2>1. /\ <<SendHeader>> \in Seq(Cell) /\ pipe' = pipe \o <<SendHeader>> /\ UNCHANGED sent
    BY <1>3, SentCells, WrittenCells DEF WriteHeader, Accept
  <2>2. Inside(SendHeader)
    BY <1>3, PartSize DEF WriteHeader, SendHeader, Part, Last, Inside
  <2>3. \A i \in DOMAIN <<SendHeader>> : Inside(<<SendHeader>>[i])
    BY <2>2
  <2>4. QED
    BY <2>1, <2>3, InsideAppended DEF TypeInv
<1>4. CASE WriteBody
  <2>1. /\ Body \in Seq(Cell) /\ pipe' = pipe \o Body /\ UNCHANGED sent
    BY <1>4, SentCells, WrittenCells DEF WriteBody, Accept
  <2>2. /\ real_size \in 1 .. MAX_MSG_SIZE /\ msg_offset \in Nat
        /\ msg_offset + real_size <= msg_size
        /\ msg_size \in Nat /\ Len(sent) \in DOMAIN sent
    BY <1>1, <1>4, PartSize, SizePositive DEF WriteBody, TypeInv, Types
  <2>3. \A i \in 1 .. real_size : Inside(Byte(Len(sent), msg_offset + i))
    BY <2>2 DEF Inside, Byte, msg_size
  <2>4. \A i \in DOMAIN Body : Inside(Body[i])
    BY <2>3 DEF Body
  <2>5. QED
    BY <2>1, <2>4, InsideAppended DEF TypeInv
<1>5. CASE Tail(pipe) = pipe' /\ pipe # <<>> /\ UNCHANGED sent
  <2>1. pipe' = SubSeq(pipe, 1 + 1, Len(pipe)) /\ 1 <= Len(pipe)
    BY <1>1, <1>5
  <2>2. QED
    BY <1>5, <2>1, InsideRemoved DEF TypeInv
<1>6. CASE pipe' = SubSeq(pipe, Len(Found(header.n)) + 1, Len(pipe)) /\ UNCHANGED sent
  <2>1. header.n \in Nat
    BY DEF TypeInv, Types, Cell
  <2>2. Len(Found(header.n)) \in Nat /\ Len(Found(header.n)) <= Len(pipe)
    BY <1>1, <2>1, FoundFirst
  <2>3. QED
    BY <1>6, <2>2, InsideRemoved DEF TypeInv
<1>7. CASE UNCHANGED <<pipe, sent>>
  BY <1>7 DEF SentFromInside, Inside
<1>8. ASSUME NEW p \in Mortal, Die(p)
      PROVE  SentFromInside'
  BY <1>7, <1>8 DEF Die, SentFromInside, Inside
<1>9. CASE SendStep
  BY <1>3, <1>4, <1>7, <1>9 DEF SendStep, HeaderLost, BodyLost, SigpipeKills
<1>10. CASE ReceiveStep
  BY <1>5, <1>6, <1>7, <1>10 DEF ReceiveStep, FirstHeader, NextHeader, ReadPart, ReadLast, Read
<1>11. QED
  BY <1>2, <1>7, <1>8, <1>9, <1>10 DEF Next, vars

\* In every state what is in the pipe are headers of parts that fit the buffer
\* and bytes of messages Send was called for: it never reads behind the end of
\* its message, whatever the sizes, the room in the pipe, the deaths and the
\* interrupted calls; and every other variable has its type.
THEOREM PipingTypes == Spec => []TypeOK
<1>1. Init => TypeInv /\ SentFromInside
  BY DEF Init, TypeInv, Types, Last, Cell, SentFromInside
<1>2. TypeInv /\ SentFromInside => TypeOK
  BY DEF TypeInv, TypeOK
<1>3. TypeInv /\ SentFromInside /\ [Next]_vars => (TypeInv /\ SentFromInside)'
  BY TypeStep, InsideStep
<1>4. QED
  BY <1>1, <1>2, <1>3, PTL DEF Spec

-----------------------------------------------------------------------------
(* How a message is laid out *)

\* Multiples of a part's size come in the order of their factors.
LEMMA Multiples ==
  ASSUME NEW a \in Int, NEW b \in Int, NEW w \in Nat
  PROVE  /\ a * w \in Int /\ (a + 1) * w = a * w + w /\ a * (w + 1) = a * w + a
         /\ a <= b => a * w <= b * w
<1>1. a * w \in Int /\ (a + 1) * w = a * w + w /\ a * (w + 1) = a * w + a
  OBVIOUS
<1>2. ASSUME a <= b PROVE a * w <= b * w
  <2>1. (b - a) * w >= 0
    BY <1>2
  <2>2. QED
    BY <2>1
<1>3. QED
  BY <1>1, <1>2

\* Cell i behind the first a blocks of w cells is in block a, at i.
LEMMA Blocks ==
  ASSUME NEW a \in Nat, NEW i \in Nat, NEW w \in Nat, i < w
  PROVE  (a * w + i) \div w = a /\ (a * w + i) % w = i
OBVIOUS

\* Whatever ends behind p + 1 parts, the last without its bytes, and is itself some
\* number of whole parts, or those and a header, has the bytes of part p too.
LEMMA LaterPart ==
  ASSUME NEW p \in Nat, NEW q \in Nat, NEW w \in Nat,
         NEW h \in {0, 1}, q * w + q + h > p * w + p + 1
  PROVE  p < q /\ q * w + q + h >= p * w + p + 1 + w
<1>1. p * w \in Nat /\ q * w \in Nat /\ (p + 1) * w = p * w + w
  BY Multiples
<1>2. q <= p => q * w <= p * w
  BY Multiples
<1>3. p < q
  BY <1>1, <1>2
<1>4. (p + 1) * w <= q * w
  BY <1>3, Multiples
<1>5. QED
  BY <1>1, <1>3, <1>4

\* How many whole parts there are before the end of n + 1 bytes.
LEMMA Quotient ==
  ASSUME NEW n \in Nat, NEW w \in Nat \ {0}
  PROVE  n \div w \in Nat /\ (n \div w) * w <= n /\ n < (n \div w) * w + w
OBVIOUS

\* The last part of a message has its last byte, and at most MAX_MSG_SIZE.
LEMMA LastPart ==
  ASSUME NEW size \in Nat \ {0}
  PROVE  /\ FullParts(size) \in Nat /\ FullParts(size) * MAX_MSG_SIZE \in Nat
         /\ FullParts(size) * MAX_MSG_SIZE < size
         /\ size <= FullParts(size) * MAX_MSG_SIZE + MAX_MSG_SIZE
         /\ FrameLength(size) \in Nat \ {0}
         /\ FrameLength(size) = size + FullParts(size) + 1
<1>1. size - 1 \in Nat
  OBVIOUS
<1>2. /\ FullParts(size) \in Nat /\ FullParts(size) * MAX_MSG_SIZE <= size - 1
      /\ size - 1 < FullParts(size) * MAX_MSG_SIZE + MAX_MSG_SIZE
  BY <1>1, Quotient DEF FullParts
<1>3. FullParts(size) * MAX_MSG_SIZE \in Nat
  BY <1>2
<1>4. QED
  BY <1>2, <1>3 DEF FrameLength

\* Part p begins within the message if p is no more than the number of full parts.
LEMMA PartsBefore ==
  ASSUME NEW size \in Nat \ {0}, NEW p \in Nat
  PROVE  /\ p * MAX_MSG_SIZE \in Nat /\ (p + 1) * MAX_MSG_SIZE = p * MAX_MSG_SIZE + MAX_MSG_SIZE
         /\ p <= FullParts(size) <=> p * MAX_MSG_SIZE < size
<1> DEFINE full == FullParts(size)
<1>1. /\ full \in Nat /\ full * MAX_MSG_SIZE \in Nat /\ full * MAX_MSG_SIZE < size
      /\ size <= full * MAX_MSG_SIZE + MAX_MSG_SIZE
  BY LastPart
<1> HIDE DEF full
<1>2. /\ p * MAX_MSG_SIZE \in Nat /\ (p + 1) * MAX_MSG_SIZE = p * MAX_MSG_SIZE + MAX_MSG_SIZE
      /\ (full + 1) * MAX_MSG_SIZE = full * MAX_MSG_SIZE + MAX_MSG_SIZE
  BY <1>1, Multiples
<1>3. p <= full => p * MAX_MSG_SIZE <= full * MAX_MSG_SIZE
  BY <1>1, Multiples
<1>4. full + 1 <= p => (full + 1) * MAX_MSG_SIZE <= p * MAX_MSG_SIZE
  BY <1>1, Multiples
<1>5. p <= full <=> p * MAX_MSG_SIZE < size
  BY <1>1, <1>2, <1>3, <1>4
<1>6. QED
  BY <1>2, <1>5 DEF full

\* The size a header states is that of its part.
LEMMA HeaderStates ==
  ASSUME NEW size \in Nat \ {0}, NEW p \in 0 .. FullParts(size)
  PROVE  LET n == HeaderOf(p, size).n IN
         /\ HeaderOf(p, size).type \in {"part", "last"}
         /\ HeaderOf(p, size).type = "last" <=> p = FullParts(size)
         /\ n \in 1 .. MAX_MSG_SIZE /\ p * MAX_MSG_SIZE \in Nat
         /\ p < FullParts(size) => n = MAX_MSG_SIZE /\ p * MAX_MSG_SIZE + n < size
         /\ p = FullParts(size) => p * MAX_MSG_SIZE + n = size
<1>1. /\ FullParts(size) \in Nat /\ FullParts(size) * MAX_MSG_SIZE \in Nat
      /\ FullParts(size) * MAX_MSG_SIZE < size
      /\ size <= FullParts(size) * MAX_MSG_SIZE + MAX_MSG_SIZE
  BY LastPart
<1>2. /\ p * MAX_MSG_SIZE \in Nat /\ (p + 1) * MAX_MSG_SIZE = p * MAX_MSG_SIZE + MAX_MSG_SIZE
      /\ p + 1 <= FullParts(size) <=> (p + 1) * MAX_MSG_SIZE < size
  BY <1>1, PartsBefore
<1>3. CASE p < FullParts(size)
  <2>1. HeaderOf(p, size) = Part(MAX_MSG_SIZE)
    BY <1>3 DEF HeaderOf
  <2>2. QED
    BY <1>1, <1>2, <1>3, <2>1 DEF Part
<1>4. CASE p = FullParts(size)
  <2>1. HeaderOf(p, size) = Last(size - FullParts(size) * MAX_MSG_SIZE)
    BY <1>1, <1>4 DEF HeaderOf
  <2>2. QED
    BY <1>1, <1>2, <1>4, <2>1 DEF Last
<1>5. QED
  BY <1>1, <1>3, <1>4

\* Part p of a message begins with its header, behind p parts and their headers,
\* and its bytes follow.
LEMMA FrameCells ==
  ASSUME NEW k, NEW size \in Nat \ {0}, NEW p \in 0 .. FullParts(size)
  PROVE  LET at == p * MAX_MSG_SIZE + p + 1 IN
         /\ at \in 1 .. FrameLength(size) /\ Frames(k, size)[at] = HeaderOf(p, size)
         /\ \A i \in 1 .. HeaderOf(p, size).n :
              /\ at + i \in 1 .. FrameLength(size)
              /\ Frames(k, size)[at + i] = Byte(k, p * MAX_MSG_SIZE + i)
<1> DEFINE at == p * MAX_MSG_SIZE + p + 1
           W == MAX_MSG_SIZE + 1
<1>1. /\ FullParts(size) \in Nat /\ FrameLength(size) = size + FullParts(size) + 1
      /\ p * MAX_MSG_SIZE \in Nat /\ p \in Nat /\ HeaderOf(p, size).n \in 1 .. MAX_MSG_SIZE
      /\ p * MAX_MSG_SIZE + HeaderOf(p, size).n <= size
  <2>1. /\ FullParts(size) \in Nat /\ FrameLength(size) = size + FullParts(size) + 1
    BY LastPart
  <2>2. /\ p * MAX_MSG_SIZE \in Nat /\ HeaderOf(p, size).n \in 1 .. MAX_MSG_SIZE
        /\ p < FullParts(size) => p * MAX_MSG_SIZE + HeaderOf(p, size).n < size
        /\ p = FullParts(size) => p * MAX_MSG_SIZE + HeaderOf(p, size).n = size
    BY HeaderStates
  <2>3. QED
    BY <2>1, <2>2
<1>2. /\ p * W = p * MAX_MSG_SIZE + p /\ p * W \in Nat
      /\ W \in Nat /\ 0 < W /\ 0 \in Nat
  BY <1>1, Multiples
<1>3. at = p * W + 0 + 1 /\ at \in 1 .. FrameLength(size)
  BY <1>1, <1>2
<1>4. \A i \in Nat : i < W => (p * W + i) \div W = p /\ (p * W + i) % W = i
  <2> HIDE DEF W
  <2> QED
    BY <1>1, <1>2, Blocks
<1>5. Frames(k, size)[at] = HeaderOf(p, size)
  <2>1. at - 1 = p * W + 0
    BY <1>2, <1>3
  <2>2. (p * W + 0) \div W = p /\ (p * W + 0) % W = 0
    BY <1>2, <1>4, Zenon
  <2>3. QED
    BY <1>3, <2>1, <2>2 DEF Frames
<1>6. ASSUME NEW i \in 1 .. HeaderOf(p, size).n
      PROVE  /\ at + i \in 1 .. FrameLength(size)
             /\ Frames(k, size)[at + i] = Byte(k, p * MAX_MSG_SIZE + i)
  <2>1. i \in Nat /\ i < W /\ i # 0
    BY <1>1
  <2>2. (p * W + i) \div W = p /\ (p * W + i) % W = i
    BY <1>4, <2>1, Zenon
  <2>3. at + i \in 1 .. FrameLength(size) /\ at + i - 1 = p * W + i
    BY <1>1, <1>2
  <2>4. QED
    BY <2>1, <2>2, <2>3 DEF Frames
<1>7. QED
  BY <1>3, <1>5, <1>6

\* Send writes its message as it should be laid out.
LEMMA PartAt ==
  ASSUME TypeInv, spc # "idle", NEW p \in 0 .. FullParts(msg_size),
         msg_offset = p * MAX_MSG_SIZE
  PROVE  /\ SendHeader = HeaderOf(p, msg_size) /\ real_size = HeaderOf(p, msg_size).n
         /\ Fits <=> p = FullParts(msg_size)
<1>1. msg_size \in Nat \ {0}
  BY SizePositive DEF TypeInv, Types
<1>2. /\ p \in Nat /\ FullParts(msg_size) \in Nat /\ p * MAX_MSG_SIZE \in Nat
      /\ FullParts(msg_size) * MAX_MSG_SIZE < msg_size
      /\ (p + 1) * MAX_MSG_SIZE = p * MAX_MSG_SIZE + MAX_MSG_SIZE
      /\ p + 1 <= FullParts(msg_size) <=> (p + 1) * MAX_MSG_SIZE < msg_size
  BY <1>1, LastPart, PartsBefore
<1>3. Fits <=> ~(p + 1 <= FullParts(msg_size))
  BY <1>1, <1>2 DEF Fits
<1>4. Fits <=> p = FullParts(msg_size)
  BY <1>2, <1>3
<1>5. CASE Fits
  BY <1>4, <1>5 DEF SendHeader, real_size, HeaderOf, Last
<1>6. CASE ~Fits
  BY <1>2, <1>4, <1>6 DEF SendHeader, real_size, HeaderOf, Part
<1>7. QED
  BY <1>4, <1>5, <1>6

-----------------------------------------------------------------------------
(* What OK means *)

\* Send has taken another message and is at its first header.
LEMMA SendCalled ==
  ASSUME TypeInv, SendInv, NEW size \in Sizes, CallSend(size), UNCHANGED FromWorker
  PROVE  SendInv'
<1>1. /\ sent' = Append(sent, size) /\ Len(sent') = Len(sent) + 1 /\ Len(sent) \in Nat
      /\ msg_size' = size /\ sent \in Seq(Sizes) /\ size \in Nat \ {0}
  BY AppendProperties DEF CallSend, TypeInv, Types, msg_size
<1>2. Len(results) = Len(sent) /\ results' = results /\ spc' = "header"
  BY DEF SendInv, CallSend
<1>3. 0 \in 0 .. FullParts(msg_size') /\ 0 = 0 * MAX_MSG_SIZE
  BY <1>1, LastPart
<1>4. msg_offset' = 0 /\ accepted' = <<>> /\ Len(<<>>) = 0 /\ DOMAIN <<>> = {}
  BY DEF CallSend
<1>5. QED
  <2>1. msg_offset' < msg_size'
    BY <1>1, <1>4
  <2>2. \E p \in 0 .. FullParts(msg_size') :
          /\ msg_offset' = p * MAX_MSG_SIZE
          /\ "receiver" \in alive' =>
               /\ Len(accepted') = msg_offset' + p + (IF spc' = "body" THEN 1 ELSE 0)
               /\ \A j \in DOMAIN accepted' :
                    accepted'[j] = Frames(Len(sent'), msg_size')[j]
    BY <1>2, <1>3, <1>4
  <2>3. Len(results') = IF spc' = "idle" THEN Len(sent') ELSE Len(sent') - 1
    BY <1>1, <1>2
  <2>4. LastOkAccepted'
    BY <1>1, <1>2 DEF LastOkAccepted
  <2>5. QED
    BY <2>1, <2>2, <2>3, <2>4 DEF SendInv

\* The header of a part has been written behind the parts before it.
LEMMA HeaderWritten ==
  ASSUME TypeInv, SendInv, WriteHeader, UNCHANGED FromWorker
  PROVE  SendInv'
<1>1. /\ spc = "header" /\ spc' = "body" /\ "receiver" \in alive
      /\ accepted' = accepted \o <<SendHeader>> /\ accepted \in Seq(Cell)
      /\ UNCHANGED <<alive, sent, msg_offset, results>>
  BY DEF WriteHeader, Accept, TypeInv, Types
<1>2. msg_size \in Nat \ {0} /\ UNCHANGED msg_size
  BY <1>1, SizePositive DEF TypeInv, Types, msg_size
<1>3. Len(results) = Len(sent) - 1 /\ Len(sent) \in Nat \ {0} /\ msg_offset < msg_size
  BY <1>1, SizePositive DEF SendInv, TypeInv, Types
<1>4. PICK p \in 0 .. FullParts(msg_size) :
        /\ msg_offset = p * MAX_MSG_SIZE
        /\ Len(accepted) = msg_offset + p
        /\ \A j \in DOMAIN accepted : accepted[j] = Frames(Len(sent), msg_size)[j]
  <2>1. \E p \in 0 .. FullParts(msg_size) :
          /\ msg_offset = p * MAX_MSG_SIZE
          /\ Len(accepted) = msg_offset + p + 0
          /\ \A j \in DOMAIN accepted : accepted[j] = Frames(Len(sent), msg_size)[j]
    BY <1>1 DEF SendInv
  <2>2. \A p \in 0 .. FullParts(msg_size) : msg_offset + p + 0 = msg_offset + p
    BY <1>2, LastPart DEF TypeInv, Types
  <2>3. QED
    BY <2>1, <2>2
<1>5. SendHeader \in Cell /\ SendHeader = HeaderOf(p, msg_size)
  BY <1>1, <1>4, SentCells, WrittenCells, PartAt
<1>6. Frames(Len(sent), msg_size)[msg_offset + p + 1] = HeaderOf(p, msg_size)
  BY <1>2, <1>4, FrameCells
<1>7. /\ Len(accepted') = msg_offset + p + 1
      /\ \A j \in DOMAIN accepted' : accepted'[j] = Frames(Len(sent), msg_size)[j]
  <2>1. /\ Len(accepted') = Len(accepted) + 1
        /\ \A j \in 1 .. Len(accepted) + 1 : accepted'[j] =
             IF j <= Len(accepted) THEN accepted[j] ELSE <<SendHeader>>[j - Len(accepted)]
        /\ DOMAIN accepted' = 1 .. Len(accepted) + 1 /\ DOMAIN accepted = 1 .. Len(accepted)
        /\ Len(accepted) \in Nat
    <3>1. <<SendHeader>> \in Seq(Cell) /\ Len(<<SendHeader>>) = 1
      BY <1>5
    <3>2. /\ accepted' \in Seq(Cell) /\ Len(accepted') = Len(accepted) + 1
          /\ \A j \in 1 .. Len(accepted) + 1 : accepted'[j] =
               IF j <= Len(accepted) THEN accepted[j] ELSE <<SendHeader>>[j - Len(accepted)]
      BY <1>1, <3>1, ConcatProperties
    <3>3. QED
      BY <1>1, <3>2, LenProperties
  <2>2. ASSUME NEW j \in DOMAIN accepted'
        PROVE  accepted'[j] = Frames(Len(sent), msg_size)[j]
    <3>1. CASE j <= Len(accepted)
      BY <1>4, <2>1, <3>1
    <3>2. CASE ~(j <= Len(accepted))
      <4>1. j = Len(accepted) + 1 /\ j - Len(accepted) = 1
        BY <2>1, <3>2
      <4>2. accepted'[j] = SendHeader
        BY <2>1, <3>2, <4>1
      <4>3. QED
        BY <1>4, <1>5, <1>6, <4>1, <4>2
    <3>3. QED
      BY <3>1, <3>2
  <2>3. QED
    BY <1>4, <2>1, <2>2
<1>8. LastOkAccepted'
  BY <1>1, <1>3 DEF LastOkAccepted
<1>9. QED
  BY <1>1, <1>2, <1>3, <1>4, <1>7, <1>8 DEF SendInv

\* The bytes of a part have been written behind its header: Send is at the next
\* header, or the pipe has taken the whole message.
LEMMA BodyWritten ==
  ASSUME TypeInv, SendInv, WriteBody, UNCHANGED FromWorker
  PROVE  SendInv'
<1>1. /\ spc = "body" /\ "receiver" \in alive
      /\ accepted' = accepted \o Body /\ accepted \in Seq(Cell)
      /\ NextPart /\ UNCHANGED <<alive, sent>>
  BY DEF WriteBody, Accept, TypeInv, Types
<1>2. msg_size \in Nat \ {0} /\ UNCHANGED msg_size
  BY <1>1, SizePositive DEF TypeInv, Types, msg_size
<1>3. /\ Len(results) = Len(sent) - 1 /\ Len(sent) \in Nat \ {0} /\ msg_offset < msg_size
      /\ results \in Seq({"OK", "WRITE_ERR"})
  BY <1>1, SizePositive DEF SendInv, TypeInv, Types
<1>4. PICK p \in 0 .. FullParts(msg_size) :
        /\ msg_offset = p * MAX_MSG_SIZE
        /\ Len(accepted) = msg_offset + p + 1
        /\ \A j \in DOMAIN accepted : accepted[j] = Frames(Len(sent), msg_size)[j]
  BY <1>1 DEF SendInv
<1> DEFINE n == HeaderOf(p, msg_size).n
<1>5. /\ n \in 1 .. MAX_MSG_SIZE /\ real_size = n
      /\ Fits <=> p = FullParts(msg_size)
      /\ p < FullParts(msg_size) => n = MAX_MSG_SIZE /\ msg_offset + n < msg_size
      /\ p = FullParts(msg_size) => msg_offset + n = msg_size
  BY <1>1, <1>2, <1>4, PartAt, HeaderStates
<1>6. \A i \in 1 .. n :
        Frames(Len(sent), msg_size)[Len(accepted) + i] = Byte(Len(sent), msg_offset + i)
  BY <1>2, <1>4, FrameCells
<1>7. /\ Len(accepted') = msg_offset + p + 1 + n
      /\ \A j \in DOMAIN accepted' : accepted'[j] = Frames(Len(sent), msg_size)[j]
      /\ accepted' \in Seq(Cell)
  <2>1. /\ Len(accepted') = Len(accepted) + n
        /\ \A j \in 1 .. Len(accepted) + n : accepted'[j] =
             IF j <= Len(accepted) THEN accepted[j] ELSE Body[j - Len(accepted)]
        /\ accepted' \in Seq(Cell)
    <3>1. Body \in Seq(Cell) /\ Len(Body) = n
      BY <1>1, <1>5, SentCells, WrittenCells
    <3>2. QED
      BY <1>1, <3>1, ConcatProperties
  <2>2. /\ DOMAIN accepted' = 1 .. Len(accepted) + n /\ DOMAIN accepted = 1 .. Len(accepted)
        /\ Len(accepted) \in Nat
    BY <1>1, <2>1, LenProperties
  <2>3. ASSUME NEW j \in DOMAIN accepted'
        PROVE  accepted'[j] = Frames(Len(sent), msg_size)[j]
    <3>1. CASE j <= Len(accepted)
      BY <1>4, <2>1, <2>2, <3>1
    <3>2. CASE ~(j <= Len(accepted))
      <4>1. j - Len(accepted) \in 1 .. n /\ Len(accepted) + (j - Len(accepted)) = j
        BY <1>5, <2>2, <3>2
      <4>2. accepted'[j] = Body[j - Len(accepted)]
        BY <2>1, <2>2, <3>2
      <4>3. Body[j - Len(accepted)] = Byte(Len(sent), msg_offset + (j - Len(accepted)))
        BY <1>1, <1>5, <4>1, SentCells
      <4>4. Frames(Len(sent), msg_size)[j] =
              Byte(Len(sent), msg_offset + (j - Len(accepted)))
        BY <1>6, <4>1
      <4>5. QED
        BY <4>2, <4>3, <4>4
    <3>3. QED
      BY <3>1, <3>2
  <2>4. QED
    BY <1>4, <2>1, <2>3
<1>8. p \in Nat /\ FullParts(msg_size) \in Nat /\ p <= FullParts(msg_size)
      /\ (p + 1) * MAX_MSG_SIZE = msg_offset + MAX_MSG_SIZE /\ msg_offset \in Nat
  BY <1>2, <1>4, LastPart, PartsBefore DEF TypeInv, Types
<1> HIDE DEF n
<1>9. CASE p < FullParts(msg_size)
  <2>1. /\ n = MAX_MSG_SIZE /\ msg_offset' = (p + 1) * MAX_MSG_SIZE
        /\ msg_offset' < msg_size' /\ p + 1 \in 0 .. FullParts(msg_size')
        /\ spc' = "header" /\ results' = results
    BY <1>1, <1>2, <1>5, <1>8, <1>9 DEF NextPart
  <2>2. Len(accepted') = msg_offset' + (p + 1) + 0
    BY <1>7, <1>8, <2>1
  <2>3. LastOkAccepted'
    BY <1>1, <1>3, <2>1 DEF LastOkAccepted
  <2>4. QED
    BY <1>1, <1>2, <1>3, <1>7, <2>1, <2>2, <2>3 DEF SendInv
<1>10. CASE p = FullParts(msg_size)
  <2>1. spc' = "idle" /\ results' = Append(results, "OK")
    BY <1>1, <1>2, <1>5, <1>10 DEF NextPart, Return
  <2>2. Len(results') = Len(sent)
    BY <1>3, <2>1
  <2>3. accepted' = Frames(Len(sent), msg_size)
    <3>1. /\ FrameLength(msg_size) = msg_size + p + 1 /\ FrameLength(msg_size) \in Nat
      BY <1>2, <1>10, LastPart
    <3>2. Len(accepted') = FrameLength(msg_size)
      <4>1. msg_offset \in Nat /\ n \in Nat /\ p \in Nat
        BY <1>5, <1>8
      <4>2. msg_size = msg_offset + n /\ Len(accepted') = msg_offset + p + 1 + n
        BY <1>5, <1>7, <1>10
      <4>3. QED
        BY <3>1, <4>1, <4>2
    <3>3. DOMAIN accepted' = 1 .. FrameLength(msg_size) /\
          accepted' = [j \in DOMAIN accepted' |-> accepted'[j]]
      BY <1>7, <3>2, LenProperties
    <3>4. /\ DOMAIN Frames(Len(sent), msg_size) = 1 .. FrameLength(msg_size)
          /\ Frames(Len(sent), msg_size) =
               [j \in DOMAIN Frames(Len(sent), msg_size) |-> Frames(Len(sent), msg_size)[j]]
      BY DEF Frames
    <3>5. QED
      BY <1>7, <3>3, <3>4
  <2>4. QED
    BY <1>1, <1>2, <2>1, <2>2, <2>3 DEF SendInv, LastOkAccepted
<1>11. QED
  BY <1>8, <1>9, <1>10

\* A write fails without an interrupt only because the receiver is dead.
LEMMA FailureMeansDeath ==
  ASSUME TypeInv, NEW n, WriteFails(n), interrupts = 0, interrupts' = 0
  PROVE  "receiver" \notin alive
BY DEF WriteFails

\* Every step keeps what Send is at, until a call is interrupted.
LEMMA SendInvStep ==
  ASSUME TypeInv, SendInv, interrupts = 0, interrupts' = 0, [Next]_vars
  PROVE  SendInv'
<1> USE DEF sendVars, receiveVars
<1>1. CASE HeaderLost /\ UNCHANGED FromWorker
  <2>1. "receiver" \notin alive /\ spc = "header" /\ spc' = "body"
        /\ UNCHANGED <<alive, sent, msg_offset, results, accepted, msg_size>>
    BY <1>1, FailureMeansDeath DEF HeaderLost, msg_size
  <2>2. Len(sent) \in Nat \ {0}
    BY <2>1, SizePositive DEF TypeInv, Types
  <2>3. QED
    BY <2>1, <2>2 DEF SendInv, LastOkAccepted
<1>2. CASE BodyLost /\ UNCHANGED FromWorker
  <2>1. /\ spc = "body" /\ spc' = "idle" /\ results' = Append(results, "WRITE_ERR")
        /\ UNCHANGED sent /\ Len(results) = Len(sent) - 1
        /\ results \in Seq({"OK", "WRITE_ERR"})
    BY <1>2 DEF BodyLost, Return, SendInv, TypeInv, Types
  <2>2. Len(sent) \in Nat \ {0}
    BY <2>1, SizePositive DEF TypeInv, Types
  <2>3. Len(results') = Len(sent') /\ results'[Len(results')] = "WRITE_ERR"
    BY <2>1, <2>2
  <2>4. QED
    BY <2>1, <2>3 DEF SendInv, LastOkAccepted
<1>3. ASSUME UNCHANGED sendVars, "receiver" \in alive' => "receiver" \in alive
      PROVE  SendInv'
  BY <1>3 DEF SendInv, LastOkAccepted, msg_size
<1>4. CASE SigpipeKills /\ UNCHANGED FromWorker
  BY <1>3, <1>4 DEF SigpipeKills
<1>5. CASE ReceiveStep
  BY <1>3, <1>5 DEF ReceiveStep, FirstHeader, NextHeader, ReadPart, ReadLast
<1>6. ASSUME NEW p \in Mortal, Die(p), UNCHANGED FromWorker
      PROVE  SendInv'
  BY <1>3, <1>6 DEF Die
<1>7. CASE UNCHANGED vars
  BY <1>3, <1>7 DEF vars
<1>8. QED
  BY <1>1, <1>2, <1>4, <1>5, <1>6, <1>7, SendCalled, HeaderWritten, BodyWritten
     DEF Next, SendStep

\* As long as no call was interrupted, Send returns OK only when the pipe has taken
\* the whole message, each part behind its header: a receiver that dies at any point
\* of it is noticed, although the write of a header is never seen to fail.
THEOREM OkWasAccepted == Spec => []OkMeansAccepted
<1> DEFINE Inv == TypeInv /\ (interrupts = 0 => SendInv)
<1>1. Init => Inv
  <2>1. Init => TypeInv
    BY DEF Init, TypeInv, Types, Last, Cell
  <2>2. Init => SendInv
    BY DEF Init, SendInv, LastOkAccepted
  <2>3. QED
    BY <2>1, <2>2
<1>2. Inv /\ [Next]_vars => Inv'
  <2> SUFFICES ASSUME TypeInv, interrupts = 0 => SendInv, [Next]_vars
               PROVE  Inv'
    OBVIOUS
  <2>1. TypeInv'
    BY TypeStep
  <2>2. interrupts' = 0 => interrupts = 0
    BY DEF Next, SendStep, ReceiveStep, CallSend, WriteHeader, HeaderLost, WriteBody,
       BodyLost, WriteFails, SigpipeKills, FirstHeader, NextHeader, ReadPart, ReadLast,
       BodyRead, Interrupted, Die, vars, TypeInv, Types
  <2>3. QED
    BY <2>1, <2>2, SendInvStep
<1>3. Inv => OkMeansAccepted
  BY DEF SendInv, OkMeansAccepted
<1>4. QED
  BY <1>1, <1>2, <1>3, PTL DEF Spec

-----------------------------------------------------------------------------
(* Where the messages are in the pipe *)

\* The pipe ends behind every message Send has returned for, and within the one it
\* works on.
LEMMA PipeEnd ==
  ASSUME TypeInv, SendInv, "receiver" \in alive,
         NEW start \in [1 .. MaxMessages + 1 -> Int], InPipe(start)
  PROVE  /\ Len(sent) \in 0 .. MaxMessages /\ Len(results) \in 0 .. Len(sent)
         /\ \A k \in 1 .. Len(sent) :
              /\ sent[k] \in Nat \ {0} /\ start[k] \in Int /\ start[k + 1] \in Int
              /\ start[k + 1] = start[k] + FrameLength(sent[k])
         /\ \A k \in 1 .. Len(results) : start[k + 1] <= Len(pipe)
         /\ start[Len(sent) + 1] \in Int
         /\ spc = "idle" => Len(pipe) = start[Len(sent) + 1] /\ Len(results) = Len(sent)
         /\ spc # "idle" => Len(pipe) < start[Len(sent) + 1] /\ Len(results) = Len(sent) - 1
<1>1. Len(sent) \in 0 .. MaxMessages /\ sent \in Seq(Sizes) /\ accepted \in Seq(Cell)
  BY DEF TypeInv, Types
<1>2. \A k \in 1 .. Len(sent) : sent[k] \in Nat \ {0}
  BY <1>1, SizePositive
<1>3. \A k \in 1 .. Len(sent) + 1 : start[k] \in Int
  BY <1>1
<1>4. \A k \in 1 .. Len(sent) :
        /\ start[k + 1] = start[k] + FrameLength(sent[k])
        /\ \A l \in k + 1 .. Len(sent) + 1 : start[k + 1] <= start[l]
  BY DEF InPipe
<1>5. CASE spc = "idle"
  <2>1. Len(results) = Len(sent) /\ Len(pipe) = start[Len(sent) + 1]
    BY <1>5 DEF SendInv, InPipe
  <2>2. \A k \in 1 .. Len(results) : start[k + 1] <= Len(pipe)
    BY <1>1, <1>4, <2>1
  <2>3. QED
    BY <1>1, <1>2, <1>3, <1>4, <1>5, <2>1, <2>2
<1>6. CASE spc # "idle"
  <2>1. /\ Len(results) = Len(sent) - 1 /\ Len(sent) # 0
        /\ Len(pipe) = start[Len(sent)] + Len(accepted)
    BY <1>1, <1>6, SizePositive DEF SendInv, InPipe, TypeInv
  <2>2. PICK p \in 0 .. FullParts(msg_size) :
          /\ msg_offset = p * MAX_MSG_SIZE
          /\ Len(accepted) = msg_offset + p + (IF spc = "body" THEN 1 ELSE 0)
    BY <1>6 DEF SendInv
  <2>3. /\ msg_size = sent[Len(sent)] /\ msg_size \in Nat \ {0}
        /\ msg_offset \in Nat /\ msg_offset < msg_size
    <3>1. msg_size = sent[Len(sent)] /\ Len(sent) \in 1 .. Len(sent)
      BY <1>1, <2>1 DEF msg_size
    <3>2. msg_offset \in Nat /\ msg_offset < msg_size
      BY <1>6 DEF TypeInv, Types
    <3>3. QED
      BY <1>2, <3>1, <3>2
  <2>4. /\ FullParts(msg_size) \in Nat /\ p \in Nat /\ p <= FullParts(msg_size)
        /\ FrameLength(msg_size) = msg_size + FullParts(msg_size) + 1
    <3>1. /\ FullParts(msg_size) \in Nat
          /\ FrameLength(msg_size) = msg_size + FullParts(msg_size) + 1
      BY <2>3, LastPart
    <3>2. QED
      BY <3>1
  <2>5. Len(accepted) \in Nat /\ Len(accepted) < FrameLength(msg_size)
    BY <2>2, <2>3, <2>4
  <2>6. \A k \in 1 .. Len(results) : start[k + 1] <= Len(pipe)
    <3>1. ASSUME NEW k \in 1 .. Len(results) PROVE start[k + 1] <= start[Len(sent)]
      <4>1. k \in 1 .. Len(sent) /\ Len(sent) \in k + 1 .. Len(sent) + 1
        BY <1>1, <2>1
      <4>2. QED
        BY <1>4, <4>1
    <3>2. QED
      BY <1>1, <1>3, <2>1, <2>5, <3>1
  <2>7. Len(pipe) < start[Len(sent) + 1]
    <3>1. /\ start[Len(sent) + 1] = start[Len(sent)] + FrameLength(msg_size)
          /\ start[Len(sent)] \in Int /\ FrameLength(msg_size) \in Nat
      <4>1. Len(sent) \in 1 .. Len(sent)
        BY <1>1, <2>1
      <4>2. start[Len(sent) + 1] = start[Len(sent)] + FrameLength(sent[Len(sent)])
        BY <1>4, <4>1
      <4>3. FrameLength(msg_size) \in Nat
        BY <2>3, <2>4
      <4>4. QED
        BY <1>1, <1>3, <2>3, <4>1, <4>2, <4>3
    <3>2. QED
      BY <2>1, <2>5, <3>1
  <2>8. QED
    BY <1>1, <1>2, <1>3, <1>4, <1>6, <2>1, <2>6, <2>7
<1>7. QED
  BY <1>5, <1>6

\* Receive never returns more messages than Send has returned for.
LEMMA NotAhead ==
  ASSUME TypeInv, SendInv, "receiver" \in alive,
         NEW start \in [1 .. MaxMessages + 1 -> Int], InPipe(start), InStep(start)
  PROVE  /\ Len(received) \in Nat /\ Len(received) <= Len(results)
         /\ rpc # "idle" \/ pipe # <<>> => Len(received) < Len(sent)
<1>1. Len(received) \in Nat /\ Len(pipe) \in Nat /\ pipe \in Seq(Cell)
  BY DEF TypeInv, Types
<1>2. /\ Len(sent) \in 0 .. MaxMessages /\ Len(results) \in 0 .. Len(sent)
      /\ spc = "idle" => Len(pipe) = start[Len(sent) + 1] /\ Len(results) = Len(sent)
      /\ spc # "idle" => Len(pipe) < start[Len(sent) + 1] /\ Len(results) = Len(sent) - 1
  BY PipeEnd
<1>3. CASE rpc # "idle"
  <2>1. Len(received) < Len(sent)
    BY <1>3 DEF InStep
  <2>2. QED
    BY <1>1, <1>2, <2>1
<1>4. CASE rpc = "idle"
  <2>1. Len(received) <= Len(sent) /\ start[Len(received) + 1] = 0
    BY <1>4 DEF InStep
  <2>2. Len(received) = Len(sent) => Len(pipe) = 0 /\ spc = "idle"
    BY <1>1, <1>2, <2>1
  <2>3. pipe # <<>> => Len(pipe) # 0
    BY <1>1
  <2>4. QED
    BY <1>1, <1>2, <1>4, <2>1, <2>2, <2>3
<1>5. QED
  BY <1>3, <1>4

\* Where Receive is: at part p of message k, either before its header or behind it.
\* Between two messages it is before the first header of the next one.
Before(start, k, p) == start[k] + p * MAX_MSG_SIZE + p = 0
Behind(start, k, p) == start[k] + p * MAX_MSG_SIZE + p + 1 = 0

\* The step Receive is in, with part p of message k made explicit.
LEMMA AtPart ==
  ASSUME TypeInv, SendInv, "receiver" \in alive,
         NEW start \in [1 .. MaxMessages + 1 -> Int], InPipe(start), InStep(start),
         rpc # "idle" \/ pipe # <<>>
  PROVE  LET k == Len(received) + 1 IN
         /\ k \in 1 .. Len(sent)
         /\ \E p \in 0 .. FullParts(sent[k]) :
              /\ rpc = "idle" => p = 0 /\ Before(start, k, p)
              /\ rpc # "idle" => msg = Payload(k, p * MAX_MSG_SIZE)
              /\ rpc = "header" => Before(start, k, p)
              /\ rpc \in {"part", "last"} =>
                   /\ Behind(start, k, p)
                   /\ header = HeaderOf(p, sent[k]) /\ rpc = header.type
<1> DEFINE k == Len(received) + 1
<1>1. k \in 1 .. Len(sent) /\ k \in Nat
  <2>1. Len(sent) \in 0 .. MaxMessages /\ Len(received) \in Nat /\ Len(received) < Len(sent)
    BY PipeEnd, NotAhead
  <2>2. QED
    BY <2>1
<1>2. sent[k] \in Nat \ {0} /\ start[k] \in Int
  BY <1>1, PipeEnd
<1>3. FullParts(sent[k]) \in Nat
  BY <1>2, LastPart
<1>4. \A p \in 0 .. FullParts(sent[k]) :
        /\ p \in Nat /\ p * MAX_MSG_SIZE \in Nat
        /\ p * (MAX_MSG_SIZE + 1) = p * MAX_MSG_SIZE + p
  BY <1>3, Multiples
<1> HIDE DEF k
<1>5. CASE rpc = "idle"
  <2>1. start[k] = 0
    BY <1>5 DEF InStep, k
  <2>2. 0 * MAX_MSG_SIZE = 0 /\ 0 \in 0 .. FullParts(sent[k])
    BY <1>3
  <2>3. Before(start, k, 0)
    BY <2>1, <2>2 DEF Before
  <2>4. QED
    BY <1>1, <1>5, <2>2, <2>3 DEF k
<1>6. CASE rpc # "idle"
  <2>1. PICK p \in 0 .. FullParts(sent[k]) : ReceivingAt(start, k, p)
    BY <1>6 DEF InStep, k
  <2>2. msg = Payload(k, p * MAX_MSG_SIZE)
    BY <2>1 DEF ReceivingAt
  <2>3. CASE rpc = "header"
    <3>1. start[k] + p * (MAX_MSG_SIZE + 1) = 0
      BY <2>1, <2>3 DEF ReceivingAt
    <3>2. Before(start, k, p)
      BY <1>2, <1>4, <3>1 DEF Before
    <3>3. QED
      BY <1>1, <2>2, <2>3, <3>2 DEF k
  <2>4. CASE rpc # "header"
    <3>1. /\ start[k] + p * (MAX_MSG_SIZE + 1) + 1 = 0
          /\ header = HeaderOf(p, sent[k]) /\ rpc = header.type
      BY <2>1, <2>4 DEF ReceivingAt
    <3>2. Behind(start, k, p)
      BY <1>2, <1>4, <3>1 DEF Behind
    <3>3. QED
      BY <1>1, <1>6, <2>2, <2>4, <3>1, <3>2 DEF k
  <2>5. QED
    BY <2>3, <2>4
<1>7. QED
  BY <1>5, <1>6

\* What Receive takes for the header of a part is the header of that part.
LEMMA HeaderNext ==
  ASSUME TypeInv, SendInv, "receiver" \in alive,
         NEW start \in [1 .. MaxMessages + 1 -> Int], InPipe(start), InStep(start),
         rpc = "idle" \/ rpc = "header", pipe # <<>>
  PROVE  LET k == Len(received) + 1 IN
         /\ k \in 1 .. Len(sent)
         /\ \E p \in 0 .. FullParts(sent[k]) :
              /\ rpc = "idle" => p = 0
              /\ rpc = "header" => msg = Payload(k, p * MAX_MSG_SIZE)
              /\ Before(start, k, p)
              /\ Head(pipe) = HeaderOf(p, sent[k]) /\ Head(pipe).type # "byte"
<1> DEFINE k == Len(received) + 1
<1>1. k \in 1 .. Len(sent) /\ sent[k] \in Nat \ {0} /\ start[k] \in Int
  BY AtPart, PipeEnd
<1>2. PICK p \in 0 .. FullParts(sent[k]) :
        /\ rpc = "idle" => p = 0 /\ Before(start, k, p)
        /\ rpc # "idle" => msg = Payload(k, p * MAX_MSG_SIZE)
        /\ rpc = "header" => Before(start, k, p)
  BY AtPart
<1> DEFINE o == p * MAX_MSG_SIZE + p + 1
<1>3. o \in 1 .. FrameLength(sent[k]) /\ Frames(k, sent[k])[o] = HeaderOf(p, sent[k])
  BY <1>1, FrameCells
<1>4. p * MAX_MSG_SIZE \in Nat /\ p \in Nat
  BY <1>1, HeaderStates, LastPart
<1>5. start[k] + o = 1
  BY <1>1, <1>2, <1>4 DEF Before
<1>6. pipe \in Seq(Cell) /\ 1 \in DOMAIN pipe /\ Head(pipe) = pipe[1]
  BY DEF TypeInv, Types
<1>7. pipe[start[k] + o] = Frames(k, sent[k])[o]
  <2> HIDE DEF o, k
  <2> QED
    BY <1>1, <1>3, <1>5, <1>6 DEF InPipe
<1>8. Head(pipe) = HeaderOf(p, sent[k]) /\ Head(pipe).type # "byte"
  <2>1. HeaderOf(p, sent[k]).type \in {"part", "last"}
    BY <1>1, HeaderStates
  <2> HIDE DEF o, k
  <2>2. Head(pipe) = HeaderOf(p, sent[k])
    BY <1>3, <1>5, <1>6, <1>7
  <2>3. QED
    BY <2>1, <2>2
<1>9. QED
  BY <1>1, <1>2, <1>8

\* When nothing is left in the pipe, the message Receive is at is none that Send has
\* returned for.
LEMMA NothingLeft ==
  ASSUME TypeInv, SendInv, "receiver" \in alive,
         NEW start \in [1 .. MaxMessages + 1 -> Int], InPipe(start), InStep(start),
         pipe = <<>>
  PROVE  Len(results) <= Len(received)
<1> DEFINE k == Len(received) + 1
<1>1. /\ Len(received) \in Nat /\ Len(sent) \in 0 .. MaxMessages /\ Len(pipe) = 0
      /\ Len(results) \in 0 .. Len(sent)
  BY PipeEnd DEF TypeInv, Types
<1> SUFFICES ASSUME Len(received) < Len(results) PROVE FALSE
  BY <1>1
<1>2. k \in 1 .. Len(results) /\ k \in 1 .. Len(sent)
  BY <1>1
<1>3. /\ start[k + 1] <= 0 /\ start[k] \in Int /\ sent[k] \in Nat \ {0}
      /\ start[k + 1] = start[k] + FrameLength(sent[k])
  <2>1. /\ \A j \in 1 .. Len(sent) :
             /\ sent[j] \in Nat \ {0} /\ start[j] \in Int
             /\ start[j + 1] = start[j] + FrameLength(sent[j])
        /\ \A j \in 1 .. Len(results) : start[j + 1] <= Len(pipe)
    BY PipeEnd
  <2> HIDE DEF k
  <2>2. QED
    BY <1>1, <1>2, <2>1
<1>4. FrameLength(sent[k]) \in Nat \ {0}
  BY <1>3, LastPart
<1>5. CASE rpc = "idle"
  BY <1>3, <1>4, <1>5 DEF InStep
<1>6. CASE rpc # "idle"
  <2>1. PICK p \in 0 .. FullParts(sent[k]) :
          /\ rpc = "header" => Before(start, k, p)
          /\ rpc \in {"part", "last"} => Behind(start, k, p)
    BY <1>6, AtPart
  <2>2. /\ p * MAX_MSG_SIZE + p + 1 \in 1 .. FrameLength(sent[k])
        /\ p * MAX_MSG_SIZE + p + 1 + 1 \in 1 .. FrameLength(sent[k])
    <3>1. 1 \in 1 .. HeaderOf(p, sent[k]).n
      BY <1>3, HeaderStates
    <3>2. QED
      BY <1>3, <3>1, FrameCells
  <2>3. rpc \in {"header", "part", "last"}
    BY <1>6 DEF TypeInv, Types
  <2>4. p * MAX_MSG_SIZE \in Nat /\ p \in Nat
    BY <1>3, HeaderStates, LastPart
  <2>5. QED
    BY <1>3, <1>4, <2>1, <2>2, <2>3, <2>4 DEF Before, Behind
<1>7. QED
  BY <1>5, <1>6

\* The bytes of a part are in the pipe all or not at all.
LEMMA BodyWhole ==
  ASSUME TypeInv, SendInv, "receiver" \in alive,
         NEW start \in [1 .. MaxMessages + 1 -> Int], InPipe(start), InStep(start),
         rpc \in {"part", "last"}, pipe # <<>>
  PROVE  header.n <= Len(pipe)
<1> DEFINE k == Len(received) + 1
<1>1. /\ k \in 1 .. Len(sent) /\ sent[k] \in Nat \ {0} /\ start[k] \in Int
      /\ start[k + 1] = start[k] + FrameLength(sent[k])
      /\ Len(sent) \in 0 .. MaxMessages
  BY AtPart, PipeEnd
<1>2. PICK p \in 0 .. FullParts(sent[k]) :
        Behind(start, k, p) /\ header = HeaderOf(p, sent[k])
  BY AtPart
<1> DEFINE n == HeaderOf(p, sent[k]).n
<1>3. /\ n \in 1 .. MAX_MSG_SIZE /\ p * MAX_MSG_SIZE \in Nat
      /\ p < FullParts(sent[k]) => n = MAX_MSG_SIZE
      /\ FullParts(sent[k]) \in Nat /\ p \in Nat /\ p <= FullParts(sent[k])
      /\ FrameLength(sent[k]) \in Nat
  <2>1. /\ n \in 1 .. MAX_MSG_SIZE /\ p * MAX_MSG_SIZE \in Nat
        /\ p < FullParts(sent[k]) => n = MAX_MSG_SIZE
    BY <1>1, HeaderStates
  <2>2. FullParts(sent[k]) \in Nat /\ FrameLength(sent[k]) \in Nat
    BY <1>1, LastPart
  <2>3. p \in Nat /\ p <= FullParts(sent[k])
    BY <2>2
  <2>4. QED
    BY <2>1, <2>2, <2>3
<1>4. start[k + 1] >= n
  <2>1. p * MAX_MSG_SIZE + p + 1 + n <= FrameLength(sent[k])
    <3>1. n \in 1 .. n
      BY <1>3
    <3>2. p * MAX_MSG_SIZE + p + 1 + n \in 1 .. FrameLength(sent[k])
      BY <1>1, <3>1, FrameCells
    <3>3. QED
      BY <1>3, <3>2
  <2>2. start[k] + p * MAX_MSG_SIZE + p + 1 = 0
    BY <1>2 DEF Behind
  <2>3. PICK a \in Nat : a = p * MAX_MSG_SIZE
    BY <1>3
  <2>4. /\ start[k] + a + p + 1 = 0 /\ a + p + 1 + n <= FrameLength(sent[k])
        /\ n \in Nat /\ p \in Nat /\ FrameLength(sent[k]) \in Nat
    BY <1>3, <2>1, <2>2, <2>3
  <2> HIDE SizeAssumption, ProcessAssumption, LimitAssumption DEF n, k
  <2>5. QED
    BY <1>1, <2>4
<1>5. CASE k \in 1 .. Len(results)
  <2>1. start[k + 1] <= Len(pipe) /\ start[k + 1] \in Int
    BY <1>1, <1>5, PipeEnd
  <2>2. header.n = n /\ n \in Nat
    BY <1>2, <1>3
  <2>3. Len(pipe) \in Nat
    BY DEF TypeInv, Types
  <2> HIDE SizeAssumption, ProcessAssumption, LimitAssumption DEF n, k
  <2>4. n <= Len(pipe)
    BY <1>4, <2>1, <2>2, <2>3
  <2>5. QED
    BY <2>2, <2>4
<1>6. CASE k \notin 1 .. Len(results)
  <2>1. spc # "idle" /\ k = Len(sent)
    BY <1>1, <1>6, PipeEnd
  <2>2. Len(pipe) = start[k] + Len(accepted) /\ msg_size = sent[k]
    BY <2>1 DEF InPipe, msg_size
  <2>3. PICK q \in 0 .. FullParts(sent[k]) :
          /\ msg_offset = q * MAX_MSG_SIZE
          /\ Len(accepted) = msg_offset + q + (IF spc = "body" THEN 1 ELSE 0)
    BY <2>1, <2>2 DEF SendInv
  <2> DEFINE h == IF spc = "body" THEN 1 ELSE 0
  <2> HIDE DEF k, n
  <2>4. q \in Nat /\ q <= FullParts(sent[k]) /\ h \in {0, 1} /\ q * MAX_MSG_SIZE \in Nat
    BY <1>3, <2>3 DEF TypeInv, Types
  <2>5. Len(pipe) = start[k] + (q * MAX_MSG_SIZE + q + h)
    BY <2>2, <2>3
  <2>6. start[k] = 0 - (p * MAX_MSG_SIZE + p + 1)
    <3>1. start[k] + p * MAX_MSG_SIZE + p + 1 = 0
      BY <1>2 DEF Behind
    <3>2. start[k] \in Int /\ p * MAX_MSG_SIZE \in Int /\ p \in Int
      BY <1>1, <1>3
    <3>3. \A a, b, c \in Int : a + b + c + 1 = 0 => a = 0 - (b + c + 1)
      OBVIOUS
    <3>4. QED
      BY <3>1, <3>2, <3>3, Zenon
  <2>7. Len(pipe) \in Nat \ {0}
    BY DEF TypeInv, Types
  <2> HIDE DEF h
  <2>8. q * MAX_MSG_SIZE + q + h > p * MAX_MSG_SIZE + p + 1
    BY <1>3, <2>4, <2>5, <2>6, <2>7
  <2>9. p < q /\ q * MAX_MSG_SIZE + q + h >= p * MAX_MSG_SIZE + p + 1 + MAX_MSG_SIZE
    BY <1>3, <2>4, <2>8, LaterPart
  <2>10. n = MAX_MSG_SIZE
    BY <1>3, <2>4, <2>9
  <2>11. Len(pipe) >= MAX_MSG_SIZE
    BY <1>3, <2>4, <2>5, <2>6, <2>9
  <2>12. QED
    BY <1>2, <2>10, <2>11 DEF n
<1>7. QED
  BY <1>5, <1>6

\* What is left when n cells have been read is where it was, n cells nearer.
Nearer(start, n) == [k \in 1 .. MaxMessages + 1 |-> start[k] - n]

LEMMA Shifted ==
  ASSUME TypeInv, NEW start \in [1 .. MaxMessages + 1 -> Int], InPipe(start),
         UNCHANGED sendVars, NEW n \in 0 .. Len(pipe),
         pipe' = SubSeq(pipe, n + 1, Len(pipe))
  PROVE  /\ Nearer(start, n) \in [1 .. MaxMessages + 1 -> Int]
         /\ InPipe(Nearer(start, n))'
<1> USE DEF sendVars
<1> DEFINE new == Nearer(start, n)
<1>1. /\ pipe \in Seq(Cell) /\ Len(pipe) \in Nat /\ n \in Nat /\ n <= Len(pipe)
      /\ Len(sent) \in 0 .. MaxMessages /\ sent \in Seq(Sizes) /\ accepted \in Seq(Cell)
  BY DEF TypeInv, Types
<1>2. /\ pipe' \in Seq(Cell) /\ Len(pipe') = Len(pipe) - n
      /\ \A i \in 1 .. Len(pipe) - n : pipe'[i] = pipe[n + i]
      /\ DOMAIN pipe' = 1 .. Len(pipe) - n /\ DOMAIN pipe = 1 .. Len(pipe)
  <2>1. /\ pipe' \in Seq(Cell) /\ Len(pipe') = Len(pipe) - n
        /\ \A i \in 1 .. Len(pipe) - n : pipe'[i] = pipe[n + i]
    BY <1>1, Split
  <2>2. QED
    BY <1>1, <2>1, LenProperties
<1>3. \A k \in 1 .. MaxMessages + 1 : start[k] \in Int /\ new[k] = start[k] - n
  BY DEF Nearer
<1>4. new \in [1 .. MaxMessages + 1 -> Int]
  BY <1>1, <1>3 DEF Nearer
<1> HIDE DEF new
<1>5. ASSUME NEW k \in 1 .. Len(sent)
      PROVE  /\ new[k + 1] = new[k] + FrameLength(sent[k])
             /\ \A l \in k + 1 .. Len(sent) + 1 : new[k + 1] <= new[l]
             /\ \A o \in 1 .. FrameLength(sent[k]) :
                  new[k] + o \in DOMAIN pipe' => pipe'[new[k] + o] = Frames(k, sent[k])[o]
  <2>1. /\ k \in 1 .. MaxMessages + 1 /\ k + 1 \in 1 .. MaxMessages + 1
        /\ \A l \in k + 1 .. Len(sent) + 1 : l \in 1 .. MaxMessages + 1
    BY <1>1
  <2>2. /\ start[k + 1] = start[k] + FrameLength(sent[k])
        /\ \A l \in k + 1 .. Len(sent) + 1 : start[k + 1] <= start[l]
        /\ \A o \in 1 .. FrameLength(sent[k]) :
             start[k] + o \in DOMAIN pipe => pipe[start[k] + o] = Frames(k, sent[k])[o]
    BY DEF InPipe
  <2>3. FrameLength(sent[k]) \in Nat
    <3>1. sent[k] \in Sizes
      BY <1>1, ElementOfSeq
    <3>2. sent[k] \in Nat \ {0}
      BY <3>1
    <3>3. QED
      BY <3>2, LastPart
  <2>4. ASSUME NEW o \in 1 .. FrameLength(sent[k]), new[k] + o \in DOMAIN pipe'
        PROVE  pipe'[new[k] + o] = Frames(k, sent[k])[o]
    <3>1. o \in Int /\ new[k] + o \in 1 .. Len(pipe) - n /\ new[k] = start[k] - n
          /\ start[k] \in Int
      <4>1. new[k] = start[k] - n /\ start[k] \in Int
        BY <1>3, <2>1
      <4>2. o \in Int
        BY <2>3
      <4>3. new[k] + o \in 1 .. Len(pipe) - n
        BY <1>2, <2>4
      <4>4. QED
        BY <4>1, <4>2, <4>3
    <3>2. n + (new[k] + o) = start[k] + o /\ start[k] + o \in DOMAIN pipe
      <4>1. n + (new[k] + o) = start[k] + o /\ start[k] + o \in Int
        BY <1>1, <3>1
      <4>2. n + (new[k] + o) \in 1 .. Len(pipe)
        <5>1. \A x \in 1 .. Len(pipe) - n : n + x \in 1 .. Len(pipe)
          BY <1>1
        <5>2. QED
          BY <3>1, <5>1
      <4>3. DOMAIN pipe = 1 .. Len(pipe)
        BY <1>2
      <4>4. QED
        BY <4>1, <4>2, <4>3
    <3>3. pipe'[new[k] + o] = pipe[n + (new[k] + o)]
      BY <1>2, <3>1
    <3>4. QED
      BY <2>2, <3>2, <3>3
  <2>5. new[k + 1] = new[k] + FrameLength(sent[k])
    <3>1. /\ start[k] \in Int /\ start[k + 1] \in Int /\ new[k] = start[k] - n
          /\ new[k + 1] = start[k + 1] - n
      BY <1>3, <2>1
    <3>2. QED
      BY <1>1, <2>2, <2>3, <3>1
  <2>6. ASSUME NEW l \in k + 1 .. Len(sent) + 1 PROVE new[k + 1] <= new[l]
    <3>1. /\ start[l] \in Int /\ start[k + 1] \in Int /\ new[l] = start[l] - n
          /\ new[k + 1] = start[k + 1] - n
      BY <1>3, <2>1
    <3>2. start[k + 1] <= start[l] /\ n \in Int
      BY <1>1, <2>2
    <3>3. QED
      BY <3>1, <3>2
  <2>7. QED
    BY <2>4, <2>5, <2>6
<1>6. Len(pipe') = IF spc = "idle" THEN new[Len(sent) + 1] ELSE new[Len(sent)] + Len(accepted)
  <2>1. Len(pipe) = IF spc = "idle" THEN start[Len(sent) + 1]
                                    ELSE start[Len(sent)] + Len(accepted)
    BY DEF InPipe
  <2>2. Len(sent) + 1 \in 1 .. MaxMessages + 1 /\ Len(accepted) \in Nat
    BY <1>1
  <2>3. spc # "idle" => Len(sent) \in 1 .. MaxMessages + 1
    BY <1>1, SizePositive DEF TypeInv
  <2>4. new[Len(sent) + 1] = start[Len(sent) + 1] - n /\ start[Len(sent) + 1] \in Int
    BY <1>3, <2>2
  <2>5. spc # "idle" => new[Len(sent)] = start[Len(sent)] - n /\ start[Len(sent)] \in Int
    BY <1>3, <2>3
  <2>6. CASE spc = "idle"
    <3>1. Len(pipe') = start[Len(sent) + 1] - n
      BY <1>2, <2>1, <2>6
    <3>2. QED
      BY <2>4, <2>6, <3>1
  <2>7. CASE spc # "idle"
    <3>1. Len(pipe) = start[Len(sent)] + Len(accepted) /\ Len(pipe') = Len(pipe) - n
      BY <1>2, <2>1, <2>7
    <3>2. start[Len(sent)] \in Int /\ new[Len(sent)] = start[Len(sent)] - n
      BY <2>5, <2>7
    <3>3. \A a \in Int, b, c \in Nat : (a + b) - c = (a - c) + b
      OBVIOUS
    <3>4. (start[Len(sent)] + Len(accepted)) - n = (start[Len(sent)] - n) + Len(accepted)
      BY <1>1, <2>2, <3>2, <3>3
    <3>5. QED
      BY <2>7, <3>1, <3>2, <3>4
  <2>8. QED
    BY <2>6, <2>7
<1>7. QED
  BY <1>4, <1>5, <1>6 DEF InPipe, new

-----------------------------------------------------------------------------
(* What Receive puts together *)

\* The n cells of s are the bytes of message k behind the first a.
BytesBehind(s, k, a, n) == Len(s) = n /\ \A i \in 1 .. n : s[i] = Byte(k, a + i)

\* The first bytes of a message and those that follow them.
LEMMA PayloadGrows ==
  ASSUME NEW k \in 0 .. MaxMessages, NEW a \in Nat, NEW n \in Nat, NEW s \in Seq(Cell),
         BytesBehind(s, k, a, n)
  PROVE  /\ Payload(k, a) # Garbled
         /\ Payload(k, a) \o s = Payload(k, a + n)
<1>0. Len(s) = n /\ \A i \in 1 .. n : s[i] = Byte(k, a + i)
  BY DEF BytesBehind
<1>1. \A b \in Nat : /\ Payload(k, b) \in Seq(Cell) /\ Len(Payload(k, b)) = b
                     /\ \A i \in 1 .. b : Payload(k, b)[i] = Byte(k, i)
  <2> TAKE b \in Nat
  <2>1. \A i \in 1 .. b : Byte(k, i) \in Cell
    BY DEF Byte, Cell
  <2>2. Payload(k, b) \in [1 .. b -> Cell]
    BY <2>1 DEF Payload
  <2>3. Payload(k, b) \in Seq(Cell) /\ Len(Payload(k, b)) = b
    BY <2>2
  <2>4. QED
    BY <2>3 DEF Payload
<1>2. Payload(k, a) # Garbled
  <2>1. Garbled[1] = Junk /\ Len(Garbled) = 1
    BY DEF Garbled
  <2>2. a = 1 => Payload(k, a)[1] = Byte(k, 1)
    BY <1>1
  <2>3. Byte(k, 1) # Junk
    BY DEF Byte, Junk
  <2>4. QED
    BY <1>1, <2>1, <2>2, <2>3
<1>3. Payload(k, a) \o s = Payload(k, a + n)
  <2>1. /\ Payload(k, a) \o s \in Seq(Cell) /\ Len(Payload(k, a) \o s) = a + n
        /\ \A i \in 1 .. a + n : (Payload(k, a) \o s)[i] =
             IF i <= a THEN Payload(k, a)[i] ELSE s[i - a]
    <3>1. Payload(k, a) \in Seq(Cell) /\ Len(Payload(k, a)) = a
      BY <1>1
    <3>2. /\ Payload(k, a) \o s \in Seq(Cell)
          /\ Len(Payload(k, a) \o s) = Len(Payload(k, a)) + Len(s)
          /\ \A i \in 1 .. Len(Payload(k, a)) + Len(s) : (Payload(k, a) \o s)[i] =
               IF i <= Len(Payload(k, a)) THEN Payload(k, a)[i]
                                          ELSE s[i - Len(Payload(k, a))]
      BY <3>1, ConcatProperties
    <3>3. QED
      BY <1>0, <3>1, <3>2
  <2>2. a + n \in Nat
    OBVIOUS
  <2>3. ASSUME NEW i \in 1 .. a + n
        PROVE  (Payload(k, a) \o s)[i] = Payload(k, a + n)[i]
    <3>1. Payload(k, a + n)[i] = Byte(k, i)
      BY <1>1, <2>2
    <3>2. CASE i <= a
      BY <1>1, <2>1, <3>1, <3>2
    <3>3. CASE ~(i <= a)
      <4>1. i - a \in 1 .. n /\ a + (i - a) = i
        BY <3>3
      <4>2. s[i - a] = Byte(k, i)
        BY <1>0, <4>1
      <4>3. QED
        BY <2>1, <3>1, <3>3, <4>2
    <3>4. QED
      BY <3>2, <3>3
  <2>4. QED
    BY <1>1, <2>1, <2>2, <2>3, SeqEqual
<1>4. QED
  BY <1>2, <1>3

\* Receive has read a header: it is behind it.
LEMMA HeaderTaken ==
  ASSUME TypeInv, SendInv, "receiver" \in alive,
         NEW start \in [1 .. MaxMessages + 1 -> Int], InPipe(start), InStep(start),
         \/ rpc = "idle" /\ msg' = <<>>
         \/ rpc = "header" /\ msg' = msg,
         pipe # <<>>, header' \in HeaderRead, pipe' = Tail(pipe),
         rpc' = header'.type, UNCHANGED <<sendVars, received>>
  PROVE  \E new \in [1 .. MaxMessages + 1 -> Int] : InPipe(new)' /\ InStep(new)'
<1> DEFINE k == Len(received) + 1
           new == Nearer(start, 1)
<1>1. /\ k \in 1 .. Len(sent) /\ sent[k] \in Nat \ {0} /\ start[k] \in Int
      /\ Len(sent) \in 0 .. MaxMessages /\ Len(received) \in Nat
  <2>1. k \in 1 .. Len(sent)
    BY HeaderNext
  <2>2. /\ \A j \in 1 .. Len(sent) : sent[j] \in Nat \ {0} /\ start[j] \in Int
        /\ Len(sent) \in 0 .. MaxMessages
    BY PipeEnd
  <2>3. Len(received) \in Nat
    BY DEF TypeInv, Types
  <2> HIDE DEF k
  <2>4. QED
    BY <2>1, <2>2, <2>3
<1>2. PICK p \in 0 .. FullParts(sent[k]) :
        /\ rpc = "idle" => p = 0
        /\ rpc = "header" => msg = Payload(k, p * MAX_MSG_SIZE)
        /\ Before(start, k, p)
        /\ Head(pipe) = HeaderOf(p, sent[k]) /\ Head(pipe).type # "byte"
  BY HeaderNext
<1>3. /\ header' = HeaderOf(p, sent[k]) /\ rpc' \in {"part", "last"}
      /\ p \in Nat /\ p * MAX_MSG_SIZE \in Nat
      /\ p * (MAX_MSG_SIZE + 1) = p * MAX_MSG_SIZE + p
  <2>1. header' = HeaderOf(p, sent[k])
    BY <1>2 DEF HeaderRead
  <2>2. rpc' \in {"part", "last"} /\ p * MAX_MSG_SIZE \in Nat
    BY <1>1, <2>1, HeaderStates
  <2>3. p \in Nat
    BY <1>1, LastPart
  <2>4. QED
    BY <2>1, <2>2, <2>3, Multiples
<1>4. msg' = Payload(k, p * MAX_MSG_SIZE)
  <2>1. CASE rpc = "header"
    BY <1>2, <2>1
  <2>2. CASE rpc = "idle"
    <3>1. p * MAX_MSG_SIZE = 0
      BY <1>2, <2>2
    <3>2. Payload(k, 0) = <<>>
      BY DEF Payload
    <3>3. QED
      BY <2>2, <3>1, <3>2
  <2>3. QED
    BY <2>1, <2>2
<1>5. new \in [1 .. MaxMessages + 1 -> Int] /\ InPipe(new)'
  <2>1. pipe' = SubSeq(pipe, 1 + 1, Len(pipe)) /\ 1 \in 0 .. Len(pipe)
    <3>1. pipe \in Seq(Cell) /\ Len(pipe) \in Nat \ {0}
      BY DEF TypeInv, Types
    <3>2. Tail(pipe) = SubSeq(pipe, 2, Len(pipe))
      BY <3>1, TailIsSubSeq
    <3>3. QED
      BY <3>1, <3>2
  <2>2. QED
    BY <2>1, Shifted
<1>6. new[k] + p * (MAX_MSG_SIZE + 1) + 1 = 0
  <2>1. new[k] = start[k] - 1
    BY <1>1 DEF Nearer
  <2>2. start[k] + p * MAX_MSG_SIZE + p = 0
    BY <1>2 DEF Before
  <2>3. QED
    BY <1>1, <1>3, <2>1, <2>2
<1>7. InStep(new)'
  <2>1. UNCHANGED <<sent, received>>
    BY DEF sendVars
  <2>2. ReceivingAt(new, k, p)'
    BY <1>3, <1>4, <1>6, <2>1 DEF ReceivingAt
  <2>3. Len(received) < Len(sent)
    BY <1>1
  <2>4. rpc' # "idle"
    BY <1>3
  <2>5. QED
    BY <2>1, <2>2, <2>3, <2>4 DEF InStep
<1>8. QED
  BY <1>5, <1>7

\* Receive has read the bytes of part p: it has put together the message up to them.
LEMMA BodyTaken ==
  ASSUME TypeInv, SendInv, "receiver" \in alive,
         NEW start \in [1 .. MaxMessages + 1 -> Int], InPipe(start), InStep(start),
         rpc \in {"part", "last"}, header.n <= Len(pipe)
  PROVE  LET k == Len(received) + 1 IN
         /\ Len(Found(header.n)) = header.n /\ header.n \in 0 .. Len(pipe)
         /\ k \in 1 .. Len(sent)
         /\ \E p \in 0 .. FullParts(sent[k]) :
              /\ Behind(start, k, p)
              /\ header = HeaderOf(p, sent[k]) /\ rpc = header.type
              /\ Extended(header.n) = Payload(k, p * MAX_MSG_SIZE + header.n)
<1> DEFINE k == Len(received) + 1
           n == header.n
<1>1. /\ k \in 1 .. Len(sent) /\ sent[k] \in Nat \ {0} /\ start[k] \in Int
      /\ Len(sent) \in 0 .. MaxMessages /\ k \in 0 .. MaxMessages
  <2>1. k \in 1 .. Len(sent) /\ sent[k] \in Nat \ {0} /\ start[k] \in Int
        /\ Len(sent) \in 0 .. MaxMessages
    BY AtPart, PipeEnd
  <2>2. QED
    BY <2>1
<1>2. PICK p \in 0 .. FullParts(sent[k]) :
        /\ Behind(start, k, p) /\ msg = Payload(k, p * MAX_MSG_SIZE)
        /\ header = HeaderOf(p, sent[k]) /\ rpc = header.type
  BY AtPart
<1>3. n \in 1 .. MAX_MSG_SIZE /\ n \in Nat /\ p * MAX_MSG_SIZE \in Nat /\ p \in Nat
  <2>1. n \in 1 .. MAX_MSG_SIZE /\ p * MAX_MSG_SIZE \in Nat
    BY <1>1, <1>2, HeaderStates
  <2>2. p \in Nat
    BY <1>1, LastPart
  <2>3. QED
    BY <2>1, <2>2
<1>4. pipe \in Seq(Cell) /\ DOMAIN pipe = 1 .. Len(pipe) /\ Len(pipe) \in Nat
  BY DEF TypeInv, Types
<1>5. /\ Found(n) \in Seq(Cell) /\ Len(Found(n)) = n
      /\ \A i \in 1 .. n : Found(n)[i] = pipe[i]
  <2>1. LET m == Len(Found(n)) IN
        /\ m \in Nat /\ m <= n /\ m <= Len(pipe) /\ (m < n => m = Len(pipe))
        /\ Found(n) \in Seq(Cell) /\ \A i \in 1 .. m : Found(n)[i] = pipe[i]
    BY <1>3, <1>4, FoundFirst
  <2>2. Len(Found(n)) = n
    BY <1>3, <1>4, <2>1
  <2>3. QED
    BY <2>1, <2>2
<1>6. ASSUME NEW i \in 1 .. n PROVE pipe[i] = Byte(k, p * MAX_MSG_SIZE + i)
  <2> DEFINE o == p * MAX_MSG_SIZE + p + 1 + i
  <2>1. /\ o \in 1 .. FrameLength(sent[k])
        /\ Frames(k, sent[k])[o] = Byte(k, p * MAX_MSG_SIZE + i)
    <3>1. n = HeaderOf(p, sent[k]).n
      BY <1>2
    <3>2. \A j \in 1 .. HeaderOf(p, sent[k]).n :
            /\ p * MAX_MSG_SIZE + p + 1 + j \in 1 .. FrameLength(sent[k])
            /\ Frames(k, sent[k])[p * MAX_MSG_SIZE + p + 1 + j] =
                 Byte(k, p * MAX_MSG_SIZE + j)
      BY <1>1, FrameCells
    <3>3. QED
      BY <3>1, <3>2
  <2>2. start[k] + o = i
    <3>1. start[k] + p * MAX_MSG_SIZE + p + 1 = 0
      BY <1>2 DEF Behind
    <3>2. \A a \in Int, b, c, d \in Nat : a + b + c + 1 = 0 => a + (b + c + 1 + d) = d
      OBVIOUS
    <3>3. i \in Nat
      BY <1>3
    <3>4. QED
      BY <1>1, <1>3, <3>1, <3>2, <3>3
  <2>3. i \in DOMAIN pipe
    BY <1>3, <1>4
  <2> HIDE DEF o, k
  <2>4. pipe[start[k] + o] = Frames(k, sent[k])[o]
    BY <1>1, <2>1, <2>2, <2>3 DEF InPipe
  <2>5. QED
    BY <2>1, <2>2, <2>4
<1>7. Extended(n) = Payload(k, p * MAX_MSG_SIZE + n)
  <2>1. \A i \in 1 .. n : Found(n)[i] = Byte(k, p * MAX_MSG_SIZE + i)
    BY <1>5, <1>6
  <2>2. /\ msg # Garbled
        /\ msg \o Found(n) = Payload(k, p * MAX_MSG_SIZE + n)
    <3> DEFINE a == p * MAX_MSG_SIZE
    <3>1. a \in Nat /\ msg = Payload(k, a) /\ BytesBehind(Found(n), k, a, n)
      BY <1>2, <1>3, <1>5, <2>1 DEF BytesBehind
    <3>2. k \in 0 .. MaxMessages /\ n \in Nat /\ Found(n) \in Seq(Cell)
      BY <1>1, <1>3, <1>5
    <3>3. msg # Garbled /\ msg \o Found(n) = Payload(k, a + n)
      <4> HIDE SizeAssumption, ProcessAssumption, LimitAssumption DEF k, n, a
      <4> QED
        BY <3>1, <3>2, PayloadGrows
    <3>4. QED
      BY <3>3
  <2>3. ~(Len(Found(n)) < n)
    BY <1>3, <1>5
  <2>4. QED
    BY <2>2, <2>3 DEF Extended
<1>8. QED
  BY <1>1, <1>2, <1>3, <1>4, <1>5, <1>7

\* A message was returned; if Send has returned for it too, it is the one that was sent.
LEMMA MessageReturned ==
  ASSUME TypeInv, ReceivedAsSent, interrupts = 0, NEW m, received' = Append(received, m),
         UNCHANGED <<sent, results>>,
         LET k == Len(received) + 1 IN k <= Len(results) => m = Payload(k, sent[k])
  PROVE  ReceivedAsSent'
<1>1. Len(received) \in Nat /\ DOMAIN received = 1 .. Len(received)
  BY DEF TypeInv, Types
<1>2. /\ DOMAIN received' = 1 .. Len(received) + 1
      /\ \A k \in 1 .. Len(received) : received'[k] = received[k]
      /\ received'[Len(received) + 1] = m
  BY DEF TypeInv, Types
<1>3. ASSUME NEW k \in DOMAIN received', k <= Len(results), results[k] = "OK"
      PROVE  received'[k] = Payload(k, sent[k])
  <2>1. CASE k \in 1 .. Len(received)
    BY <1>1, <1>2, <1>3, <2>1 DEF ReceivedAsSent
  <2>2. CASE k = Len(received) + 1
    BY <1>2, <1>3, <2>2
  <2>3. QED
    BY <1>1, <1>2, <2>1, <2>2
<1>4. QED
  BY <1>3 DEF ReceivedAsSent

\* The pipe is empty and nobody will write: what is read leaves it so.
LEMMA NothingFound ==
  ASSUME TypeInv, pipe = <<>>, pipe' = SubSeq(pipe, Len(Found(header.n)) + 1, Len(pipe))
  PROVE  pipe' = <<>>
<1>1. header.n \in Nat /\ pipe \in Seq(Cell) /\ Len(pipe) = 0
  BY DEF TypeInv, Types, Cell
<1>2. pipe' \in Seq(Cell) /\ Len(pipe') = Len(pipe) - Len(Found(header.n))
      /\ Len(Found(header.n)) \in Nat /\ Len(Found(header.n)) <= Len(pipe)
  BY <1>1, FoundFirst
<1>3. QED
  BY <1>1, <1>2

\* Without an interrupt, a read of the bytes of a part finds all of them, or it is at
\* the end of the file.
LEMMA BodyOrEnd ==
  ASSUME TypeInv, SendInv, "receiver" \in alive,
         NEW start \in [1 .. MaxMessages + 1 -> Int], InPipe(start), InStep(start),
         rpc \in {"part", "last"}, BodyRead(header.n), interrupts = 0, interrupts' = 0
  PROVE  header.n <= Len(pipe) \/ (pipe = <<>> /\ "sender" \notin alive)
<1>1. CASE pipe # <<>>
  BY <1>1, BodyWhole
<1>2. CASE pipe = <<>>
  <2>1. header.n # 0
    <3>1. PICK p \in 0 .. FullParts(sent[Len(received) + 1]) :
            header = HeaderOf(p, sent[Len(received) + 1])
      BY AtPart
    <3>2. Len(received) + 1 \in 1 .. Len(sent)
      BY AtPart
    <3>3. sent[Len(received) + 1] \in Nat \ {0}
      BY <3>2, PipeEnd
    <3>4. header.n \in 1 .. MAX_MSG_SIZE
      BY <3>1, <3>3, HeaderStates
    <3>5. QED
      BY <3>4
  <2>2. ~Interrupted
    BY DEF Interrupted
  <2>3. QED
    BY <1>2, <2>1, <2>2 DEF BodyRead, AtEnd
<1>3. QED
  BY <1>1, <1>2

\* Receive is in step with Send, wherever in the pipe it is.
Located == \E start \in [1 .. MaxMessages + 1 -> Int] : InPipe(start) /\ InStep(start)

\* Receive has read a header, or it has met the end of the file.
LEMMA HeaderStep ==
  ASSUME TypeInv, SendInv, ReceivedAsSent, "receiver" \in alive, Located,
         interrupts = 0, interrupts' = 0, FirstHeader \/ NextHeader
  PROVE  (Derailed \/ Located)' /\ ReceivedAsSent'
<1> USE DEF sendVars
<1>1. PICK start \in [1 .. MaxMessages + 1 -> Int] : InPipe(start) /\ InStep(start)
  BY DEF Located
<1>2. UNCHANGED <<alive, sent, results, received, sendVars>>
      /\ rpc' = header'.type
  BY DEF FirstHeader, NextHeader
<1>3. CASE pipe # <<>>
  <2>1. /\ \/ rpc = "idle" /\ msg' = <<>>
           \/ rpc = "header" /\ msg' = msg
        /\ header' \in HeaderRead /\ pipe' = Tail(pipe)
    BY <1>3 DEF FirstHeader, NextHeader, AtEnd, Interrupted
  <2>2. Located'
    BY <1>1, <1>2, <1>3, <2>1, HeaderTaken DEF Located
  <2>3. QED
    BY <1>2, <2>2 DEF ReceivedAsSent
<1>4. CASE pipe = <<>>
  <2>1. "sender" \notin alive /\ pipe' = <<>>
    BY <1>4 DEF FirstHeader, NextHeader, Read, AtEnd, Interrupted
  <2>2. Len(results) <= Len(received)
    BY <1>1, <1>4, NothingLeft
  <2>3. QED
    BY <1>2, <2>1, <2>2 DEF Derailed, ReceivedAsSent
<1>5. QED
  BY <1>3, <1>4

\* Receive has read the bytes of a part that is not the last, or not found them.
LEMMA PartStep ==
  ASSUME TypeInv, SendInv, ReceivedAsSent, "receiver" \in alive, Located,
         interrupts = 0, interrupts' = 0, ReadPart
  PROVE  (Derailed \/ Located)' /\ ReceivedAsSent'
<1> USE DEF sendVars
<1>1. PICK start \in [1 .. MaxMessages + 1 -> Int] : InPipe(start) /\ InStep(start)
  BY DEF Located
<1>2. /\ UNCHANGED <<alive, sent, results, received, sendVars>>
      /\ rpc = "part" /\ rpc' = "header" /\ msg' = Extended(header.n)
      /\ pipe' = SubSeq(pipe, Len(Found(header.n)) + 1, Len(pipe))
      /\ BodyRead(header.n)
  BY DEF ReadPart
<1>3. ReceivedAsSent'
  BY <1>2 DEF ReceivedAsSent
<1>4. CASE pipe = <<>> /\ "sender" \notin alive
  <2>1. pipe' = <<>> /\ Len(results) <= Len(received)
    BY <1>1, <1>2, <1>4, NothingFound, NothingLeft
  <2>2. QED
    BY <1>2, <1>3, <1>4, <2>1 DEF Derailed
<1>5. CASE header.n <= Len(pipe)
  <2> DEFINE k == Len(received) + 1
  <2>0. PICK n \in 0 .. Len(pipe) : n = header.n
    BY <1>1, <1>2, <1>5, BodyTaken
  <2> DEFINE new == Nearer(start, n)
  <2>1. pipe' = SubSeq(pipe, n + 1, Len(pipe)) /\ k \in 1 .. Len(sent)
    <3>1. Len(Found(header.n)) = header.n /\ k \in 1 .. Len(sent)
      BY <1>1, <1>2, <1>5, BodyTaken
    <3>2. QED
      BY <1>2, <2>0, <3>1
  <2>2. PICK p \in 0 .. FullParts(sent[k]) :
          /\ Behind(start, k, p)
          /\ header = HeaderOf(p, sent[k]) /\ rpc = header.type
          /\ Extended(header.n) = Payload(k, p * MAX_MSG_SIZE + n)
    BY <1>1, <1>2, <1>5, <2>0, BodyTaken
  <2>3. /\ sent[k] \in Nat \ {0} /\ start[k] \in Int /\ Len(sent) \in 0 .. MaxMessages
        /\ Len(received) \in Nat
    <3>1. sent[k] \in Nat \ {0} /\ start[k] \in Int /\ Len(sent) \in 0 .. MaxMessages
      BY <1>1, <2>1, PipeEnd
    <3>2. QED
      BY <3>1 DEF TypeInv, Types
  <2>4. /\ n = MAX_MSG_SIZE /\ p \in Nat /\ p * MAX_MSG_SIZE \in Nat
        /\ p + 1 \in 0 .. FullParts(sent[k])
    <3>1. /\ HeaderOf(p, sent[k]).type = "last" <=> p = FullParts(sent[k])
          /\ p < FullParts(sent[k]) => HeaderOf(p, sent[k]).n = MAX_MSG_SIZE
          /\ p * MAX_MSG_SIZE \in Nat
      BY <2>3, HeaderStates
    <3>2. FullParts(sent[k]) \in Nat
      BY <2>3, LastPart
    <3>3. p # FullParts(sent[k])
      BY <1>2, <2>2, <3>1
    <3>4. QED
      BY <2>0, <2>2, <3>1, <3>2, <3>3
  <2>5. /\ (p + 1) * MAX_MSG_SIZE = p * MAX_MSG_SIZE + MAX_MSG_SIZE
        /\ (p + 1) * (MAX_MSG_SIZE + 1) = (p + 1) * MAX_MSG_SIZE + (p + 1)
    BY <2>4, Multiples
  <2>6. new \in [1 .. MaxMessages + 1 -> Int] /\ InPipe(new)'
    BY <1>1, <1>2, <2>1, Shifted
  <2>7. new[k] + (p + 1) * (MAX_MSG_SIZE + 1) = 0
    <3>1. new[k] = start[k] - MAX_MSG_SIZE
      <4>1. k \in 1 .. MaxMessages + 1
        BY <2>1, <2>3
      <4>2. QED
        BY <2>4, <4>1 DEF Nearer
    <3>2. start[k] + p * MAX_MSG_SIZE + p + 1 = 0
      BY <2>2 DEF Behind
    <3>3. \A a \in Int, b, c, d \in Nat : a + b + c + 1 = 0 => (a - d) + ((b + d) + (c + 1)) = 0
      OBVIOUS
    <3>4. (start[k] - MAX_MSG_SIZE) + ((p * MAX_MSG_SIZE + MAX_MSG_SIZE) + (p + 1)) = 0
      BY <2>3, <2>4, <3>2, <3>3
    <3>5. QED
      BY <2>5, <3>1, <3>4
  <2>8. InStep(new)'
    <3>1. ReceivingAt(new, k, p + 1)'
      BY <1>2, <2>2, <2>4, <2>5, <2>7 DEF ReceivingAt
    <3>2. Len(received) < Len(sent)
      BY <2>1, <2>3
    <3>3. QED
      BY <1>2, <2>4, <3>1, <3>2 DEF InStep
  <2>9. QED
    BY <1>3, <2>6, <2>8 DEF Located
<1>6. QED
  BY <1>1, <1>2, <1>4, <1>5, BodyOrEnd

\* Receive has read the bytes of the last part and returns the message, or it has not
\* found them and returns what it made up.
LEMMA LastStep ==
  ASSUME TypeInv, SendInv, ReceivedAsSent, "receiver" \in alive, Located,
         interrupts = 0, interrupts' = 0, ReadLast
  PROVE  (Derailed \/ Located)' /\ ReceivedAsSent'
<1> USE DEF sendVars
<1>1. PICK start \in [1 .. MaxMessages + 1 -> Int] : InPipe(start) /\ InStep(start)
  BY DEF Located
<1>2. /\ UNCHANGED <<alive, sent, results, sendVars>>
      /\ rpc = "last" /\ rpc' = "idle" /\ received' = Append(received, Extended(header.n))
      /\ pipe' = SubSeq(pipe, Len(Found(header.n)) + 1, Len(pipe))
      /\ BodyRead(header.n)
  BY DEF ReadLast
<1>3. Len(received) \in Nat /\ Len(received') = Len(received) + 1 /\ Len(results) \in Nat
  BY <1>2 DEF TypeInv, Types
<1>4. CASE pipe = <<>> /\ "sender" \notin alive
  <2>1. pipe' = <<>> /\ Len(results) <= Len(received)
    BY <1>1, <1>2, <1>4, NothingFound, NothingLeft
  <2>2. ReceivedAsSent'
    <3>1. ~(Len(received) + 1 <= Len(results))
      BY <1>3, <2>1
    <3>2. QED
      BY <1>2, <3>1, MessageReturned
  <2>3. QED
    BY <1>2, <1>3, <1>4, <2>1, <2>2 DEF Derailed
<1>5. CASE header.n <= Len(pipe)
  <2> DEFINE k == Len(received) + 1
  <2>0. PICK n \in 0 .. Len(pipe) : n = header.n
    BY <1>1, <1>2, <1>5, BodyTaken
  <2> DEFINE new == Nearer(start, n)
  <2>1. pipe' = SubSeq(pipe, n + 1, Len(pipe)) /\ k \in 1 .. Len(sent)
    <3>1. Len(Found(header.n)) = header.n /\ k \in 1 .. Len(sent)
      BY <1>1, <1>2, <1>5, BodyTaken
    <3>2. QED
      BY <1>2, <2>0, <3>1
  <2>2. PICK p \in 0 .. FullParts(sent[k]) :
          /\ Behind(start, k, p)
          /\ header = HeaderOf(p, sent[k]) /\ rpc = header.type
          /\ Extended(header.n) = Payload(k, p * MAX_MSG_SIZE + n)
    BY <1>1, <1>2, <1>5, <2>0, BodyTaken
  <2>3. /\ sent[k] \in Nat \ {0} /\ start[k] \in Int /\ Len(sent) \in 0 .. MaxMessages
        /\ start[k + 1] = start[k] + FrameLength(sent[k]) /\ start[k + 1] \in Int
    BY <1>1, <2>1, PipeEnd
  <2>4. /\ p = FullParts(sent[k]) /\ p \in Nat /\ p * MAX_MSG_SIZE \in Nat
        /\ p * MAX_MSG_SIZE + n = sent[k] /\ n \in Nat
        /\ FrameLength(sent[k]) = sent[k] + p + 1
    <3>1. /\ HeaderOf(p, sent[k]).type = "last" <=> p = FullParts(sent[k])
          /\ p = FullParts(sent[k]) => p * MAX_MSG_SIZE + HeaderOf(p, sent[k]).n = sent[k]
          /\ p * MAX_MSG_SIZE \in Nat
      BY <2>3, HeaderStates
    <3>2. FullParts(sent[k]) \in Nat
          /\ FrameLength(sent[k]) = sent[k] + FullParts(sent[k]) + 1
      BY <2>3, LastPart
    <3>3. header.n \in Nat
      BY DEF TypeInv, Types, Cell
    <3>4. p = FullParts(sent[k])
      BY <1>2, <2>2, <3>1
    <3>5. QED
      BY <2>0, <2>2, <3>1, <3>2, <3>3, <3>4
  <2>5. new \in [1 .. MaxMessages + 1 -> Int] /\ InPipe(new)'
    BY <1>1, <1>2, <2>1, Shifted
  <2>6. new[k + 1] = 0
    <3>1. new[k + 1] = start[k + 1] - n
      <4>1. k + 1 \in 1 .. MaxMessages + 1
        BY <2>1, <2>3
      <4>2. QED
        BY <4>1 DEF Nearer
    <3>2. start[k] + p * MAX_MSG_SIZE + p + 1 = 0
      BY <2>2 DEF Behind
    <3>3. \A a \in Int, b, c, d \in Nat : a + b + c + 1 = 0 => (a + ((b + d) + c + 1)) - d = 0
      OBVIOUS
    <3>4. (start[k] + ((p * MAX_MSG_SIZE + n) + p + 1)) - n = 0
      <4>1. start[k] \in Int /\ p * MAX_MSG_SIZE \in Nat /\ p \in Nat /\ n \in Nat
        BY <2>3, <2>4
      <4>2. start[k] + p * MAX_MSG_SIZE + p + 1 = 0 =>
              (start[k] + ((p * MAX_MSG_SIZE + n) + p + 1)) - n = 0
        BY <3>3, <4>1
      <4>3. QED
        BY <3>2, <4>2
    <3>5. QED
      BY <2>3, <2>4, <3>1, <3>4
  <2>7. InStep(new)'
    <3>1. Len(received') = k /\ k <= Len(sent) /\ k \in Nat
      BY <1>3, <2>1, <2>3
    <3>2. QED
      BY <1>2, <2>6, <3>1 DEF InStep
  <2>8. ReceivedAsSent'
    <3>1. Extended(header.n) = Payload(k, sent[k])
      BY <2>2, <2>4
    <3>2. QED
      BY <1>2, <3>1, MessageReturned
  <2>9. QED
    BY <2>5, <2>7, <2>8 DEF Located
<1>6. QED
  BY <1>1, <1>2, <1>4, <1>5, BodyOrEnd

-----------------------------------------------------------------------------
(* Send and Receive together *)

\* Send has taken another message: it will be behind the others.
LEMMA CallLocated ==
  ASSUME TypeInv, SendInv, "receiver" \in alive, Located,
         NEW size \in Sizes, CallSend(size)
  PROVE  Located'
<1> USE DEF sendVars, receiveVars
<1>1. PICK start \in [1 .. MaxMessages + 1 -> Int] : InPipe(start) /\ InStep(start)
  BY DEF Located
<1> DEFINE e == start[Len(sent) + 1] + FrameLength(size)
<1>2. /\ spc = "idle" /\ spc' = "header" /\ sent' = Append(sent, size) /\ accepted' = <<>>
      /\ UNCHANGED <<alive, pipe, rpc, header, msg, received>> /\ Len(sent) < MaxMessages
      /\ sent \in Seq(Sizes) /\ Len(sent) \in Nat
      /\ Len(sent') = Len(sent) + 1 /\ sent'[Len(sent) + 1] = size
      /\ \A k \in 1 .. Len(sent) : sent'[k] = sent[k]
  BY DEF CallSend, TypeInv, Types
<1>3. /\ FrameLength(size) \in Nat \ {0} /\ start[Len(sent) + 1] \in Int
      /\ Len(pipe) = start[Len(sent) + 1] /\ Len(received) \in Nat
      /\ Len(received) <= Len(sent)
      /\ rpc # "idle" => Len(received) < Len(sent)
  <2>1. size \in Nat \ {0}
    OBVIOUS
  <2>2. start[Len(sent) + 1] \in Int /\ Len(pipe) = start[Len(sent) + 1]
    BY <1>1, <1>2, PipeEnd
  <2>3. Len(received) \in Nat
    BY DEF TypeInv, Types
  <2>4. Len(received) <= Len(sent) /\ (rpc # "idle" => Len(received) < Len(sent))
    BY <1>1, <1>2, <2>3 DEF InStep
  <2>5. QED
    BY <2>1, <2>2, <2>3, <2>4, LastPart
<1>4. PICK m \in Nat : m = Len(sent)
  BY <1>2
<1>5. PICK f \in Int : f = start[m + 1] + FrameLength(size)
  BY <1>3, <1>4
<1> DEFINE new == [start EXCEPT ![m + 2] = f]
<1>6. /\ new \in [1 .. MaxMessages + 1 -> Int] /\ new[m + 2] = f
      /\ \A k \in 1 .. m + 1 : new[k] = start[k] /\ start[k] \in Int
  BY <1>2, <1>4
<1> HIDE DEF new
<1>7. ASSUME NEW k \in 1 .. m
      PROVE  /\ new[k + 1] = new[k] + FrameLength(sent'[k])
             /\ \A l \in k + 1 .. m + 2 : new[k + 1] <= new[l]
             /\ \A o \in 1 .. FrameLength(sent'[k]) :
                  new[k] + o \in DOMAIN pipe => pipe[new[k] + o] = Frames(k, sent'[k])[o]
  <2>1. /\ start[k + 1] = start[k] + FrameLength(sent[k])
        /\ \A l \in k + 1 .. m + 1 : start[k + 1] <= start[l]
        /\ \A o \in 1 .. FrameLength(sent[k]) :
             start[k] + o \in DOMAIN pipe => pipe[start[k] + o] = Frames(k, sent[k])[o]
    BY <1>1, <1>4 DEF InPipe
  <2>2. /\ k \in 1 .. m + 1 /\ k + 1 \in 1 .. m + 1
        /\ new[k] = start[k] /\ new[k + 1] = start[k + 1] /\ sent'[k] = sent[k]
    <3>1. k \in 1 .. m + 1 /\ k + 1 \in 1 .. m + 1
      OBVIOUS
    <3>2. sent'[k] = sent[k]
      BY <1>2, <1>4
    <3>3. QED
      BY <1>6, <3>1, <3>2
  <2>3. ASSUME NEW l \in k + 1 .. m + 2 PROVE new[k + 1] <= new[l]
    <3>1. CASE l \in k + 1 .. m + 1
      BY <1>6, <2>1, <2>2, <3>1
    <3>2. CASE l = m + 2
      <4>1. m + 1 \in k + 1 .. m + 1 /\ start[k + 1] <= start[m + 1]
        BY <2>1
      <4>2. start[m + 1] \in Int /\ start[m + 1] <= f
        BY <1>3, <1>4, <1>5
      <4>3. start[k + 1] \in Int /\ new[m + 2] = f /\ new[k + 1] = start[k + 1]
        BY <1>6, <2>2
      <4>4. start[k + 1] <= f
        BY <4>1, <4>2, <4>3, <1>5
      <4>5. QED
        BY <3>2, <4>3, <4>4
    <3>3. QED
      BY <3>1, <3>2
  <2>4. QED
    BY <2>1, <2>2, <2>3
<1>8. /\ new[m + 2] = new[m + 1] + FrameLength(size)
      /\ \A l \in m + 2 .. m + 2 : new[m + 2] <= new[l]
      /\ \A o \in 1 .. FrameLength(size) : new[m + 1] + o \notin DOMAIN pipe
  <2>1. m + 1 \in 1 .. m + 1 /\ new[m + 1] = start[m + 1] /\ start[m + 1] = Len(pipe)
    BY <1>3, <1>4, <1>6
  <2>2. DOMAIN pipe = 1 .. Len(pipe) /\ Len(pipe) \in Nat
    BY DEF TypeInv, Types
  <2>3. start[m + 1] \in Int /\ new[m + 2] = f /\ f \in Int
        /\ f = start[m + 1] + FrameLength(size)
    BY <1>3, <1>4, <1>5, <1>6
  <2>4. ASSUME NEW o \in 1 .. FrameLength(size) PROVE new[m + 1] + o \notin DOMAIN pipe
    <3>1. o \in Nat /\ o > 0
      BY <1>3
    <3>2. new[m + 1] + o = Len(pipe) + o
      BY <2>1
    <3>3. QED
      BY <2>2, <3>1, <3>2
  <2>5. \A l \in m + 2 .. m + 2 : l = m + 2
    OBVIOUS
  <2>6. QED
    BY <2>1, <2>3, <2>4, <2>5
<1>9. InPipe(new)'
  <2>1. ASSUME NEW k \in 1 .. m + 1
        PROVE  /\ new[k + 1] = new[k] + FrameLength(sent'[k])
               /\ \A l \in k + 1 .. m + 2 : new[k + 1] <= new[l]
               /\ \A o \in 1 .. FrameLength(sent'[k]) :
                    new[k] + o \in DOMAIN pipe => pipe[new[k] + o] = Frames(k, sent'[k])[o]
    <3>1. CASE k \in 1 .. m
      BY <1>7, <3>1
    <3>2. CASE k = m + 1
      <4>1. k + 1 = m + 2 /\ sent'[k] = size
        BY <1>2, <1>4, <3>2
      <4>2. QED
        BY <1>8, <3>2, <4>1
    <3>3. QED
      BY <3>1, <3>2
  <2>2. Len(sent') = m + 1 /\ Len(sent') + 1 = m + 2 /\ pipe' = pipe /\ spc' # "idle"
    BY <1>2, <1>4
  <2>3. Len(pipe') = new[Len(sent')] + Len(accepted')
    <3>1. Len(accepted') = 0 /\ m + 1 \in 1 .. m + 1 /\ start[m + 1] = Len(pipe)
      BY <1>2, <1>3, <1>4
    <3>2. new[m + 1] = Len(pipe) /\ Len(pipe) \in Int
      BY <1>6, <3>1
    <3>3. QED
      BY <2>2, <3>1, <3>2
  <2>4. \A k \in 1 .. Len(sent') :
          /\ new[k + 1] = new[k] + FrameLength(sent'[k])
          /\ \A l \in k + 1 .. Len(sent') + 1 : new[k + 1] <= new[l]
          /\ \A o \in 1 .. FrameLength(sent'[k]) :
               new[k] + o \in DOMAIN pipe' => pipe'[new[k] + o] = Frames(k, sent'[k])[o]
    BY <2>1, <2>2
  <2>5. QED
    BY <1>6, <2>2, <2>3, <2>4 DEF InPipe
<1>10. InStep(new)'
  <2>1. CASE rpc = "idle"
    <3>1. start[Len(received) + 1] = 0
      BY <1>1, <2>1 DEF InStep
    <3>2. Len(received) + 1 \in 1 .. m + 1
      BY <1>3, <1>4
    <3>3. new[Len(received) + 1] = 0 /\ Len(received) <= Len(sent')
      BY <1>2, <1>3, <1>6, <3>1, <3>2
    <3>4. QED
      BY <1>2, <2>1, <3>3 DEF InStep
  <2>2. CASE rpc # "idle"
    <3>1. PICK p \in 0 .. FullParts(sent[Len(received) + 1]) :
            ReceivingAt(start, Len(received) + 1, p)
      BY <1>1, <2>2 DEF InStep
    <3>2. /\ Len(received) + 1 \in 1 .. m + 1 /\ Len(received) + 1 \in 1 .. Len(sent)
          /\ Len(received) < Len(sent')
      BY <1>2, <1>3, <1>4, <2>2
    <3>3. /\ new[Len(received) + 1] = start[Len(received) + 1]
          /\ sent'[Len(received) + 1] = sent[Len(received) + 1]
      BY <1>2, <1>6, <3>2
    <3>4. ReceivingAt(new, Len(received) + 1, p)'
      BY <1>2, <3>1, <3>3 DEF ReceivingAt
    <3>5. QED
      BY <1>2, <2>2, <3>2, <3>3, <3>4 DEF InStep
  <2>3. QED
    BY <2>1, <2>2
<1>11. QED
  BY <1>6, <1>9, <1>10 DEF Located

\* Send has written cells of its message behind those it had written.
LEMMA WriteLocated ==
  ASSUME TypeInv, SendInv, SendInv', "receiver" \in alive, Located, spc # "idle",
         NEW cells, cells \in Seq(Cell), Accept(cells), "receiver" \in alive',
         UNCHANGED <<sent, rpc, header, msg, received>>,
         accepted' \in Seq(Cell),
         spc' = "idle" => Len(results') = Len(sent) /\ results'[Len(results')] = "OK"
                          /\ results' # <<>>
  PROVE  Located'
<1>1. PICK start \in [1 .. MaxMessages + 1 -> Int] : InPipe(start) /\ InStep(start)
  BY DEF Located
<1> DEFINE m == Len(sent)
<1>2. /\ m \in 1 .. MaxMessages /\ msg_size = sent[m] /\ msg_size' = msg_size
      /\ msg_size \in Nat \ {0}
  <2>1. sent \in Seq(Sizes) /\ sent # <<>> /\ Len(sent) <= MaxMessages
    BY DEF TypeInv, Types
  <2>2. QED
    BY <2>1, SizePositive DEF msg_size
<1>3. /\ pipe \in Seq(Cell) /\ accepted \in Seq(Cell) /\ Len(pipe) \in Nat
      /\ Len(accepted) \in Nat /\ Len(cells) \in Nat
  BY DEF TypeInv, Types
<1>4. /\ Len(pipe') = Len(pipe) + Len(cells) /\ DOMAIN pipe' = 1 .. Len(pipe) + Len(cells)
      /\ \A i \in 1 .. Len(pipe) : pipe'[i] = pipe[i]
      /\ \A i \in 1 .. Len(cells) : pipe'[Len(pipe) + i] = cells[i]
  BY <1>3 DEF Accept
<1>5. /\ Len(accepted') = Len(accepted) + Len(cells)
      /\ DOMAIN accepted' = 1 .. Len(accepted) + Len(cells)
      /\ \A i \in 1 .. Len(cells) : accepted'[Len(accepted) + i] = cells[i]
  BY <1>3 DEF Accept
<1>6. /\ \A j \in DOMAIN accepted' : accepted'[j] = Frames(m, msg_size)[j]
      /\ spc' = "idle" => Len(accepted') = FrameLength(msg_size)
  <2>1. CASE spc' = "idle"
    <3>1. accepted' = Frames(m, msg_size)
      BY <1>2, <2>1 DEF SendInv, LastOkAccepted
    <3>2. DOMAIN accepted' = 1 .. FrameLength(msg_size)
      BY <3>1 DEF Frames
    <3>3. FrameLength(msg_size) \in Nat
      BY <1>2, LastPart
    <3>4. DOMAIN accepted' = 1 .. Len(accepted') /\ Len(accepted') \in Nat
      BY <1>3, <1>5
    <3>5. Len(accepted') = FrameLength(msg_size)
      BY <3>2, <3>3, <3>4
    <3>6. QED
      BY <3>1, <3>5
  <2>2. CASE spc' # "idle"
    BY <1>2, <2>2 DEF SendInv
  <2>3. QED
    BY <2>1, <2>2
<1>7. /\ Len(pipe) = start[m] + Len(accepted) /\ start[m] \in Int
      /\ start[m + 1] = start[m] + FrameLength(msg_size)
  <2>1. Len(pipe) = start[m] + Len(accepted)
    BY <1>1 DEF InPipe
  <2>2. start[m + 1] = start[m] + FrameLength(sent[m])
    <3>1. \A k \in 1 .. m : start[k + 1] = start[k] + FrameLength(sent[k])
      BY <1>1 DEF InPipe
    <3>2. m \in 1 .. m
      BY <1>2
    <3>3. QED
      BY <3>1, <3>2
  <2>3. QED
    BY <1>2, <2>1, <2>2
<1>8. ASSUME NEW k \in 1 .. m, NEW o \in 1 .. FrameLength(sent[k]),
             start[k] + o \in DOMAIN pipe'
      PROVE  pipe'[start[k] + o] = Frames(k, sent[k])[o]
  <2>1. /\ start[k] \in Int /\ sent[k] \in Nat \ {0} /\ k \in Nat
        /\ start[k + 1] = start[k] + FrameLength(sent[k])
    <3>1. \A j \in 1 .. m :
            /\ sent[j] \in Nat \ {0} /\ start[j] \in Int
            /\ start[j + 1] = start[j] + FrameLength(sent[j])
      BY <1>1, PipeEnd
    <3>2. QED
      BY <3>1
  <2>2. FrameLength(sent[k]) \in Nat /\ o \in Nat
    <3>1. FrameLength(sent[k]) \in Nat
      BY <2>1, LastPart
    <3>2. QED
      BY <3>1
  <2>3. CASE start[k] + o <= Len(pipe)
    <3>1. start[k] + o \in 1 .. Len(pipe)
      BY <1>4, <1>8, <2>1, <2>2, <2>3
    <3>2. start[k] + o \in DOMAIN pipe
      BY <1>3, <3>1
    <3>3. pipe[start[k] + o] = Frames(k, sent[k])[o]
      BY <1>1, <3>2 DEF InPipe
    <3>4. QED
      BY <1>4, <3>1, <3>3
  <2>4. CASE ~(start[k] + o <= Len(pipe))
    <3>1. k = m
      <4> SUFFICES ASSUME k # m PROVE FALSE
        OBVIOUS
      <4>1. k + 1 \in 1 .. m /\ m \in k + 1 .. Len(sent) + 1
        <5>1. m \in Nat /\ k \in 1 .. m /\ m = Len(sent)
          BY <1>2
        <5>2. QED
          BY <5>1
      <4>2. start[k + 1] <= start[m]
        BY <1>1, <4>1 DEF InPipe
      <4>3. start[k] + o <= start[m]
        <5>1. /\ start[k] \in Int /\ start[m] \in Int
              /\ FrameLength(sent[k]) \in Nat /\ o <= FrameLength(sent[k]) /\ o \in Nat
          <6>1. FrameLength(sent[k]) \in Nat
            BY <2>1, LastPart
          <6>2. QED
            BY <1>7, <2>1, <6>1
        <5>2. start[k + 1] = start[k] + FrameLength(sent[k])
          BY <2>1
        <5>3. QED
          BY <4>2, <5>1, <5>2
      <4>4. /\ start[m] \in Int /\ Len(accepted) \in Nat /\ Len(pipe) = start[m] + Len(accepted)
            /\ start[k] + o \in Int /\ ~(start[k] + o <= Len(pipe))
        BY <1>3, <1>7, <2>1, <2>2, <2>4
      <4>5. QED
        BY <4>3, <4>4
    <3>2. PICK i \in 1 .. Len(cells) : o = Len(accepted) + i
      <4>1. start[k] + o \in 1 .. Len(pipe) + Len(cells)
        BY <1>4, <1>8
      <4>2. Len(pipe) = start[k] + Len(accepted) /\ ~(start[k] + o <= start[k] + Len(accepted))
        BY <1>7, <2>4, <3>1
      <4>3. /\ start[k] \in Int /\ Len(accepted) \in Nat /\ Len(cells) \in Nat /\ o \in Nat
        BY <1>3, <2>1, <2>2
      <4> HIDE SizeAssumption, ProcessAssumption, LimitAssumption
      <4>4. Len(accepted) < o
        BY <4>2, <4>3
      <4>5. o <= Len(accepted) + Len(cells)
        BY <4>1, <4>2, <4>3
      <4>6. o - Len(accepted) \in 1 .. Len(cells) /\ o = Len(accepted) + (o - Len(accepted))
        BY <4>3, <4>4, <4>5
      <4>7. QED
        BY <4>6
    <3>3. start[k] + o = Len(pipe) + i
      <4>1. Len(pipe) = start[k] + Len(accepted) /\ o = Len(accepted) + i
        BY <1>7, <3>1, <3>2
      <4>2. i \in Nat
        BY <1>3
      <4>3. \A a \in Int, b, c \in Nat : a + (b + c) = (a + b) + c
        OBVIOUS
      <4>4. start[k] + (Len(accepted) + i) = (start[k] + Len(accepted)) + i
        BY <1>3, <2>1, <4>2, <4>3
      <4>5. QED
        BY <4>1, <4>4
    <3>4. o \in DOMAIN accepted'
      BY <1>3, <1>5, <3>2, <3>3
    <3>5. accepted'[o] = Frames(k, sent[k])[o]
      BY <1>2, <1>6, <3>1, <3>4
    <3>6. accepted'[Len(accepted) + i] = cells[i] /\ pipe'[Len(pipe) + i] = cells[i]
      BY <1>4, <1>5
    <3>7. accepted'[o] = cells[i]
      BY <3>2, <3>6, Zenon
    <3>8. pipe'[start[k] + o] = cells[i]
      BY <3>3, <3>6, Zenon
    <3>9. QED
      BY <3>5, <3>7, <3>8, Zenon
  <2>5. QED
    BY <2>3, <2>4
<1>9. Len(pipe') = IF spc' = "idle" THEN start[m + 1] ELSE start[m] + Len(accepted')
  <2>1. Len(pipe') = start[m] + Len(accepted')
    BY <1>3, <1>4, <1>5, <1>7
  <2>2. spc' = "idle" => start[m + 1] = start[m] + Len(accepted')
    BY <1>6, <1>7
  <2>3. QED
    BY <2>1, <2>2
<1>10. InPipe(start)'
  <2>1. \A k \in 1 .. m :
          /\ start[k + 1] = start[k] + FrameLength(sent[k])
          /\ \A l \in k + 1 .. m + 1 : start[k + 1] <= start[l]
    BY <1>1 DEF InPipe
  <2>2. QED
    BY <1>8, <1>9, <2>1 DEF InPipe
<1>11. InStep(start)'
  BY <1>1 DEF InStep, ReceivingAt
<1>12. QED
  BY <1>10, <1>11 DEF Located

\* What Receive has returned stays what was sent when Send takes another message, and
\* when it returns, as long as Receive is not ahead of it or it does not return OK.
LEMMA StillReceived ==
  ASSUME TypeInv, SendInv, ReceivedAsSent, interrupts = 0, UNCHANGED received,
         \/ UNCHANGED <<sent, results>>
         \/ spc = "idle" /\ UNCHANGED results /\ \E size \in Sizes : sent' = Append(sent, size)
         \/ UNCHANGED sent /\ \E r : /\ results' = Append(results, r)
                                     /\ r = "OK" => Len(received) <= Len(results)
  PROVE  ReceivedAsSent'
<1>1. /\ Len(received) \in Nat /\ DOMAIN received = 1 .. Len(received)
      /\ sent \in Seq(Sizes) /\ results \in Seq({"OK", "WRITE_ERR"}) /\ Len(results) \in Nat
  BY DEF TypeInv, Types
<1>2. CASE UNCHANGED <<sent, results>>
  BY <1>2 DEF ReceivedAsSent
<1>3. ASSUME spc = "idle", UNCHANGED results, NEW size \in Sizes, sent' = Append(sent, size)
      PROVE  ReceivedAsSent'
  <2>1. Len(results) = Len(sent)
    BY <1>3 DEF SendInv
  <2>2. \A k \in 1 .. Len(results) : sent'[k] = sent[k]
    BY <1>1, <1>3, <2>1
  <2>3. \A k \in DOMAIN received : k <= Len(results) => k \in 1 .. Len(results)
    BY <1>1
  <2>4. QED
    BY <1>3, <2>2, <2>3 DEF ReceivedAsSent
<1>4. ASSUME UNCHANGED sent, NEW r, results' = Append(results, r),
             r = "OK" => Len(received) <= Len(results)
      PROVE  ReceivedAsSent'
  <2>1. /\ Len(results') = Len(results) + 1 /\ results'[Len(results) + 1] = r
        /\ \A k \in 1 .. Len(results) : results'[k] = results[k]
    BY <1>1, <1>4
  <2>2. ASSUME NEW k \in DOMAIN received, k <= Len(results'), results'[k] = "OK"
        PROVE  k <= Len(results) /\ results[k] = "OK"
    <3>1. k \in 1 .. Len(results) \/ k = Len(results) + 1
      BY <1>1, <2>1, <2>2
    <3>2. k # Len(results) + 1
      BY <1>1, <1>4, <2>1, <2>2
    <3>3. QED
      BY <1>1, <2>1, <2>2, <3>1, <3>2
  <2>3. QED
    BY <1>4, <2>2 DEF ReceivedAsSent
<1>5. QED
  BY <1>2, <1>3, <1>4

\* A step of Send that writes keeps Receive in step.
LEMMA WriteStep ==
  ASSUME TypeInv, TypeInv', SendInv, SendInv', ReceivedAsSent, "receiver" \in alive, Located,
         interrupts = 0, WriteHeader \/ WriteBody
  PROVE  Located' /\ ReceivedAsSent'
<1> USE DEF receiveVars
<1>1. PICK start \in [1 .. MaxMessages + 1 -> Int] : InPipe(start) /\ InStep(start)
  BY DEF Located
<1>2. accepted' \in Seq(Cell) /\ results \in Seq({"OK", "WRITE_ERR"})
  BY DEF TypeInv, Types
<1>3. CASE WriteHeader
  <2>1. <<SendHeader>> \in Seq(Cell) /\ spc # "idle" /\ spc' # "idle"
    BY <1>3, SentCells, WrittenCells DEF WriteHeader
  <2>2. /\ Accept(<<SendHeader>>) /\ "receiver" \in alive'
        /\ UNCHANGED <<sent, results, rpc, header, msg, received>>
    BY <1>3 DEF WriteHeader
  <2>3. Located'
    BY <1>2, <2>1, <2>2, WriteLocated
  <2>4. QED
    BY <2>2, <2>3 DEF ReceivedAsSent
<1>4. CASE WriteBody
  <2>1. Body \in Seq(Cell) /\ spc # "idle"
    BY <1>4, SentCells, WrittenCells DEF WriteBody
  <2>2. /\ Accept(Body) /\ NextPart /\ "receiver" \in alive'
        /\ UNCHANGED <<sent, rpc, header, msg, received>>
    BY <1>4 DEF WriteBody
  <2>3. Len(results) = Len(sent) - 1 /\ Len(sent) \in Nat \ {0}
    BY <2>1, SizePositive DEF SendInv, TypeInv, Types
  <2>4. \/ spc' = "idle" /\ results' = Append(results, "OK")
        \/ spc' = "header" /\ UNCHANGED results
    BY <2>2 DEF NextPart, Return
  <2>5. spc' = "idle" => /\ Len(results') = Len(sent) /\ results'[Len(results')] = "OK"
                         /\ results' # <<>>
    <3>1. CASE spc' = "idle"
      <4>1. results' = Append(results, "OK")
        BY <2>4, <3>1
      <4>2. Len(results') = Len(results) + 1 /\ results'[Len(results) + 1] = "OK"
            /\ results' # <<>>
        <5>1. results \in Seq({"OK", "WRITE_ERR"}) /\ "OK" \in {"OK", "WRITE_ERR"}
          BY <1>2
        <5>2. /\ Len(Append(results, "OK")) = Len(results) + 1
              /\ Append(results, "OK")[Len(results) + 1] = "OK"
              /\ Append(results, "OK") # <<>>
          BY <5>1, AppendProperties
        <5>3. QED
          BY <4>1, <5>2
      <4>3. QED
        BY <2>3, <4>2
    <3>2. QED
      BY <3>1
  <2>6. Located'
    BY <1>2, <2>1, <2>2, <2>5, WriteLocated
  <2>7. Len(received) <= Len(results)
    BY <1>1, NotAhead
  <2>8. ReceivedAsSent'
    BY <2>2, <2>4, <2>7, StillReceived
  <2>9. QED
    BY <2>6, <2>8
<1>5. QED
  BY <1>3, <1>4

\* A step of Receive keeps it in step, or finds the end of the file.
LEMMA ReadStep ==
  ASSUME TypeInv, SendInv, ReceivedAsSent, "receiver" \in alive, Derailed \/ Located,
         interrupts = 0, interrupts' = 0, ReceiveStep
  PROVE  (Derailed \/ Located)' /\ ReceivedAsSent'
<1> USE DEF sendVars
<1>1. CASE Located
  BY <1>1, HeaderStep, PartStep, LastStep DEF ReceiveStep
<1>2. CASE Derailed
  <2>1. pipe = <<>> /\ "sender" \notin alive /\ Len(results) <= Len(received)
        /\ Len(received) \in Nat /\ received \in Seq(Seq(Cell)) /\ Len(results) \in Nat
    BY <1>2 DEF Derailed, TypeInv, Types
  <2>2. UNCHANGED <<alive, sent, results>>
    BY DEF ReceiveStep, FirstHeader, NextHeader, ReadPart, ReadLast
  <2>3. pipe' = <<>>
    BY <2>1, NothingFound DEF ReceiveStep, FirstHeader, NextHeader, ReadPart, ReadLast, Read
  <2>4. CASE ReadLast
    <3>1. received' = Append(received, Extended(header.n))
      BY <2>4 DEF ReadLast
    <3>2. Len(received') = Len(received) + 1
      BY <2>1, <3>1
    <3>3. ~(Len(received) + 1 <= Len(results))
      BY <2>1
    <3>4. ReceivedAsSent'
      BY <2>2, <3>1, <3>3, MessageReturned
    <3>5. Len(results') <= Len(received')
      BY <2>1, <2>2, <3>2
    <3>6. QED
      BY <2>1, <2>2, <2>3, <3>4, <3>5 DEF Derailed
  <2>5. CASE ~ReadLast
    <3>1. UNCHANGED received
      BY <2>5 DEF ReceiveStep, FirstHeader, NextHeader, ReadPart
    <3>2. QED
      BY <2>1, <2>2, <2>3, <3>1 DEF Derailed, ReceivedAsSent
  <2>6. QED
    BY <2>4, <2>5
<1>3. QED
  BY <1>1, <1>2

\* Every step keeps Receive in step with Send, until a call is interrupted.
LEMMA PipingStep ==
  ASSUME TypeInv, TypeInv', SendInv, SendInv', ReceivedAsSent,
         "receiver" \in alive => Derailed \/ Located,
         interrupts = 0, interrupts' = 0, [Next]_vars
  PROVE  /\ ReceivedAsSent'
         /\ "receiver" \in alive' => (Derailed \/ Located)'
<1> USE DEF sendVars, receiveVars
<1>1. ASSUME NEW size \in Sizes, CallSend(size), UNCHANGED FromWorker
      PROVE  /\ ReceivedAsSent'
             /\ "receiver" \in alive' => (Derailed \/ Located)'
  <2>1. ReceivedAsSent'
    BY <1>1, StillReceived DEF CallSend
  <2>2. UNCHANGED alive /\ ~Derailed
    BY <1>1 DEF CallSend, Derailed
  <2>3. QED
    BY <1>1, <2>1, <2>2, CallLocated
<1>2. CASE (WriteHeader \/ WriteBody) /\ UNCHANGED FromWorker
  <2>1. "receiver" \in alive /\ ~Derailed
    BY <1>2 DEF WriteHeader, WriteBody, Derailed
  <2>2. QED
    BY <1>2, <2>1, WriteStep
<1>3. CASE HeaderLost /\ UNCHANGED FromWorker
  <2>1. "receiver" \notin alive' /\ UNCHANGED <<sent, results, received>>
    BY <1>3, FailureMeansDeath DEF HeaderLost
  <2>2. QED
    BY <2>1, StillReceived
<1>4. CASE BodyLost /\ UNCHANGED FromWorker
  <2>1. "receiver" \notin alive' /\ UNCHANGED <<sent, received>>
        /\ results' = Append(results, "WRITE_ERR")
    BY <1>4, FailureMeansDeath DEF BodyLost, Return
  <2>2. QED
    BY <2>1, StillReceived
<1>5. CASE SigpipeKills /\ UNCHANGED FromWorker
  <2>1. "receiver" \notin alive' /\ UNCHANGED <<sent, results, received>>
    BY <1>5 DEF SigpipeKills
  <2>2. QED
    BY <2>1, StillReceived
<1>6. CASE ReceiveStep
  <2>1. "receiver" \in alive
    BY <1>6 DEF ReceiveStep, FirstHeader, NextHeader, ReadPart, ReadLast, Read, BodyRead,
       Interrupted
  <2>2. QED
    BY <1>6, <2>1, ReadStep
<1>7. ASSUME UNCHANGED <<pipe, sendVars, receiveVars>>, "receiver" \in alive' => "receiver" \in alive,
             "sender" \notin alive => "sender" \notin alive'
      PROVE  /\ ReceivedAsSent'
             /\ "receiver" \in alive' => (Derailed \/ Located)'
  <2>1. ReceivedAsSent'
    BY <1>7, StillReceived
  <2>2. Derailed => Derailed'
    BY <1>7 DEF Derailed
  <2>3. \A start : InPipe(start) /\ InStep(start) => (InPipe(start) /\ InStep(start))'
    BY <1>7 DEF InPipe, InStep, ReceivingAt
  <2>4. Located => Located'
    BY <2>3 DEF Located
  <2>5. QED
    BY <1>7, <2>1, <2>2, <2>4
<1>8. ASSUME NEW p \in Mortal, Die(p), UNCHANGED FromWorker
      PROVE  /\ ReceivedAsSent'
             /\ "receiver" \in alive' => (Derailed \/ Located)'
  <2>1. CASE p = "receiver"
    <3>1. "receiver" \notin alive' /\ UNCHANGED <<sent, results, received>>
      BY <1>8, <2>1 DEF Die
    <3>2. QED
      BY <3>1, StillReceived
  <2>2. CASE p # "receiver"
    BY <1>7, <1>8, <2>2 DEF Die
  <2>3. QED
    BY <2>1, <2>2
<1>9. CASE UNCHANGED vars
  BY <1>7, <1>9 DEF vars
<1>10. QED
  BY <1>1, <1>2, <1>3, <1>4, <1>5, <1>6, <1>8, <1>9 DEF Next, SendStep

\* As long as no call is interrupted Receive is in step with Send, message by message
\* and part by part, until it reads the end of the file a dead process left.
THEOREM PipeInStep == Spec => [](TypeInv /\ PipingInv)
<1> DEFINE Inv == TypeInv /\ PipingInv
<1>1. Init => Inv
  <2> SUFFICES ASSUME Init PROVE Inv
    OBVIOUS
  <2>1. TypeInv
    BY DEF Init, TypeInv, Types, Last, Cell
  <2>2. SendInv /\ ReceivedAsSent
    BY DEF Init, SendInv, LastOkAccepted, ReceivedAsSent
  <2>3. Located
    <3> DEFINE start == [k \in 1 .. MaxMessages + 1 |-> 0]
    <3>1. start \in [1 .. MaxMessages + 1 -> Int] /\ start[1] = 0 /\ 1 \in 1 .. MaxMessages + 1
      OBVIOUS
    <3>2. InPipe(start) /\ InStep(start)
      <4> HIDE DEF start
      <4>1. Len(<<>>) = 0 /\ 1 .. 0 = {}
        OBVIOUS
      <4>2. QED
        BY <3>1, <4>1 DEF Init, InPipe, InStep
    <3>3. QED
      BY <3>1, <3>2 DEF Located
  <2>4. QED
    BY <2>1, <2>2, <2>3 DEF PipingInv, Located
<1>2. Inv /\ [Next]_vars => Inv'
  <2> SUFFICES ASSUME TypeInv, PipingInv, [Next]_vars
               PROVE  Inv'
    OBVIOUS
  <2>1. TypeInv'
    BY TypeStep
  <2>2. ASSUME interrupts' = 0
        PROVE  /\ SendInv' /\ ReceivedAsSent'
               /\ "receiver" \in alive' => (Derailed \/ Located)'
    <3>1. interrupts = 0
      BY <2>2 DEF Next, SendStep, ReceiveStep, CallSend, WriteHeader, HeaderLost, WriteBody,
         BodyLost, WriteFails, SigpipeKills, FirstHeader, NextHeader, ReadPart, ReadLast,
         BodyRead, Interrupted, Die, vars, TypeInv, Types
    <3>2. /\ SendInv /\ ReceivedAsSent
          /\ "receiver" \in alive => Derailed \/ Located
      BY <3>1 DEF PipingInv, Located
    <3>3. SendInv'
      BY <2>2, <3>1, <3>2, SendInvStep
    <3>4. QED
      BY <2>1, <2>2, <3>1, <3>2, <3>3, PipingStep
  <2>3. PipingInv'
    BY <2>2 DEF PipingInv, Located
  <2>4. QED
    BY <2>1, <2>3
<1>3. QED
  BY <1>1, <1>2, PTL DEF Spec

\* Every Receive returns the message that was sent, whole and nothing else, whatever
\* the sizes and however full the pipe was, if Send had written all of it.
THEOREM MessagesKeptApart == Spec => []ReceivedAsSent
<1>1. TypeInv /\ PipingInv => ReceivedAsSent
  BY DEF PipingInv, ReceivedAsSent
<1>2. QED
  BY <1>1, PipeInStep, PTL

\* A header is read where a header was written: sizes are never taken from text.
THEOREM HeadersFound == Spec => []FramesAligned
<1>1. TypeInv /\ PipingInv => FramesAligned
  <2> SUFFICES ASSUME TypeInv, PipingInv, interrupts = 0, Read, rpc = "header" \/ rpc = "idle"
               PROVE  Head(pipe).type # "byte"
    BY DEF FramesAligned
  <2>1. "receiver" \in alive /\ pipe # <<>> /\ ~Derailed
    BY DEF Read, Derailed
  <2>2. SendInv /\ \E start \in [1 .. MaxMessages + 1 -> Int] : InPipe(start) /\ InStep(start)
    BY <2>1 DEF PipingInv
  <2>3. QED
    BY <2>1, <2>2, HeaderNext
<1>2. QED
  BY <1>1, PipeInStep, PTL

=============================================================================

------------------------------- MODULE Piping -------------------------------
(***************************************************************************)
(* Send and Receive (Piping.c) over one direction of one worker's pair of  *)
(* pipes: how a message is cut into parts of at most MAX_MSG_SIZE bytes,   *)
(* each behind a header, how the parts are written, read and put together  *)
(* again, and what is left of that when a process dies or a signal handler *)
(* interrupts a system call.  This is the channel that module JobExecutor  *)
(* takes to be atomic.                                                     *)
(*                                                                         *)
(* The pipe is a sequence of cells: a byte of a message, or a header.  The *)
(* four bytes of a header count as one cell; they are written in one write *)
(* as the at most MAX_MSG_SIZE < PIPE_BUF bytes of a part are, and such    *)
(* writes are atomic.                                                      *)
(***************************************************************************)
EXTENDS Integers, Sequences

CONSTANTS
  MAX_MSG_SIZE,
  Capacity,       \* cells the pipe holds (64 KiB in the system)
  Sizes,          \* sizes of the messages, final \0 included
  GarbageSizes,   \* lengths a header may state that was never one
  Mortal,         \* processes that may die, a subset of {"sender", "receiver"}
  MaxMessages,    \* bound: messages sent
  MaxReceives,    \* bound: calls of Receive
  MaxInterrupts   \* bound: system calls interrupted by a handler

ASSUME SizeAssumption ==
  /\ MAX_MSG_SIZE \in Nat \ {0} /\ Capacity \in Nat /\ Capacity >= MAX_MSG_SIZE
  /\ Sizes \subseteq Nat \ {0} /\ GarbageSizes \subseteq Nat
ASSUME ProcessAssumption == Mortal \subseteq {"sender", "receiver"}
ASSUME LimitAssumption ==
  MaxMessages \in Nat /\ MaxReceives \in Nat /\ MaxInterrupts \in Nat

VARIABLES
  FromWorker,  \* TRUE: a worker answers the console; FALSE: the other way; fixed
  alive,       \* the processes that live
  pipe,
  spc,         \* where Send is: "idle", "header", "body"
  sent,        \* sizes of the messages Send was called for; the last is msg
  msg_offset,
  accepted,    \* history: the cells of msg the pipe has accepted
  results,     \* history: results[k] is what the k-th Send returned
  rpc,         \* where Receive is: "idle", "part", "header", "last"
  header,      \* its variable of that name
  msg,         \* what it has put together so far
  received,    \* history: what Receive returned, <<>> for NULL
  interrupts

sendVars    == <<spc, sent, msg_offset, accepted, results>>
receiveVars == <<rpc, header, msg, received>>
vars        == <<FromWorker, alive, pipe, sendVars, receiveVars, interrupts>>

Part(n)    == [type |-> "part", of |-> 0, n |-> n]   \* lmb of the header is 1
Last(n)    == [type |-> "last", of |-> 0, n |-> n]   \* lmb of the header is 0
Byte(k, i) == [type |-> "byte", of |-> k, n |-> i]

Junk    == [type |-> "junk", of |-> 0, n |-> 0]      \* uninitialised memory
Garbled == <<Junk>>
Garbage == {Part(n) : n \in GarbageSizes} \cup {Last(n) : n \in GarbageSizes}

Cell == [type : {"part", "last", "byte", "junk"}, of : 0 .. MaxMessages, n : Nat]

Types ==
  /\ FromWorker \in BOOLEAN
  /\ alive \subseteq {"sender", "receiver"}
  /\ pipe \in Seq(Cell) /\ Len(pipe) <= Capacity
  /\ spc \in {"idle", "header", "body"} /\ msg_offset \in Nat
  /\ sent \in Seq(Sizes) /\ Len(sent) <= MaxMessages
  /\ accepted \in Seq(Cell)
  /\ results \in Seq({"OK", "WRITE_ERR"})
  /\ rpc \in {"idle", "part", "header", "last"}
  /\ header \in Cell /\ header.type \in {"part", "last"}
  /\ msg \in Seq(Cell) /\ received \in Seq(Seq(Cell))
  /\ interrupts \in 0 .. MaxInterrupts

\* A byte of a message Send was called for, or the header of a part.
Inside(c) ==
  IF c.type = "byte" THEN c.of \in DOMAIN sent /\ c.n \in 1 .. sent[c.of]
                     ELSE c.type \in {"part", "last"} /\ c.n \in 1 .. MAX_MSG_SIZE

\* Send never reads behind the end of its message, nor announces a part that
\* does not fit the buffer, whatever writes before it were interrupted, lost to
\* a dead reader, or cut short by a death.
SentFromInside == \A i \in DOMAIN pipe : Inside(pipe[i])

TypeOK == Types /\ SentFromInside

Init ==
  /\ FromWorker \in BOOLEAN
  /\ alive = {"sender", "receiver"}
  /\ pipe = <<>>
  /\ spc = "idle" /\ sent = <<>> /\ msg_offset = 0
  /\ accepted = <<>> /\ results = <<>>
  /\ rpc = "idle" /\ header = Last(0) /\ msg = <<>> /\ received = <<>>
  /\ interrupts = 0

-----------------------------------------------------------------------------
(* Send *)

msg_size == sent[Len(sent)]

\* Mutant: a message that ends a part exactly is taken for a longer one.
FitsStrictly == msg_size - msg_offset < MAX_MSG_SIZE

Fits == msg_size - msg_offset <= MAX_MSG_SIZE

\* Mutant: every part is as long as the longest.
FullSize == MAX_MSG_SIZE

real_size == IF Fits THEN msg_size - msg_offset ELSE MAX_MSG_SIZE

\* Mutant: the \0 at the end of every part counted out of its size.
ShortHeader == IF Fits THEN Last(real_size) ELSE Part(real_size - 1)

SendHeader == IF Fits THEN Last(real_size) ELSE Part(real_size)

Body == [i \in 1 .. real_size |-> Byte(Len(sent), msg_offset + i)]

Room(n) == Len(pipe) + n <= Capacity

Accept(cells) == pipe' = pipe \o cells /\ accepted' = accepted \o cells

CallSend(size) ==
  /\ spc = "idle" /\ "sender" \in alive /\ Len(sent) < MaxMessages
  /\ spc' = "header"
  /\ sent' = Append(sent, size)
  /\ msg_offset' = 0 /\ accepted' = <<>>
  /\ UNCHANGED <<alive, pipe, results, receiveVars, interrupts>>

WriteHeader ==
  /\ spc = "header" /\ {"sender", "receiver"} \subseteq alive /\ Room(1)
  /\ Accept(<<SendHeader>>)
  /\ spc' = "body"
  /\ UNCHANGED <<alive, sent, msg_offset, results, receiveVars, interrupts>>

\* write returns -1: for the console, which ignores SIGPIPE, with EPIPE when the
\* worker is dead; for both with EINTR while it waits for room for n bytes.
WriteFails(n) ==
  /\ "sender" \in alive
  /\ \/ "receiver" \notin alive /\ ~FromWorker /\ UNCHANGED interrupts
     \/ /\ "receiver" \in alive /\ ~Room(n)
        /\ interrupts < MaxInterrupts /\ interrupts' = interrupts + 1

\* val = -1 is compared with sizeof(int) as an unsigned number: Send goes on.
HeaderLost ==
  /\ spc = "header" /\ WriteFails(1)
  /\ spc' = "body"
  /\ UNCHANGED <<alive, pipe, sent, msg_offset, accepted, results, receiveVars>>

Return(result) == spc' = "idle" /\ results' = Append(results, result)

\* while(msg_offset < msg_size)
NextPart ==
  /\ msg_offset' = msg_offset + real_size
  /\ IF msg_offset' < msg_size THEN spc' = "header" /\ UNCHANGED results
                               ELSE Return("OK")

WriteBody ==
  /\ spc = "body" /\ {"sender", "receiver"} \subseteq alive /\ Room(real_size)
  /\ Accept(Body)
  /\ NextPart
  /\ UNCHANGED <<alive, sent, receiveVars, interrupts>>

\* Mutant: val is compared with an unsigned size here too.
BodyLostUnseen ==
  /\ spc = "body" /\ WriteFails(real_size)
  /\ NextPart
  /\ UNCHANGED <<alive, pipe, sent, accepted, receiveVars>>

\* The write of a part fails; here the comparison is a signed one.
BodyLost ==
  /\ spc = "body" /\ WriteFails(real_size)
  /\ Return("WRITE_ERR")
  /\ UNCHANGED <<alive, pipe, sent, msg_offset, accepted, receiveVars>>

\* A worker has SIGPIPE's default action restored.
SigpipeKills ==
  /\ spc # "idle" /\ FromWorker /\ "sender" \in alive /\ "receiver" \notin alive
  /\ alive' = {}
  /\ UNCHANGED <<pipe, sendVars, receiveVars, interrupts>>

-----------------------------------------------------------------------------
(* Receive.  No read is checked: one that is interrupted, or finds the end of *)
(* the file, leaves its variable or buffer as it was.                         *)

AtEnd == pipe = <<>> /\ "sender" \notin alive

Read == "receiver" \in alive /\ pipe # <<>>

\* Four bytes of text are read as some header.
HeaderRead == IF Head(pipe).type = "byte" THEN Garbage ELSE {Head(pipe)}

\* The first read.  At the end of the file `header' stays uninitialised; the
\* console does not come here then, it waits for POLLIN first.
FirstHeader ==
  /\ rpc = "idle" /\ Len(received) < MaxReceives
  /\ \/ Read /\ header' \in HeaderRead /\ pipe' = Tail(pipe)
     \/ /\ ~FromWorker /\ AtEnd /\ "receiver" \in alive
        /\ header' \in Garbage /\ UNCHANGED pipe
  /\ rpc' = header'.type
  /\ msg' = <<>>
  /\ UNCHANGED <<alive, sendVars, received, interrupts>>

\* SIGALRM interrupts the console's read; a worker that waits for a message has
\* no handler installed.
Interrupted ==
  /\ FromWorker /\ "receiver" \in alive /\ pipe = <<>> /\ "sender" \in alive
  /\ interrupts < MaxInterrupts /\ interrupts' = interrupts + 1

\* The header of the next part.
NextHeader ==
  /\ rpc = "header"
  /\ \/ Read /\ header' \in HeaderRead /\ pipe' = Tail(pipe) /\ UNCHANGED interrupts
     \/ AtEnd /\ "receiver" \in alive /\ UNCHANGED <<pipe, header, interrupts>>
     \/ Interrupted /\ UNCHANGED <<pipe, header>>
  /\ rpc' = header'.type
  /\ UNCHANGED <<alive, sendVars, msg, received>>

Shorter(a, b) == IF a < b THEN a ELSE b

\* What read(fd, buffer, n) finds: at most n bytes, fewer if there are fewer.
Found(n) == SubSeq(pipe, 1, Shorter(n, Len(pipe)))

\* msg with what was found appended; the rest of the buffer is whatever it was.
Extended(n) ==
  IF msg = Garbled \/ Len(Found(n)) < n THEN Garbled ELSE msg \o Found(n)

\* read returns: at once for 0 bytes, with some bytes, or without any.
BodyRead(n) ==
  \/ /\ "receiver" \in alive /\ (n = 0 \/ pipe # <<>> \/ AtEnd)
     /\ UNCHANGED interrupts
  \/ n > 0 /\ Interrupted

\* Mutant: the loop overwrites msg instead of appending to it.
ForgetParts ==
  /\ rpc = "part" /\ BodyRead(header.n)
  /\ msg' = Found(header.n)
  /\ pipe' = SubSeq(pipe, Len(Found(header.n)) + 1, Len(pipe))
  /\ rpc' = "header"
  /\ UNCHANGED <<alive, sendVars, header, received>>

ReadPart ==
  /\ rpc = "part" /\ BodyRead(header.n)
  /\ msg' = Extended(header.n)
  /\ pipe' = SubSeq(pipe, Len(Found(header.n)) + 1, Len(pipe))
  /\ rpc' = "header"
  /\ UNCHANGED <<alive, sendVars, header, received>>

\* Receive returns NULL for a message of size 0.
ReadLast ==
  /\ rpc = "last" /\ BodyRead(header.n)
  /\ received' = Append(received, Extended(header.n))
  /\ pipe' = SubSeq(pipe, Len(Found(header.n)) + 1, Len(pipe))
  /\ msg' = <<>>
  /\ rpc' = "idle"
  /\ UNCHANGED <<alive, sendVars, header>>

-----------------------------------------------------------------------------
\* A process dies, in the middle of a message or not; the pipe keeps what was
\* written as long as the receiver lives.
Die(p) ==
  /\ p \in Mortal \cap alive
  /\ alive' = alive \ {p}
  /\ pipe' = IF p = "receiver" THEN <<>> ELSE pipe
  /\ UNCHANGED <<sendVars, receiveVars, interrupts>>

SendStep ==
  /\ WriteHeader \/ HeaderLost \/ WriteBody \/ BodyLost \/ SigpipeKills
  /\ UNCHANGED FromWorker

ReceiveStep ==
  /\ FirstHeader \/ NextHeader \/ ReadPart \/ ReadLast
  /\ UNCHANGED FromWorker

Next ==
  \/ SendStep \/ ReceiveStep
  \/ /\ \/ \E size \in Sizes : CallSend(size)
        \/ \E p \in Mortal : Die(p)
     /\ UNCHANGED FromWorker

Spec == Init /\ [][Next]_vars

\* Both processes are scheduled; nothing makes them send, die or be interrupted:
\* one that can do nothing but be interrupted may wait for ever.
FairSpec ==
  /\ Spec
  /\ WF_vars(SendStep /\ UNCHANGED interrupts)
  /\ WF_vars(ReceiveStep /\ UNCHANGED interrupts)

-----------------------------------------------------------------------------
(* Properties *)

\* How a message of the given size should be laid out in the pipe: all parts
\* but the last are full, and the last, which is never empty, says so.
FullParts(size)   == (size - 1) \div MAX_MSG_SIZE
FrameLength(size) == size + FullParts(size) + 1

HeaderOf(p, size) ==
  IF p < FullParts(size) THEN Part(MAX_MSG_SIZE)
                         ELSE Last(size - FullParts(size) * MAX_MSG_SIZE)

Frames(k, size) ==
  [j \in 1 .. FrameLength(size) |->
     LET p == (j - 1) \div (MAX_MSG_SIZE + 1)
         i == (j - 1) % (MAX_MSG_SIZE + 1)
     IN  IF i = 0 THEN HeaderOf(p, size) ELSE Byte(k, p * MAX_MSG_SIZE + i)]

Payload(k, size) == [i \in 1 .. size |-> Byte(k, i)]

\* The last call of Send returned OK and the pipe has taken the whole message,
\* each part behind its header.
LastOkAccepted ==
  results # <<>> /\ Len(results) = Len(sent) /\ results[Len(results)] = "OK" =>
    accepted = Frames(Len(sent), msg_size)

\* As long as no handler has interrupted a system call, Send returns OK only when
\* the pipe has taken the whole message: a worker that dies at any point of it is
\* noticed, although the comparison that should notice it at the header is wrong
\* (Console and CheckChildren rely on it).
OkMeansAccepted == interrupts = 0 => LastOkAccepted

\* As long as no call was interrupted, the k-th Receive returns the k-th message,
\* whole and nothing else, whatever the sizes and however full the pipe was, if
\* Send had written all of it before its process died.
ReceivedAsSent ==
  interrupts = 0 =>
    \A k \in DOMAIN received :
      k <= Len(results) /\ results[k] = "OK" => received[k] = Payload(k, sent[k])

\* As long as no call was interrupted and the sender lives, a header is read where
\* a header was written: sizes are never taken from text.
FramesAligned ==
  interrupts = 0 /\ Read /\ (rpc = "header" \/ rpc = "idle") =>
    Head(pipe).type # "byte"

-----------------------------------------------------------------------------
(* Why they hold, as long as no call is interrupted: an inductive invariant *)

\* Send is at the header or the body of part p of its message, and what the pipe
\* has accepted are the cells before that; it has a result for every other message.
SendInv ==
  /\ Len(results) = IF spc = "idle" THEN Len(sent) ELSE Len(sent) - 1
  /\ spc # "idle" =>
       /\ msg_offset < msg_size
       /\ \E p \in 0 .. FullParts(msg_size) :
            /\ msg_offset = p * MAX_MSG_SIZE
            /\ "receiver" \in alive =>
                 /\ Len(accepted) = msg_offset + p + (IF spc = "body" THEN 1 ELSE 0)
                 /\ \A j \in DOMAIN accepted : accepted[j] = Frames(Len(sent), msg_size)[j]
  /\ LastOkAccepted

\* The unread cells are the last ones written: cell o of message k is, or was, or
\* will be cell start[k] + o of the pipe.
InPipe(start) ==
  /\ start \in [1 .. MaxMessages + 1 -> Int]
  /\ \A k \in 1 .. Len(sent) :
       /\ start[k + 1] = start[k] + FrameLength(sent[k])
       /\ \A l \in k + 1 .. Len(sent) + 1 : start[k + 1] <= start[l]
       /\ \A o \in 1 .. FrameLength(sent[k]) :
            start[k] + o \in DOMAIN pipe => pipe[start[k] + o] = Frames(k, sent[k])[o]
  /\ Len(pipe) = IF spc = "idle" THEN start[Len(sent) + 1]
                                 ELSE start[Len(sent)] + Len(accepted)

\* Receive is at the header or the body of part p of message k, which is the next
\* cell of the pipe, and has put together the parts before it.
ReceivingAt(start, k, p) ==
  /\ msg = Payload(k, p * MAX_MSG_SIZE)
  /\ IF rpc = "header" THEN start[k] + p * (MAX_MSG_SIZE + 1) = 0
     ELSE /\ start[k] + p * (MAX_MSG_SIZE + 1) + 1 = 0
          /\ header = HeaderOf(p, sent[k]) /\ rpc = header.type

InStep(start) ==
  IF rpc = "idle"
    THEN Len(received) <= Len(sent) /\ start[Len(received) + 1] = 0
    ELSE /\ Len(received) < Len(sent)
         /\ \E p \in 0 .. FullParts(sent[Len(received) + 1]) :
              ReceivingAt(start, Len(received) + 1, p)

\* Receive has met the end of the file and from then on makes up messages.
Derailed == "sender" \notin alive /\ pipe = <<>> /\ Len(results) <= Len(received)

PipingInv ==
  interrupts = 0 =>
    /\ SendInv
    /\ ReceivedAsSent
    /\ "receiver" \in alive =>
         Derailed \/ \E start \in [1 .. MaxMessages + 1 -> Int] :
                      InPipe(start) /\ InStep(start)

-----------------------------------------------------------------------------
(* Liveness *)

\* Every message sent is received, however large, through a pipe that holds little
\* more than one part, unless a process dies or a call is interrupted.
EverythingReceived ==
  \A k \in 1 .. MaxMessages :
    Len(sent) = k ~> \/ Len(received) >= k
                     \/ alive # {"sender", "receiver"} \/ interrupts > 0

=============================================================================

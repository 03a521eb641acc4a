-------------------------- MODULE BufferTransports --------------------------
(***************************************************************************)
(* TBufferedTransport and TFramedTransport (transport/TBufferTransports.h  *)
(* and .cpp): a writing program and a reading program, each with an object *)
(* of one of the two classes, and the connection between them.             *)
(*                                                                         *)
(* The buffers are what lies between their two pointers: rBuf the bytes    *)
(* from rBase_ to rBound_, wBuf those from the start of the write buffer,  *)
(* or from behind the room for the frame size, to wBase_.  The connection  *)
(* is the transport_ below, a socket: a read blocks while nothing has come *)
(* and returns some of what has, and nothing once the other end has closed *)
(* it.  A read() that has to wait is in phase "fill" or "payload"; every   *)
(* other operation is one step.                                            *)
(***************************************************************************)
EXTENDS Sequences, FiniteSets, MessageBudget

CONSTANTS
    Kinds,              \* the classes in use: "buffered", "framed"
    RBufSize,           \* rBufSize_ of a TBufferedTransport
    WBufSize,           \* the size the write buffer is created with
    DefaultBufferSize,  \* DEFAULT_BUFFER_SIZE
    MaxFrameSize,       \* maxFrameSize_
    Thresholds,         \* the values of bufReclaimThresh_ in use
    NoThreshold,        \* its default, which nothing exceeds
    Pipelined,          \* whether a frame of several messages meets a threshold
    WriteLengths, ReadLengths,
    MaxBytes            \* bound on the bytes written

HeaderSize == 4

ASSUME TransportAssumption ==
    /\ Kinds \subseteq {"buffered", "framed"}
    /\ RBufSize \in Nat \ {0} /\ WBufSize \in Nat \ {0}
    /\ DefaultBufferSize \in Nat /\ DefaultBufferSize > HeaderSize
    /\ MaxFrameSize \in Nat /\ Thresholds \subseteq Nat /\ NoThreshold \in Nat
    /\ Pipelined \in BOOLEAN
    /\ WriteLengths \subseteq Nat \ {0} /\ ReadLengths \subseteq Nat \ {0}
    /\ MaxBytes \in Nat

VARIABLES
    kind,               \* the class of both objects
    bufReclaimThresh_,
    wBuf, wBufSize_,    \* the write buffer
    wState,             \* "open", "failed" (a flush threw), "torn" (a write
                        \* did), "closed", "reset"
    wire,               \* the bytes in the connection
    rBuf, rBufSize_,    \* the read buffer
    budget,             \* knownMessageSize_ and remainingMessageSize_
    budgetBoundToBuffer_,
    frame,              \* the size of the frame read last
    phase,              \* "idle", "fill", "payload", "ended"
    op, want,           \* the call in progress and what it still wants
    part,               \* what has come of a frame size or a frame
    error,              \* the exception that ended the reader
    sent, flushes,      \* what was written, and where it was flushed
    received            \* what was read

writerVars == <<wBuf, wBufSize_, wState, sent, flushes>>
readerVars == <<rBuf, rBufSize_, budget, budgetBoundToBuffer_, frame, phase,
                op, want, part, error, received>>
fixedVars == <<kind, bufReclaimThresh_>>
vars == <<fixedVars, writerVars, wire, readerVars>>

Lesser(m, n) == IF m < n THEN m ELSE n

Dropped(s, n) == SubSeq(s, n + 1, Len(s))

(* The size of a frame in network byte order, and back.                    *)
htonl(n) ==
    LET higher(m) == m \div 256
    IN  <<higher(higher(higher(n))) % 256, higher(higher(n)) % 256, higher(n) % 256, n % 256>>

ntohl(b) == 256 * (256 * (256 * b[1] + b[2]) + b[3]) + b[4]

(* TFramedTransport::writeSlow doubles the buffer until need bytes fit.    *)
Doubled(size, need) ==
    LET new_size[n \in Nat] == IF n >= need THEN n ELSE new_size[IF n > 0 THEN 2 * n ELSE 1]
    IN  new_size[size]

Init ==
    /\ kind \in Kinds
    /\ bufReclaimThresh_ \in Thresholds
    /\ wBuf = <<>> /\ wState = "open"
    /\ wBufSize_ = IF kind = "framed" THEN Doubled(WBufSize, HeaderSize) ELSE WBufSize
    /\ wire = <<>>
    /\ rBuf = <<>> /\ rBufSize_ = 0
    /\ budget = FullBudget /\ budgetBoundToBuffer_ = FALSE /\ frame = 0
    /\ phase = "idle" /\ op = "none" /\ want = 0 /\ part = <<>> /\ error = "none"
    /\ sent = <<>> /\ flushes = {} /\ received = <<>>

-----------------------------------------------------------------------------
(* Writing.                                                                *)

(* The next n bytes of the program, all different.                         *)
NextBytes(n) == [i \in 1..n |-> (Len(sent) + i) % 256]

(* TBufferedTransport::writeSlow: two writes if the buffer is empty or the *)
(* bytes fill it twice, otherwise one with a full buffer.                  *)
TwoWrites(n) == Len(wBuf) + n >= 2 * wBufSize_ \/ wBuf = <<>>

(* Mutated BufferedWriteSlow: what is kept is the beginning of the data.   *)
BufferedWriteSlowUnadvanced(data) ==
    LET space == wBufSize_ - Len(wBuf)
    IN  /\ wire' = wire \o wBuf \o (IF TwoWrites(Len(data)) THEN data
                                    ELSE SubSeq(data, 1, space))
        /\ wBuf' = IF TwoWrites(Len(data)) THEN <<>>
                   ELSE SubSeq(data, 1, Len(data) - space)
        /\ wState' = wState

BufferedWriteSlow(data) ==
    LET space == wBufSize_ - Len(wBuf)
        rest == Dropped(data, space)
    IN  IF TwoWrites(Len(data))
        THEN /\ wire' = wire \o wBuf \o data
             /\ wBuf' = <<>> /\ wState' = wState
        ELSE /\ wire' = wire \o wBuf \o SubSeq(data, 1, space)
             /\ IF Len(rest) >= wBufSize_
                THEN wState' = "failed" /\ wBuf' = wBuf
                ELSE wState' = wState /\ wBuf' = rest

Write(n) ==
    /\ wState = "open"
    /\ Len(sent) + n <= MaxBytes
    /\ sent' = sent \o NextBytes(n)
    /\ LET data == NextBytes(n)
           pad == IF kind = "framed" THEN HeaderSize ELSE 0
           need == pad + Len(wBuf) + n
       IN  IF need <= wBufSize_ \/ kind = "framed"
           THEN /\ wBuf' = wBuf \o data
                /\ wBufSize_' = IF need <= wBufSize_ THEN wBufSize_
                                ELSE Doubled(wBufSize_, need)
                /\ UNCHANGED <<wire, wState>>
           ELSE BufferedWriteSlow(data) /\ UNCHANGED wBufSize_
    /\ UNCHANGED <<fixedVars, flushes, readerVars>>

(* A write of writeSlow() fails half way. The buffer is kept although some *)
(* of it was sent, and flush() or close() would send it again: what the    *)
(* program does with the transport after that is not followed.             *)
WriteFails(n) ==
    /\ wState = "open" /\ kind = "buffered"
    /\ Len(wBuf) + n > wBufSize_ /\ Len(sent) + n <= MaxBytes
    /\ LET handed == IF TwoWrites(n) THEN Len(wBuf) + n ELSE wBufSize_
       IN  \E k \in 0..(handed - 1) : wire' = wire \o SubSeq(wBuf \o NextBytes(n), 1, k)
    /\ sent' = sent \o NextBytes(n) /\ wState' = "torn"
    /\ UNCHANGED <<fixedVars, wBuf, wBufSize_, flushes, readerVars>>

(* What flush() hands to the connection: an empty frame is not sent.       *)
Flushed == IF kind = "framed" /\ wBuf # <<>> THEN htonl(Len(wBuf)) \o wBuf ELSE wBuf

(* A large buffer is given back.                                           *)
Reclaimed == IF kind = "framed" /\ wBufSize_ > bufReclaimThresh_
             THEN DefaultBufferSize ELSE wBufSize_

(* TFramedTransport refuses to flush if the size does not fit the buffer.  *)
TooSmall == kind = "framed" /\ wBufSize_ <= HeaderSize

(* Mutated flush: a buffer that is not full is kept.                       *)
flushFullBuffer(after) ==
    /\ wire' = IF Len(wBuf) < wBufSize_ THEN wire ELSE wire \o Flushed
    /\ wBuf' = IF Len(wBuf) < wBufSize_ THEN wBuf ELSE <<>>
    /\ wState' = after
    /\ flushes' = flushes \cup {Len(sent)}
    /\ UNCHANGED wBufSize_

(* flush(), and what the caller is left with.                              *)
flush(after) ==
    IF TooSmall
    THEN wState' = "failed" /\ UNCHANGED <<wire, wBuf, wBufSize_, flushes>>
    ELSE /\ wire' = wire \o Flushed
         /\ wBuf' = <<>>
         /\ wBufSize_' = Reclaimed
         /\ wState' = after
         /\ flushes' = IF wState = "failed" THEN flushes ELSE flushes \cup {Len(sent)}

Flush ==
    /\ wState = "open"
    /\ flush("open")
    /\ UNCHANGED <<fixedVars, sent, readerVars>>

(* The write of flush() fails half way: the buffer was emptied before.     *)
FlushFails ==
    /\ wState = "open" /\ Flushed # <<>>
    /\ \E k \in 0..(Len(Flushed) - 1) : wire' = wire \o SubSeq(Flushed, 1, k)
    /\ wBuf' = <<>> /\ wState' = "failed"
    /\ UNCHANGED <<fixedVars, wBufSize_, sent, flushes, readerVars>>

(* close() flushes first, also after a failure.                            *)
Close ==
    /\ wState \in {"open", "failed"}
    /\ flush("closed")
    /\ UNCHANGED <<fixedVars, sent, readerVars>>

(* The connection is reset: what the reader had not taken may be lost.     *)
Reset ==
    /\ wState \in {"open", "failed", "torn"}
    /\ wState' = "reset"
    /\ \E k \in 0..Len(wire) : wire' = SubSeq(wire, 1, k)
    /\ UNCHANGED <<fixedVars, wBuf, wBufSize_, sent, flushes, readerVars>>

-----------------------------------------------------------------------------
(* Reading.                                                                *)

Have == Len(rBuf)

(* How much of a read of n bytes the budget is checked against.            *)
bufferedReadLength(n) == Lesser(n, Have)

Checked(n) == IF budgetBoundToBuffer_ THEN bufferedReadLength(n) ELSE n

Fails(reason) ==
    /\ phase' = "ended" /\ error' = reason
    /\ op' = "none" /\ want' = 0 /\ part' = <<>>

Returns ==
    /\ phase' = "idle" /\ error' = error
    /\ op' = "none" /\ want' = 0 /\ part' = <<>>

(* With an empty buffer, a call that wants n bytes more asks the           *)
(* connection, if the budget of b and bound allows it.                     *)
Asks(call, n, b, bound) ==
    IF bound \/ checkReadBytesAvailable(b, n)
    THEN /\ phase' = "fill" /\ error' = error
         /\ op' = call /\ want' = n /\ part' = <<>>
    ELSE Fails("budget")

(* TBufferBase::read and readAll: what is in the buffer is handed over     *)
(* without waiting for more, and readAll() goes on asking.                 *)
Read(call, n) ==
    /\ phase = "idle"
    /\ LET fast == n <= Have /\ call = "readAll"
       IN  IF ~fast /\ ~checkReadBytesAvailable(budget, Checked(n))
           THEN Fails("budget") /\ UNCHANGED <<rBuf, received>>
           ELSE /\ received' = received \o SubSeq(rBuf, 1, Lesser(n, Have))
                /\ rBuf' = Dropped(rBuf, Lesser(n, Have))
                /\ IF n <= Have \/ (Have > 0 /\ call = "read")
                   THEN Returns
                   ELSE Asks(call, n - Have, budget, budgetBoundToBuffer_)
    /\ UNCHANGED <<fixedVars, writerVars, wire, rBufSize_, budget,
                   budgetBoundToBuffer_, frame>>

(* peek() of a TBufferedTransport fills an empty buffer.                   *)
Peek ==
    /\ phase = "idle" /\ kind = "buffered" /\ rBuf = <<>>
    /\ phase' = "fill" /\ op' = "peek" /\ want' = 0
    /\ UNCHANGED <<fixedVars, writerVars, wire, rBuf, rBufSize_, budget,
                   budgetBoundToBuffer_, frame, part, error, received>>

(* The buffer was filled with bytes, and readSlow() hands over what is     *)
(* wanted of them.                                                         *)
HandsOver(bytes, b, bound) ==
    /\ received' = received \o SubSeq(bytes, 1, Lesser(want, Len(bytes)))
    /\ rBuf' = Dropped(bytes, Lesser(want, Len(bytes)))
    /\ IF op = "readAll" /\ want > Len(bytes)
       THEN Asks(op, want - Len(bytes), b, bound)
       ELSE Returns

(* What a read of at most n bytes from the connection may return.          *)
Arriving(n) == {SubSeq(wire, 1, k) : k \in 1..Lesser(n, Len(wire))}

(* TBufferedTransport::readSlow and peek: one read from the connection.    *)
FillBuffer ==
    /\ phase = "fill" /\ kind = "buffered"
    /\ \E bytes \in Arriving(RBufSize) :
          /\ wire' = Dropped(wire, Len(bytes))
          /\ HandsOver(bytes, budget, budgetBoundToBuffer_)
    /\ UNCHANGED <<fixedVars, writerVars, rBufSize_, budget, budgetBoundToBuffer_, frame>>

(* Mutated FrameBudget: what the last frame used is carried on.            *)
FrameBudgetCarried(size) == updateKnownMessageSize(budget, size)

(* readFrame() resets the budget and binds it to the frame.                *)
FrameBudget(size) == updateKnownMessageSize(FullBudget, size)

(* readFrame() knows the size of the frame and goes on with its bytes.     *)
FrameBegins(size) ==
    IF size > MaxFrameSize
    THEN Fails("oversized") /\ UNCHANGED <<rBufSize_, budget, budgetBoundToBuffer_, frame>>
    ELSE /\ budgetBoundToBuffer_' = TRUE
         /\ budget' = FrameBudget(size).budget
         /\ IF ~FrameBudget(size).ok
            THEN Fails("budget") /\ UNCHANGED <<rBufSize_, frame>>
            ELSE /\ rBufSize_' = IF size > rBufSize_ THEN size ELSE rBufSize_
                 /\ frame' = size
                 /\ phase' = "payload" /\ part' = <<>>
                 /\ UNCHANGED <<op, want, error>>

(* readFrame() reads the size, which may come in pieces.                   *)
ReadFrameSize ==
    /\ phase = "fill" /\ kind = "framed"
    /\ \E bytes \in Arriving(HeaderSize - Len(part)) :
          /\ wire' = Dropped(wire, Len(bytes))
          /\ IF Len(part \o bytes) = HeaderSize
             THEN FrameBegins(ntohl(part \o bytes))
             ELSE /\ part' = part \o bytes
                  /\ UNCHANGED <<rBufSize_, budget, budgetBoundToBuffer_, frame,
                                 phase, op, want, error>>
    /\ UNCHANGED <<fixedVars, writerVars, rBuf, received>>

(* readFrame() reads the bytes, and readSlow() hands them over.            *)
ReadFrame ==
    /\ phase = "payload"
    /\ \E bytes \in Arriving(frame - Len(part)) :
          /\ wire' = Dropped(wire, Len(bytes))
          /\ IF Len(part \o bytes) = frame
             THEN HandsOver(part \o bytes, budget, budgetBoundToBuffer_)
             ELSE part' = part \o bytes /\ UNCHANGED <<rBuf, phase, op, want, error, received>>
    /\ UNCHANGED <<fixedVars, writerVars, rBufSize_, budget, budgetBoundToBuffer_, frame>>

(* The connection is closed: read() returns nothing, unless it is in the   *)
(* middle of a frame; readAll() throws.                                    *)
EndOfFile ==
    /\ phase \in {"fill", "payload"} /\ wire = <<>> /\ wState \in {"closed", "reset"}
    /\ Fails(IF op = "readAll" \/ part # <<>> \/ phase = "payload" THEN "eof" ELSE "none")
    /\ UNCHANGED <<fixedVars, writerVars, wire, rBuf, rBufSize_, budget,
                   budgetBoundToBuffer_, frame, received>>

(* borrow() of bytes that are in the buffer, and consume() of n of them.   *)
Consume(n) ==
    /\ phase = "idle" /\ n <= Have
    /\ LET c == countConsumedMessageBytes(budget, n)
       IN  /\ budget' = c.budget
           /\ IF c.ok
              THEN /\ received' = received \o SubSeq(rBuf, 1, n)
                   /\ rBuf' = Dropped(rBuf, n)
                   /\ Returns
              ELSE Fails("budget") /\ UNCHANGED <<rBuf, received>>
    /\ UNCHANGED <<fixedVars, writerVars, wire, rBufSize_, budgetBoundToBuffer_, frame>>

(* Mutated resetReadBudget: the rest of the frame is forgotten.            *)
resetReadBudgetFully(buffer) == FullBudget

(* TFramedTransport::resetReadBudget, with the bytes that are buffered.    *)
resetReadBudget(buffer) ==
    IF budgetBoundToBuffer_ /\ buffer # <<>>
    THEN updateKnownMessageSize(FullBudget, Len(buffer)).budget
    ELSE FullBudget

(* readEnd(), which the program calls behind a message: the end of the     *)
(* frame, or inside of it if frames may hold several messages.             *)
ReadEnd ==
    /\ phase = "idle"
    /\ rBuf = <<>> \/ bufReclaimThresh_ = NoThreshold \/ Pipelined
    /\ LET reclaim == kind = "framed" /\ rBufSize_ > bufReclaimThresh_
       IN  /\ rBuf' = IF reclaim THEN <<>> ELSE rBuf
           /\ rBufSize_' = IF reclaim THEN 0 ELSE rBufSize_
    /\ budget' = IF kind = "framed" THEN resetReadBudget(rBuf') ELSE FullBudget
    /\ UNCHANGED <<fixedVars, writerVars, wire, budgetBoundToBuffer_, frame,
                   phase, op, want, part, error, received>>

(* The reading program flushes an answer through the same object.          *)
Answer ==
    /\ phase = "idle"
    /\ budget' = IF kind = "framed" THEN resetReadBudget(rBuf) ELSE FullBudget
    /\ UNCHANGED <<fixedVars, writerVars, wire, rBuf, rBufSize_, budgetBoundToBuffer_,
                   frame, phase, op, want, part, error, received>>

-----------------------------------------------------------------------------
Writer == (\E n \in WriteLengths : Write(n) \/ WriteFails(n)) \/ Flush \/ Close
Faults == FlushFails \/ Reset
Reads == \E n \in ReadLengths, call \in {"read", "readAll"} : Read(call, n)
Fills == FillBuffer \/ ReadFrameSize \/ ReadFrame \/ EndOfFile
Reader == Reads \/ Fills \/ Peek \/ (\E n \in ReadLengths : Consume(n)) \/ ReadEnd \/ Answer

Next == Writer \/ Faults \/ Reader

Spec == Init /\ [][Next]_vars

(* The reader keeps reading, and a read() that finds bytes in the          *)
(* connection gets them.                                                   *)
FairSpec == Spec /\ WF_vars(Reads) /\ WF_vars(Fills)

-----------------------------------------------------------------------------
(* Properties.                                                             *)

(* However writes, flushes and reads of any sizes are cut by the buffers   *)
(* and by the connection, the reader gets the bytes in order, and through  *)
(* a TFramedTransport never a part of a frame or bytes of two at once.     *)
Stream == INSTANCE ByteStream WITH whole <- (kind = "framed")

ImplementsStream == Stream!Spec

(* The bytes of a frame that are buffered are always within the budget, so *)
(* that no read of a frame that was accepted is refused; and the budget    *)
(* never allows more than the frame holds while any of it is unread, even  *)
(* after readEnd() or flush() in the middle of it.                         *)
BudgetBindsFrame ==
    budgetBoundToBuffer_ /\ rBuf # <<>> =>
        Have <= budget.remaining /\ budget.remaining <= frame

(* Whether the bytes between two flushes were more than n.                 *)
SentFrameOver(n) ==
    LET ends == flushes \cup {0, Len(sent)}
    IN  \E f, g \in ends : g - f > n /\ \A e \in ends : e <= f \/ e >= g

(* The exceptions have their reasons: no write buffer that holds anything  *)
(* is refused by flush(), or found too small for the rest of a write, a    *)
(* frame is refused for its size only, and a message ends early only when  *)
(* the connection did.                                                     *)
FailuresJustified ==
    /\ kind = "framed" /\ error = "budget" => SentFrameOver(MaxMessageSize)
    /\ error = "oversized" => SentFrameOver(MaxFrameSize)
    /\ error = "eof" => wState \in {"closed", "reset"} /\ wire = <<>>
    /\ wState = "failed" => wBuf = <<>>

(* What was flushed arrives, also if the writer closes afterwards, unless  *)
(* the connection is reset or the reader refuses a message for its size.   *)
FlushedArrives ==
    \A k \in 1..MaxBytes :
        (\E f \in flushes : f >= k)
            ~> \/ Len(received) >= k
               \/ wState = "reset" \/ error \in {"budget", "oversized"}
=============================================================================

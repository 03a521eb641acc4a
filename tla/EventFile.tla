----------------------------- MODULE EventFile -----------------------------
(***************************************************************************)
(* The log file of transport::TFileTransport and the code that reads it.   *)
(*                                                                         *)
(* A file is a sequence of bytes, divided into chunks.  An event is a      *)
(* four-byte size followed by that many bytes; it may not cross a chunk    *)
(* boundary, and what is left of a chunk is padded with zeros.             *)
(*                                                                         *)
(* The part of a TFileTransport object that reads is a record: offset_ is  *)
(* the place in the file where the read buffer begins, pos the place the   *)
(* descriptor is at, bufferPtr_ how much of the buffer is used up.         *)
(***************************************************************************)
EXTENDS Integers, Sequences

CONSTANTS
    ChunkSize,              \* chunkSize_
    ReadBuffSize,           \* readBuffSize_
    MaxEventSize,           \* maxEventSize_; 0: no limit
    MaxCorruptedEvents      \* maxCorruptedEvents_

ASSUME FileAssumption ==
    /\ ChunkSize \in Nat \ {0} /\ ReadBuffSize \in Nat \ {0}
    /\ MaxEventSize \in Nat /\ MaxCorruptedEvents \in Nat

HeaderSize == 4

Chunk(offset) == offset \div ChunkSize

(* The four bytes of an event's size, least significant first.             *)
SizeBytes(n) == [i \in 1..HeaderSize |-> (n \div 256^(i-1)) % 256]

(* What enqueueEvent makes of the bytes it is given.                       *)
EventBytes(payload) == SizeBytes(Len(payload)) \o payload

(* readState::getEventSize                                                 *)
EventSize(sizeBuff) ==
    sizeBuff[1] + 256 * sizeBuff[2] + 256^2 * sizeBuff[3] + 256^3 * sizeBuff[4]

(* The states of an object that reads.                                     *)
Byte == 0..255
ReadState ==
    [offset_ : Nat, pos : Nat, buffer : Seq(Byte), bufferPtr_ : Nat,
     lastDispatchPtr_ : Nat, eventSizeBuff_ : Seq(Byte), eventSize : Nat,
     event : Seq(Byte), lastBadChunk_ : Nat, numCorrupted : Nat,
     verdict : {"more", "event", "eof", "corrupt", "await", "throw"}]

(* A file that has just been opened, by an object that has just been made. *)
(* readingSize_ holds while eventSize is 0; verdict is what the last call  *)
(* has come to.                                                            *)
OpenLogFile ==
    [offset_ |-> 0, pos |-> 0, buffer |-> <<>>, bufferPtr_ |-> 0,
     lastDispatchPtr_ |-> 0, eventSizeBuff_ |-> <<>>, eventSize |-> 0,
     event |-> <<>>, lastBadChunk_ |-> 0, numCorrupted |-> 0,
     verdict |-> "more"]

ResetState(r, lastDispatchPtr) ==
    [r EXCEPT !.eventSizeBuff_ = <<>>, !.eventSize = 0,
              !.lastDispatchPtr_ = lastDispatchPtr]

ResetAllValues(r) ==
    [ResetState(r, 0) EXCEPT !.buffer = <<>>, !.bufferPtr_ = 0, !.event = <<>>]

Exhausted(r) == r.bufferPtr_ = Len(r.buffer)

(* read() into the buffer; the bytes up to the end of the file if they are *)
(* fewer.  The verdict is eof when there are none.                         *)
Fill(r, file) ==
    LET last == IF Len(file) < r.pos + ReadBuffSize THEN Len(file)
                ELSE r.pos + ReadBuffSize
    IN  [r EXCEPT !.offset_ = @ + Len(r.buffer),
                  !.buffer = SubSeq(file, r.pos + 1, last),
                  !.pos = IF last > @ THEN last ELSE @,
                  !.bufferPtr_ = 0,
                  !.lastDispatchPtr_ = 0,
                  !.verdict = IF last > r.pos THEN "more" ELSE "eof"]

IsEventCorrupted(r) ==
    LET here == r.offset_ + r.bufferPtr_
    IN  \/ MaxEventSize > 0 /\ r.eventSize > MaxEventSize
        \/ r.eventSize > ChunkSize
        \/ Chunk(here - HeaderSize) # Chunk(here + r.eventSize - 1)

(* One turn of the inner loop of readEvent while it reads a size: a byte   *)
(* is skipped where no size fits in the chunk, size 0 is padding.          *)
ReadSizeByte(r) ==
    LET here == r.offset_ + r.bufferPtr_
        next == [r EXCEPT !.bufferPtr_ = @ + 1]
        size == Append(r.eventSizeBuff_, r.buffer[r.bufferPtr_ + 1])
        sized == [next EXCEPT !.eventSizeBuff_ = size,
                              !.eventSize = EventSize(size), !.event = <<>>]
    IN  IF r.eventSizeBuff_ = <<>> /\ Chunk(here) # Chunk(here + 3) THEN next
        ELSE IF Len(size) < HeaderSize THEN [next EXCEPT !.eventSizeBuff_ = size]
        ELSE IF EventSize(size) = 0 THEN ResetState(next, next.lastDispatchPtr_)
        ELSE [sized EXCEPT
                !.verdict = IF IsEventCorrupted(sized) THEN "corrupt" ELSE "more"]

(* The turn of that loop that copies bytes into the event.                 *)
CopyEvent(r) ==
    LET wanted == r.eventSize - Len(r.event)
        ready == Len(r.buffer) - r.bufferPtr_
        n == IF ready < wanted THEN ready ELSE wanted
        copied == [r EXCEPT
            !.event = @ \o SubSeq(r.buffer, r.bufferPtr_ + 1, r.bufferPtr_ + n),
            !.bufferPtr_ = @ + n]
    IN  IF n < wanted THEN copied
        ELSE [ResetState(copied, copied.bufferPtr_) EXCEPT !.verdict = "event"]

(* The inner loop, up to the end of the buffer, of an event or to an event *)
(* that is found corrupted.                                                *)
Parse[r \in ReadState] ==
    IF Exhausted(r) \/ r.verdict # "more" THEN r
    ELSE Parse[IF r.eventSize = 0 THEN ReadSizeByte(r) ELSE CopyEvent(r)]

NumChunks(file) == IF file = <<>> THEN 0 ELSE Chunk(Len(file)) + 1

(* seekToChunk for a chunk of the file.                                    *)
SeekSet(r, chunk) ==
    [ResetAllValues(r) EXCEPT !.offset_ = chunk * ChunkSize,
                              !.pos = chunk * ChunkSize, !.verdict = "more"]

(* performRecovery: read the chunk again, go to the next one, wait for it, *)
(* or give up.                                                             *)
PerformRecovery(r, file, tail) ==
    LET curChunk == Chunk(r.offset_)
        counted == [r EXCEPT
            !.lastBadChunk_ = curChunk,
            !.numCorrupted = IF r.lastBadChunk_ = curChunk THEN @ + 1 ELSE 1]
    IN  IF counted.numCorrupted < MaxCorruptedEvents THEN SeekSet(counted, curChunk)
        ELSE IF curChunk # NumChunks(file) - 1 THEN SeekSet(counted, curChunk + 1)
        ELSE IF tail THEN [counted EXCEPT !.verdict = "await"]
        ELSE [ResetState(counted, counted.lastDispatchPtr_) EXCEPT !.verdict = "throw"]

(* readEvent without tailing: to the next event, the end or an exception.  *)
ReadEvent[r \in ReadState, file \in Seq(Byte)] ==
    LET filled == IF Exhausted(r) THEN Fill(r, file) ELSE [r EXCEPT !.verdict = "more"]
        parsed == Parse[filled]
    IN  IF filled.verdict = "eof" THEN ResetState(filled, 0)
        ELSE CASE parsed.verdict = "event" -> parsed
               [] parsed.verdict = "more" -> ReadEvent[parsed, file]
               [] parsed.verdict = "corrupt" ->
                    LET recovered == PerformRecovery(parsed, file, FALSE)
                    IN  IF recovered.verdict = "throw" THEN recovered
                        ELSE ReadEvent[recovered, file]

(* The loop of seekToChunk that reads on to the end of the file.           *)
ReadToEnd[r \in ReadState, file \in Seq(Byte)] ==
    IF r.offset_ + r.bufferPtr_ >= Len(file) \/ r.verdict \in {"eof", "throw"} THEN r
    ELSE ReadToEnd[ReadEvent[r, file], file]

(* seekToEnd: the events of the last chunk are read, one after the other.  *)
SeekToEnd(r, file) ==
    IF NumChunks(file) = 0 THEN r
    ELSE ReadToEnd[SeekSet(r, NumChunks(file) - 1), file]
=============================================================================

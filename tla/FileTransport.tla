--------------------------- MODULE FileTransport ---------------------------
(***************************************************************************)
(* transport::TFileTransport: a main thread that writes events and asks    *)
(* for flushes, the writer thread that takes them over in batches and      *)
(* appends them to the log file, and a second, read-only object, usually   *)
(* of another process, that reads the file while it grows.                 *)
(*                                                                         *)
(* What is done under mutex_ is one action; only before it waits on        *)
(* notEmpty_ the writer thread holds mutex_ over two actions, because the  *)
(* destructor sets closing_ and notifies without it.  Each system call of  *)
(* the writer thread is an action.  The faults are: the process is killed  *)
(* between two system calls, the machine loses what was not synced, and a  *)
(* system call of the writer thread fails.                                 *)
(***************************************************************************)
EXTENDS EventFile, Monitor, SequencesExt

CONSTANTS
    Lengths,            \* the lengths of the events the program writes
    MaxWrites,          \* how many events it writes: a bound of the model
    MaxFlushes,         \* how many flushes it asks for: a bound of the model
    MaxRestarts,        \* how often it opens the log again: a bound
    MaxFaults,          \* how many faults there are: a bound of the model
    Faults,             \* the faults there are: kill, power, io
    EventBufferSize,    \* eventBufferSize_
    FlushMaxBytes,      \* flushMaxBytes_
    ReadTimeouts,       \* what the reader's setReadTimeout is given
    ReadLengths         \* how many bytes the reader asks for in a call

ASSUME TransportAssumption ==
    /\ Lengths \subseteq Nat /\ ReadLengths \subseteq Nat \ {0}
    /\ {MaxWrites, MaxFlushes, MaxRestarts, MaxFaults, FlushMaxBytes} \subseteq Nat
    /\ Faults \subseteq {"kill", "power", "io"}
    /\ EventBufferSize \in Nat \ {0}
    /\ ReadTimeouts \subseteq {"tail", "notail", "timed"}

VARIABLES
    file,               \* the bytes of the log file
    synced,             \* how many of them survive a power loss
    mainPc,             \* where the main thread is
    toEnqueue,          \* the event its write() waits with
    accepted,           \* history: the events write() has taken and the
                        \* object has not given up
    initialized,        \* bufferAndThreadInitialized_
    enqueueBuffer_, dequeueBuffer_,
    readPoint_,         \* of dequeueBuffer_
    forceFlush_, closing_,
    notFull_, notEmpty_, flushed_,      \* wait sets
    writerPc,           \* where the writer thread is
    hasIOError, unflushed, forced,      \* its local variables
    out,                \* the writing object's offset_, descriptor, readState_
    logged,             \* history: the events in the file and their places
    mishaps,            \* history: "reopened", the writer thread has opened
                        \* the file again; "unsynced", its last fsync failed
    in,                 \* the reading object
    readTimeout_, readTries, currentEvent_,
    delivered,          \* history: the bytes read() has handed out
    writes, flushes, restarts, faults   \* counted for the bounds

callVars == <<mainPc, toEnqueue, writes, flushes>>
mainVars == <<callVars, accepted>>
queueVars == <<enqueueBuffer_, dequeueBuffer_, readPoint_>>
writerVars == <<writerPc, hasIOError, unflushed, forced, out>>
fileVars == <<file, synced, logged, mishaps>>
readerVars == <<in, readTimeout_, readTries, currentEvent_, delivered>>
signalVars == <<initialized, forceFlush_, closing_, notFull_, notEmpty_, flushed_>>
vars == <<mainVars, queueVars, writerVars, fileVars, readerVars, signalVars,
          restarts, faults>>

(* The writer thread holds mutex_ until it has begun to wait.              *)
MutexFree == writerPc # "aboutToWait"

(* The state of an object that has just been constructed.                  *)
Init ==
    /\ file = <<>> /\ synced = 0 /\ logged = <<>> /\ mishaps = {}
    /\ mainPc = "idle" /\ toEnqueue = <<>> /\ accepted = <<>> /\ writes = 0 /\ flushes = 0
    /\ initialized = FALSE /\ forceFlush_ = FALSE /\ closing_ = FALSE
    /\ enqueueBuffer_ = <<>> /\ dequeueBuffer_ = <<>> /\ readPoint_ = 0
    /\ notFull_ = {} /\ notEmpty_ = {} /\ flushed_ = {}
    /\ writerPc = "none" /\ hasIOError = FALSE /\ unflushed = 0 /\ forced = FALSE
    /\ out = OpenLogFile
    /\ in = OpenLogFile /\ readTimeout_ \in ReadTimeouts /\ readTries = 0
    /\ currentEvent_ = <<>> /\ delivered = <<>>
    /\ restarts = 0 /\ faults = 0

-----------------------------------------------------------------------------
(* The main thread.                                                        *)

(* The event the next write() is for: bytes that occur in no other event.  *)
Payload(n) == [i \in 1..n |-> writes + 1]

(* TFileTransportBuffer::isFull                                            *)
IsFull == Len(enqueueBuffer_) = EventBufferSize

(* The rest of enqueueEvent once there is room.                            *)
AddEvent(event) ==
    /\ enqueueBuffer_' = Append(enqueueBuffer_, event)
    /\ accepted' = Append(accepted, event)
    /\ notEmpty_' \in Notify(notEmpty_)
    /\ mainPc' = "idle" /\ toEnqueue' = <<>>

(* write(): the first one starts the writer thread; one that finds the     *)
(* buffer full waits on notFull_.  An event that is empty or too large is  *)
(* refused.                                                                *)
Write(n) ==
    /\ mainPc = "idle" /\ writes < MaxWrites /\ MutexFree
    /\ n > 0 /\ (MaxEventSize > 0 => n <= MaxEventSize)
    /\ writes' = writes + 1
    /\ initialized' = TRUE
    /\ writerPc' = IF initialized THEN writerPc ELSE "start"
    /\ IF IsFull
       THEN /\ mainPc' = "full" /\ toEnqueue' = Payload(n)
            /\ notFull_' = notFull_ \cup {"main"}
            /\ UNCHANGED <<accepted, enqueueBuffer_, notEmpty_>>
       ELSE AddEvent(Payload(n)) /\ UNCHANGED notFull_
    /\ UNCHANGED <<flushes, dequeueBuffer_, readPoint_, forceFlush_, closing_,
                   flushed_, hasIOError, unflushed, forced, out, fileVars,
                   readerVars, restarts, faults>>

(* notFull_.wait() returns in enqueueEvent.                                *)
WriteWakes ==
    /\ mainPc = "full" /\ "main" \notin notFull_ /\ MutexFree
    /\ IF IsFull
       THEN /\ notFull_' = notFull_ \cup {"main"}
            /\ UNCHANGED <<mainPc, toEnqueue, accepted, enqueueBuffer_, notEmpty_>>
       ELSE AddEvent(toEnqueue) /\ UNCHANGED notFull_
    /\ UNCHANGED <<writes, flushes, dequeueBuffer_, readPoint_, initialized,
                   forceFlush_, closing_, flushed_, writerVars, fileVars,
                   readerVars, restarts, faults>>

(* flush() with a writer thread; without one it does nothing.              *)
Flush ==
    /\ mainPc = "idle" /\ flushes < MaxFlushes /\ initialized /\ MutexFree
    /\ flushes' = flushes + 1
    /\ forceFlush_' = TRUE
    /\ notEmpty_' \in Notify(notEmpty_)
    /\ flushed_' = flushed_ \cup {"main"}
    /\ mainPc' = "flushing"
    /\ UNCHANGED <<toEnqueue, accepted, writes, queueVars, initialized, closing_,
                   notFull_, writerVars, fileVars, readerVars, restarts, faults>>

(* flushed_.wait() returns in flush().                                     *)
FlushWakes ==
    /\ mainPc = "flushing" /\ "main" \notin flushed_ /\ MutexFree
    /\ IF forceFlush_ THEN flushed_' = flushed_ \cup {"main"} /\ UNCHANGED mainPc
       ELSE mainPc' = "idle" /\ UNCHANGED flushed_
    /\ UNCHANGED <<toEnqueue, accepted, writes, flushes, queueVars, initialized,
                   forceFlush_, closing_, notFull_, notEmpty_, writerVars,
                   fileVars, readerVars, restarts, faults>>

(* The destructor: closing_ is set, ...                                    *)
Destroy ==
    /\ mainPc = "idle"
    /\ closing_' = initialized
    /\ mainPc' = IF initialized THEN "closing" ELSE "gone"
    /\ UNCHANGED <<toEnqueue, accepted, writes, flushes, queueVars, initialized,
                   forceFlush_, notFull_, notEmpty_, flushed_, writerVars,
                   fileVars, readerVars, restarts, faults>>

(* ... the writer thread is notified, ...                                  *)
DestroyNotifies ==
    /\ mainPc = "closing"
    /\ notEmpty_' \in Notify(notEmpty_)
    /\ mainPc' = "joining"
    /\ UNCHANGED <<toEnqueue, accepted, writes, flushes, queueVars, initialized,
                   forceFlush_, closing_, notFull_, flushed_, writerVars,
                   fileVars, readerVars, restarts, faults>>

(* ... and joined; the buffers are freed, the thread and the object gone.  *)
DestroyJoins ==
    /\ mainPc = "joining" /\ writerPc = "exited"
    /\ mainPc' = "gone"
    /\ enqueueBuffer_' = <<>> /\ dequeueBuffer_' = <<>> /\ readPoint_' = 0
    /\ hasIOError' = FALSE /\ unflushed' = 0 /\ out' = OpenLogFile
    /\ UNCHANGED <<toEnqueue, accepted, writes, flushes, signalVars, writerPc, forced,
                   fileVars, readerVars, restarts, faults>>

(* The waits of write() and flush() may end without a notification.        *)
Spurious ==
    /\ \/ notFull_' \in SpuriousWakeup(notFull_) /\ UNCHANGED flushed_
       \/ flushed_' \in SpuriousWakeup(flushed_) /\ UNCHANGED notFull_
    /\ UNCHANGED <<mainVars, queueVars, initialized, forceFlush_, closing_,
                   notEmpty_, writerVars, fileVars, readerVars, restarts, faults>>

-----------------------------------------------------------------------------
(* The writer thread.                                                      *)

(* Whether a system call of the writer thread succeeds.                    *)
Outcomes == IF "io" \in Faults /\ faults < MaxFaults THEN BOOLEAN ELSE {TRUE}
Counted(ok) == faults' = IF ok THEN faults ELSE faults + 1

(* The result of fsync is ignored: what it left unsynced stays so.         *)
Fsync ==
    \E ok \in Outcomes :
        /\ Counted(ok)
        /\ synced' = IF ok THEN Len(file) ELSE synced
        /\ mishaps' = IF ok THEN mishaps \ {"unsynced"} ELSE mishaps \cup {"unsynced"}

(* The thread ends after an error: what it has not written is lost.        *)
GiveUp == accepted' = [i \in DOMAIN logged |-> logged[i].data]

(* Where the file is cut off: behind the last event that was read.         *)
KeptLength(end) == end.offset_ + end.lastDispatchPtr_

(* Its first steps: to the end of the file, and whatever follows the last  *)
(* event that was read there is cut off.                                   *)
WriterStarts ==
    LET end == SeekToEnd(out, file)
    IN  /\ writerPc = "start"
        /\ \E ok \in Outcomes :
              LET truncated == ok /\ end.verdict # "throw"
              IN  /\ Counted(ok)
                  /\ hasIOError' = ~truncated
                  /\ file' = IF truncated THEN SubSeq(file, 1, KeptLength(end)) ELSE file
                  /\ out' = IF end.verdict = "throw" THEN end
                            ELSE [(IF truncated THEN ResetAllValues(end) ELSE end)
                                     EXCEPT !.offset_ = KeptLength(end)]
        /\ synced' = IF Len(file') < synced THEN Len(file') ELSE synced
        /\ unflushed' = 0
        /\ writerPc' = "top"
        /\ UNCHANGED <<forced, mainVars, queueVars, signalVars, logged, mishaps,
                       readerVars, restarts>>

(* Mutated Drained: the events that are still queued are forgotten.        *)
DrainedAlways == TRUE

(* Both buffers are empty.                                                 *)
Drained == enqueueBuffer_ = <<>> /\ dequeueBuffer_ = <<>>

(* The head of its loop: when the object is being destroyed and nothing is *)
(* left to write, or nothing can be written, the thread ends.              *)
WriterTop ==
    LET done == closing_ /\ ~hasIOError /\ Drained
        failed == closing_ /\ hasIOError
    IN  /\ writerPc = "top"
        /\ IF done THEN Fsync ELSE UNCHANGED <<synced, mishaps, faults>>
        /\ IF failed THEN GiveUp ELSE UNCHANGED accepted
        /\ writerPc' = IF done \/ failed THEN "exited" ELSE "swap"
        /\ UNCHANGED <<hasIOError, unflushed, forced, out, file, logged, callVars,
                       queueVars, signalVars, readerVars, restarts>>

(* Mutated SwapBuffers: a write() that waits for room is not told.         *)
SwapBuffersQuietly ==
    /\ enqueueBuffer_' = dequeueBuffer_ /\ dequeueBuffer_' = enqueueBuffer_
    /\ UNCHANGED notFull_
    /\ writerPc' = "write"

(* The buffers change places.                                              *)
SwapBuffers ==
    /\ enqueueBuffer_' = dequeueBuffer_ /\ dequeueBuffer_' = enqueueBuffer_
    /\ notFull_' \in Notify(notFull_)
    /\ writerPc' = "write"

KeepBuffers ==
    /\ writerPc' = "check"
    /\ UNCHANGED <<enqueueBuffer_, dequeueBuffer_, notFull_>>

(* swapEventBuffers: it swaps, returns at once when the object is being    *)
(* destroyed, or is going to wait.                                         *)
Swap ==
    /\ writerPc = "swap"
    /\ IF enqueueBuffer_ # <<>> THEN SwapBuffers
       ELSE IF closing_ THEN KeepBuffers
       ELSE /\ writerPc' = "aboutToWait"
            /\ UNCHANGED <<enqueueBuffer_, dequeueBuffer_, notFull_>>
    /\ UNCHANGED <<readPoint_, hasIOError, unflushed, forced, out, fileVars,
                   mainVars, initialized, forceFlush_, closing_, notEmpty_,
                   flushed_, readerVars, restarts, faults>>

(* notEmpty_.waitForTime: it lets go of mutex_ and waits.                  *)
SwapWaits ==
    /\ writerPc = "aboutToWait"
    /\ notEmpty_' = notEmpty_ \cup {"writer"}
    /\ writerPc' = "waiting"
    /\ UNCHANGED <<queueVars, hasIOError, unflushed, forced, out, fileVars,
                   mainVars, initialized, forceFlush_, closing_, notFull_,
                   flushed_, readerVars, restarts, faults>>

(* The wait ends with a notification or at the deadline; then the buffers  *)
(* are swapped if there is nothing to write.                               *)
SwapWakes ==
    /\ writerPc = "waiting" /\ "writer" \notin notEmpty_
    /\ IF enqueueBuffer_ = <<>> THEN SwapBuffers ELSE KeepBuffers
    /\ UNCHANGED <<readPoint_, hasIOError, unflushed, forced, out, fileVars,
                   mainVars, initialized, forceFlush_, closing_, notEmpty_,
                   flushed_, readerVars, restarts, faults>>

(* The deadline passes: the time of the next flush.                        *)
Deadline ==
    /\ "writer" \in notEmpty_
    /\ notEmpty_' = notEmpty_ \ {"writer"}
    /\ UNCHANGED <<queueVars, writerVars, fileVars, mainVars, initialized,
                   forceFlush_, closing_, notFull_, flushed_, readerVars,
                   restarts, faults>>

(* getNext(): the event in hand.  readPoint_ is advanced when the thread   *)
(* is through with it; no one else looks at it.                            *)
HasEvent == writerPc = "write" /\ readPoint_ < Len(dequeueBuffer_)
event == dequeueBuffer_[readPoint_ + 1]
Size(e) == Len(e) + HeaderSize

(* The events the writer thread leaves out.                                *)
Skipped(e) == \/ MaxEventSize > 0 /\ Size(e) > MaxEventSize
              \/ Size(e) > ChunkSize

(* Mutated NeedsPadding: the size of the event is forgotten.               *)
NeedsPaddingNoHeader(e) == Chunk(out.offset_) # Chunk(out.offset_ + Len(e) - 1)

(* By the writer thread's reckoning the event would cross a boundary.      *)
NeedsPadding(e) == Chunk(out.offset_) # Chunk(out.offset_ + Size(e) - 1)

(* To the end of the chunk the descriptor is in.                           *)
Padding == (Chunk(out.pos) + 1) * ChunkSize - out.pos

(* write(): what is written goes to the end of the file, and so does the   *)
(* descriptor.                                                             *)
Appended(bytes) ==
    /\ file' = file \o bytes
    /\ unflushed' = unflushed + Len(bytes)

(* After an error the event waits until the file is open again and its end *)
(* is found; the thread gives up when the object is being destroyed.       *)
Reopen ==
    LET end == SeekToEnd([OpenLogFile EXCEPT !.lastBadChunk_ = out.lastBadChunk_,
                                             !.numCorrupted = out.numCorrupted], file)
    IN  /\ HasEvent /\ hasIOError
        /\ IF closing_
           THEN /\ writerPc' = "exited" /\ GiveUp
                /\ UNCHANGED <<hasIOError, unflushed, out, mishaps, faults>>
           ELSE \E ok \in Outcomes :
                   LET found == ok /\ end.verdict # "throw"
                   IN  /\ Counted(ok)
                       /\ hasIOError' = ~found
                       /\ unflushed' = IF found THEN 0 ELSE unflushed
                       /\ out' = IF ok THEN end ELSE [out EXCEPT !.offset_ = 0]
                       /\ mishaps' = IF found THEN mishaps \cup {"reopened"} ELSE mishaps
                       /\ UNCHANGED <<writerPc, accepted>>
        /\ UNCHANGED <<forced, file, synced, logged, queueVars, callVars, signalVars,
                       readerVars, restarts>>

(* The event is dropped when a write for it fails.                         *)
DroppedUnless(ok) ==
    /\ hasIOError' = ~ok
    /\ accepted' = IF ok THEN accepted ELSE SelectSeq(accepted, LAMBDA e : e # event)

(* The padding, for which the offset is fetched again.                     *)
PadChunk ==
    \E ok \in Outcomes :
        /\ Counted(ok) /\ DroppedUnless(ok)
        /\ IF ok THEN /\ Appended([i \in 1..Padding |-> 0])
                      /\ writerPc' = "append" /\ UNCHANGED readPoint_
           ELSE readPoint_' = readPoint_ + 1 /\ UNCHANGED <<file, unflushed, writerPc>>
        /\ out' = IF ok THEN [out EXCEPT !.offset_ = out.pos + Padding, !.pos = Len(file')]
                  ELSE [out EXCEPT !.offset_ = out.pos]
        /\ UNCHANGED logged

(* The event itself.                                                       *)
AppendEvent ==
    \E ok \in Outcomes :
        /\ Counted(ok) /\ DroppedUnless(ok)
        /\ IF ok THEN /\ Appended(EventBytes(event))
                      /\ logged' = Append(logged, [at |-> Len(file), data |-> event])
           ELSE UNCHANGED <<file, unflushed, logged>>
        /\ out' = IF ok THEN [out EXCEPT !.offset_ = @ + Size(event), !.pos = Len(file')]
                  ELSE out
        /\ readPoint_' = readPoint_ + 1
        /\ writerPc' = "write"

SkipEvent ==
    /\ readPoint_' = readPoint_ + 1
    /\ UNCHANGED <<writerPc, hasIOError, unflushed, out, file, logged, accepted, faults>>

(* The event is left out, or written, or it would cross a boundary and     *)
(* padding is written before it.                                           *)
WriteEvent ==
    /\ \/ HasEvent /\ ~hasIOError /\ IF Skipped(event) THEN SkipEvent
                                      ELSE IF NeedsPadding(event) THEN PadChunk
                                      ELSE AppendEvent
       \/ writerPc = "append" /\ AppendEvent
    /\ UNCHANGED <<forced, synced, mishaps, enqueueBuffer_, dequeueBuffer_,
                   callVars, signalVars, readerVars, restarts>>

(* Mutated AllTaken: the flush is done after any batch.                    *)
AllTakenAlways == TRUE

(* Nothing came in since the batch was taken.                              *)
AllTaken == enqueueBuffer_ = <<>>

(* The batch is written, if there was one, and reset(); then, whether to   *)
(* sync: because flush() asks for it and everything is written, because    *)
(* much is unsynced or because it is time.                                 *)
CheckFlush ==
    LET asked == forceFlush_ /\ AllTaken
    IN  /\ \/ writerPc = "check"
           \/ writerPc = "write" /\ readPoint_ = Len(dequeueBuffer_)
        /\ dequeueBuffer_' = <<>> /\ readPoint_' = 0
        /\ IF hasIOError \/ (forceFlush_ /\ ~asked)
           THEN writerPc' = "top" /\ UNCHANGED forced
           ELSE \E overdue \in BOOLEAN :
                   /\ forced' = asked
                   /\ writerPc' = IF \/ asked \/ unflushed > FlushMaxBytes
                                     \/ overdue /\ unflushed > 0
                                  THEN "sync" ELSE "top"
        /\ UNCHANGED <<hasIOError, unflushed, out, enqueueBuffer_, fileVars, mainVars,
                       signalVars, readerVars, restarts, faults>>

Sync ==
    /\ writerPc = "sync"
    /\ Fsync
    /\ unflushed' = 0
    /\ writerPc' = IF forced THEN "notify" ELSE "top"
    /\ UNCHANGED <<hasIOError, forced, out, file, logged, queueVars, mainVars,
                   signalVars, readerVars, restarts>>

(* flush() is told that it is done.                                        *)
NotifyFlushed ==
    /\ writerPc = "notify"
    /\ forceFlush_' = FALSE
    /\ flushed_' \in NotifyAll(flushed_)
    /\ writerPc' = "top" /\ forced' = FALSE
    /\ UNCHANGED <<hasIOError, unflushed, out, queueVars, fileVars,
                   mainVars, initialized, closing_, notFull_, notEmpty_,
                   readerVars, restarts, faults>>

-----------------------------------------------------------------------------
(* The reading object.                                                     *)

(* readEvent after a read() that returned nothing: it tries again, for     *)
(* ever when it tails the file and once when it has a timeout, or gives up.*)
AtEndOfFile(r) ==
    IF readTimeout_ = "tail" \/ (readTimeout_ = "timed" /\ readTries = 0)
    THEN r ELSE ResetState(r, 0)

(* The wait of performRecovery for the next chunk.                         *)
AwaitChunk(r) ==
    IF Chunk(r.offset_) = NumChunks(file) - 1 THEN r ELSE SeekSet(r, Chunk(r.offset_) + 1)

(* One turn of the outer loop of readEvent, or of the wait inside it.      *)
Turn(r) ==
    CASE r.verdict = "corrupt" -> PerformRecovery(r, file, readTimeout_ = "tail")
      [] r.verdict = "await" -> AwaitChunk(r)
      [] OTHER ->
            LET filled == IF Exhausted(r) THEN Fill(r, file) ELSE [r EXCEPT !.verdict = "more"]
            IN  IF filled.verdict = "eof" THEN AtEndOfFile(filled) ELSE Parse[filled]

(* As much of the event as was asked for; the rest stays current.          *)
HandOut(e, n) ==
    LET k == IF Len(e) <= n THEN Len(e) ELSE n
    IN  /\ delivered' = delivered \o SubSeq(e, 1, k)
        /\ currentEvent_' = SubSeq(e, k + 1, Len(e))

(* read() of n bytes: from the current event, or a turn of readEvent and,  *)
(* if that finds an event, from it.                                        *)
Read(n) ==
    LET turn == Turn(in)
        found == turn.verdict = "event"
    IN  /\ IF currentEvent_ # <<>>
           THEN HandOut(currentEvent_, n) /\ UNCHANGED <<in, readTries>>
           ELSE /\ HandOut(IF found THEN turn.event ELSE <<>>, n)
                /\ in' = [turn EXCEPT !.event = IF found THEN <<>> ELSE @]
                /\ readTries' = IF turn.verdict = "eof" /\ readTimeout_ = "timed"
                                THEN 1 - readTries ELSE 0
        /\ UNCHANGED <<readTimeout_, writerVars, queueVars, fileVars, mainVars,
                       signalVars, restarts, faults>>

-----------------------------------------------------------------------------
(* Faults, and the program that opens its log again.                       *)

(* A new object on the same file: nothing is left of the old one's state.  *)
Construct ==
    /\ restarts < MaxRestarts /\ restarts' = restarts + 1
    /\ mainPc' = "idle" /\ toEnqueue' = <<>>
    /\ initialized' = FALSE /\ forceFlush_' = FALSE /\ closing_' = FALSE
    /\ enqueueBuffer_' = <<>> /\ dequeueBuffer_' = <<>> /\ readPoint_' = 0
    /\ notFull_' = {} /\ notEmpty_' = {} /\ flushed_' = {}
    /\ writerPc' = "none" /\ hasIOError' = FALSE /\ unflushed' = 0 /\ forced' = FALSE
    /\ out' = OpenLogFile
    /\ UNCHANGED <<writes, flushes>>

(* The log is opened again after it was closed.                            *)
OpenAgain ==
    /\ mainPc = "gone"
    /\ Construct
    /\ UNCHANGED <<accepted, fileVars, readerVars, faults>>

Payloads(events) == [i \in DOMAIN events |-> events[i].data]
End(e) == e.at + Size(e.data)

(* The process is killed between two system calls, and started again; or   *)
(* the machine fails, the first n bytes of the file survive, and the       *)
(* reader, too, starts anew.                                               *)
Crash(kind, n) ==
    LET Survives(e) == End(e) <= n
    IN  /\ kind \in Faults
        /\ faults < MaxFaults /\ faults' = faults + 1
        /\ Construct
        /\ file' = SubSeq(file, 1, n)
        /\ synced' = IF kind = "power" THEN n ELSE synced
        /\ logged' = SelectSeq(logged, Survives)
        /\ accepted' = Payloads(logged')
        /\ UNCHANGED mishaps
        /\ IF kind = "power"
           THEN /\ in' = OpenLogFile /\ readTries' = 0
                /\ currentEvent_' = <<>> /\ delivered' = <<>>
                /\ UNCHANGED readTimeout_
           ELSE UNCHANGED readerVars

Surviving(kind) == IF kind = "power" THEN synced .. Len(file) ELSE {Len(file)}

Main == WriteWakes \/ FlushWakes \/ DestroyNotifies \/ DestroyJoins

Writer ==
    \/ WriterStarts \/ WriterTop \/ Swap \/ SwapWaits \/ SwapWakes \/ Deadline
    \/ Reopen \/ WriteEvent
    \/ CheckFlush \/ Sync \/ NotifyFlushed

Reader == \E n \in ReadLengths : Read(n)

Next ==
    \/ \E n \in Lengths : Write(n)
    \/ Flush \/ Destroy \/ OpenAgain
    \/ Main \/ Spurious \/ Writer \/ Reader
    \/ \E kind \in {"kill", "power"} : \E n \in Surviving(kind) : Crash(kind, n)

(* The threads run, and a timed wait ends; the main thread gets mutex_     *)
(* although the idle writer thread takes it again and again.  No one has   *)
(* to call write(), flush() or the destructor, or to read.                 *)
Spec ==
    /\ Init /\ [][Next]_vars
    /\ SF_vars(Main) /\ WF_vars(Writer)

-----------------------------------------------------------------------------
(* Properties.                                                             *)

Kept(e) == ~Skipped(e)

(* No event crosses a chunk boundary, as the comment in writerThread says. *)
EventsWithinChunks ==
    \A i \in DOMAIN logged : Chunk(logged[i].at) = Chunk(End(logged[i]) - 1)

(* A reader that follows the file while it is written, across restarts of  *)
(* the writing process, hands out exactly the events that were written, in *)
(* order and each once, has handed out all of them when it is at the end   *)
(* of the file, and never takes the log for corrupted: padding, sizes and  *)
(* chunk boundaries mean the same to readEvent as to the writer thread.    *)
(* The one exception is an event across a chunk boundary, and only a       *)
(* writer thread that has opened the file again after an error writes one: *)
(* it goes on with an offset_ that is not the end of the file.             *)
ReaderFollows ==
    LET atEnd == in.pos = Len(file) /\ Exhausted(in) /\ currentEvent_ = <<>>
    IN  /\ EventsWithinChunks \/ "reopened" \in mishaps
        /\ EventsWithinChunks =>
              /\ IsPrefix(delivered, FlattenSeq(Payloads(logged)))
              /\ atEnd => delivered = FlattenSeq(Payloads(logged))
              /\ in.numCorrupted = 0

(* When flush() returns, and when the destructor has joined the writer     *)
(* thread, every event that write() took, that is not too large and was    *)
(* not dropped for an error, is in the file; and it is synced, unless      *)
(* fsync, whose result nobody looks at, failed, or the writer thread ended *)
(* after an error.                                                         *)
FlushedIsDurable ==
    [][ (restarts' = restarts /\ \/ mainPc = "flushing" /\ mainPc' = "idle"
                                 \/ mainPc = "joining" /\ mainPc' = "gone")
        => /\ Payloads(logged) = SelectSeq(accepted, Kept)
           /\ \/ "unsynced" \in mishaps \/ (hasIOError /\ mainPc = "joining")
              \/ \A i \in DOMAIN logged : End(logged[i]) <= synced ]_vars

(* A write() that waits for room, a flush() and the destructor return,     *)
(* with one exception: a flush() waits for ever when a system call failed  *)
(* and no event is left in the buffers.  The writer thread clears the      *)
(* error only for a further event, and before that it does not look at     *)
(* forceFlush_.                                                            *)
CallsReturn ==
    []<>(mainPc \in {"idle", "gone"} \/ (mainPc = "flushing" /\ hasIOError /\ Drained))

(* Every event that write() took is written to the file, also when no one  *)
(* calls flush(), unless it is too large, was dropped for an error, or the *)
(* process was killed.  An error drops the one event it happened to; the   *)
(* events behind it are written.                                           *)
EventsWritten == []<>(Payloads(logged) = SelectSeq(accepted, Kept))

(* Once the writer thread has started, the file holds nothing of an event  *)
(* that was not completely written: "throw away any partial events".       *)
PartialEventsDiscarded ==
    writerPc \notin {"none", "start"} =>
        \A i \in DOMAIN file : file[i] # 0 =>
            \E j \in DOMAIN logged : logged[j].at < i /\ i <= End(logged[j])
=============================================================================

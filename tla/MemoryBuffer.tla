---------------------------- MODULE MemoryBuffer ----------------------------
(***************************************************************************)
(* TMemoryBuffer (transport/TBufferTransports.h and .cpp) over memory that *)
(* it owns: operators on a record.  Positions count from buffer_; wBase_   *)
(* is the length of what was written.  rBound is where reads may go        *)
(* without looking: wBase_ as it was when it was last looked at.           *)
(*                                                                         *)
(* An operation yields the buffer it leaves, whether it succeeded (error   *)
(* is "none") and, if it reads, the bytes.                                 *)
(***************************************************************************)
EXTENDS Sequences, MessageBudget

CONSTANTS
    InitialSize,        \* the size the buffer is created with
    MaxBufferSize       \* maxBufferSize_

ASSUME BufferAssumption == InitialSize \in Nat /\ MaxBufferSize \in Nat

NewBuffer == [bytes |-> <<>>, rBase |-> 0, rBound |-> 0,
              bufferSize |-> InitialSize, budget |-> FullBudget]

wBase(m) == Len(m.bytes)

available_read(m) == wBase(m) - m.rBase

available_write(m) == m.bufferSize - wBase(m)

Gives(m, v) == [error |-> "none", mem |-> m, v |-> v]

Done(m) == Gives(m, <<>>)

Failed(reason, m) == [error |-> reason, mem |-> m, v |-> <<>>]

(* The next power of two, computed with exp2(ceil(log2(n))).               *)
PowerOfTwo(n) == 2^(CHOOSE k \in 0..n : 2^k >= n /\ (k = 0 \/ 2^(k - 1) < n))

ensureCanWrite(m, n) ==
    LET required == wBase(m) + n
        size == IF PowerOfTwo(required) < MaxBufferSize THEN PowerOfTwo(required)
                ELSE MaxBufferSize
    IN  IF n <= available_write(m) THEN Done(m)
        ELSE IF required > MaxBufferSize THEN Failed("full", m)
        ELSE Done([m EXCEPT !.bufferSize = size])

write(m, data) ==
    LET r == ensureCanWrite(m, Len(data))
    IN  [r EXCEPT !.mem.bytes = IF r.error = "none" THEN @ \o data ELSE @]

(* readSlow() looks at wBase_ again, and gives what there is.              *)
computeRead(m, n) ==
    LET give == IF n < available_read(m) THEN n ELSE available_read(m)
    IN  [m EXCEPT !.rBound = wBase(m), !.rBase = @ + give]

Between(m, low, high) == SubSeq(m.bytes, low + 1, high)

(* TBufferBase::readAll                                                    *)
readAll(m, n) ==
    LET fast == m.rBase + n <= m.rBound
        after == IF fast THEN [m EXCEPT !.rBase = @ + n] ELSE computeRead(m, n)
    IN  IF ~fast /\ ~checkReadBytesAvailable(m.budget, n) THEN Failed("budget", m)
        ELSE IF after.rBase < m.rBase + n THEN Failed("eof", after)
        ELSE Gives(after, Between(m, m.rBase, after.rBase))

(* borrow() of at least n bytes: the position does not move.               *)
borrow(m, n) ==
    LET after == IF n <= m.rBound - m.rBase THEN m ELSE [m EXCEPT !.rBound = wBase(m)]
    IN  [got |-> n <= after.rBound - m.rBase, mem |-> after,
         v |-> Between(m, m.rBase, after.rBound)]

consume(m, n) ==
    LET c == countConsumedMessageBytes(m.budget, n)
        after == [m EXCEPT !.budget = c.budget]
    IN  IF ~c.ok THEN Failed("budget", after)
        ELSE IF n > m.rBound - m.rBase THEN Failed("bad_args", after)
        ELSE Done([after EXCEPT !.rBase = @ + n])

resetBuffer(m) == [m EXCEPT !.bytes = <<>>, !.rBase = 0, !.rBound = 0]

(* Mutated readEnd: the budget of the message is kept.                     *)
readEndKept(m) == IF m.rBase = wBase(m) THEN resetBuffer(m) ELSE m

(* The buffer starts anew only once everything in it was read.             *)
readEnd(m) ==
    [IF m.rBase = wBase(m) THEN resetBuffer(m) ELSE m EXCEPT !.budget = FullBudget]

(* The budget becomes what the buffer holds, if a message may be so long.  *)
bindMessageSizeToBuffer(m) ==
    LET u == updateKnownMessageSize(FullBudget, available_read(m))
        after == [m EXCEPT !.budget = u.budget]
    IN  IF u.ok THEN Done(after) ELSE Failed("budget", after)
=============================================================================

----------------------------- MODULE WireProofs -----------------------------
(***************************************************************************)
(* What is proved of the transports and of the compact protocol, for       *)
(* buffers, frames and budgets of every size and for integers of every     *)
(* width.                                                                  *)
(*                                                                         *)
(* BudgetBindsFrame is not inductive: when a frame arrives, the budget     *)
(* must already be that of the frame, and when readEnd() or flush() set it *)
(* again, the frame must fit the largest budget there is.                  *)
(*                                                                         *)
(* That the transports implement ByteStream needs to know what is on its   *)
(* way: the bytes in the connection, together with the part of a frame     *)
(* that was read, are whole frames of what was written behind the reader,  *)
(* the last of which may be torn once the writer has failed. Every step    *)
(* takes a frame from the front, puts one at the end, or moves none. That  *)
(* failures are justified follows from the same invariant, and from what   *)
(* the loop of TFramedTransport::writeSlow computes.                       *)
(*                                                                         *)
(* What the loops of writeSlow, writeVarint64 and readVarint64 compute is  *)
(* proved by induction, that is, with the least number for which it fails. *)
(***************************************************************************)
EXTENDS BufferTransports, CompactInts, WellFoundedInduction, TLAPS

(* What the steps of the reader rely on: a call that waits has emptied the *)
(* buffer, a frame whose bytes are awaited has its budget, and what is     *)
(* buffered of a frame is within both budgets.                             *)
BudgetInv ==
    /\ wire \in Seq(Nat) /\ rBuf \in Seq(Nat) /\ wBuf \in Seq(Nat)
    /\ part \in Seq(Nat) /\ sent \in Seq(Nat)
    /\ budget \in Budget /\ frame \in Int /\ want \in Int
    /\ budgetBoundToBuffer_ \in BOOLEAN
    /\ phase \in {"fill", "payload"} => rBuf = <<>>
    /\ phase = "payload" =>
          budgetBoundToBuffer_ /\ budget.remaining = frame /\ frame <= MaxMessageSize
    /\ budgetBoundToBuffer_ /\ rBuf # <<>> =>
          Len(rBuf) <= budget.remaining /\ budget.remaining <= frame
            /\ frame <= MaxMessageSize
    /\ phase \in {"fill", "payload"} => want \in Nat
    /\ kind \in {"buffered", "framed"}
    /\ kind = "buffered" =>
          ~budgetBoundToBuffer_ /\ wBufSize_ = WBufSize /\ Len(wBuf) <= WBufSize

(* What is left of a sequence of bytes once the first n are gone.          *)
LEMMA DroppedBytes ==
    ASSUME NEW s \in Seq(Nat), NEW n \in Nat, n <= Len(s)
    PROVE  /\ Dropped(s, n) \in Seq(Nat)
           /\ Len(Dropped(s, n)) = Len(s) - n
           /\ n = Len(s) => Dropped(s, n) = <<>>
  BY DEF Dropped

(* A prefix of a sequence of bytes.                                        *)
LEMMA PrefixBytes ==
    ASSUME NEW s \in Seq(Nat), NEW n \in Nat, n <= Len(s)
    PROVE  SubSeq(s, 1, n) \in Seq(Nat) /\ Len(SubSeq(s, 1, n)) = n
  OBVIOUS

(* The size in front of a frame.                                           *)
LEMMA SizeOfBytes ==
    ASSUME NEW s \in Seq(Nat), Len(s) = HeaderSize
    PROVE  ntohl(s) \in Nat
  <1>0. Len(s) = 4
    BY Zenon DEF HeaderSize
  <1>1. \A i \in 1..Len(s) : s[i] \in Nat
    OBVIOUS
  <1>2. s[1] \in Nat /\ s[2] \in Nat /\ s[3] \in Nat /\ s[4] \in Nat
    BY <1>0, <1>1
  <1> DEFINE high == 256 * s[1] + s[2]
             upper == 256 * high + s[3]
  <1>3. high \in Nat
    BY <1>2
  <1>4. upper \in Nat
    <2> HIDE DEF high
    <2> QED
      BY <1>2, <1>3
  <1>5. 256 * upper + s[4] \in Nat
    <2> HIDE DEF upper
    <2> QED
      BY <1>2, <1>4
  <1> QED
    BY <1>5, Zenon DEF ntohl

(* What arrives is some of what is in the connection.                      *)
LEMMA ArrivingBytes ==
    ASSUME wire \in Seq(Nat), NEW n \in Int, NEW bytes \in Arriving(n)
    PROVE  /\ bytes \in Seq(Nat) /\ Len(bytes) \in 1..Len(wire)
           /\ Len(bytes) <= n
           /\ Dropped(wire, Len(bytes)) \in Seq(Nat)
  <1>1. PICK k \in 1..Lesser(n, Len(wire)) : bytes = SubSeq(wire, 1, k)
    BY Zenon DEF Arriving
  <1>2. k \in Nat /\ k >= 1 /\ k <= Len(wire) /\ k <= n
    BY <1>1 DEF Lesser
  <1>3. bytes \in Seq(Nat) /\ Len(bytes) = k
    BY <1>1, <1>2, PrefixBytes, Zenon
  <1>4. Dropped(wire, k) \in Seq(Nat)
    BY <1>2, DroppedBytes, Zenon
  <1> QED
    BY <1>2, <1>3, <1>4

(* Counting bytes takes them off what remains, or everything.              *)
LEMMA CountedBytes ==
    ASSUME NEW b \in Budget, NEW n \in Nat
    PROVE  /\ countConsumedMessageBytes(b, n).budget \in Budget
           /\ countConsumedMessageBytes(b, n).ok = (b.remaining >= n)
           /\ b.remaining >= n =>
                countConsumedMessageBytes(b, n).budget.remaining = b.remaining - n
  <1> DEFINE left == IF b.remaining >= n THEN b.remaining - n ELSE 0
  <1>1. left \in Nat /\ (b.remaining >= n => left = b.remaining - n)
    BY DEF Budget
  <1>2. countConsumedMessageBytes(b, n).ok = (b.remaining >= n)
    BY Zenon DEF countConsumedMessageBytes
  <1>3. countConsumedMessageBytes(b, n).budget = [b EXCEPT !.remaining = left]
    BY Zenon DEF countConsumedMessageBytes
  <1> HIDE DEF left
  <1>4. [b EXCEPT !.remaining = left] \in Budget /\ [b EXCEPT !.remaining = left].remaining = left
    BY <1>1, Zenon DEF Budget
  <1> QED
    BY <1>1, <1>2, <1>3, <1>4, Zenon

(* A frame that the budget admits has the budget of its size.              *)
LEMMA FrameBudgetExact ==
    ASSUME NEW size \in Nat
    PROVE  /\ FrameBudget(size).budget \in Budget
           /\ FrameBudget(size).ok \in BOOLEAN
           /\ FrameBudget(size).ok =>
                size <= MaxMessageSize /\ FrameBudget(size).budget.remaining = size
  <1>1. FullBudget \in Budget /\ FullBudget.known = MaxMessageSize
          /\ FullBudget.known - FullBudget.remaining = 0
    BY MessageSizeAssumption DEF FullBudget, Budget
  <1>2. CASE size > MaxMessageSize
    <2>1. FrameBudget(size) = [ok |-> FALSE, budget |-> FullBudget]
      BY <1>1, <1>2, Zenon DEF FrameBudget, updateKnownMessageSize
    <2> QED
      BY <1>1, <2>1
  <1>3. CASE size <= MaxMessageSize
    <2> DEFINE b == [known |-> size, remaining |-> size]
    <2>1. FrameBudget(size) = countConsumedMessageBytes(b, 0)
      BY MessageSizeAssumption, <1>1, <1>3 DEF FrameBudget, updateKnownMessageSize
    <2>2. /\ countConsumedMessageBytes(b, 0).budget \in Budget
          /\ countConsumedMessageBytes(b, 0).ok \in BOOLEAN
          /\ countConsumedMessageBytes(b, 0).budget.remaining = size
      BY DEF countConsumedMessageBytes, Budget
    <2> QED
      BY <1>3, <2>1, <2>2, Zenon
  <1> QED
    BY MessageSizeAssumption, <1>2, <1>3

(* resetReadBudget() binds the budget to what is left of a frame that      *)
(* fits the largest budget.                                                *)
LEMMA ResetBindsRest ==
    ASSUME NEW b \in Seq(Nat), budgetBoundToBuffer_ \in BOOLEAN
    PROVE  /\ resetReadBudget(b) \in Budget
           /\ budgetBoundToBuffer_ /\ b # <<>> /\ Len(b) <= MaxMessageSize =>
                resetReadBudget(b).remaining = Len(b)
  BY MessageSizeAssumption
    DEF resetReadBudget, updateKnownMessageSize, countConsumedMessageBytes, FullBudget, Budget

(* The bytes of the writing program.                                       *)
LEMMA WrittenBytes ==
    ASSUME BudgetInv, NEW n \in Nat
    PROVE  NextBytes(n) \in Seq(Nat) /\ Len(NextBytes(n)) = n
  BY DEF BudgetInv, NextBytes

(* What is flushed are bytes.                                              *)
LEMMA FlushedBytes ==
    ASSUME BudgetInv
    PROVE  Flushed \in Seq(Nat)
  <1>1. wBuf \in Seq(Nat) /\ Len(wBuf) \in Nat
    BY DEF BudgetInv
  <1>2. htonl(Len(wBuf)) \in Seq(Nat)
    BY <1>1, SMT, Zenon DEF htonl
  <1> QED
    BY <1>1, <1>2 DEF Flushed

(* A call that hands over bytes leaves the rest of them in the buffer.     *)
LEMMA HandOver ==
    ASSUME NEW bytes \in Seq(Nat), bytes # <<>>, NEW b, NEW bound, want \in Nat,
           HandsOver(bytes, b, bound)
    PROVE  /\ rBuf' \in Seq(Nat) /\ Len(rBuf') <= Len(bytes)
           /\ part' = <<>> /\ want' \in Nat
           /\ phase' \in {"idle", "fill", "ended"}
           /\ phase' = "fill" => rBuf' = <<>>
  <1>0. want \in Nat /\ Len(bytes) \in Nat
    OBVIOUS
  <1> DEFINE n == Lesser(want, Len(bytes))
  <1>1. n \in Nat /\ n <= Len(bytes) /\ (want > Len(bytes) => n = Len(bytes))
    BY <1>0 DEF Lesser
  <1>2. rBuf' = Dropped(bytes, n)
    BY Zenon DEF HandsOver
  <1> HIDE DEF n
  <1>3. /\ rBuf' \in Seq(Nat) /\ Len(rBuf') <= Len(bytes)
        /\ want > Len(bytes) => rBuf' = <<>>
    <2>1. /\ rBuf' \in Seq(Nat) /\ Len(rBuf') = Len(bytes) - n
          /\ n = Len(bytes) => rBuf' = <<>>
      BY <1>1, <1>2, DroppedBytes, Zenon
    <2> QED
      BY <1>0, <1>1, <2>1
  <1>4. CASE op = "readAll" /\ want > Len(bytes)
    BY <1>0, <1>3, <1>4 DEF HandsOver, Asks, Fails
  <1>5. CASE ~(op = "readAll" /\ want > Len(bytes))
    BY <1>0, <1>3, <1>5 DEF HandsOver, Returns
  <1> QED
    BY <1>4, <1>5, Zenon

(* writeSlow() of a TBufferedTransport, with a buffer that is not overfull. *)
LEMMA SlowWrite ==
    ASSUME BudgetInv, kind = "buffered", NEW data \in Seq(Nat),
           Len(wBuf) + Len(data) > wBufSize_, BufferedWriteSlow(data)
    PROVE  wire' \in Seq(Nat) /\ wBuf' \in Seq(Nat) /\ Len(wBuf') <= WBufSize
  <1>0. /\ wire \in Seq(Nat) /\ wBuf \in Seq(Nat) /\ wBufSize_ = WBufSize
        /\ WBufSize \in Nat /\ Len(wBuf) <= WBufSize
        /\ Len(wBuf) \in Nat /\ Len(data) \in Nat
    BY TransportAssumption DEF BudgetInv
  <1> DEFINE space == wBufSize_ - Len(wBuf)
  <1>1. space \in Nat /\ space <= Len(data)
    BY <1>0
  <1>2. CASE TwoWrites(Len(data))
    <2>1. wire' = wire \o wBuf \o data /\ wBuf' = <<>>
      BY <1>2, Zenon DEF BufferedWriteSlow
    <2> QED
      BY <1>0, <2>1
  <1>3. CASE ~TwoWrites(Len(data))
    <2> DEFINE first == SubSeq(data, 1, space)
               rest == Dropped(data, space)
    <2>1. /\ wire' = wire \o wBuf \o first
          /\ wBuf' = wBuf \/ (Len(rest) < wBufSize_ /\ wBuf' = rest)
      <3>1. Len(rest) \in Nat
        BY <1>1, DroppedBytes
      <3>2. /\ wire' = wire \o wBuf \o first
            /\ IF Len(rest) >= wBufSize_ THEN wBuf' = wBuf ELSE wBuf' = rest
        BY <1>3, Zenon DEF BufferedWriteSlow
      <3> HIDE DEF first, rest
      <3> QED
        BY <1>0, <3>1, <3>2
    <2>2. first \in Seq(Nat) /\ rest \in Seq(Nat) /\ Len(rest) \in Nat
      <3> HIDE DEF space
      <3> QED
        BY <1>1, PrefixBytes, DroppedBytes
    <2> HIDE DEF first, rest
    <2> QED
      BY <1>0, <2>1, <2>2
  <1> QED
    BY <1>2, <1>3, Zenon

(* A step of the reader that only takes bytes out of the buffer.           *)
LEMMA LessInBuffer ==
    ASSUME BudgetInv,
           UNCHANGED <<fixedVars, writerVars, budget, budgetBoundToBuffer_, frame>>,
           wire' \in Seq(Nat), rBuf' \in Seq(Nat), Len(rBuf') <= Len(rBuf),
           part' \in Seq(Nat), want' \in Nat, phase' \in {"idle", "fill", "ended"},
           phase' = "fill" => rBuf' = <<>>
    PROVE  BudgetInv'
  <1>0. rBuf \in Seq(Nat) /\ Len(rBuf) \in Nat /\ Len(rBuf') \in Nat
          /\ (rBuf' # <<>> => rBuf # <<>>) /\ budget \in Budget /\ frame \in Int
    BY DEF BudgetInv
  <1>1. budgetBoundToBuffer_' /\ rBuf' # <<>> =>
            Len(rBuf') <= budget'.remaining /\ budget'.remaining <= frame'
              /\ frame' <= MaxMessageSize
    BY <1>0 DEF BudgetInv, Budget
  <1> QED
    BY <1>1 DEF BudgetInv, fixedVars, writerVars

(* The steps of the writing program and the faults.                        *)
LEMMA WriterStep ==
    ASSUME BudgetInv, Writer \/ Faults
    PROVE  BudgetInv'
  <1>0. wire \in Seq(Nat) /\ wBuf \in Seq(Nat) /\ sent \in Seq(Nat) /\ Flushed \in Seq(Nat)
    BY FlushedBytes, Zenon DEF BudgetInv
  <1> DEFINE Kept == /\ wire' \in Seq(Nat) /\ wBuf' \in Seq(Nat) /\ sent' \in Seq(Nat)
                     /\ kind = "buffered" =>
                          wBufSize_' = WBufSize /\ Len(wBuf') <= WBufSize
                     /\ UNCHANGED <<fixedVars, readerVars>>
  <1>1. SUFFICES Kept
    BY Zenon DEF BudgetInv, fixedVars, readerVars
  <1>2. kind \in {"buffered", "framed"}
          /\ (kind = "buffered" => wBufSize_ = WBufSize /\ Len(wBuf) <= WBufSize)
    BY Zenon DEF BudgetInv
  <1>3. ASSUME NEW n \in WriteLengths, Write(n)
        PROVE  Kept
    <2>0. n \in Nat
      BY TransportAssumption, Zenon
    <2>1. NextBytes(n) \in Seq(Nat) /\ Len(NextBytes(n)) = n
      BY <2>0, WrittenBytes, Zenon
    <2>2. sent' \in Seq(Nat) /\ UNCHANGED <<fixedVars, readerVars>>
      BY <1>0, <1>3, <2>1 DEF Write
    <2>3. CASE kind = "framed"
      <3>1. wire' = wire /\ wBuf' = wBuf \o NextBytes(n)
        BY <1>3, <2>3, Zenon DEF Write
      <3> QED
        BY <1>0, <2>1, <2>2, <2>3, <3>1
    <2>4. CASE kind = "buffered" /\ Len(wBuf) + n <= wBufSize_
      <3>1. wire' = wire /\ wBuf' = wBuf \o NextBytes(n) /\ wBufSize_' = wBufSize_
        BY <1>0, <1>2, <1>3, <2>0, <2>4 DEF Write
      <3> QED
        BY TransportAssumption, <1>0, <1>2, <2>0, <2>1, <2>2, <2>4, <3>1
    <2>5. CASE kind = "buffered" /\ ~(Len(wBuf) + n <= wBufSize_)
      <3>1. BufferedWriteSlow(NextBytes(n)) /\ wBufSize_' = wBufSize_
        BY <1>0, <1>3, <2>0, <2>5 DEF Write
      <3>2. Len(wBuf) + Len(NextBytes(n)) > wBufSize_
        BY TransportAssumption, <1>0, <1>2, <2>0, <2>1, <2>5
      <3> QED
        BY <1>2, <2>1, <2>2, <2>5, <3>1, <3>2, SlowWrite, Zenon
    <2> QED
      BY <1>2, <2>3, <2>4, <2>5, Zenon
  <1>4. ASSUME NEW after, flush(after), UNCHANGED <<fixedVars, sent, readerVars>>
        PROVE  Kept
    <2>1. /\ wBuf' = <<>> \/ wBuf' = wBuf
          /\ wire' = wire \/ wire' = wire \o Flushed
          /\ kind = "buffered" => wBufSize_' = wBufSize_
      BY <1>2, <1>4, Zenon DEF flush, Reclaimed, TooSmall
    <2>2. UNCHANGED <<fixedVars, readerVars>> /\ sent' = sent
      BY <1>4, Zenon
    <2>3. wire' \in Seq(Nat) /\ wBuf' \in Seq(Nat) /\ Len(wBuf') <= Len(wBuf)
      <3>0. wire \o Flushed \in Seq(Nat)
        BY <1>0
      <3>1. wire' \in Seq(Nat)
        BY <1>0, <2>1, <3>0, Zenon
      <3>2. CASE wBuf' = wBuf
        BY <1>0, <3>1, <3>2
      <3>3. CASE wBuf' = <<>>
        BY <1>0, <3>1, <3>3
      <3> QED
        BY <2>1, <3>2, <3>3, Zenon
    <2>4. kind = "buffered" => wBufSize_' = WBufSize /\ Len(wBuf') <= WBufSize
      <3>1. WBufSize \in Nat /\ Len(wBuf) \in Nat /\ Len(wBuf') \in Nat
        BY TransportAssumption, <1>0, <2>3
      <3> QED
        BY <1>2, <2>1, <2>3, <3>1
    <2> QED
      BY <1>0, <2>2, <2>3, <2>4, Zenon
  <1>5. CASE FlushFails
    <2>1. PICK k \in 0..(Len(Flushed) - 1) : wire' = wire \o SubSeq(Flushed, 1, k)
      BY <1>5, Zenon DEF FlushFails
    <2>2. SubSeq(Flushed, 1, k) \in Seq(Nat)
      BY <1>0, PrefixBytes
    <2> QED
      BY TransportAssumption, <1>0, <1>2, <1>5, <2>1, <2>2 DEF FlushFails
  <1>6. CASE Reset
    <2>1. PICK k \in 0..Len(wire) : wire' = SubSeq(wire, 1, k)
      BY <1>6, Zenon DEF Reset
    <2>2. wire' \in Seq(Nat)
      BY <1>0, <2>1, PrefixBytes
    <2> QED
      BY <1>0, <1>2, <1>6, <2>2, Zenon DEF Reset
  <1>7. ASSUME NEW n \in WriteLengths, WriteFails(n)
        PROVE  Kept
    <2>1. n \in Nat /\ NextBytes(n) \in Seq(Nat) /\ Len(NextBytes(n)) = n
      BY TransportAssumption, WrittenBytes, Zenon
    <2> DEFINE u == wBuf \o NextBytes(n)
               handed == IF TwoWrites(n) THEN Len(wBuf) + n ELSE wBufSize_
    <2>2. /\ \E k \in 0..(handed - 1) : wire' = wire \o SubSeq(u, 1, k)
          /\ sent' = sent \o NextBytes(n)
          /\ UNCHANGED <<fixedVars, wBuf, wBufSize_, readerVars>>
      BY <1>7, Zenon DEF WriteFails
    <2>3. u \in Seq(Nat) /\ sent' \in Seq(Nat)
      BY <1>0, <2>1, <2>2
    <2>4. PICK k \in 0..(handed - 1) : wire' = wire \o SubSeq(u, 1, k)
      BY <2>2, Zenon
    <2>a. WBufSize \in Nat /\ wBufSize_ = WBufSize /\ Len(wBuf) + n > wBufSize_
      BY <1>2, <1>7, TransportAssumption, Zenon DEF WriteFails
    <2>5. k \in Nat /\ k <= Len(wBuf) + Len(NextBytes(n))
      BY <1>0, <2>1, <2>4, <2>a
    <2>b. Len(u) = Len(wBuf) + Len(NextBytes(n))
      <3>1. ASSUME NEW s \in Seq(Nat), NEW t \in Seq(Nat) PROVE Len(s \o t) = Len(s) + Len(t)
        OBVIOUS
      <3> QED
        BY <1>0, <2>1, <3>1, Zenon
    <2> HIDE DEF u, handed
    <2>6. SubSeq(u, 1, k) \in Seq(Nat)
      BY <2>3, <2>5, <2>b, PrefixBytes, Zenon
    <2>7. wire' \in Seq(Nat)
      BY <1>0, <2>4, <2>6
    <2> QED
      BY <1>0, <1>2, <2>2, <2>3, <2>7, Zenon
  <1> QED
    BY <1>3, <1>4, <1>5, <1>6, <1>7, Zenon DEF Writer, Faults, Flush, Close

(* read() and readAll() start with what is in the buffer.                  *)
LEMMA ReadStep ==
    ASSUME BudgetInv, NEW n \in Nat \ {0}, NEW call, Read(call, n)
    PROVE  BudgetInv'
  <1>0. /\ rBuf \in Seq(Nat) /\ Have \in Nat /\ Have = Len(rBuf)
        /\ part \in Seq(Nat) /\ want \in Int /\ phase = "idle"
    BY DEF BudgetInv, Have, Read
  <1> DEFINE k == Lesser(n, Have)
  <1>1. k \in Nat /\ k <= Len(rBuf) /\ (~(n <= Have) => k = Len(rBuf))
    BY <1>0 DEF Lesser
  <1>2. Dropped(rBuf, k) \in Seq(Nat) /\ Len(Dropped(rBuf, k)) <= Len(rBuf)
          /\ (~(n <= Have) => Dropped(rBuf, k) = <<>>)
    <2> HIDE DEF k
    <2>1. /\ Dropped(rBuf, k) \in Seq(Nat) /\ Len(Dropped(rBuf, k)) = Len(rBuf) - k
          /\ k = Len(rBuf) => Dropped(rBuf, k) = <<>>
      BY <1>0, <1>1, DroppedBytes, Zenon
    <2> QED
      BY <1>0, <1>1, <2>1
  <1>3. UNCHANGED <<fixedVars, writerVars, wire, rBufSize_, budget, budgetBoundToBuffer_, frame>>
    BY Zenon DEF Read
  <1>4. \/ Fails("budget") /\ rBuf' = rBuf
        \/ rBuf' = Dropped(rBuf, k) /\ Returns
        \/ rBuf' = Dropped(rBuf, k) /\ ~(n <= Have)
             /\ Asks(call, n - Have, budget, budgetBoundToBuffer_)
    BY Zenon DEF Read
  <1>5. /\ rBuf' \in Seq(Nat) /\ Len(rBuf') <= Len(rBuf)
        /\ part' \in Seq(Nat) /\ want' \in Nat
        /\ phase' \in {"idle", "fill", "ended"} /\ (phase' = "fill" => rBuf' = <<>>)
    <2> HIDE DEF k
    <2>1. CASE Fails("budget") /\ rBuf' = rBuf
      BY <1>0, <2>1 DEF Fails
    <2>2. CASE rBuf' = Dropped(rBuf, k) /\ Returns
      BY <1>2, <2>2 DEF Returns
    <2>3. CASE /\ rBuf' = Dropped(rBuf, k) /\ ~(n <= Have)
               /\ Asks(call, n - Have, budget, budgetBoundToBuffer_)
      <3>1. n - Have \in Nat
        BY <1>0, <2>3
      <3>2. /\ part' = <<>> /\ want' \in Nat /\ phase' \in {"fill", "ended"}
        BY <2>3, <3>1 DEF Asks, Fails
      <3> QED
        BY <1>2, <2>3, <3>2, Zenon
    <2> QED
      BY <1>4, <2>1, <2>2, <2>3, Zenon
  <1>6. wire' \in Seq(Nat)
    BY <1>3, Zenon DEF BudgetInv
  <1> QED
    BY <1>3, <1>5, <1>6, LessInBuffer, Zenon

(* A TBufferedTransport fills its buffer, to which no budget is bound.     *)
LEMMA FillStep ==
    ASSUME BudgetInv, FillBuffer
    PROVE  BudgetInv'
  <1>0. /\ wire \in Seq(Nat) /\ want \in Nat /\ phase = "fill" /\ kind = "buffered"
        /\ ~budgetBoundToBuffer_
    BY Zenon DEF BudgetInv, FillBuffer
  <1>1. PICK bytes \in Arriving(RBufSize) :
            /\ wire' = Dropped(wire, Len(bytes))
            /\ HandsOver(bytes, budget, budgetBoundToBuffer_)
    BY Zenon DEF FillBuffer
  <1>2. bytes \in Seq(Nat) /\ bytes # <<>> /\ wire' \in Seq(Nat)
    BY TransportAssumption, <1>0, <1>1, ArrivingBytes
  <1>3. /\ rBuf' \in Seq(Nat) /\ part' = <<>> /\ want' \in Nat
        /\ phase' \in {"idle", "fill", "ended"}
        /\ phase' = "fill" => rBuf' = <<>>
    BY <1>0, <1>1, <1>2, HandOver, Zenon
  <1>4. UNCHANGED <<fixedVars, writerVars, budget, budgetBoundToBuffer_, frame>>
    BY Zenon DEF FillBuffer
  <1> QED
    BY <1>0, <1>2, <1>3, <1>4 DEF BudgetInv, fixedVars, writerVars

(* readFrame() reads the size, and binds the budget once it is complete.   *)
LEMMA FrameSizeStep ==
    ASSUME BudgetInv, ReadFrameSize
    PROVE  BudgetInv'
  <1>0. /\ wire \in Seq(Nat) /\ part \in Seq(Nat) /\ want \in Nat /\ rBuf = <<>>
        /\ phase = "fill" /\ kind = "framed"
        /\ UNCHANGED <<fixedVars, writerVars, rBuf, received>>
    BY Zenon DEF BudgetInv, ReadFrameSize
  <1>1. PICK bytes \in Arriving(HeaderSize - Len(part)) :
          /\ wire' = Dropped(wire, Len(bytes))
          /\ IF Len(part \o bytes) = HeaderSize
             THEN FrameBegins(ntohl(part \o bytes))
             ELSE /\ part' = part \o bytes
                  /\ UNCHANGED <<rBufSize_, budget, budgetBoundToBuffer_, frame,
                                 phase, op, want, error>>
    BY Zenon DEF ReadFrameSize
  <1>2. bytes \in Seq(Nat) /\ wire' \in Seq(Nat)
    <2>1. HeaderSize - Len(part) \in Int
      BY <1>0 DEF HeaderSize
    <2> QED
      BY <1>0, <1>1, <2>1, ArrivingBytes, Zenon
  <1>3. part \o bytes \in Seq(Nat)
    BY <1>0, <1>2
  <1>4. CASE Len(part \o bytes) # HeaderSize
    BY <1>0, <1>1, <1>2, <1>3, <1>4, Zenon DEF BudgetInv, fixedVars, writerVars
  <1>5. CASE Len(part \o bytes) = HeaderSize
    <2> DEFINE size == ntohl(part \o bytes)
    <2>1. size \in Nat
      BY <1>3, <1>5, SizeOfBytes, Zenon
    <2>2. FrameBegins(size)
      BY <1>1, <1>5, Zenon
    <2> HIDE DEF size
    <2>3. /\ FrameBudget(size).budget \in Budget
          /\ FrameBudget(size).ok =>
                size <= MaxMessageSize /\ FrameBudget(size).budget.remaining = size
      BY <2>1, FrameBudgetExact, Zenon
    <2>4. CASE size > MaxFrameSize
      BY <1>0, <1>2, <2>2, <2>4 DEF FrameBegins, Fails, BudgetInv, fixedVars, writerVars
    <2>5. CASE ~(size > MaxFrameSize) /\ ~FrameBudget(size).ok
      <3>1. /\ budgetBoundToBuffer_' = TRUE /\ budget' = FrameBudget(size).budget
            /\ frame' = frame /\ phase' = "ended" /\ want' = 0 /\ part' = <<>>
        BY <2>2, <2>5, Zenon DEF FrameBegins, Fails
      <3> QED
        BY <1>0, <1>2, <2>3, <3>1 DEF BudgetInv, fixedVars, writerVars
    <2>6. CASE ~(size > MaxFrameSize) /\ FrameBudget(size).ok
      <3>1. /\ budgetBoundToBuffer_' = TRUE /\ budget' = FrameBudget(size).budget
            /\ frame' = size /\ phase' = "payload" /\ want' = want /\ part' = <<>>
        BY <2>2, <2>6, Zenon DEF FrameBegins
      <3> QED
        BY <1>0, <1>2, <2>1, <2>3, <2>6, <3>1 DEF BudgetInv, fixedVars, writerVars
    <2> QED
      BY <2>4, <2>5, <2>6, Zenon
  <1> QED
    BY <1>4, <1>5, Zenon

(* readFrame() reads the bytes of a frame, whose budget is set.            *)
LEMMA FrameStep ==
    ASSUME BudgetInv, ReadFrame
    PROVE  BudgetInv'
  <1>0. /\ wire \in Seq(Nat) /\ part \in Seq(Nat) /\ want \in Nat /\ rBuf = <<>>
        /\ phase = "payload" /\ budget.remaining = frame /\ frame <= MaxMessageSize
        /\ frame \in Int
        /\ UNCHANGED <<fixedVars, writerVars, rBufSize_, budget, budgetBoundToBuffer_, frame>>
    BY Zenon DEF BudgetInv, ReadFrame
  <1>1. PICK bytes \in Arriving(frame - Len(part)) :
          /\ wire' = Dropped(wire, Len(bytes))
          /\ IF Len(part \o bytes) = frame
             THEN HandsOver(part \o bytes, budget, budgetBoundToBuffer_)
             ELSE part' = part \o bytes /\ UNCHANGED <<rBuf, phase, op, want, error, received>>
    BY Zenon DEF ReadFrame
  <1>2. bytes \in Seq(Nat) /\ Len(bytes) >= 1 /\ wire' \in Seq(Nat)
    <2>1. frame - Len(part) \in Int
      BY <1>0
    <2> QED
      BY <1>0, <1>1, <2>1, ArrivingBytes
  <1>3. part \o bytes \in Seq(Nat) /\ part \o bytes # <<>>
    BY <1>0, <1>2
  <1>4. CASE Len(part \o bytes) # frame
    BY <1>0, <1>1, <1>2, <1>3, <1>4, Zenon DEF BudgetInv, fixedVars, writerVars
  <1>5. CASE Len(part \o bytes) = frame
    <2> DEFINE all == part \o bytes
    <2>1. HandsOver(all, budget, budgetBoundToBuffer_) /\ all \in Seq(Nat) /\ all # <<>>
      BY <1>1, <1>3, <1>5, Zenon
    <2>2. Len(all) = frame
      BY <1>5, Zenon
    <2> HIDE DEF all
    <2>3. /\ rBuf' \in Seq(Nat) /\ Len(rBuf') <= Len(all) /\ part' = <<>> /\ want' \in Nat
          /\ phase' \in {"idle", "fill", "ended"}
          /\ phase' = "fill" => rBuf' = <<>>
      BY <1>0, <2>1, HandOver, Zenon
    <2>4. Len(rBuf') <= budget'.remaining /\ budget'.remaining <= frame'
            /\ frame' <= MaxMessageSize
      BY <1>0, <2>2, <2>3
    <2> QED
      BY <1>0, <1>2, <2>3, <2>4 DEF BudgetInv, fixedVars, writerVars
  <1> QED
    BY <1>4, <1>5, Zenon

(* consume() takes as much from the budget as from the buffer.             *)
LEMMA ConsumeStep ==
    ASSUME BudgetInv, NEW n \in Nat, Consume(n)
    PROVE  BudgetInv'
  <1>0. /\ rBuf \in Seq(Nat) /\ n <= Len(rBuf) /\ budget \in Budget /\ part \in Seq(Nat)
        /\ want \in Int /\ frame \in Int
        /\ UNCHANGED <<fixedVars, writerVars, wire, rBufSize_, budgetBoundToBuffer_, frame>>
    BY Zenon DEF BudgetInv, Consume, Have
  <1>1. /\ Dropped(rBuf, n) \in Seq(Nat) /\ Len(Dropped(rBuf, n)) = Len(rBuf) - n
        /\ n = Len(rBuf) => Dropped(rBuf, n) = <<>>
    BY <1>0, DroppedBytes, Zenon
  <1>2. /\ countConsumedMessageBytes(budget, n).budget \in Budget
        /\ countConsumedMessageBytes(budget, n).ok = (budget.remaining >= n)
        /\ budget.remaining >= n =>
             countConsumedMessageBytes(budget, n).budget.remaining = budget.remaining - n
    BY <1>0, CountedBytes, Zenon
  <1>3. budget' = countConsumedMessageBytes(budget, n).budget
    BY Zenon DEF Consume
  <1>4. CASE budget.remaining >= n
    <2>1. rBuf' = Dropped(rBuf, n) /\ Returns
      BY <1>2, <1>4, Zenon DEF Consume
    <2>2. budgetBoundToBuffer_' /\ rBuf' # <<>> =>
            Len(rBuf') <= budget'.remaining /\ budget'.remaining <= frame'
              /\ frame' <= MaxMessageSize
      <3>1. rBuf' # <<>> => rBuf # <<>>
        BY <1>0, <1>1, <2>1
      <3>2. budget'.remaining = budget.remaining - n /\ Len(rBuf') = Len(rBuf) - n
        BY <1>1, <1>2, <1>3, <1>4, <2>1, Zenon
      <3>3. budget.remaining \in Nat /\ Len(rBuf) \in Nat
        BY <1>0 DEF Budget
      <3> QED
        BY <1>0, <3>1, <3>2, <3>3 DEF BudgetInv
    <2> QED
      BY <1>0, <1>1, <1>2, <1>3, <2>1, <2>2 DEF BudgetInv, Returns, fixedVars, writerVars
  <1>5. CASE ~(budget.remaining >= n)
    <2>1. Fails("budget") /\ rBuf' = rBuf
      BY <1>2, <1>5, Zenon DEF Consume
    <2>2. ~(budgetBoundToBuffer_ /\ rBuf # <<>>)
      <3>1. budget.remaining \in Nat /\ Len(rBuf) \in Nat
        BY <1>0 DEF Budget
      <3> QED
        BY <1>0, <1>5, <3>1 DEF BudgetInv
    <2> QED
      BY <1>0, <1>2, <1>3, <2>1, <2>2 DEF BudgetInv, Fails, fixedVars, writerVars
  <1> QED
    BY <1>4, <1>5, Zenon

(* readEnd() and flush() set the budget to what is left of the frame.      *)
LEMMA ResetStep ==
    ASSUME BudgetInv, ReadEnd \/ Answer
    PROVE  BudgetInv'
  <1>0. /\ rBuf \in Seq(Nat) /\ rBuf' \in Seq(Nat)
        /\ rBuf' = rBuf \/ rBuf' = <<>>
        /\ budgetBoundToBuffer_ \in BOOLEAN /\ frame \in Int /\ phase = "idle"
    <2>1. rBuf' = rBuf \/ rBuf' = <<>>
      BY Zenon DEF ReadEnd, Answer
    <2>2. rBuf \in Seq(Nat) /\ budgetBoundToBuffer_ \in BOOLEAN /\ frame \in Int
      BY Zenon DEF BudgetInv
    <2>3. phase = "idle"
      BY Zenon DEF ReadEnd, Answer
    <2>4. CASE rBuf' = rBuf
      BY <2>2, <2>3, <2>4, Zenon
    <2>5. CASE rBuf' = <<>>
      BY <2>2, <2>3, <2>5
    <2> QED
      BY <2>1, <2>4, <2>5, Zenon
  <1>1. UNCHANGED <<fixedVars, writerVars, wire, budgetBoundToBuffer_, frame,
                    phase, op, want, part, error, received>>
    BY Zenon DEF ReadEnd, Answer
  <1>2. budget' = IF kind = "framed" THEN resetReadBudget(rBuf') ELSE FullBudget
    BY Zenon DEF ReadEnd, Answer
  <1>3. FullBudget \in Budget
    BY MessageSizeAssumption, Zenon DEF FullBudget, Budget
  <1>4. /\ resetReadBudget(rBuf') \in Budget
        /\ budgetBoundToBuffer_ /\ rBuf' # <<>> /\ Len(rBuf') <= MaxMessageSize =>
                resetReadBudget(rBuf').remaining = Len(rBuf')
    BY <1>0, ResetBindsRest, Zenon
  <1>5. budgetBoundToBuffer_' /\ rBuf' # <<>> =>
            Len(rBuf') <= budget'.remaining /\ budget'.remaining <= frame'
              /\ frame' <= MaxMessageSize
    <2> SUFFICES ASSUME budgetBoundToBuffer_', rBuf' # <<>>
                 PROVE  Len(rBuf') <= budget'.remaining /\ budget'.remaining <= frame'
                          /\ frame' <= MaxMessageSize
      BY Zenon
    <2>1. rBuf' = rBuf /\ budgetBoundToBuffer_ /\ frame' = frame
      BY <1>0, <1>1, Zenon
    <2>2. /\ Len(rBuf) <= budget.remaining /\ budget.remaining <= frame
          /\ frame <= MaxMessageSize /\ kind = "framed"
          /\ budget.remaining \in Nat /\ Len(rBuf) \in Nat /\ frame \in Int
      BY <2>1 DEF BudgetInv, Budget
    <2>3. Len(rBuf) <= MaxMessageSize /\ Len(rBuf) <= frame
      BY MessageSizeAssumption, <2>2
    <2>4. budget'.remaining = Len(rBuf)
      BY <1>2, <1>4, <2>1, <2>2, <2>3, Zenon
    <2> QED
      BY <1>0, <2>1, <2>2, <2>3, <2>4
  <1> QED
    BY <1>0, <1>1, <1>2, <1>3, <1>4, <1>5, Zenon DEF BudgetInv, fixedVars, writerVars

(* Every step keeps the invariant.                                         *)
LEMMA BudgetNext == BudgetInv /\ [Next]_vars => BudgetInv'
  <1> SUFFICES ASSUME BudgetInv, [Next]_vars
               PROVE  BudgetInv'
    BY Zenon
  <1>1. CASE Writer \/ Faults
    BY <1>1, WriterStep, Zenon
  <1>2. CASE Reads
    BY TransportAssumption, <1>2, ReadStep, Zenon DEF Reads
  <1>3. CASE Peek
    BY <1>3 DEF BudgetInv, Peek, fixedVars, writerVars
  <1>4. CASE EndOfFile
    <2>1. /\ UNCHANGED <<fixedVars, writerVars, wire, rBuf, budget, budgetBoundToBuffer_, frame>>
          /\ phase' = "ended" /\ want' = 0 /\ part' = <<>>
      BY <1>4, Zenon DEF EndOfFile, Fails
    <2> QED
      BY <2>1 DEF BudgetInv, fixedVars, writerVars
  <1>5. CASE FillBuffer \/ ReadFrameSize \/ ReadFrame
    BY <1>5, FillStep, FrameSizeStep, FrameStep, Zenon
  <1>6. CASE \E n \in ReadLengths : Consume(n)
    BY TransportAssumption, <1>6, ConsumeStep, Zenon
  <1>7. CASE ReadEnd \/ Answer
    BY <1>7, ResetStep, Zenon
  <1>8. CASE UNCHANGED vars
    BY <1>8, Zenon DEF BudgetInv, vars, fixedVars, writerVars, readerVars
  <1> QED
    BY <1>1, <1>2, <1>3, <1>4, <1>5, <1>6, <1>7, <1>8, Zenon DEF Next, Reader, Fills

(* And the first state has it.                                             *)
LEMMA BudgetInit == Init => BudgetInv
  <1>1. FullBudget \in Budget
    BY MessageSizeAssumption, Zenon DEF FullBudget, Budget
  <1> SUFFICES ASSUME Init
               PROVE  BudgetInv
    BY Zenon
  <1>2. kind \in {"buffered", "framed"} /\ (kind = "buffered" => wBufSize_ = WBufSize)
    BY TransportAssumption, Zenon DEF Init
  <1>3. /\ wire = <<>> /\ rBuf = <<>> /\ wBuf = <<>> /\ part = <<>> /\ sent = <<>>
        /\ budget = FullBudget /\ frame = 0 /\ want = 0
        /\ budgetBoundToBuffer_ = FALSE /\ phase = "idle"
    BY Zenon DEF Init
  <1>4. Len(wBuf) <= WBufSize
    BY TransportAssumption, <1>3
  <1>5. wire \in Seq(Nat) /\ rBuf \in Seq(Nat) /\ wBuf \in Seq(Nat)
          /\ part \in Seq(Nat) /\ sent \in Seq(Nat)
    BY <1>3
  <1>6. frame \in Int /\ want \in Int
    BY <1>3
  <1>7. budget \in Budget /\ budgetBoundToBuffer_ \in BOOLEAN
    BY <1>1, <1>3, Zenon
  <1> QED
    BY <1>2, <1>3, <1>4, <1>5, <1>6, <1>7, Zenon DEF BudgetInv

(* BudgetBindsFrame for buffers, frames, thresholds and budgets of every   *)
(* size, and for frames of one message or of several.                      *)
THEOREM FrameBudgetHolds == Spec => []BudgetBindsFrame
  <1>1. BudgetInv => BudgetBindsFrame
    BY Zenon DEF BudgetInv, BudgetBindsFrame, Have
  <1> QED
    BY <1>1, BudgetInit, BudgetNext, PTL DEF Spec

-----------------------------------------------------------------------------
(* The connection hands on the bytes as they were written. For a buffered  *)
(* transport what is under way are bytes of the writing program; for a     *)
(* framed one they are frames, of which the last may be torn.              *)

(* The size of a frame is an int32_t.                                      *)
SizeLimit == 128 * (256 * (256 * 256))

(* Behind at, s goes on with the frame of the bytes f + 1 to g of all, or  *)
(* with as much of it as there is; cuts are the places of the flushes.     *)
FrameAt(s, at, f, g, all, cuts) ==
    /\ f < g /\ g <= Len(all)
    /\ \A e \in cuts : e <= f \/ e >= g
    /\ at + 4 + (g - f) <= Len(s) => g \in cuts
    /\ \A j \in 1..4 : at + j <= Len(s) => s[at + j] = htonl(g - f)[j]
    /\ \A j \in 1..(g - f) : at + 4 + j <= Len(s) => s[at + 4 + j] = all[f + j]

(* Where the frame number k begins, if frames end at q[1], q[2] and so on. *)
Start(q, k) == (q[k] - q[0]) + 4 * k

(* Frames do not go back.                                                  *)
Rising(q, m) == \A k, l \in 0..m : k <= l => q[k] <= q[l]

(* m frames make up s, except that the end of s may be missing; if it is   *)
(* not, the last one ends at to.                                           *)
Layout(s, q, m, all, cuts, to, complete) ==
    /\ Rising(q, m)
    /\ \A k \in 0..(m - 1) : FrameAt(s, Start(q, k), q[k], q[k + 1], all, cuts)
    /\ Len(s) <= Start(q, m)
    /\ complete => q[m] = to /\ Len(s) = Start(q, m)

(* There are such frames, from a place on.                                 *)
Framed(s, from, all, cuts, to, complete) ==
    \E m \in Nat : \E q \in [0..m -> Nat] :
        q[0] = from /\ Layout(s, q, m, all, cuts, to, complete)

(* The bytes of s are those of all behind at.                              *)
Matches(s, at, all) ==
    at + Len(s) <= Len(all) /\ \A i \in 1..Len(s) : s[i] = all[at + i]

(* What there is of the n bytes behind y of t are those behind x of s.     *)
Moved(s, x, t, y, n) ==
    \A i \in 1..n : y + i <= Len(t) => x + i <= Len(s) /\ t[y + i] = s[x + i]

(* More was written, or flushed at places from to on.                      *)
Continued(all, more, cuts, others, to) ==
    /\ Len(all) <= Len(more) /\ \A i \in 1..Len(all) : more[i] = all[i]
    /\ cuts \subseteq others /\ \A e \in others : e \in cuts \/ e >= to

(* What the reader has, and what it has not, from the last frame on.       *)
Taken == Len(received) + Len(rBuf)
(* What the reader has of a frame, and all that it has not given away.     *)
Begun == IF phase = "payload" THEN htonl(frame) \o part ELSE part
Pending == Begun \o wire

(* How much has left the write buffer.                                     *)
Gone == Len(sent) - Len(wBuf)

(* Nothing in the write buffer has been flushed; a failed write leaves an  *)
(* empty buffer, or one that flush() refuses.                              *)
WriterInv ==
    /\ flushes \in SUBSET Nat /\ Len(sent) <= MaxBytes
    /\ wState = "open" =>
          /\ Gone \in Nat /\ Matches(wBuf, Gone, sent)
          /\ \A f \in flushes : f <= Gone
    /\ wState = "failed" => wBuf = <<>> \/ TooSmall

(* What was read and what is buffered are the bytes that were written; the *)
(* read buffer of a TFramedTransport holds the end of one message.         *)
ReaderInv ==
    /\ received \in Seq(Nat)
    /\ Matches(received, 0, sent) /\ Matches(rBuf, Len(received), sent)
    /\ phase = "idle" \/ kind = "buffered" => part = <<>>
    /\ phase = "payload" => kind = "framed" /\ frame \in Nat /\ frame < SizeLimit
    /\ kind = "framed" =>
          /\ \A f \in flushes : f <= Len(received) \/ f >= Taken
          /\ rBuf # <<>> => Taken \in flushes
          /\ rBufSize_ \in Nat /\ rBufSize_ <= MaxFrameSize

(* Until the reader gives up, the connection goes on where the reader is.  *)
WireInv ==
    phase # "ended" =>
        IF kind = "framed"
        THEN Framed(Pending, Taken, sent, flushes, Gone, wState = "open")
        ELSE Matches(wire, Taken, sent) /\ (wState = "open" => Taken + Len(wire) = Gone)

(* Together with the budget, which says what a call that waits may expect. *)
StreamInv == BudgetInv /\ WriterInv /\ ReaderInv /\ WireInv

(* readEnd() is called inside of a frame only if the threshold has its     *)
(* default, which no frame exceeds; and sizes fit an int32_t.              *)
WholeMessages ==
    ~Pipelined /\ MaxFrameSize <= NoThreshold /\ HeaderSize + MaxBytes < SizeLimit

(* What a step may do to the stream.                                       *)
StreamStep == Stream!Next \/ UNCHANGED <<sent, flushes, received, kind = "framed">>

(* Lengths.                                                                *)
LEMMA FrameLength ==
    ASSUME NEW a \in Nat, NEW b \in Nat, a <= b
    PROVE  4 + (b - a) \in Nat
  OBVIOUS

(* A bound on a length is one on the rest of it.                           *)
LEMMA LengthLess ==
    ASSUME NEW a \in Nat, NEW h \in Nat, NEW c \in Int
    PROVE  (a <= h + c => a - h <= c) /\ (a = h + c => a - h = c)
  OBVIOUS

(* Sequences of bytes are equal if their bytes are.                        *)
LEMMA SameBytes ==
    ASSUME NEW s \in Seq(Nat), NEW t \in Seq(Nat), Len(s) = Len(t),
           \A i \in 1..Len(s) : s[i] = t[i]
    PROVE  s = t
  OBVIOUS

(* Two sequences of bytes behind each other.                               *)
LEMMA JoinedBytes ==
    ASSUME NEW s \in Seq(Nat), NEW t \in Seq(Nat)
    PROVE  /\ s \o t \in Seq(Nat) /\ Len(s \o t) = Len(s) + Len(t)
           /\ \A i \in 1..Len(s) : (s \o t)[i] = s[i]
           /\ \A i \in 1..Len(t) : (s \o t)[Len(s) + i] = t[i]
  OBVIOUS

(* A sequence of bytes is cut in two.                                      *)
LEMMA CutBytes ==
    ASSUME NEW s \in Seq(Nat), NEW n \in 0..Len(s)
    PROVE  /\ SubSeq(s, 1, n) \in Seq(Nat) /\ Len(SubSeq(s, 1, n)) = n
           /\ \A i \in 1..n : SubSeq(s, 1, n)[i] = s[i]
           /\ Dropped(s, n) \in Seq(Nat) /\ Len(Dropped(s, n)) = Len(s) - n
           /\ \A i \in 1..(Len(s) - n) : Dropped(s, n)[i] = s[n + i]
  BY DEF Dropped

(* Taking the first bytes off and putting them elsewhere.                  *)
LEMMA MovedBytes ==
    ASSUME NEW s \in Seq(Nat), NEW t \in Seq(Nat), NEW n \in 0..Len(t)
    PROVE  (s \o SubSeq(t, 1, n)) \o Dropped(t, n) = s \o t
<1> DEFINE a == SubSeq(t, 1, n)
           b == Dropped(t, n)
<1>1. /\ a \in Seq(Nat) /\ Len(a) = n /\ \A i \in 1..n : a[i] = t[i]
      /\ b \in Seq(Nat) /\ Len(b) = Len(t) - n /\ \A i \in 1..(Len(t) - n) : b[i] = t[n + i]
  BY CutBytes, Zenon
<1> HIDE DEF a, b
<1>2. Len(s) \in Nat /\ Len(t) \in Nat /\ n \in Nat /\ n <= Len(t)
  OBVIOUS
<1>3. /\ s \o a \in Seq(Nat) /\ Len(s \o a) = Len(s) + n
      /\ \A i \in 1..Len(s) : (s \o a)[i] = s[i]
      /\ \A i \in 1..n : (s \o a)[Len(s) + i] = a[i]
  BY <1>1, JoinedBytes, Zenon
<1>4. /\ (s \o a) \o b \in Seq(Nat) /\ Len((s \o a) \o b) = Len(s) + Len(t)
      /\ \A i \in 1..(Len(s) + n) : ((s \o a) \o b)[i] = (s \o a)[i]
      /\ \A i \in 1..(Len(t) - n) : ((s \o a) \o b)[Len(s) + n + i] = b[i]
  <2> DEFINE c == s \o a
  <2>1. c \in Seq(Nat) /\ Len(c) = Len(s) + n
    BY <1>3, Zenon
  <2> HIDE DEF c
  <2>2. /\ c \o b \in Seq(Nat) /\ Len(c \o b) = Len(c) + Len(b)
        /\ \A i \in 1..Len(c) : (c \o b)[i] = c[i]
        /\ \A i \in 1..Len(b) : (c \o b)[Len(c) + i] = b[i]
    BY <1>1, <2>1, JoinedBytes, Zenon
  <2>3. Len(c) + Len(b) = Len(s) + Len(t)
    BY <1>1, <1>2, <2>1
  <2>4. /\ c \o b \in Seq(Nat) /\ Len(c \o b) = Len(s) + Len(t)
        /\ \A i \in 1..(Len(s) + n) : (c \o b)[i] = c[i]
        /\ \A i \in 1..(Len(t) - n) : (c \o b)[Len(s) + n + i] = b[i]
    BY <1>1, <2>1, <2>2, <2>3, Zenon
  <2> QED
    BY <2>4, Zenon DEF c
<1>5. /\ s \o t \in Seq(Nat) /\ Len(s \o t) = Len(s) + Len(t)
      /\ \A i \in 1..Len(s) : (s \o t)[i] = s[i]
      /\ \A i \in 1..Len(t) : (s \o t)[Len(s) + i] = t[i]
  BY JoinedBytes, Zenon
<1>6. ASSUME NEW i \in 1..(Len(s) + Len(t))
      PROVE  ((s \o a) \o b)[i] = (s \o t)[i]
  <2>1. CASE i <= Len(s)
    <3>1. i \in 1..Len(s) /\ i \in 1..(Len(s) + n)
      BY <1>2, <2>1
    <3> QED
      BY <1>3, <1>4, <1>5, <3>1, Zenon
  <2>2. CASE Len(s) < i /\ i <= Len(s) + n
    <3>1. PICK j \in 1..n : i = Len(s) + j
      <4>1. i - Len(s) \in 1..n /\ i = Len(s) + (i - Len(s))
        BY <1>2, <2>2
      <4> QED
        BY <4>1, Zenon
    <3>2. i \in 1..(Len(s) + n) /\ j \in 1..Len(t)
      BY <1>2, <2>2, <3>1
    <3>3. ((s \o a) \o b)[i] = (s \o a)[Len(s) + j]
      BY <1>4, <3>1, <3>2, Zenon
    <3> QED
      BY <1>1, <1>3, <1>5, <3>1, <3>2, <3>3, Zenon
  <2>3. CASE Len(s) + n < i
    <3>1. PICK j \in 1..(Len(t) - n) : i = Len(s) + n + j
      <4>1. i - (Len(s) + n) \in 1..(Len(t) - n) /\ i = Len(s) + n + (i - (Len(s) + n))
        BY <1>2, <2>3
      <4> QED
        BY <4>1, Zenon
    <3>2. n + j \in 1..Len(t) /\ Len(s) + n + j = Len(s) + (n + j)
      BY <1>2, <3>1
    <3>3. (s \o t)[i] = t[n + j]
      BY <1>5, <3>1, <3>2, Zenon
    <3> QED
      BY <1>1, <1>4, <3>1, <3>3, Zenon
  <2>4. i <= Len(s) \/ (Len(s) < i /\ i <= Len(s) + n) \/ Len(s) + n < i
    BY <1>2
  <2> QED
    BY <2>1, <2>2, <2>3, <2>4, Zenon
<1> QED
  <2>1. \A i \in 1..Len((s \o a) \o b) : ((s \o a) \o b)[i] = (s \o t)[i]
    BY <1>4, <1>6, Zenon
  <2>2. (s \o a) \o b = s \o t
    <3> DEFINE u == (s \o a) \o b
               v == s \o t
    <3>1. u \in Seq(Nat) /\ v \in Seq(Nat) /\ Len(u) = Len(v) /\ \A i \in 1..Len(u) : u[i] = v[i]
      BY <1>4, <1>5, <2>1, Zenon
    <3> HIDE DEF u, v
    <3>2. u = v
      BY <3>1, SameBytes, Zenon
    <3> QED
      BY <3>2 DEF u, v
  <2> QED
    BY <2>2, Zenon DEF a, b

(* A number is made of its last digit and of the others.                   *)
LEMMA LastDigit ==
    ASSUME NEW n \in Nat
    PROVE  \E a \in Nat, d \in 0..255 : a = n \div 256 /\ d = n % 256 /\ n = 256 * a + d
<1>1. n \div 256 \in Nat
  OBVIOUS
<1>2. n % 256 \in 0..255
  OBVIOUS
<1>3. n = 256 * (n \div 256) + (n % 256)
  OBVIOUS
<1> QED
  BY <1>1, <1>2, <1>3

(* The size of a frame comes back from its header.                         *)
LEMMA HeaderBytes ==
    ASSUME NEW n \in Nat
    PROVE  /\ htonl(n) \in Seq(Nat) /\ Len(htonl(n)) = 4
           /\ n < SizeLimit => ntohl(htonl(n)) = n
<1>1. PICK a \in Nat, g \in 0..255 : a = n \div 256 /\ g = n % 256 /\ n = 256 * a + g
  BY LastDigit
<1>2. PICK b \in Nat, f \in 0..255 : b = a \div 256 /\ f = a % 256 /\ a = 256 * b + f
  BY LastDigit
<1>3. PICK c \in Nat, e \in 0..255 : c = b \div 256 /\ e = b % 256 /\ b = 256 * c + e
  BY LastDigit
<1>4. PICK d \in 0..255 : d = c % 256
  BY LastDigit
<1>5. htonl(n) = <<d, e, f, g>>
  BY <1>1, <1>2, <1>3, <1>4 DEF htonl
<1>6. htonl(n) \in Seq(Nat) /\ Len(htonl(n)) = 4
  BY <1>5
<1>7. ASSUME n < SizeLimit PROVE ntohl(htonl(n)) = n
  <2>1. c < 256
    BY <1>1, <1>2, <1>3, <1>7 DEF SizeLimit
  <2>2. d = c
    BY <1>4, <2>1
  <2>3. ntohl(htonl(n)) = 256 * (256 * (256 * d + e) + f) + g
    BY <1>5 DEF ntohl
  <2> QED
    BY <1>1, <1>2, <1>3, <2>2, <2>3
<1> QED
  BY <1>6, <1>7, Zenon

(* A frame stays one as bytes go or come around it, as more is written and *)
(* as later places are flushed.                                            *)
Carry(s, x, t, y, f, g, all, more, cuts, others) ==
    /\ s \in Seq(Nat) /\ t \in Seq(Nat) /\ x \in Nat /\ y \in Nat /\ f \in Nat /\ g \in Nat
    /\ all \in Seq(Nat) /\ more \in Seq(Nat) /\ cuts \in SUBSET Nat /\ others \in SUBSET Nat
    /\ FrameAt(s, x, f, g, all, cuts) /\ Moved(s, x, t, y, 4 + (g - f))
    /\ Continued(all, more, cuts, others, g)

(* A frame whose bytes were copied is still a frame.                       *)
LEMMA FrameCarries ==
    ASSUME NEW s, NEW x, NEW t, NEW y, NEW f, NEW g, NEW all, NEW more, NEW cuts, NEW others,
           Carry(s, x, t, y, f, g, all, more, cuts, others)
    PROVE  FrameAt(t, y, f, g, more, others)
<1> s \in Seq(Nat) /\ t \in Seq(Nat) /\ x \in Nat /\ y \in Nat /\ f \in Nat /\ g \in Nat
      /\ all \in Seq(Nat) /\ more \in Seq(Nat) /\ cuts \in SUBSET Nat /\ others \in SUBSET Nat
  BY Zenon DEF Carry
<1>a. /\ FrameAt(s, x, f, g, all, cuts) /\ Moved(s, x, t, y, 4 + (g - f))
      /\ Continued(all, more, cuts, others, g)
  BY Zenon DEF Carry
<1>0. Len(all) \in Nat /\ Len(more) \in Nat
  OBVIOUS
<1>1. f < g /\ g <= Len(all) /\ g <= Len(more)
  <2>1. f < g /\ g <= Len(all) /\ Len(all) <= Len(more)
    BY <1>a, Zenon DEF FrameAt, Continued
  <2> QED
    BY <1>0, <2>1
<1>2. \A e \in others : e <= f \/ e >= g
  BY <1>a, Zenon DEF FrameAt, Continued
<1>3. y + 4 + (g - f) <= Len(t) => g \in others
  <2>1. 4 + (g - f) \in 1..(4 + (g - f)) /\ y + 4 + (g - f) = y + (4 + (g - f))
          /\ x + 4 + (g - f) = x + (4 + (g - f))
    BY <1>1
  <2> QED
    BY <1>a, <2>1, Zenon DEF FrameAt, Moved, Continued
<1>4. ASSUME NEW j \in 1..4, y + j <= Len(t) PROVE t[y + j] = htonl(g - f)[j]
  <2>1. j \in 1..(4 + (g - f))
    BY <1>1
  <2> QED
    BY <1>a, <1>4, <2>1, Zenon DEF FrameAt, Moved
<1>5. ASSUME NEW j \in 1..(g - f), y + 4 + j <= Len(t) PROVE t[y + 4 + j] = more[f + j]
  <2>1. PICK i \in 1..(4 + (g - f)) : i = 4 + j
    BY <1>1
  <2>2. y + 4 + j = y + i /\ x + 4 + j = x + i /\ f + j \in 1..Len(all)
    BY <1>0, <1>1, <2>1
  <2>3. x + i <= Len(s) /\ t[y + i] = s[x + i]
    BY <1>a, <1>5, <2>1, <2>2, Zenon DEF Moved
  <2>4. s[x + i] = all[f + j]
    BY <1>a, <2>2, <2>3, Zenon DEF FrameAt
  <2> QED
    BY <1>a, <2>2, <2>3, <2>4, Zenon DEF Continued
<1> QED
  BY <1>a, <1>1, <1>2, <1>3, <1>4, <1>5, Zenon DEF FrameAt

(* Where frames begin.                                                     *)
LEMMA Starts ==
    ASSUME NEW m \in Nat, NEW q \in [0..m -> Nat], Rising(q, m), NEW k \in 0..(m - 1)
    PROVE  /\ k \in Nat /\ k + 1 \in Nat /\ q[k] \in Nat /\ q[k + 1] \in Nat /\ q[m] \in Nat
           /\ q[k] <= q[k + 1] /\ q[k + 1] <= q[m]
           /\ Start(q, k) \in Nat /\ Start(q, k + 1) \in Nat /\ Start(q, m) \in Nat
           /\ Start(q, k + 1) = Start(q, k) + (4 + (q[k + 1] - q[k]))
           /\ Start(q, k + 1) <= Start(q, m)
<1>1. k \in Nat /\ k + 1 \in Nat /\ k \in 0..m /\ k + 1 \in 0..m /\ m \in 0..m /\ 0 \in 0..m
        /\ 0 <= k /\ k <= k + 1 /\ k + 1 <= m /\ 0 <= m
  OBVIOUS
<1>2. q[0] \in Nat /\ q[k] \in Nat /\ q[k + 1] \in Nat /\ q[m] \in Nat
  BY <1>1, Zenon
<1>3. q[0] <= q[k] /\ q[k] <= q[k + 1] /\ q[k + 1] <= q[m] /\ q[0] <= q[m]
  BY <1>1, Zenon DEF Rising
<1>4. PICK z \in Nat, a \in Nat, b \in Nat, c \in Nat :
          z = q[0] /\ a = q[k] /\ b = q[k + 1] /\ c = q[m]
  BY <1>2, Zenon
<1>5. z <= a /\ a <= b /\ b <= c /\ z <= c
  BY <1>3, <1>4, Zenon
<1>6. /\ Start(q, k) = (a - z) + 4 * k /\ Start(q, k + 1) = (b - z) + 4 * (k + 1)
      /\ Start(q, m) = (c - z) + 4 * m
  BY <1>4, Zenon DEF Start
<1>7. /\ (a - z) + 4 * k \in Nat /\ (b - z) + 4 * (k + 1) \in Nat /\ (c - z) + 4 * m \in Nat
      /\ (b - z) + 4 * (k + 1) = ((a - z) + 4 * k) + (4 + (b - a))
      /\ (b - z) + 4 * (k + 1) <= (c - z) + 4 * m
  BY <1>1, <1>5
<1> QED
  BY <1>1, <1>2, <1>3, <1>4, <1>6, <1>7, Zenon

(* A connection that is reset loses its end.                               *)
LEMMA FramedPrefix ==
    ASSUME NEW s \in Seq(Nat), NEW t \in Seq(Nat), NEW from \in Nat, NEW all \in Seq(Nat),
           NEW cuts \in SUBSET Nat, NEW to, NEW end, NEW complete,
           Len(t) <= Len(s), \A i \in 1..Len(t) : t[i] = s[i],
           Framed(s, from, all, cuts, to, complete)
    PROVE  Framed(t, from, all, cuts, end, FALSE)
<1>0. PICK m \in Nat : \E q \in [0..m -> Nat] :
          q[0] = from /\ Layout(s, q, m, all, cuts, to, complete)
  BY Zenon DEF Framed
<1>1. PICK q \in [0..m -> Nat] :
          q[0] = from /\ Layout(s, q, m, all, cuts, to, complete)
  BY <1>0, Zenon
<1>2. Rising(q, m) /\ Len(s) <= Start(q, m)
  BY <1>1, Zenon DEF Layout
<1>3. Len(t) <= Start(q, m)
  <2>1. Start(q, m) \in Int
    BY DEF Start
  <2>2. Len(t) \in Nat /\ Len(s) \in Nat
    OBVIOUS
  <2> QED
    BY <1>2, <2>1, <2>2
<1>4. ASSUME NEW k \in 0..(m - 1)
      PROVE  FrameAt(t, Start(q, k), q[k], q[k + 1], all, cuts)
  <2> DEFINE x == Start(q, k)
             n == 4 + (q[k + 1] - q[k])
  <2>1. x \in Nat /\ q[k] \in Nat /\ q[k + 1] \in Nat
    BY <1>2, Starts, Zenon
  <2>2. FrameAt(s, x, q[k], q[k + 1], all, cuts)
    BY <1>1, Zenon DEF Layout
  <2> HIDE DEF x
  <2>3. Moved(s, x, t, x, n)
    <3> SUFFICES ASSUME NEW i \in 1..n, x + i <= Len(t)
                 PROVE  x + i <= Len(s) /\ t[x + i] = s[x + i]
      BY Zenon DEF Moved
    <3>1. x + i \in 1..Len(t) /\ x + i <= Len(s)
      <4>1. Len(t) \in Nat /\ Len(s) \in Nat
        OBVIOUS
      <4> HIDE DEF n
      <4>2. i \in Nat /\ i >= 1
        BY <2>1 DEF n
      <4> QED
        BY <2>1, <4>1, <4>2
    <3> QED
      BY <3>1, Zenon
  <2>4. Continued(all, all, cuts, cuts, q[k + 1])
    BY DEF Continued
  <2>5. Carry(s, x, t, x, q[k], q[k + 1], all, all, cuts, cuts)
    BY <2>1, <2>2, <2>3, <2>4, Zenon DEF Carry, n
  <2>6. FrameAt(t, x, q[k], q[k + 1], all, cuts)
    BY <2>5, FrameCarries, Zenon
  <2> QED
    BY <2>6, Zenon DEF x
<1>5. Layout(t, q, m, all, cuts, end, FALSE)
  BY <1>2, <1>3, <1>4, Zenon DEF Layout
<1> QED
  BY <1>1, <1>5, Zenon DEF Framed

(* More is written, or the end of the frames is flushed.                   *)
LEMMA FramedGrows ==
    ASSUME NEW s \in Seq(Nat), NEW from \in Nat, NEW all \in Seq(Nat), NEW more \in Seq(Nat),
           NEW cuts \in SUBSET Nat, NEW others \in SUBSET Nat, NEW to \in Nat,
           Framed(s, from, all, cuts, to, TRUE), Continued(all, more, cuts, others, to)
    PROVE  Framed(s, from, more, others, to, TRUE)
<1>0. PICK m \in Nat : \E q \in [0..m -> Nat] :
          q[0] = from /\ Layout(s, q, m, all, cuts, to, TRUE)
  BY Zenon DEF Framed
<1>1. PICK q \in [0..m -> Nat] :
          q[0] = from /\ Layout(s, q, m, all, cuts, to, TRUE)
  BY <1>0, Zenon
<1>2. Rising(q, m) /\ Len(s) <= Start(q, m) /\ q[m] = to /\ Len(s) = Start(q, m)
  BY <1>1, Zenon DEF Layout
<1>3. ASSUME NEW k \in 0..(m - 1)
      PROVE  FrameAt(s, Start(q, k), q[k], q[k + 1], more, others)
  <2> DEFINE x == Start(q, k)
             n == 4 + (q[k + 1] - q[k])
  <2>1. x \in Nat /\ q[k] \in Nat /\ q[k + 1] \in Nat /\ q[k + 1] <= to
    BY <1>2, Starts, Zenon
  <2>2. FrameAt(s, x, q[k], q[k + 1], all, cuts)
    BY <1>1, Zenon DEF Layout
  <2> HIDE DEF x
  <2>3. Moved(s, x, s, x, n)
    BY Zenon DEF Moved
  <2>4. Continued(all, more, cuts, others, q[k + 1])
    <3>1. ASSUME NEW e \in others, e >= to PROVE e >= q[k + 1]
      BY <2>1, <3>1
    <3> QED
      BY <3>1, Zenon DEF Continued
  <2>5. Carry(s, x, s, x, q[k], q[k + 1], all, more, cuts, others)
    BY <2>1, <2>2, <2>3, <2>4, Zenon DEF Carry, n
  <2>6. FrameAt(s, x, q[k], q[k + 1], more, others)
    BY <2>5, FrameCarries, Zenon
  <2> QED
    BY <2>6, Zenon DEF x
<1>4. Layout(s, q, m, more, others, to, TRUE)
  BY <1>2, <1>3, Zenon DEF Layout
<1> QED
  BY <1>1, <1>4, Zenon DEF Framed

(* A frame is put behind the others, or the beginning of it.               *)
AppendsFrame(s, t, from, all, cuts, to, end, complete) ==
    /\ s \in Seq(Nat) /\ t \in Seq(Nat) /\ from \in Nat /\ all \in Seq(Nat)
    /\ cuts \in SUBSET Nat /\ to \in Nat /\ end \in Nat /\ complete \in BOOLEAN
    /\ Framed(s, from, all, cuts, to, TRUE) /\ FrameAt(t, 0, to, end, all, cuts)
    /\ Len(t) <= 4 + (end - to) /\ (complete => Len(t) = 4 + (end - to))

(* The frames and the one behind them are frames.                          *)
LEMMA FramedAppend ==
    ASSUME NEW s, NEW t, NEW from, NEW all, NEW cuts, NEW to, NEW end, NEW complete,
           AppendsFrame(s, t, from, all, cuts, to, end, complete)
    PROVE  Framed(s \o t, from, all, cuts, end, complete)
<1> /\ s \in Seq(Nat) /\ t \in Seq(Nat) /\ from \in Nat /\ all \in Seq(Nat)
    /\ cuts \in SUBSET Nat /\ to \in Nat /\ end \in Nat /\ complete \in BOOLEAN
  BY Zenon DEF AppendsFrame
<1>a. /\ Framed(s, from, all, cuts, to, TRUE) /\ FrameAt(t, 0, to, end, all, cuts)
      /\ Len(t) <= 4 + (end - to) /\ (complete => Len(t) = 4 + (end - to))
  BY Zenon DEF AppendsFrame
<1>0. PICK m \in Nat : \E q \in [0..m -> Nat] :
          q[0] = from /\ Layout(s, q, m, all, cuts, to, TRUE)
  BY <1>a, Zenon DEF Framed
<1>1. PICK q \in [0..m -> Nat] : q[0] = from /\ Layout(s, q, m, all, cuts, to, TRUE)
  BY <1>0, Zenon
<1>2. Rising(q, m) /\ q[m] = to /\ Len(s) = Start(q, m)
  BY <1>1, Zenon DEF Layout
<1>3. to < end
  BY <1>a, Zenon DEF FrameAt
<1> DEFINE r == [k \in 0..(m + 1) |-> IF k = m + 1 THEN end ELSE q[k]]
<1>4. /\ m + 1 \in Nat /\ m + 1 \in 0..(m + 1) /\ 0 \in 0..m /\ 0 # m + 1
      /\ m \in 0..m /\ m # m + 1 /\ (m + 1) - 1 = m
      /\ \A k \in 0..m : k \in 0..(m + 1) /\ k # m + 1
      /\ \A k \in 0..(m + 1) : k = m + 1 \/ k \in 0..m
      /\ \A k \in 0..((m + 1) - 1) : k = m \/ k \in 0..(m - 1)
      /\ \A k \in 0..(m - 1) : k \in 0..m /\ k + 1 \in 0..m
  OBVIOUS
<1>5. /\ r \in [0..(m + 1) -> Nat] /\ r[m + 1] = end
      /\ \A k \in 0..m : r[k] = q[k]
  BY <1>4, Zenon
<1> HIDE DEF r
<1>6. r[0] = from /\ r[m] = to /\ q[0] = from
  BY <1>1, <1>2, <1>4, <1>5, Zenon
<1>7. Rising(r, m + 1)
  <2> SUFFICES ASSUME NEW k \in 0..(m + 1), NEW l \in 0..(m + 1), k <= l
               PROVE  r[k] <= r[l]
    BY Zenon DEF Rising
  <2>1. CASE k \in 0..m /\ l \in 0..m
    BY <1>2, <1>5, <2>1, Zenon DEF Rising
  <2>2. CASE k \in 0..m /\ l = m + 1
    <3>1. q[k] <= to /\ q[k] \in Nat
      <4>1. m \in 0..m /\ k <= m
        BY <2>2
      <4> QED
        BY <1>2, <2>2, <4>1, Zenon DEF Rising
    <3>2. q[k] <= end
      BY <1>3, <3>1
    <3> QED
      BY <1>5, <2>2, <3>2, Zenon
  <2>3. CASE k = m + 1
    <3>1. l = m + 1 /\ end <= end
      BY <2>3
    <3> QED
      BY <1>5, <2>3, <3>1, Zenon
  <2> QED
    BY <1>4, <2>1, <2>2, <2>3, Zenon
<1>8. /\ \A k \in 0..m : Start(r, k) = Start(q, k)
      /\ Start(r, m + 1) = Start(q, m) + (4 + (end - to))
  <2>1. ASSUME NEW k \in 0..m PROVE Start(r, k) = Start(q, k)
    BY <1>5, <1>6, Zenon DEF Start
  <2>2. Start(r, m + 1) = (end - from) + 4 * (m + 1) /\ Start(q, m) = (to - from) + 4 * m
    BY <1>2, <1>5, <1>6, Zenon DEF Start
  <2>3. (end - from) + 4 * (m + 1) = ((to - from) + 4 * m) + (4 + (end - to))
    OBVIOUS
  <2> QED
    BY <2>1, <2>2, <2>3, Zenon
<1>9. /\ s \o t \in Seq(Nat) /\ Len(s \o t) = Len(s) + Len(t)
      /\ \A i \in 1..Len(s) : (s \o t)[i] = s[i]
      /\ \A i \in 1..Len(t) : (s \o t)[Len(s) + i] = t[i]
  BY JoinedBytes, Zenon
<1>10. Len(s) \in Nat /\ Len(t) \in Nat
  OBVIOUS
<1>11. Len(s \o t) <= Start(r, m + 1) /\ (complete => Len(s \o t) = Start(r, m + 1))
  <2> DEFINE n == 4 + (end - to)
  <2>1. n \in Nat /\ Len(t) <= n /\ (complete => Len(t) = n)
    BY <1>3, <1>a
  <2>2. Start(r, m + 1) = Len(s) + n /\ Len(s \o t) = Len(s) + Len(t)
    BY <1>2, <1>8, <1>9, Zenon
  <2> HIDE DEF n
  <2>3. Len(s) + Len(t) <= Len(s) + n
    BY <1>10, <2>1
  <2> QED
    BY <2>1, <2>2, <2>3, Zenon
<1>12. ASSUME NEW k \in 0..(m - 1)
       PROVE  FrameAt(s \o t, Start(r, k), r[k], r[k + 1], all, cuts)
  <2> DEFINE x == Start(q, k)
             n == 4 + (q[k + 1] - q[k])
  <2>1. x \in Nat /\ q[k] \in Nat /\ q[k + 1] \in Nat /\ n \in Nat /\ x + n <= Len(s)
    <3>1. /\ x \in Nat /\ q[k] \in Nat /\ q[k + 1] \in Nat /\ q[k] <= q[k + 1]
          /\ Start(q, k + 1) = x + n /\ Start(q, k + 1) <= Len(s)
      BY <1>2, Starts, Zenon
    <3>2. n \in Nat
      BY <3>1, FrameLength, Zenon
    <3> QED
      BY <3>1, <3>2, Zenon
  <2>2. FrameAt(s, x, q[k], q[k + 1], all, cuts)
    BY <1>1, Zenon DEF Layout
  <2>3. Moved(s, x, s \o t, x, n)
    <3> HIDE DEF x, n
    <3> SUFFICES ASSUME NEW i \in 1..n, x + i <= Len(s \o t)
                 PROVE  x + i <= Len(s) /\ (s \o t)[x + i] = s[x + i]
      BY Zenon DEF Moved
    <3>1. x + i \in 1..Len(s) /\ x + i <= Len(s)
      BY <1>10, <2>1
    <3> QED
      BY <1>9, <3>1, Zenon
  <2>4. Continued(all, all, cuts, cuts, q[k + 1])
    BY DEF Continued
  <2>5. Carry(s, x, s \o t, x, q[k], q[k + 1], all, all, cuts, cuts)
    <3> HIDE DEF x
    <3> QED
      BY <1>9, <2>1, <2>2, <2>3, <2>4, Zenon DEF Carry, n
  <2>6. FrameAt(s \o t, x, q[k], q[k + 1], all, cuts)
    BY <2>5, FrameCarries, Zenon
  <2> QED
    BY <1>4, <1>5, <1>8, <2>6, Zenon
<1>13. FrameAt(s \o t, Start(r, m), r[m], r[m + 1], all, cuts)
  <2>1. Moved(t, 0, s \o t, Len(s), 4 + (end - to))
    <3> SUFFICES ASSUME NEW i \in 1..(4 + (end - to)), Len(s) + i <= Len(s \o t)
                 PROVE  0 + i <= Len(t) /\ (s \o t)[Len(s) + i] = t[0 + i]
      BY Zenon DEF Moved
    <3>0. i \in Nat /\ i >= 1
      OBVIOUS
    <3>1. Len(s) + i <= Len(s) + Len(t) /\ i \in Nat /\ i >= 1
      BY <1>9, <3>0, Zenon
    <3>2. 0 + i = i /\ i \in 1..Len(t) /\ i <= Len(t)
      BY <1>10, <3>1
    <3> QED
      BY <1>9, <3>2, Zenon
  <2>2. Continued(all, all, cuts, cuts, end)
    BY DEF Continued
  <2>3. Carry(t, 0, s \o t, Len(s), to, end, all, all, cuts, cuts)
    BY <1>9, <1>10, <1>a, <2>1, <2>2, Zenon DEF Carry
  <2>4. FrameAt(s \o t, Len(s), to, end, all, cuts)
    BY <2>3, FrameCarries, Zenon
  <2> QED
    BY <1>2, <1>4, <1>5, <1>6, <1>8, <2>4, Zenon
<1>14. Layout(s \o t, r, m + 1, all, cuts, end, complete)
  <2>1. ASSUME NEW k \in 0..((m + 1) - 1)
        PROVE  FrameAt(s \o t, Start(r, k), r[k], r[k + 1], all, cuts)
    BY <1>4, <1>12, <1>13, Zenon
  <2> QED
    BY <1>5, <1>7, <1>11, <2>1, Zenon DEF Layout
<1> QED
  BY <1>4, <1>5, <1>6, <1>14, Zenon DEF Framed

(* The first frame, and the rest once it is gone.                          *)
LEMMA FramedHead ==
    ASSUME NEW s \in Seq(Nat), NEW from \in Nat, NEW all \in Seq(Nat),
           NEW cuts \in SUBSET Nat, NEW to, NEW complete \in BOOLEAN,
           Framed(s, from, all, cuts, to, complete), Len(s) >= 1
    PROVE  \E g \in Nat :
              /\ FrameAt(s, 0, from, g, all, cuts)
              /\ 4 + (g - from) <= Len(s) =>
                    Framed(Dropped(s, 4 + (g - from)), g, all, cuts, to, complete)
<1>0. PICK m \in Nat : \E q \in [0..m -> Nat] :
          q[0] = from /\ Layout(s, q, m, all, cuts, to, complete)
  BY Zenon DEF Framed
<1>1. PICK q \in [0..m -> Nat] : q[0] = from /\ Layout(s, q, m, all, cuts, to, complete)
  BY <1>0, Zenon
<1>2. /\ Rising(q, m) /\ Len(s) <= Start(q, m)
      /\ complete => q[m] = to /\ Len(s) = Start(q, m)
  BY <1>1, Zenon DEF Layout
<1>3. Len(s) \in Nat
  OBVIOUS
<1>4. m # 0
  <2> SUFFICES ASSUME m = 0 PROVE FALSE
    BY Zenon
  <2>1. Start(q, m) = (from - from) + 4 * 0
    BY <1>1, Zenon DEF Start
  <2> QED
    BY <1>2, <1>3, <2>1
<1>5. PICK n \in Nat : m = n + 1 /\ n = m - 1
  <2>1. m - 1 \in Nat /\ m = (m - 1) + 1
    BY <1>4
  <2> QED
    BY <2>1, Zenon
<1>6. 0 \in 0..(m - 1) /\ 1 \in 0..m /\ 0 \in 0..m /\ 0 + 1 = 1 /\ 0 \in 0..n /\ m \in 0..m
        /\ n \in 0..n /\ 0 <= 1
  BY <1>5
<1>7. PICK g \in Nat : g = q[1]
  BY <1>6, Zenon
<1>8. FrameAt(s, 0, from, g, all, cuts) /\ from < g
  <2>1. Start(q, 0) = (from - from) + 4 * 0
    BY <1>1, Zenon DEF Start
  <2>2. Start(q, 0) = 0
    BY <2>1
  <2>3. FrameAt(s, Start(q, 0), q[0], q[0 + 1], all, cuts)
    BY <1>1, <1>6, Zenon DEF Layout
  <2> QED
    BY <1>1, <1>6, <1>7, <2>2, <2>3, Zenon DEF FrameAt
<1> DEFINE h == 4 + (g - from)
           t == Dropped(s, h)
<1>9. h \in Nat
  BY <1>8
<1>10. ASSUME h <= Len(s)
       PROVE  Framed(t, g, all, cuts, to, complete)
  <2>1. /\ t \in Seq(Nat) /\ Len(t) = Len(s) - h
        /\ \A i \in 1..(Len(s) - h) : t[i] = s[h + i]
    <3> HIDE DEF h
    <3>1. h \in 0..Len(s)
      BY <1>3, <1>9, <1>10
    <3> QED
      BY <3>1, CutBytes, Zenon
  <2> HIDE DEF t
  <2> DEFINE r == [k \in 0..n |-> q[k + 1]]
  <2>2. \A k \in 0..n : k + 1 \in 0..m
    BY <1>5
  <2>3. r \in [0..n -> Nat] /\ \A k \in 0..n : r[k] = q[k + 1]
    BY <2>2, Zenon
  <2> HIDE DEF r
  <2>4. r[0] = g /\ r[n] = q[m]
    BY <1>5, <1>6, <1>7, <2>3, Zenon
  <2>5. Rising(r, n)
    <3> SUFFICES ASSUME NEW k \in 0..n, NEW l \in 0..n, k <= l
                 PROVE  r[k] <= r[l]
      BY Zenon DEF Rising
    <3>1. k + 1 <= l + 1
      OBVIOUS
    <3> QED
      BY <1>2, <2>2, <2>3, <3>1, Zenon DEF Rising
  <2>6. ASSUME NEW k \in 0..n
        PROVE  Start(r, k) \in Int /\ Start(q, k + 1) = h + Start(r, k)
    <3>1. PICK b \in Nat : b = q[k + 1]
      BY <2>2, Zenon
    <3>2. Start(r, k) = (b - g) + 4 * k /\ Start(q, k + 1) = (b - from) + 4 * (k + 1)
      BY <1>1, <2>3, <2>4, <3>1, Zenon DEF Start
    <3>3. k \in Nat
      OBVIOUS
    <3>4. (b - g) + 4 * k \in Int
            /\ (b - from) + 4 * (k + 1) = (4 + (g - from)) + ((b - g) + 4 * k)
      BY <3>3
    <3> QED
      BY <3>2, <3>4, Zenon
  <2>7. Len(t) <= Start(r, n) /\ (complete => r[n] = to /\ Len(t) = Start(r, n))
    <3>1. Start(r, n) \in Int /\ Start(q, m) = h + Start(r, n)
      BY <1>5, <1>6, <2>6, Zenon
    <3> HIDE DEF h
    <3>2. Len(t) = Len(s) - h /\ Len(s) <= h + Start(r, n) /\ (complete => Len(s) = h + Start(r, n))
      BY <1>2, <2>1, <3>1, Zenon
    <3>3. /\ Len(s) <= h + Start(r, n) => Len(s) - h <= Start(r, n)
          /\ Len(s) = h + Start(r, n) => Len(s) - h = Start(r, n)
      <4>1. Start(r, n) \in Int
        BY <3>1, Zenon
      <4> QED
        BY <1>3, <1>9, <4>1, LengthLess, Zenon
    <3>4. Len(t) <= Start(r, n) /\ (complete => Len(t) = Start(r, n))
      BY <3>2, <3>3, Zenon
    <3> QED
      BY <1>2, <2>4, <3>4, Zenon
  <2>8. ASSUME NEW k \in 0..(n - 1)
        PROVE  FrameAt(t, Start(r, k), r[k], r[k + 1], all, cuts)
    <3>1. k \in 0..n /\ k + 1 \in 0..n /\ k + 1 \in 0..(m - 1)
      BY <1>5
    <3> DEFINE x == Start(q, k + 1)
               y == Start(r, k)
               e == r[k]
               f == r[k + 1]
    <3>2. e \in Nat /\ f \in Nat /\ y \in Nat
      BY <2>3, <2>5, Starts, Zenon
    <3>3. x = h + y
      BY <2>6, <3>1, Zenon
    <3>4. FrameAt(s, x, e, f, all, cuts)
      <4>1. FrameAt(s, x, q[k + 1], q[(k + 1) + 1], all, cuts)
        BY <1>1, <3>1, Zenon DEF Layout
      <4> QED
        BY <2>3, <3>1, <4>1, Zenon
    <3> HIDE DEF x, y, e, f, h
    <3>5. Moved(s, x, t, y, 4 + (f - e))
      <4> SUFFICES ASSUME NEW i \in 1..(4 + (f - e)), y + i <= Len(t)
                   PROVE  x + i <= Len(s) /\ t[y + i] = s[x + i]
        BY Zenon DEF Moved
      <4>0. i \in Nat /\ i >= 1
        BY <3>2
      <4>1. y + i \in 1..(Len(s) - h) /\ x + i = h + (y + i) /\ x + i <= Len(s)
        BY <1>3, <1>9, <2>1, <3>2, <3>3, <4>0
      <4> QED
        BY <2>1, <4>1, Zenon
    <3>6. Continued(all, all, cuts, cuts, f)
      BY DEF Continued
    <3>7. x \in Nat
      BY <1>9, <3>2, <3>3
    <3>8. Carry(s, x, t, y, e, f, all, all, cuts, cuts)
      BY <2>1, <3>2, <3>4, <3>5, <3>6, <3>7, Zenon DEF Carry
    <3>9. FrameAt(t, y, e, f, all, cuts)
      BY <3>8, FrameCarries, Zenon
    <3> QED
      BY <3>9, Zenon DEF y, e, f
  <2>9. Layout(t, r, n, all, cuts, to, complete)
    BY <2>5, <2>7, <2>8, Zenon DEF Layout
  <2> QED
    BY <2>3, <2>4, <2>9, Zenon DEF Framed
<1> QED
  BY <1>8, <1>10, Zenon

(* Bytes that match those of the writing program.                          *)
LEMMA MatchesGrown ==
    ASSUME NEW s \in Seq(Nat), NEW at \in Nat, NEW all \in Seq(Nat), NEW more \in Seq(Nat),
           Matches(s, at, all), Len(all) <= Len(more), \A i \in 1..Len(all) : more[i] = all[i]
    PROVE  Matches(s, at, more)
<1>0. Len(s) \in Nat /\ Len(all) \in Nat /\ Len(more) \in Nat
  OBVIOUS
<1>1. at + Len(s) <= Len(all)
  BY Zenon DEF Matches
<1>2. at + Len(s) <= Len(more)
  BY <1>0, <1>1
<1>3. ASSUME NEW i \in 1..Len(s) PROVE s[i] = more[at + i]
  <2>1. at + i \in 1..Len(all)
    BY <1>0, <1>1
  <2> QED
    BY <2>1, Zenon DEF Matches
<1> QED
  BY <1>2, <1>3, Zenon DEF Matches

(* Both parts of what matches do.                                          *)
LEMMA MatchesCut ==
    ASSUME NEW s \in Seq(Nat), NEW at \in Nat, NEW all \in Seq(Nat), Matches(s, at, all),
           NEW n \in 0..Len(s)
    PROVE  Matches(SubSeq(s, 1, n), at, all) /\ Matches(Dropped(s, n), at + n, all)
<1> DEFINE a == SubSeq(s, 1, n)
           b == Dropped(s, n)
<1>0. Len(s) \in Nat /\ Len(all) \in Nat /\ n \in Nat /\ n <= Len(s)
  OBVIOUS
<1>1. /\ Len(a) = n /\ \A i \in 1..n : a[i] = s[i]
      /\ Len(b) = Len(s) - n /\ \A i \in 1..(Len(s) - n) : b[i] = s[n + i]
  BY CutBytes, Zenon
<1> HIDE DEF a, b
<1>2. at + Len(s) <= Len(all) /\ \A i \in 1..Len(s) : s[i] = all[at + i]
  BY Zenon DEF Matches
<1>3. at + n <= Len(all) /\ (at + n) + (Len(s) - n) <= Len(all)
  BY <1>0, <1>2
<1>4. \A i \in 1..n : i \in 1..Len(s)
  BY <1>0
<1>5. \A i \in 1..(Len(s) - n) : n + i \in 1..Len(s) /\ at + (n + i) = (at + n) + i
  BY <1>0
<1>6. Matches(a, at, all)
  BY <1>1, <1>2, <1>3, <1>4, Zenon DEF Matches
<1>7. ASSUME NEW i \in 1..(Len(s) - n) PROVE b[i] = all[(at + n) + i]
  <2>1. b[i] = s[n + i] /\ s[n + i] = all[at + (n + i)]
    BY <1>1, <1>2, <1>5, Zenon
  <2> QED
    BY <1>5, <2>1, Zenon
<1>8. Matches(b, at + n, all)
  BY <1>1, <1>3, <1>7, Zenon DEF Matches
<1> QED
  BY <1>6, <1>8, Zenon DEF a, b

(* What matches, and behind it what goes on, match together.               *)
LEMMA MatchesJoined ==
    ASSUME NEW s \in Seq(Nat), NEW t \in Seq(Nat), NEW at \in Nat, NEW all \in Seq(Nat),
           Matches(s, at, all), Matches(t, at + Len(s), all)
    PROVE  Matches(s \o t, at, all)
<1> DEFINE u == s \o t
<1>0. Len(s) \in Nat /\ Len(t) \in Nat /\ Len(all) \in Nat
  OBVIOUS
<1>1. /\ Len(u) = Len(s) + Len(t)
      /\ \A i \in 1..Len(s) : u[i] = s[i]
      /\ \A i \in 1..Len(t) : u[Len(s) + i] = t[i]
  BY JoinedBytes, Zenon
<1> HIDE DEF u
<1>2. /\ (at + Len(s)) + Len(t) <= Len(all) /\ \A i \in 1..Len(s) : s[i] = all[at + i]
      /\ \A i \in 1..Len(t) : t[i] = all[(at + Len(s)) + i]
  BY Zenon DEF Matches
<1>3. at + (Len(s) + Len(t)) <= Len(all)
  <2>1. (at + Len(s)) + Len(t) <= Len(all)
    BY <1>2, Zenon
  <2> QED
    BY <1>0, <2>1
<1>4. ASSUME NEW i \in 1..(Len(s) + Len(t)) PROVE u[i] = all[at + i]
  <2>1. CASE i \in 1..Len(s)
    BY <1>1, <1>2, <2>1, Zenon
  <2>2. CASE i \notin 1..Len(s)
    <3>1. i - Len(s) \in 1..Len(t) /\ i = Len(s) + (i - Len(s))
            /\ at + i = (at + Len(s)) + (i - Len(s))
      BY <1>0, <2>2
    <3>2. PICK j \in 1..Len(t) : i = Len(s) + j /\ at + i = (at + Len(s)) + j
      BY <3>1, Zenon
    <3> QED
      BY <1>1, <1>2, <3>2, Zenon
  <2> QED
    BY <2>1, <2>2, Zenon
<1>5. Matches(u, at, all)
  BY <1>1, <1>3, <1>4, Zenon DEF Matches
<1> QED
  BY <1>5, Zenon DEF u

(* What matches from the beginning on is the beginning.                    *)
LEMMA MatchesPrefix ==
    ASSUME NEW s \in Seq(Nat), NEW all \in Seq(Nat), Matches(s, 0, all)
    PROVE  Len(s) <= Len(all) /\ s = SubSeq(all, 1, Len(s))
<1>0. Len(s) \in Nat /\ Len(all) \in Nat
  OBVIOUS
<1>1. 0 + Len(s) <= Len(all) /\ \A i \in 1..Len(s) : s[i] = all[0 + i]
  BY Zenon DEF Matches
<1>2. Len(s) <= Len(all) /\ Len(s) \in 0..Len(all) /\ \A i \in 1..Len(s) : 0 + i = i
  <2>1. 0 + Len(s) <= Len(all)
    BY <1>1, Zenon
  <2> QED
    BY <1>0, <2>1
<1> DEFINE t == SubSeq(all, 1, Len(s))
<1>3. t \in Seq(Nat) /\ Len(t) = Len(s) /\ \A i \in 1..Len(s) : t[i] = all[i]
  BY <1>2, CutBytes, Zenon
<1> HIDE DEF t
<1>4. \A i \in 1..Len(s) : s[i] = t[i]
  BY <1>1, <1>2, <1>3, Zenon
<1>5. s = t
  BY <1>3, <1>4, SameBytes, Zenon
<1> QED
  BY <1>2, <1>5, Zenon DEF t

(* What was appended matches the end.                                      *)
LEMMA MatchesEnd ==
    ASSUME NEW all \in Seq(Nat), NEW t \in Seq(Nat)
    PROVE  /\ Matches(t, Len(all), all \o t)
           /\ Len(all) <= Len(all \o t) /\ \A i \in 1..Len(all) : (all \o t)[i] = all[i]
<1>0. Len(t) \in Nat /\ Len(all) \in Nat
  OBVIOUS
<1>1. /\ Len(all \o t) = Len(all) + Len(t)
      /\ \A i \in 1..Len(all) : (all \o t)[i] = all[i]
      /\ \A i \in 1..Len(t) : (all \o t)[Len(all) + i] = t[i]
  BY JoinedBytes, Zenon
<1>2. Len(all) + Len(t) <= Len(all) + Len(t) /\ Len(all) <= Len(all) + Len(t)
  BY <1>0
<1> QED
  BY <1>1, <1>2, Zenon DEF Matches

(* Nothing in front of a sequence, or behind it.                           *)
LEMMA NothingJoined ==
    ASSUME NEW s \in Seq(Nat)
    PROVE  s \o <<>> = s /\ <<>> \o s = s /\ <<>> \in Seq(Nat) /\ Len(<<>>) = 0
  OBVIOUS

(* How three sequences are joined does not matter.                         *)
LEMMA JoinedTwice ==
    ASSUME NEW s \in Seq(Nat), NEW t \in Seq(Nat), NEW u \in Seq(Nat)
    PROVE  (s \o t) \o u = s \o (t \o u)
  BY SMTT(20)

(* The types of what the invariant speaks of.                              *)
LEMMA StreamTypes ==
    ASSUME StreamInv
    PROVE  /\ wire \in Seq(Nat) /\ rBuf \in Seq(Nat) /\ wBuf \in Seq(Nat) /\ part \in Seq(Nat)
           /\ sent \in Seq(Nat) /\ received \in Seq(Nat) /\ flushes \in SUBSET Nat
           /\ Begun \in Seq(Nat) /\ Pending \in Seq(Nat) /\ Taken \in Nat
           /\ kind \in {"buffered", "framed"}
           /\ Len(sent) \in Nat /\ Len(wBuf) \in Nat /\ Len(received) \in Nat /\ Len(rBuf) \in Nat
           /\ Taken <= Len(sent)
<1>1. /\ wire \in Seq(Nat) /\ rBuf \in Seq(Nat) /\ wBuf \in Seq(Nat) /\ part \in Seq(Nat)
      /\ sent \in Seq(Nat) /\ received \in Seq(Nat) /\ flushes \in SUBSET Nat
      /\ kind \in {"buffered", "framed"} /\ (phase = "payload" => frame \in Nat)
  BY Zenon DEF StreamInv, BudgetInv, WriterInv, ReaderInv
<1>2. Len(sent) \in Nat /\ Len(wBuf) \in Nat /\ Len(received) \in Nat /\ Len(rBuf) \in Nat
  BY <1>1
<1>3. Taken \in Nat
  BY <1>2 DEF Taken
<1>4. Begun \in Seq(Nat)
  BY <1>1, HeaderBytes, JoinedBytes, Zenon DEF Begun
<1>5. Pending \in Seq(Nat)
  BY <1>1, <1>4, JoinedBytes, Zenon DEF Pending
<1>6. Taken <= Len(sent)
  BY Zenon DEF StreamInv, ReaderInv, Matches, Taken
<1> QED
  BY <1>1, <1>2, <1>3, <1>4, <1>5, <1>6, Zenon

(* What the reader has is not touched as more is written or flushed.       *)
LEMMA ReaderKept ==
    ASSUME StreamInv, UNCHANGED <<fixedVars, readerVars>>, sent' \in Seq(Nat),
           flushes' \in SUBSET Nat, Continued(sent, sent', flushes, flushes', Len(sent))
    PROVE  ReaderInv' /\ Taken' = Taken /\ Begun' = Begun
<1>0. /\ rBuf \in Seq(Nat) /\ sent \in Seq(Nat) /\ received \in Seq(Nat)
      /\ Taken \in Nat /\ Len(sent) \in Nat /\ Len(received) \in Nat /\ Taken <= Len(sent)
  BY StreamTypes, Zenon
<1>1. UNCHANGED <<kind, rBuf, rBufSize_, frame, phase, part, received>>
  BY Zenon DEF fixedVars, readerVars
<1>2. Taken' = Taken /\ Begun' = Begun
  BY <1>1, Zenon DEF Taken, Begun
<1>3. ReaderInv
  BY Zenon DEF StreamInv
<1>4. Matches(received, 0, sent') /\ Matches(rBuf, Len(received), sent')
  <2>1. Matches(received, 0, sent) /\ Matches(rBuf, Len(received), sent) /\ 0 \in Nat
    BY <1>3, Zenon DEF ReaderInv
  <2>2. Len(sent) <= Len(sent') /\ \A i \in 1..Len(sent) : sent'[i] = sent[i]
    BY Zenon DEF Continued
  <2>3. Matches(received, 0, sent')
    BY <1>0, <2>1, <2>2, MatchesGrown, Zenon
  <2>4. Matches(rBuf, Len(received), sent')
    BY <1>0, <2>1, <2>2, MatchesGrown, Zenon
  <2> QED
    BY <2>3, <2>4, Zenon
<1>5. ASSUME kind = "framed"
      PROVE  /\ \A f \in flushes' : f <= Len(received) \/ f >= Taken
             /\ rBuf # <<>> => Taken \in flushes'
  <2>1. \A f \in flushes : f <= Len(received) \/ f >= Taken
    BY <1>3, <1>5, Zenon DEF ReaderInv
  <2>2. ASSUME NEW f \in flushes', f >= Len(sent) PROVE f >= Taken
    BY <1>0, <2>2
  <2>3. \A f \in flushes' : f \in flushes \/ f >= Len(sent)
    BY Zenon DEF Continued
  <2>4. rBuf # <<>> => Taken \in flushes'
    BY <1>3, <1>5, Zenon DEF ReaderInv, Continued
  <2> QED
    BY <2>1, <2>2, <2>3, <2>4, Zenon
<1>6. ReaderInv'
  BY <1>1, <1>2, <1>3, <1>4, <1>5, Zenon DEF ReaderInv
<1> QED
  BY <1>2, <1>6, Zenon

(* The program writes: the bytes end up behind those it wrote before, in   *)
(* the connection or in the buffer.                                        *)
LEMMA BytesWritten ==
    ASSUME StreamInv, NEW n \in Nat \ {0}, Write(n) \/ WriteFails(n)
    PROVE  /\ sent' \in Seq(Nat) /\ Len(sent') = Len(sent) + n /\ flushes' = flushes
           /\ Continued(sent, sent', flushes, flushes', Len(sent))
           /\ NextBytes(n) \in Seq(Nat) /\ Len(NextBytes(n)) = n
           /\ Matches(NextBytes(n), Len(sent), sent')
           /\ StreamStep
<1> DEFINE data == NextBytes(n)
<1>0. sent \in Seq(Nat) /\ Len(sent) \in Nat
  BY StreamTypes, Zenon
<1>1. data \in Seq(Nat) /\ Len(data) = n
  BY WrittenBytes, Zenon DEF StreamInv
<1>2. sent' = sent \o data /\ UNCHANGED <<kind, flushes, received>>
  BY Zenon DEF Write, WriteFails, fixedVars, readerVars
<1> HIDE DEF data
<1>3. sent' \in Seq(Nat) /\ Len(sent') = Len(sent) + n
  BY <1>0, <1>1, <1>2, JoinedBytes, Zenon
<1>4. /\ Matches(data, Len(sent), sent')
      /\ Len(sent) <= Len(sent') /\ \A i \in 1..Len(sent) : sent'[i] = sent[i]
  BY <1>0, <1>1, <1>2, MatchesEnd, Zenon
<1>5. Continued(sent, sent', flushes, flushes', Len(sent))
  BY <1>2, <1>4, Zenon DEF Continued
<1>6. Len(sent') > Len(sent) /\ 0 + Len(sent) = Len(sent) /\ \A i \in 1..Len(sent) : 0 + i = i
  BY <1>0, <1>3
<1>7. Matches(sent, 0, sent')
  BY <1>4, <1>6, Zenon DEF Matches
<1>8. sent = SubSeq(sent', 1, Len(sent))
  BY <1>0, <1>3, <1>7, MatchesPrefix, Zenon
<1>9. StreamStep
  BY <1>2, <1>6, <1>8, Zenon DEF StreamStep, Stream!Next, Stream!Send
<1> QED
  BY <1>1, <1>2, <1>3, <1>4, <1>5, <1>9, Zenon DEF data

(* The buffer and the new bytes, as the buffer grows.                      *)
LEMMA WrittenToBuffer ==
    ASSUME StreamInv, NEW n \in Nat \ {0}, Write(n), wBuf' = wBuf \o NextBytes(n),
           wire' = wire, wState' = wState
    PROVE  WriterInv' /\ WireInv'
<1> DEFINE data == NextBytes(n)
<1>0. /\ wire \in Seq(Nat) /\ wBuf \in Seq(Nat) /\ sent \in Seq(Nat) /\ flushes \in SUBSET Nat
      /\ Pending \in Seq(Nat) /\ Taken \in Nat /\ Len(sent) \in Nat /\ Len(wBuf) \in Nat
      /\ kind \in {"buffered", "framed"} /\ n \in Nat
  BY StreamTypes, Zenon
<1>1. /\ sent' \in Seq(Nat) /\ Len(sent') = Len(sent) + n /\ flushes' = flushes
      /\ Continued(sent, sent', flushes, flushes', Len(sent))
      /\ data \in Seq(Nat) /\ Len(data) = n /\ Matches(data, Len(sent), sent')
  BY BytesWritten, Zenon
<1>2. wState = "open" /\ Len(sent) + n <= MaxBytes /\ UNCHANGED <<fixedVars, readerVars>>
  BY Zenon DEF Write
<1> HIDE DEF data
<1>3. Taken' = Taken /\ Begun' = Begun /\ kind' = kind /\ phase' = phase
  BY <1>0, <1>1, <1>2, ReaderKept, Zenon DEF fixedVars, readerVars
<1>4. Gone \in Nat /\ Matches(wBuf, Gone, sent) /\ (\A f \in flushes : f <= Gone)
  BY <1>2, Zenon DEF StreamInv, WriterInv
<1>a. wBuf' = wBuf \o data
  BY Zenon DEF data
<1>b. Len(wBuf \o data) = Len(wBuf) + n
  BY <1>0, <1>1, JoinedBytes, Zenon
<1>5. wBuf' = wBuf \o data /\ Len(wBuf') = Len(wBuf) + n
  BY <1>a, <1>b, Zenon
<1>6. Gone' = Gone /\ Gone + Len(wBuf) = Len(sent) /\ Gone <= Len(sent)
  <2>1. Gone = Len(sent) - Len(wBuf) /\ Gone' = (Len(sent) + n) - (Len(wBuf) + n)
    BY <1>1, <1>5, Zenon DEF Gone
  <2> QED
    BY <1>0, <2>1
<1>7. Len(sent) <= Len(sent') /\ \A i \in 1..Len(sent) : sent'[i] = sent[i]
  BY <1>1, Zenon DEF Continued
<1>8. Matches(wBuf', Gone, sent')
  <2>1. Matches(wBuf, Gone, sent')
    BY <1>0, <1>1, <1>4, <1>7, MatchesGrown, Zenon
  <2> QED
    BY <1>0, <1>1, <1>4, <1>5, <1>6, <2>1, MatchesJoined, Zenon
<1>9. WriterInv'
  BY <1>0, <1>1, <1>2, <1>4, <1>6, <1>8, Zenon DEF WriterInv
<1>10. CASE phase # "ended" /\ kind = "framed"
  <2>1. Framed(Pending, Taken, sent, flushes, Gone, wState = "open")
    BY <1>10, Zenon DEF StreamInv, WireInv
  <2>2. (wState = "open") = TRUE
    BY <1>2, Zenon
  <2>3. Framed(Pending, Taken, sent, flushes, Gone, TRUE)
    BY <2>1, <2>2, Zenon
  <2>4. Continued(sent, sent', flushes, flushes', Gone)
    BY <1>1, Zenon DEF Continued
  <2>5. Framed(Pending, Taken, sent', flushes', Gone, TRUE)
    BY <1>0, <1>1, <1>4, <2>3, <2>4, FramedGrows, Zenon
  <2>6. Pending' = Pending /\ (wState' = "open") = TRUE
    BY <1>2, <1>3, Zenon DEF Pending
  <2>7. Framed(Pending', Taken', sent', flushes', Gone', wState' = "open")
    BY <1>3, <1>6, <2>5, <2>6, Zenon
  <2> QED
    BY <1>3, <1>9, <1>10, <2>7, Zenon DEF WireInv
<1>11. CASE phase # "ended" /\ kind = "buffered"
  <2>1. Matches(wire, Taken, sent) /\ Taken + Len(wire) = Gone
    BY <1>2, <1>11, Zenon DEF StreamInv, WireInv
  <2>2. Matches(wire, Taken, sent')
    BY <1>0, <1>1, <1>7, <2>1, MatchesGrown, Zenon
  <2> QED
    BY <1>3, <1>6, <1>9, <1>11, <2>1, <2>2, Zenon DEF WireInv
<1>12. CASE phase = "ended"
  BY <1>3, <1>9, <1>12, Zenon DEF WireInv
<1> QED
  BY <1>0, <1>10, <1>11, <1>12, Zenon

(* A TBufferedTransport passes the buffer on and the first of the new      *)
(* bytes, and keeps the rest of them.                                      *)
PassesOn(data, k) ==
    /\ wire' = (wire \o wBuf) \o SubSeq(data, 1, k)
    /\ wBuf' = Dropped(data, k) /\ wState' = wState

(* What it passes on and what it keeps are the bytes written.              *)
LEMMA WrittenThrough ==
    ASSUME StreamInv, kind = "buffered", NEW n \in Nat \ {0}, Write(n),
           NEW k \in 0..n, PassesOn(NextBytes(n), k)
    PROVE  WriterInv' /\ WireInv'
<1> DEFINE data == NextBytes(n)
           first == SubSeq(data, 1, k)
           rest == Dropped(data, k)
<1>0. /\ wire \in Seq(Nat) /\ wBuf \in Seq(Nat) /\ sent \in Seq(Nat) /\ flushes \in SUBSET Nat
      /\ Taken \in Nat /\ Len(sent) \in Nat /\ Len(wBuf) \in Nat /\ n \in Nat /\ k \in Nat
  BY StreamTypes
<1>1. /\ sent' \in Seq(Nat) /\ Len(sent') = Len(sent) + n /\ flushes' = flushes
      /\ Continued(sent, sent', flushes, flushes', Len(sent))
      /\ data \in Seq(Nat) /\ Len(data) = n /\ Matches(data, Len(sent), sent')
  BY BytesWritten, Zenon
<1>2. wState = "open" /\ Len(sent) + n <= MaxBytes /\ UNCHANGED <<fixedVars, readerVars>>
  BY Zenon DEF Write
<1>3. Taken' = Taken /\ kind' = kind /\ phase' = phase
  BY <1>0, <1>1, <1>2, ReaderKept, Zenon DEF fixedVars, readerVars
<1>4. Gone \in Nat /\ Matches(wBuf, Gone, sent) /\ (\A f \in flushes : f <= Gone)
  BY <1>2, Zenon DEF StreamInv, WriterInv
<1> HIDE DEF data
<1>5. /\ first \in Seq(Nat) /\ Len(first) = k /\ rest \in Seq(Nat) /\ Len(rest) = n - k
  BY <1>1, CutBytes, Zenon
<1>6. Matches(first, Len(sent), sent') /\ Matches(rest, Len(sent) + k, sent')
  BY <1>0, <1>1, MatchesCut, Zenon
<1>7. wire' = (wire \o wBuf) \o first /\ wBuf' = rest /\ wState' = wState
  BY Zenon DEF PassesOn, data
<1> HIDE DEF first, rest
<1>8. Gone' = Len(sent) + k /\ Len(sent) + k \in Nat /\ Gone + Len(wBuf) = Len(sent)
  <2>1. Gone' = (Len(sent) + n) - (n - k) /\ Gone = Len(sent) - Len(wBuf)
    BY <1>1, <1>5, <1>7, Zenon DEF Gone
  <2> QED
    BY <1>0, <2>1
<1>9. ASSUME NEW f \in flushes PROVE f <= Len(sent) + k
  BY <1>0, <1>4, <1>8, <1>9
<1>10. WriterInv'
  BY <1>0, <1>1, <1>2, <1>6, <1>7, <1>8, <1>9, Zenon DEF WriterInv
<1>11. CASE phase # "ended"
  <2>1. Matches(wire, Taken, sent) /\ Taken + Len(wire) = Gone
    BY <1>2, <1>11, Zenon DEF StreamInv, WireInv
  <2>2. Len(sent) <= Len(sent') /\ \A i \in 1..Len(sent) : sent'[i] = sent[i]
    BY <1>1, Zenon DEF Continued
  <2>3. Matches(wire, Taken, sent') /\ Matches(wBuf, Gone, sent')
    <3>1. Matches(wire, Taken, sent')
      BY <1>0, <1>1, <2>1, <2>2, MatchesGrown, Zenon
    <3>2. Matches(wBuf, Gone, sent')
      BY <1>0, <1>1, <1>4, <2>2, MatchesGrown, Zenon
    <3> QED
      BY <3>1, <3>2, Zenon
  <2> DEFINE u == wire \o wBuf
  <2>4. u \in Seq(Nat) /\ Len(u) = Len(wire) + Len(wBuf)
    BY <1>0, JoinedBytes, Zenon
  <2>5. Matches(u, Taken, sent')
    BY <1>0, <1>1, <2>1, <2>3, MatchesJoined, Zenon
  <2> HIDE DEF u
  <2>6. Taken + Len(u) = Len(sent)
    <3>1. Len(wire) \in Nat
      BY <1>0
    <3> QED
      BY <1>0, <1>8, <2>1, <2>4, <3>1
  <2>7. Matches(u \o first, Taken, sent') /\ Len(u \o first) = Len(u) + k
    <3>1. Matches(first, Taken + Len(u), sent')
      BY <1>6, <2>6, Zenon
    <3>2. Matches(u \o first, Taken, sent')
      BY <1>0, <1>1, <1>5, <2>4, <2>5, <3>1, MatchesJoined, Zenon
    <3> QED
      BY <1>5, <2>4, <3>2, JoinedBytes, Zenon
  <2>8. Taken + (Len(u) + k) = Len(sent) + k
    <3>1. Len(u) \in Nat
      BY <2>4
    <3>a. Taken \in Nat /\ k \in Nat
      BY <1>0, Zenon
    <3>2. Taken + (Len(u) + k) = (Taken + Len(u)) + k
      BY <3>1, <3>a
    <3> QED
      BY <2>6, <3>2, Zenon
  <2>9. wire' = u \o first
    BY <1>7, Zenon DEF u
  <2>10. Matches(wire', Taken', sent') /\ Taken' + Len(wire') = Gone'
    BY <1>3, <1>8, <2>7, <2>8, <2>9, Zenon
  <2> QED
    BY <1>3, <1>10, <2>10, Zenon DEF WireInv
<1>12. CASE phase = "ended"
  BY <1>3, <1>10, <1>12, Zenon DEF WireInv
<1> QED
  BY <1>11, <1>12, Zenon

(* write(), with a buffer that is large enough or not.                     *)
LEMMA WriteStreams ==
    ASSUME StreamInv, NEW n \in Nat \ {0}, Write(n)
    PROVE  WriterInv' /\ ReaderInv' /\ WireInv' /\ StreamStep
<1> DEFINE data == NextBytes(n)
<1>0. /\ wire \in Seq(Nat) /\ wBuf \in Seq(Nat) /\ sent \in Seq(Nat) /\ flushes \in SUBSET Nat
      /\ Len(wBuf) \in Nat /\ kind \in {"buffered", "framed"} /\ n \in Nat
  BY StreamTypes, Zenon
<1>1. /\ sent' \in Seq(Nat) /\ flushes' = flushes /\ StreamStep
      /\ Continued(sent, sent', flushes, flushes', Len(sent))
      /\ data \in Seq(Nat) /\ Len(data) = n
  BY BytesWritten, Zenon
<1>2. ReaderInv'
  BY <1>0, <1>1, ReaderKept, Zenon DEF Write
<1>3. CASE kind = "framed"
  <2>1. wBuf' = wBuf \o data /\ wire' = wire /\ wState' = wState
    BY <1>3, Zenon DEF Write
  <2> QED
    BY <1>1, <1>2, <2>1, WrittenToBuffer, Zenon
<1>4. CASE kind = "buffered"
  <2>0. wBufSize_ = WBufSize /\ Len(wBuf) <= WBufSize /\ WBufSize \in Nat
    <3>1. WBufSize \in Nat
      BY TransportAssumption, Zenon
    <3> QED
      BY <1>4, <3>1, Zenon DEF StreamInv, BudgetInv
  <2>1. \/ wBuf' = wBuf \o data /\ wire' = wire /\ wState' = wState
        \/ Len(wBuf) + n > wBufSize_ /\ BufferedWriteSlow(data)
    <3>1. kind # "framed" /\ 0 + Len(wBuf) + n = Len(wBuf) + n
      BY <1>0, <1>4
    <3>2. IF 0 + Len(wBuf) + n <= wBufSize_
          THEN wBuf' = wBuf \o data /\ wire' = wire /\ wState' = wState
          ELSE BufferedWriteSlow(data)
      BY <3>1, Zenon DEF Write
    <3>3. 0 + Len(wBuf) + n <= wBufSize_ \/ Len(wBuf) + n > wBufSize_
      BY <1>0, <2>0
    <3> QED
      BY <3>1, <3>2, <3>3, Zenon
  <2>2. CASE wBuf' = wBuf \o data /\ wire' = wire /\ wState' = wState
    BY <1>1, <1>2, <2>2, WrittenToBuffer, Zenon
  <2>3. CASE Len(wBuf) + n > wBufSize_ /\ BufferedWriteSlow(data) /\ TwoWrites(Len(data))
    <3>1. wire' = (wire \o wBuf) \o data /\ wBuf' = <<>> /\ wState' = wState
      BY <2>3, Zenon DEF BufferedWriteSlow
    <3> HIDE DEF data
    <3>2. SubSeq(data, 1, n) = data /\ Dropped(data, n) = <<>> /\ n \in 0..n
      BY <1>0, <1>1 DEF Dropped
    <3>3. PassesOn(data, n)
      BY <3>1, <3>2, Zenon DEF PassesOn
    <3>4. WriterInv' /\ WireInv'
      BY <1>4, <3>2, <3>3, WrittenThrough, Zenon DEF data
    <3> QED
      BY <1>1, <1>2, <3>4, Zenon
  <2>4. CASE Len(wBuf) + n > wBufSize_ /\ BufferedWriteSlow(data) /\ ~TwoWrites(Len(data))
    <3> DEFINE space == wBufSize_ - Len(wBuf)
    <3> HIDE DEF data
    <3>1. space \in 0..n
      BY <1>0, <2>0, <2>4
    <3>2. Len(Dropped(data, space)) = n - space
      BY <1>1, <3>1, CutBytes, Zenon
    <3>3. ~(Len(Dropped(data, space)) >= wBufSize_)
      <4>1. ~(Len(wBuf) + n >= 2 * wBufSize_)
        BY <1>1, <2>4, Zenon DEF TwoWrites
      <4>2. n - (wBufSize_ - Len(wBuf)) < wBufSize_
        BY <1>0, <2>0, <4>1
      <4>3. Len(Dropped(data, space)) < wBufSize_ /\ n - (wBufSize_ - Len(wBuf)) \in Int
        BY <1>0, <2>0, <3>2, <4>2
      <4> QED
        BY <2>0, <3>2, <4>3
    <3>4. PassesOn(data, space)
      BY <2>4, <3>3, Zenon DEF BufferedWriteSlow, PassesOn
    <3>5. WriterInv' /\ WireInv'
      <4> HIDE DEF space
      <4> QED
        BY <1>4, <3>1, <3>4, WrittenThrough, Zenon DEF data
    <3> QED
      BY <1>1, <1>2, <3>5, Zenon
  <2> QED
    BY <2>1, <2>2, <2>3, <2>4, Zenon
<1> QED
  BY <1>0, <1>3, <1>4, Zenon

(* flush() of an open transport, to the end or torn: the frame of what is  *)
(* in the buffer, and a TBufferedTransport's bytes as they are.            *)
LEMMA FlushedFrame ==
    ASSUME StreamInv, kind = "framed", wState = "open", wBuf # <<>>,
           NEW k \in 0..Len(Flushed), NEW cuts \in SUBSET Nat,
           Continued(sent, sent, flushes, cuts, Len(sent)), k = Len(Flushed) => Len(sent) \in cuts
    PROVE  LET t == SubSeq(Flushed, 1, k)
           IN  /\ t \in Seq(Nat) /\ FrameAt(t, 0, Gone, Len(sent), sent, cuts)
               /\ Len(t) <= 4 + (Len(sent) - Gone)
               /\ k = Len(Flushed) => Len(t) = 4 + (Len(sent) - Gone)
<1> DEFINE h == htonl(Len(wBuf))
           t == SubSeq(Flushed, 1, k)
<1>0. /\ wBuf \in Seq(Nat) /\ sent \in Seq(Nat) /\ flushes \in SUBSET Nat
      /\ Len(sent) \in Nat /\ Len(wBuf) \in Nat
  BY StreamTypes, Zenon
<1>1. /\ Gone \in Nat /\ Matches(wBuf, Gone, sent) /\ \A f \in flushes : f <= Gone
  BY Zenon DEF StreamInv, WriterInv
<1>2. Len(wBuf) > 0 /\ Len(sent) - Gone = Len(wBuf) /\ Gone < Len(sent)
  <2>1. Len(wBuf) > 0
    BY <1>0
  <2> QED
    BY <1>0, <2>1 DEF Gone
<1>3. h \in Seq(Nat) /\ Len(h) = 4
  BY <1>0, HeaderBytes, Zenon
<1>4. Flushed = h \o wBuf
  BY Zenon DEF Flushed
<1> HIDE DEF h
<1>5. /\ Flushed \in Seq(Nat) /\ Len(Flushed) = 4 + Len(wBuf)
      /\ \A i \in 1..4 : Flushed[i] = h[i]
      /\ \A i \in 1..Len(wBuf) : Flushed[4 + i] = wBuf[i]
  <2>1. /\ h \o wBuf \in Seq(Nat) /\ Len(h \o wBuf) = Len(h) + Len(wBuf)
        /\ \A i \in 1..Len(h) : (h \o wBuf)[i] = h[i]
        /\ \A i \in 1..Len(wBuf) : (h \o wBuf)[Len(h) + i] = wBuf[i]
    BY <1>0, <1>3, JoinedBytes, Zenon
  <2> QED
    BY <1>3, <1>4, <2>1, Zenon
<1>6. t \in Seq(Nat) /\ Len(t) = k /\ \A i \in 1..k : t[i] = Flushed[i]
  BY <1>5, CutBytes, Zenon
<1> HIDE DEF t
<1>7. k \in Nat /\ k <= 4 + Len(wBuf)
  BY <1>0, <1>5
<1>8. ASSUME NEW e \in cuts PROVE e <= Gone \/ e >= Len(sent)
  BY <1>1, <1>8, Zenon DEF Continued
<1>9. ASSUME NEW j \in 1..4, 0 + j <= Len(t) PROVE t[0 + j] = htonl(Len(sent) - Gone)[j]
  <2>1. 0 + j = j /\ j \in 1..k
    BY <1>6, <1>7, <1>9
  <2> QED
    BY <1>2, <1>5, <1>6, <2>1, Zenon DEF h
<1>10. ASSUME NEW j \in 1..(Len(sent) - Gone), 0 + 4 + j <= Len(t)
       PROVE  t[0 + 4 + j] = sent[Gone + j]
  <2>1. 0 + 4 + j = 4 + j /\ j \in 1..Len(wBuf) /\ 4 + j \in 1..k
    BY <1>0, <1>2, <1>6, <1>7, <1>10
  <2> QED
    BY <1>1, <1>5, <1>6, <2>1, Zenon DEF Matches
<1>11. 0 + 4 + (Len(sent) - Gone) <= Len(t) => Len(sent) \in cuts
  <2> SUFFICES ASSUME 0 + 4 + (Len(sent) - Gone) <= Len(t) PROVE Len(sent) \in cuts
    BY Zenon
  <2>a. 0 + 4 + Len(wBuf) <= k
    BY <1>2, <1>6, Zenon
  <2>b. k = 4 + Len(wBuf)
    BY <1>0, <1>7, <2>a
  <2>1. k = Len(Flushed)
    BY <1>5, <2>b, Zenon
  <2> QED
    BY <2>1, Zenon
<1>12. Len(sent) <= Len(sent)
  BY <1>0
<1>13. FrameAt(t, 0, Gone, Len(sent), sent, cuts)
  BY <1>2, <1>8, <1>9, <1>10, <1>11, <1>12, Zenon DEF FrameAt
<1>14. /\ Len(t) <= 4 + (Len(sent) - Gone)
       /\ k = Len(Flushed) => Len(t) = 4 + (Len(sent) - Gone)
  BY <1>2, <1>5, <1>6, <1>7, Zenon
<1> QED
  BY <1>6, <1>13, <1>14, Zenon DEF t

(* Some of what is flushed reaches the connection, or all of it.           *)
HandsDown(k) == wire' = wire \o SubSeq(Flushed, 1, k) /\ wBuf' = <<>>

(* The connection then holds one frame more, maybe a torn one.             *)
LEMMA FlushedWire ==
    ASSUME StreamInv, wState = "open", UNCHANGED <<fixedVars, readerVars, sent>>,
           NEW k \in 0..Len(Flushed), HandsDown(k),
           Continued(sent, sent, flushes, flushes', Len(sent)), flushes' \in SUBSET Nat,
           k = Len(Flushed) => Len(sent) \in flushes',
           wState' = "open" => k = Len(Flushed)
    PROVE  WireInv'
<1> DEFINE t == SubSeq(Flushed, 1, k)
<1>0. /\ wire \in Seq(Nat) /\ wBuf \in Seq(Nat) /\ sent \in Seq(Nat) /\ flushes \in SUBSET Nat
      /\ Pending \in Seq(Nat) /\ Begun \in Seq(Nat) /\ Taken \in Nat /\ Len(sent) \in Nat
      /\ Len(wBuf) \in Nat /\ kind \in {"buffered", "framed"}
  BY StreamTypes, Zenon
<1>1. Gone \in Nat /\ Matches(wBuf, Gone, sent)
  BY Zenon DEF StreamInv, WriterInv
<1>2. kind' = kind /\ phase' = phase /\ sent' = sent
  BY Zenon DEF fixedVars, readerVars
<1>3. Taken' = Taken /\ Begun' = Begun
  BY <1>0, <1>2, ReaderKept, Zenon
<1>4. Gone' = Len(sent) /\ Gone + Len(wBuf) = Len(sent) /\ Gone <= Len(sent)
  <2>1. Len(<<>>) = 0
    OBVIOUS
  <2>2. Gone' = Len(sent) - 0
    BY <1>2, <2>1, Zenon DEF Gone, HandsDown
  <2> QED
    BY <1>0, <2>2 DEF Gone
<1>5. Flushed \in Seq(Nat)
  BY FlushedBytes, Zenon DEF StreamInv
<1>6. t \in Seq(Nat) /\ Len(t) = k
  BY <1>5, CutBytes, Zenon
<1>7. Pending' = Pending \o t
  <2>1. Pending' = Begun \o (wire \o t)
    BY <1>3, Zenon DEF Pending, HandsDown
  <2> HIDE DEF t
  <2>a. Begun \in Seq(Nat) /\ wire \in Seq(Nat) /\ t \in Seq(Nat)
    BY <1>0, <1>6, Zenon
  <2>2. (Begun \o wire) \o t = Begun \o (wire \o t)
    BY <2>a, JoinedTwice, Zenon
  <2> QED
    BY <2>1, <2>2, Zenon DEF Pending
<1>8. CASE phase # "ended" /\ kind = "framed"
  <2>1. Framed(Pending, Taken, sent, flushes, Gone, wState = "open")
    BY <1>8, Zenon DEF StreamInv, WireInv
  <2>2. Framed(Pending, Taken, sent, flushes, Gone, TRUE)
    <3>1. (wState = "open") = TRUE
      BY Zenon
    <3> QED
      BY <2>1, <3>1, Zenon
  <2>3. Continued(sent, sent, flushes, flushes', Gone)
    <3>1. ASSUME NEW e \in flushes', e >= Len(sent) PROVE e >= Gone
      BY <1>0, <1>1, <1>4, <3>1
    <3> QED
      BY <3>1, Zenon DEF Continued
  <2>4. Framed(Pending, Taken, sent, flushes', Gone, TRUE)
    BY <1>0, <1>1, <2>2, <2>3, FramedGrows, Zenon
  <2> DEFINE complete == wState' = "open"
  <2>5. complete \in BOOLEAN /\ (complete => k = Len(Flushed))
    BY Zenon
  <2> HIDE DEF complete
  <2>6. CASE wBuf # <<>>
    <3>1. /\ FrameAt(t, 0, Gone, Len(sent), sent, flushes')
          /\ Len(t) <= 4 + (Len(sent) - Gone)
          /\ complete => Len(t) = 4 + (Len(sent) - Gone)
      BY <1>8, <2>5, <2>6, FlushedFrame, Zenon
    <3> HIDE DEF t
    <3>a. AppendsFrame(Pending, t, Taken, sent, flushes', Gone, Len(sent), complete)
      BY <1>0, <1>1, <1>6, <2>4, <2>5, <3>1, Zenon DEF AppendsFrame
    <3>2. Framed(Pending \o t, Taken, sent, flushes', Len(sent), complete)
      BY <3>a, FramedAppend, Zenon
    <3>3. Framed(Pending', Taken', sent', flushes', Gone', complete)
      BY <1>2, <1>3, <1>4, <1>7, <3>2, Zenon
    <3> QED
      BY <1>2, <1>8, <3>3, Zenon DEF WireInv, complete
  <2>7. CASE wBuf = <<>>
    <3>1. Flushed = <<>> /\ Len(wBuf) = 0
      BY <2>7 DEF Flushed
    <3>2. k = 0 /\ Len(sent) = Gone
      <4>1. Len(Flushed) = 0
        BY <3>1
      <4> QED
        BY <1>0, <1>1, <1>4, <3>1, <4>1
    <3>3. t = <<>>
      BY <1>6, <3>2
    <3> HIDE DEF t
    <3>4. Pending' = Pending
      BY <1>0, <1>7, <3>3, NothingJoined, Zenon
    <3>5. Framed(Pending', Taken', sent', flushes', Gone', TRUE)
      BY <1>2, <1>3, <1>4, <2>4, <3>2, <3>4, Zenon
    <3>6. Framed(Pending', Taken', sent', flushes', Gone', complete)
      <4>1. CASE complete = TRUE
        BY <3>5, <4>1, Zenon
      <4>2. CASE complete = FALSE
        <5>1. Framed(Pending', Taken', sent', flushes', Gone', FALSE)
          BY <3>5, Zenon DEF Framed, Layout
        <5> QED
          BY <4>2, <5>1, Zenon
      <4> QED
        BY <2>5, <4>1, <4>2, Zenon
    <3> QED
      BY <1>2, <1>8, <3>6, Zenon DEF WireInv, complete
  <2> QED
    BY <2>6, <2>7, Zenon
<1>9. CASE phase # "ended" /\ kind = "buffered"
  <2>1. Matches(wire, Taken, sent) /\ Taken + Len(wire) = Gone
    BY <1>9, Zenon DEF StreamInv, WireInv
  <2>2. Flushed = wBuf
    BY <1>9, Zenon DEF Flushed
  <2>3. Matches(t, Gone, sent)
    BY <1>0, <1>1, <2>2, MatchesCut, Zenon
  <2> HIDE DEF t
  <2>4. Matches(wire \o t, Taken, sent) /\ Len(wire \o t) = Len(wire) + k
    <3>1. Matches(wire \o t, Taken, sent)
      BY <1>0, <1>6, <2>1, <2>3, MatchesJoined, Zenon
    <3> QED
      BY <1>0, <1>6, <3>1, JoinedBytes, Zenon
  <2>5. k = Len(Flushed) => Taken + (Len(wire) + k) = Len(sent)
    <3>1. Len(wire) \in Nat /\ Taken \in Nat /\ Len(wBuf) \in Nat
      BY <1>0
    <3>2. Taken + (Len(wire) + Len(wBuf)) = (Taken + Len(wire)) + Len(wBuf)
      BY <3>1
    <3> QED
      BY <1>4, <2>1, <2>2, <3>2, Zenon
  <2>6. wire' = wire \o t
    BY Zenon DEF t, HandsDown
  <2> QED
    BY <1>2, <1>3, <1>4, <1>9, <2>4, <2>5, <2>6, Zenon DEF WireInv
<1>10. CASE phase = "ended"
  BY <1>2, <1>10, Zenon DEF WireInv
<1> QED
  BY <1>0, <1>8, <1>9, <1>10, Zenon

(* flush() and close(), after a failure also.                              *)
LEMMA FlushStreams ==
    ASSUME StreamInv, NEW after \in {"open", "closed"}, flush(after),
           wState = "open" \/ (wState = "failed" /\ after = "closed"),
           UNCHANGED <<fixedVars, sent, readerVars>>
    PROVE  WriterInv' /\ ReaderInv' /\ WireInv' /\ StreamStep
<1>0. /\ wire \in Seq(Nat) /\ wBuf \in Seq(Nat) /\ sent \in Seq(Nat) /\ flushes \in SUBSET Nat
      /\ Len(sent) \in Nat /\ Len(wBuf) \in Nat /\ kind \in {"buffered", "framed"}
  BY StreamTypes, Zenon
<1>1. kind' = kind /\ phase' = phase /\ sent' = sent /\ received' = received
  BY Zenon DEF fixedVars, readerVars
<1>2. Len(sent) <= Len(sent) /\ Len(sent) >= Len(sent) /\ \A f \in flushes : f \in Nat
  BY <1>0
<1>3. Continued(sent, sent, flushes, flushes, Len(sent))
        /\ Continued(sent, sent, flushes, flushes \cup {Len(sent)}, Len(sent))
        /\ flushes \cup {Len(sent)} \in SUBSET Nat
  BY <1>0, <1>2, Zenon DEF Continued
<1>4. CASE TooSmall
  <2>1. wState' = "failed" /\ UNCHANGED <<wire, wBuf, wBufSize_, flushes>>
    BY <1>4, Zenon DEF flush
  <2>2. ReaderInv' /\ Taken' = Taken /\ Begun' = Begun
    BY <1>0, <1>1, <1>3, <2>1, ReaderKept, Zenon
  <2>3. WriterInv'
    <3>1. TooSmall'
      BY <1>1, <1>4, <2>1, Zenon DEF TooSmall
    <3>2. Len(sent) <= MaxBytes
      BY Zenon DEF StreamInv, WriterInv
    <3> QED
      BY <1>0, <1>1, <2>1, <3>1, <3>2, Zenon DEF WriterInv
  <2>4. StreamStep
    BY <1>1, <2>1, Zenon DEF StreamStep
  <2>5. WireInv'
    <3>1. Pending' = Pending /\ Gone' = Gone /\ kind = "framed"
      BY <1>1, <1>4, <2>1, <2>2, Zenon DEF Pending, Gone, TooSmall
    <3>2. CASE phase # "ended"
      <4>1. Framed(Pending, Taken, sent, flushes, Gone, wState = "open")
        BY <3>1, <3>2, Zenon DEF StreamInv, WireInv
      <4>2. Framed(Pending, Taken, sent, flushes, Gone, FALSE)
        BY <4>1, Zenon DEF Framed, Layout
      <4>3. (wState' = "open") = FALSE
        BY <2>1, Zenon
      <4>4. Framed(Pending', Taken', sent', flushes', Gone', wState' = "open")
        BY <1>1, <2>1, <2>2, <3>1, <4>2, <4>3, Zenon
      <4> QED
        BY <1>1, <3>1, <4>4, Zenon DEF WireInv
    <3>3. CASE phase = "ended"
      BY <1>1, <3>3, Zenon DEF WireInv
    <3> QED
      BY <3>2, <3>3, Zenon
  <2> QED
    BY <2>2, <2>3, <2>4, <2>5, Zenon
<1>5. CASE ~TooSmall /\ wState = "open"
  <2>1. /\ wire' = wire \o Flushed /\ wBuf' = <<>> /\ wState' = after
        /\ flushes' = flushes \cup {Len(sent)}
    BY <1>5, Zenon DEF flush
  <2>2. ReaderInv'
    BY <1>0, <1>1, <1>3, <2>1, ReaderKept, Zenon
  <2>3. WireInv'
    <3>1. Flushed \in Seq(Nat)
      BY FlushedBytes, Zenon DEF StreamInv
    <3>2. Len(Flushed) \in 0..Len(Flushed) /\ SubSeq(Flushed, 1, Len(Flushed)) = Flushed
      BY <3>1
    <3>3. HandsDown(Len(Flushed))
      BY <2>1, <3>2, Zenon DEF HandsDown
    <3>4. /\ Continued(sent, sent, flushes, flushes', Len(sent)) /\ flushes' \in SUBSET Nat
          /\ Len(sent) \in flushes' /\ wState = "open"
          /\ UNCHANGED <<fixedVars, readerVars, sent>>
      BY <1>3, <1>5, <2>1, Zenon
    <3> QED
      BY <3>2, <3>3, <3>4, FlushedWire, Zenon
  <2>4. WriterInv'
    <3>1. Len(<<>>) = 0 /\ 1..0 = {}
      OBVIOUS
    <3>2. Gone' = Len(sent) - 0 /\ Len(sent) - 0 = Len(sent) /\ Len(sent) + 0 = Len(sent)
      <4>1. Gone' = Len(sent) - 0
        BY <1>1, <2>1, <3>1, Zenon DEF Gone
      <4> QED
        BY <1>0, <4>1
    <3>3. Matches(<<>>, Len(sent), sent)
      BY <1>2, <3>1, <3>2, Zenon DEF Matches
    <3>4. ASSUME NEW f \in flushes' PROVE f <= Len(sent)
      <4>1. CASE f \in flushes
        <5>1. f <= Gone /\ Gone \in Nat
          BY <1>5, <4>1, Zenon DEF StreamInv, WriterInv
        <5>2. Gone <= Len(sent)
          BY <1>0 DEF Gone
        <5> QED
          BY <1>0, <4>1, <5>1, <5>2
      <4>2. CASE f = Len(sent)
        BY <1>2, <4>2, Zenon
      <4> QED
        BY <2>1, <4>1, <4>2, Zenon
    <3>5. Len(sent) <= MaxBytes
      BY Zenon DEF StreamInv, WriterInv
    <3>6. Gone' \in Nat /\ Matches(wBuf', Gone', sent') /\ (\A f \in flushes' : f <= Gone')
      BY <1>0, <1>1, <2>1, <3>2, <3>3, <3>4, Zenon
    <3> QED
      BY <1>1, <1>3, <2>1, <3>5, <3>6, Zenon DEF WriterInv
  <2>5. StreamStep
    BY <1>1, <2>1, Zenon DEF StreamStep, Stream!Next, Stream!Flush
  <2> QED
    BY <2>2, <2>3, <2>4, <2>5, Zenon
<1>6. CASE ~TooSmall /\ wState = "failed"
  <2>0. wBuf = <<>>
    BY <1>6, Zenon DEF StreamInv, WriterInv
  <2>1. /\ wire' = wire \o Flushed /\ wBuf' = <<>> /\ wState' = "closed" /\ flushes' = flushes
    BY <1>6, Zenon DEF flush
  <2>2. wire' = wire
    <3>1. Flushed = <<>>
      BY <2>0, Zenon DEF Flushed
    <3> QED
      BY <1>0, <2>1, <3>1, NothingJoined, Zenon
  <2>3. ReaderInv' /\ Taken' = Taken /\ Begun' = Begun
    BY <1>0, <1>1, <1>3, <2>1, ReaderKept, Zenon
  <2>4. WriterInv'
    <3>1. Len(sent) <= MaxBytes
      BY Zenon DEF StreamInv, WriterInv
    <3> QED
      BY <1>0, <1>1, <2>1, <3>1, Zenon DEF WriterInv
  <2>5. StreamStep
    BY <1>1, <2>1, Zenon DEF StreamStep
  <2>6. WireInv'
    <3>1. Pending' = Pending /\ Gone' = Gone
      BY <1>1, <2>0, <2>1, <2>2, <2>3, Zenon DEF Pending, Gone
    <3>2. (wState = "open") = FALSE /\ (wState' = "open") = FALSE
      BY <1>6, <2>1, Zenon
    <3>3. WireInv
      BY Zenon DEF StreamInv
    <3> QED
      BY <1>1, <2>1, <2>2, <2>3, <3>1, <3>2, <3>3, Zenon DEF WireInv
  <2> QED
    BY <2>3, <2>4, <2>5, <2>6, Zenon
<1> QED
  BY <1>4, <1>5, <1>6, Zenon

(* A write of writeSlow() fails: what was sent of the buffer and the data  *)
(* are bytes that were written.                                            *)
LEMMA TornStreams ==
    ASSUME StreamInv, NEW n \in Nat \ {0}, WriteFails(n)
    PROVE  WriterInv' /\ ReaderInv' /\ WireInv' /\ StreamStep
<1> DEFINE data == NextBytes(n)
           u == wBuf \o data
<1>0. /\ wire \in Seq(Nat) /\ wBuf \in Seq(Nat) /\ sent \in Seq(Nat) /\ flushes \in SUBSET Nat
      /\ Taken \in Nat /\ Len(sent) \in Nat /\ Len(wBuf) \in Nat /\ n \in Nat
  BY StreamTypes, Zenon
<1>1. /\ sent' \in Seq(Nat) /\ Len(sent') = Len(sent) + n /\ flushes' = flushes
      /\ Continued(sent, sent', flushes, flushes', Len(sent)) /\ StreamStep
      /\ data \in Seq(Nat) /\ Len(data) = n /\ Matches(data, Len(sent), sent')
  BY BytesWritten, Zenon
<1>2. /\ wState = "open" /\ wState' = "torn" /\ kind = "buffered" /\ kind' = kind
      /\ Len(sent) + n <= MaxBytes /\ UNCHANGED <<fixedVars, readerVars>> /\ phase' = phase
  BY Zenon DEF WriteFails, fixedVars, readerVars
<1>3. ReaderInv' /\ Taken' = Taken
  BY <1>0, <1>1, <1>2, ReaderKept, Zenon
<1>4. WriterInv'
  BY <1>0, <1>1, <1>2, Zenon DEF WriterInv
<1>5. Gone \in Nat /\ Matches(wBuf, Gone, sent)
  BY <1>2, Zenon DEF StreamInv, WriterInv
<1> HIDE DEF data
<1>6. u \in Seq(Nat) /\ Len(u) = Len(wBuf) + n
  BY <1>0, <1>1, JoinedBytes, Zenon
<1>7. PICK k \in 0..Len(u) : wire' = wire \o SubSeq(u, 1, k)
  <2> DEFINE handed == IF TwoWrites(n) THEN Len(wBuf) + n ELSE wBufSize_
  <2>1. PICK k \in 0..(handed - 1) : wire' = wire \o SubSeq(u, 1, k)
    BY Zenon DEF WriteFails, data
  <2>2. wBufSize_ \in Nat /\ Len(wBuf) + n > wBufSize_
    BY <1>2, TransportAssumption, Zenon DEF StreamInv, BudgetInv, WriteFails
  <2>3. k \in 0..(Len(wBuf) + n)
    BY <1>0, <2>1, <2>2
  <2> QED
    BY <1>6, <2>1, <2>3, Zenon
<1>8. CASE phase # "ended"
  <2>1. Matches(wire, Taken, sent) /\ Taken + Len(wire) = Gone
    BY <1>2, <1>8, Zenon DEF StreamInv, WireInv
  <2>2. Len(sent) <= Len(sent') /\ \A i \in 1..Len(sent) : sent'[i] = sent[i]
    BY <1>1, Zenon DEF Continued
  <2>3. Matches(wire, Taken, sent')
    BY <1>0, <1>1, <2>1, <2>2, MatchesGrown, Zenon
  <2>4. Matches(wBuf, Gone, sent')
    BY <1>0, <1>1, <1>5, <2>2, MatchesGrown, Zenon
  <2>5. Gone + Len(wBuf) = Len(sent)
    BY <1>0 DEF Gone
  <2>6. Matches(u, Gone, sent')
    BY <1>0, <1>1, <1>5, <2>4, <2>5, MatchesJoined, Zenon
  <2> DEFINE t == SubSeq(u, 1, k)
  <2> HIDE DEF u
  <2>7. t \in Seq(Nat) /\ Matches(t, Gone, sent')
    BY <1>1, <1>5, <1>6, <2>6, CutBytes, MatchesCut, Zenon
  <2> HIDE DEF t
  <2>8. Matches(wire \o t, Taken, sent')
    BY <1>0, <1>1, <2>1, <2>3, <2>7, MatchesJoined, Zenon
  <2>9. wire' = wire \o t
    BY <1>7, Zenon DEF t
  <2>10. Matches(wire', Taken', sent')
    BY <1>3, <2>8, <2>9, Zenon
  <2>11. WireInv'
    BY <1>2, <2>10, Zenon DEF WireInv
  <2> QED
    BY <1>1, <1>3, <1>4, <2>11, Zenon
<1>9. CASE phase = "ended"
  BY <1>1, <1>2, <1>3, <1>4, <1>9, Zenon DEF WireInv
<1> QED
  BY <1>8, <1>9, Zenon

(* The write of flush() fails, and the connection is reset.                *)
LEMMA FaultsStream ==
    ASSUME StreamInv, Faults
    PROVE  WriterInv' /\ ReaderInv' /\ WireInv' /\ StreamStep
<1>0. /\ wire \in Seq(Nat) /\ wBuf \in Seq(Nat) /\ sent \in Seq(Nat) /\ flushes \in SUBSET Nat
      /\ Len(sent) \in Nat /\ kind \in {"buffered", "framed"} /\ Begun \in Seq(Nat)
      /\ Pending \in Seq(Nat) /\ Taken \in Nat
  BY StreamTypes, Zenon
<1>1. UNCHANGED <<fixedVars, sent, flushes, readerVars>>
  BY Zenon DEF Faults, FlushFails, Reset
<1>2. Len(sent) <= Len(sent)
  BY <1>0
<1>3. Continued(sent, sent, flushes, flushes, Len(sent)) /\ flushes' = flushes /\ sent' = sent
        /\ kind' = kind /\ received' = received /\ phase' = phase
  BY <1>1, <1>2, Zenon DEF Continued, fixedVars, readerVars
<1>4. ReaderInv' /\ Taken' = Taken /\ Begun' = Begun
  BY <1>0, <1>1, <1>3, ReaderKept, Zenon
<1>5. StreamStep
  BY <1>3, Zenon DEF StreamStep
<1>6. Len(sent) <= MaxBytes
  BY Zenon DEF StreamInv, WriterInv
<1>7. CASE FlushFails
  <2>1. PICK k \in 0..(Len(Flushed) - 1) : wire' = wire \o SubSeq(Flushed, 1, k)
    BY <1>7, Zenon DEF FlushFails
  <2>2. wState = "open" /\ wBuf' = <<>> /\ wState' = "failed"
    BY <1>7, Zenon DEF FlushFails
  <2>3. WriterInv'
    BY <1>0, <1>3, <1>6, <2>2, Zenon DEF WriterInv
  <2>4. Flushed \in Seq(Nat)
    BY FlushedBytes, Zenon DEF StreamInv
  <2>5. Len(Flushed) \in Nat
    BY <2>4
  <2>6. k \in 0..Len(Flushed) /\ k # Len(Flushed)
    BY <2>5
  <2>7. HandsDown(k)
    BY <2>1, <2>2, Zenon DEF HandsDown
  <2>8. /\ Continued(sent, sent, flushes, flushes', Len(sent)) /\ flushes' \in SUBSET Nat
        /\ UNCHANGED <<fixedVars, readerVars, sent>> /\ wState' # "open"
    BY <1>0, <1>1, <1>3, <2>2, Zenon
  <2>9. WireInv'
    BY <2>2, <2>6, <2>7, <2>8, FlushedWire, Zenon
  <2> QED
    BY <1>4, <1>5, <2>3, <2>9, Zenon
<1>8. CASE Reset
  <2>1. PICK k \in 0..Len(wire) : wire' = SubSeq(wire, 1, k)
    BY <1>8, Zenon DEF Reset
  <2>2. wState' = "reset" /\ wBuf' = wBuf
    BY <1>8, Zenon DEF Reset
  <2>3. WriterInv'
    BY <1>0, <1>3, <1>6, <2>2, Zenon DEF WriterInv
  <2> DEFINE t == SubSeq(wire, 1, k)
  <2>4. t \in Seq(Nat) /\ Len(t) = k /\ \A i \in 1..k : t[i] = wire[i]
    BY <1>0, CutBytes, Zenon
  <2>5. CASE phase # "ended" /\ kind = "framed"
    <3>1. Framed(Pending, Taken, sent, flushes, Gone, wState = "open")
      BY <2>5, Zenon DEF StreamInv, WireInv
    <3> HIDE DEF t
    <3> DEFINE u == Begun \o t
    <3>2. /\ u \in Seq(Nat) /\ Len(u) = Len(Begun) + k
          /\ \A i \in 1..Len(Begun) : u[i] = Begun[i]
          /\ \A i \in 1..k : u[Len(Begun) + i] = t[i]
      BY <1>0, <2>4, JoinedBytes, Zenon
    <3>3. /\ Len(Pending) = Len(Begun) + Len(wire)
          /\ \A i \in 1..Len(Begun) : Pending[i] = Begun[i]
          /\ \A i \in 1..Len(wire) : Pending[Len(Begun) + i] = wire[i]
      BY <1>0, JoinedBytes, Zenon DEF Pending
    <3> HIDE DEF u
    <3>4. Len(Begun) \in Nat /\ Len(wire) \in Nat /\ k \in Nat /\ k <= Len(wire)
      BY <1>0
    <3>5. Len(u) <= Len(Pending)
      BY <3>2, <3>3, <3>4
    <3>6. ASSUME NEW i \in 1..Len(u) PROVE u[i] = Pending[i]
      <4>1. CASE i \in 1..Len(Begun)
        BY <3>2, <3>3, <4>1, Zenon
      <4>2. CASE i \notin 1..Len(Begun)
        <5>1. i - Len(Begun) \in 1..k /\ i = Len(Begun) + (i - Len(Begun))
          BY <3>2, <3>4, <4>2
        <5>2. PICK j \in 1..k : i = Len(Begun) + j
          BY <5>1, Zenon
        <5>3. j \in 1..Len(wire)
          BY <3>4
        <5> QED
          BY <2>4, <3>2, <3>3, <5>2, <5>3, Zenon
      <4> QED
        BY <4>1, <4>2, Zenon
    <3>7. Framed(u, Taken, sent, flushes, Gone, FALSE)
      BY <1>0, <3>1, <3>2, <3>5, <3>6, FramedPrefix, Zenon
    <3>8. Pending' = u /\ Gone' = Gone /\ (wState' = "open") = FALSE
      BY <1>3, <1>4, <2>1, <2>2, Zenon DEF Pending, Gone, u, t
    <3>9. Framed(Pending', Taken', sent', flushes', Gone', wState' = "open")
      BY <1>3, <1>4, <3>7, <3>8, Zenon
    <3>10. WireInv'
      BY <1>3, <2>5, <3>9, Zenon DEF WireInv
    <3> QED
      BY <1>4, <1>5, <2>3, <3>10, Zenon
  <2>6. CASE phase # "ended" /\ kind = "buffered"
    <3>1. Matches(wire, Taken, sent)
      BY <2>6, Zenon DEF StreamInv, WireInv
    <3>2. Matches(t, Taken, sent)
      BY <1>0, <3>1, MatchesCut, Zenon
    <3>3. WireInv'
      BY <1>3, <1>4, <2>1, <2>2, <2>6, <3>2, Zenon DEF WireInv
    <3> QED
      BY <1>4, <1>5, <2>3, <3>3, Zenon
  <2>7. CASE phase = "ended"
    <3>1. WireInv'
      BY <1>3, <2>7, Zenon DEF WireInv
    <3> QED
      BY <1>4, <1>5, <2>3, <3>1, Zenon
  <2> QED
    BY <1>0, <2>5, <2>6, <2>7, Zenon
<1> QED
  BY <1>7, <1>8, Zenon DEF Faults

(* The writer does not notice the reader.                                  *)
LEMMA WriterKept ==
    ASSUME StreamInv, UNCHANGED <<fixedVars, writerVars>>
    PROVE  WriterInv' /\ Gone' = Gone
  BY Zenon DEF StreamInv, WriterInv, Gone, TooSmall, fixedVars, writerVars

(* n of some bytes that come next are handed over, and the others are left *)
(* in the buffer.                                                          *)
NextToRead(bytes) ==
    /\ bytes \in Seq(Nat) /\ Matches(bytes, Len(received), sent)
    /\ kind = "framed" =>
          /\ \A f \in flushes : f <= Len(received) \/ f >= Len(received) + Len(bytes)
          /\ bytes # <<>> => Len(received) + Len(bytes) \in flushes

(* The step in which they are.                                             *)
HandsOut(bytes, n) ==
    received' = received \o SubSeq(bytes, 1, n) /\ rBuf' = Dropped(bytes, n)

(* The program then has what follows, and of one message only.             *)
LEMMA HandedOut ==
    ASSUME StreamInv, NEW bytes, NextToRead(bytes), NEW n \in 0..Len(bytes), HandsOut(bytes, n),
           UNCHANGED <<fixedVars, writerVars>>
    PROVE  /\ StreamStep /\ received' \in Seq(Nat)
           /\ Matches(received', 0, sent') /\ Matches(rBuf', Len(received'), sent')
           /\ Taken' = Len(received) + Len(bytes)
           /\ kind' = "framed" =>
                 /\ \A f \in flushes' : f <= Len(received') \/ f >= Taken'
                 /\ rBuf' # <<>> => Taken' \in flushes'
<1> DEFINE a == SubSeq(bytes, 1, n)
           b == Dropped(bytes, n)
<1>0. /\ sent \in Seq(Nat) /\ received \in Seq(Nat) /\ flushes \in SUBSET Nat
      /\ Len(received) \in Nat /\ Len(sent) \in Nat
  BY StreamTypes, Zenon
<1>1. bytes \in Seq(Nat) /\ Matches(bytes, Len(received), sent)
  BY Zenon DEF NextToRead
<1>2. UNCHANGED <<sent, flushes, kind>>
  BY Zenon DEF fixedVars, writerVars
<1>3. a \in Seq(Nat) /\ Len(a) = n /\ b \in Seq(Nat) /\ Len(b) = Len(bytes) - n
  BY <1>1, CutBytes, Zenon
<1>4. Matches(a, Len(received), sent) /\ Matches(b, Len(received) + n, sent)
  BY <1>0, <1>1, MatchesCut, Zenon
<1>5. received' = received \o a /\ rBuf' = b
  BY Zenon DEF HandsOut
<1> HIDE DEF a, b
<1>6. n \in Nat /\ n <= Len(bytes) /\ Len(bytes) \in Nat
  BY <1>1
<1>7. received' \in Seq(Nat) /\ Len(received') = Len(received) + n
  BY <1>0, <1>3, <1>5, JoinedBytes, Zenon
<1>8. Matches(received', 0, sent)
  <2>1. Matches(received, 0, sent) /\ 0 \in Nat
    BY Zenon DEF StreamInv, ReaderInv
  <2>2. 0 + Len(received) = Len(received)
    BY <1>0
  <2> QED
    BY <1>0, <1>3, <1>4, <1>5, <2>1, <2>2, MatchesJoined, Zenon
<1>9. Len(received') <= Len(sent) /\ received' = SubSeq(sent, 1, Len(received'))
  BY <1>0, <1>7, <1>8, MatchesPrefix, Zenon
<1>10. Taken' = Len(received) + Len(bytes) /\ Len(received') <= Len(received) + Len(bytes)
         /\ Len(received) <= Len(received')
  <2>1. Taken' = (Len(received) + n) + (Len(bytes) - n)
    BY <1>3, <1>5, <1>7, Zenon DEF Taken
  <2> QED
    BY <1>0, <1>6, <1>7, <2>1
<1>11. ASSUME kind = "framed"
       PROVE  /\ \A f \in flushes : f <= Len(received) \/ f >= Len(received')
              /\ \A f \in flushes : f <= Len(received') \/ f >= Taken'
              /\ rBuf' # <<>> => Taken' \in flushes
              /\ n # 0 => \E f \in flushes : Len(received') <= f
  <2>1. /\ \A f \in flushes : f <= Len(received) \/ f >= Len(received) + Len(bytes)
        /\ bytes # <<>> => Len(received) + Len(bytes) \in flushes
    BY <1>11, Zenon DEF NextToRead
  <2>2. ASSUME NEW f \in flushes
        PROVE  /\ f <= Len(received) => f <= Len(received')
               /\ f >= Len(received) + Len(bytes) => f >= Len(received')
    <3>1. f \in Nat /\ Len(received') \in Nat
      BY <1>0, <1>7
    <3> QED
      BY <1>0, <1>6, <1>10, <3>1
  <2>3. bytes = <<>> => n = 0 /\ rBuf' = <<>>
    <3> SUFFICES ASSUME bytes = <<>> PROVE n = 0 /\ rBuf' = <<>>
      BY Zenon
    <3>1. Len(bytes) = 0
      OBVIOUS
    <3>2. n = 0 /\ Len(b) = 0
      BY <1>3, <1>6, <3>1
    <3> QED
      BY <1>3, <1>5, <3>2
  <2> QED
    BY <1>10, <2>1, <2>2, <2>3, Zenon
<1>12. StreamStep
  <2>1. CASE n = 0
    <3>1. a = <<>>
      BY <1>3, <2>1
    <3>2. received' = received
      BY <1>0, <1>5, <3>1, NothingJoined, Zenon
    <3> QED
      BY <1>2, <3>2, Zenon DEF StreamStep
  <2>2. CASE n # 0
    <3>1. Len(received') > Len(received)
      BY <1>0, <1>6, <1>7, <2>2
    <3> QED
      BY <1>2, <1>9, <1>11, <2>2, <3>1, Zenon DEF StreamStep, Stream!Next, Stream!Deliver
  <2> QED
    BY <2>1, <2>2, Zenon
<1>13. Matches(rBuf', Len(received'), sent)
  BY <1>4, <1>5, <1>7, Zenon
<1> QED
  BY <1>2, <1>7, <1>8, <1>10, <1>11, <1>12, <1>13, Zenon

(* A call that is answered from the buffer, and may go on to ask.          *)
LEMMA FromBuffer ==
    ASSUME StreamInv, phase = "idle", NEW n \in 0..Len(rBuf), HandsOut(rBuf, n),
           UNCHANGED <<fixedVars, writerVars, wire, rBufSize_, frame>>,
           part' = <<>>, phase' \in {"idle", "fill", "ended"}
    PROVE  WriterInv' /\ ReaderInv' /\ WireInv' /\ StreamStep
<1>0. WriterInv' /\ Gone' = Gone
  BY WriterKept, Zenon
<1>1. ReaderInv /\ rBuf \in Seq(Nat)
  BY StreamTypes, Zenon DEF StreamInv
<1>2. NextToRead(rBuf)
  BY <1>1, Zenon DEF ReaderInv, NextToRead, Taken
<1>3. /\ StreamStep /\ received' \in Seq(Nat)
      /\ Matches(received', 0, sent') /\ Matches(rBuf', Len(received'), sent')
      /\ Taken' = Len(received) + Len(rBuf)
      /\ kind' = "framed" =>
            /\ \A f \in flushes' : f <= Len(received') \/ f >= Taken'
            /\ rBuf' # <<>> => Taken' \in flushes'
  BY <1>2, HandedOut, Zenon
<1>4. UNCHANGED <<kind, sent, flushes, wState>>
  BY Zenon DEF fixedVars, writerVars
<1>5. ReaderInv'
  BY <1>1, <1>3, <1>4, Zenon DEF ReaderInv
<1>6. Taken' = Taken
  BY <1>3, Zenon DEF Taken
<1>7. Pending' = Pending
  <2>1. part = <<>>
    BY <1>1, Zenon DEF ReaderInv
  <2> QED
    BY <2>1, Zenon DEF Pending, Begun
<1>8. WireInv'
  BY <1>0, <1>4, <1>6, <1>7, Zenon DEF StreamInv, WireInv
<1> QED
  BY <1>0, <1>3, <1>5, <1>8, Zenon

(* A call that fails ends the reading.                                     *)
LEMMA Failed ==
    ASSUME StreamInv, UNCHANGED <<fixedVars, writerVars, rBuf, rBufSize_, received>>,
           part' = <<>>, phase' = "ended"
    PROVE  WriterInv' /\ ReaderInv' /\ WireInv' /\ StreamStep
<1>0. WriterInv'
  BY WriterKept, Zenon
<1>1. UNCHANGED <<kind, sent, flushes, received>>
  BY Zenon DEF fixedVars, writerVars
<1>2. ReaderInv'
  BY <1>1, Zenon DEF StreamInv, ReaderInv, Taken
<1> QED
  BY <1>0, <1>1, <1>2, Zenon DEF WireInv, StreamStep

(* Reading, or reading ahead, with bytes in the buffer.                    *)
LEMMA ReadStreams ==
    ASSUME StreamInv, NEW n \in Nat \ {0}, NEW call, Read(call, n)
    PROVE  WriterInv' /\ ReaderInv' /\ WireInv' /\ StreamStep
<1>0. rBuf \in Seq(Nat) /\ Len(rBuf) \in Nat
  BY StreamTypes, Zenon
<1>1. Lesser(n, Have) \in 0..Len(rBuf)
  BY <1>0 DEF Lesser, Have
<1>2. /\ phase = "idle"
      /\ UNCHANGED <<fixedVars, writerVars, wire, rBufSize_, frame>>
  BY Zenon DEF Read
<1>3. \/ Fails("budget") /\ UNCHANGED <<rBuf, received>>
      \/ /\ HandsOut(rBuf, Lesser(n, Have))
         /\ Returns \/ Asks(call, n - Have, budget, budgetBoundToBuffer_)
  BY Zenon DEF Read, HandsOut
<1>4. CASE Fails("budget") /\ UNCHANGED <<rBuf, received>>
  BY <1>2, <1>4, Failed, Zenon DEF Fails
<1>5. CASE /\ HandsOut(rBuf, Lesser(n, Have))
           /\ Returns \/ Asks(call, n - Have, budget, budgetBoundToBuffer_)
  <2>1. part' = <<>> /\ phase' \in {"idle", "fill", "ended"}
    BY <1>5, Zenon DEF Returns, Asks, Fails
  <2> QED
    BY <1>1, <1>2, <1>5, <2>1, FromBuffer, Zenon
<1> QED
  BY <1>3, <1>4, <1>5, Zenon

(* borrow() and consume(), which take from the buffer.                     *)
LEMMA ConsumeStreams ==
    ASSUME StreamInv, NEW n \in Nat, Consume(n)
    PROVE  WriterInv' /\ ReaderInv' /\ WireInv' /\ StreamStep
<1>0. rBuf \in Seq(Nat) /\ Len(rBuf) \in Nat
  BY StreamTypes, Zenon
<1>1. phase = "idle" /\ UNCHANGED <<fixedVars, writerVars, wire, rBufSize_, frame>> /\ n <= Have
  BY Zenon DEF Consume
<1>2. n \in 0..Len(rBuf)
  BY <1>0, <1>1 DEF Have
<1>3. \/ Fails("budget") /\ UNCHANGED <<rBuf, received>>
      \/ HandsOut(rBuf, n) /\ Returns
  BY Zenon DEF Consume, HandsOut
<1>4. CASE Fails("budget") /\ UNCHANGED <<rBuf, received>>
  BY <1>1, <1>4, Failed, Zenon DEF Fails
<1>5. CASE HandsOut(rBuf, n) /\ Returns
  BY <1>1, <1>2, <1>5, FromBuffer, Zenon DEF Returns
<1> QED
  BY <1>3, <1>4, <1>5, Zenon

(* What is read of the connection is its beginning.                        *)
LEMMA Arrived ==
    ASSUME wire \in Seq(Nat), NEW m \in Int, NEW bytes \in Arriving(m)
    PROVE  /\ Len(bytes) \in 0..Len(wire) /\ Len(bytes) <= m
           /\ bytes \in Seq(Nat) /\ bytes = SubSeq(wire, 1, Len(bytes))
           /\ Dropped(wire, Len(bytes)) \in Seq(Nat)
<1>1. PICK k \in 1..Lesser(m, Len(wire)) : bytes = SubSeq(wire, 1, k)
  BY Zenon DEF Arriving
<1>2. k \in 0..Len(wire) /\ k <= m
  BY <1>1 DEF Lesser
<1>3. bytes \in Seq(Nat) /\ Len(bytes) = k /\ Dropped(wire, k) \in Seq(Nat)
  BY <1>1, <1>2, CutBytes, Zenon
<1> QED
  BY <1>1, <1>2, <1>3, Zenon

(* The size in front of the first frame.                                   *)
HeadsFrame(h, t, from, g, all, cuts) ==
    /\ h \in Seq(Nat) /\ Len(h) = 4 /\ t \in Seq(Nat) /\ from \in Nat /\ g \in Nat
    /\ FrameAt(h \o t, 0, from, g, all, cuts) /\ g < SizeLimit

(* The bytes in front of a frame of n bytes.                               *)
GivesSize(h, n) == n \in Nat /\ n < SizeLimit /\ h = htonl(n) /\ ntohl(h) = n

(* They tell how many there are.                                           *)
LEMMA HeaderMatches ==
    ASSUME NEW h, NEW t, NEW from, NEW g, NEW all, NEW cuts, HeadsFrame(h, t, from, g, all, cuts)
    PROVE  GivesSize(h, g - from)
<1>0. /\ h \in Seq(Nat) /\ Len(h) = 4 /\ t \in Seq(Nat) /\ from \in Nat /\ g \in Nat
      /\ FrameAt(h \o t, 0, from, g, all, cuts) /\ g < SizeLimit
  BY Zenon DEF HeadsFrame
<1>1. from < g
  BY <1>0, Zenon DEF FrameAt
<1>2. g - from \in Nat /\ g - from < SizeLimit
  <2>1. SizeLimit \in Nat
    BY DEF SizeLimit
  <2> QED
    BY <1>0, <1>1, <2>1
<1>3. htonl(g - from) \in Seq(Nat) /\ Len(htonl(g - from)) = 4 /\ ntohl(htonl(g - from)) = g - from
  BY <1>2, HeaderBytes, Zenon
<1>4. Len(h \o t) = Len(h) + Len(t) /\ \A i \in 1..Len(h) : (h \o t)[i] = h[i]
  BY <1>0, JoinedBytes, Zenon
<1>5. Len(t) \in Nat
  BY <1>0
<1>6. ASSUME NEW j \in 1..4 PROVE h[j] = htonl(g - from)[j]
  <2>1. 0 + j = j /\ j <= 4 + Len(t)
    BY <1>5
  <2>2. 0 + j <= Len(h \o t)
    BY <1>0, <1>4, <2>1, Zenon
  <2>3. (h \o t)[0 + j] = htonl(g - from)[j]
    BY <1>0, <2>2, Zenon DEF FrameAt
  <2> QED
    BY <1>0, <1>4, <2>1, <2>3, Zenon
<1>7. h = htonl(g - from)
  BY <1>0, <1>3, <1>6, SameBytes, Zenon
<1> QED
  BY <1>2, <1>3, <1>7, Zenon DEF GivesSize

(* Without the first of two sequences there is the second.                 *)
LEMMA DroppedFirst ==
    ASSUME NEW s \in Seq(Nat), NEW t \in Seq(Nat)
    PROVE  Len(s) <= Len(s \o t) /\ Dropped(s \o t, Len(s)) = t
<1> DEFINE u == s \o t
           d == Dropped(u, Len(s))
<1>0. Len(s) \in Nat /\ Len(t) \in Nat
  OBVIOUS
<1>1. u \in Seq(Nat) /\ Len(u) = Len(s) + Len(t) /\ \A i \in 1..Len(t) : u[Len(s) + i] = t[i]
  BY JoinedBytes, Zenon
<1> HIDE DEF u
<1>2. Len(s) \in 0..Len(u) /\ Len(u) - Len(s) = Len(t) /\ Len(s) <= Len(u)
  BY <1>0, <1>1
<1>3. d \in Seq(Nat) /\ Len(d) = Len(t) /\ \A i \in 1..Len(t) : d[i] = u[Len(s) + i]
  <2>1. u \in Seq(Nat) /\ Len(s) \in 0..Len(u)
    BY <1>1, <1>2, Zenon
  <2>2. /\ d \in Seq(Nat) /\ Len(d) = Len(u) - Len(s)
        /\ \A i \in 1..(Len(u) - Len(s)) : d[i] = u[Len(s) + i]
    BY <2>1, CutBytes, Zenon
  <2> QED
    BY <1>2, <2>2, Zenon
<1> HIDE DEF d
<1>4. \A i \in 1..Len(d) : d[i] = t[i]
  BY <1>1, <1>3, Zenon
<1>5. d = t
  BY <1>3, <1>4, SameBytes, Zenon
<1> QED
  BY <1>2, <1>5, Zenon DEF u, d

(* A TBufferedTransport fills its buffer.                                  *)
LEMMA FillStreams ==
    ASSUME StreamInv, FillBuffer
    PROVE  WriterInv' /\ ReaderInv' /\ WireInv' /\ StreamStep
<1>0. /\ wire \in Seq(Nat) /\ sent \in Seq(Nat) /\ received \in Seq(Nat) /\ Len(received) \in Nat
      /\ Len(wire) \in Nat /\ Taken \in Nat
  BY StreamTypes
<1>1. /\ phase = "fill" /\ kind = "buffered" /\ want \in Nat /\ rBuf = <<>>
      /\ UNCHANGED <<fixedVars, writerVars, rBufSize_, frame>>
  BY Zenon DEF FillBuffer, StreamInv, BudgetInv
<1>2. PICK bytes \in Arriving(RBufSize) :
          wire' = Dropped(wire, Len(bytes)) /\ HandsOver(bytes, budget, budgetBoundToBuffer_)
  BY Zenon DEF FillBuffer
<1> DEFINE k == Len(bytes)
<1>3. k \in 0..Len(wire) /\ bytes \in Seq(Nat) /\ bytes = SubSeq(wire, 1, k)
  <2>1. RBufSize \in Int
    BY TransportAssumption
  <2> QED
    BY <1>0, <1>2, <2>1, Arrived, Zenon
<1>4. Taken = Len(received)
  <2>1. Len(rBuf) = 0
    BY <1>1
  <2> QED
    BY <1>0, <2>1 DEF Taken
<1>5. Matches(wire, Taken, sent) /\ (wState = "open" => Taken + Len(wire) = Gone)
  BY <1>1, Zenon DEF StreamInv, WireInv
<1>6. Matches(bytes, Taken, sent) /\ Matches(Dropped(wire, k), Taken + k, sent)
  BY <1>0, <1>3, <1>5, MatchesCut, Zenon
<1>7. NextToRead(bytes)
  BY <1>1, <1>3, <1>4, <1>6, Zenon DEF NextToRead
<1>8. Lesser(want, k) \in 0..k
  BY <1>1, <1>3 DEF Lesser
<1>9. HandsOut(bytes, Lesser(want, k)) /\ part' = <<>> /\ phase' \in {"idle", "fill", "ended"}
  BY <1>2, Zenon DEF HandsOver, HandsOut, Asks, Returns, Fails
<1>10. /\ StreamStep /\ received' \in Seq(Nat)
       /\ Matches(received', 0, sent') /\ Matches(rBuf', Len(received'), sent')
       /\ Taken' = Len(received) + k
  BY <1>1, <1>7, <1>8, <1>9, HandedOut, Zenon
<1>11. UNCHANGED <<kind, sent, flushes, wState>> /\ kind' # "framed"
  BY <1>1, Zenon DEF fixedVars, writerVars
<1>12. ReaderInv'
  BY <1>9, <1>10, <1>11, Zenon DEF ReaderInv
<1>13. WriterInv' /\ Gone' = Gone
  BY <1>1, WriterKept, Zenon
<1>14. WireInv'
  <2>1. Len(Dropped(wire, k)) = Len(wire) - k
    BY <1>0, <1>3, CutBytes, Zenon
  <2>2. k \in Nat /\ (Taken + k) + (Len(wire) - k) = Taken + Len(wire)
    <3> HIDE DEF k
    <3> QED
      BY <1>0, <1>3
  <2>3. Matches(wire', Taken', sent') /\ (wState' = "open" => Taken' + Len(wire') = Gone')
    BY <1>2, <1>4, <1>5, <1>6, <1>10, <1>11, <1>13, <2>1, <2>2, Zenon
  <2> QED
    BY <1>11, <2>3, Zenon DEF WireInv
<1> QED
  BY <1>10, <1>12, <1>13, <1>14, Zenon

(* A frame begins with the size that its header says.                      *)
LEMMA FirstFrame ==
    ASSUME WholeMessages, StreamInv, kind = "framed", phase # "ended",
           NEW h \in Seq(Nat), Len(h) = 4, NEW t \in Seq(Nat), Pending = h \o t
    PROVE  \E g \in Nat :
              /\ FrameAt(Pending, 0, Taken, g, sent, flushes)
              /\ g - Taken \in Nat /\ g - Taken < SizeLimit
              /\ h = htonl(g - Taken) /\ ntohl(h) = g - Taken
              /\ 4 + (g - Taken) <= Len(Pending) =>
                    Framed(Dropped(Pending, 4 + (g - Taken)), g, sent, flushes, Gone, wState = "open")
<1>0. /\ sent \in Seq(Nat) /\ flushes \in SUBSET Nat /\ Pending \in Seq(Nat) /\ Taken \in Nat
      /\ Len(sent) \in Nat
  BY StreamTypes, Zenon
<1>1. Framed(Pending, Taken, sent, flushes, Gone, wState = "open")
  BY Zenon DEF StreamInv, WireInv
<1>2. (wState = "open") \in BOOLEAN
  BY Zenon
<1>3. Len(Pending) >= 1
  <2>1. Len(Pending) = 4 + Len(t) /\ Len(t) \in Nat
    <3>1. Len(h \o t) = Len(h) + Len(t)
      BY JoinedBytes, Zenon
    <3>2. Len(t) \in Nat
      OBVIOUS
    <3> QED
      BY <3>1, <3>2, Zenon
  <2> QED
    BY <2>1
<1>4. PICK g \in Nat :
          /\ FrameAt(Pending, 0, Taken, g, sent, flushes)
          /\ 4 + (g - Taken) <= Len(Pending) =>
                Framed(Dropped(Pending, 4 + (g - Taken)), g, sent, flushes, Gone, wState = "open")
  BY <1>0, <1>1, <1>2, <1>3, FramedHead, Zenon
<1>5. g < SizeLimit
  <2>1. g <= Len(sent) /\ Len(sent) <= MaxBytes /\ MaxBytes < SizeLimit
    <3>1. HeaderSize + MaxBytes < SizeLimit /\ MaxBytes \in Nat
      BY TransportAssumption, Zenon DEF WholeMessages
    <3>2. MaxBytes < SizeLimit
      BY <3>1 DEF SizeLimit, HeaderSize
    <3> QED
      BY <1>4, <3>2, Zenon DEF FrameAt, StreamInv, WriterInv
  <2>2. MaxBytes \in Nat
    BY TransportAssumption, Zenon
  <2>3. SizeLimit \in Nat
    BY DEF SizeLimit
  <2> QED
    BY <1>0, <2>1, <2>2, <2>3
<1>6. /\ g - Taken \in Nat /\ g - Taken < SizeLimit
      /\ h = htonl(g - Taken) /\ ntohl(h) = g - Taken
  <2>1. HeadsFrame(h, t, Taken, g, sent, flushes)
    BY <1>0, <1>4, <1>5, Zenon DEF HeadsFrame
  <2>2. GivesSize(h, g - Taken)
    BY <2>1, HeaderMatches, Zenon
  <2> QED
    BY <2>2, Zenon DEF GivesSize
<1> QED
  BY <1>4, <1>6, Zenon

(* readFrame() reads the size.                                             *)
LEMMA FrameSizeStreams ==
    ASSUME WholeMessages, StreamInv, ReadFrameSize
    PROVE  WriterInv' /\ ReaderInv' /\ WireInv' /\ StreamStep
<1>0. /\ wire \in Seq(Nat) /\ part \in Seq(Nat) /\ Len(part) \in Nat /\ Taken \in Nat
  BY StreamTypes
<1>1. /\ phase = "fill" /\ kind = "framed"
      /\ UNCHANGED <<fixedVars, writerVars, rBuf, received>>
  BY Zenon DEF ReadFrameSize
<1>2. PICK bytes \in Arriving(HeaderSize - Len(part)) :
          /\ wire' = Dropped(wire, Len(bytes))
          /\ IF Len(part \o bytes) = HeaderSize
             THEN FrameBegins(ntohl(part \o bytes))
             ELSE /\ part' = part \o bytes
                  /\ UNCHANGED <<rBufSize_, budget, budgetBoundToBuffer_, frame,
                                 phase, op, want, error>>
  BY Zenon DEF ReadFrameSize
<1> DEFINE k == Len(bytes)
           rest == Dropped(wire, k)
           h == part \o bytes
<1>3. k \in 0..Len(wire) /\ bytes \in Seq(Nat) /\ bytes = SubSeq(wire, 1, k) /\ rest \in Seq(Nat)
  <2>1. HeaderSize - Len(part) \in Int
    BY <1>0 DEF HeaderSize
  <2> QED
    BY <1>0, <1>2, <2>1, Arrived, Zenon
<1>4. h \in Seq(Nat)
  BY <1>0, <1>3, JoinedBytes, Zenon
<1>5. Pending = h \o rest
  <2>1. (part \o SubSeq(wire, 1, k)) \o Dropped(wire, k) = part \o wire
    BY <1>0, <1>3, MovedBytes, Zenon
  <2>2. Pending = part \o wire
    BY <1>1, Zenon DEF Pending, Begun
  <2> QED
    BY <1>3, <2>1, <2>2, Zenon
<1>6. wire' = rest
  BY <1>2, Zenon
<1>7. WriterInv' /\ Gone' = Gone
  BY <1>1, WriterKept, Zenon
<1>8. UNCHANGED <<kind, sent, flushes, wState, received, rBuf>> /\ Taken' = Taken
  BY <1>1, Zenon DEF fixedVars, writerVars, Taken
<1>9. StreamStep
  BY <1>8, Zenon DEF StreamStep
<1>10. ReaderInv /\ WireInv
  BY Zenon DEF StreamInv
<1> HIDE DEF k, rest, h
<1>11. CASE Len(h) # 4
  <2>1. part' = h /\ UNCHANGED <<rBufSize_, frame, phase>>
    BY <1>2, <1>11, Zenon DEF h, HeaderSize
  <2>2. ReaderInv'
    BY <1>1, <1>8, <1>10, <2>1, Zenon DEF ReaderInv
  <2>3. Pending' = Pending
    BY <1>1, <1>5, <1>6, <2>1, Zenon DEF Pending, Begun
  <2>4. WireInv'
    BY <1>1, <1>7, <1>8, <1>10, <2>1, <2>3, Zenon DEF WireInv
  <2> QED
    BY <1>7, <1>9, <2>2, <2>4, Zenon
<1>12. CASE Len(h) = 4
  <2>1. FrameBegins(ntohl(h))
    BY <1>2, <1>12, Zenon DEF h, HeaderSize
  <2>2. CASE phase' = "ended"
    <3>1. part' = <<>> /\ rBufSize_' = rBufSize_
      BY <2>1, <2>2, Zenon DEF FrameBegins, Fails
    <3> QED
      BY <1>1, <2>2, <3>1, Failed, Zenon
  <2>3. CASE phase' # "ended"
    <3>1. /\ ~(ntohl(h) > MaxFrameSize) /\ frame' = ntohl(h) /\ phase' = "payload" /\ part' = <<>>
          /\ rBufSize_' = IF ntohl(h) > rBufSize_ THEN ntohl(h) ELSE rBufSize_
      BY <2>1, <2>3, Zenon DEF FrameBegins, Fails
    <3>2. PICK g \in Nat :
              /\ g - Taken \in Nat /\ g - Taken < SizeLimit
              /\ h = htonl(g - Taken) /\ ntohl(h) = g - Taken
      <4>1. phase # "ended"
        BY <1>1, Zenon
      <4> QED
        BY <1>1, <1>3, <1>4, <1>5, <1>12, <4>1, FirstFrame, Zenon DEF rest
    <3>3. ntohl(h) \in Nat /\ ntohl(h) < SizeLimit /\ h = htonl(ntohl(h))
      BY <3>2, Zenon
    <3>4. rBufSize_' \in Nat /\ rBufSize_' <= MaxFrameSize
      <4>1. rBufSize_ \in Nat /\ rBufSize_ <= MaxFrameSize
        BY <1>1, <1>10, Zenon DEF ReaderInv
      <4>2. MaxFrameSize \in Nat
        BY TransportAssumption, Zenon
      <4> DEFINE z == ntohl(h)
      <4>3. z \in Nat
        BY <3>3, Zenon
      <4> HIDE DEF z
      <4>4. ~(z > MaxFrameSize) /\ rBufSize_' = IF z > rBufSize_ THEN z ELSE rBufSize_
        BY <3>1, Zenon DEF z
      <4> QED
        BY <4>1, <4>2, <4>3, <4>4
    <3>5. ReaderInv'
      BY <1>1, <1>8, <1>10, <3>1, <3>3, <3>4, Zenon DEF ReaderInv
    <3>6. Pending' = Pending
      <4>1. Begun' = h \o <<>>
        BY <3>1, <3>3, Zenon DEF Begun
      <4>2. Begun' = h
        BY <1>4, <4>1, NothingJoined, Zenon
      <4> QED
        BY <1>5, <1>6, <4>2, Zenon DEF Pending
    <3>7. WireInv'
      BY <1>1, <1>7, <1>8, <1>10, <3>1, <3>6, Zenon DEF WireInv
    <3> QED
      BY <1>7, <1>9, <3>5, <3>7, Zenon
  <2> QED
    BY <2>2, <2>3, Zenon
<1> QED
  BY <1>11, <1>12, Zenon

(* readFrame() reads the bytes of a frame, and hands them over at the end. *)
LEMMA FrameStreams ==
    ASSUME WholeMessages, StreamInv, ReadFrame
    PROVE  /\ WriterInv' /\ ReaderInv' /\ WireInv' /\ StreamStep
           /\ Taken' \in flushes \cup {Taken}
<1>0. /\ wire \in Seq(Nat) /\ part \in Seq(Nat) /\ Len(part) \in Nat /\ Taken \in Nat
      /\ received \in Seq(Nat) /\ Len(received) \in Nat /\ sent \in Seq(Nat)
      /\ flushes \in SUBSET Nat /\ Len(sent) \in Nat
  BY StreamTypes
<1>1. /\ phase = "payload" /\ kind = "framed" /\ want \in Nat /\ rBuf = <<>> /\ frame \in Nat
      /\ frame < SizeLimit
      /\ UNCHANGED <<fixedVars, writerVars, rBufSize_, frame>>
  BY Zenon DEF ReadFrame, StreamInv, BudgetInv, ReaderInv
<1>2. PICK bytes \in Arriving(frame - Len(part)) :
          /\ wire' = Dropped(wire, Len(bytes))
          /\ IF Len(part \o bytes) = frame
             THEN HandsOver(part \o bytes, budget, budgetBoundToBuffer_)
             ELSE part' = part \o bytes /\ UNCHANGED <<rBuf, phase, op, want, error, received>>
  BY Zenon DEF ReadFrame
<1> DEFINE k == Len(bytes)
           rest == Dropped(wire, k)
           body == part \o bytes
           h == htonl(frame)
<1>3. k \in 0..Len(wire) /\ bytes \in Seq(Nat) /\ bytes = SubSeq(wire, 1, k) /\ rest \in Seq(Nat)
  <2>1. frame - Len(part) \in Int
    BY <1>0, <1>1
  <2> QED
    BY <1>0, <1>2, <2>1, Arrived, Zenon
<1>4. body \in Seq(Nat)
  BY <1>0, <1>3, JoinedBytes, Zenon
<1>5. h \in Seq(Nat) /\ Len(h) = 4 /\ ntohl(h) = frame
  BY <1>1, HeaderBytes, Zenon
<1>6. h \o body \in Seq(Nat) /\ body \o rest \in Seq(Nat)
  BY <1>3, <1>4, <1>5, JoinedBytes, Zenon
<1>7. Pending = (h \o body) \o rest /\ Pending = h \o (body \o rest)
  <2>1. (part \o SubSeq(wire, 1, k)) \o Dropped(wire, k) = part \o wire
    BY <1>0, <1>3, MovedBytes, Zenon
  <2>2. Pending = (h \o part) \o wire
    BY <1>1, Zenon DEF Pending, Begun
  <2>3. body \o rest = part \o wire
    BY <1>3, <2>1, Zenon
  <2> HIDE DEF h, body, rest
  <2>4. (h \o part) \o wire = h \o (part \o wire)
    BY <1>0, <1>5, JoinedTwice, Zenon
  <2>5. (h \o body) \o rest = h \o (body \o rest)
    BY <1>3, <1>4, <1>5, JoinedTwice, Zenon
  <2> QED
    BY <2>2, <2>3, <2>4, <2>5, Zenon
<1>8. wire' = rest
  BY <1>2, Zenon
<1>9. WriterInv' /\ Gone' = Gone
  BY <1>1, WriterKept, Zenon
<1>10. UNCHANGED <<kind, sent, flushes, wState, frame, rBufSize_>>
  BY <1>1, Zenon DEF fixedVars, writerVars
<1>11. ReaderInv /\ WireInv
  BY Zenon DEF StreamInv
<1> HIDE DEF k, rest, body
<1>12. CASE Len(body) # frame
  <2>1. part' = body /\ UNCHANGED <<rBuf, phase, received>>
    BY <1>2, <1>12, Zenon DEF body
  <2>2. Taken' = Taken /\ StreamStep
    BY <1>10, <2>1, Zenon DEF StreamStep, Taken
  <2>3. ReaderInv'
    BY <1>1, <1>10, <1>11, <2>1, <2>2, Zenon DEF ReaderInv
  <2>4. Pending' = Pending
    BY <1>1, <1>7, <1>8, <1>10, <2>1, Zenon DEF Pending, Begun
  <2>5. WireInv'
    BY <1>1, <1>9, <1>10, <1>11, <2>1, <2>2, <2>4, Zenon DEF WireInv
  <2> QED
    BY <1>9, <2>2, <2>3, <2>5, Zenon
<1>13. CASE Len(body) = frame
  <2>1. HandsOver(body, budget, budgetBoundToBuffer_)
    BY <1>2, <1>13, Zenon DEF body
  <2> HIDE DEF h
  <2>2. PICK g \in Nat :
            /\ FrameAt(Pending, 0, Taken, g, sent, flushes)
            /\ g - Taken \in Nat /\ ntohl(h) = g - Taken
            /\ 4 + (g - Taken) <= Len(Pending) =>
                  Framed(Dropped(Pending, 4 + (g - Taken)), g, sent, flushes, Gone, wState = "open")
    <3>1. phase # "ended"
      BY <1>1, Zenon
    <3> QED
      BY <1>1, <1>5, <1>6, <1>7, <3>1, FirstFrame, Zenon
  <2>3. g - Taken = frame /\ g = Taken + frame
    <3>1. g - Taken = frame
      BY <1>5, <2>2, Zenon
    <3> QED
      BY <1>0, <1>1, <3>1
  <2>4. /\ Len(h \o body) = 4 + frame /\ Len(Pending) >= 4 + frame
        /\ Dropped(Pending, 4 + frame) = rest
    <3>1. Len(h \o body) = 4 + frame
      <4>1. Len(h \o body) = Len(h) + Len(body)
        BY <1>4, <1>5, JoinedBytes, Zenon
      <4> QED
        BY <1>5, <1>13, <4>1, Zenon
    <3>2. Len(h \o body) <= Len((h \o body) \o rest)
            /\ Dropped((h \o body) \o rest, Len(h \o body)) = rest
      BY <1>3, <1>6, DroppedFirst, Zenon
    <3>3. 4 + frame <= Len(Pending) /\ Dropped(Pending, 4 + frame) = rest
      BY <1>7, <3>1, <3>2, Zenon
    <3>4. Len(Pending) \in Nat
      BY StreamTypes
    <3> QED
      BY <1>1, <3>1, <3>3, <3>4
  <2>5. Framed(rest, g, sent, flushes, Gone, wState = "open")
    <3>1. 4 + (g - Taken) <= Len(Pending)
      <4>1. Len(Pending) \in Nat
        BY StreamTypes
      <4> QED
        BY <1>1, <2>3, <2>4, <4>1
    <3> QED
      BY <2>2, <2>3, <2>4, <3>1, Zenon
  <2>6. Taken = Len(received)
    <3>1. Len(rBuf) = 0
      BY <1>1
    <3> QED
      BY <1>0, <3>1 DEF Taken
  <2>7. /\ \A e \in flushes : e <= Taken \/ e >= g
        /\ g \in flushes /\ g <= Len(sent)
    <3>1. 0 + 4 + (g - Taken) <= Len(Pending)
      <4>1. Len(Pending) \in Nat
        BY StreamTypes
      <4> QED
        BY <1>1, <2>3, <2>4, <4>1
    <3> QED
      BY <2>2, <3>1, Zenon DEF FrameAt
  <2>8. Matches(body, Len(received), sent)
    <3>1. Taken + frame <= Len(sent)
      BY <2>3, <2>7, Zenon
    <3>2. ASSUME NEW j \in 1..frame PROVE body[j] = sent[Taken + j]
      <4>1. 0 + 4 + j = 4 + j /\ 4 + j <= Len(Pending) /\ j \in 1..(g - Taken)
              /\ 4 + j \in 1..(4 + frame)
        <5>1. Len(Pending) \in Nat
          BY StreamTypes
        <5> QED
          BY <1>1, <2>3, <2>4, <5>1
      <4>2. Pending[4 + j] = sent[Taken + j]
        BY <2>2, <4>1, Zenon DEF FrameAt
      <4>3. Pending[4 + j] = (h \o body)[4 + j]
        <5>1. \A i \in 1..Len(h \o body) : ((h \o body) \o rest)[i] = (h \o body)[i]
          BY <1>3, <1>6, JoinedBytes, Zenon
        <5> QED
          BY <1>7, <2>4, <4>1, <5>1, Zenon
      <4>4. (h \o body)[4 + j] = body[j]
        <5>1. \A i \in 1..Len(body) : (h \o body)[Len(h) + i] = body[i]
          BY <1>4, <1>5, JoinedBytes, Zenon
        <5> QED
          BY <1>5, <1>13, <5>1, Zenon
      <4> QED
        BY <4>2, <4>3, <4>4, Zenon
    <3> QED
      BY <1>13, <2>6, <3>1, <3>2, Zenon DEF Matches
  <2>9. NextToRead(body)
    <3>1. Len(received) + Len(body) = g
      BY <1>13, <2>3, <2>6, Zenon
    <3> QED
      BY <1>4, <2>6, <2>7, <2>8, <3>1, Zenon DEF NextToRead
  <2>10. Lesser(want, Len(body)) \in 0..Len(body)
    BY <1>1, <1>13 DEF Lesser
  <2>11. HandsOut(body, Lesser(want, Len(body))) /\ part' = <<>> /\ phase' \in {"idle", "fill", "ended"}
    BY <2>1, Zenon DEF HandsOver, HandsOut, Asks, Returns, Fails
  <2>12. /\ StreamStep /\ received' \in Seq(Nat)
         /\ Matches(received', 0, sent') /\ Matches(rBuf', Len(received'), sent')
         /\ Taken' = Len(received) + Len(body)
         /\ kind' = "framed" =>
               /\ \A f \in flushes' : f <= Len(received') \/ f >= Taken'
               /\ rBuf' # <<>> => Taken' \in flushes'
    BY <1>1, <2>9, <2>10, <2>11, HandedOut, Zenon
  <2>13. ReaderInv'
    BY <1>1, <1>10, <1>11, <2>11, <2>12, Zenon DEF ReaderInv
  <2>14. Taken' = g
    BY <1>13, <2>3, <2>6, <2>12, Zenon
  <2>15. WireInv'
    <3>1. Pending' = rest
      <4>1. Pending' = <<>> \o rest
        BY <1>8, <2>11, Zenon DEF Pending, Begun
      <4> QED
        BY <1>3, <4>1, NothingJoined, Zenon DEF rest
    <3>2. Framed(Pending', Taken', sent', flushes', Gone', wState' = "open")
      BY <1>9, <1>10, <2>5, <2>14, <3>1, Zenon
    <3> QED
      BY <1>1, <1>10, <3>2, Zenon DEF WireInv
  <2> QED
    BY <1>9, <2>7, <2>12, <2>13, <2>14, <2>15, Zenon
<1> QED
  BY <1>12, <1>13, Zenon

(* The steps that move no bytes. The buffer is given back only when it is  *)
(* empty: with the default threshold it never grows so large.              *)
LEMMA IdleStreams ==
    ASSUME WholeMessages, StreamInv, Peek \/ ReadEnd \/ Answer
    PROVE  WriterInv' /\ ReaderInv' /\ WireInv' /\ StreamStep /\ Taken' = Taken
<1>0. /\ phase = "idle" /\ phase' \in {"idle", "fill"}
      /\ UNCHANGED <<fixedVars, writerVars, wire, part, received>>
  BY Zenon DEF Peek, ReadEnd, Answer
<1>1. WriterInv' /\ Gone' = Gone
  BY <1>0, WriterKept, Zenon
<1>2. UNCHANGED <<kind, sent, flushes, wState>>
  BY <1>0, Zenon DEF fixedVars, writerVars
<1>3. StreamStep
  BY <1>0, <1>2, Zenon DEF StreamStep
<1>4. ReaderInv /\ WireInv /\ part = <<>>
  BY <1>0, Zenon DEF StreamInv, ReaderInv
<1>5. rBuf' = rBuf /\ (rBufSize_' = rBufSize_ \/ rBufSize_' = 0)
  <2>1. CASE Peek \/ Answer
    BY <2>1, Zenon DEF Peek, Answer
  <2>2. CASE ReadEnd /\ rBuf = <<>>
    BY <2>2, Zenon DEF ReadEnd
  <2>3. CASE ReadEnd /\ rBuf # <<>>
    <3>1. bufReclaimThresh_ = NoThreshold /\ MaxFrameSize <= NoThreshold
      BY <2>3, Zenon DEF ReadEnd, WholeMessages
    <3>2. ~(kind = "framed" /\ rBufSize_ > bufReclaimThresh_)
      <4> SUFFICES ASSUME kind = "framed" PROVE ~(rBufSize_ > bufReclaimThresh_)
        BY Zenon
      <4>1. rBufSize_ \in Nat /\ rBufSize_ <= MaxFrameSize
        BY <1>4, Zenon DEF ReaderInv
      <4>2. MaxFrameSize \in Nat /\ NoThreshold \in Nat
        BY TransportAssumption, Zenon
      <4> QED
        BY <3>1, <4>1, <4>2
    <3> QED
      BY <2>3, <3>2, Zenon DEF ReadEnd
  <2> QED
    BY <2>1, <2>2, <2>3, Zenon
<1>6. Taken' = Taken /\ Pending' = Pending
  BY <1>0, <1>5, Zenon DEF Taken, Pending, Begun
<1>7. ReaderInv'
  <2>1. 0 \in Nat /\ 0 <= MaxFrameSize
    BY TransportAssumption
  <2>2. kind = "framed" => rBufSize_' \in Nat /\ rBufSize_' <= MaxFrameSize
    BY <1>4, <1>5, <2>1, Zenon DEF ReaderInv
  <2> QED
    BY <1>0, <1>2, <1>4, <1>5, <1>6, <2>2, Zenon DEF ReaderInv
<1>8. WireInv'
  BY <1>0, <1>1, <1>2, <1>4, <1>6, Zenon DEF WireInv
<1> QED
  BY <1>1, <1>3, <1>6, <1>7, <1>8, Zenon

(* Every step keeps the invariant, and is one of the stream.               *)
LEMMA StreamNext ==
    ASSUME WholeMessages
    PROVE  StreamInv /\ [Next]_vars =>
              StreamInv' /\ [Stream!Next]_<<sent, flushes, received, kind = "framed">>
<1> SUFFICES ASSUME StreamInv, [Next]_vars
             PROVE  StreamInv' /\ [Stream!Next]_<<sent, flushes, received, kind = "framed">>
  BY Zenon
<1>0. BudgetInv'
  BY BudgetNext, Zenon DEF StreamInv
<1> SUFFICES WriterInv' /\ ReaderInv' /\ WireInv' /\ StreamStep
  BY <1>0, Zenon DEF StreamInv, StreamStep
<1>1. CASE \E n \in WriteLengths : Write(n) \/ WriteFails(n)
  <2>1. PICK n \in WriteLengths : Write(n) \/ WriteFails(n)
    BY <1>1, Zenon
  <2>2. n \in Nat \ {0}
    BY TransportAssumption, Zenon
  <2> QED
    BY <2>1, <2>2, WriteStreams, TornStreams, Zenon
<1>2. CASE Flush \/ Close
  <2>1. PICK after \in {"open", "closed"} :
            /\ flush(after)
            /\ wState = "open" \/ (wState = "failed" /\ after = "closed")
            /\ UNCHANGED <<fixedVars, sent, readerVars>>
    BY <1>2, Zenon DEF Flush, Close
  <2> QED
    BY <2>1, FlushStreams, Zenon
<1>3. CASE Faults
  BY <1>3, FaultsStream, Zenon
<1>4. CASE Reads
  <2>1. PICK n \in ReadLengths, call \in {"read", "readAll"} : Read(call, n)
    BY <1>4, Zenon DEF Reads
  <2>2. n \in Nat \ {0}
    BY TransportAssumption, Zenon
  <2> QED
    BY <2>1, <2>2, ReadStreams, Zenon
<1>5. CASE FillBuffer \/ ReadFrameSize \/ ReadFrame
  BY <1>5, FillStreams, FrameSizeStreams, FrameStreams, Zenon
<1>6. CASE EndOfFile
  <2>1. /\ UNCHANGED <<fixedVars, writerVars, rBuf, rBufSize_, received>>
        /\ part' = <<>> /\ phase' = "ended"
    BY <1>6, Zenon DEF EndOfFile, Fails
  <2> QED
    BY <2>1, Failed, Zenon
<1>7. CASE \E n \in ReadLengths : Consume(n)
  <2>1. PICK n \in ReadLengths : Consume(n)
    BY <1>7, Zenon
  <2>2. n \in Nat
    BY TransportAssumption, Zenon
  <2> QED
    BY <2>1, <2>2, ConsumeStreams, Zenon
<1>8. CASE Peek \/ ReadEnd \/ Answer
  BY <1>8, IdleStreams, Zenon
<1>9. CASE UNCHANGED vars
  <2>1. UNCHANGED <<fixedVars, writerVars, wire, readerVars>>
    BY <1>9, Zenon DEF vars
  <2>2. UNCHANGED <<kind, wState, wBuf, sent, flushes, received, rBuf, rBufSize_, frame, phase, part>>
    BY <2>1, Zenon DEF fixedVars, writerVars, readerVars
  <2>3. Taken' = Taken /\ Pending' = Pending /\ Gone' = Gone
    BY <2>1, <2>2, Zenon DEF Taken, Pending, Begun, Gone
  <2>4. WriterInv'
    BY <2>1, WriterKept, Zenon
  <2>5. ReaderInv' /\ WireInv'
    BY <2>1, <2>2, <2>3, Zenon DEF StreamInv, ReaderInv, WireInv
  <2> QED
    BY <2>2, <2>4, <2>5, Zenon DEF StreamStep
<1> QED
  BY <1>1, <1>2, <1>3, <1>4, <1>5, <1>6, <1>7, <1>8, <1>9, Zenon
    DEF Next, Writer, Reader, Fills

(* At the beginning nothing is under way.                                  *)
LEMMA StreamInit == Init => StreamInv
<1> SUFFICES ASSUME Init PROVE StreamInv
  BY Zenon
<1>0. /\ kind \in {"buffered", "framed"}
      /\ wire = <<>> /\ rBuf = <<>> /\ wBuf = <<>> /\ part = <<>> /\ sent = <<>>
      /\ received = <<>> /\ flushes = {} /\ rBufSize_ = 0 /\ phase = "idle" /\ wState = "open"
  BY TransportAssumption, Zenon DEF Init
<1>1. <<>> \in Seq(Nat) /\ Len(<<>>) = 0 /\ 1..0 = {} /\ 0 + 0 = 0 /\ 0 - 0 = 0
  OBVIOUS
<1>2. 0 <= MaxBytes /\ 0 <= MaxFrameSize /\ 0 <= 0 /\ 0 \in Nat
  BY TransportAssumption
<1>3. Taken = 0 /\ Gone = 0 /\ Pending = <<>>
  <2>1. Pending = <<>> \o <<>>
    BY <1>0, Zenon DEF Pending, Begun
  <2>2. Pending = <<>>
    BY <1>1, <2>1, NothingJoined, Zenon
  <2> QED
    BY <1>0, <1>1, <2>2, Zenon DEF Taken, Gone
<1>4. Matches(<<>>, 0, <<>>)
  BY <1>1, <1>2, Zenon DEF Matches
<1>5. WriterInv
  BY <1>0, <1>1, <1>2, <1>3, <1>4, Zenon DEF WriterInv
<1>6. ReaderInv
  BY <1>0, <1>1, <1>2, <1>3, <1>4, Zenon DEF ReaderInv
<1>7. Framed(<<>>, 0, <<>>, {}, 0, TRUE)
  <2> DEFINE q == [k \in 0..0 |-> 0]
  <2>1. q \in [0..0 -> Nat] /\ q[0] = 0 /\ 0 - 1 = -1 /\ 0..(0 - 1) = {}
    OBVIOUS
  <2> HIDE DEF q
  <2>2. Rising(q, 0)
    BY <2>1 DEF Rising
  <2>3. Start(q, 0) = 0
    BY <2>1 DEF Start
  <2>4. Layout(<<>>, q, 0, <<>>, {}, 0, TRUE)
    BY <1>1, <1>2, <2>1, <2>2, <2>3, Zenon DEF Layout
  <2> QED
    BY <1>2, <2>1, <2>4, Zenon DEF Framed
<1>8. WireInv
  <2>1. (wState = "open") = TRUE
    BY <1>0, Zenon
  <2>2. Framed(Pending, Taken, sent, flushes, Gone, wState = "open")
    BY <1>0, <1>3, <1>7, <2>1, Zenon
  <2> QED
    BY <1>0, <1>1, <1>3, <1>4, <2>2, Zenon DEF WireInv
<1> QED
  BY <1>5, <1>6, <1>8, BudgetInit, Zenon DEF StreamInv

(* However the buffers and the connection cut what is written, flushed and *)
(* read, the bytes come out in order, and those of a TFramedTransport      *)
(* message by message: ImplementsStream for buffers, frames and reads of   *)
(* every size. Frames of several messages that meet a threshold for giving *)
(* buffers back are excluded: there readEnd() drops what is unread.        *)
THEOREM TransportsImplementStream ==
    ASSUME WholeMessages
    PROVE  Spec => ImplementsStream
<1>1. Init => Stream!Init
  BY Zenon DEF Init, Stream!Init
<1>2. StreamInv /\ [Next]_vars =>
          StreamInv' /\ [Stream!Next]_<<sent, flushes, received, kind = "framed">>
  BY StreamNext, Zenon
<1> QED
  BY <1>1, <1>2, StreamInit, PTL DEF Spec, ImplementsStream, Stream!Spec, Stream!streamVars

-----------------------------------------------------------------------------
(* The transports fail for a reason. That a frame was too large is shown   *)
(* by the next place behind the reader where the writer flushed, and that  *)
(* the buffer of TFramedTransport::writeSlow becomes large enough, by      *)
(* induction: both rest on the order of the natural numbers.               *)

(* Natural numbers have a least one: the order is well-founded.            *)
LEMMA LeastElement ==
    ASSUME NEW T \in SUBSET Nat, T # {}
    PROVE  \E x \in T : \A y \in T : x <= y
<1> DEFINE R == OpToRel(<, Nat)
<1>1. IsWellFoundedOn(R, Nat)
  BY NatLessThanWellFounded
<1>2. \A x, y \in Nat : <<y, x>> \in R <=> y < x
  BY DEF OpToRel
<1> HIDE DEF R
<1>3. PICK x \in T : \A y \in T : ~(<<y, x>> \in R)
  BY <1>1, WFMin, Zenon
<1>4. ASSUME NEW y \in T PROVE x <= y
  <2>1. ~(y < x) /\ x \in Nat /\ y \in Nat
    BY <1>2, <1>3, Zenon
  <2> QED
    BY <2>1
<1> QED
  BY <1>4, Zenon

(* Induction, for a set of natural numbers.                                *)
LEMMA Induction ==
    ASSUME NEW S \in SUBSET Nat, 0 \in S, \A n \in S : n + 1 \in S
    PROVE  S = Nat
<1> DEFINE T == Nat \ S
<1> SUFFICES ASSUME T # {} PROVE FALSE
  BY Zenon
<1> T \in SUBSET Nat
  BY Zenon
<1>1. PICK x \in T : \A y \in T : x <= y
  BY LeastElement, Zenon
<1>2. x # 0 /\ x - 1 \in Nat /\ ~(x <= x - 1) /\ (x - 1) + 1 = x
  BY <1>1
<1>3. x - 1 \in S
  BY <1>1, <1>2, Zenon
<1>4. x \in S
  BY <1>2, <1>3, Zenon
<1> QED
  BY <1>4, Zenon

(* A function of which writeSlow is a use.                                 *)
Doubles(f, need) ==
    f = [n \in Nat |-> IF n >= need THEN n ELSE f[IF n > 0 THEN 2 * n ELSE 1]]

(* There is one: what it does at a size depends on larger sizes only, and  *)
(* from need on it does nothing.                                           *)
LEMMA DoublingExists ==
    ASSUME NEW need \in Nat
    PROVE  \E f : Doubles(f, need)
<1> DEFINE twice(n) == IF n > 0 THEN 2 * n ELSE 1
           From(f, k) == \A n \in Nat : n + k >= need =>
                              f[n] = (IF n >= need THEN n ELSE f[twice(n)])
           S == {k \in Nat : \E f \in [Nat -> Nat] : From(f, k)}
<1>0. \A n \in Nat : twice(n) \in Nat /\ twice(n) > n
  OBVIOUS
<1> HIDE DEF twice
<1>1. 0 \in S
  <2> DEFINE f == [n \in Nat |-> n]
  <2>1. f \in [Nat -> Nat] /\ \A n \in Nat : f[n] = n
    OBVIOUS
  <2> HIDE DEF f
  <2>2. From(f, 0)
    BY <2>1
  <2> QED
    BY <2>1, <2>2, Zenon
<1>2. ASSUME NEW k \in S PROVE k + 1 \in S
  <2>1. PICK f \in [Nat -> Nat] : From(f, k)
    BY Zenon
  <2>2. k \in Nat /\ k + 1 \in Nat
    OBVIOUS
  <2>3. CASE ~(k + 1 <= need)
    <3>1. From(f, k + 1)
      BY <2>1, <2>2, <2>3
    <3> QED
      BY <2>2, <3>1, Zenon
  <2>4. CASE k + 1 <= need
    <3> DEFINE x == need - (k + 1)
               g == [n \in Nat |-> IF n = x THEN f[twice(x)] ELSE f[n]]
    <3>1. x \in Nat /\ ~(x >= need)
      BY <2>2, <2>4
    <3>2. g[x] = f[twice(x)] /\ \A n \in Nat : n # x => g[n] = f[n]
      BY <3>1
    <3>3. twice(x) \in Nat /\ twice(x) > x
      BY <1>0, <3>1, Zenon
    <3>4. g \in [Nat -> Nat]
      BY <3>1, <3>3
    <3> HIDE DEF g
    <3>5. From(g, k + 1)
      <4> SUFFICES ASSUME NEW n \in Nat, n + (k + 1) >= need
                   PROVE  g[n] = (IF n >= need THEN n ELSE g[twice(n)])
        BY Zenon
      <4>1. CASE n = x
        <5>1. g[twice(x)] = f[twice(x)]
          BY <3>1, <3>2, <3>3
        <5> QED
          BY <3>1, <3>2, <4>1, <5>1, Zenon
      <4>2. CASE n # x
        <5>1. n + k >= need /\ twice(n) # x /\ twice(n) \in Nat
          <6>1. twice(n) \in Nat /\ twice(n) > n
            BY <1>0, Zenon
          <6> QED
            BY <2>2, <2>4, <4>2, <6>1
        <5> QED
          BY <2>1, <3>2, <4>2, <5>1, Zenon
      <4> QED
        BY <4>1, <4>2, Zenon
    <3> QED
      BY <2>2, <3>4, <3>5, Zenon
  <2> QED
    BY <2>3, <2>4, Zenon
<1>3. need \in S
  <2>1. S \in SUBSET Nat
    BY Zenon
  <2> HIDE DEF S
  <2> QED
    BY <1>1, <1>2, <2>1, Induction, Zenon
<1>4. PICK f \in [Nat -> Nat] : From(f, need)
  BY <1>3, Zenon
<1>5. \A n \in Nat : f[n] = (IF n >= need THEN n ELSE f[twice(n)])
  <2>1. \A n \in Nat : n + need >= need
    OBVIOUS
  <2> QED
    BY <1>4, <2>1, Zenon
<1>6. f = [n \in Nat |-> IF n >= need THEN n ELSE f[twice(n)]]
  BY <1>5, Zenon
<1> QED
  BY <1>6, Zenon DEF Doubles, twice

(* The loop of writeSlow ends with a buffer that is large enough.          *)
LEMMA DoubledFits ==
    ASSUME NEW size \in Nat, NEW need \in Nat
    PROVE  Doubled(size, need) \in Nat /\ Doubled(size, need) >= need
<1> DEFINE f == CHOOSE g : Doubles(g, need)
           twice(n) == IF n > 0 THEN 2 * n ELSE 1
           S == {k \in Nat : \A n \in Nat : n + k >= need => f[n] \in Nat /\ f[n] >= need}
<1>0. Doubled(size, need) = f[size]
  BY Zenon DEF Doubled, Doubles
<1>1. Doubles(f, need)
  BY DoublingExists, Zenon
<1> HIDE DEF f
<1>2. \A n \in Nat : f[n] = (IF n >= need THEN n ELSE f[twice(n)])
  BY <1>1, Zenon DEF Doubles
<1>3. \A n \in Nat : twice(n) \in Nat /\ twice(n) >= n + 1
  OBVIOUS
<1> HIDE DEF twice
<1>4. 0 \in S
  <2>1. \A n \in Nat : n + 0 = n
    OBVIOUS
  <2> QED
    BY <1>2, <2>1, Zenon
<1>5. ASSUME NEW k \in S PROVE k + 1 \in S
  <2>1. k \in Nat /\ k + 1 \in Nat /\ \A n \in Nat : n + k >= need => f[n] \in Nat /\ f[n] >= need
    OBVIOUS
  <2>2. ASSUME NEW n \in Nat, n + (k + 1) >= need PROVE f[n] \in Nat /\ f[n] >= need
    <3>1. CASE n >= need
      BY <1>2, <3>1, Zenon
    <3>2. CASE ~(n >= need)
      <4>1. twice(n) \in Nat /\ twice(n) >= n + 1
        BY <1>3, Zenon
      <4>2. twice(n) + k >= need
        BY <2>1, <2>2, <4>1
      <4> QED
        BY <1>2, <2>1, <3>2, <4>1, <4>2, Zenon
    <3> QED
      BY <3>1, <3>2, Zenon
  <2> QED
    BY <2>1, <2>2, Zenon
<1>6. need \in S
  <2>1. S \in SUBSET Nat
    BY Zenon
  <2> HIDE DEF S
  <2> QED
    BY <1>4, <1>5, <2>1, Induction, Zenon
<1>7. size + need >= need
  OBVIOUS
<1> QED
  BY <1>0, <1>6, <1>7, Zenon

(* What the failures rest on: the reader is between two frames, a          *)
(* TFramedTransport that has not read a frame has its whole budget, and    *)
(* whatever is in the write buffer made it larger than a size is.          *)
FailInv ==
    /\ \A f \in flushes : f <= Len(sent)
    /\ kind = "framed" =>
          /\ Taken \in flushes \cup {0}
          /\ ~budgetBoundToBuffer_ => rBuf = <<>> /\ budget = FullBudget
          /\ wBufSize_ \in Nat /\ (wBuf # <<>> => wBufSize_ > HeaderSize)
    /\ FailuresJustified

(* No call asks for more than a message may hold.                          *)
ReadsFit == \A n \in ReadLengths : n <= MaxMessageSize

(* A frame that was too large once stays so.                               *)
LEMMA OverStays ==
    ASSUME StreamInv, FailInv, StreamStep, sent' \in Seq(Nat), NEW n \in Nat
    PROVE  /\ SentFrameOver(n) => SentFrameOver(n)'
           /\ \A f \in flushes' : f <= Len(sent')
<1>0. flushes \in SUBSET Nat /\ Len(sent) \in Nat
  BY StreamTypes, Zenon
<1>1. \A f \in flushes : f <= Len(sent)
  BY Zenon DEF FailInv
<1>2. CASE sent' = sent /\ flushes' = flushes
  BY <1>1, <1>2, Zenon DEF SentFrameOver
<1>3. CASE sent' = sent /\ flushes' = flushes \cup {Len(sent)}
  <2>1. flushes' \cup {0, Len(sent')} = flushes \cup {0, Len(sent)}
    BY <1>3, Zenon
  <2>2. \A f \in flushes' : f <= Len(sent')
    BY <1>0, <1>1, <1>3
  <2> QED
    BY <2>1, <2>2, Zenon DEF SentFrameOver
<1>4. CASE Len(sent') > Len(sent) /\ flushes' = flushes /\ Len(sent') \in Nat
  <2> DEFINE ends == flushes \cup {0, Len(sent)}
             others == flushes \cup {0, Len(sent')}
  <2>1. \A f \in flushes' : f <= Len(sent')
    BY <1>0, <1>1, <1>4
  <2>2. ASSUME SentFrameOver(n) PROVE SentFrameOver(n)'
    <3>1. PICK f, g \in ends : g - f > n /\ \A e \in ends : e <= f \/ e >= g
      BY <2>2, Zenon DEF SentFrameOver
    <3>2. f \in Nat /\ g \in Nat /\ f < g /\ g <= Len(sent)
      BY <1>0, <1>1, <3>1
    <3>3. f \in others
      BY <3>2
    <3>4. CASE g \in others
      <4>1. \A e \in others : e <= f \/ e >= g
        BY <1>0, <1>4, <3>1, <3>2
      <4> QED
        BY <1>4, <3>1, <3>3, <3>4, <4>1, Zenon DEF SentFrameOver
    <3>5. CASE g \notin others
      <4>0. g = Len(sent) /\ g \notin flushes
        BY <3>1, <3>5, Zenon
      <4>1. Len(sent') - f > n
        BY <1>0, <1>4, <3>1, <3>2, <4>0
      <4>2. ASSUME NEW e \in others PROVE e <= f \/ e >= Len(sent')
        <5>1. CASE e \in flushes
          <6>1. e \in Nat /\ e <= Len(sent) /\ e # Len(sent) /\ (e <= f \/ e >= Len(sent))
            BY <1>0, <1>1, <3>1, <4>0, <5>1, Zenon
          <6> QED
            BY <1>0, <3>2, <6>1
        <5>2. CASE e = 0
          BY <3>2, <5>2
        <5>3. CASE e = Len(sent')
          BY <1>4, <5>3
        <5> QED
          BY <5>1, <5>2, <5>3, Zenon
      <4> QED
        BY <1>4, <3>3, <4>1, <4>2, Zenon DEF SentFrameOver
    <3> QED
      BY <3>1, <3>4, <3>5, Zenon
  <2> QED
    BY <2>1, <2>2, Zenon
<1>5. Len(sent') \in Nat
  OBVIOUS
<1> QED
  BY <1>2, <1>3, <1>4, <1>5, Zenon
    DEF StreamStep, Stream!Next, Stream!Send, Stream!Flush, Stream!Deliver

(* Where a frame of a size is found, the writer had sent that much at once.*)
LEMMA FrameWasSent ==
    ASSUME StreamInv, FailInv, kind = "framed", NEW g \in Nat, NEW n \in Nat,
           FrameAt(Pending, 0, Taken, g, sent, flushes), g - Taken > n
    PROVE  SentFrameOver(n)
<1> DEFINE ends == flushes \cup {0, Len(sent)}
           later == {e \in ends : e > Taken}
<1>0. flushes \in SUBSET Nat /\ Len(sent) \in Nat /\ Taken \in Nat
  BY StreamTypes, Zenon
<1>1. g <= Len(sent) /\ \A e \in flushes : e <= Taken \/ e >= g
  BY Zenon DEF FrameAt
<1>2. Taken \in ends
  BY Zenon DEF FailInv
<1>3. later \in SUBSET Nat
  <2>1. \A e \in ends : e \in Nat
    BY <1>0
  <2> QED
    BY <2>1, Zenon
<1>4. Len(sent) \in later
  BY <1>0, <1>1
<1>5. PICK h \in later : \A e \in later : h <= e
  <2>1. later # {}
    BY <1>4, Zenon
  <2> HIDE DEF later
  <2> QED
    BY <1>3, <2>1, LeastElement, Zenon
<1>6. h \in ends /\ h \in Nat /\ h > Taken
  BY <1>3, <1>5, Zenon
<1>7. h - Taken > n
  BY <1>0, <1>1, <1>6
<1>8. \A e \in ends : e <= Taken \/ e >= h
  <2> SUFFICES ASSUME NEW e \in ends, ~(e <= Taken) PROVE e >= h
    BY Zenon
  <2>1. e \in Nat
    BY <1>0
  <2>2. e > Taken
    BY <1>0, <2>1
  <2>3. h <= e
    BY <1>5, <2>2, Zenon
  <2> QED
    BY <1>6, <2>1, <2>3
<1> QED
  BY <1>2, <1>6, <1>7, <1>8, Zenon DEF SentFrameOver

(* Handing out what is in the buffer leaves the place in the stream.       *)
LEMMA TakenKept ==
    ASSUME StreamInv, NEW n \in 0..Len(rBuf), HandsOut(rBuf, n)
    PROVE  Taken' = Taken
<1>0. rBuf \in Seq(Nat) /\ received \in Seq(Nat) /\ Len(rBuf) \in Nat /\ Len(received) \in Nat
  BY StreamTypes, Zenon
<1>1. /\ SubSeq(rBuf, 1, n) \in Seq(Nat) /\ Len(SubSeq(rBuf, 1, n)) = n
      /\ Len(Dropped(rBuf, n)) = Len(rBuf) - n
  BY <1>0, CutBytes, Zenon
<1>2. Len(received \o SubSeq(rBuf, 1, n)) = Len(received) + Len(SubSeq(rBuf, 1, n))
  BY <1>0, <1>1, JoinedBytes, Zenon
<1>3. Taken' = (Len(received) + n) + (Len(rBuf) - n)
  BY <1>1, <1>2, Zenon DEF Taken, HandsOut
<1> QED
  BY <1>0, <1>3 DEF Taken

(* The budget of a message refuses a frame that is larger than itself.     *)
LEMMA RefusedForSize ==
    ASSUME NEW size \in Nat, ~FrameBudget(size).ok
    PROVE  size > MaxMessageSize
<1> SUFFICES ASSUME ~(size > MaxMessageSize) PROVE FALSE
  BY Zenon
<1> DEFINE b == [known |-> size, remaining |-> size]
<1>1. FullBudget.known = MaxMessageSize /\ FullBudget.known - FullBudget.remaining = 0
  BY MessageSizeAssumption DEF FullBudget
<1>2. FrameBudget(size) = countConsumedMessageBytes(b, 0)
  BY <1>1, Zenon DEF FrameBudget, updateKnownMessageSize
<1>3. b \in Budget /\ b.remaining >= 0
  BY DEF Budget
<1>4. countConsumedMessageBytes(b, 0).ok = (b.remaining >= 0)
  <2> HIDE DEF b
  <2>1. 0 \in Nat
    OBVIOUS
  <2> QED
    BY <1>3, <2>1, CountedBytes, Zenon
<1> QED
  BY <1>2, <1>3, <1>4, Zenon

(* The exception of a step, if it throws one, has its reason.              *)
Justified ==
    \/ error' = error
    \/ error' = "none"
    \/ error' = "budget" /\ (kind = "framed" => SentFrameOver(MaxMessageSize))
    \/ error' = "oversized" /\ SentFrameOver(MaxFrameSize)
    \/ error' = "eof" /\ wState \in {"closed", "reset"} /\ wire = <<>>

(* read() and readAll() of a TFramedTransport are not refused, and what    *)
(* they take was in the buffer.                                            *)
LEMMA ReadJustified ==
    ASSUME StreamInv, FailInv, NEW n \in Nat \ {0}, n <= MaxMessageSize, NEW call, Read(call, n)
    PROVE  /\ Justified
           /\ kind = "framed" =>
                 Taken' = Taken /\ (~budgetBoundToBuffer_ => rBuf' = <<>>)
<1>0. /\ rBuf \in Seq(Nat) /\ received \in Seq(Nat) /\ Have \in Nat /\ budget \in Budget
      /\ Len(received) \in Nat /\ budget.remaining \in Nat /\ (rBuf = <<>> => Have = 0)
  <2>1. rBuf \in Seq(Nat) /\ received \in Seq(Nat) /\ budget \in Budget
    BY Zenon DEF StreamInv, BudgetInv, ReaderInv
  <2> QED
    BY <2>1 DEF Have, Budget
<1>1. \/ Fails("budget") /\ UNCHANGED <<rBuf, received>>
      \/ /\ HandsOut(rBuf, Lesser(n, Have))
         /\ Returns \/ Asks(call, n - Have, budget, budgetBoundToBuffer_)
  BY Zenon DEF Read, HandsOut
<1>2. error' \in {error, "budget"}
  BY <1>1, Zenon DEF Fails, Returns, Asks
<1> SUFFICES ASSUME kind = "framed"
             PROVE  error' = error /\ Taken' = Taken /\ (~budgetBoundToBuffer_ => rBuf' = <<>>)
  BY <1>2, Zenon DEF Justified
<1>3. ~budgetBoundToBuffer_ => rBuf = <<>> /\ budget.remaining = MaxMessageSize
  <2>1. FullBudget.remaining = MaxMessageSize
    BY DEF FullBudget
  <2> QED
    BY <2>1, Zenon DEF FailInv
<1>4. budgetBoundToBuffer_ => rBuf = <<>> \/ Have <= budget.remaining
  BY Zenon DEF StreamInv, BudgetInv, Have
<1>5. checkReadBytesAvailable(budget, Checked(n))
  <2>1. CASE budgetBoundToBuffer_
    BY <1>0, <1>4, <2>1 DEF checkReadBytesAvailable, Checked, bufferedReadLength, Lesser
  <2>2. CASE ~budgetBoundToBuffer_
    BY <1>0, <1>3, <2>2 DEF checkReadBytesAvailable, Checked
  <2> QED
    BY <2>1, <2>2, Zenon
<1>6. budgetBoundToBuffer_ \/ checkReadBytesAvailable(budget, n - Have)
  BY <1>0, <1>3 DEF checkReadBytesAvailable
<1>7. /\ HandsOut(rBuf, Lesser(n, Have))
      /\ Returns \/ Asks(call, n - Have, budget, budgetBoundToBuffer_)
  BY <1>5, Zenon DEF Read, HandsOut
<1>8. error' = error
  BY <1>6, <1>7, Zenon DEF Returns, Asks
<1>9. Lesser(n, Have) \in 0..Len(rBuf)
  BY <1>0 DEF Lesser, Have
<1>10. Taken' = Taken
  BY <1>7, <1>9, TakenKept, Zenon
<1>11. ~budgetBoundToBuffer_ => rBuf' = <<>>
  <2> SUFFICES ASSUME rBuf = <<>> PROVE rBuf' = <<>>
    BY <1>3, Zenon
  <2>1. Lesser(n, Have) = 0
    BY <1>0 DEF Lesser
  <2>2. rBuf' = Dropped(<<>>, 0)
    BY <1>7, <2>1, Zenon DEF HandsOut
  <2> QED
    BY <2>2 DEF Dropped
<1> QED
  BY <1>8, <1>10, <1>11, Zenon

(* The same for consume() of what is in the buffer.                        *)
LEMMA ConsumeJustified ==
    ASSUME StreamInv, FailInv, NEW n \in Nat \ {0}, Consume(n)
    PROVE  /\ Justified
           /\ kind = "framed" =>
                 Taken' = Taken /\ budgetBoundToBuffer_' /\ budgetBoundToBuffer_
<1> DEFINE c == countConsumedMessageBytes(budget, n)
<1>0. /\ rBuf \in Seq(Nat) /\ received \in Seq(Nat) /\ Have \in Nat /\ budget \in Budget
      /\ Len(received) \in Nat /\ budget.remaining \in Nat /\ (rBuf = <<>> => Have = 0)
  <2>1. rBuf \in Seq(Nat) /\ received \in Seq(Nat) /\ budget \in Budget
    BY Zenon DEF StreamInv, BudgetInv, ReaderInv
  <2> QED
    BY <2>1 DEF Have, Budget
<1>1. /\ n <= Have /\ UNCHANGED budgetBoundToBuffer_
      /\ IF c.ok THEN HandsOut(rBuf, n) /\ Returns
         ELSE Fails("budget") /\ UNCHANGED <<rBuf, received>>
  BY Zenon DEF Consume, HandsOut
<1>2. error' \in {error, "budget"}
  <2> HIDE DEF c
  <2> QED
    BY <1>1, Zenon DEF Fails, Returns
<1> SUFFICES ASSUME kind = "framed"
             PROVE  error' = error /\ Taken' = Taken /\ budgetBoundToBuffer_
  BY <1>1, <1>2, Zenon DEF Justified
<1>3. rBuf # <<>>
  BY <1>0, <1>1
<1>4. budgetBoundToBuffer_ /\ Have <= budget.remaining
  BY <1>3, Zenon DEF FailInv, StreamInv, BudgetInv, Have
<1>5. c.ok
  <2>1. n \in Nat /\ c.ok = (budget.remaining >= n)
    BY <1>0, CountedBytes, Zenon
  <2>2. n <= Have
    BY <1>1, Zenon
  <2> HIDE DEF c
  <2>3. budget.remaining >= n
    BY <1>0, <1>4, <2>2
  <2> QED
    BY <2>1, <2>3, Zenon
<1>6. HandsOut(rBuf, n) /\ error' = error
  BY <1>1, <1>5, Zenon DEF Returns
<1>7. n \in 0..Len(rBuf)
  BY <1>0, <1>1 DEF Have
<1> QED
  BY <1>4, <1>6, <1>7, TakenKept, Zenon

(* A frame is refused for its size only.                                   *)
LEMMA SizeJustified ==
    ASSUME WholeMessages, StreamInv, FailInv, ReadFrameSize
    PROVE  /\ Justified /\ Taken' = Taken
           /\ ~budgetBoundToBuffer_' => ~budgetBoundToBuffer_ /\ UNCHANGED <<rBuf, budget>>
<1>0. /\ wire \in Seq(Nat) /\ part \in Seq(Nat) /\ Len(part) \in Nat /\ Taken \in Nat
  BY StreamTypes
<1>1. phase = "fill" /\ kind = "framed" /\ UNCHANGED <<rBuf, received>>
  BY Zenon DEF ReadFrameSize
<1>2. PICK bytes \in Arriving(HeaderSize - Len(part)) :
          IF Len(part \o bytes) = HeaderSize
          THEN FrameBegins(ntohl(part \o bytes))
          ELSE UNCHANGED <<budget, budgetBoundToBuffer_, error>>
  BY Zenon DEF ReadFrameSize
<1> DEFINE h == part \o bytes
           rest == Dropped(wire, Len(bytes))
<1>3. /\ Len(bytes) \in 0..Len(wire) /\ bytes \in Seq(Nat) /\ rest \in Seq(Nat)
      /\ bytes = SubSeq(wire, 1, Len(bytes))
  <2>1. HeaderSize - Len(part) \in Int
    BY <1>0 DEF HeaderSize
  <2> QED
    BY <1>0, <1>2, <2>1, Arrived, Zenon
<1>4. h \in Seq(Nat)
  BY <1>0, <1>3, JoinedBytes, Zenon
<1>5. Pending = h \o rest
  <2>1. (part \o SubSeq(wire, 1, Len(bytes))) \o Dropped(wire, Len(bytes)) = part \o wire
    BY <1>0, <1>3, MovedBytes, Zenon
  <2> QED
    BY <1>1, <1>3, <2>1, Zenon DEF Pending, Begun
<1>6. Taken' = Taken
  BY <1>1, Zenon DEF Taken
<1> HIDE DEF h, rest
<1>7. CASE Len(h) # HeaderSize
  BY <1>1, <1>2, <1>6, <1>7, Zenon DEF Justified, h
<1>8. CASE Len(h) = HeaderSize
  <2>1. FrameBegins(ntohl(h))
    BY <1>2, <1>8, Zenon DEF h
  <2>2. PICK g \in Nat :
            /\ FrameAt(Pending, 0, Taken, g, sent, flushes)
            /\ g - Taken \in Nat /\ ntohl(h) = g - Taken
    <3>1. Len(h) = 4 /\ phase # "ended"
      BY <1>1, <1>8, Zenon DEF HeaderSize
    <3> QED
      BY <1>1, <1>3, <1>4, <1>5, <3>1, FirstFrame, Zenon
  <2> DEFINE size == g - Taken
  <2>3. FrameBegins(size)
    BY <2>1, <2>2, Zenon
  <2>4. \A n \in Nat : size > n => SentFrameOver(n)
    BY <1>1, <2>2, FrameWasSent, Zenon
  <2> HIDE DEF size
  <2>5. MaxFrameSize \in Nat /\ MaxMessageSize \in Nat
    BY TransportAssumption, MessageSizeAssumption
  <2>6. CASE size > MaxFrameSize
    <3>1. error' = "oversized" /\ UNCHANGED <<budget, budgetBoundToBuffer_>>
      BY <2>3, <2>6, Zenon DEF FrameBegins, Fails
    <3> QED
      BY <1>1, <1>6, <2>4, <2>5, <2>6, <3>1, Zenon DEF Justified
  <2>7. CASE ~(size > MaxFrameSize)
    <3>1. budgetBoundToBuffer_' = TRUE
      BY <2>3, <2>7, Zenon DEF FrameBegins
    <3>2. CASE FrameBudget(size).ok
      BY <1>6, <2>3, <2>7, <3>1, <3>2, Zenon DEF FrameBegins, Justified
    <3>3. CASE ~FrameBudget(size).ok
      <4>1. error' = "budget"
        BY <2>3, <2>7, <3>3, Zenon DEF FrameBegins, Fails
      <4>2. size \in Nat
        BY <2>2, Zenon DEF size
      <4>3. size > MaxMessageSize
        BY <3>3, <4>2, RefusedForSize, Zenon
      <4> QED
        BY <1>6, <2>4, <2>5, <3>1, <4>1, <4>3, Zenon DEF Justified
    <3> QED
      BY <3>2, <3>3, Zenon
  <2> QED
    BY <2>6, <2>7, Zenon
<1> QED
  BY <1>7, <1>8, Zenon

(* The bytes of a frame that was accepted are not refused.                 *)
LEMMA FrameJustified ==
    ASSUME WholeMessages, StreamInv, ReadFrame
    PROVE  Justified /\ budgetBoundToBuffer_' /\ Taken' \in flushes \cup {Taken}
<1>1. phase = "payload" /\ budgetBoundToBuffer_ /\ UNCHANGED budgetBoundToBuffer_
  BY Zenon DEF ReadFrame, StreamInv, BudgetInv
<1>2. \/ error' = error
      \/ \E bytes \in Arriving(frame - Len(part)) :
            HandsOver(part \o bytes, budget, budgetBoundToBuffer_)
  BY Zenon DEF ReadFrame
<1>3. error' = error
  BY <1>1, <1>2, Zenon DEF HandsOver, Asks, Returns
<1> QED
  BY <1>1, <1>3, FrameStreams, Zenon DEF Justified

(* Once the connection is closed and empty, it stays so.                   *)
LEMMA EndStays ==
    ASSUME StreamInv, Next, wState \in {"closed", "reset"}, wire = <<>>
    PROVE  wState' = wState /\ wire' = <<>>
<1>0. wire \in Seq(Nat) /\ part \in Seq(Nat) /\ frame \in Int
  BY Zenon DEF StreamInv, BudgetInv
<1>1. ~Writer /\ ~Faults
  BY Zenon DEF Writer, Faults, Write, WriteFails, Flush, Close, FlushFails, Reset
<1>2. wState' = wState
  BY <1>1, Zenon DEF Next, Reader, Reads, Fills, Read, FillBuffer, ReadFrameSize, ReadFrame,
    EndOfFile, Peek, Consume, ReadEnd, Answer, writerVars
<1>3. ASSUME NEW m \in Int, NEW bytes \in Arriving(m) PROVE Dropped(wire, Len(bytes)) = <<>>
  <2>1. Len(bytes) \in 0..Len(wire) /\ Len(wire) = 0
    BY <1>0, <1>3, Arrived
  <2>2. Len(bytes) = 0
    BY <2>1
  <2> QED
    BY <2>2 DEF Dropped
<1>4. RBufSize \in Int /\ HeaderSize - Len(part) \in Int /\ frame - Len(part) \in Int
  BY <1>0, TransportAssumption DEF HeaderSize
<1>5. FillBuffer \/ ReadFrameSize \/ ReadFrame => wire' = <<>>
  <2> SUFFICES ASSUME FillBuffer \/ ReadFrameSize \/ ReadFrame PROVE wire' = <<>>
    BY Zenon
  <2>1. \E m \in {RBufSize, HeaderSize - Len(part), frame - Len(part)} :
        \E bytes \in Arriving(m) : wire' = Dropped(wire, Len(bytes))
    BY Zenon DEF FillBuffer, ReadFrameSize, ReadFrame
  <2>2. PICK m \in Int : \E bytes \in Arriving(m) : wire' = Dropped(wire, Len(bytes))
    BY <1>4, <2>1, Zenon
  <2> QED
    BY <1>3, <2>2, Zenon
<1> QED
  BY <1>1, <1>2, <1>5, Zenon DEF Next, Reader, Reads, Fills, Read, EndOfFile, Peek, Consume,
    ReadEnd, Answer

(* A TFramedTransport that has not read a frame has its whole budget.      *)
Unbound == kind = "framed" /\ ~budgetBoundToBuffer_ => rBuf = <<>> /\ budget = FullBudget

(* The reader goes from frame to frame.                                    *)
Places == kind = "framed" => Taken' \in flushes' \cup {Taken}

(* Every step has its reasons, and the reader stays between two frames.    *)
LEMMA StepJustified ==
    ASSUME WholeMessages, ReadsFit, StreamInv, FailInv, Next, StreamInv'
    PROVE  kind' = kind /\ Justified /\ Places /\ Unbound'
<1>0. kind' = kind /\ Unbound
  BY Zenon DEF FailInv, Unbound, Next, Writer, Faults, Reader, Reads, Fills, Write, WriteFails,
    Flush, Close, FlushFails, Reset, Read, FillBuffer, ReadFrameSize, ReadFrame, EndOfFile, Peek, Consume,
    ReadEnd, Answer, fixedVars
<1>1. CASE Writer \/ Faults
  <2>1. UNCHANGED readerVars
    BY <1>1, Zenon DEF Writer, Faults, Write, WriteFails, Flush, Close, FlushFails, Reset
  <2> QED
    BY <1>0, <2>1, Zenon DEF readerVars, Justified, Places, Taken, Unbound
<1>2. CASE Reads
  <2>1. PICK n \in ReadLengths, call \in {"read", "readAll"} : Read(call, n)
    BY <1>2, Zenon DEF Reads
  <2>2. n \in Nat \ {0} /\ n <= MaxMessageSize
    BY TransportAssumption, Zenon DEF ReadsFit
  <2>3. /\ Justified
        /\ kind = "framed" => Taken' = Taken /\ (~budgetBoundToBuffer_ => rBuf' = <<>>)
    BY <2>1, <2>2, ReadJustified, Zenon
  <2>4. UNCHANGED <<budget, budgetBoundToBuffer_>>
    BY <2>1, Zenon DEF Read
  <2> QED
    BY <1>0, <2>3, <2>4, Zenon DEF Places, Unbound
<1>3. CASE \E n \in ReadLengths : Consume(n)
  <2>1. PICK n \in ReadLengths : Consume(n)
    BY <1>3, Zenon
  <2>2. n \in Nat \ {0}
    BY TransportAssumption, Zenon
  <2>3. /\ Justified
        /\ kind = "framed" => Taken' = Taken /\ budgetBoundToBuffer_'
    BY <2>1, <2>2, ConsumeJustified, Zenon
  <2> QED
    BY <1>0, <2>3, Zenon DEF Places, Unbound
<1>4. CASE FillBuffer
  <2>1. kind = "buffered"
    BY <1>4, Zenon DEF FillBuffer
  <2>2. error' \in {error, "budget"}
    BY <1>4, Zenon DEF FillBuffer, HandsOver, Asks, Returns, Fails
  <2> QED
    BY <1>0, <2>1, <2>2, Zenon DEF Justified, Places, Unbound
<1>5. CASE ReadFrameSize
  BY <1>0, <1>5, SizeJustified, Zenon DEF Places, Unbound
<1>6. CASE ReadFrame
  <2>1. flushes' = flushes
    BY <1>6, Zenon DEF ReadFrame, writerVars
  <2> QED
    BY <1>0, <1>6, <2>1, FrameJustified, Zenon DEF Places, Unbound
<1>7. CASE EndOfFile
  BY <1>0, <1>7, Zenon DEF EndOfFile, Fails, Justified, Places, Unbound, Taken
<1>8. CASE Peek \/ ReadEnd \/ Answer
  <2>1. UNCHANGED <<error, budgetBoundToBuffer_, received>> /\ rBuf' \in {rBuf, <<>>}
    BY <1>8, Zenon DEF Peek, ReadEnd, Answer
  <2>2. kind = "framed" /\ ~budgetBoundToBuffer_ => budget' = FullBudget
    BY <1>0, <1>8, Zenon DEF Peek, ReadEnd, Answer, resetReadBudget, Unbound
  <2>3. Taken' = Taken
    BY <1>8, IdleStreams, Zenon
  <2> QED
    BY <1>0, <2>1, <2>2, <2>3, Zenon DEF Justified, Places, Unbound
<1> QED
  BY <1>0, <1>1, <1>2, <1>3, <1>4, <1>5, <1>6, <1>7, <1>8, Zenon DEF Next, Reader, Fills

(* The write buffer of a TFramedTransport has room for the size of a frame *)
(* as soon as it holds anything.                                           *)
LEMMA BufferHasRoom ==
    ASSUME StreamInv, FailInv, kind = "framed", Next
    PROVE  wBufSize_' \in Nat /\ (wBuf' # <<>> => wBufSize_' > HeaderSize)
<1>0. wBufSize_ \in Nat /\ (wBuf # <<>> => wBufSize_ > HeaderSize) /\ Len(wBuf) \in Nat
  <2>1. wBufSize_ \in Nat /\ (wBuf # <<>> => wBufSize_ > HeaderSize)
    BY Zenon DEF FailInv
  <2> QED
    BY <2>1, StreamTypes, Zenon
<1>1. CASE UNCHANGED <<wBuf, wBufSize_>>
  BY <1>0, <1>1, Zenon
<1>2. ASSUME NEW n \in WriteLengths, Write(n)
      PROVE  wBufSize_' \in Nat /\ wBufSize_' > HeaderSize
  <2> DEFINE need == HeaderSize + Len(wBuf) + n
  <2>1. n \in Nat \ {0}
    BY TransportAssumption, Zenon
  <2>2. need \in Nat /\ need > HeaderSize
    BY <1>0, <2>1 DEF HeaderSize
  <2>3. wBufSize_' = IF need <= wBufSize_ THEN wBufSize_ ELSE Doubled(wBufSize_, need)
    BY <1>2, Zenon DEF Write
  <2> HIDE DEF need
  <2>4. Doubled(wBufSize_, need) \in Nat /\ Doubled(wBufSize_, need) >= need
    BY <1>0, <2>2, DoubledFits, Zenon
  <2>5. wBufSize_' \in Nat /\ wBufSize_' >= need
    BY <1>0, <2>2, <2>3, <2>4
  <2> QED
    BY <2>2, <2>5 DEF HeaderSize
<1>3. CASE wBuf' = <<>> /\ wBufSize_' \in {wBufSize_, Reclaimed}
  BY <1>0, <1>3, TransportAssumption, Zenon DEF Reclaimed
<1>4. CASE Writer \/ Faults
  BY <1>1, <1>2, <1>3, <1>4, Zenon DEF Writer, Faults, WriteFails, Flush, Close, flush,
    FlushFails, Reset
<1>5. CASE Reader
  BY <1>1, <1>5, Zenon DEF Reader, Reads, Fills, Read, FillBuffer, ReadFrameSize, ReadFrame,
    EndOfFile, Peek, Consume, ReadEnd, Answer, writerVars
<1> QED
  BY <1>4, <1>5, Zenon DEF Next

(* Every step keeps the reasons.                                           *)
LEMMA FailNext ==
    ASSUME WholeMessages, ReadsFit
    PROVE  StreamInv /\ FailInv /\ [Next]_vars => FailInv'
<1> SUFFICES ASSUME StreamInv, FailInv, [Next]_vars PROVE FailInv'
  BY Zenon
<1>0. StreamInv' /\ StreamStep
  BY StreamNext, Zenon DEF StreamStep
<1>1. CASE UNCHANGED vars
  <2>1. UNCHANGED <<kind, flushes, sent, received, rBuf, budgetBoundToBuffer_, budget, wBufSize_,
                    wBuf, error, wState, wire>>
    BY <1>1, Zenon DEF vars, fixedVars, writerVars, readerVars
  <2>2. Taken' = Taken /\ (FailuresJustified => FailuresJustified')
    BY <2>1, Zenon DEF Taken, FailuresJustified, SentFrameOver
  <2> QED
    BY <2>1, <2>2, Zenon DEF FailInv
<1>2. CASE Next
  <2>1. kind' = kind /\ Justified /\ Places /\ Unbound'
    BY <1>0, <1>2, StepJustified, Zenon
  <2>2. MaxMessageSize \in Nat /\ MaxFrameSize \in Nat
    BY MessageSizeAssumption, TransportAssumption
  <2>3. /\ \A f \in flushes' : f <= Len(sent')
        /\ SentFrameOver(MaxMessageSize) => SentFrameOver(MaxMessageSize)'
        /\ SentFrameOver(MaxFrameSize) => SentFrameOver(MaxFrameSize)'
    <3>1. sent' \in Seq(Nat)
      BY <1>0, Zenon DEF StreamInv, BudgetInv
    <3> QED
      BY <1>0, <2>2, <3>1, OverStays, Zenon
  <2>4. flushes \subseteq flushes'
    BY <1>0, Zenon DEF StreamStep, Stream!Next, Stream!Send, Stream!Flush, Stream!Deliver
  <2>5. kind = "framed" => wBufSize_' \in Nat /\ (wBuf' # <<>> => wBufSize_' > HeaderSize)
    BY <1>2, BufferHasRoom, Zenon
  <2>6. kind' = "framed" => Taken' \in flushes' \cup {0}
    BY <2>1, <2>4, Zenon DEF FailInv, Places
  <2>7. error' = "eof" => wState' \in {"closed", "reset"} /\ wire' = <<>>
    <3>1. CASE wState \in {"closed", "reset"} /\ wire = <<>>
      BY <1>2, <3>1, EndStays, Zenon
    <3>2. CASE ~(wState \in {"closed", "reset"} /\ wire = <<>>)
      BY <2>1, <3>2, Zenon DEF Justified, FailInv, FailuresJustified
    <3> QED
      BY <3>1, <3>2, Zenon
  <2>8. wState' = "failed" => wBuf' = <<>>
    <3> SUFFICES ASSUME wState' = "failed", wBuf' # <<>> PROVE FALSE
      BY Zenon
    <3>1. kind' = "framed" /\ wBufSize_' <= HeaderSize
      BY <1>0, Zenon DEF StreamInv, WriterInv, TooSmall
    <3>2. wBufSize_' \in Nat /\ wBufSize_' > HeaderSize
      BY <2>1, <2>5, <3>1, Zenon
    <3> QED
      BY <3>1, <3>2 DEF HeaderSize
  <2>9. /\ kind' = "framed" /\ error' = "budget" => SentFrameOver(MaxMessageSize)'
        /\ error' = "oversized" => SentFrameOver(MaxFrameSize)'
    BY <2>1, <2>3, Zenon DEF Justified, FailInv, FailuresJustified
  <2>10. FailuresJustified'
    BY <2>7, <2>8, <2>9, Zenon DEF FailuresJustified
  <2> QED
    BY <2>1, <2>3, <2>5, <2>6, <2>10, Zenon DEF FailInv, Unbound
<1> QED
  BY <1>1, <1>2, Zenon

(* At the beginning nothing has failed.                                    *)
LEMMA FailInit == Init => FailInv
<1> SUFFICES ASSUME Init PROVE FailInv
  BY Zenon
<1>1. /\ flushes = {} /\ sent = <<>> /\ received = <<>> /\ rBuf = <<>> /\ wBuf = <<>>
      /\ budget = FullBudget /\ error = "none" /\ wState = "open"
      /\ kind = "framed" => wBufSize_ = Doubled(WBufSize, HeaderSize)
  BY Zenon DEF Init
<1>2. WBufSize \in Nat /\ HeaderSize \in Nat
  BY TransportAssumption DEF HeaderSize
<1>3. Doubled(WBufSize, HeaderSize) \in Nat
  BY <1>2, DoubledFits, Zenon
<1>4. Taken = 0
  <2>1. Len(<<>>) = 0 /\ 0 + 0 = 0
    OBVIOUS
  <2> QED
    BY <1>1, <2>1, Zenon DEF Taken
<1>5. FailuresJustified
  BY <1>1, Zenon DEF FailuresJustified
<1> QED
  BY <1>1, <1>3, <1>4, <1>5, Zenon DEF FailInv

(* FailuresJustified for buffers, frames, thresholds and budgets of every  *)
(* size: internal errors do not happen, a TFramedTransport refuses a frame *)
(* only for its size, and no message ends early but with the connection.   *)
THEOREM TransportFailuresJustified ==
    ASSUME WholeMessages, ReadsFit
    PROVE  Spec => []FailuresJustified
<1>1. StreamInv /\ [Next]_vars => StreamInv'
  BY StreamNext, Zenon
<1>2. StreamInv /\ FailInv /\ [Next]_vars => FailInv'
  BY FailNext, Zenon
<1>3. FailInv => FailuresJustified
  BY Zenon DEF FailInv
<1> QED
  BY <1>1, <1>2, <1>3, StreamInit, FailInit, PTL DEF Spec

-----------------------------------------------------------------------------
(* The conversions of TCompactProtocol are inverse to each other.          *)

(* zigzagToI32(i32ToZigzag(n)) = n, and the same for 64 bits: the integers *)
(* from -half to half - 1 become the naturals below 2 * half, that is,     *)
(* they need no more bits than they had.                                   *)
THEOREM ZigzagInverse ==
    ASSUME NEW half \in Nat, NEW n \in (-half)..(half - 1)
    PROVE  /\ toZigzag(n) \in 0..(2 * half - 1)
           /\ fromZigzag(toZigzag(n)) = n
  <1>1. n \in Int /\ -half <= n /\ n <= half - 1
    OBVIOUS
  <1>2. CASE n < 0
    <2>1. toZigzag(n) = -2 * n - 1
      BY <1>2, Zenon DEF toZigzag
    <2>2. toZigzag(n) = 2 * (-n - 1) + 1 /\ -n - 1 \in Nat
      BY <1>1, <1>2, <2>1
    <2>3. toZigzag(n) % 2 = 1 /\ toZigzag(n) \div 2 = -n - 1
      BY <2>2
    <2>4. fromZigzag(toZigzag(n)) = n
      BY <1>1, <2>3 DEF fromZigzag
    <2> QED
      BY <1>1, <1>2, <2>1, <2>4
  <1>3. CASE ~(n < 0)
    <2>1. toZigzag(n) = 2 * n /\ n \in Nat
      BY <1>1, <1>3 DEF toZigzag
    <2>2. toZigzag(n) % 2 = 0 /\ toZigzag(n) \div 2 = n
      BY <2>1
    <2> QED
      BY <1>1, <2>1, <2>2 DEF fromZigzag
  <1> QED
    BY <1>2, <1>3, Zenon

(* The reader gets the field id back from the header, whatever the ids:    *)
(* if it is sent as a distance, the distance fits the half of a byte and   *)
(* is not mistaken for an id that follows, and the type is left alone.     *)
THEOREM FieldHeaderInverse ==
    ASSUME NEW last \in Int, NEW id \in Int, NEW cType \in 0..15
    PROVE  LET header == Packed(DeltaOf(last, id), cType)
           IN  /\ header \in 0..255
               /\ LowHalf(header) = cType
               /\ IdFrom(last, HighHalf(header), id) = id
               /\ HighHalf(header) = 0 <=> ~UsesDelta(last, id)
  <1> DEFINE delta == DeltaOf(last, id)
             header == Packed(delta, cType)
  <1>1. /\ delta \in 0..15 /\ (delta = 0 <=> ~UsesDelta(last, id))
        /\ UsesDelta(last, id) => last + delta = id
    BY DEF DeltaOf, UsesDelta
  <1> HIDE DEF delta
  <1>2. header = 16 * delta + cType
    BY Zenon DEF Packed
  <1>3. header \in 0..255 /\ header \div 16 = delta /\ header % 16 = cType
    BY <1>1, <1>2
  <1> HIDE DEF header
  <1>4. HighHalf(header) = delta /\ LowHalf(header) = cType
    BY <1>3, Zenon DEF HighHalf, LowHalf
  <1>5. IdFrom(last, delta, id) = id
    BY <1>1, Zenon DEF IdFrom
  <1>6. /\ header \in 0..255 /\ LowHalf(header) = cType
        /\ IdFrom(last, HighHalf(header), id) = id
        /\ HighHalf(header) = 0 <=> ~UsesDelta(last, id)
    BY <1>1, <1>3, <1>4, <1>5, Zenon
  <1> QED
    BY <1>6, Zenon DEF header, delta

-----------------------------------------------------------------------------
(* Varints. They are written, and read, by recursion; that the recursive   *)
(* definitions have a value at all is proved first.                        *)

(* A function may be defined by recursion over numbers: at the numbers of  *)
(* Base it is first, and elsewhere it takes a step from a smaller number.  *)
Recurs(f, n, Base, first, down, step) ==
    f[n] = IF n \in Base THEN first[n] ELSE step[n][f[down[n]]]

(* It does so below k.                                                     *)
RecursUpto(f, k, D, Base, first, down, step) ==
    \A n \in D : n < k => Recurs(f, n, Base, first, down, step)

(* Every recursion goes down.                                              *)
Descends(D, Base, down) ==
    D \in SUBSET Nat /\ down \in [D -> D] /\ \A n \in D : n \notin Base => down[n] < n

(* There is at most one such function below k.                             *)
OneUpto(k, D, Base, first, down, step) ==
    \A f, g : RecursUpto(f, k, D, Base, first, down, step)
              /\ RecursUpto(g, k, D, Base, first, down, step)
                  => \A n \in D : n < k => f[n] = g[n]

(* Two such functions do not differ.                                       *)
LEMMA RecursionUnique ==
    ASSUME NEW D, NEW Base, NEW first, NEW down, NEW step, Descends(D, Base, down),
           NEW k \in Nat
    PROVE  OneUpto(k, D, Base, first, down, step)
<1> USE DEF Descends
<1> SUFFICES ASSUME NEW f, NEW g, RecursUpto(f, k, D, Base, first, down, step),
                    RecursUpto(g, k, D, Base, first, down, step)
             PROVE  \A n \in D : n < k => f[n] = g[n]
  BY Zenon DEF OneUpto
<1> DEFINE T == {n \in D : n < k /\ f[n] # g[n]}
<1> SUFFICES ASSUME T # {} PROVE FALSE
  BY Zenon
<1>1. T \in SUBSET Nat
  BY Zenon
<1>2. PICK x \in T : \A y \in T : x <= y
  BY <1>1, LeastElement, Zenon
<1>3. x \in D /\ x \in Nat /\ x < k /\ f[x] # g[x]
  BY <1>2, Zenon
<1>4. CASE x \in Base
  BY <1>3, <1>4, Zenon DEF Recurs, RecursUpto
<1>5. CASE x \notin Base
  <2>1. down[x] \in D /\ down[x] \in Nat /\ down[x] < x
    BY <1>3, <1>5, Zenon
  <2>2. down[x] < k /\ ~(x <= down[x])
    BY <1>3, <2>1
  <2>3. f[down[x]] = g[down[x]]
    BY <1>2, <2>1, <2>2, Zenon
  <2>4. Recurs(f, x, Base, first, down, step) /\ Recurs(g, x, Base, first, down, step)
    BY <1>3, Zenon DEF RecursUpto
  <2> QED
    BY <1>3, <1>5, <2>3, <2>4, Zenon DEF Recurs
<1> QED
  BY <1>4, <1>5, Zenon

(* There is one as far as any number.                                      *)
LEMMA RecursionBounded ==
    ASSUME NEW D, NEW S, NEW Base, NEW first \in [D -> S], NEW down,
           NEW step \in [D -> [S -> S]], Descends(D, Base, down)
    PROVE  \A k \in Nat : \E f \in [D -> S] : RecursUpto(f, k, D, Base, first, down, step)
<1> USE DEF Descends
<1> DEFINE Upto(f, k) == RecursUpto(f, k, D, Base, first, down, step)
           K == {k \in Nat : \E f \in [D -> S] : Upto(f, k)}
<1>1. 0 \in K
  <2>1. Upto(first, 0)
    <3>1. \A n \in D : ~(n < 0)
      OBVIOUS
    <3> QED
      BY <3>1, Zenon DEF RecursUpto
  <2>2. 0 \in Nat
    OBVIOUS
  <2> QED
    BY <2>1, <2>2, Zenon
<1>2. ASSUME NEW k \in K PROVE k + 1 \in K
  <2>1. PICK f \in [D -> S] : Upto(f, k)
    BY Zenon
  <2>2. k \in Nat /\ k + 1 \in Nat
    OBVIOUS
  <2> DEFINE here == IF k \in Base THEN first[k] ELSE step[k][f[down[k]]]
             g == [n \in D |-> IF n = k THEN here ELSE f[n]]
  <2>3. k \in D => here \in S
    BY <2>1, Zenon
  <2>4. g \in [D -> S]
    BY <2>1, <2>3, Zenon
  <2>5. (k \in D => g[k] = here) /\ \A n \in D : n # k => g[n] = f[n]
    BY Zenon
  <2> HIDE DEF g
  <2>6. ASSUME NEW n \in D, n < k + 1 PROVE Recurs(g, n, Base, first, down, step)
    <3>0. n \in Nat
      OBVIOUS
    <3>1. n \notin Base => down[n] \in D /\ down[n] # k
      <4>1. n \notin Base => down[n] \in D /\ down[n] < n
        BY Zenon
      <4>2. n \notin Base => down[n] \in Nat
        BY <4>1, Zenon
      <4> QED
        BY <2>2, <2>6, <3>0, <4>1, <4>2
    <3>2. n \notin Base => g[down[n]] = f[down[n]]
      BY <2>5, <3>1, Zenon
    <3>3. CASE n = k
      BY <2>5, <3>2, <3>3, Zenon DEF Recurs
    <3>4. CASE n # k
      <4>1. n < k
        BY <2>2, <2>6, <3>0, <3>4
      <4> QED
        BY <2>1, <2>5, <3>2, <3>4, <4>1, Zenon DEF Recurs, RecursUpto
    <3> QED
      BY <3>3, <3>4, Zenon
  <2> QED
    BY <2>2, <2>4, <2>6, Zenon DEF RecursUpto
<1>3. K = Nat
  <2>1. K \in SUBSET Nat
    BY Zenon
  <2> HIDE DEF K
  <2> QED
    BY <1>1, <1>2, <2>1, Induction, Zenon
<1> QED
  BY <1>3, Zenon

(* And there is one everywhere: what the bounded ones agree on.            *)
LEMMA RecursionExists ==
    ASSUME NEW D, NEW S, NEW Base, NEW first \in [D -> S], NEW down,
           NEW step \in [D -> [S -> S]], Descends(D, Base, down)
    PROVE  \E f \in [D -> S] : \A n \in D : Recurs(f, n, Base, first, down, step)
<1> USE DEF Descends
<1> DEFINE Upto(f, k) == RecursUpto(f, k, D, Base, first, down, step)
           F == [k \in Nat |-> CHOOSE f : f \in [D -> S] /\ Upto(f, k)]
           h == [n \in D |-> F[n + 1][n]]
<1>1. \A k \in Nat : F[k] \in [D -> S] /\ Upto(F[k], k)
  BY RecursionBounded, Zenon
<1> HIDE DEF F
<1>2. \A k, l \in Nat : k <= l => \A n \in D : n < k => F[k][n] = F[l][n]
  <2> SUFFICES ASSUME NEW k \in Nat, NEW l \in Nat, k <= l
               PROVE  \A n \in D : n < k => F[k][n] = F[l][n]
    BY Zenon
  <2>1. \A n \in D : n < k => n < l
    OBVIOUS
  <2>2. Upto(F[k], k) /\ Upto(F[l], k)
    BY <1>1, <2>1, Zenon DEF RecursUpto
  <2>3. OneUpto(k, D, Base, first, down, step)
    BY RecursionUnique, Zenon
  <2> QED
    BY <2>2, <2>3, Zenon DEF OneUpto
<1>3. \A n \in D : n \in Nat /\ n + 1 \in Nat /\ n < n + 1
  OBVIOUS
<1>4. h \in [D -> S] /\ \A n \in D : h[n] = F[n + 1][n]
  BY <1>1, <1>3, Zenon
<1> HIDE DEF h
<1>5. ASSUME NEW n \in D PROVE Recurs(h, n, Base, first, down, step)
  <2>1. Recurs(F[n + 1], n, Base, first, down, step)
    BY <1>1, <1>3, Zenon DEF RecursUpto
  <2>2. n \notin Base => h[down[n]] = F[n + 1][down[n]]
    <3> SUFFICES ASSUME n \notin Base PROVE h[down[n]] = F[n + 1][down[n]]
      BY Zenon
    <3>1. PICK d \in D : d = down[n] /\ d < n
      BY Zenon
    <3>2. d \in Nat /\ n \in Nat
      BY Zenon
    <3>3. d + 1 \in Nat /\ n + 1 \in Nat /\ d < d + 1 /\ d + 1 <= n + 1
      BY <3>1, <3>2
    <3>4. F[d + 1][d] = F[n + 1][d]
      BY <1>2, <3>3, Zenon
    <3> QED
      BY <1>4, <3>1, <3>4, Zenon
  <2> QED
    BY <1>4, <2>1, <2>2, Zenon DEF Recurs
<1> QED
  BY <1>4, <1>5, Zenon

(* What the definition of bit asks for.                                    *)
IsBit(f) == f = [k \in Nat |-> IF k = 0 THEN 1 ELSE 2 * f[k - 1]]

(* The powers of two.                                                      *)
LEMMA Bits ==
    /\ bit[0] = 1
    /\ \A k \in Nat : bit[k] \in Nat /\ bit[k] > 0 /\ bit[k + 1] = 2 * bit[k]
<1> DEFINE first == [n \in Nat |-> 1]
           down == [n \in Nat |-> IF n = 0 THEN 0 ELSE n - 1]
           step == [n \in Nat |-> [v \in Nat |-> 2 * v]]
<1>1. PICK f \in [Nat -> Nat] : \A n \in Nat : Recurs(f, n, {0}, first, down, step)
  <2>1. first \in [Nat -> Nat] /\ step \in [Nat -> [Nat -> Nat]]
    OBVIOUS
  <2>2. Descends(Nat, {0}, down)
    BY DEF Descends
  <2> HIDE DEF first, down, step
  <2> QED
    BY <2>1, <2>2, RecursionExists, Zenon
<1>2. IsBit(f)
  <2>1. \A n \in Nat : f[n] = IF n = 0 THEN 1 ELSE 2 * f[n - 1]
    <3> SUFFICES ASSUME NEW n \in Nat PROVE f[n] = IF n = 0 THEN 1 ELSE 2 * f[n - 1]
      BY Zenon
    <3>1. f[n] = IF n \in {0} THEN first[n] ELSE step[n][f[down[n]]]
      BY <1>1, Zenon DEF Recurs
    <3>2. first[n] = 1 /\ (n # 0 => down[n] = n - 1 /\ n - 1 \in Nat)
            /\ \A v \in Nat : step[n][v] = 2 * v
      OBVIOUS
    <3> HIDE DEF first, down, step
    <3> QED
      BY <3>1, <3>2, Zenon
  <2> QED
    BY <2>1, Zenon DEF IsBit
<1>3. IsBit(bit)
  <2>1. bit = CHOOSE g : IsBit(g)
    BY Zenon DEF bit, IsBit
  <2> QED
    BY <1>2, <2>1, Zenon
<1>4. \A n \in Nat : bit[n] = IF n = 0 THEN 1 ELSE 2 * bit[n - 1]
  BY <1>3, Zenon DEF IsBit
<1> HIDE DEF first, down, step
<1> DEFINE S == {k \in Nat : bit[k] \in Nat /\ bit[k] > 0}
<1>5. 0 \in S
  BY <1>4
<1>6. ASSUME NEW k \in S PROVE k + 1 \in S
  <2>1. k \in Nat /\ k + 1 \in Nat /\ k + 1 # 0 /\ (k + 1) - 1 = k
    OBVIOUS
  <2>2. bit[k + 1] = 2 * bit[k]
    BY <1>4, <2>1, Zenon
  <2> QED
    BY <2>1, <2>2
<1>7. S = Nat
  <2>1. S \in SUBSET Nat
    BY Zenon
  <2> HIDE DEF S
  <2> QED
    BY <1>5, <1>6, <2>1, Induction, Zenon
<1>8. \A k \in Nat : k + 1 \in Nat /\ k + 1 # 0 /\ (k + 1) - 1 = k
  OBVIOUS
<1>9. \A k \in Nat : bit[k + 1] = 2 * bit[k]
  BY <1>4, <1>8, Zenon
<1>10. bit[0] = 1
  BY <1>4
<1>11. \A k \in Nat : bit[k] \in Nat /\ bit[k] > 0
  BY <1>7, Zenon
<1> QED
  BY <1>9, <1>10, <1>11, Zenon

(* Seven bits are a factor of 128.                                         *)
LEMMA SevenBits ==
    ASSUME NEW w \in Nat, w >= 7
    PROVE  bit[w] = 128 * bit[w - 7] /\ bit[w - 7] \in Nat /\ bit[w - 7] > 0
<1> DEFINE k == w - 7
<1>1. k \in Nat /\ k + 1 \in Nat /\ k + 2 \in Nat /\ k + 3 \in Nat /\ k + 4 \in Nat
        /\ k + 5 \in Nat /\ k + 6 \in Nat /\ w = k + 7
  OBVIOUS
<1> HIDE DEF k
<1>2. bit[k + 1] = 2 * bit[k] /\ bit[k + 2] = 2 * bit[k + 1] /\ bit[k + 3] = 2 * bit[k + 2]
        /\ bit[k + 4] = 2 * bit[k + 3]
  <2>1. \A j \in Nat : bit[j + 1] = 2 * bit[j]
    BY Bits, Zenon
  <2>2. (k + 1) + 1 = k + 2 /\ (k + 2) + 1 = k + 3 /\ (k + 3) + 1 = k + 4
    BY <1>1
  <2> QED
    BY <1>1, <2>1, <2>2
<1>3. bit[k + 5] = 2 * bit[k + 4] /\ bit[k + 6] = 2 * bit[k + 5] /\ bit[k + 7] = 2 * bit[k + 6]
  <2>1. \A j \in Nat : bit[j + 1] = 2 * bit[j]
    BY Bits, Zenon
  <2>2. (k + 4) + 1 = k + 5 /\ (k + 5) + 1 = k + 6 /\ (k + 6) + 1 = k + 7
    BY <1>1
  <2> QED
    BY <1>1, <2>1, <2>2
<1>4. bit[k] \in Nat /\ bit[k] > 0
  BY <1>1, Bits, Zenon
<1> QED
  BY <1>1, <1>2, <1>3, <1>4 DEF k

(* What the definition of varint asks for.                                 *)
IsVarint(f) ==
    f = [n \in Nat |-> IF n < 128 THEN <<n>> ELSE <<(n % 128) + 128>> \o f[n \div 128]]

(* What writeVarint64 does, once for each byte.                            *)
LEMMA Varints ==
    \A n \in Nat : /\ varint[n] \in Seq(Nat)
                   /\ n < 128 => varint[n] = <<n>>
                   /\ n >= 128 => varint[n] = <<(n % 128) + 128>> \o varint[n \div 128]
<1> DEFINE Base == 0..127
           first == [n \in Nat |-> <<n>>]
           down == [n \in Nat |-> n \div 128]
           step == [n \in Nat |-> [s \in Seq(Nat) |-> <<(n % 128) + 128>> \o s]]
<1>0. \A n \in Nat : /\ n \div 128 \in Nat /\ (n % 128) + 128 \in Nat
                     /\ (n >= 128 => n \div 128 < n) /\ (n \in Base <=> n < 128)
                     /\ n >= 128 <=> ~(n < 128)
  OBVIOUS
<1>1. PICK f \in [Nat -> Seq(Nat)] : \A n \in Nat : Recurs(f, n, Base, first, down, step)
  <2>1. first \in [Nat -> Seq(Nat)]
    OBVIOUS
  <2>2. step \in [Nat -> [Seq(Nat) -> Seq(Nat)]]
    <3>1. \A n \in Nat : \A s \in Seq(Nat) : <<n>> \o s \in Seq(Nat)
      OBVIOUS
    <3> QED
      BY <1>0, <3>1, Zenon
  <2>3. Descends(Nat, Base, down)
    <3> HIDE DEF Base
    <3> QED
      BY <1>0, Zenon DEF Descends
  <2> HIDE DEF Base, first, down, step
  <2> QED
    BY <2>1, <2>2, <2>3, RecursionExists, Zenon
<1>2. ASSUME NEW n \in Nat
      PROVE  f[n] = IF n < 128 THEN <<n>> ELSE <<(n % 128) + 128>> \o f[n \div 128]
  <2>1. f[n] = IF n \in Base THEN first[n] ELSE step[n][f[down[n]]]
    BY <1>1, Zenon DEF Recurs
  <2>2. first[n] = <<n>> /\ down[n] = n \div 128
    BY Zenon
  <2>3. \A s \in Seq(Nat) : step[n][s] = <<(n % 128) + 128>> \o s
    BY Zenon
  <2>4. f[n \div 128] \in Seq(Nat)
    BY <1>0, <1>1, Zenon
  <2> HIDE DEF Base, first, down, step
  <2> QED
    BY <1>0, <2>1, <2>2, <2>3, <2>4, Zenon
<1>3. IsVarint(f)
  BY <1>2, Zenon DEF IsVarint
<1>4. varint = CHOOSE g : IsVarint(g)
  BY Zenon DEF varint, IsVarint
<1>5. IsVarint(varint)
  BY <1>3, <1>4, Zenon
<1>6. \A n \in Nat :
          varint[n] = IF n < 128 THEN <<n>> ELSE <<(n % 128) + 128>> \o varint[n \div 128]
  BY <1>5, Zenon DEF IsVarint
<1> HIDE DEF Base, first, down, step
<1>7. \A n \in Nat : varint[n] \in Seq(Nat)
  <2> DEFINE T == {n \in Nat : varint[n] \notin Seq(Nat)}
  <2> SUFFICES ASSUME T # {} PROVE FALSE
    BY Zenon
  <2>1. T \in SUBSET Nat
    BY Zenon
  <2>2. PICK x \in T : \A y \in T : x <= y
    BY <2>1, LeastElement, Zenon
  <2>3. x \in Nat /\ varint[x] \notin Seq(Nat)
    BY <2>2, Zenon
  <2>4. CASE x < 128
    <3>1. <<x>> \in Seq(Nat)
      BY <2>3
    <3> QED
      BY <1>6, <2>3, <2>4, <3>1, Zenon
  <2>5. CASE ~(x < 128)
    <3>1. x \div 128 \in Nat /\ ~(x <= x \div 128) /\ (x % 128) + 128 \in Nat
      BY <2>3, <2>5
    <3>2. varint[x \div 128] \in Seq(Nat)
      BY <2>2, <3>1, Zenon
    <3>3. \A n \in Nat : \A s \in Seq(Nat) : <<n>> \o s \in Seq(Nat)
      OBVIOUS
    <3>4. varint[x] = <<(x % 128) + 128>> \o varint[x \div 128]
      BY <1>6, <2>3, <2>5, Zenon
    <3>5. PICK b \in Nat : b = (x % 128) + 128
      BY <3>1, Zenon
    <3>6. <<b>> \o varint[x \div 128] \in Seq(Nat)
      BY <3>2, <3>3, Zenon
    <3> QED
      BY <2>3, <3>4, <3>5, <3>6, Zenon
  <2> QED
    BY <2>4, <2>5, Zenon
<1> QED
  BY <1>0, <1>6, <1>7, Zenon

(* What is left when bits are shifted out at the top.                      *)
LEMMA Truncated ==
    ASSUME NEW v \in Nat, NEW m \in Nat, m > 0
    PROVE  (v % m) \in Nat /\ (v % m) < m /\ (v < m => (v % m) = v)
  OBVIOUS

(* What the loop of readVarint64 asks for.                                 *)
IsHigh(f, bytes) ==
    f = [k \in 0..Len(bytes) |->
            IF k = 0 THEN 0
            ELSE (bytes[Len(bytes) + 1 - k] % 128) + 128 * (f[k - 1] % bit[I64Bits - 7])]

(* The bits that are left when seven are shifted out.                      *)
LEMMA TopBit == bit[I64Bits - 7] \in Nat /\ bit[I64Bits - 7] > 0
                  /\ bit[I64Bits] = 128 * bit[I64Bits - 7]
<1>1. I64Bits \in Nat /\ I64Bits >= 7
  BY WidthAssumption
<1> QED
  BY <1>1, SevenBits, Zenon

(* The loop of readVarint64 adds up what it finds in any bytes.            *)
LEMMA HighExists ==
    ASSUME NEW bytes \in Seq(Nat)
    PROVE  \E f \in [0..Len(bytes) -> Nat] : IsHigh(f, bytes)
<1> DEFINE D == 0..Len(bytes)
           M == bit[I64Bits - 7]
           low(k) == IF k = 0 THEN 0 ELSE bytes[Len(bytes) + 1 - k] % 128
           first == [k \in D |-> 0]
           down == [k \in D |-> IF k = 0 THEN 0 ELSE k - 1]
           step == [k \in D |-> [v \in Nat |-> low(k) + 128 * (v % M)]]
<1>1. M \in Nat /\ M > 0
  BY TopBit, Zenon
<1> HIDE DEF M
<1>2. \A k \in D : low(k) \in Nat
  <2> SUFFICES ASSUME NEW k \in D, k # 0 PROVE bytes[Len(bytes) + 1 - k] % 128 \in Nat
    BY DEF low
  <2>1. Len(bytes) + 1 - k \in 1..Len(bytes)
    OBVIOUS
  <2>2. bytes[Len(bytes) + 1 - k] \in Nat
    BY <2>1
  <2> QED
    BY <2>2
<1> HIDE DEF low
<1>3. \A a \in Nat : \A v \in Nat : a + 128 * (v % M) \in Nat
  BY <1>1, Truncated
<1>4. first \in [D -> Nat] /\ step \in [D -> [Nat -> Nat]]
  <2>1. 0 \in Nat
    OBVIOUS
  <2> HIDE DEF D
  <2> QED
    BY <1>2, <1>3, <2>1, Zenon
<1>5. Descends(D, {0}, down)
  BY DEF Descends
<1>6. PICK f \in [D -> Nat] : \A k \in D : Recurs(f, k, {0}, first, down, step)
  <2> HIDE DEF D, first, down, step
  <2> QED
    BY <1>4, <1>5, RecursionExists, Zenon
<1>7. ASSUME NEW k \in D
      PROVE  f[k] = IF k = 0 THEN 0
                    ELSE (bytes[Len(bytes) + 1 - k] % 128) + 128 * (f[k - 1] % M)
  <2>1. f[k] = IF k \in {0} THEN first[k] ELSE step[k][f[down[k]]]
    BY <1>6, Zenon DEF Recurs
  <2>2. first[k] = 0 /\ (k # 0 => down[k] = k - 1)
    BY Zenon
  <2>3. \A v \in Nat : step[k][v] = low(k) + 128 * (v % M)
    BY Zenon
  <2>4. k # 0 => k - 1 \in D
    OBVIOUS
  <2> HIDE DEF D, first, down, step
  <2>5. k # 0 => f[k - 1] \in Nat
    BY <1>6, <2>4, Zenon
  <2>6. k # 0 => f[k] = low(k) + 128 * (f[k - 1] % M)
    BY <2>1, <2>2, <2>3, <2>5, Zenon
  <2> QED
    BY <2>1, <2>2, <2>6, Zenon DEF low
<1>8. IsHigh(f, bytes)
  BY <1>6, <1>7, Zenon DEF IsHigh, M
<1> QED
  BY <1>6, <1>8, Zenon

(* The value is that of the loop.                                          *)
LEMMA ValueIsHigh ==
    ASSUME NEW bytes \in Seq(Nat)
    PROVE  \E f : IsHigh(f, bytes) /\ VarintValue(bytes) = f[Len(bytes)]
<1>1. VarintValue(bytes) = (CHOOSE f : IsHigh(f, bytes))[Len(bytes)]
  BY Zenon DEF VarintValue, IsHigh
<1>2. IsHigh(CHOOSE f : IsHigh(f, bytes), bytes)
  BY HighExists, Zenon
<1> QED
  BY <1>1, <1>2, Zenon

(* One turn of the loop, which has the high bits already.                  *)
Turn(b, high, m) == (b % 128) + 128 * (high % m)

(* Each turn of the loop adds a byte.                                      *)
Adds(f, bytes, n, m) ==
    f[0] = 0 /\ \A k \in 1..n : f[k] = Turn(bytes[n + 1 - k], f[k - 1], m)

(* The loop, turn by turn.                                                 *)
LEMMA HighAt ==
    ASSUME NEW bytes \in Seq(Nat), NEW f, IsHigh(f, bytes)
    PROVE  Adds(f, bytes, Len(bytes), bit[I64Bits - 7])
<1>1. 0 \in 0..Len(bytes) /\ \A k \in 1..Len(bytes) : k \in 0..Len(bytes) /\ k # 0
  OBVIOUS
<1> QED
  BY <1>1, Zenon DEF IsHigh, Adds, Turn

(* A byte in front of others is the lowest of the value.                   *)
LEMMA ValueStep ==
    ASSUME NEW b \in Nat, NEW s \in Seq(Nat)
    PROVE  VarintValue(<<b>> \o s) = Turn(b, VarintValue(s), bit[I64Bits - 7])
<1> DEFINE t == <<b>> \o s
           n == Len(s)
           M == bit[I64Bits - 7]
<1>1. /\ t \in Seq(Nat) /\ n \in Nat /\ Len(t) = n + 1 /\ t[1] = b
      /\ \A i \in 1..n : t[i + 1] = s[i]
  OBVIOUS
<1> HIDE DEF t
<1>2. PICK f : IsHigh(f, t) /\ VarintValue(t) = f[Len(t)]
  BY <1>1, ValueIsHigh, Zenon
<1>3. PICK g : IsHigh(g, s) /\ VarintValue(s) = g[Len(s)]
  BY ValueIsHigh, Zenon
<1>4. /\ f[0] = 0
      /\ \A k \in 1..Len(t) : f[k] = Turn(t[Len(t) + 1 - k], f[k - 1], M)
  <2>1. Adds(f, t, Len(t), M)
    BY <1>1, <1>2, HighAt, Zenon
  <2> QED
    BY <2>1, Zenon DEF Adds
<1>5. /\ g[0] = 0
      /\ \A k \in 1..n : g[k] = Turn(s[n + 1 - k], g[k - 1], M)
  <2>1. Adds(g, s, n, M)
    BY <1>3, HighAt, Zenon
  <2> QED
    BY <2>1, Zenon DEF Adds
<1> HIDE DEF n, M
<1> DEFINE S == {k \in Nat : k <= n => f[k] = g[k]}
<1>6. 0 \in S
  BY <1>4, <1>5
<1>7. ASSUME NEW k \in S PROVE k + 1 \in S
  <2>1. k \in Nat /\ k + 1 \in Nat /\ (k + 1) - 1 = k
    OBVIOUS
  <2>2. ASSUME k + 1 <= n PROVE f[k + 1] = g[k + 1]
    <3>1. k <= n /\ k + 1 \in 1..n /\ k + 1 \in 1..(n + 1) /\ n + 1 - (k + 1) \in 1..n
            /\ (n + 1) + 1 - (k + 1) = (n + 1 - (k + 1)) + 1
      BY <1>1, <2>1, <2>2
    <3>2. f[k] = g[k]
      BY <3>1, Zenon
    <3>3. t[Len(t) + 1 - (k + 1)] = s[n + 1 - (k + 1)]
      BY <1>1, <3>1, Zenon
    <3>4. f[k + 1] = Turn(t[Len(t) + 1 - (k + 1)], f[k], M)
      BY <1>1, <1>4, <2>1, <3>1, Zenon
    <3>5. g[k + 1] = Turn(s[n + 1 - (k + 1)], g[k], M)
      BY <1>5, <2>1, <3>1, Zenon
    <3> QED
      BY <3>2, <3>3, <3>4, <3>5, Zenon
  <2> QED
    BY <2>1, <2>2, Zenon
<1>8. S = Nat
  <2>1. S \in SUBSET Nat
    BY Zenon
  <2> HIDE DEF S
  <2> QED
    BY <1>6, <1>7, <2>1, Induction, Zenon
<1>9. n <= n /\ n + 1 \in 1..(n + 1) /\ (n + 1) + 1 - (n + 1) = 1 /\ (n + 1) - 1 = n
  BY <1>1
<1>10. f[n] = g[n]
  <2>1. n \in S
    BY <1>1, <1>8, Zenon
  <2> QED
    BY <1>9, <2>1, Zenon
<1>11. f[n + 1] = Turn(b, f[n], M)
  <2>1. t[Len(t) + 1 - (n + 1)] = b
    BY <1>1, <1>9, Zenon
  <2>2. f[n + 1] = Turn(t[Len(t) + 1 - (n + 1)], f[(n + 1) - 1], M)
    BY <1>1, <1>4, <1>9, Zenon
  <2> QED
    BY <1>9, <2>1, <2>2, Zenon
<1> QED
  BY <1>1, <1>2, <1>3, <1>10, <1>11, Zenon DEF t, n, M

(* No bytes, no value.                                                     *)
LEMMA ValueOfNothing == VarintValue(<<>>) = 0
<1>1. <<>> \in Seq(Nat) /\ Len(<<>>) = 0
  OBVIOUS
<1>2. PICK f : IsHigh(f, <<>>) /\ VarintValue(<<>>) = f[Len(<<>>)]
  BY <1>1, ValueIsHigh, Zenon
<1>3. f[0] = 0
  BY <1>1, <1>2, HighAt, Zenon DEF Adds
<1> QED
  BY <1>1, <1>2, <1>3, Zenon

(* The bytes of a varint: only the last is less than 128.                  *)
Ends(s) == s \in Seq(Nat) /\ Len(s) > 0
             /\ \A i \in 1..Len(s) : s[i] < 128 <=> i = Len(s)

(* The high bit says that there is more.                                   *)
Continues(b) == b >= 128

(* A number of seven bits is one byte.                                     *)
LEMMA EndsOne ==
    ASSUME NEW n \in Nat, n < 128
    PROVE  Ends(<<n>>) /\ Len(<<n>>) = 1
  BY DEF Ends

(* A byte with its high bit goes in front.                                 *)
LEMMA EndsMore ==
    ASSUME NEW b \in Nat, Continues(b), NEW s, Ends(s)
    PROVE  Ends(<<b>> \o s) /\ Len(<<b>> \o s) = Len(s) + 1
<1> DEFINE t == <<b>> \o s
<1>1. /\ s \in Seq(Nat) /\ Len(s) \in Nat /\ Len(s) > 0
      /\ \A i \in 1..Len(s) : s[i] < 128 <=> i = Len(s)
  BY DEF Ends
<1>2. /\ t \in Seq(Nat) /\ Len(t) = Len(s) + 1 /\ t[1] = b
      /\ \A i \in 2..(Len(s) + 1) : t[i] = s[i - 1]
  BY <1>1
<1> HIDE DEF t
<1>3. ASSUME NEW i \in 1..Len(t) PROVE t[i] < 128 <=> i = Len(t)
  <2>1. CASE i = 1
    BY <1>1, <1>2, <2>1 DEF Continues
  <2>2. CASE i # 1
    <3>1. i \in 2..(Len(s) + 1) /\ i - 1 \in 1..Len(s) /\ (i - 1 = Len(s) <=> i = Len(t))
      BY <1>1, <1>2, <2>2
    <3> QED
      BY <1>1, <1>2, <3>1, Zenon
  <2> QED
    BY <2>1, <2>2, Zenon
<1>4. Len(t) > 0
  BY <1>1, <1>2
<1> QED
  BY <1>2, <1>3, <1>4, Zenon DEF Ends, t

(* A number of at most w bits takes at most one byte for seven of them.    *)
LEMMA VarintFits ==
    \A k \in Nat : \A w \in Nat : \A n \in Nat :
        w <= 7 * k /\ 0 < k /\ n < bit[w] => Ends(varint[n]) /\ Len(varint[n]) <= k
<1> DEFINE P(k) == \A w \in Nat : \A n \in Nat :
                      w <= 7 * k /\ 0 < k /\ n < bit[w] => Ends(varint[n]) /\ Len(varint[n]) <= k
           S == {k \in Nat : P(k)}
<1>1. 0 \in S
  <2>1. 0 \in Nat /\ ~(0 < 0)
    OBVIOUS
  <2> QED
    BY <2>1, Zenon
<1>2. ASSUME NEW k \in S PROVE k + 1 \in S
  <2>1. k \in Nat /\ P(k) /\ k + 1 \in Nat
    OBVIOUS
  <2> HIDE DEF P
  <2>2. ASSUME NEW w \in Nat, NEW n \in Nat, w <= 7 * (k + 1), n < bit[w]
        PROVE  Ends(varint[n]) /\ Len(varint[n]) <= k + 1
    <3>1. CASE n < 128
      <4>1. varint[n] = <<n>>
        BY <3>1, Varints, Zenon
      <4>2. Ends(varint[n]) /\ Len(varint[n]) = 1
        BY <3>1, <4>1, EndsOne
      <4> QED
        BY <2>1, <4>2
    <3>2. CASE ~(n < 128)
      <4>1. n >= 128 /\ n \div 128 \in Nat /\ (n % 128) + 128 \in Nat /\ (n % 128) + 128 >= 128
        BY <3>2
      <4>2. varint[n] = <<(n % 128) + 128>> \o varint[n \div 128]
        BY <4>1, Varints, Zenon
      <4>3. w > 7
        <5>1. \A j \in Nat : bit[j] \in Nat /\ bit[j + 1] = 2 * bit[j]
          BY Bits, Zenon
        <5>2. bit[0] = 1
          BY Bits, Zenon
        <5>3. bit[1] = 2 /\ bit[2] = 4 /\ bit[3] = 8
          BY <5>1, <5>2, 0 + 1 = 1, 1 + 1 = 2, 2 + 1 = 3
        <5>4. bit[4] = 16 /\ bit[5] = 32 /\ bit[6] = 64 /\ bit[7] = 128
          BY <5>1, <5>3, 3 + 1 = 4, 4 + 1 = 5, 5 + 1 = 6, 6 + 1 = 7
        <5>5. w # 0 /\ w # 1 /\ w # 2 /\ w # 3 /\ w # 4 /\ w # 5 /\ w # 6 /\ w # 7
          BY <2>2, <4>1, <5>2, <5>3, <5>4
        <5> QED
          BY <5>5
      <4>4. bit[w] = 128 * bit[w - 7] /\ bit[w - 7] \in Nat
        BY <4>3, SevenBits
      <4>5. n \div 128 < bit[w - 7]
        BY <2>2, <4>1, <4>4
      <4>6. w - 7 \in Nat /\ w - 7 <= 7 * k /\ 0 < k
        BY <2>1, <2>2, <4>3
      <4>7. Ends(varint[n \div 128]) /\ Len(varint[n \div 128]) <= k
        BY <2>1, <4>1, <4>5, <4>6, Zenon DEF P
      <4>8. Ends(varint[n]) /\ Len(varint[n]) = Len(varint[n \div 128]) + 1
        <5>1. PICK b \in Nat : b = (n % 128) + 128 /\ Continues(b)
          BY <4>1, Zenon DEF Continues
        <5>0. Continues(b) /\ Ends(varint[n \div 128])
          BY <4>7, <5>1, Zenon
        <5>2. Ends(<<b>> \o varint[n \div 128])
                /\ Len(<<b>> \o varint[n \div 128]) = Len(varint[n \div 128]) + 1
          BY <5>0, EndsMore, Zenon
        <5> QED
          BY <4>2, <5>1, <5>2, Zenon
      <4>9. Len(varint[n \div 128]) \in Nat
        BY <4>7 DEF Ends
      <4> QED
        BY <2>1, <4>7, <4>8, <4>9
    <3> QED
      BY <3>1, <3>2, Zenon
  <2>3. P(k + 1)
    BY <2>2, Zenon DEF P
  <2> QED
    BY <2>1, <2>3, Zenon
<1>3. S = Nat
  <2>1. S \in SUBSET Nat
    BY Zenon
  <2> HIDE DEF S
  <2> QED
    BY <1>1, <1>2, <2>1, Induction, Zenon
<1>4. \A k \in Nat : P(k)
  BY <1>3, Zenon
<1> QED
  BY <1>4, Zenon

(* The loop of readVarint64 finds the number that writeVarint64 was given. *)
LEMMA ValueOfVarint ==
    \A n \in Nat : n < bit[I64Bits] => VarintValue(varint[n]) = n
<1> DEFINE T == {n \in Nat : n < bit[I64Bits] /\ VarintValue(varint[n]) # n}
           M == bit[I64Bits - 7]
<1> SUFFICES ASSUME T # {} PROVE FALSE
  BY Zenon
<1>1. T \in SUBSET Nat
  BY Zenon
<1>2. PICK x \in T : \A y \in T : x <= y
  BY <1>1, LeastElement, Zenon
<1>3. x \in Nat /\ x < bit[I64Bits] /\ VarintValue(varint[x]) # x
  BY <1>2, Zenon
<1>4. M \in Nat /\ M > 0 /\ bit[I64Bits] = 128 * M
  BY TopBit, Zenon
<1> HIDE DEF M
<1>5. CASE x < 128
  <2>1. varint[x] = <<x>> \o <<>> /\ <<>> \in Seq(Nat)
    <3>1. varint[x] = <<x>>
      BY <1>3, <1>5, Varints, Zenon
    <3> QED
      BY <1>3, <3>1
  <2>2. VarintValue(<<x>> \o <<>>) = Turn(x, 0, M)
    BY <1>3, <2>1, ValueStep, ValueOfNothing, Zenon DEF M
  <2>3. (0 % M) = 0
    BY <1>4, Truncated
  <2>4. Turn(x, 0, M) = x
    BY <1>3, <1>5, <2>3 DEF Turn
  <2> QED
    BY <1>3, <2>1, <2>2, <2>4, Zenon
<1>6. CASE ~(x < 128)
  <2> DEFINE q == x \div 128
             b == (x % 128) + 128
  <2>1. q \in Nat /\ ~(x <= q) /\ b \in Nat /\ (b % 128) + 128 * q = x /\ x >= 128
    BY <1>3, <1>6
  <2>2. q < M /\ q < bit[I64Bits]
    BY <1>3, <1>4
  <2>3. varint[x] = <<b>> \o varint[q] /\ varint[q] \in Seq(Nat)
    BY <1>3, <2>1, Varints, Zenon
  <2> HIDE DEF q, b
  <2>4. VarintValue(varint[q]) = q
    BY <1>2, <2>1, <2>2, Zenon
  <2>5. VarintValue(<<b>> \o varint[q]) = Turn(b, q, M)
    <3>1. PICK s \in Seq(Nat) : s = varint[q]
      BY <2>3, Zenon
    <3>2. VarintValue(<<b>> \o s) = Turn(b, VarintValue(s), M)
      BY <2>1, ValueStep, Zenon DEF M
    <3> QED
      BY <2>4, <3>1, <3>2, Zenon
  <2>6. (q % M) = q
    BY <1>4, <2>1, <2>2, Truncated
  <2>7. Turn(b, q, M) = x
    BY <2>1, <2>6, Zenon DEF Turn
  <2> QED
    BY <1>3, <2>3, <2>5, <2>7, Zenon
<1> QED
  BY <1>5, <1>6, Zenon

(* Of a varint and whatever follows it in the buffer, readVarint64 takes   *)
(* the bytes that writeVarint64 wrote, and no more than MaxVarint of them, *)
(* and finds in them the number that was written.                          *)
THEOREM VarintInverse ==
    ASSUME NEW n \in Nat, n < bit[I64Bits], NEW rest \in Seq(Nat)
    PROVE  /\ VarintLength(varint[n] \o rest) = Len(varint[n])
           /\ Len(varint[n]) \in 1..MaxVarint
           /\ VarintValue(varint[n]) = n
<1> DEFINE s == varint[n]
           t == s \o rest
           ends == {i \in 1..Len(t) : i <= MaxVarint /\ t[i] < 128}
<1>1. MaxVarint \in Nat /\ 0 < MaxVarint /\ I64Bits \in Nat /\ I64Bits <= 7 * MaxVarint
  BY WidthAssumption DEF MaxVarint
<1>2. Ends(s) /\ Len(s) <= MaxVarint
  BY <1>1, VarintFits, Zenon
<1>3. /\ s \in Seq(Nat) /\ Len(s) \in Nat /\ Len(s) > 0
      /\ \A i \in 1..Len(s) : s[i] < 128 <=> i = Len(s)
  BY <1>2 DEF Ends
<1> HIDE DEF s
<1>4. Len(t) \in Nat /\ Len(s) <= Len(t) /\ \A i \in 1..Len(s) : t[i] = s[i]
  BY <1>3
<1> HIDE DEF t
<1>5. Len(s) \in 1..Len(s) /\ Len(s) \in 1..Len(t) /\ Len(s) \in 1..MaxVarint
  BY <1>1, <1>2, <1>3, <1>4
<1>6. Len(s) \in ends
  BY <1>2, <1>3, <1>4, <1>5, Zenon
<1>7. ASSUME NEW j \in ends PROVE Len(s) <= j
  <2>1. j \in 1..Len(t) /\ t[j] < 128 /\ j \in Nat
    BY <1>4
  <2>2. CASE j \in 1..Len(s)
    <3>1. j = Len(s)
      BY <1>3, <1>4, <2>1, <2>2, Zenon
    <3> QED
      BY <1>3, <3>1
  <2>3. CASE j \notin 1..Len(s)
    BY <1>3, <2>1, <2>3
  <2> QED
    BY <2>2, <2>3, Zenon
<1>8. \A i \in ends : (\A j \in ends : i <= j) => i = Len(s)
  <2> SUFFICES ASSUME NEW i \in ends, \A j \in ends : i <= j PROVE i = Len(s)
    BY Zenon
  <2>1. i <= Len(s) /\ Len(s) <= i /\ i \in Int
    BY <1>4, <1>6, <1>7
  <2> QED
    BY <1>3, <2>1
<1>9. VarintLength(t) = IF ends = {} THEN 0 ELSE CHOOSE i \in ends : \A j \in ends : i <= j
  BY Zenon DEF VarintLength
<1> HIDE DEF ends
<1>10. VarintLength(t) = Len(s)
  BY <1>6, <1>7, <1>8, <1>9, Zenon
<1>11. VarintValue(s) = n
  BY ValueOfVarint, Zenon DEF s
<1> QED
  BY <1>5, <1>10, <1>11, Zenon DEF s, t

(* A wider integer has a larger range.                                     *)
LEMMA BitsGrow ==
    \A k, l \in Nat : k <= l => bit[k] <= bit[l]
<1> SUFFICES ASSUME NEW k \in Nat PROVE \A l \in Nat : k <= l => bit[k] <= bit[l]
  BY Zenon
<1> DEFINE S == {j \in Nat : bit[k] <= bit[k + j]}
<1>0. \A j \in Nat : bit[j] \in Nat /\ bit[j + 1] = 2 * bit[j]
  BY Bits, Zenon
<1>1. 0 \in S
  <2>1. k + 0 = k /\ bit[k] \in Nat
    BY <1>0
  <2> QED
    BY <2>1
<1>2. ASSUME NEW j \in S PROVE j + 1 \in S
  <2>1. j \in Nat /\ j + 1 \in Nat /\ k + j \in Nat /\ (k + j) + 1 = k + (j + 1)
    OBVIOUS
  <2>2. bit[k + (j + 1)] = 2 * bit[k + j] /\ bit[k + j] \in Nat /\ bit[k] \in Nat
    BY <1>0, <2>1, Zenon
  <2> QED
    BY <2>1, <2>2
<1>3. S = Nat
  <2>1. S \in SUBSET Nat
    BY Zenon
  <2> HIDE DEF S
  <2> QED
    BY <1>1, <1>2, <2>1, Induction, Zenon
<1>4. ASSUME NEW l \in Nat, k <= l PROVE bit[k] <= bit[l]
  <2>1. l - k \in Nat /\ k + (l - k) = l
    BY <1>4
  <2>2. l - k \in S
    BY <1>3, <2>1, Zenon
  <2> QED
    BY <2>1, <2>2, Zenon
<1> QED
  BY <1>4, Zenon

(* The integers of w bits.                                                 *)
IntsOf(w) == (-bit[w - 1])..(bit[w - 1] - 1)

(* A cast of a number that is one range away.                              *)
LEMMA Wrapped ==
    ASSUME NEW v \in Nat, NEW m \in Nat, v < m
    PROVE  (v - m) % m = v
<1> DEFINE q == (v - m) \div m
           r == (v - m) % m
<1>1. q \in Int /\ r \in Int /\ 0 <= r /\ r < m /\ v - m = m * q + r
  OBVIOUS
<1> HIDE DEF q, r
<1>2. m * (q + 1) = v - r /\ m * (q + 1) < m /\ m * (q + 1) > -m
  BY <1>1
<1>3. q + 1 = 0
  BY <1>1, <1>2
<1> QED
  BY <1>1, <1>2, <1>3 DEF r

(* Casts to and fro between the signed and unsigned integers of a width.   *)
LEMMA Casts ==
    ASSUME NEW w \in Nat, w >= 1
    PROVE  /\ \A n \in IntsOf(w) : /\ Signed(n, w) = n /\ Signed(Unsigned(n, w), w) = n
                                   /\ Unsigned(n, w) \in Nat /\ Unsigned(n, w) < bit[w]
           /\ \A u \in Nat : u < bit[w] => Unsigned(Signed(u, w), w) = u /\ Unsigned(u, w) = u
<1> DEFINE half == bit[w - 1]
           m == bit[w]
<1>1. half \in Nat /\ half > 0 /\ m = 2 * half /\ m \in Nat /\ m > 0
  <2>1. w - 1 \in Nat /\ (w - 1) + 1 = w
    OBVIOUS
  <2>2. half \in Nat /\ half > 0 /\ m = 2 * half
    BY <2>1, Bits, Zenon
  <2> HIDE DEF half, m
  <2> QED
    BY <2>2
<1> HIDE DEF half, m
<1>2. \A v \in Nat : v < m => (v % m) = v /\ ((v - m) % m) = v
  BY <1>1, Truncated, Wrapped
<1>3. ASSUME NEW n \in IntsOf(w)
      PROVE  \E u \in Nat : u < m /\ n % m = u /\ n = IF u < half THEN u ELSE u - m
  <2>1. n \in Int /\ -half <= n /\ n < half
    BY <1>1, <1>3 DEF IntsOf, half
  <2>2. CASE n >= 0
    BY <1>1, <1>2, <2>1, <2>2
  <2>3. CASE ~(n >= 0)
    <3>1. n + m \in Nat /\ n + m < m /\ (n + m) - m = n /\ ~(n + m < half)
      BY <1>1, <2>1, <2>3
    <3> QED
      BY <1>2, <3>1, Zenon
  <2> QED
    BY <2>2, <2>3, Zenon
<1>4. ASSUME NEW n \in IntsOf(w)
      PROVE  /\ Signed(n, w) = n /\ Signed(Unsigned(n, w), w) = n
             /\ Unsigned(n, w) \in Nat /\ Unsigned(n, w) < m
  <2>1. PICK u \in Nat : u < m /\ n % m = u /\ n = IF u < half THEN u ELSE u - m
    BY <1>3, Zenon
  <2>2. u % m = u
    BY <1>2, <2>1, Zenon
  <2> QED
    BY <2>1, <2>2, Zenon DEF Signed, Unsigned, half, m
<1>5. ASSUME NEW u \in Nat, u < m PROVE Unsigned(Signed(u, w), w) = u /\ Unsigned(u, w) = u
  <2>1. u % m = u /\ (u - m) % m = u
    BY <1>2, <1>5, Zenon
  <2>2. CASE u < half
    BY <2>1, <2>2, Zenon DEF Signed, Unsigned, half, m
  <2>3. CASE ~(u < half)
    BY <2>1, <2>3, Zenon DEF Signed, Unsigned, half, m
  <2> QED
    BY <2>2, <2>3, Zenon
<1> QED
  BY <1>4, <1>5, Zenon DEF m

(* Integers of 64, 32 and 16 bits come back from the bytes that writeI64,  *)
(* writeI32 and writeI16 make of them, and so do sizes and sequence ids    *)
(* from those of writeVarint32, through the casts of readVarint32 and of   *)
(* readI16: for all widths, the smallest and the largest value included.   *)
THEOREM IntegersComeBack ==
    LET I32From(bytes) == Signed(VarintValue(bytes), I32Bits)
        ZigzagFrom(bytes) == fromZigzag(Unsigned(I32From(bytes), I32Bits))
    IN  /\ \A n \in IntsOf(I64Bits) : fromZigzag(VarintValue(writeI64(n))) = n
        /\ \A n \in IntsOf(I32Bits) : I32From(writeVarint32(n)) = n
        /\ \A n \in IntsOf(I32Bits) : ZigzagFrom(writeI16(n)) = n
        /\ \A n \in IntsOf(I16Bits) : Signed(ZigzagFrom(writeI16(n)), I16Bits) = n
<1> DEFINE I32From(bytes) == Signed(VarintValue(bytes), I32Bits)
           ZigzagFrom(bytes) == fromZigzag(Unsigned(I32From(bytes), I32Bits))
<1>1. /\ I16Bits \in Nat /\ I16Bits >= 1 /\ I32Bits \in Nat /\ I32Bits >= 1
      /\ I64Bits \in Nat /\ I64Bits >= 1 /\ I16Bits <= I32Bits /\ I32Bits <= I64Bits
  BY WidthAssumption
<1>2. ASSUME NEW w \in Nat, w >= 1, NEW n \in IntsOf(w)
      PROVE  toZigzag(n) \in Nat /\ toZigzag(n) < bit[w] /\ fromZigzag(toZigzag(n)) = n
  <2> DEFINE half == bit[w - 1]
  <2>1. w - 1 \in Nat /\ (w - 1) + 1 = w
    BY <1>2
  <2>2. half \in Nat /\ bit[w] = 2 * half
    BY <2>1, Bits, Zenon
  <2>3. n \in (-half)..(half - 1)
    BY <1>2, Zenon DEF IntsOf
  <2> HIDE DEF half
  <2>4. toZigzag(n) \in 0..(2 * half - 1) /\ fromZigzag(toZigzag(n)) = n
    BY <2>2, <2>3, ZigzagInverse, Zenon
  <2> QED
    BY <2>2, <2>4
<1>3. bit[I32Bits] <= bit[I64Bits] /\ bit[I32Bits] \in Nat /\ bit[I64Bits] \in Nat
  BY <1>1, BitsGrow, Bits, Zenon
<1>4. \A u \in Nat : u < bit[I32Bits] => u < bit[I64Bits]
  BY <1>3
<1>5. ASSUME NEW n \in IntsOf(I64Bits) PROVE fromZigzag(VarintValue(writeI64(n))) = n
  <2>1. toZigzag(n) \in Nat /\ toZigzag(n) < bit[I64Bits] /\ fromZigzag(toZigzag(n)) = n
    BY <1>1, <1>2, Zenon
  <2>2. VarintValue(writeI64(n)) = toZigzag(n)
    BY <2>1, ValueOfVarint, Zenon DEF writeI64
  <2> QED
    BY <2>1, <2>2, Zenon
<1>6. ASSUME NEW n \in IntsOf(I32Bits) PROVE I32From(writeVarint32(n)) = n
  <2>1. /\ Signed(Unsigned(n, I32Bits), I32Bits) = n
        /\ Unsigned(n, I32Bits) \in Nat /\ Unsigned(n, I32Bits) < bit[I32Bits]
    BY <1>1, Casts, Zenon
  <2>2. VarintValue(writeVarint32(n)) = Unsigned(n, I32Bits)
    BY <1>4, <2>1, ValueOfVarint, Zenon DEF writeVarint32
  <2> QED
    BY <2>1, <2>2, Zenon
<1>7. ASSUME NEW n \in IntsOf(I32Bits) PROVE ZigzagFrom(writeI16(n)) = n
  <2> DEFINE z == toZigzag(n)
  <2>1. z \in Nat /\ z < bit[I32Bits] /\ fromZigzag(z) = n
    BY <1>1, <1>2, Zenon
  <2>2. Unsigned(z, I32Bits) = z /\ Unsigned(Signed(z, I32Bits), I32Bits) = z
    BY <1>1, <2>1, Casts, Zenon
  <2>3. writeI16(n) = varint[z]
    BY <2>2, Zenon DEF writeI16, writeVarint32
  <2> HIDE DEF z
  <2>4. VarintValue(varint[z]) = z
    BY <1>4, <2>1, ValueOfVarint, Zenon
  <2> QED
    BY <2>1, <2>2, <2>3, <2>4, Zenon
<1>8. ASSUME NEW n \in IntsOf(I16Bits) PROVE Signed(ZigzagFrom(writeI16(n)), I16Bits) = n
  <2>1. n \in IntsOf(I32Bits)
    <3> DEFINE a == bit[I16Bits - 1]
               b == bit[I32Bits - 1]
    <3>1. I16Bits - 1 \in Nat /\ I32Bits - 1 \in Nat /\ I16Bits - 1 <= I32Bits - 1
      BY <1>1
    <3>2. a \in Nat /\ b \in Nat /\ a <= b
      BY <3>1, BitsGrow, Bits, Zenon
    <3>3. n \in (-a)..(a - 1)
      BY <1>8, Zenon DEF IntsOf
    <3> HIDE DEF a, b
    <3>4. n \in (-b)..(b - 1)
      BY <3>2, <3>3
    <3> QED
      BY <3>4, Zenon DEF IntsOf, b
  <2>2. ZigzagFrom(writeI16(n)) = n
    BY <1>7, <2>1, Zenon
  <2>3. Signed(n, I16Bits) = n
    BY <1>1, Casts, Zenon
  <2> QED
    BY <2>2, <2>3, Zenon
<1> QED
  BY <1>5, <1>6, <1>7, <1>8, Zenon
=============================================================================

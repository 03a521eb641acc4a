----------------------- MODULE ConcurrentClientProofs -----------------------
(***************************************************************************)
(* Safety of the concurrent client for any number of threads and calls:    *)
(* the stream is read in step with its messages, and as long as            *)
(* generateSeqId hands out no id that is still in flight, every call gets  *)
(* its own reply, no two calls share a monitor, and some call is awake to  *)
(* read the socket.                                                        *)
(***************************************************************************)
EXTENDS ConcurrentClient, TLAPS

(* Where a thread holds readMutex_.                                        *)
Reading == {"read", "dispatch", "check", "loop", "wait", "readOn", "misread", "unwind"}
Labels == Reading \cup {"idle", "send", "writing", "marking", "recv", "asleep"}

Messages == [seqid : Int, by : Threads \X Nat]

Typed ==
    /\ pc \in [Threads -> Labels]
    /\ seqid \in [Threads -> SeqIds \cup {None}]
    /\ DOMAIN rseqid = Threads /\ DOMAIN monitor = Threads
    /\ calls \in [Threads -> Nat]
    /\ nextseqid_ \in SeqIds
    /\ requests \subseteq Messages /\ inbound \in Seq(Messages)

(* Where a thread has, or has had, a body before it.                        *)
Unread == {"dispatch", "readOn", "misread", "unwind"}

(* One thread at a time reads, and what is known of the header it, or the  *)
(* thread before it, has read.                                             *)
InStep ==
    /\ \A t \in Threads : pc[t] \in Reading <=> readMutex_ = t
    /\ \A t \in Threads : pc[t] = "dispatch" =>
          headerRead /\ ~recvPending_ /\ inbound # <<>> /\ rseqid[t] = inbound[1].seqid
    /\ \A t \in Threads : pc[t] = "read" => ~headerRead /\ ~recvPending_
    /\ recvPending_ => headerRead /\ inbound # <<>> /\ seqidPending_ = inbound[1].seqid
    /\ headerRead => \/ recvPending_ \/ stop_
                     \/ \E t \in Threads : pc[t] \in Unread

StreamInv == Typed /\ InStep

(* Where a thread has sent its call and waits for the reply.               *)
Receiving == Reading \cup {"recv", "asleep"}

(* A thread has a sequence id of its own from send_ to the end of recv_.   *)
IdsOwned ==
    /\ \A t \in Threads : pc[t] = "idle" => seqid[t] = None
    /\ \A t \in Threads : pc[t] \in Reading \cup {"recv", "asleep"} => seqid[t] # None
    /\ \A t \in Threads : seqid[t] # None => seqid[t] \in Outstanding
    /\ \A t, u \in Threads : t # u /\ seqid[t] # None => seqid[t] # seqid[u]

(* A message with the id of a call in progress belongs to that call.       *)
Belongs(m) == \A t \in Threads : m.seqid = seqid[t] => m.by = <<t, calls[t]>>
MessagesOwned ==
    /\ \A m \in requests : Belongs(m)
    /\ \A i \in 1..Len(inbound) : Belongs(inbound[i])

(* The id generateSeqId is about to hand out belongs to no call that has   *)
(* not ended and to no message that is under way.                          *)
IdIsFree ==
    /\ nextseqid_ \notin Outstanding
    /\ \A m \in requests : m.seqid # nextseqid_
    /\ \A i \in 1..Len(inbound) : inbound[i].seqid # nextseqid_

(* It never hands out one that is in flight: so it is until 2^32 ids have  *)
(* been used while one call, or its late reply, lasts.                     *)
OnlyFreeIds == (\E t \in Threads : GenerateSeqId(t)) => IdIsFree
NoReuse == [][OnlyFreeIds]_vars

(* Only a request that was written to its end is answered.                 *)
SentBy(m) == \A t \in Threads : m.seqid = seqid[t] => pc[t] \in Receiving
Sent ==
    /\ \A m \in requests : SentBy(m)
    /\ \A i \in 1..Len(inbound) : SentBy(inbound[i])

(* A thread sleeps on the monitor its call has in the map.                 *)
Sleepers ==
    /\ \A t \in waiters : t \in Threads /\ pc[t] = "asleep"
    /\ \A t \in Threads : pc[t] \in {"check", "wait", "asleep"} =>
          monitor[t] = seqidToMonitorMap_[seqid[t]]

(* Who reads is handed on: once threads wait, there is a reader, a header  *)
(* left for another call, or the flag that sends the next one to read.     *)
HandedOn ==
    \/ recvPending_ \/ wakeupSomeone_
    \/ \E t \in Threads : pc[t] \in {"read"} \cup Unread
    \/ \A t \in Threads : pc[t] \notin {"check", "wait", "asleep", "loop"}

(* Until the client is stopped every id in the map, and the one that is    *)
(* pending, belongs to a call; an unknown one is about to stop it.         *)
OwnersKnown ==
    /\ Outstanding \subseteq SeqIds
    /\ ~stop_ => \A s \in Outstanding : \E t \in Threads : seqid[t] = s
    /\ recvPending_ /\ ~stop_ => \/ \E t \in Threads : seqid[t] = seqidPending_
                                 \/ \E t \in Threads : pc[t] = "unwind"

(* A calm step hands out and takes back no id, monitor or message, and     *)
(* leaves a thread in the half of its call it is in.                       *)
Waiting == {"check", "wait", "asleep"}
Calm ==
    /\ UNCHANGED <<seqidToMonitorMap_, freeMonitors_, monitor, seqid, inbound>>
    /\ requests' \subseteq requests
    /\ \A t \in Threads : seqid[t] # None => calls'[t] = calls[t]
    /\ \A t \in Threads :
          \/ pc'[t] = pc[t]
          \/ /\ pc[t] \in Receiving /\ pc'[t] \in Receiving
             /\ pc'[t] \in Waiting => pc[t] \in Waiting
          \/ /\ pc[t] \in {"idle", "send", "writing"}
             /\ pc'[t] \in {"send", "writing", "marking"}
    /\ \A t \in waiters' : \/ t \in waiters /\ (t \in Threads /\ pc[t] = "asleep" => pc'[t] = "asleep")
                           \/ t \in Threads /\ pc'[t] = "asleep"

(* A step outside recv_ leaves alone what the readers look at.             *)
Inner == Reading \cup {"asleep"}
Outside ==
    /\ UNCHANGED <<stop_, seqidToMonitorMap_, recvPending_, seqidPending_, seqid>>
    /\ wakeupSomeone_ => wakeupSomeone_'
    /\ waiters' \subseteq waiters
    /\ \A t \in Threads : pc'[t] = pc[t] \/ (pc[t] \notin Inner /\ pc'[t] \notin Inner)

(* A reply with another id is still a message.                             *)
LEMMA Readdressed ==
    ASSUME NEW B, NEW m \in [seqid : Int, by : B], NEW s \in Int
    PROVE  [m EXCEPT !.seqid = s] \in [seqid : Int, by : B]
  BY Zenon

(* None is no thread and no sequence id.                                   *)
LEMMA NoneApart == None \notin Threads /\ None \notin Int /\ None \notin SeqIds
BY ConstantsAssumption DEF SeqIds

(* The next message stays the next one when others arrive behind it.       *)
LEMMA AppendedFirst ==
    ASSUME NEW T, NEW q \in Seq(T), NEW m, q # <<>>
    PROVE  Append(q, m) # <<>> /\ Append(q, m)[1] = q[1]
OBVIOUS

(* Types, and one record for every message.                                *)
LEMMA TypedStep == StreamInv /\ [Next]_vars => Typed'
<1> SUFFICES ASSUME StreamInv, [Next]_vars, ~Typed'
             PROVE  FALSE
  BY Zenon
<1> USE NoneApart DEF StreamInv, Typed, Labels, Reading, Goto,
      syncVars, pendingVars, lockVars, localVars, wireVars
<1>1. ASSUME NEW t \in Threads, GenerateSeqId(t) PROVE FALSE
  <2>1. nextseqid_ \in SeqIds => Successor(nextseqid_) \in SeqIds
    BY ConstantsAssumption DEF SeqIds, Successor
  <2>2. calls[t] + 1 \in Nat
    OBVIOUS
  <2>3. QED
    BY <1>1, <2>1, <2>2, Zenon DEF GenerateSeqId
<1>2. ASSUME NEW t \in Threads, BeginOneway(t) PROVE FALSE
  <2>1. calls[t] + 1 \in Nat
    OBVIOUS
  <2>2. QED
    BY <1>2, <2>1, Zenon DEF BeginOneway
<1>3. ASSUME NEW t \in Threads, LockWrite(t) PROVE FALSE
  BY <1>3, Zenon DEF LockWrite
<1>4. ASSUME NEW t \in Threads, Written(t) PROVE FALSE
  <2>1. seqid[t] # None => [seqid |-> seqid[t], by |-> <<t, calls[t]>>] \in Messages
    BY ConstantsAssumption DEF Messages, SeqIds
  <2>2. requests' \subseteq Messages
    BY <1>4, <2>1, Zenon DEF Written
  <2>3. QED
    BY <1>4, <2>2, Zenon DEF Written
<1>5. ASSUME NEW t \in Threads, SendMarksBad(t) PROVE FALSE
  BY <1>5, Zenon DEF SendMarksBad
<1>6. ASSUME NEW t \in Threads, LockRead(t) PROVE FALSE
  BY <1>6, Zenon DEF LockRead, GetPending
<1>7. ASSUME NEW t \in Threads, LoopAgain(t) PROVE FALSE
  BY <1>7, Zenon DEF LoopAgain, GetPending
<1>8. ASSUME NEW t \in Threads, ReadHeader(t) PROVE FALSE
  BY <1>8, Zenon DEF ReadHeader
<1>9. ASSUME NEW t \in Threads, ReadFails(t) PROVE FALSE
  BY <1>9, Zenon DEF ReadFails
<1>10. ASSUME NEW t \in Threads, UpdatePending(t) PROVE FALSE
  BY <1>10, Zenon DEF UpdatePending
<1>11. ASSUME NEW t \in Threads, CheckForWork(t) PROVE FALSE
  BY <1>11, Zenon DEF CheckForWork
<1>12. ASSUME NEW t \in Threads, WaitForever(t) PROVE FALSE
  BY <1>12, Zenon DEF WaitForever
<1>13. ASSUME NEW t \in Threads, Wakeup(t) PROVE FALSE
  BY <1>13, Zenon DEF Wakeup
<1>14. ASSUME NEW t \in Threads, Reply(t) PROVE FALSE
  BY <1>14 DEF Reply, EndRecv, InStep
<1>15. ASSUME NEW t \in Threads, Unwind(t) PROVE FALSE
  BY <1>15, Zenon DEF Unwind, EndRecv
<1>16. ASSUME NEW t \in Threads, WriteFails(t) PROVE FALSE
  BY <1>16, Zenon DEF WriteFails
<1>17. ASSUME NEW t \in Threads, BadReply(t) PROVE FALSE
  BY <1>17, Zenon DEF BadReply
<1>24. ASSUME NEW t \in Threads, WrongType(t) PROVE FALSE
  BY <1>24, Zenon DEF WrongType
<1>25. ASSUME NEW t \in Threads, ReadOn(t) PROVE FALSE
  BY <1>25, Zenon DEF ReadOn
<1>18. ASSUME NEW t \in Threads, Spurious(t) PROVE FALSE
  BY <1>18, Zenon DEF Spurious
<1>19. CASE ServerReplies
  BY <1>19 DEF ServerReplies
<1>20. CASE ServerStrays
  <2>1. PICK r \in requests, s \in StraySeqIds :
            /\ requests' = requests \ {r}
            /\ inbound' = Append(inbound, [r EXCEPT !.seqid = s])
    BY <1>20, Zenon DEF ServerStrays
  <2>2. [r EXCEPT !.seqid = s] \in Messages
    <3>1. r \in Messages /\ s \in Int
      BY ConstantsAssumption, Zenon DEF StreamInv, Typed
    <3> QED
      BY <3>1, Readdressed, Zenon DEF Messages
  <2>3. QED
    BY <1>20, <2>1, <2>2 DEF ServerStrays
<1>21. CASE ServerCloses
  BY <1>21, Zenon DEF ServerCloses
<1>22. CASE UNCHANGED vars
  BY <1>22, Zenon DEF vars
<1>23. QED
  BY <1>1, <1>2, <1>3, <1>4, <1>5, <1>6, <1>7, <1>8, <1>9, <1>10, <1>11, <1>12, <1>13,
     <1>14, <1>15, <1>16, <1>17, <1>18, <1>19, <1>20, <1>21, <1>22, <1>24, <1>25, Zenon
     DEF Next, Server, Begin, Step, Mishap

(* Readers stay in step with the stream: only the holder of readMutex_     *)
(* reads a header, and never behind one whose body is unread.              *)
LEMMA InStepStep == StreamInv /\ [Next]_vars => InStep'
<1> SUFFICES ASSUME StreamInv, [Next]_vars, ~InStep'
             PROVE  FALSE
  BY Zenon
<1>0. /\ pc \in [Threads -> Labels] /\ DOMAIN rseqid = Threads
      /\ inbound \in Seq(Messages)
  BY Zenon DEF StreamInv, Typed
<1> USE <1>0, NoneApart DEF StreamInv, InStep, Reading, Unread, Goto,
      syncVars, pendingVars, lockVars, localVars, wireVars
<1>1. ASSUME NEW t \in Threads, GenerateSeqId(t) PROVE FALSE
  BY <1>1, Zenon DEF GenerateSeqId
<1>2. ASSUME NEW t \in Threads, BeginOneway(t) PROVE FALSE
  BY <1>2, Zenon DEF BeginOneway
<1>3. ASSUME NEW t \in Threads, LockWrite(t) PROVE FALSE
  BY <1>3, Zenon DEF LockWrite
<1>4. ASSUME NEW t \in Threads, Written(t) PROVE FALSE
  BY <1>4, Zenon DEF Written
<1>5. ASSUME NEW t \in Threads, SendMarksBad(t) PROVE FALSE
  BY <1>5, Zenon DEF SendMarksBad
<1>6. ASSUME NEW t \in Threads, LockRead(t) PROVE FALSE
  BY <1>6, Zenon DEF LockRead, GetPending
<1>7. ASSUME NEW t \in Threads, LoopAgain(t) PROVE FALSE
  BY <1>7, Zenon DEF LoopAgain, GetPending
<1>8. ASSUME NEW t \in Threads, ReadHeader(t) PROVE FALSE
  BY <1>8 DEF ReadHeader
<1>9. ASSUME NEW t \in Threads, ReadFails(t) PROVE FALSE
  BY <1>9, Zenon DEF ReadFails
<1>10. ASSUME NEW t \in Threads, UpdatePending(t) PROVE FALSE
  BY <1>10, Zenon DEF UpdatePending
<1>11. ASSUME NEW t \in Threads, CheckForWork(t) PROVE FALSE
  BY <1>11, Zenon DEF CheckForWork
<1>12. ASSUME NEW t \in Threads, WaitForever(t) PROVE FALSE
  BY <1>12, Zenon DEF WaitForever
<1>13. ASSUME NEW t \in Threads, Wakeup(t) PROVE FALSE
  BY <1>13, Zenon DEF Wakeup
<1>14. ASSUME NEW t \in Threads, Reply(t) PROVE FALSE
  BY <1>14, Zenon DEF Reply, EndRecv, Mine
<1>15. ASSUME NEW t \in Threads, Unwind(t) PROVE FALSE
  BY <1>15, Zenon DEF Unwind, EndRecv
<1>16. ASSUME NEW t \in Threads, WriteFails(t) PROVE FALSE
  BY <1>16, Zenon DEF WriteFails
<1>17. ASSUME NEW t \in Threads, BadReply(t) PROVE FALSE
  BY <1>17, Zenon DEF BadReply
<1>24. ASSUME NEW t \in Threads, WrongType(t) PROVE FALSE
  BY <1>24, Zenon DEF WrongType
<1>25. ASSUME NEW t \in Threads, ReadOn(t) PROVE FALSE
  BY <1>25, Zenon DEF ReadOn
<1>18. ASSUME NEW t \in Threads, Spurious(t) PROVE FALSE
  BY <1>18, Zenon DEF Spurious
<1>19. CASE ServerReplies
  <2>1. inbound # <<>> => inbound' # <<>> /\ inbound'[1] = inbound[1]
    BY <1>19 DEF ServerReplies
  <2>2. QED
    BY <1>19, <2>1, Zenon DEF ServerReplies
<1>20. CASE ServerStrays
  <2>1. inbound # <<>> => inbound' # <<>> /\ inbound'[1] = inbound[1]
    <3>1. PICK r \in requests, s \in StraySeqIds :
              inbound' = Append(inbound, [r EXCEPT !.seqid = s])
      BY <1>20, Zenon DEF ServerStrays
    <3>2. QED
      BY <3>1, AppendedFirst, Zenon
  <2>2. QED
    BY <1>20, <2>1, Zenon DEF ServerStrays
<1>21. CASE ServerCloses
  BY <1>21, Zenon DEF ServerCloses
<1>22. CASE UNCHANGED vars
  BY <1>22, Zenon DEF vars
<1>23. QED
  BY <1>1, <1>2, <1>3, <1>4, <1>5, <1>6, <1>7, <1>8, <1>9, <1>10, <1>11, <1>12, <1>13,
     <1>14, <1>15, <1>16, <1>17, <1>18, <1>19, <1>20, <1>21, <1>22, <1>24, <1>25, Zenon
     DEF Next, Server, Begin, Step, Mishap

(* Which steps are calm.                                                    *)
LEMMA CalmOrNot ==
    ASSUME StreamInv, IdsOwned, [Next]_vars
    PROVE  \/ Calm
           \/ ServerReplies \/ ServerStrays
           \/ \E t \in Threads :
                 \/ GenerateSeqId(t) \/ Written(t) \/ SendMarksBad(t) \/ UpdatePending(t)
                 \/ Reply(t) \/ Unwind(t)
<1>0. /\ pc \in [Threads -> Labels] /\ calls \in [Threads -> Nat]
      /\ \A t \in Threads : pc[t] = "idle" => seqid[t] = None
  BY Zenon DEF StreamInv, Typed, IdsOwned
<1> USE <1>0 DEF Calm, Goto, Labels, Reading, Receiving, Waiting,
      syncVars, pendingVars, lockVars, localVars, wireVars
<1>1. ASSUME NEW t \in Threads, BeginOneway(t) PROVE Calm
  BY <1>1, Zenon DEF BeginOneway
<1>2. ASSUME NEW t \in Threads, LockWrite(t) PROVE Calm
  BY <1>2, Zenon DEF LockWrite
<1>3. ASSUME NEW t \in Threads, LockRead(t) PROVE Calm
  <2>1. /\ \/ pc' = [pc EXCEPT ![t] = "unwind"] \/ pc' = [pc EXCEPT ![t] = "dispatch"]
           \/ pc' = [pc EXCEPT ![t] = "read"]
        /\ UNCHANGED <<seqidToMonitorMap_, freeMonitors_, monitor, seqid, inbound, requests,
                       calls, waiters>>
        /\ pc[t] = "recv"
    BY <1>3, Zenon DEF LockRead, GetPending
  <2>2. \A u \in Threads \ {t} : pc'[u] = pc[u]
    BY <2>1, Zenon
  <2>3. pc'[t] \in {"unwind", "dispatch", "read"}
    BY <2>1, Zenon
  <2>4. QED
    BY <2>1, <2>2, <2>3, Zenon
<1>4. ASSUME NEW t \in Threads, LoopAgain(t) PROVE Calm
  <2>1. /\ \/ pc' = [pc EXCEPT ![t] = "unwind"] \/ pc' = [pc EXCEPT ![t] = "dispatch"]
           \/ pc' = [pc EXCEPT ![t] = "read"]
        /\ UNCHANGED <<seqidToMonitorMap_, freeMonitors_, monitor, seqid, inbound, requests,
                       calls, waiters>>
        /\ pc[t] = "loop"
    BY <1>4, Zenon DEF LoopAgain, GetPending
  <2>2. \A u \in Threads \ {t} : pc'[u] = pc[u]
    BY <2>1, Zenon
  <2>3. pc'[t] \in {"unwind", "dispatch", "read"}
    BY <2>1, Zenon
  <2>4. QED
    BY <2>1, <2>2, <2>3, Zenon
<1>5. ASSUME NEW t \in Threads, ReadHeader(t) PROVE Calm
  BY <1>5, Zenon DEF ReadHeader
<1>6. ASSUME NEW t \in Threads, ReadFails(t) PROVE Calm
  BY <1>6, Zenon DEF ReadFails
<1>7. ASSUME NEW t \in Threads, CheckForWork(t) PROVE Calm
  BY <1>7, Zenon DEF CheckForWork
<1>8. ASSUME NEW t \in Threads, WaitForever(t) PROVE Calm
  BY <1>8, Zenon DEF WaitForever
<1>9. ASSUME NEW t \in Threads, Wakeup(t) PROVE Calm
  BY <1>9, Zenon DEF Wakeup
<1>10. ASSUME NEW t \in Threads, WriteFails(t) PROVE Calm
  BY <1>10, Zenon DEF WriteFails
<1>11. ASSUME NEW t \in Threads, BadReply(t) PROVE Calm
  BY <1>11, Zenon DEF BadReply
<1>16. ASSUME NEW t \in Threads, WrongType(t) PROVE Calm
  BY <1>16, Zenon DEF WrongType
<1>17. ASSUME NEW t \in Threads, ReadOn(t) PROVE Calm
  BY <1>17, Zenon DEF ReadOn
<1>12. ASSUME NEW t \in Threads, Spurious(t) PROVE Calm
  BY <1>12, Zenon DEF Spurious
<1>13. CASE ServerCloses
  BY <1>13, Zenon DEF ServerCloses
<1>14. CASE UNCHANGED vars
  BY <1>14, Zenon DEF vars
<1> HIDE DEF Calm
<1>15. QED
  BY <1>1, <1>2, <1>3, <1>4, <1>5, <1>6, <1>7, <1>8, <1>9, <1>10, <1>11, <1>12, <1>13, <1>14, <1>16, <1>17, Zenon
     DEF Next, Server, Begin, Step, Mishap

(* Which steps are outside recv_.                                          *)
LEMMA OutsideOrNot ==
    ASSUME StreamInv, [Next]_vars
    PROVE  \/ Outside
           \/ \E t \in Threads :
                 \/ GenerateSeqId(t) \/ SendMarksBad(t) \/ LockRead(t) \/ LoopAgain(t)
                 \/ ReadHeader(t) \/ ReadFails(t) \/ UpdatePending(t) \/ CheckForWork(t)
                 \/ WaitForever(t) \/ Wakeup(t) \/ Reply(t) \/ Unwind(t)
                 \/ BadReply(t) \/ WrongType(t) \/ ReadOn(t)
<1>0. pc \in [Threads -> Labels]
  BY Zenon DEF StreamInv, Typed
<1> USE <1>0 DEF Outside, Goto, Labels, Reading, Inner,
      syncVars, pendingVars, lockVars, localVars, wireVars
<1>1. ASSUME NEW t \in Threads, BeginOneway(t) PROVE Outside
  BY <1>1, Zenon DEF BeginOneway
<1>2. ASSUME NEW t \in Threads, LockWrite(t) PROVE Outside
  BY <1>2, Zenon DEF LockWrite
<1>3. ASSUME NEW t \in Threads, Written(t) PROVE Outside
  BY <1>3, Zenon DEF Written
<1>4. ASSUME NEW t \in Threads, WriteFails(t) PROVE Outside
  BY <1>4, Zenon DEF WriteFails
<1>5. ASSUME NEW t \in Threads, Spurious(t) PROVE Outside
  BY <1>5, Zenon DEF Spurious
<1>6. CASE ServerReplies
  BY <1>6, Zenon DEF ServerReplies
<1>7. CASE ServerStrays
  BY <1>7, Zenon DEF ServerStrays
<1>8. CASE ServerCloses
  BY <1>8, Zenon DEF ServerCloses
<1>9. CASE UNCHANGED vars
  BY <1>9, Zenon DEF vars
<1> HIDE DEF Outside
<1>10. QED
  BY <1>1, <1>2, <1>3, <1>4, <1>5, <1>6, <1>7, <1>8, <1>9, Zenon
     DEF Next, Server, Begin, Step, Mishap

(* What NoReuse says of a step of generateSeqId.                           *)
LEMMA GeneratedIsFree ==
    ASSUME Typed, NEW t \in Threads, GenerateSeqId(t), [OnlyFreeIds]_vars
    PROVE  IdIsFree
<1>1. pc' # pc
  BY Zenon DEF Typed, GenerateSeqId, Goto
<1>2. vars' # vars
  BY <1>1, Zenon DEF vars
<1>3. QED
  BY <1>2, Zenon DEF OnlyFreeIds

(* Every message carries an id.                                            *)
LEMMA MessageIds ==
    ASSUME Typed
    PROVE  /\ \A m \in requests : m.seqid # None
           /\ \A i \in 1..Len(inbound) : inbound[i].seqid # None
<1>1. \A m \in Messages : m.seqid # None
  BY ConstantsAssumption, Zenon DEF Messages
<1>2. QED
  BY <1>1 DEF Typed

(* Ids are the property of their calls, if they are free when handed out.  *)
LEMMA IdsStep ==
    StreamInv /\ IdsOwned /\ [Next]_vars /\ [OnlyFreeIds]_vars => IdsOwned'
<1> SUFFICES ASSUME StreamInv, IdsOwned, [Next]_vars, [OnlyFreeIds]_vars, ~IdsOwned'
             PROVE  FALSE
  BY Zenon
<1>0. pc \in [Threads -> Labels] /\ seqid \in [Threads -> SeqIds \cup {None}]
  BY Zenon DEF StreamInv, Typed
<1> USE <1>0, NoneApart DEF IdsOwned, Reading, Goto, Outstanding, syncVars,
      pendingVars, lockVars, localVars, wireVars
<1>c. CASE Calm
  BY <1>c, Zenon DEF Calm, Waiting, Receiving
<1>1. ASSUME NEW t \in Threads, GenerateSeqId(t) PROVE FALSE
  <2>1. nextseqid_ \notin Outstanding /\ nextseqid_ # None
    BY <1>1, GeneratedIsFree, Zenon DEF IdIsFree, SeqIds, StreamInv, Typed
  <2>2. Outstanding' = Outstanding \cup {nextseqid_}
    BY <1>1, Zenon DEF GenerateSeqId
  <2>3. seqid' = [seqid EXCEPT ![t] = nextseqid_] /\ pc' = [pc EXCEPT ![t] = "send"]
    BY <1>1, Zenon DEF GenerateSeqId
  <2> HIDE DEF Outstanding
  <2>4. QED
    BY <2>1, <2>2, <2>3, Zenon
<1>4. ASSUME NEW t \in Threads, Written(t) PROVE FALSE
  BY <1>4, Zenon DEF Written
<1>5. ASSUME NEW t \in Threads, SendMarksBad(t) PROVE FALSE
  BY <1>5, Zenon DEF SendMarksBad
<1>10. ASSUME NEW t \in Threads, UpdatePending(t) PROVE FALSE
  BY <1>10, Zenon DEF UpdatePending
<1>14. ASSUME NEW t \in Threads, Reply(t) PROVE FALSE
  BY <1>14, Zenon DEF Reply, EndRecv, Forget, MapWithout
<1>15. ASSUME NEW t \in Threads, Unwind(t) PROVE FALSE
  BY <1>15, Zenon DEF Unwind, EndRecv, Forget, MapWithout
<1>19. CASE ServerReplies
  BY <1>19, Zenon DEF ServerReplies
<1>20. CASE ServerStrays
  BY <1>20, Zenon DEF ServerStrays
<1>q. QED
  BY <1>c, <1>1, <1>4, <1>5, <1>10, <1>14, <1>15, <1>19, <1>20, CalmOrNot, Zenon


(* A message answers the call that has its id.                             *)
LEMMA MessagesStep ==
    StreamInv /\ IdsOwned /\ MessagesOwned /\ [Next]_vars /\ [OnlyFreeIds]_vars
        => MessagesOwned'
<1> SUFFICES ASSUME StreamInv, IdsOwned, MessagesOwned,
                    [Next]_vars, [OnlyFreeIds]_vars, ~MessagesOwned'
             PROVE  FALSE
  BY Zenon
<1>0. /\ seqid \in [Threads -> SeqIds \cup {None}] /\ calls \in [Threads -> Nat]
      /\ inbound \in Seq(Messages)
  BY Zenon DEF StreamInv, Typed
<1>m. /\ \A m \in requests : m.seqid # None
      /\ \A i \in 1..Len(inbound) : inbound[i].seqid # None
  BY MessageIds, Zenon DEF StreamInv
<1> USE <1>0, NoneApart DEF MessagesOwned, Belongs,
      Goto, syncVars, pendingVars, lockVars, localVars, wireVars
<1>c. CASE Calm
  BY <1>c, <1>m DEF Calm
<1>1. ASSUME NEW t \in Threads, GenerateSeqId(t) PROVE FALSE
  <2>1. IdIsFree
    BY <1>1, GeneratedIsFree, Zenon DEF StreamInv
  <2>2. /\ seqid' = [seqid EXCEPT ![t] = nextseqid_]
        /\ calls' = [calls EXCEPT ![t] = calls[t] + 1]
        /\ requests' = requests /\ inbound' = inbound
    BY <1>1, Zenon DEF GenerateSeqId
  <2>3. \A m : m.seqid # nextseqid_ /\ Belongs(m) => Belongs(m)'
    BY <2>2, Zenon
  <2> HIDE DEF Belongs
  <2>4. QED
    BY <2>1, <2>2, <2>3, Zenon DEF IdIsFree
<1>4. ASSUME NEW t \in Threads, Written(t) PROVE FALSE
  BY <1>4, SMTT(30) DEF Written, IdsOwned
<1>5. ASSUME NEW t \in Threads, SendMarksBad(t) PROVE FALSE
  <2>1. seqid' = [seqid EXCEPT ![t] = None] /\ UNCHANGED <<calls, requests, inbound>>
    BY <1>5, Zenon DEF SendMarksBad
  <2>2. QED
    BY <1>m, <2>1, Zenon
<1>10. ASSUME NEW t \in Threads, UpdatePending(t) PROVE FALSE
  BY <1>10, Zenon DEF UpdatePending
<1>14. ASSUME NEW t \in Threads, Reply(t) PROVE FALSE
  <2>1. inbound # <<>>
    BY <1>14, Zenon DEF Reply, StreamInv, InStep
  <2>2. \A i \in 1..Len(inbound') : i + 1 \in 1..Len(inbound) /\ inbound'[i] = inbound[i + 1]
    BY <1>14, <2>1, SMTT(30) DEF Reply
  <2>3. seqid' = [seqid EXCEPT ![t] = None] /\ calls' = calls /\ requests' = requests
    BY <1>14, Zenon DEF Reply, EndRecv
  <2>4. \A m : Belongs(m) /\ m.seqid # None => Belongs(m)'
    BY <2>3, Zenon
  <2>5. \A i \in 1..Len(inbound') : inbound'[i].seqid # None /\ Belongs(inbound'[i])
    BY <1>m, <2>2
  <2> HIDE DEF Belongs
  <2>6. QED
    BY <1>m, <2>3, <2>4, <2>5, Zenon
<1>15. ASSUME NEW t \in Threads, Unwind(t) PROVE FALSE
  BY <1>15, <1>m, Zenon DEF Unwind, EndRecv
<1>19. CASE ServerReplies
  BY <1>19, SMTT(30) DEF ServerReplies
<1>20. CASE ServerStrays
  BY <1>20, ConstantsAssumption, SMTT(30) DEF ServerStrays
<1>q. QED
  BY <1>c, <1>1, <1>4, <1>5, <1>10, <1>14, <1>15, <1>19, <1>20, CalmOrNot, Zenon


(* A message with the id of a call was written by that call.                *)
LEMMA SentStep ==
    StreamInv /\ IdsOwned /\ Sent /\ [Next]_vars /\ [OnlyFreeIds]_vars
        => Sent'
<1> SUFFICES ASSUME StreamInv, IdsOwned, Sent, [Next]_vars, [OnlyFreeIds]_vars, ~Sent'
             PROVE  FALSE
  BY Zenon
<1>0. /\ pc \in [Threads -> Labels] /\ seqid \in [Threads -> SeqIds \cup {None}]
      /\ DOMAIN rseqid = Threads /\ DOMAIN monitor = Threads
      /\ inbound \in Seq(Messages)
      /\ \A u \in Threads : pc[u] \in Reading <=> readMutex_ = u
  BY Zenon DEF StreamInv, Typed, InStep
<1>m. /\ \A m \in requests : m.seqid # None
      /\ \A i \in 1..Len(inbound) : inbound[i].seqid # None
  BY MessageIds, Zenon DEF StreamInv
<1>p. recvPending_ => /\ inbound # <<>> /\ seqidPending_ = inbound[1].seqid
                      /\ seqidPending_ # None /\ 1 \in 1..Len(inbound)
  BY <1>m DEF StreamInv, Typed, InStep
<1> USE <1>0, NoneApart DEF Sent, SentBy,
      Goto, Reading, Receiving, syncVars, pendingVars, lockVars, localVars, wireVars
<1>c. CASE Calm
  BY <1>c, <1>m, Zenon DEF Calm, IdsOwned, Labels
<1>1. ASSUME NEW t \in Threads, GenerateSeqId(t) PROVE FALSE
  <2>1. IdIsFree
    BY <1>1, GeneratedIsFree, Zenon DEF StreamInv
  <2>2. /\ seqid' = [seqid EXCEPT ![t] = nextseqid_]
        /\ pc' = [pc EXCEPT ![t] = "send"]
        /\ requests' = requests /\ inbound' = inbound
    BY <1>1, Zenon DEF GenerateSeqId
  <2>3. QED
    BY <2>1, <2>2, Zenon DEF IdIsFree
<1>4. ASSUME NEW t \in Threads, Written(t) PROVE FALSE
  BY <1>4, SMTT(30) DEF Written, IdsOwned
<1>5. ASSUME NEW t \in Threads, SendMarksBad(t) PROVE FALSE
  BY <1>5, <1>m, Zenon DEF SendMarksBad
<1>10. ASSUME NEW t \in Threads, UpdatePending(t) PROVE FALSE
  BY <1>10, SMTT(30) DEF UpdatePending
<1>14. ASSUME NEW t \in Threads, Reply(t) PROVE FALSE
  <2>1. inbound # <<>>
    BY <1>14, Zenon DEF Reply, StreamInv, InStep
  <2>2. \A i \in 1..Len(inbound') : i + 1 \in 1..Len(inbound) /\ inbound'[i] = inbound[i + 1]
    BY <1>14, <2>1, SMTT(30) DEF Reply
  <2>3. /\ seqid' = [seqid EXCEPT ![t] = None] /\ pc' = [pc EXCEPT ![t] = "idle"]
        /\ requests' = requests
    BY <1>14, Zenon DEF Reply, EndRecv
  <2>4. \A u \in Threads : seqid'[u] # None => seqid'[u] = seqid[u] /\ pc'[u] = pc[u]
    BY <2>3, Zenon
  <2>5. \A i \in 1..Len(inbound') : inbound'[i].seqid # None /\ SentBy(inbound[i + 1])
    BY <1>m, <2>2, SMTT(30)
  <2>6. QED
    BY <1>m, <2>2, <2>3, <2>4, <2>5, SMTT(30)
<1>15. ASSUME NEW t \in Threads, Unwind(t) PROVE FALSE
  BY <1>15, <1>m, Zenon DEF Unwind, EndRecv
<1>19. CASE ServerReplies
  BY <1>19, SMTT(30) DEF ServerReplies
<1>20. CASE ServerStrays
  BY <1>20, ConstantsAssumption, SMTT(30) DEF ServerStrays
<1>q. QED
  BY <1>c, <1>1, <1>4, <1>5, <1>10, <1>14, <1>15, <1>19, <1>20, CalmOrNot, Zenon


(* Threads sleep on monitors of the map.                                    *)
LEMMA SleepersStep ==
    StreamInv /\ IdsOwned /\ Sleepers /\ [Next]_vars /\ [OnlyFreeIds]_vars
        => Sleepers'
<1> SUFFICES ASSUME StreamInv, IdsOwned, Sleepers, [Next]_vars, [OnlyFreeIds]_vars, ~Sleepers'
             PROVE  FALSE
  BY Zenon
<1>0. /\ pc \in [Threads -> Labels] /\ seqid \in [Threads -> SeqIds \cup {None}]
      /\ DOMAIN rseqid = Threads /\ DOMAIN monitor = Threads
      /\ inbound \in Seq(Messages)
      /\ \A u \in Threads : pc[u] \in Reading <=> readMutex_ = u
  BY Zenon DEF StreamInv, Typed, InStep
<1>m. /\ \A m \in requests : m.seqid # None
      /\ \A i \in 1..Len(inbound) : inbound[i].seqid # None
  BY MessageIds, Zenon DEF StreamInv
<1>p. recvPending_ => /\ inbound # <<>> /\ seqidPending_ = inbound[1].seqid
                      /\ seqidPending_ # None /\ 1 \in 1..Len(inbound)
  BY <1>m DEF StreamInv, Typed, InStep
<1> USE <1>0, NoneApart DEF Sleepers, Sleeping,
      Goto, Reading, Outstanding, syncVars, pendingVars, lockVars, localVars, wireVars
<1>c. CASE Calm
  BY <1>c, Zenon DEF Calm, Waiting
<1>1. ASSUME NEW t \in Threads, GenerateSeqId(t) PROVE FALSE
  <2>1. nextseqid_ \notin Outstanding
    BY <1>1, GeneratedIsFree, Zenon DEF IdIsFree, StreamInv
  <2>2. \A s \in Outstanding : seqidToMonitorMap_'[s] = seqidToMonitorMap_[s]
    BY <1>1, <2>1, Zenon DEF GenerateSeqId
  <2>3. /\ seqid' = [seqid EXCEPT ![t] = nextseqid_] /\ pc' = [pc EXCEPT ![t] = "send"]
        /\ waiters' = waiters /\ monitor' = monitor
    BY <1>1, Zenon DEF GenerateSeqId
  <2>4. QED
    BY <1>1, <2>2, <2>3, SMTT(30) DEF GenerateSeqId, IdsOwned
<1>4. ASSUME NEW t \in Threads, Written(t) PROVE FALSE
  BY <1>4, Zenon DEF Written
<1>5. ASSUME NEW t \in Threads, SendMarksBad(t) PROVE FALSE
  BY <1>5, Zenon DEF SendMarksBad
<1>10. ASSUME NEW t \in Threads, UpdatePending(t) PROVE FALSE
  BY <1>10, SMTT(30) DEF UpdatePending
<1>14. ASSUME NEW t \in Threads, Reply(t) PROVE FALSE
  BY <1>14, SMTT(30) DEF Reply, EndRecv, Forget, MapWithout, IdsOwned
<1>15. ASSUME NEW t \in Threads, Unwind(t) PROVE FALSE
  BY <1>15, SMTT(30) DEF Unwind, EndRecv, Forget, MapWithout, IdsOwned
<1>19. CASE ServerReplies
  <2>1. UNCHANGED <<pc, seqid, monitor, waiters, seqidToMonitorMap_>>
    BY <1>19, Zenon DEF ServerReplies
  <2>2. QED
    BY <2>1, Zenon
<1>20. CASE ServerStrays
  <2>1. UNCHANGED <<pc, seqid, monitor, waiters, seqidToMonitorMap_>>
    BY <1>20, Zenon DEF ServerStrays
  <2>2. QED
    BY <2>1, Zenon
<1>q. QED
  BY <1>c, <1>1, <1>4, <1>5, <1>10, <1>14, <1>15, <1>19, <1>20, CalmOrNot, Zenon


(* Reading is handed on, and ids have owners.                              *)
LEMMA OwnersStep ==
    StreamInv /\ IdsOwned /\ HandedOn /\ OwnersKnown /\ [Next]_vars /\ [OnlyFreeIds]_vars
        => (HandedOn /\ OwnersKnown)'
<1> SUFFICES ASSUME StreamInv, IdsOwned, HandedOn,
                    OwnersKnown, [Next]_vars, [OnlyFreeIds]_vars, ~(HandedOn /\ OwnersKnown)'
             PROVE  FALSE
  BY Zenon
<1>0. /\ pc \in [Threads -> Labels] /\ seqid \in [Threads -> SeqIds \cup {None}]
      /\ DOMAIN rseqid = Threads /\ DOMAIN monitor = Threads
      /\ inbound \in Seq(Messages)
      /\ \A u \in Threads : pc[u] \in Reading <=> readMutex_ = u
  BY Zenon DEF StreamInv, Typed, InStep
<1>m. /\ \A m \in requests : m.seqid # None
      /\ \A i \in 1..Len(inbound) : inbound[i].seqid # None
  BY MessageIds, Zenon DEF StreamInv
<1>p. recvPending_ => /\ inbound # <<>> /\ seqidPending_ = inbound[1].seqid
                      /\ seqidPending_ # None /\ 1 \in 1..Len(inbound)
  BY <1>m DEF StreamInv, Typed, InStep
<1> USE <1>0, NoneApart DEF HandedOn, OwnersKnown,
      Goto, Reading, Unread, Outstanding, syncVars, pendingVars, lockVars, localVars, wireVars
<1>c. CASE Outside
  BY <1>c, Zenon DEF Outside, Inner
<1>1. ASSUME NEW t \in Threads, GenerateSeqId(t) PROVE FALSE
  <2>1. /\ seqid' = [seqid EXCEPT ![t] = nextseqid_] /\ pc' = [pc EXCEPT ![t] = "send"]
        /\ UNCHANGED <<stop_, recvPending_, seqidPending_, wakeupSomeone_>>
    BY <1>1, Zenon DEF GenerateSeqId
  <2>2. /\ Outstanding' = Outstanding \cup {nextseqid_} /\ nextseqid_ # None
        /\ nextseqid_ \in SeqIds
    BY <1>1, Zenon DEF GenerateSeqId, SeqIds, StreamInv, Typed
  <2>3. pc[t] = "idle" /\ seqid[t] = None
    BY <1>1, Zenon DEF GenerateSeqId, IdsOwned
  <2>4. \A s \in SeqIds : s # None
    BY Zenon DEF SeqIds
  <2> HIDE DEF Outstanding
  <2>5. HandedOn'
    BY <2>1, <2>3, Zenon
  <2>6. OwnersKnown'
    <3>1. \A s \in Outstanding : \A u \in Threads : seqid[u] = s => u # t
      BY <2>3, <2>4, Zenon
    <3>2. ASSUME recvPending_, NEW u \in Threads, seqid[u] = seqidPending_ PROVE u # t
      BY <1>p, <2>3, <3>2, Zenon
    <3>3. QED
      BY <2>1, <2>2, <2>3, <3>1, <3>2, Zenon
  <2>7. QED
    BY <2>5, <2>6, Zenon
<1>5. ASSUME NEW t \in Threads, SendMarksBad(t) PROVE FALSE
  BY <1>5, Zenon DEF SendMarksBad
<1>6. ASSUME NEW t \in Threads, LockRead(t) PROVE FALSE
  BY <1>6, SMTT(30) DEF LockRead, GetPending
<1>7. ASSUME NEW t \in Threads, LoopAgain(t) PROVE FALSE
  BY <1>7, Zenon DEF LoopAgain, GetPending
<1>8. ASSUME NEW t \in Threads, ReadHeader(t) PROVE FALSE
  BY <1>8, Zenon DEF ReadHeader
<1>9. ASSUME NEW t \in Threads, ReadFails(t) PROVE FALSE
  BY <1>9, Zenon DEF ReadFails
<1>10. ASSUME NEW t \in Threads, UpdatePending(t) PROVE FALSE
  BY <1>10, SMTT(30) DEF UpdatePending
<1>11. ASSUME NEW t \in Threads, CheckForWork(t) PROVE FALSE
  BY <1>11, Zenon DEF CheckForWork
<1>12. ASSUME NEW t \in Threads, WaitForever(t) PROVE FALSE
  BY <1>12, Zenon DEF WaitForever
<1>13. ASSUME NEW t \in Threads, Wakeup(t) PROVE FALSE
  BY <1>13, Zenon DEF Wakeup
<1>14. ASSUME NEW t \in Threads, Reply(t) PROVE FALSE
  BY <1>14, Zenon DEF Reply, EndRecv, Forget, MapWithout, IdsOwned, StreamInv, InStep
<1>15. ASSUME NEW t \in Threads, Unwind(t) PROVE FALSE
  BY <1>15, Zenon DEF Unwind, EndRecv, Forget, MapWithout
<1>17. ASSUME NEW t \in Threads, BadReply(t) PROVE FALSE
  BY <1>17, Zenon DEF BadReply
<1>24. ASSUME NEW t \in Threads, WrongType(t) PROVE FALSE
  BY <1>24, Zenon DEF WrongType
<1>25. ASSUME NEW t \in Threads, ReadOn(t) PROVE FALSE
  BY <1>25, ZenonT(60) DEF ReadOn
<1>q. QED
  BY <1>c, <1>1, <1>5, <1>6, <1>7, <1>8, <1>9, <1>10, <1>11, <1>12, <1>13, <1>14, <1>15, <1>17,
     <1>24, <1>25, OutsideOrNot, Zenon


(* A client that was just made has no call and no message.                 *)
LEMMA Start == Init => StreamInv /\ IdsOwned /\ MessagesOwned
<1> SUFFICES ASSUME Init PROVE StreamInv /\ IdsOwned /\ MessagesOwned
  BY Zenon
<1>1. StreamInv
  BY ConstantsAssumption DEF Init, StreamInv, Typed, InStep, Labels, Reading
<1>2. IdsOwned /\ MessagesOwned
  BY DEF Init, IdsOwned, MessagesOwned, Reading
<1>3. QED
  BY <1>1, <1>2, Zenon

(* readMessageBegin is called between two messages, never while the body   *)
(* behind a header that was read is not: whichever threads read, sleep,    *)
(* fail or run markBad_, with sequence ids reused or not.  A reader that a *)
(* message of the wrong type has misled is not followed, and keeps the     *)
(* others from reading.                                                    *)
THEOREM HeadersInStep == Spec => [](\A t \in Threads : pc[t] = "read" => ~headerRead)
<1>1. StreamInv /\ [Next]_vars => StreamInv'
  BY TypedStep, InStepStep, Zenon DEF StreamInv
<1>2. StreamInv => \A t \in Threads : pc[t] = "read" => ~headerRead
  BY Zenon DEF StreamInv, InStep
<1>3. QED
  BY <1>1, <1>2, Start, PTL DEF Spec

(* As long as generateSeqId hands out ids that are free, recv_ reads the   *)
(* body of the reply to its own call, whichever thread read the header.    *)
THEOREM RepliesAreOwn == Spec /\ NoReuse => []OwnReply
<1> DEFINE IInv == StreamInv /\ IdsOwned /\ MessagesOwned
<1>1. IInv /\ [Next]_vars /\ [OnlyFreeIds]_vars => IInv'
  BY TypedStep, InStepStep, IdsStep, MessagesStep, Zenon DEF StreamInv
<1>2. IInv => OwnReply
  <2>1. ASSUME IInv, NEW t \in Threads, pc[t] = "dispatch", Mine(t)
        PROVE  headerRead /\ Head(inbound).by = <<t, calls[t]>>
    <3>1. headerRead /\ inbound # <<>> /\ inbound[1].seqid = seqid[t]
      BY <2>1, Zenon DEF StreamInv, InStep, Mine
    <3>2. 1 \in 1..Len(inbound) /\ Head(inbound) = inbound[1]
      BY <2>1, <3>1 DEF StreamInv, Typed
    <3>3. QED
      BY <2>1, <3>1, <3>2, Zenon DEF MessagesOwned, Belongs
  <2>2. QED
    BY <2>1, Zenon DEF OwnReply, StreamInv, InStep
<1>3. QED
  BY <1>1, <1>2, Start, PTL DEF Spec, NoReuse

-----------------------------------------------------------------------------
(* The monitors of the calls, as long as generateSeqId hands out no id     *)
(* that is still in flight. No two calls share a monitor, and a reader     *)
(* that leaves recv_ always has a thread to hand the socket to. That rests *)
(* on which ids can be in the map and in a pending header, and on who      *)
(* wakes whom: a thread that goes to sleep has seen a header that is       *)
(* pending for another call, and that call is awake.                       *)

(* Monitors that are in use are told apart, and there are always others.   *)
MonitorsApart ==
    /\ IsFiniteSet(InUse)
    /\ freeMonitors_ \in Seq(Nat)
    /\ \A r, s \in Outstanding :
          seqidToMonitorMap_[r] = seqidToMonitorMap_[s] => r = s
    /\ \A i, j \in 1..Len(freeMonitors_) : freeMonitors_[i] = freeMonitors_[j] => i = j
    /\ \A s \in Outstanding : /\ seqidToMonitorMap_[s] \in Nat
                              /\ \A i \in 1..Len(freeMonitors_) :
                                    seqidToMonitorMap_[s] # freeMonitors_[i]

(* The call a header is pending for is awake, a thread goes to sleep only  *)
(* while there is such a call, and nobody sleeps while a reader that has   *)
(* not noticed the stop is at work.                                        *)
Awake ==
    /\ recvPending_ => \A t \in waiters : seqid[t] # seqidPending_
    /\ \A t \in Threads : pc[t] = "wait" =>
          recvPending_ /\ \E u \in Threads \ {t} : seqid[u] = seqidPending_
    /\ waiters # {} => \E t \in Threads : t \notin waiters /\ seqid[t] # None
    /\ stop_ /\ waiters # {} => \A t \in Threads : pc[t] \notin {"read", "dispatch"}

(* While threads sleep, some other call is awake.                           *)
LEMMA AwakeStep ==
    StreamInv /\ IdsOwned /\ Sent /\ Sleepers
    /\ HandedOn /\ OwnersKnown /\ Awake /\ [Next]_vars /\ [OnlyFreeIds]_vars
        => Awake' \/ \E t \in Threads : Reply(t)
<1> SUFFICES ASSUME StreamInv, IdsOwned, Sent, Sleepers,
                    HandedOn, OwnersKnown, Awake, [Next]_vars, [OnlyFreeIds]_vars,
                    \A t \in Threads : ~Reply(t)
             PROVE  Awake'
  BY Zenon
<1>0. /\ pc \in [Threads -> Labels] /\ seqid \in [Threads -> SeqIds \cup {None}]
      /\ DOMAIN rseqid = Threads /\ DOMAIN monitor = Threads
      /\ inbound \in Seq(Messages)
      /\ \A u \in Threads : pc[u] \in Reading <=> readMutex_ = u
  BY Zenon DEF StreamInv, Typed, InStep
<1>m. /\ \A m \in requests : m.seqid # None
      /\ \A i \in 1..Len(inbound) : inbound[i].seqid # None
  BY MessageIds, Zenon DEF StreamInv
<1>p. recvPending_ => /\ inbound # <<>> /\ seqidPending_ = inbound[1].seqid
                      /\ seqidPending_ # None /\ 1 \in 1..Len(inbound)
  BY <1>m DEF StreamInv, Typed, InStep
<1> USE <1>0, NoneApart DEF Sleepers, Awake,
      Goto, Reading, syncVars, pendingVars, lockVars, localVars, wireVars
<1>c. CASE Outside
  BY <1>c, Zenon DEF Outside, Inner
<1>1. ASSUME NEW t \in Threads, GenerateSeqId(t) PROVE Awake'
  <2>1. recvPending_ => nextseqid_ # seqidPending_
    BY <1>1, <1>p, GeneratedIsFree, Zenon DEF IdIsFree, StreamInv
  <2>2. /\ seqid' = [seqid EXCEPT ![t] = nextseqid_] /\ pc' = [pc EXCEPT ![t] = "send"]
        /\ UNCHANGED <<stop_, waiters, recvPending_, seqidPending_, wakeupSomeone_>>
    BY <1>1, Zenon DEF GenerateSeqId
  <2>3. pc[t] = "idle" /\ seqid[t] = None
    BY <1>1, Zenon DEF GenerateSeqId, IdsOwned
  <2>4. recvPending_ => seqidPending_ # None
    BY <1>p, Zenon
  <2>5. QED
    BY <2>1, <2>2, <2>3, <2>4, Zenon
<1>5. ASSUME NEW t \in Threads, SendMarksBad(t) PROVE Awake'
  <2>1. waiters' = {}
    <3>1. \A u \in waiters : /\ seqid[u] \in DOMAIN seqidToMonitorMap_
                            /\ monitor[u] = seqidToMonitorMap_[seqid[u]]
      BY Zenon DEF IdsOwned, Outstanding
    <3>2. waiters' = {u \in waiters : monitor[u] \notin Monitors(seqidToMonitorMap_)}
      BY <1>5, Zenon DEF SendMarksBad, Sleeping
    <3>3. QED
      BY <3>1, <3>2 DEF Monitors
  <2>2. recvPending_ => \A u \in Threads : seqid[u] = seqidPending_ => u # t
    BY <1>5, <1>p, Zenon DEF SendMarksBad, Sent, SentBy, Receiving
  <2>3. QED
    BY <1>5, <2>1, <2>2, Zenon DEF SendMarksBad
<1>6. ASSUME NEW t \in Threads, LockRead(t) PROVE Awake'
  BY <1>6, SMTT(30) DEF LockRead, GetPending
<1>7. ASSUME NEW t \in Threads, LoopAgain(t) PROVE Awake'
  BY <1>7, SMTT(30) DEF LoopAgain, GetPending
<1>8. ASSUME NEW t \in Threads, ReadHeader(t) PROVE Awake'
  BY <1>8, Zenon DEF ReadHeader
<1>9. ASSUME NEW t \in Threads, ReadFails(t) PROVE Awake'
  BY <1>9, Zenon DEF ReadFails
<1>10. ASSUME NEW t \in Threads, UpdatePending(t) PROVE Awake'
  <2>1. t \notin waiters /\ waiters' \subseteq waiters /\ seqid[t] # None
    BY <1>10, Zenon DEF UpdatePending, Sleeping, IdsOwned
  <2>2. \A u \in waiters' : seqid[u] # rseqid[t]
    BY <1>10, SMTT(30) DEF UpdatePending, UpdateNotifies, Sleeping, Outstanding, IdsOwned
  <2>3. \A u \in Threads : pc'[u] # "wait"
    BY <1>10, SMTT(30) DEF UpdatePending
  <2>4. QED
    BY <1>10, <2>1, <2>2, <2>3, SMTT(30) DEF UpdatePending
<1>11. ASSUME NEW t \in Threads, CheckForWork(t) PROVE Awake'
  <2>1. CASE pc'[t] = "wait"
    <3>1. ~stop_ /\ ~wakeupSomeone_ /\ ~(recvPending_ /\ seqidPending_ = seqid[t])
      BY <1>11, <2>1, Zenon DEF CheckForWork
    <3>2. \A u \in Threads : pc[u] \notin {"read"} \cup Unread
      BY <1>11, Zenon DEF CheckForWork, Unread
    <3>3. recvPending_ /\ \E u \in Threads \ {t} : seqid[u] = seqidPending_
      BY <1>11, <3>1, <3>2, Zenon DEF CheckForWork, HandedOn, OwnersKnown
    <3>4. QED
      BY <1>11, <2>1, <3>3, Zenon DEF CheckForWork
  <2>2. CASE pc'[t] # "wait"
    BY <1>11, <2>2, Zenon DEF CheckForWork
  <2>3. QED
    BY <2>1, <2>2, Zenon
<1>12. ASSUME NEW t \in Threads, WaitForever(t) PROVE Awake'
  <2>1. /\ waiters' = waiters \cup {t} /\ pc' = [pc EXCEPT ![t] = "asleep"]
        /\ UNCHANGED <<stop_, recvPending_, seqidPending_, seqid>>
    BY <1>12, Zenon DEF WaitForever
  <2>2. /\ recvPending_ /\ readMutex_ = t
        /\ \A u \in Threads \ {t} : pc[u] \notin Reading
    BY <1>12, Zenon DEF WaitForever
  <2>3. PICK v \in Threads \ {t} : seqid[v] = seqidPending_
    BY <1>12, Zenon DEF WaitForever
  <2>4. seqid[v] # None /\ seqid[t] # seqid[v] /\ v \notin waiters
    BY <1>p, <2>2, <2>3, Zenon DEF IdsOwned
  <2>5. QED
    BY <2>1, <2>2, <2>3, <2>4, Zenon
<1>13. ASSUME NEW t \in Threads, Wakeup(t) PROVE Awake'
  BY <1>13, Zenon DEF Wakeup
<1>15. ASSUME NEW t \in Threads, Unwind(t) PROVE Awake'
  <2>1. waiters' = {}
    <3>1. \A u \in waiters : /\ seqid[u] \in Outstanding \ {seqid[t]}
                            /\ monitor[u] = seqidToMonitorMap_[seqid[u]]
      BY <1>15, Zenon DEF Unwind, IdsOwned
    <3>2. QED
      BY <1>15, <3>1, SMTT(30) DEF Unwind, Sleeping, Monitors, MapWithout
  <2>2. \A u \in Threads : pc'[u] # "wait"
    BY <1>15, Zenon DEF Unwind, EndRecv
  <2>3. QED
    BY <2>1, <2>2, Zenon
<1>17. ASSUME NEW t \in Threads, BadReply(t) PROVE Awake'
  BY <1>17, Zenon DEF BadReply
<1>24. ASSUME NEW t \in Threads, WrongType(t) PROVE Awake'
  BY <1>24, Zenon DEF WrongType
<1>25. ASSUME NEW t \in Threads, ReadOn(t) PROVE Awake'
  BY <1>25, ZenonT(30) DEF ReadOn
<1>q. QED
  BY <1>c, <1>1, <1>5, <1>6, <1>7, <1>8, <1>9, <1>10, <1>11, <1>12, <1>13, <1>15, <1>17,
     <1>24, <1>25, OutsideOrNot, Zenon


INSTANCE WellFoundedInduction

(* A set of sequence ids has a largest one.                                *)
LEMMA LargestExists ==
    ASSUME NEW S, S \subseteq SeqIds, S # {}
    PROVE  Largest(S) \in S
<1> DEFINE T == {n \in Nat : SeqMax - n \in S}
<1> DEFINE R == OpToRel(<, Nat)
<1>1. PICK s \in S : TRUE
  BY Zenon
<1>2. SeqMax - s \in T
  BY <1>1, ConstantsAssumption DEF SeqIds
<1>3. \E x \in T : \A y \in T : ~ (<<y, x>> \in R)
  <2>1. T \subseteq Nat /\ T # {}
    BY <1>2, Zenon
  <2> HIDE DEF T
  <2>2. QED
    BY <2>1, NatLessThanWellFounded, WFMin, Zenon
<1>4. PICK x \in T : \A y \in T : ~ (<<y, x>> \in R)
  BY <1>3, Zenon
<1>5. \A y \in T : x <= y
  <2>1. \A a, b \in Nat : a < b => <<a, b>> \in R
    BY Zenon DEF OpToRel
  <2>2. \A y \in T : ~(y < x)
    BY <1>4, <2>1, ZenonT(30)
  <2>3. QED
    BY <2>2
<1>6. SeqMax - x \in S /\ \A r \in S : r <= SeqMax - x
  <2>1. \A r \in S : r \in Int /\ SeqMax - r \in T
    BY ConstantsAssumption DEF SeqIds
  <2>2. QED
    BY <1>5, <2>1, ConstantsAssumption
<1>7. QED
  BY <1>6, Zenon DEF Largest

(* The reader that has its reply wakes another call, if there is one.       *)
LEMMA ReplyAwake ==
    ASSUME StreamInv, IdsOwned, Sleepers, OwnersKnown, Awake, NEW t \in Threads, Reply(t)
    PROVE  Awake'
<1>0. /\ pc \in [Threads -> Labels] /\ seqid \in [Threads -> SeqIds \cup {None}]
      /\ DOMAIN rseqid = Threads /\ DOMAIN monitor = Threads
      /\ inbound \in Seq(Messages)
      /\ \A u \in Threads : pc[u] \in Reading <=> readMutex_ = u
  BY Zenon DEF StreamInv, Typed, InStep
<1> USE <1>0, NoneApart DEF Sleepers, Awake,
      Goto, Reading, syncVars, pendingVars, lockVars, localVars, wireVars
<1>1. /\ readMutex_ = t /\ seqid[t] # None /\ t \notin waiters /\ ~recvPending_
      /\ \A u \in Threads \ {t} : pc[u] \notin Reading
  BY Zenon DEF Reply, StreamInv, InStep, IdsOwned
<1>2. /\ seqid' = [seqid EXCEPT ![t] = None] /\ pc' = [pc EXCEPT ![t] = "idle"]
      /\ waiters' = Sleeping(Anyone(MapWithout(seqid[t])))
      /\ UNCHANGED <<stop_, recvPending_, seqidPending_>>
  BY Zenon DEF Reply, EndRecv
<1>3. waiters' # {} => \E u \in Threads : u \notin waiters' /\ seqid'[u] # None
  <2>1. SUFFICES ASSUME waiters' # {}
                 PROVE  \E u \in Threads : u \notin waiters' /\ seqid'[u] # None
    BY Zenon
  <2>2. PICK w \in waiters : w \in Threads
    BY <1>2, <2>1, Zenon DEF Sleeping
  <2>3. ~stop_
    BY <2>2, Zenon DEF Reply
  <2>4. seqid[w] \in Outstanding \ {seqid[t]}
    BY <1>1, <2>2, Zenon DEF IdsOwned
  <2>5. PICK s \in Outstanding \ {seqid[t]} : s = Largest(Outstanding \ {seqid[t]})
    BY <2>4, LargestExists, ZenonT(30) DEF OwnersKnown
  <2>6. PICK v \in Threads : seqid[v] = s
    BY <2>3, Zenon DEF OwnersKnown
  <2>7. Anyone(MapWithout(seqid[t])) = {seqidToMonitorMap_[s]}
    BY <2>4, <2>5, Zenon DEF Anyone, MapWithout
  <2>8. v # t /\ v \notin waiters' /\ seqid[v] # None
    BY <1>1, <1>2, <2>6, <2>7, Zenon DEF Sleeping, OwnersKnown, SeqIds
  <2>9. QED
    BY <1>2, <2>8, Zenon
<1>4. waiters' \subseteq waiters
  BY <1>2, Zenon DEF Sleeping
<1>5. QED
  BY <1>1, <1>2, <1>3, <1>4, Zenon DEF Reply

INSTANCE FiniteSetTheorems

(* There is always a monitor that is not in use.                           *)
LEMMA FreshExists == ASSUME IsFiniteSet(InUse) PROVE Fresh \in Nat /\ Fresh \notin InUse
<1> DEFINE n == Cardinality(InUse)
<1>1. n \in Nat
  BY FS_CardinalityType, Zenon
<1>2. Cardinality(1..(n + 1)) = n + 1
  BY <1>1, FS_Interval
<1>3. ~(1..(n + 1) \subseteq InUse)
  BY <1>1, <1>2, FS_Subset
<1>4. \E m \in 1..(n + 1) : m \notin InUse
  BY <1>3, Zenon
<1>5. Fresh \in 1..(n + 1) /\ Fresh \notin InUse
  BY <1>4, Zenon DEF Fresh
<1>6. QED
  BY <1>1, <1>5

(* What is in use next is in use now, apart from one monitor or None.      *)
LEMMA InUseFinite ==
    ASSUME IsFiniteSet(InUse), NEW m, InUse' \subseteq InUse \cup {m, None}
    PROVE  IsFiniteSet(InUse')
<1>1. IsFiniteSet((InUse \cup {m}) \cup {None})
  BY FS_AddElement, Zenon
<1>2. QED
  BY <1>1, FS_Subset, Zenon

(* The cache of monitors without its last one, and with one more.          *)
LEMMA PrefixOfCache ==
    ASSUME NEW q \in Seq(Nat), NEW n \in Nat, n <= Len(q)
    PROVE  /\ SubSeq(q, 1, n) \in Seq(Nat) /\ Len(SubSeq(q, 1, n)) = n
           /\ \A i \in 1..n : SubSeq(q, 1, n)[i] = q[i]
OBVIOUS

LEMMA CacheShrinks ==
    ASSUME NEW q \in Seq(Nat), q # <<>>
    PROVE  LET p == SubSeq(q, 1, Len(q) - 1)
           IN  p \in Seq(Nat) /\ Len(p) = Len(q) - 1 /\ \A i \in 1..Len(p) : p[i] = q[i]
<1>1. PICK n \in Nat : n = Len(q) - 1
  OBVIOUS
<1>2. n <= Len(q)
  BY <1>1
<1>3. /\ SubSeq(q, 1, n) \in Seq(Nat) /\ Len(SubSeq(q, 1, n)) = n
      /\ \A i \in 1..n : SubSeq(q, 1, n)[i] = q[i]
  BY <1>2, PrefixOfCache, Zenon
<1>4. QED
  BY <1>1, <1>3, Zenon

LEMMA CacheGrows ==
    ASSUME NEW q \in Seq(Nat), NEW m \in Nat
    PROVE  LET p == Append(q, m)
           IN  /\ p \in Seq(Nat) /\ Len(p) = Len(q) + 1
               /\ \A i \in 1..Len(q) : p[i] = q[i]
               /\ p[Len(q) + 1] = m
OBVIOUS

(* generateSeqId gives a call a monitor that nobody else has.              *)
LEMMA GenerateApart ==
    ASSUME Typed, MonitorsApart, NEW t \in Threads, GenerateSeqId(t), IdIsFree
    PROVE  MonitorsApart'
<1>1. CASE freeMonitors_ = <<>>
  <2>1. PICK m \in Nat : m = Fresh /\ m \notin InUse
    BY FreshExists, Zenon DEF MonitorsApart
  <2>2. /\ seqidToMonitorMap_' = [s \in Outstanding \cup {nextseqid_} |->
                                   IF s = nextseqid_ THEN m ELSE seqidToMonitorMap_[s]]
        /\ freeMonitors_' = <<>> /\ monitor' = monitor
    BY <1>1, <2>1, Zenon DEF GenerateSeqId, NewMonitor, AfterNewMonitor
  <2>3. \A s \in Outstanding : seqidToMonitorMap_[s] # m
    BY <2>1, Zenon DEF InUse, Monitors, Outstanding
  <2>4. InUse' \subseteq InUse \cup {m, None}
    BY <2>2, <1>1, Zenon DEF InUse, Monitors, Outstanding
  <2>5. IsFiniteSet(InUse')
    BY <2>4, InUseFinite, Zenon DEF MonitorsApart
  <2>6. QED
    BY <2>1, <2>2, <2>3, <2>5 DEF MonitorsApart, Outstanding
<1>2. CASE freeMonitors_ # <<>>
  <2>1. PICK m \in Nat : m = freeMonitors_[Len(freeMonitors_)]
    BY <1>2 DEF MonitorsApart
  <2>2. /\ seqidToMonitorMap_' = [s \in Outstanding \cup {nextseqid_} |->
                                   IF s = nextseqid_ THEN m ELSE seqidToMonitorMap_[s]]
        /\ freeMonitors_' = SubSeq(freeMonitors_, 1, Len(freeMonitors_) - 1)
        /\ monitor' = monitor
    BY <1>2, <2>1, Zenon DEF GenerateSeqId, NewMonitor, AfterNewMonitor
  <2>3. /\ freeMonitors_' \in Seq(Nat) /\ Len(freeMonitors_') = Len(freeMonitors_) - 1
        /\ \A i \in 1..Len(freeMonitors_') : freeMonitors_'[i] = freeMonitors_[i]
    BY <1>2, <2>2, CacheShrinks, Zenon DEF MonitorsApart
  <2>4. /\ \A s \in Outstanding : seqidToMonitorMap_[s] # m
        /\ \A i \in 1..Len(freeMonitors_') : freeMonitors_'[i] # m
    BY <1>2, <2>1, <2>3 DEF MonitorsApart
  <2>5. InUse' \subseteq InUse \cup {m, None}
    <3>1. Monitors(freeMonitors_)' \subseteq Monitors(freeMonitors_)
      <4>1. /\ DOMAIN freeMonitors_ = 1..Len(freeMonitors_) /\ Len(freeMonitors_) \in Nat
            /\ DOMAIN freeMonitors_' = 1..Len(freeMonitors_')
        BY <2>3 DEF MonitorsApart
      <4>2. QED
        BY <2>3, <4>1 DEF Monitors
    <3>2. Monitors(seqidToMonitorMap_)' \subseteq Monitors(seqidToMonitorMap_) \cup {m}
      BY <2>2, Zenon DEF Monitors, Outstanding
    <3>3. QED
      BY <2>2, <3>1, <3>2, Zenon DEF InUse
  <2>6. IsFiniteSet(InUse')
    BY <2>5, InUseFinite, Zenon DEF MonitorsApart
  <2>7. QED
    <3>1. /\ Outstanding' = Outstanding \cup {nextseqid_}
          /\ \A s \in Outstanding' :
                seqidToMonitorMap_'[s] = IF s = nextseqid_ THEN m ELSE seqidToMonitorMap_[s]
      BY <2>2, Zenon DEF Outstanding
    <3>2. \A i \in 1..Len(freeMonitors_') : i \in 1..Len(freeMonitors_)
      BY <2>3 DEF MonitorsApart
    <3>3. \A r, s \in Outstanding' :
              seqidToMonitorMap_'[r] = seqidToMonitorMap_'[s] => r = s
      BY <2>4, <3>1 DEF MonitorsApart
    <3>4. \A i, j \in 1..Len(freeMonitors_') : freeMonitors_'[i] = freeMonitors_'[j] => i = j
      BY <2>3, <3>2, Zenon DEF MonitorsApart
    <3>5. \A s \in Outstanding' : /\ seqidToMonitorMap_'[s] \in Nat
                                  /\ \A i \in 1..Len(freeMonitors_') :
                                        seqidToMonitorMap_'[s] # freeMonitors_'[i]
      BY <2>1, <2>3, <2>4, <3>1, <3>2 DEF MonitorsApart
    <3>6. QED
      BY <2>3, <2>6, <3>3, <3>4, <3>5, Zenon DEF MonitorsApart
<1>3. QED
  BY <1>1, <1>2, Zenon

(* The end of recv_ returns the monitor to the cache, or throws it away.   *)
LEMMA EndApart ==
    ASSUME Typed, IdsOwned, MonitorsApart, NEW t \in Threads, seqid[t] # None, EndRecv(t)
    PROVE  MonitorsApart'
<1>1. PICK s \in Outstanding : s = seqid[t]
  BY Zenon DEF IdsOwned
<1>2. PICK m \in Nat : m = seqidToMonitorMap_[s]
  BY <1>1, Zenon DEF MonitorsApart
<1>3. /\ seqidToMonitorMap_' = [r \in Outstanding \ {s} |-> seqidToMonitorMap_[r]]
      /\ freeMonitors_' = freeMonitors_ \/ freeMonitors_' = Append(freeMonitors_, m)
      /\ monitor' = [monitor EXCEPT ![t] = None]
  BY <1>1, <1>2, Zenon DEF EndRecv, Forget, MapWithout, AfterDeleteMonitor
<1>4. /\ freeMonitors_' \in Seq(Nat)
      /\ \A i \in 1..Len(freeMonitors_') :
            \/ i \in 1..Len(freeMonitors_) /\ freeMonitors_'[i] = freeMonitors_[i]
            \/ i = Len(freeMonitors_) + 1 /\ freeMonitors_'[i] = m
  <2>1. CASE freeMonitors_' = freeMonitors_
    BY <2>1, Zenon DEF MonitorsApart
  <2>2. CASE freeMonitors_' = Append(freeMonitors_, m)
    BY <2>2, CacheGrows DEF MonitorsApart
  <2>3. QED
    BY <1>3, <2>1, <2>2, Zenon
<1>5. InUse' \subseteq InUse \cup {m, None}
  <2>1. Monitors(freeMonitors_)' \subseteq Monitors(freeMonitors_) \cup {m}
    BY <1>4 DEF Monitors, MonitorsApart
  <2>2. Monitors(seqidToMonitorMap_)' \subseteq Monitors(seqidToMonitorMap_)
    BY <1>3, Zenon DEF Monitors, Outstanding
  <2>3. QED
    BY <1>3, <2>1, <2>2, Zenon DEF InUse, Typed
<1>6. IsFiniteSet(InUse')
  BY <1>5, InUseFinite, Zenon DEF MonitorsApart
<1>7. QED
  <2>1. /\ Outstanding' = Outstanding \ {s}
        /\ \A r \in Outstanding' : seqidToMonitorMap_'[r] = seqidToMonitorMap_[r]
    BY <1>3, Zenon DEF Outstanding
  <2>2. /\ \A r \in Outstanding' : seqidToMonitorMap_[r] # m
        /\ \A i \in 1..Len(freeMonitors_) : freeMonitors_[i] # m
    BY <1>1, <1>2, <2>1, Zenon DEF MonitorsApart
  <2>3. \A i, j \in 1..Len(freeMonitors_') : freeMonitors_'[i] = freeMonitors_'[j] => i = j
    BY <1>4, <2>2, Zenon DEF MonitorsApart
  <2>4. \A r \in Outstanding' : /\ seqidToMonitorMap_'[r] \in Nat
                                /\ \A i \in 1..Len(freeMonitors_') :
                                      seqidToMonitorMap_'[r] # freeMonitors_'[i]
    <3>1. \A r \in Outstanding' :
              r \in Outstanding /\ seqidToMonitorMap_'[r] = seqidToMonitorMap_[r]
      BY <2>1, Zenon
    <3>2. SUFFICES ASSUME NEW r \in Outstanding', NEW i \in 1..Len(freeMonitors_')
                   PROVE  seqidToMonitorMap_[r] # freeMonitors_'[i]
      BY <3>1 DEF MonitorsApart
    <3>3. CASE i \in 1..Len(freeMonitors_) /\ freeMonitors_'[i] = freeMonitors_[i]
      BY <3>1, <3>3, Zenon DEF MonitorsApart
    <3>4. CASE freeMonitors_'[i] = m
      BY <2>2, <3>4, Zenon
    <3>5. QED
      BY <1>4, <3>3, <3>4, Zenon
  <2>5. \A q, r \in Outstanding' :
            seqidToMonitorMap_'[q] = seqidToMonitorMap_'[r] => q = r
    BY <2>1 DEF MonitorsApart
  <2>6. QED
    BY <1>4, <1>6, <2>3, <2>4, <2>5, Zenon DEF MonitorsApart

(* No two calls share a monitor.                                           *)
LEMMA MonitorsStep ==
    StreamInv /\ IdsOwned /\ MonitorsApart /\ [Next]_vars /\ [OnlyFreeIds]_vars
        => MonitorsApart'
<1> SUFFICES ASSUME StreamInv, IdsOwned, MonitorsApart, [Next]_vars, [OnlyFreeIds]_vars
             PROVE  MonitorsApart'
  BY Zenon
<1>0. UNCHANGED <<seqidToMonitorMap_, freeMonitors_, monitor>> => MonitorsApart'
  BY Zenon DEF MonitorsApart, InUse, Monitors, Outstanding
<1> USE <1>0 DEF StreamInv, syncVars, pendingVars, lockVars, localVars, wireVars
<1>c. CASE Calm
  BY <1>c, Zenon DEF Calm
<1>1. ASSUME NEW t \in Threads, GenerateSeqId(t) PROVE MonitorsApart'
  BY <1>1, GeneratedIsFree, GenerateApart, Zenon
<1>4. ASSUME NEW t \in Threads, Written(t) PROVE MonitorsApart'
  BY <1>4, Zenon DEF Written
<1>5. ASSUME NEW t \in Threads, SendMarksBad(t) PROVE MonitorsApart'
  BY <1>5, Zenon DEF SendMarksBad
<1>10. ASSUME NEW t \in Threads, UpdatePending(t) PROVE MonitorsApart'
  <2>1. CASE UNCHANGED monitor
    BY <1>10, <2>1, Zenon DEF UpdatePending
  <2>2. CASE monitor' = [monitor EXCEPT ![t] = seqidToMonitorMap_[seqid[t]]]
    <3>1. seqid[t] \in Outstanding
      BY <1>10, Zenon DEF UpdatePending, IdsOwned, Reading
    <3>2. UNCHANGED <<seqidToMonitorMap_, freeMonitors_>>
      BY <1>10, Zenon DEF UpdatePending
    <3>3. InUse' \subseteq InUse \cup {None, None}
      BY <2>2, <3>1, <3>2, Zenon DEF InUse, Monitors, Outstanding, Typed
    <3>4. IsFiniteSet(InUse')
      BY <3>3, InUseFinite, Zenon DEF MonitorsApart
    <3>5. QED
      BY <3>2, <3>4, Zenon DEF MonitorsApart, Outstanding
  <2>3. QED
    BY <1>10, <2>1, <2>2, Zenon DEF UpdatePending
<1>14. ASSUME NEW t \in Threads, Reply(t) PROVE MonitorsApart'
  BY <1>14, EndApart, Zenon DEF Reply, IdsOwned, Reading
<1>15. ASSUME NEW t \in Threads, Unwind(t) PROVE MonitorsApart'
  BY <1>15, EndApart, Zenon DEF Unwind, IdsOwned, Reading
<1>19. CASE ServerReplies
  BY <1>19, Zenon DEF ServerReplies
<1>20. CASE ServerStrays
  BY <1>20, Zenon DEF ServerStrays
<1>q. QED
  BY <1>c, <1>1, <1>4, <1>5, <1>10, <1>14, <1>15, <1>19, <1>20, CalmOrNot, Zenon


(* At first there is no monitor.                                           *)
LEMMA StartApart == Init => MonitorsApart
<1> SUFFICES ASSUME Init PROVE MonitorsApart
  BY Zenon
<1>1. InUse \subseteq {None}
  BY DEF Init, InUse, Monitors
<1>2. IsFiniteSet(InUse)
  BY <1>1, FS_Singleton, FS_Subset, Zenon
<1>3. QED
  BY <1>2 DEF Init, MonitorsApart, Outstanding

(* As long as generateSeqId hands out ids that are free, no two calls      *)
(* share an id, and no monitor of newMonitor_ is in two places.            *)
THEOREM CallsAreDistinct == Spec /\ NoReuse => []CallsDistinct
<1> DEFINE IInv == StreamInv /\ IdsOwned /\ MonitorsApart
<1>1. IInv /\ [Next]_vars /\ [OnlyFreeIds]_vars => IInv'
  BY TypedStep, InStepStep, IdsStep, MonitorsStep, Zenon DEF StreamInv
<1>2. IInv => CallsDistinct
  BY DEF IdsOwned, MonitorsApart, CallsDistinct, Monitors, Outstanding
<1>3. QED
  BY <1>1, <1>2, Start, StartApart, PTL DEF Spec, NoReuse
(* As long as generateSeqId hands out ids that are free, the threads that  *)
(* share a client never all sleep in waitForWork: whichever of them read,  *)
(* take over a header, fail or run markBad_ without readMutex_, a call     *)
(* that sleeps has another one that is awake.                              *)
THEOREM SomeCallIsAwake == Spec /\ NoReuse => []SomeoneReads
<1> DEFINE IInv == /\ StreamInv /\ IdsOwned /\ Sent /\ Sleepers
                   /\ HandedOn /\ OwnersKnown /\ Awake
<1>1. Init => IInv
  BY Start DEF Init, Sent, Sleepers, HandedOn, OwnersKnown, Awake, Outstanding
<1>2. IInv /\ [Next]_vars /\ [OnlyFreeIds]_vars => IInv'
  BY TypedStep, InStepStep, IdsStep, SentStep, SleepersStep, OwnersStep, AwakeStep, ReplyAwake, Zenon
     DEF StreamInv
<1>3. IInv => SomeoneReads
  BY Zenon DEF Awake, SomeoneReads
<1>4. QED
  BY <1>1, <1>2, <1>3, PTL DEF Spec, NoReuse
=============================================================================

-------------------------- MODULE ConcurrentClient --------------------------
(***************************************************************************)
(* The concurrent client: the send_ and recv_ functions that               *)
(* t_cpp_generator.cc generates for every method, and                      *)
(* TConcurrentClientSyncInfo, through which the threads that share one     *)
(* connection take turns at reading it.                                    *)
(*                                                                         *)
(* A thread takes a sequence id, writes its request under writeMutex_, and *)
(* then reads message headers under readMutex_.  A header that belongs to  *)
(* another thread is left in the pending fields and that thread is         *)
(* notified; the reader sleeps on the monitor of its own sequence id.  A   *)
(* thread that is done wakes one other thread to go on reading.  When a    *)
(* thread fails in the middle, stop_ kills the client for all of them.     *)
(*                                                                         *)
(* seqidMutex_ guards short sections that are atomic here, except for the  *)
(* one of a failed send: markBad_ runs there without readMutex_, so its    *)
(* assignments and its notifications are separate steps that interleave    *)
(* with the readers.  The transport and the server are external.           *)
(***************************************************************************)
EXTENDS Integers, Sequences, FiniteSets

CONSTANTS
    Threads,            \* the threads that share the client
    OnewayCallers,      \* the threads that also call oneway methods
    MaxCalls,           \* calls per thread
    SeqMin, SeqMax,     \* numeric_limits<int32_t>, scaled down
    FirstSeqId,         \* the first value of nextseqid_
    MONITOR_CACHE_SIZE,
    Faults,             \* which failures happen, of FaultKinds
    StraySeqIds,        \* sequence ids a confused server may reply with
    None                \* no thread, no sequence id, no monitor

FaultKinds == {"write", "close", "body", "type", "stray"}
SeqIds == SeqMin..SeqMax

ASSUME ConstantsAssumption ==
    /\ IsFiniteSet(Threads) /\ OnewayCallers \subseteq Threads
    /\ MaxCalls \in Nat
    /\ SeqMin \in Int /\ SeqMax \in Int /\ SeqMin < SeqMax
    /\ FirstSeqId \in SeqIds
    /\ MONITOR_CACHE_SIZE \in Nat
    /\ Faults \subseteq FaultKinds
    /\ StraySeqIds \subseteq Int \ SeqIds
    /\ None \notin Threads /\ None \notin Int

VARIABLES
    stop_, nextseqid_, seqidToMonitorMap_, freeMonitors_,
    seqidMutex_, writeMutex_, readMutex_,       \* the holder, or None
    recvPending_, wakeupSomeone_, seqidPending_,
    waiters,            \* threads in Monitor::wait that nobody notified
    pc,                 \* where each thread is in its call
    seqid, rseqid,      \* locals of send_ and recv_; None for a oneway call
    monitor,            \* local m of waitForWork
    calls,              \* how many calls each thread has made
    requests,           \* written and not answered
    inbound,            \* replies in the order they arrive
    headerRead,         \* readMessageBegin was called for the first of them
    closed, torn        \* the server hung up; a write failed half way

syncVars == <<stop_, nextseqid_, seqidToMonitorMap_, freeMonitors_>>
pendingVars == <<recvPending_, seqidPending_>>
lockVars == <<seqidMutex_, writeMutex_, readMutex_>>
localVars == <<seqid, rseqid, monitor, calls>>
wireVars == <<requests, inbound, headerRead, closed, torn>>
vars == <<syncVars, pendingVars, wakeupSomeone_, waiters, pc, lockVars,
          localVars, wireVars>>

Init ==
    /\ stop_ = FALSE /\ nextseqid_ = FirstSeqId
    /\ seqidToMonitorMap_ = <<>> /\ freeMonitors_ = <<>>
    /\ seqidMutex_ = None /\ writeMutex_ = None /\ readMutex_ = None
    /\ recvPending_ = FALSE /\ wakeupSomeone_ = FALSE /\ seqidPending_ = 0
    /\ waiters = {}
    /\ pc = [t \in Threads |-> "idle"]
    /\ seqid = [t \in Threads |-> None] /\ rseqid = [t \in Threads |-> None]
    /\ monitor = [t \in Threads |-> None]
    /\ calls = [t \in Threads |-> 0]
    /\ requests = {} /\ inbound = <<>> /\ headerRead = FALSE
    /\ closed = FALSE /\ torn = FALSE

Goto(t, label) == pc' = [pc EXCEPT ![t] = label]
Outstanding == DOMAIN seqidToMonitorMap_
Monitors(map) == {map[s] : s \in DOMAIN map}

-----------------------------------------------------------------------------
(* Sequence ids and monitors                                               *)

(* The sequence id after s, rolling over at the largest int32_t.           *)
Successor(s) == IF s = SeqMax THEN SeqMin ELSE s + 1

Smallest(S) == CHOOSE s \in S : \A r \in S : s <= r
Largest(S) == CHOOSE s \in S : \A r \in S : r <= s

(* "about to repeat a seqid": the test looks at the first map entry only.  *)
Repeats == Outstanding # {} /\ nextseqid_ = Smallest(Outstanding)

(* A monitor that is neither in the map, in the cache nor in use.          *)
InUse == Monitors(seqidToMonitorMap_) \cup Monitors(freeMonitors_)
            \cup {monitor[t] : t \in Threads}
Fresh == CHOOSE m \in 1..(Cardinality(InUse) + 1) : m \notin InUse

(* newMonitor_: the last one of the cache, or a new one.                   *)
NewMonitor ==
    IF freeMonitors_ = <<>> THEN Fresh ELSE freeMonitors_[Len(freeMonitors_)]
AfterNewMonitor ==
    IF freeMonitors_ = <<>> THEN <<>>
    ELSE SubSeq(freeMonitors_, 1, Len(freeMonitors_) - 1)

(* deleteMonitor_: back into the cache unless it is full.                  *)
AfterDeleteMonitor(m) ==
    IF Len(freeMonitors_) > MONITOR_CACHE_SIZE THEN freeMonitors_
    ELSE Append(freeMonitors_, m)

(* generateSeqId, called first thing by send_ of a two-way method.         *)
GenerateSeqId(t) ==
    /\ pc[t] = "idle" /\ calls[t] < MaxCalls
    /\ seqidMutex_ = None
    /\ ~stop_ /\ ~Repeats
    /\ seqid' = [seqid EXCEPT ![t] = nextseqid_]
    /\ nextseqid_' = Successor(nextseqid_)
    /\ seqidToMonitorMap_' =
          [s \in Outstanding \cup {nextseqid_} |->
              IF s = nextseqid_ THEN NewMonitor ELSE seqidToMonitorMap_[s]]
    /\ freeMonitors_' = AfterNewMonitor
    /\ calls' = [calls EXCEPT ![t] = @ + 1]
    /\ Goto(t, "send")
    /\ UNCHANGED <<stop_, pendingVars, wakeupSomeone_, waiters, lockVars,
                   rseqid, monitor, wireVars>>

(* send_ of a oneway method takes no sequence id and does not ask stop_.   *)
BeginOneway(t) ==
    /\ t \in OnewayCallers
    /\ pc[t] = "idle" /\ calls[t] < MaxCalls
    /\ calls' = [calls EXCEPT ![t] = @ + 1]
    /\ Goto(t, "send")
    /\ UNCHANGED <<syncVars, pendingVars, wakeupSomeone_, waiters, lockVars,
                   seqid, rseqid, monitor, wireVars>>

-----------------------------------------------------------------------------
(* send_: the request is written under TConcurrentSendSentry               *)

LockWrite(t) ==
    /\ pc[t] = "send" /\ writeMutex_ = None
    /\ writeMutex_' = t
    /\ Goto(t, "writing")
    /\ UNCHANGED <<syncVars, pendingVars, wakeupSomeone_, waiters,
                   seqidMutex_, readMutex_, localVars, wireVars>>

(* The message is flushed and the sentry committed.  Behind a torn message *)
(* or a closed connection nobody will make sense of it.                    *)
Written(t) ==
    /\ pc[t] = "writing"
    /\ writeMutex_' = None
    /\ requests' = IF closed \/ torn \/ seqid[t] = None THEN requests
                   ELSE requests \cup {[seqid |-> seqid[t], by |-> <<t, calls[t]>>]}
    /\ Goto(t, IF seqid[t] = None THEN "idle" ELSE "recv")
    /\ UNCHANGED <<syncVars, pendingVars, wakeupSomeone_, waiters,
                   seqidMutex_, readMutex_, localVars, inbound, headerRead,
                   closed, torn>>

(* The threads that stay asleep when each of these monitors is notified.   *)
(* A monitor belongs to one call (CallsDistinct), so notify() can wake  *)
(* only the thread of that call.                                           *)
Sleeping(notified) == {t \in waiters : monitor[t] \notin notified}

(* The write throws: the sentry's destructor calls markBad_ holding        *)
(* seqidMutex_ but not readMutex_.  First wakeupSomeone_ is set ...        *)
WriteFails(t) ==
    /\ pc[t] = "writing" /\ ("write" \in Faults \/ closed)
    /\ seqidMutex_ = None
    /\ seqidMutex_' = t
    /\ wakeupSomeone_' = TRUE
    /\ torn' = TRUE
    /\ Goto(t, "marking")
    /\ UNCHANGED <<syncVars, pendingVars, waiters, writeMutex_, readMutex_,
                   localVars, requests, inbound, headerRead, closed>>

(* ... then stop_, and every monitor in the map is notified.  The sequence *)
(* id of the failed call stays in the map.                                 *)
SendMarksBad(t) ==
    /\ pc[t] = "marking"
    /\ stop_' = TRUE
    /\ waiters' = Sleeping(Monitors(seqidToMonitorMap_))
    /\ seqidMutex_' = None /\ writeMutex_' = None
    /\ seqid' = [seqid EXCEPT ![t] = None]
    /\ Goto(t, "idle")
    /\ UNCHANGED <<nextseqid_, seqidToMonitorMap_, freeMonitors_, pendingVars,
                   wakeupSomeone_, readMutex_, rseqid, monitor, calls, wireVars>>

-----------------------------------------------------------------------------
(* recv_: headers are read under TConcurrentRecvSentry                     *)

(* getPending: take over a header that another thread has read.            *)
GetPending(t) ==
    \/ /\ stop_
       /\ Goto(t, "unwind")
       /\ UNCHANGED <<wakeupSomeone_, recvPending_, rseqid>>
    \/ /\ ~stop_ /\ recvPending_
       /\ wakeupSomeone_' = FALSE
       /\ recvPending_' = FALSE
       /\ rseqid' = [rseqid EXCEPT ![t] = seqidPending_]
       /\ Goto(t, "dispatch")
    \/ /\ ~stop_ /\ ~recvPending_
       /\ wakeupSomeone_' = FALSE
       /\ Goto(t, "read")
       /\ UNCHANGED <<recvPending_, rseqid>>

(* The sentry's constructor takes readMutex_ and the loop is entered ...   *)
LockRead(t) ==
    /\ pc[t] = "recv" /\ readMutex_ = None
    /\ readMutex_' = t
    /\ GetPending(t)
    /\ UNCHANGED <<syncVars, seqidPending_, waiters, seqidMutex_, writeMutex_,
                   seqid, monitor, calls, wireVars>>

(* ... or runs once more after waitForWork returned.                       *)
LoopAgain(t) ==
    /\ pc[t] = "loop"
    /\ GetPending(t)
    /\ UNCHANGED <<syncVars, seqidPending_, waiters, lockVars,
                   seqid, monitor, calls, wireVars>>

(* readMessageBegin: blocks until a header arrives ...                     *)
ReadHeader(t) ==
    /\ pc[t] = "read" /\ inbound # <<>>
    /\ headerRead' = TRUE
    /\ rseqid' = [rseqid EXCEPT ![t] = Head(inbound).seqid]
    /\ Goto(t, "dispatch")
    /\ UNCHANGED <<syncVars, pendingVars, wakeupSomeone_, waiters, lockVars,
                   seqid, monitor, calls, requests, inbound, closed, torn>>

(* ... or throws because the connection is gone.                           *)
ReadFails(t) ==
    /\ pc[t] = "read" /\ inbound = <<>> /\ closed
    /\ Goto(t, "unwind")
    /\ UNCHANGED <<syncVars, pendingVars, wakeupSomeone_, waiters, lockVars,
                   localVars, wireVars>>

(* Mutated Mine: the header is not compared, as in the plain client.       *)
MineAlways(t) == TRUE

Mine(t) == seqid[t] = rseqid[t]

(* Mutated UpdateNotifies: the pending header is left for whoever comes.   *)
UpdateNotifiesNobody(s) == {}

(* The monitor that updatePending notifies.                                *)
UpdateNotifies(s) == {seqidToMonitorMap_[s]}

(* The header is for another call: updatePending stores it and notifies    *)
(* the monitor of that call; an unknown sequence id throws.                *)
UpdatePending(t) ==
    /\ pc[t] = "dispatch" /\ ~Mine(t)
    /\ seqidMutex_ = None
    /\ recvPending_' = TRUE
    /\ seqidPending_' = rseqid[t]
    /\ \/ /\ rseqid[t] \in Outstanding
          /\ waiters' = Sleeping(UpdateNotifies(rseqid[t]))
          /\ monitor' = [monitor EXCEPT ![t] = seqidToMonitorMap_[seqid[t]]]
          /\ Goto(t, "check")
       \/ /\ rseqid[t] \notin Outstanding
          /\ Goto(t, "unwind")
          /\ UNCHANGED <<waiters, monitor>>
    /\ UNCHANGED <<syncVars, wakeupSomeone_, lockVars, seqid, rseqid, calls, wireVars>>

(* One look of waitForWork at the shared state ...                         *)
CheckForWork(t) ==
    /\ pc[t] = "check"
    /\ Goto(t, IF stop_ THEN "unwind"
               ELSE IF wakeupSomeone_ \/ (recvPending_ /\ seqidPending_ = seqid[t])
               THEN "loop" ELSE "wait")
    /\ UNCHANGED <<syncVars, pendingVars, wakeupSomeone_, waiters, lockVars,
                   localVars, wireVars>>

(* ... and, a moment later, m->waitForever(), which gives up readMutex_.   *)
WaitForever(t) ==
    /\ pc[t] = "wait"
    /\ waiters' = waiters \cup {t}
    /\ readMutex_' = None
    /\ Goto(t, "asleep")
    /\ UNCHANGED <<syncVars, pendingVars, wakeupSomeone_, seqidMutex_,
                   writeMutex_, localVars, wireVars>>

(* A thread that was notified has to get readMutex_ back.                  *)
Wakeup(t) ==
    /\ pc[t] = "asleep" /\ t \notin waiters /\ readMutex_ = None
    /\ readMutex_' = t
    /\ Goto(t, "check")
    /\ UNCHANGED <<syncVars, pendingVars, wakeupSomeone_, waiters, seqidMutex_,
                   writeMutex_, localVars, wireVars>>

(* Condition variables may wake up for no reason.                          *)
Spurious(t) ==
    /\ t \in waiters
    /\ waiters' = waiters \ {t}
    /\ UNCHANGED <<syncVars, pendingVars, wakeupSomeone_, pc, lockVars,
                   localVars, wireVars>>

-----------------------------------------------------------------------------
(* The end of recv_: the destructor of TConcurrentRecvSentry               *)

MapWithout(s) == [r \in Outstanding \ {s} |-> seqidToMonitorMap_[r]]

(* Mutated Anyone: the flag is set and no monitor is notified.             *)
Noone(map) == {}

(* The monitor wakeupAnyone_ notifies: that of the largest sequence id.    *)
Anyone(map) == IF DOMAIN map = {} THEN {} ELSE {map[Largest(DOMAIN map)]}

(* Mutated Forget: the monitor goes to the cache and stays in the map.     *)
ForgetNothing(t) ==
    /\ freeMonitors_' = AfterDeleteMonitor(seqidToMonitorMap_[seqid[t]])
    /\ UNCHANGED seqidToMonitorMap_

Forget(t) ==
    /\ freeMonitors_' = AfterDeleteMonitor(seqidToMonitorMap_[seqid[t]])
    /\ seqidToMonitorMap_' = MapWithout(seqid[t])

EndRecv(t) ==
    /\ seqidMutex_ = None
    /\ Forget(t)
    /\ wakeupSomeone_' = TRUE
    /\ readMutex_' = None
    /\ seqid' = [seqid EXCEPT ![t] = None]
    /\ rseqid' = [rseqid EXCEPT ![t] = None]
    /\ monitor' = [monitor EXCEPT ![t] = None]
    /\ Goto(t, "idle")
    /\ UNCHANGED <<nextseqid_, pendingVars, seqidMutex_, writeMutex_, calls,
                   requests, closed, torn>>

(* The reply is read to its end and the sentry committed: wakeupAnyone_.   *)
Reply(t) ==
    /\ pc[t] = "dispatch" /\ Mine(t)
    /\ EndRecv(t)
    /\ inbound' = Tail(inbound) /\ headerRead' = FALSE
    /\ waiters' = Sleeping(Anyone(MapWithout(seqid[t])))
    /\ UNCHANGED stop_

(* The body cannot be read, or the name is that of another method ("in a   *)
(* bad state, don't commit").                                              *)
BadReply(t) ==
    /\ pc[t] = "dispatch" /\ Mine(t) /\ "body" \in Faults
    /\ Goto(t, "unwind")
    /\ UNCHANGED <<syncVars, pendingVars, wakeupSomeone_, waiters, lockVars,
                   localVars, wireVars>>

(* The message is neither a reply nor an exception: its body is skipped,   *)
(* and then recv_ reads the result all the same, from what comes behind    *)
(* it.  The message stays the first of inbound.                            *)
WrongType(t) ==
    /\ pc[t] = "dispatch" /\ Mine(t) /\ "type" \in Faults
    /\ Goto(t, "readOn")
    /\ UNCHANGED <<syncVars, pendingVars, wakeupSomeone_, waiters, lockVars,
                   localVars, wireVars>>

Starved == Len(inbound) = 1 /\ ~closed

(* The beginning of the next message, or the end of the stream, makes the  *)
(* read throw; or it passes for a result, and from then on no one is in    *)
(* step with the stream: the reader is not followed any further.           *)
ReadOn(t) ==
    /\ pc[t] = "readOn" /\ ~Starved
    /\ \/ Goto(t, "unwind")
       \/ Len(inbound) > 1 /\ Goto(t, "misread")
    /\ UNCHANGED <<syncVars, pendingVars, wakeupSomeone_, waiters, lockVars,
                   localVars, wireVars>>

(* An exception leaves recv_: markBad_ stops the client for everybody.     *)
Unwind(t) ==
    /\ pc[t] = "unwind"
    /\ EndRecv(t)
    /\ stop_' = TRUE
    /\ waiters' = Sleeping(Monitors(MapWithout(seqid[t])))
    /\ UNCHANGED <<inbound, headerRead>>

-----------------------------------------------------------------------------
(* The server, which answers the requests in any order.                    *)

ServerReplies ==
    /\ ~closed
    /\ \E r \in requests :
          /\ requests' = requests \ {r}
          /\ inbound' = Append(inbound, r)
    /\ UNCHANGED <<syncVars, pendingVars, wakeupSomeone_, waiters, pc,
                   lockVars, localVars, headerRead, closed, torn>>

(* A reply whose sequence id belongs to no call.                           *)
ServerStrays ==
    /\ "stray" \in Faults /\ ~closed
    /\ \E r \in requests, s \in StraySeqIds :
          /\ requests' = requests \ {r}
          /\ inbound' = Append(inbound, [r EXCEPT !.seqid = s])
    /\ UNCHANGED <<syncVars, pendingVars, wakeupSomeone_, waiters, pc,
                   lockVars, localVars, headerRead, closed, torn>>

ServerCloses ==
    /\ "close" \in Faults /\ ~closed
    /\ closed' = TRUE
    /\ requests' = {}
    /\ UNCHANGED <<syncVars, pendingVars, wakeupSomeone_, waiters, pc,
                   lockVars, localVars, inbound, headerRead, torn>>

Server == ServerReplies \/ ServerStrays \/ ServerCloses

(* What a thread does of itself once it has begun a call.                  *)
Step(t) ==
    \/ LockWrite(t) \/ Written(t) \/ SendMarksBad(t)
    \/ LockRead(t) \/ LoopAgain(t) \/ ReadHeader(t) \/ ReadFails(t)
    \/ UpdatePending(t) \/ CheckForWork(t) \/ WaitForever(t) \/ Wakeup(t)
    \/ Reply(t) \/ ReadOn(t) \/ Unwind(t)

Begin(t) == GenerateSeqId(t) \/ BeginOneway(t)
Mishap(t) == WriteFails(t) \/ BadReply(t) \/ WrongType(t) \/ Spurious(t)

Next == Server \/ \E t \in Threads : Begin(t) \/ Step(t) \/ Mishap(t)

Spec == Init /\ [][Next]_vars

(* Threads are scheduled, and a thread that keeps trying gets a mutex in   *)
(* the end; the server answers.                                            *)
Fairness ==
    /\ \A t \in Threads : SF_vars(Step(t))
    /\ WF_vars(ServerReplies)

FairSpec == Spec /\ Fairness

-----------------------------------------------------------------------------
(* Properties                                                              *)

(* Calls that are in progress at the same time have different sequence     *)
(* ids, across the rollover of generateSeqId, and different monitors: no   *)
(* two entries of the map share one, and none of them is in the cache of   *)
(* newMonitor_ and deleteMonitor_, so that a notification meant for one    *)
(* call never wakes another.                                               *)
CallsDistinct ==
    /\ \A t, u \in Threads : t # u /\ seqid[t] # None => seqid[t] # seqid[u]
    /\ \A r, s \in Outstanding :
          seqidToMonitorMap_[r] = seqidToMonitorMap_[s] => r = s
    /\ \A i, j \in DOMAIN freeMonitors_ :
          freeMonitors_[i] = freeMonitors_[j] => i = j
    /\ Monitors(seqidToMonitorMap_) \cap Monitors(freeMonitors_) = {}

(* Responses may come out of order and their headers be read by any        *)
(* thread.  The body is read by the thread whose call it answers, and      *)
(* readMessageBegin is called only between two messages: never while the   *)
(* body behind a header is unread, neither while the header is pending nor *)
(* after a thread gave up in the middle.  (The one reader that is out of   *)
(* step is that of a message of the wrong type, see ReadOn.)               *)
OwnReply ==
    \A t \in Threads :
        /\ pc[t] = "dispatch" /\ Mine(t) =>
              headerRead /\ Head(inbound).by = <<t, calls[t]>>
        /\ pc[t] = "read" => ~headerRead

(* While a thread sleeps in waitForWork, some other call is awake and will *)
(* come to read, or to stop the client, or is blocked in a read: the       *)
(* threads never all wait for each other, even when a failing send runs markBad_ without readMutex_.  *)
SomeoneReads ==
    waiters # {} =>
        \E t \in Threads : /\ t \notin waiters
                           /\ seqid[t] # None \/ pc[t] = "marking"

(* Every call ends, by a reply or by an exception, once the server answers *)
(* what it was sent.  The exception is a message of the wrong type: its    *)
(* reader waits, with readMutex_ and all the others behind it, until       *)
(* something else arrives, and may then be misled by it.                   *)
EveryCallReturns ==
    LET Misled == \E u \in Threads : pc[u] = "misread" \/ (pc[u] = "readOn" /\ Starved)
    IN  \A t \in Threads : pc[t] # "idle" ~> pc[t] = "idle" \/ Misled
=============================================================================

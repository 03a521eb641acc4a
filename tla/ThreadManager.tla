--------------------------- MODULE ThreadManager ---------------------------
(***************************************************************************)
(* ThreadManager::Impl, the worker pool of the C++ runtime                 *)
(* (lib/cpp/src/thrift/concurrency/ThreadManager.cpp).                     *)
(*                                                                         *)
(* One mutex protects the pool; three monitors share it: monitor_ (idle    *)
(* workers), maxMonitor_ (threads blocked in add() on a full queue) and    *)
(* workerMonitor_ (threads waiting for the worker count to settle).  An    *)
(* action is the code a thread runs from taking the mutex to giving it     *)
(* back (returning, or waiting on a monitor); a worker's loop, which keeps *)
(* the mutex across several decisions, is split at those decisions and     *)
(* mutex_ records who holds it in between.                                 *)
(*                                                                         *)
(* A call that throws before changing anything (a failed trylock, an       *)
(* IllegalStateException, an InvalidArgumentException, a full queue) is a  *)
(* stuttering step.                                                        *)
(***************************************************************************)
EXTENDS Integers, Sequences, FiniteSets, Monitor

CONSTANTS
    Workers,            \* identities of the threads the thread factory makes
    Callers,            \* client threads that call add, remove, ...
    Admins,             \* client threads that call start, stop, add/removeWorker
    AdminCalls,         \* which of these calls each admin makes
    Removers,           \* the callers that call remove and removeNextPending
    Sweepers,           \* the callers that call removeExpiredTasks
    SweepsAlone,        \* whether the program keeps the other threads away
                        \* from the manager while removeExpiredTasks runs
    Tasks,              \* ThreadManager::Task objects, one per add()
    Runnables,          \* the Runnable objects wrapped by the tasks
    RunnableOf,         \* Task::runnable_
    Expiring,           \* tasks added with a nonzero expiration
    Timeouts,           \* which kinds of timeout add() is called with
    PendingTaskCountMax,\* pendingTaskCountMax_, 0 for no limit
    ExpireCallback,     \* whether expireCallback_ is set
    SizeMax,            \* the largest size_t
    NoThread,           \* mutex_ is free
    NoTask              \* a thread without a task

AddTimeouts == {"forever", "timed", "nonblocking"}

ASSUME ConstantsAssumption ==
    /\ IsFiniteSet(Workers) /\ IsFiniteSet(Callers)
    /\ IsFiniteSet(Admins)  /\ IsFiniteSet(Tasks)
    /\ Workers \cap Callers = {}
    /\ AdminCalls \in [Admins -> SUBSET {"start", "stop", "addWorker", "removeWorker"}]
    /\ Removers \subseteq Callers /\ Sweepers \subseteq Callers
    /\ SweepsAlone \in BOOLEAN
    /\ RunnableOf \in [Tasks -> Runnables]
    /\ Expiring \subseteq Tasks
    /\ Timeouts \subseteq AddTimeouts
    /\ PendingTaskCountMax \in Nat
    /\ ExpireCallback \in BOOLEAN
    /\ SizeMax \in Nat /\ Cardinality(Workers) < SizeMax
    /\ NoThread \notin Workers
    /\ NoTask \notin Tasks

VARIABLES
    state_, workerCount_, workerMaxCount_, idleCount_, expiredCount_,
    tasks_,             \* the queue of pending tasks
    mutex_,             \* the worker that holds mutex_ between two steps
    monitor_, maxMonitor_, workerMonitor_,      \* wait sets
    workerPc,           \* where each worker thread is
    workerTask,         \* the task a worker took off the queue
    callerPc, callerTask,   \* a caller's unfinished call and its task
    sweepNow,           \* tasks past their expire time when a sweep began
    sweepAt,            \* a sweep's iterator, 1 at the first task of the queue
    sweepSeen,          \* what a sweep read from expiredCount_ to increment it
    adminPc,            \* an admin's unfinished call
    lapsed,             \* tasks whose expire time is in the past
    fate                \* what became of every task

poolVars == <<workerCount_, workerMaxCount_, idleCount_>>
workerVars == <<workerPc, workerTask>>
callerVars == <<callerPc, callerTask, sweepNow>>
vars == <<state_, poolVars, expiredCount_, tasks_, mutex_, monitor_,
          maxMonitor_, workerMonitor_, workerVars, callerVars, sweepAt,
          sweepSeen, adminPc, lapsed, fate>>

Init ==
    /\ state_ = "UNINITIALIZED"
    /\ workerCount_ = 0 /\ workerMaxCount_ = 0 /\ idleCount_ = 0
    /\ expiredCount_ = 0
    /\ tasks_ = <<>>
    /\ mutex_ = NoThread
    /\ monitor_ = {} /\ maxMonitor_ = {} /\ workerMonitor_ = {}
    /\ workerPc = [w \in Workers |-> "none"]
    /\ workerTask = [w \in Workers |-> NoTask]
    /\ callerPc = [c \in Callers |-> "idle"]
    /\ callerTask = [c \in Callers |-> NoTask]
    /\ sweepNow = [c \in Callers |-> {}]
    /\ sweepAt = [c \in Callers |-> 0]
    /\ sweepSeen = [c \in Callers |-> 0]
    /\ adminPc = [a \in Admins |-> "idle"]
    /\ lapsed = {}
    /\ fate = [t \in Tasks |-> "unused"]

-----------------------------------------------------------------------------
(* The queue.                                                              *)

Full(queue) == PendingTaskCountMax > 0 /\ Len(queue) >= PendingTaskCountMax

(* Mutated Erase: keeps the element and drops its successor.               *)
EraseNext(queue, i) == SubSeq(queue, 1, i) \o SubSeq(queue, i + 2, Len(queue))

(* The queue without its i-th element (deque::erase).                      *)
Erase(queue, i) == SubSeq(queue, 1, i - 1) \o SubSeq(queue, i + 1, Len(queue))

(* Positions of the tasks in a set, and the first of a set of positions.   *)
Positions(queue, these) == {i \in 1..Len(queue) : queue[i] \in these}
First(positions) == CHOOSE i \in positions : \A j \in positions : i <= j

(* A call of removeExpiredTasks() is in progress.  It does not take the    *)
(* mutex; a program may order its threads otherwise.                       *)
Sweeping(c) == callerPc[c] \in {"sweep", "swept", "counting"}
Unlocked ==
    /\ mutex_ = NoThread
    /\ SweepsAlone => \A c \in Callers : ~Sweeping(c)

(* Where the sweeps' iterators stand, seen from the first task, after a    *)
(* pop_front(), which moves the first task on, and after an erase() at i,  *)
(* which does so when i is in the first half and it closes the gap from    *)
(* the front.                                                              *)
Shifted == [c \in Callers |-> IF Sweeping(c) THEN sweepAt[c] - 1 ELSE sweepAt[c]]
ShiftedAt(i) == IF 1 <= i /\ 2 * i <= Len(tasks_) THEN Shifted ELSE sweepAt

(* Mutated Decremented: the leaving worker is not subtracted.              *)
NotDecremented(n) == n

(* size_t decrement: zero wraps around.                                    *)
Decremented(n) == IF n = 0 THEN SizeMax ELSE n - 1

-----------------------------------------------------------------------------
(* Worker::run                                                             *)

(* Mutated isActive: surplus workers leave although tasks are pending.     *)
isActiveUndrained == workerCount_ <= workerMaxCount_

isActive ==
    \/ workerCount_ <= workerMaxCount_
    \/ state_ = "JOINING" /\ tasks_ # <<>>

(* Wake a thread that waits for the worker count to reach the limit.       *)
SettledSignal(count) ==
    IF count = workerMaxCount_ THEN Notify(workerMonitor_) ELSE {workerMonitor_}

(* The thread function starts: take the mutex and join the pool, unless    *)
(* the limit was lowered in the meantime.                                  *)
WorkerStart(w) ==
    /\ workerPc[w] = "starting" /\ Unlocked
    /\ mutex_' = w
    /\ IF workerCount_ < workerMaxCount_
       THEN /\ workerCount_' = workerCount_ + 1
            /\ workerPc' = [workerPc EXCEPT ![w] = "loop"]
            /\ workerMonitor_' \in SettledSignal(workerCount_')
       ELSE /\ workerPc' = [workerPc EXCEPT ![w] = "leaving"]
            /\ UNCHANGED <<workerCount_, workerMonitor_>>
    /\ UNCHANGED <<state_, workerMaxCount_, idleCount_, expiredCount_, tasks_,
                   monitor_, maxMonitor_, workerTask, callerVars, sweepAt,
                   sweepSeen, adminPc, lapsed, fate>>

(* Mutated WorkerWait: the idle worker is not counted.                     *)
WorkerWaitUncounted(w) ==
    /\ workerPc[w] = "loop" /\ isActive /\ tasks_ = <<>>
    /\ monitor_' = monitor_ \cup {w}
    /\ workerPc' = [workerPc EXCEPT ![w] = "wait"]
    /\ mutex_' = NoThread
    /\ UNCHANGED <<state_, poolVars, expiredCount_, tasks_, maxMonitor_,
                   workerMonitor_, workerTask, callerVars, sweepAt, sweepSeen,
                   adminPc, lapsed, fate>>

(* Nothing to do: become idle and wait, which releases the mutex.          *)
WorkerWait(w) ==
    /\ workerPc[w] = "loop" /\ isActive /\ tasks_ = <<>>
    /\ idleCount_' = idleCount_ + 1
    /\ monitor_' = monitor_ \cup {w}
    /\ workerPc' = [workerPc EXCEPT ![w] = "wait"]
    /\ mutex_' = NoThread
    /\ UNCHANGED <<state_, workerCount_, workerMaxCount_, expiredCount_,
                   tasks_, maxMonitor_, workerMonitor_, workerTask,
                   callerVars, sweepAt, sweepSeen, adminPc, lapsed, fate>>

(* wait() returns with the mutex held; the loop decides what comes next.   *)
WorkerWakeup(w) ==
    /\ workerPc[w] = "wait" /\ w \notin monitor_ /\ Unlocked
    /\ mutex_' = w
    /\ idleCount_' = idleCount_ - 1
    /\ workerPc' = [workerPc EXCEPT ![w] = "loop"]
    /\ UNCHANGED <<state_, workerCount_, workerMaxCount_, expiredCount_,
                   tasks_, monitor_, maxMonitor_, workerMonitor_, workerTask,
                   callerVars, sweepAt, sweepSeen, adminPc, lapsed, fate>>

(* The state a worker gives to a task it takes off the queue.              *)
Admitted(t) == IF t \in lapsed THEN "expired" ELSE "executing"

(* Mutated RoomSignal: nobody is woken.                                    *)
RoomSignalMissing(queue) == {maxMonitor_}

(* Wake a thread blocked in add() if the queue is below its limit.         *)
RoomSignal(queue) ==
    IF PendingTaskCountMax # 0 /\ Len(queue) <= PendingTaskCountMax - 1
    THEN Notify(maxMonitor_) ELSE {maxMonitor_}

(* Take the first task.  A live task is run, and an expired one passed to  *)
(* the callback, without the mutex; an expired task without a callback is  *)
(* dropped and the loop goes on with the mutex held.                       *)
WorkerDequeue(w) ==
    /\ workerPc[w] = "loop" /\ isActive /\ tasks_ # <<>>
    /\ LET t == Head(tasks_) IN
       /\ tasks_' = Tail(tasks_)
       /\ fate' = [fate EXCEPT ![t] = Admitted(t)]
       /\ IF Admitted(t) = "expired" /\ ~ExpireCallback
          THEN UNCHANGED <<mutex_, workerVars>>
          ELSE /\ mutex_' = NoThread
               /\ workerPc' = [workerPc EXCEPT ![w] =
                     IF Admitted(t) = "expired" THEN "expiring" ELSE "running"]
               /\ workerTask' = [workerTask EXCEPT ![w] = t]
    /\ maxMonitor_' \in RoomSignal(tasks_')
    /\ sweepAt' = Shifted
    /\ UNCHANGED <<state_, poolVars, expiredCount_, monitor_, workerMonitor_,
                   callerVars, sweepSeen, adminPc, lapsed>>

(* The task returned or threw: take the mutex again.                       *)
WorkerTaskDone(w) ==
    /\ workerPc[w] = "running" /\ Unlocked
    /\ mutex_' = w
    /\ workerPc' = [workerPc EXCEPT ![w] = "loop"]
    /\ workerTask' = [workerTask EXCEPT ![w] = NoTask]
    /\ fate' = [fate EXCEPT ![workerTask[w]] = "complete"]
    /\ UNCHANGED <<state_, poolVars, expiredCount_, tasks_, monitor_,
                   maxMonitor_, workerMonitor_, callerVars, sweepAt,
                   sweepSeen, adminPc, lapsed>>

(* The expire callback returned.                                           *)
WorkerExpireDone(w) ==
    /\ workerPc[w] = "expiring" /\ Unlocked
    /\ mutex_' = w
    /\ workerPc' = [workerPc EXCEPT ![w] = "loop"]
    /\ workerTask' = [workerTask EXCEPT ![w] = NoTask]
    /\ expiredCount_' = expiredCount_ + 1
    /\ UNCHANGED <<state_, poolVars, tasks_, monitor_, maxMonitor_,
                   workerMonitor_, callerVars, sweepAt, sweepSeen, adminPc,
                   lapsed, fate>>

(* The worker is surplus: leave the loop.                                  *)
WorkerInactive(w) ==
    /\ workerPc[w] = "loop" /\ ~isActive
    /\ workerPc' = [workerPc EXCEPT ![w] = "leaving"]
    /\ UNCHANGED <<state_, poolVars, expiredCount_, tasks_, mutex_, monitor_,
                   maxMonitor_, workerMonitor_, workerTask, callerVars,
                   sweepAt, sweepSeen, adminPc, lapsed, fate>>

(* Final accounting.                                                       *)
WorkerExit(w) ==
    /\ workerPc[w] = "leaving"
    /\ workerPc' = [workerPc EXCEPT ![w] = "dead"]
    /\ workerCount_' = Decremented(workerCount_)
    /\ workerMonitor_' \in SettledSignal(workerCount_')
    /\ mutex_' = NoThread
    /\ UNCHANGED <<state_, workerMaxCount_, idleCount_, expiredCount_, tasks_,
                   monitor_, maxMonitor_, workerTask, callerVars, sweepAt,
                   sweepSeen, adminPc, lapsed, fate>>

-----------------------------------------------------------------------------
(* The threads that manage the pool.                                       *)

Start(a) ==
    /\ adminPc[a] = "idle" /\ Unlocked
    /\ state_ = "UNINITIALIZED"
    /\ state_' = "STARTED"
    /\ monitor_' \in NotifyAll(monitor_)
    /\ UNCHANGED <<poolVars, expiredCount_, tasks_, mutex_, maxMonitor_,
                   workerMonitor_, workerVars, callerVars, sweepAt, sweepSeen,
                   adminPc, lapsed, fate>>

(* addWorker(value): raise the limit, start the threads, and wait for the  *)
(* count to reach the limit.                                               *)
AddWorker(a, newThreads) ==
    /\ adminPc[a] = "idle" /\ Unlocked
    /\ newThreads # {} /\ \A w \in newThreads : workerPc[w] = "none"
    /\ workerMaxCount_' = workerMaxCount_ + Cardinality(newThreads)
    /\ workerPc' = [w \in Workers |->
                      IF w \in newThreads THEN "starting" ELSE workerPc[w]]
    /\ IF workerCount_ # workerMaxCount_'
       THEN /\ adminPc' = [adminPc EXCEPT ![a] = "addWorker"]
            /\ workerMonitor_' = workerMonitor_ \cup {a}
       ELSE UNCHANGED <<adminPc, workerMonitor_>>
    /\ UNCHANGED <<state_, workerCount_, idleCount_, expiredCount_, tasks_,
                   mutex_, monitor_, maxMonitor_, workerTask, callerVars,
                   sweepAt, sweepSeen, lapsed, fate>>

(* The tail of removeWorkersUnderLock: dead workers are joined and         *)
(* forgotten.                                                              *)
Reaped == [w \in Workers |-> IF workerPc[w] = "dead" THEN "reaped"
                                                     ELSE workerPc[w]]

(* removeWorkersUnderLock(value), called by removeWorker and stop.         *)
removeWorkersUnderLock(a, value, call) ==
    /\ workerMaxCount_' = workerMaxCount_ - value
    /\ monitor_' \in IF idleCount_ > value THEN NotifyTimes(monitor_, value)
                                           ELSE NotifyAll(monitor_)
    /\ IF workerCount_ # workerMaxCount_'
       THEN /\ adminPc' = [adminPc EXCEPT ![a] = call]
            /\ workerMonitor_' = workerMonitor_ \cup {a}
            /\ state_' = IF call = "stop" THEN "JOINING" ELSE state_
            /\ UNCHANGED workerPc
       ELSE /\ workerPc' = Reaped
            /\ state_' = IF call = "stop" THEN "STOPPED" ELSE state_
            /\ UNCHANGED <<adminPc, workerMonitor_>>
    /\ UNCHANGED <<workerCount_, idleCount_, expiredCount_, tasks_, mutex_,
                   maxMonitor_, workerTask, callerVars, sweepAt, sweepSeen,
                   lapsed, fate>>

RemoveWorker(a, value) ==
    /\ adminPc[a] = "idle" /\ Unlocked
    /\ value <= workerMaxCount_
    /\ removeWorkersUnderLock(a, value, "removeWorker")

(* stop(): the first call removes the workers there are; any other call    *)
(* only sets the state.  Asking for more workers than the limit throws,    *)
(* and leaves the state at JOINING.                                        *)
Stop(a) ==
    /\ adminPc[a] = "idle" /\ Unlocked
    /\ \/ /\ state_ \notin {"JOINING", "STOPPED"}
          /\ workerCount_ <= workerMaxCount_
          /\ removeWorkersUnderLock(a, workerCount_, "stop")
       \/ /\ \/ state_ \in {"JOINING", "STOPPED"} /\ state_' = "STOPPED"
             \/ /\ state_ \notin {"JOINING", "STOPPED"}
                /\ workerCount_ > workerMaxCount_
                /\ state_' = "JOINING"
          /\ UNCHANGED <<poolVars, expiredCount_, tasks_, mutex_, monitor_,
                         maxMonitor_, workerMonitor_, workerVars, callerVars,
                         sweepAt, sweepSeen, adminPc, lapsed, fate>>

(* Mutated Settled: any wakeup ends the wait (an if in place of a while).  *)
SettledOnceWoken == TRUE

(* The condition addWorker, removeWorker and stop wait for.                *)
Settled == workerCount_ = workerMaxCount_

(* workerMonitor_.wait() returns: wait again, or finish the call.          *)
AdminWakeup(a) ==
    /\ adminPc[a] # "idle" /\ a \notin workerMonitor_ /\ Unlocked
    /\ IF ~Settled
       THEN /\ workerMonitor_' = workerMonitor_ \cup {a}
            /\ UNCHANGED <<adminPc, workerPc, state_>>
       ELSE /\ adminPc' = [adminPc EXCEPT ![a] = "idle"]
            /\ workerPc' = IF adminPc[a] = "addWorker" THEN workerPc ELSE Reaped
            /\ state_' = IF adminPc[a] = "stop" THEN "STOPPED" ELSE state_
            /\ UNCHANGED workerMonitor_
    /\ UNCHANGED <<poolVars, expiredCount_, tasks_, mutex_, monitor_,
                   maxMonitor_, workerTask, callerVars, sweepAt, sweepSeen,
                   lapsed, fate>>

-----------------------------------------------------------------------------
(* The threads that queue tasks: callers, and workers from within a task.  *)

(* Mutated Enqueue: an idle worker is woken for the first task only.       *)
EnqueueEdge(queue, t) ==
    /\ tasks_' = Append(queue, t)
    /\ monitor_' \in IF idleCount_ > 0 /\ queue = <<>> THEN Notify(monitor_)
                                                      ELSE {monitor_}

(* Mutated Enqueue: nobody is woken.                                       *)
EnqueueSilent(queue, t) == tasks_' = Append(queue, t) /\ UNCHANGED monitor_

(* The end of add(): queue the task and wake an idle worker.               *)
Enqueue(queue, t) ==
    /\ tasks_' = Append(queue, t)
    /\ monitor_' \in IF idleCount_ > 0 THEN Notify(monitor_) ELSE {monitor_}

(* Mutated Victim: the oldest task makes way, expired or not.              *)
VictimOldest == 1

(* removeExpired(true): at the limit, drop the first expired task.         *)
SomeExpired == Full(tasks_) /\ Positions(tasks_, lapsed) # {}
Victim == First(Positions(tasks_, lapsed))
WithRoomMade == IF SomeExpired THEN Erase(tasks_, Victim) ELSE tasks_

Accounted(newFate) ==
    IF SomeExpired
    THEN /\ fate' = [newFate EXCEPT ![tasks_[Victim]] = "expired"]
         /\ expiredCount_' = expiredCount_ + 1
         /\ sweepAt' = ShiftedAt(Victim)
    ELSE fate' = newFate /\ UNCHANGED <<expiredCount_, sweepAt>>

(* A client thread, or a worker whose task calls add.                      *)
Free(th) == IF th \in Workers THEN workerPc[th] = "running"
                              ELSE callerPc[th] = "idle"

(* add() with room in the queue, possibly made by dropping a task.         *)
Add(th, t) ==
    /\ Free(th) /\ Unlocked /\ fate[t] = "unused"
    /\ state_ = "STARTED"
    /\ ~Full(WithRoomMade)
    /\ Enqueue(WithRoomMade, t)
    /\ Accounted([fate EXCEPT ![t] = "pending"])
    /\ UNCHANGED <<state_, poolVars, mutex_, maxMonitor_, workerMonitor_,
                   workerVars, callerVars, sweepSeen, adminPc, lapsed>>

(* canSleep(): a thread of the pool may not block in add().                *)
canSleep(th) == th \notin Workers

(* add() on a full queue blocks on maxMonitor_.                            *)
AddBlock(c, t, timeout) ==
    /\ Free(c) /\ Unlocked /\ fate[t] = "unused"
    /\ state_ = "STARTED"
    /\ Full(WithRoomMade)
    /\ canSleep(c) /\ timeout # "nonblocking"
    /\ maxMonitor_' = maxMonitor_ \cup {c}
    /\ callerPc' = [callerPc EXCEPT ![c] =
                      IF timeout = "timed" THEN "addTimed" ELSE "addForever"]
    /\ callerTask' = [callerTask EXCEPT ![c] = t]
    /\ Accounted([fate EXCEPT ![t] = "blocked"])
    /\ tasks_' = WithRoomMade
    /\ UNCHANGED <<state_, poolVars, mutex_, monitor_, workerMonitor_,
                   workerVars, sweepNow, sweepSeen, adminPc, lapsed>>

Blocked(c) == callerPc[c] \in {"addTimed", "addForever"}

(* maxMonitor_.wait() returns: wait again while the queue is full, else    *)
(* queue the task.  The state of the manager is not looked at again.       *)
AddWakeup(c) ==
    /\ Blocked(c) /\ c \notin maxMonitor_ /\ Unlocked
    /\ IF Full(tasks_)
       THEN /\ maxMonitor_' = maxMonitor_ \cup {c}
            /\ UNCHANGED <<tasks_, monitor_, callerPc, callerTask, fate>>
       ELSE /\ Enqueue(tasks_, callerTask[c])
            /\ callerPc' = [callerPc EXCEPT ![c] = "idle"]
            /\ callerTask' = [callerTask EXCEPT ![c] = NoTask]
            /\ fate' = [fate EXCEPT ![callerTask[c]] = "pending"]
            /\ UNCHANGED maxMonitor_
    /\ UNCHANGED <<state_, poolVars, expiredCount_, mutex_, workerMonitor_,
                   workerVars, sweepNow, sweepAt, sweepSeen, adminPc, lapsed>>

(* wait(timeout) throws TimedOutException, whether or not the thread was   *)
(* signalled before it noticed that the time was up.                       *)
AddTimeout(c) ==
    /\ callerPc[c] = "addTimed" /\ Unlocked
    /\ maxMonitor_' = maxMonitor_ \ {c}
    /\ callerPc' = [callerPc EXCEPT ![c] = "idle"]
    /\ callerTask' = [callerTask EXCEPT ![c] = NoTask]
    /\ fate' = [fate EXCEPT ![callerTask[c]] = "unused"]
    /\ UNCHANGED <<state_, poolVars, expiredCount_, tasks_, mutex_, monitor_,
                   workerMonitor_, workerVars, sweepNow, sweepAt, sweepSeen,
                   adminPc, lapsed>>

(* remove(runnable): erase the first task that wraps it.                   *)
Remove(c, runnable) ==
    /\ Free(c) /\ Unlocked /\ state_ = "STARTED"
    /\ LET matches == {i \in 1..Len(tasks_) : RunnableOf[tasks_[i]] = runnable}
       IN /\ matches # {}
          /\ tasks_' = Erase(tasks_, First(matches))
          /\ fate' = [fate EXCEPT ![tasks_[First(matches)]] = "removed"]
          /\ sweepAt' = ShiftedAt(First(matches))
    /\ UNCHANGED <<state_, poolVars, expiredCount_, mutex_, monitor_,
                   maxMonitor_, workerMonitor_, workerVars, callerVars,
                   sweepSeen, adminPc, lapsed>>

(* removeNextPending(): take the head of the queue away from the workers.  *)
RemoveNextPending(c) ==
    /\ Free(c) /\ Unlocked /\ state_ = "STARTED"
    /\ tasks_ # <<>>
    /\ tasks_' = Tail(tasks_)
    /\ fate' = [fate EXCEPT ![Head(tasks_)] = "removed"]
    /\ sweepAt' = Shifted
    /\ UNCHANGED <<state_, poolVars, expiredCount_, mutex_, monitor_,
                   maxMonitor_, workerMonitor_, workerVars, callerVars,
                   sweepSeen, adminPc, lapsed>>

(* removeExpiredTasks(): removeExpired(false) without the mutex.  It reads *)
(* the clock once and walks the queue with an iterator that it keeps while *)
(* other threads use the queue.                                            *)
SweepBegin(c) ==
    /\ Free(c) /\ tasks_ # <<>>
    /\ SweepsAlone => Unlocked
    /\ callerPc' = [callerPc EXCEPT ![c] = "sweep"]
    /\ sweepNow' = [sweepNow EXCEPT ![c] = lapsed]
    /\ sweepAt' = [sweepAt EXCEPT ![c] = 1]
    /\ UNCHANGED <<state_, poolVars, expiredCount_, tasks_, mutex_, monitor_,
                   maxMonitor_, workerMonitor_, workerVars, callerTask,
                   sweepSeen, adminPc, lapsed, fate>>

(* What a sweep leaves alone while it only looks at the queue.             *)
SweepUnseen ==
    UNCHANGED <<state_, poolVars, expiredCount_, tasks_, mutex_, monitor_,
                maxMonitor_, workerMonitor_, workerVars, callerTask,
                sweepSeen, adminPc, lapsed, fate>>

(* it == tasks_.end().                                                     *)
SweepEnd(c) ==
    /\ callerPc[c] = "sweep" /\ sweepAt[c] > Len(tasks_)
    /\ callerPc' = [callerPc EXCEPT ![c] = "idle"]
    /\ sweepNow' = [sweepNow EXCEPT ![c] = {}]
    /\ sweepAt' = [sweepAt EXCEPT ![c] = 0]
    /\ SweepUnseen

(* *it.  In front of the first task the iterator reads what a task that    *)
(* has left the queue left behind, expired or not.                         *)
MayHaveExpired(c) == IF sweepAt[c] < 1 THEN sweepNow[c] # {}
                                       ELSE tasks_[sweepAt[c]] \in sweepNow[c]
MayBeLive(c) == sweepAt[c] < 1 \/ ~MayHaveExpired(c)

(* Not expired: ++it.                                                      *)
SweepPass(c) ==
    /\ callerPc[c] = "sweep" /\ sweepAt[c] <= Len(tasks_) /\ MayBeLive(c)
    /\ sweepAt' = [sweepAt EXCEPT ![c] = @ + 1]
    /\ UNCHANGED <<callerPc, sweepNow>>
    /\ SweepUnseen

(* Expired: the callback is called.                                        *)
SweepCallback(c) ==
    /\ callerPc[c] = "sweep" /\ sweepAt[c] <= Len(tasks_) /\ MayHaveExpired(c)
    /\ callerPc' = [callerPc EXCEPT ![c] = "swept"]
    /\ UNCHANGED <<sweepNow, sweepAt>>
    /\ SweepUnseen

(* The task that erase(it) takes out: the first one when the iterator is   *)
(* in front of the queue, the last one when it is behind it.               *)
EraseAt(c) ==
    CASE sweepAt[c] < 1 -> 1
      [] sweepAt[c] > Len(tasks_) -> Len(tasks_)
      [] OTHER -> sweepAt[c]

(* it = tasks_.erase(it), and ++expiredCount_ up to the read.  A task that *)
(* is not the one the callback was for is lost, unless its time is over as *)
(* well.  Erasing from an empty deque, which leaves it in no state of a    *)
(* sequence, changes nothing here.                                         *)
SweepErase(c) ==
    /\ callerPc[c] = "swept"
    /\ callerPc' = [callerPc EXCEPT ![c] = "counting"]
    /\ sweepSeen' = [sweepSeen EXCEPT ![c] = expiredCount_]
    /\ IF tasks_ = <<>>
       THEN UNCHANGED <<tasks_, fate, sweepAt>>
       ELSE LET t == tasks_[EraseAt(c)] IN
            /\ tasks_' = Erase(tasks_, EraseAt(c))
            /\ fate' = [fate EXCEPT ![t] = IF t \in lapsed THEN "expired" ELSE "lost"]
            /\ sweepAt' = [ShiftedAt(sweepAt[c]) EXCEPT ![c] = sweepAt[c]]
    /\ UNCHANGED <<state_, poolVars, expiredCount_, mutex_, monitor_,
                   maxMonitor_, workerMonitor_, workerVars, callerTask,
                   sweepNow, adminPc, lapsed>>

(* The write of ++expiredCount_.                                           *)
SweepCount(c) ==
    /\ callerPc[c] = "counting"
    /\ callerPc' = [callerPc EXCEPT ![c] = "sweep"]
    /\ expiredCount_' = sweepSeen[c] + 1
    /\ sweepSeen' = [sweepSeen EXCEPT ![c] = 0]
    /\ UNCHANGED <<state_, poolVars, tasks_, mutex_, monitor_, maxMonitor_,
                   workerMonitor_, workerVars, callerTask, sweepNow, sweepAt,
                   adminPc, lapsed, fate>>

Sweep(c) ==
    SweepEnd(c) \/ SweepPass(c) \/ SweepCallback(c) \/ SweepErase(c) \/ SweepCount(c)

-----------------------------------------------------------------------------
(* The environment.                                                        *)

(* The clock passes the expire time of a queued task.                      *)
Lapse(t) ==
    /\ t \in Expiring \ lapsed /\ fate[t] = "pending"
    /\ lapsed' = lapsed \cup {t}
    /\ UNCHANGED <<state_, poolVars, expiredCount_, tasks_, mutex_, monitor_,
                   maxMonitor_, workerMonitor_, workerVars, callerVars,
                   sweepAt, sweepSeen, adminPc, fate>>

(* A condition variable returns from its wait without a signal.            *)
Spurious ==
    /\ \/ /\ monitor_' \in SpuriousWakeup(monitor_)
          /\ UNCHANGED <<maxMonitor_, workerMonitor_>>
       \/ /\ maxMonitor_' \in SpuriousWakeup(maxMonitor_)
          /\ UNCHANGED <<monitor_, workerMonitor_>>
       \/ /\ workerMonitor_' \in SpuriousWakeup(workerMonitor_)
          /\ UNCHANGED <<monitor_, maxMonitor_>>
    /\ UNCHANGED <<state_, poolVars, expiredCount_, tasks_, mutex_,
                   workerVars, callerVars, sweepAt, sweepSeen, adminPc,
                   lapsed, fate>>

-----------------------------------------------------------------------------
Worker(w) ==
    \/ WorkerStart(w) \/ WorkerWait(w) \/ WorkerWakeup(w)
    \/ WorkerDequeue(w) \/ WorkerTaskDone(w) \/ WorkerExpireDone(w)
    \/ WorkerInactive(w) \/ WorkerExit(w)

Admin(a) ==
    \/ AdminWakeup(a)
    \/ "start" \in AdminCalls[a] /\ Start(a)
    \/ "stop" \in AdminCalls[a] /\ Stop(a)
    \/ /\ "addWorker" \in AdminCalls[a]
       /\ \E newThreads \in SUBSET Workers : AddWorker(a, newThreads)
    \/ /\ "removeWorker" \in AdminCalls[a]
       /\ \E value \in 1..Cardinality(Workers) : RemoveWorker(a, value)

Caller(c) ==
    \/ \E t \in Tasks, timeout \in Timeouts : AddBlock(c, t, timeout)
    \/ AddWakeup(c) \/ AddTimeout(c)
    \/ c \in Removers /\ \E r \in Runnables : Remove(c, r)
    \/ c \in Removers /\ RemoveNextPending(c)
    \/ c \in Sweepers /\ (SweepBegin(c) \/ Sweep(c))

Next ==
    \/ \E w \in Workers : Worker(w)
    \/ \E a \in Admins : Admin(a)
    \/ \E c \in Callers : Caller(c)
    \/ \E th \in Workers \cup Callers, t \in Tasks : Add(th, t)
    \/ \E t \in Tasks : Lapse(t)
    \/ Spurious

Spec == Init /\ [][Next]_vars

(***************************************************************************)
(* A thread that is not blocked keeps running, and a thread that waits for *)
(* the mutex gets it although others take it in between: strong fairness.  *)
(* Tasks and expire callbacks return.  Nobody has to call the manager, no  *)
(* expire time has to pass, and no wakeup is spurious by necessity.        *)
(***************************************************************************)
Fairness ==
    /\ \A w \in Workers : SF_vars(Worker(w))
    /\ \A a \in Admins : SF_vars(AdminWakeup(a))
    /\ \A c \in Callers : SF_vars(AddWakeup(c) \/ AddTimeout(c))
    /\ \A c \in Sweepers : WF_vars(Sweep(c))

FairSpec == Spec /\ Fairness

-----------------------------------------------------------------------------
(* Properties.                                                             *)

TypeOK ==
    /\ state_ \in {"UNINITIALIZED", "STARTED", "JOINING", "STOPPED"}
    /\ workerCount_ \in Nat /\ workerMaxCount_ \in Nat
    /\ idleCount_ \in Nat /\ expiredCount_ \in Nat
    /\ tasks_ \in Seq(Tasks)
    /\ mutex_ \in Workers \cup {NoThread}
    /\ monitor_ \subseteq Workers
    /\ maxMonitor_ \subseteq Callers /\ workerMonitor_ \subseteq Admins
    /\ workerPc \in [Workers -> {"none", "starting", "loop", "wait", "running",
                                 "expiring", "leaving", "dead", "reaped"}]
    /\ workerTask \in [Workers -> Tasks \cup {NoTask}]
    /\ callerPc \in [Callers -> {"idle", "addForever", "addTimed",
                                 "sweep", "swept", "counting"}]
    /\ callerTask \in [Callers -> Tasks \cup {NoTask}]
    /\ sweepNow \in [Callers -> SUBSET Tasks]
    /\ sweepAt \in [Callers -> Int] /\ sweepSeen \in [Callers -> Nat]
    /\ adminPc \in [Admins -> {"idle", "addWorker", "removeWorker", "stop"}]
    /\ lapsed \subseteq Tasks
    /\ fate \in [Tasks -> {"unused", "blocked", "pending", "executing",
                           "complete", "expired", "removed", "lost"}]

(* The queue never holds more than pendingTaskCountMax_ tasks, although a  *)
(* thread that waited in add() queues its task long after it looked at the *)
(* limit for the first time and others may have come in between.           *)
QueueBounded == PendingTaskCountMax > 0 => Len(tasks_) <= PendingTaskCountMax

(* No task gets lost, and each is in one place only: pending tasks are the *)
(* ones in the queue, each of them once, and a task that is being run is   *)
(* run by one worker.                                                      *)
TasksAccounted ==
    /\ \A t \in Tasks : fate[t] # "lost"
    /\ \A t \in Tasks : fate[t] = "pending" <=> \E i \in 1..Len(tasks_) : tasks_[i] = t
    /\ \A i, j \in 1..Len(tasks_) : tasks_[i] = tasks_[j] => i = j
    /\ \A w \in Workers : workerPc[w] = "running" =>
          /\ fate[workerTask[w]] = "executing"
          /\ \A u \in Workers \ {w} : workerTask[u] # workerTask[w]

(* The workers blocked in monitor_.wait(), signalled or not.               *)
Waiting == {w \in Workers : workerPc[w] = "wait"}

(* Parts of the inductive invariant that the proofs need and no run names: *)
(* idleCount_ counts the waiting workers; a thread blocked in add() holds  *)
(* a task of its own; so does a worker that runs or expires one.           *)
IdleCountExact == monitor_ \subseteq Waiting /\ idleCount_ = Cardinality(Waiting)

CallersHoldTasks ==
    \A c \in Callers :
        /\ Blocked(c) => /\ callerTask[c] \in Tasks /\ fate[callerTask[c]] = "blocked"
                         /\ \A d \in Callers \ {c} : callerTask[d] # callerTask[c]
        /\ ~Blocked(c) => callerTask[c] = NoTask

WorkersHoldTasks ==
    \A w \in Workers :
        /\ workerPc[w] = "running" =>
              workerTask[w] \in Tasks /\ fate[workerTask[w]] = "executing"
        /\ workerPc[w] = "expiring" =>
              workerTask[w] \in Tasks /\ fate[workerTask[w]] = "expired"
        /\ workerPc[w] \notin {"running", "expiring"} => workerTask[w] = NoTask

(* The workers that have entered the pool and not left it.                 *)
Counted == {w \in Workers :
              workerPc[w] \in {"loop", "wait", "running", "expiring", "leaving"}}

(* The counters are exact: workerCount() is the number of worker threads   *)
(* in the pool, and expiredTaskCount() that of the tasks that expired      *)
(* without being run, be it a worker, a sweep or a full add() that dropped *)
(* them, but for the ones a worker is passing to the callback and the one  *)
(* a sweep is about to count.                                              *)
CountersExact ==
    /\ workerCount_ = Cardinality(Counted)
    /\ expiredCount_ + Cardinality({w \in Workers : workerPc[w] = "expiring"})
                     + Cardinality({c \in Callers : callerPc[c] = "counting"})
         = Cardinality({t \in Tasks : fate[t] = "expired"})

(* Workers that are awake between two tasks: they will look at the queue,  *)
(* or leave the pool, before they sleep again.                             *)
Alert == {w \in Workers :
            \/ workerPc[w] \in {"loop", "leaving"}
            \/ workerPc[w] = "wait" /\ w \notin monitor_}
Surplus == IF workerCount_ > workerMaxCount_
           THEN workerCount_ - workerMaxCount_ ELSE 0

(* No lost wakeup for workers: as long as a worker sleeps there are enough *)
(* awake ones for every pending task and for every worker that has to go.  *)
(* idleCount_, by which add() and removeWorkersUnderLock() decide whom to  *)
(* notify, also counts workers that were notified before.                  *)
NoSleepWhileWork ==
    monitor_ # {} => Cardinality(Alert) >= Len(tasks_) + Surplus

(* When the manager becomes STOPPED no worker thread is left.              *)
StopLeavesNoWorker ==
    [][state_ # "STOPPED" /\ state_' = "STOPPED" =>
         \A w \in Workers : workerPc'[w] \in {"none", "reaped"}]_vars

(* A task is run at most once, and never after it expired or was removed,  *)
(* not even when its expire time passed while it was in the queue.         *)
TaskRunsOnce ==
    [][\A t \in Tasks :
         /\ fate'[t] = "executing" =>
              \/ fate[t] = "executing"
              \/ fate[t] = "pending" /\ t \notin lapsed
         /\ fate[t] \in {"complete", "expired", "removed", "lost"} =>
              fate'[t] = fate[t]]_vars

(* removeExpiredTasks() removes "tasks from front of task queue that have   *)
(* expired" (ThreadManager.h:181), and no other ones.                      *)
SweepsTakeExpired == \A t \in Tasks : fate[t] # "lost"

(* A pending task is taken off the queue as long as there are workers.     *)
PendingTaskIsTaken ==
    \A t \in Tasks :
        fate[t] = "pending" ~> fate[t] # "pending" \/ workerMaxCount_ = 0

(* addWorker, removeWorker and stop return, and a thread blocked in add()  *)
(* gets its task queued while there are workers, although every notify()   *)
(* wakes a single thread that may find its condition untrue again.         *)
CallsReturn ==
    /\ \A a \in Admins : adminPc[a] # "idle" ~> adminPc[a] = "idle"
    /\ \A c \in Callers : Blocked(c) ~> ~Blocked(c) \/ workerMaxCount_ = 0

(* stop() runs what is in the queue as long as the last worker is there:   *)
(* isActive() keeps a worker in the loop for it.  The comment at           *)
(* ThreadManager.h:72 promises the opposite, that stop() "Aborts all        *)
(* remaining unprocessed task".                                            *)
StopDrainsQueue ==
    \A t \in Tasks :
        fate[t] = "pending" /\ state_ = "JOINING" /\ workerCount_ > 0
            ~> fate[t] \in {"complete", "expired"}

-----------------------------------------------------------------------------
(* What became of each task, for the one who added it: a task that add()   *)
(* still waits with has not been added.                                    *)
Outcomes == [t \in Tasks |-> IF fate[t] \in {"unused", "blocked"} THEN "new" ELSE fate[t]]

(* The task each worker runs.                                              *)
Runs == [w \in Workers |-> IF workerPc[w] = "running" THEN workerTask[w] ELSE NoTask]

(* The manager is a bounded queue served in order: TaskPool.               *)
Pool == INSTANCE TaskPool WITH
    Slots <- Workers, Capacity <- PendingTaskCountMax, Idle <- NoTask,
    queue <- tasks_, outcome <- Outcomes, overdue <- lapsed, runs <- Runs

(* Whatever threads, removals, sweeps and timeouts do at the same time:    *)
(* the tasks are started in the order in which they were added, at most    *)
(* one at a time by each worker, each at most once and never after it      *)
(* expired or was removed, and the queue stays within its limit.           *)
ImplementsPool == Pool!Spec
=============================================================================

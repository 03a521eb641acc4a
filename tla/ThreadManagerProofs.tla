------------------------ MODULE ThreadManagerProofs ------------------------
(***************************************************************************)
(* Proofs about the tasks of ThreadManager, for every number of workers,   *)
(* callers, tasks and managing threads and every limit of the queue: the   *)
(* queue respects its limit, every task is in one place, no task is run    *)
(* twice or after its time, and the manager implements the abstract        *)
(* TaskPool.                                                               *)
(***************************************************************************)
EXTENDS ThreadManager, WellFoundedInduction, TLAPS

-----------------------------------------------------------------------------
(* Facts about the operators.                                              *)

(* A nonempty set of positions has a least member, and First picks it.     *)
LEMMA FirstIsLeast ==
  ASSUME NEW n \in Nat, NEW P \in SUBSET (1..n), P # {}
  PROVE  First(P) \in P
<1> DEFINE R == OpToRel(<, Nat)
<1>1. P \subseteq Nat
  OBVIOUS
<1>2. PICK k \in P : \A j \in P : ~(<<j, k>> \in R)
  BY <1>1, NatLessThanWellFounded, WFMin, Zenon
<1>3. \A a, b \in Nat : a < b => <<a, b>> \in R
  BY Zenon DEF OpToRel
<1>4. \A j \in P : ~(j < k)
  BY <1>1, <1>2, <1>3, ZenonT(30)
<1>5. \A j \in P : k <= j
  BY <1>1, <1>4
<1> QED
  BY <1>5, Zenon DEF First

(* Erasing position i moves the later elements up by one.                  *)
LEMMA EraseProperties ==
  ASSUME NEW S, NEW q \in Seq(S), NEW i \in 1..Len(q)
  PROVE  /\ Erase(q, i) \in Seq(S)
         /\ Len(Erase(q, i)) = Len(q) - 1
         /\ \A j \in 1..(Len(q) - 1) :
               Erase(q, i)[j] = IF j < i THEN q[j] ELSE q[j + 1]
<1> DEFINE a == SubSeq(q, 1, i - 1)
           b == SubSeq(q, i + 1, Len(q))
<1>1. /\ a \in Seq(S) /\ Len(a) = i - 1
      /\ \A j \in 1..(i - 1) : a[j] = q[j]
  OBVIOUS
<1>2. /\ b \in Seq(S) /\ Len(b) = Len(q) - i
      /\ \A j \in 1..(Len(q) - i) : b[j] = q[i + j]
  OBVIOUS
<1> HIDE DEF a, b
<1>3. /\ a \o b \in Seq(S)
      /\ Len(a \o b) = Len(a) + Len(b)
      /\ \A j \in 1..(Len(a) + Len(b)) :
            (a \o b)[j] = IF j <= Len(a) THEN a[j] ELSE b[j - Len(a)]
  <2>1. a \in Seq(S) /\ b \in Seq(S)
    BY <1>1, <1>2, Zenon
  <2> QED
    BY <2>1
<1>4. Len(a) + Len(b) = Len(q) - 1
  BY <1>1, <1>2
<1>5. ASSUME NEW j \in 1..(Len(q) - 1)
      PROVE  (a \o b)[j] = IF j < i THEN q[j] ELSE q[j + 1]
  <2>1. CASE j < i
    BY <1>1, <1>3, <1>4, <2>1
  <2>2. CASE ~(j < i)
    <3>1. (a \o b)[j] = b[j - (i - 1)]
      BY <1>1, <1>3, <1>4, <2>2
    <3>2. b[j - (i - 1)] = q[i + (j - (i - 1))]
      BY <1>2, <2>2
    <3>3. i + (j - (i - 1)) = j + 1
      OBVIOUS
    <3> QED
      BY <2>2, <3>1, <3>2, <3>3, Zenon
  <2> QED
    BY <2>1, <2>2, Zenon
<1> QED
  BY <1>3, <1>4, <1>5, Zenon DEF Erase, a, b

-----------------------------------------------------------------------------
(* The types of the queue, of the threads and of the tasks.                *)

WorkerPcs == {"none", "starting", "loop", "wait", "running", "expiring", "leaving",
              "dead", "reaped"}
Fates == {"unused", "blocked", "pending", "executing", "complete", "expired", "removed",
          "lost"}
SweepPcs == {"sweep", "swept", "counting"}
CallerPcs == {"idle", "addForever", "addTimed"} \cup SweepPcs

QueueTypes ==
    /\ tasks_ \in Seq(Tasks)
    /\ expiredCount_ \in Nat
    /\ workerPc \in [Workers -> WorkerPcs]
    /\ workerTask \in [Workers -> Tasks \cup {NoTask}]
    /\ callerPc \in [Callers -> CallerPcs]
    /\ callerTask \in [Callers -> Tasks \cup {NoTask}]
    /\ sweepNow \in [Callers -> SUBSET Tasks]
    /\ lapsed \subseteq Tasks
    /\ fate \in [Tasks -> Fates]

SweepTypes == sweepAt \in [Callers -> Int] /\ sweepSeen \in [Callers -> Nat]

-----------------------------------------------------------------------------
(* What a step can do to the tasks.  Most steps leave them alone; the      *)
(* others are one of a few.                                                *)

(* Workers without a task move, or none does.                              *)
WorkersMove ==
    /\ UNCHANGED <<tasks_, fate, lapsed, expiredCount_, workerTask, callerVars>>
    /\ workerPc' \in [Workers -> WorkerPcs]
    /\ \A w \in Workers : \/ workerPc'[w] = workerPc[w]
                          \/ /\ workerPc[w] \notin {"running", "expiring"}
                             /\ workerPc'[w] \notin {"running", "expiring"}

(* remove(), removeNextPending() or a sweep erases the i-th task.          *)
TaskErased(i, v) ==
    /\ tasks_' = Erase(tasks_, i) /\ fate' = [fate EXCEPT ![tasks_[i]] = v]
    /\ \/ v = "removed" /\ UNCHANGED callerPc
       \/ /\ v = IF tasks_[i] \in lapsed THEN "expired" ELSE "lost"
          /\ \E c \in Callers : /\ callerPc[c] = "swept"
                               /\ callerPc' = [callerPc EXCEPT ![c] = "counting"]
    /\ UNCHANGED <<expiredCount_, lapsed, workerVars, callerTask, sweepNow>>

(* A sweep begins, moves on, counts or ends.                               *)
SweepMoves(c) ==
    /\ UNCHANGED <<tasks_, fate, lapsed, workerVars, callerTask>>
    /\ \E now \in {sweepNow[c], lapsed, {}} : sweepNow' = [sweepNow EXCEPT ![c] = now]
    /\ \/ /\ callerPc[c] \in {"idle", "sweep"} /\ UNCHANGED expiredCount_
          /\ \E pc \in {"idle", "sweep", "swept"} : callerPc' = [callerPc EXCEPT ![c] = pc]
       \/ /\ callerPc[c] = "swept" /\ tasks_ = <<>> /\ UNCHANGED expiredCount_
          /\ callerPc' = [callerPc EXCEPT ![c] = "counting"]
       \/ /\ callerPc[c] = "counting" /\ expiredCount_' = sweepSeen[c] + 1
          /\ callerPc' = [callerPc EXCEPT ![c] = "sweep"]

TaskShapes ==
    \/ WorkersMove
    \/ \E w \in Workers : WorkerDequeue(w) \/ WorkerTaskDone(w) \/ WorkerExpireDone(w)
    \/ \E i \in 1..Len(tasks_), v \in {"removed", "expired", "lost"} : TaskErased(i, v)
    \/ \E c \in Callers : SweepMoves(c) \/ AddTimeout(c) \/ (AddWakeup(c) /\ ~Full(tasks_))
    \/ \E c \in Callers, t \in Tasks, timeout \in Timeouts : AddBlock(c, t, timeout)
    \/ \E th \in Workers \cup Callers, t \in Tasks : Add(th, t)
    \/ \E t \in Tasks : Lapse(t)

(* Taking the head of the queue is erasing its first position.             *)
LEMMA TailIsErase ==
  ASSUME NEW S, NEW q \in Seq(S), q # <<>>
  PROVE  1 \in 1..Len(q) /\ Head(q) = q[1] /\ Tail(q) = Erase(q, 1)
<1>1. Len(q) \in Nat /\ Len(q) # 0 /\ 1 \in 1..Len(q) /\ Head(q) = q[1]
  OBVIOUS
<1>2. /\ Erase(q, 1) \in Seq(S) /\ Len(Erase(q, 1)) = Len(q) - 1
      /\ \A j \in 1..(Len(q) - 1) : Erase(q, 1)[j] = IF j < 1 THEN q[j] ELSE q[j + 1]
  BY <1>1, EraseProperties, Zenon
<1>3. /\ Tail(q) \in Seq(S) /\ Len(Tail(q)) = Len(q) - 1
      /\ \A j \in 1..(Len(q) - 1) : Tail(q)[j] = q[j + 1]
  BY <1>1
<1> QED
  BY <1>1, <1>2, <1>3

(* A sweep erases a task of the queue, whatever its iterator points to.    *)
LEMMA EraseInQueue ==
  ASSUME SweepTypes, NEW c \in Callers, tasks_ \in Seq(Tasks), tasks_ # <<>>
  PROVE  EraseAt(c) \in 1..Len(tasks_)
<1>1. sweepAt[c] \in Int
  BY Zenon DEF SweepTypes
<1>2. Len(tasks_) \in Nat /\ Len(tasks_) # 0
  OBVIOUS
<1> QED
  BY <1>1, <1>2 DEF EraseAt

(* What the calls that take tasks off the queue do.                        *)
LEMMA ErasingCalls ==
  ASSUME QueueTypes, SweepTypes, NEW c \in Callers,
         \/ \E r \in Runnables : Remove(c, r)
         \/ RemoveNextPending(c) \/ SweepErase(c)
  PROVE  \/ \E i \in 1..Len(tasks_), v \in {"removed", "expired", "lost"} : TaskErased(i, v)
         \/ SweepMoves(c)
<1> USE DEF callerVars, workerVars, poolVars
<1>0. tasks_ \in Seq(Tasks) /\ Len(tasks_) \in Nat
  BY DEF QueueTypes
<1>1. ASSUME NEW r \in Runnables, Remove(c, r)
      PROVE  \E i \in 1..Len(tasks_), v \in {"removed", "expired", "lost"} : TaskErased(i, v)
  <2> DEFINE M == {i \in 1..Len(tasks_) : RunnableOf[tasks_[i]] = r}
  <2>1. /\ M \in SUBSET (1..Len(tasks_)) /\ M # {}
        /\ tasks_' = Erase(tasks_, First(M))
        /\ fate' = [fate EXCEPT ![tasks_[First(M)]] = "removed"]
        /\ UNCHANGED <<lapsed, expiredCount_, workerVars, callerVars>>
    BY <1>1, Zenon DEF Remove
  <2> HIDE DEF M
  <2>2. First(M) \in 1..Len(tasks_)
    BY <1>0, <2>1, FirstIsLeast, Zenon
  <2>3. TaskErased(First(M), "removed")
    BY <2>1, Zenon DEF TaskErased
  <2> QED
    BY <2>2, <2>3, Zenon
<1>2. CASE RemoveNextPending(c)
  <2>1. /\ tasks_ # <<>> /\ tasks_' = Tail(tasks_)
        /\ fate' = [fate EXCEPT ![Head(tasks_)] = "removed"]
        /\ UNCHANGED <<lapsed, expiredCount_, workerVars, callerVars>>
    BY <1>2, Zenon DEF RemoveNextPending
  <2>2. 1 \in 1..Len(tasks_) /\ Head(tasks_) = tasks_[1] /\ Tail(tasks_) = Erase(tasks_, 1)
    BY <1>0, <2>1, TailIsErase, Zenon
  <2>3. TaskErased(1, "removed")
    BY <2>1, <2>2, Zenon DEF TaskErased
  <2> QED
    BY <2>2, <2>3, Zenon
<1>3. CASE SweepErase(c)
  <2> DEFINE i == EraseAt(c)
             v == IF tasks_[i] \in lapsed THEN "expired" ELSE "lost"
  <2>1. /\ UNCHANGED <<lapsed, workerVars, callerTask, sweepNow, expiredCount_>>
        /\ callerPc[c] = "swept" /\ callerPc' = [callerPc EXCEPT ![c] = "counting"]
        /\ \/ tasks_ = <<>> /\ UNCHANGED <<tasks_, fate>>
           \/ /\ tasks_ # <<>> /\ tasks_' = Erase(tasks_, i)
              /\ fate' = [fate EXCEPT ![tasks_[i]] = v]
    BY <1>3, Zenon DEF SweepErase
  <2>2. tasks_ # <<>> => i \in 1..Len(tasks_)
    BY <1>0, EraseInQueue, Zenon
  <2>3. v \in {"removed", "expired", "lost"}
    BY Zenon
  <2>4. CASE tasks_ # <<>>
    <3>1. TaskErased(i, v)
      BY <2>1, <2>4, Zenon DEF TaskErased
    <3> HIDE DEF i, v
    <3> QED
      BY <2>2, <2>3, <2>4, <3>1, Zenon
  <2>5. CASE tasks_ = <<>>
    <3>1. SweepMoves(c)
      <4>1. sweepNow' = [sweepNow EXCEPT ![c] = sweepNow[c]]
        BY <2>1, Zenon DEF QueueTypes
      <4> QED
        BY <2>1, <2>5, <4>1, Zenon DEF SweepMoves, SweepPcs
    <3> QED
      BY <3>1, Zenon
  <2> QED
    BY <2>4, <2>5, Zenon
<1> QED
  BY <1>1, <1>2, <1>3, Zenon

LEMMA CallerHasAShape ==
  ASSUME QueueTypes, SweepTypes, NEW c \in Callers, Caller(c)
  PROVE  TaskShapes
<1> USE DEF callerVars, workerVars, poolVars
<1>1. CASE (\E r \in Runnables : Remove(c, r)) \/ RemoveNextPending(c) \/ SweepErase(c)
  BY <1>1, ErasingCalls, Zenon DEF TaskShapes
<1>2. CASE SweepBegin(c)
  <2>1. c \notin Workers
    BY ConstantsAssumption, Zenon
  <2>2. SweepMoves(c)
    BY <1>2, <2>1, Zenon DEF SweepBegin, SweepMoves, SweepPcs, Free
  <2> QED
    BY <2>2, Zenon DEF TaskShapes
<1>4. CASE SweepEnd(c) \/ SweepPass(c) \/ SweepCallback(c) \/ SweepCount(c)
  <2>1. /\ callerPc = [callerPc EXCEPT ![c] = callerPc[c]]
        /\ sweepNow = [sweepNow EXCEPT ![c] = sweepNow[c]]
    BY Zenon DEF QueueTypes
  <2>2. SweepMoves(c)
    BY <1>4, <2>1, Zenon DEF SweepEnd, SweepPass, SweepCallback, SweepCount, SweepUnseen,
           SweepMoves, SweepPcs
  <2> QED
    BY <2>2, Zenon DEF TaskShapes
<1>3. CASE AddWakeup(c) /\ Full(tasks_)
  <2>1. WorkersMove
    BY <1>3, Zenon DEF AddWakeup, WorkersMove, QueueTypes
  <2> QED
    BY <2>1, Zenon DEF TaskShapes
<1> QED
  BY <1>1, <1>2, <1>3, <1>4, Zenon DEF Caller, Sweep, TaskShapes

LEMMA EveryStepHasAShape ==
  ASSUME QueueTypes, SweepTypes, [Next]_vars
  PROVE  TaskShapes
<1> USE DEF callerVars, workerVars, poolVars
<1>0. workerPc \in [Workers -> WorkerPcs]
  BY Zenon DEF QueueTypes
<1>1. ASSUME UNCHANGED <<tasks_, fate, lapsed, expiredCount_, workerVars, callerVars>>
      PROVE  WorkersMove
  BY <1>0, <1>1, Zenon DEF WorkersMove
<1>2. ASSUME NEW w \in Workers, NEW pc \in {"loop", "wait", "leaving", "dead"},
             workerPc[w] \notin {"running", "expiring"},
             workerPc' = [workerPc EXCEPT ![w] = pc],
             UNCHANGED <<tasks_, fate, lapsed, expiredCount_, workerTask, callerVars>>
      PROVE  WorkersMove
  BY <1>0, <1>2, Zenon DEF WorkersMove, WorkerPcs
<1>3. ASSUME NEW w \in Workers, Worker(w) PROVE TaskShapes
  <2>1. CASE WorkerStart(w)
    BY <1>2, <2>1, Zenon DEF WorkerStart, TaskShapes
  <2>2. CASE WorkerWait(w) \/ WorkerWakeup(w)
    BY <1>2, <2>2, Zenon DEF WorkerWait, WorkerWakeup, TaskShapes
  <2>3. CASE WorkerInactive(w) \/ WorkerExit(w)
    BY <1>2, <2>3, Zenon DEF WorkerInactive, WorkerExit, TaskShapes
  <2> QED
    BY <1>3, <2>1, <2>2, <2>3, Zenon DEF Worker, TaskShapes
<1>4. ASSUME NEW a \in Admins, Admin(a) PROVE TaskShapes
  <2>1. /\ UNCHANGED <<tasks_, workerTask, fate, callerVars, lapsed, expiredCount_>>
        /\ \/ UNCHANGED workerPc
           \/ workerPc' = Reaped
           \/ \E new \in SUBSET Workers :
                 /\ \A w \in new : workerPc[w] = "none"
                 /\ workerPc' = [w \in Workers |->
                                   IF w \in new THEN "starting" ELSE workerPc[w]]
    BY <1>4, Zenon DEF Admin, Start, Stop, RemoveWorker, removeWorkersUnderLock, AddWorker,
                AdminWakeup
  <2>2. WorkersMove
    BY <1>0, <2>1, Zenon DEF WorkersMove, Reaped, WorkerPcs
  <2> QED
    BY <2>2, Zenon DEF TaskShapes
<1>5. CASE Spurious \/ UNCHANGED vars
  BY <1>1, <1>5, Zenon DEF Spurious, vars, TaskShapes
<1> QED
  BY <1>3, <1>4, <1>5, CallerHasAShape, Zenon DEF Next, TaskShapes

-----------------------------------------------------------------------------
(* What an operation on the queue does to the tasks in it.                 *)

QueueAccounted(q, f) ==
    /\ \A t \in Tasks : f[t] = "pending" <=> \E i \in 1..Len(q) : q[i] = t
    /\ \A i, j \in 1..Len(q) : q[i] = q[j] => i = j

LEMMA EraseAccounts ==
  ASSUME NEW q \in Seq(Tasks), NEW f \in [Tasks -> Fates], QueueAccounted(q, f),
         NEW i \in 1..Len(q), NEW v, v # "pending"
  PROVE  /\ f[q[i]] = "pending" /\ q[i] \in Tasks
         /\ QueueAccounted(Erase(q, i), [f EXCEPT ![q[i]] = v])
<1> DEFINE e == Erase(q, i)
           g == [f EXCEPT ![q[i]] = v]
<1>0. Len(q) \in Nat
  OBVIOUS
<1>1. /\ Len(e) = Len(q) - 1 /\ Len(q) \in Nat
      /\ \A j \in 1..(Len(q) - 1) : e[j] = IF j < i THEN q[j] ELSE q[j + 1]
  BY <1>0, EraseProperties, ZenonT(30)
<1>2. q[i] \in Tasks /\ f[q[i]] = "pending"
  BY DEF QueueAccounted
<1> HIDE DEF e
<1>3. \A j, k \in 1..Len(e) : e[j] = e[k] => j = k
  BY <1>1, SMTT(30) DEF QueueAccounted
<1>4. \A j \in 1..Len(e) : e[j] # q[i]
  BY <1>1 DEF QueueAccounted
<1>5. ASSUME NEW t \in Tasks PROVE g[t] = "pending" <=> \E j \in 1..Len(e) : e[j] = t
  <2>1. CASE t = q[i]
    BY <1>2, <1>4, <2>1, Zenon
  <2>2. CASE t # q[i]
    <3>1. g[t] = f[t]
      BY <2>2, Zenon
    <3>2. ASSUME NEW k \in 1..Len(q), q[k] = t PROVE \E j \in 1..Len(e) : e[j] = t
      <4>1. k # i
        BY <2>2, <3>2, Zenon
      <4>2. CASE k < i
        <5>1. k \in 1..(Len(q) - 1) /\ e[k] = q[k]
          BY <1>1, <4>2
        <5> QED
          BY <1>1, <3>2, <5>1, Zenon
      <4>3. CASE k > i
        <5>1. k - 1 \in 1..(Len(q) - 1) /\ ~(k - 1 < i) /\ (k - 1) + 1 = k
          BY <1>1, <4>3
        <5>2. e[k - 1] = q[k]
          BY <1>1, <5>1, Zenon
        <5> QED
          BY <1>1, <3>2, <5>1, <5>2, Zenon
      <4> QED
        BY <1>1, <4>1, <4>2, <4>3
    <3>3. ASSUME NEW j \in 1..Len(e), e[j] = t PROVE \E k \in 1..Len(q) : q[k] = t
      <4>1. CASE j < i
        BY <1>1, <3>3, <4>1
      <4>2. CASE ~(j < i)
        <5>1. j + 1 \in 1..Len(q) /\ q[j + 1] = t
          BY <1>1, <3>3, <4>2
        <5> QED
          BY <5>1, Zenon
      <4> QED
        BY <4>1, <4>2, Zenon
    <3> QED
      BY <3>1, <3>2, <3>3, Zenon DEF QueueAccounted
  <2> QED
    BY <2>1, <2>2, Zenon
<1> QED
  BY <1>2, <1>3, <1>5, Zenon DEF QueueAccounted, e

LEMMA AppendAccounts ==
  ASSUME NEW q \in Seq(Tasks), NEW f \in [Tasks -> Fates], QueueAccounted(q, f),
         NEW t \in Tasks, f[t] # "pending"
  PROVE  QueueAccounted(Append(q, t), [f EXCEPT ![t] = "pending"])
<1> DEFINE e == Append(q, t)
           g == [f EXCEPT ![t] = "pending"]
<1>1. /\ Len(e) = Len(q) + 1 /\ Len(q) \in Nat /\ e[Len(q) + 1] = t
      /\ \A j \in 1..Len(q) : e[j] = q[j]
  OBVIOUS
<1> HIDE DEF e
<1>2. \A j \in 1..Len(q) : q[j] # t
  BY Zenon DEF QueueAccounted
<1>3. \A j, k \in 1..Len(e) : e[j] = e[k] => j = k
  BY <1>1, <1>2 DEF QueueAccounted
<1>4. ASSUME NEW u \in Tasks PROVE g[u] = "pending" <=> \E j \in 1..Len(e) : e[j] = u
  <2>1. CASE u = t
    <3>1. Len(q) + 1 \in 1..Len(e)
      BY <1>1
    <3> QED
      BY <1>1, <2>1, <3>1, Zenon
  <2>2. CASE u # t
    BY <1>1, <2>2 DEF QueueAccounted
  <2> QED
    BY <2>1, <2>2, Zenon
<1> QED
  BY <1>3, <1>4, Zenon DEF QueueAccounted, e

LEMMA OtherFates ==
  ASSUME NEW q \in Seq(Tasks), NEW f \in [Tasks -> Fates], QueueAccounted(q, f),
         NEW t \in Tasks, f[t] # "pending", NEW v, v # "pending"
  PROVE  QueueAccounted(q, [f EXCEPT ![t] = v])
  BY Zenon DEF QueueAccounted

-----------------------------------------------------------------------------
(* Every task is in one place.  The invariant also says which task each    *)
(* blocked caller and each busy worker holds, and what its fate then is:   *)
(* without that, a task on its way into or out of the queue is nowhere.    *)

WorkersApart ==
    \A w \in Workers : workerPc[w] = "running" =>
        \A u \in Workers \ {w} : workerTask[u] # workerTask[w]

Held == CallersHoldTasks /\ WorkersHoldTasks /\ WorkersApart

TaskInv == QueueTypes /\ SweepTypes /\ QueueAccounted(tasks_, fate) /\ Held

LEMMA TaskInvImplies == TaskInv /\ SweepsTakeExpired => TasksAccounted
  BY Zenon DEF SweepsTakeExpired, TaskInv, Held, QueueAccounted, WorkersApart, WorkersHoldTasks, TasksAccounted

LEMMA TaskInit == Init => TaskInv
<1> SUFFICES ASSUME Init PROVE TaskInv
  BY Zenon
<1>1. QueueTypes
  BY ConstantsAssumption DEF Init, QueueTypes, Fates, WorkerPcs, CallerPcs
<1>2. QueueAccounted(tasks_, fate)
  BY DEF Init, QueueAccounted
<1>3. Held
  BY Zenon DEF Init, Held, CallersHoldTasks, WorkersHoldTasks, WorkersApart, Blocked
<1> QED
  BY <1>1, <1>2, <1>3, SMT DEF TaskInv, Init, SweepTypes

(* removeExpired(true) at the head of add(): in a full queue the first     *)
(* task whose time is over, if there is one, makes way.  g is what has     *)
(* become of the tasks before the new one is looked at.                    *)
MadeRoom(g) ==
    \/ /\ ~SomeExpired /\ WithRoomMade = tasks_ /\ g = fate
       /\ UNCHANGED expiredCount_
    \/ \E i \in 1..Len(tasks_) :
          /\ Full(tasks_) /\ tasks_[i] \in lapsed /\ fate[tasks_[i]] = "pending"
          /\ WithRoomMade = Erase(tasks_, i)
          /\ g = [fate EXCEPT ![tasks_[i]] = "expired"]
          /\ expiredCount_' = expiredCount_ + 1

(* The new task t then gets the fate v.                                    *)
NewTask(g, t, v) ==
    /\ MadeRoom(g) /\ fate' = [g EXCEPT ![t] = v] /\ g[t] = "unused"
    /\ QueueAccounted(WithRoomMade, g) /\ WithRoomMade \in Seq(Tasks)
    /\ Len(WithRoomMade) \in Nat /\ Len(WithRoomMade) <= Len(tasks_)
    /\ \A u \in Tasks : fate[u] # "pending" => g[u] = fate[u]

LEMMA RoomMade ==
  ASSUME TaskInv, NEW t \in Tasks, fate[t] = "unused", NEW v \in Fates,
         Accounted([fate EXCEPT ![t] = v])
  PROVE  \E g \in [Tasks -> Fates] : NewTask(g, t, v)
<1>0. /\ QueueAccounted(tasks_, fate) /\ Len(tasks_) \in Nat
      /\ tasks_ \in Seq(Tasks) /\ fate \in [Tasks -> Fates]
  BY DEF TaskInv, QueueTypes
<1>1. CASE SomeExpired
  <2> DEFINE P == Positions(tasks_, lapsed)
             x == tasks_[Victim]
             g == [fate EXCEPT ![x] = "expired"]
  <2>1. /\ P \in SUBSET (1..Len(tasks_)) /\ P # {} /\ Victim = First(P)
        /\ \A i \in P : tasks_[i] \in lapsed
    BY <1>1, Zenon DEF SomeExpired, Victim, Positions
  <2> HIDE DEF P
  <2>2. Victim \in 1..Len(tasks_) /\ x \in lapsed
    BY <1>0, <2>1, FirstIsLeast, Zenon
  <2>3. /\ Full(tasks_) /\ WithRoomMade = Erase(tasks_, Victim)
        /\ fate' = [[fate EXCEPT ![t] = v] EXCEPT ![x] = "expired"]
        /\ expiredCount_' = expiredCount_ + 1
    BY <1>1, Zenon DEF SomeExpired, WithRoomMade, Accounted
  <2>4. "expired" # "pending"
    BY Zenon
  <2>5. /\ fate[x] = "pending" /\ x \in Tasks
        /\ QueueAccounted(WithRoomMade, g)
    BY <1>0, <2>2, <2>3, <2>4, EraseAccounts, Zenon
  <2>6. /\ WithRoomMade \in Seq(Tasks)
        /\ Len(WithRoomMade) \in Nat /\ Len(WithRoomMade) <= Len(tasks_)
    BY <1>0, <2>2, <2>3, EraseProperties
  <2>7. MadeRoom(g)
    BY <2>2, <2>3, <2>5, Zenon DEF MadeRoom
  <2> HIDE DEF x
  <2>8. /\ g \in [Tasks -> Fates] /\ fate' = [g EXCEPT ![t] = v] /\ g[t] = "unused"
        /\ \A u \in Tasks : fate[u] # "pending" => g[u] = fate[u]
    BY <1>0, <2>3, <2>5, Zenon DEF Fates
  <2> HIDE DEF g
  <2> QED
    BY <2>5, <2>6, <2>7, <2>8, Zenon DEF NewTask
<1>2. CASE ~SomeExpired
  <2>1. /\ WithRoomMade = tasks_ /\ fate' = [fate EXCEPT ![t] = v]
        /\ UNCHANGED expiredCount_
    BY <1>2, Zenon DEF WithRoomMade, Accounted
  <2>2. MadeRoom(fate)
    BY <1>2, <2>1, Zenon DEF MadeRoom
  <2>3. Len(tasks_) <= Len(tasks_)
    BY <1>0
  <2> QED
    BY <1>0, <2>1, <2>2, <2>3, Zenon DEF NewTask
<1> QED
  BY <1>1, <1>2, Zenon

(* Whoever holds a task keeps it when its fate does not change.            *)
LEMMA HeldFrame ==
  ASSUME Held, UNCHANGED <<workerPc, workerTask, callerTask>>,
         \A c \in Callers : Blocked(c)' <=> Blocked(c),
         \A t \in Tasks : fate[t] \in {"blocked", "executing", "expired"} => fate'[t] = fate[t]
  PROVE  Held'
<1>1. CallersHoldTasks'
  BY Zenon DEF Held, CallersHoldTasks
<1>2. WorkersHoldTasks' /\ WorkersApart'
  BY Zenon DEF Held, WorkersHoldTasks, WorkersApart
<1> QED
  BY <1>1, <1>2, Zenon DEF Held

TaskKept == QueueTypes' /\ QueueAccounted(tasks_', fate') /\ Held'

LEMMA TaskWorkersMove ==
  ASSUME TaskInv, WorkersMove
  PROVE  TaskKept
<1> USE DEF WorkersMove, TaskInv, callerVars, workerVars
<1>1. QueueTypes'
  BY Zenon DEF QueueTypes
<1>2. CallersHoldTasks'
  BY Zenon DEF Held, CallersHoldTasks, Blocked
<1>3. WorkersHoldTasks' /\ WorkersApart'
  BY Zenon DEF Held, WorkersHoldTasks, WorkersApart
<1> QED
  BY <1>1, <1>2, <1>3, Zenon DEF TaskKept, Held

LEMMA TaskDequeue ==
  ASSUME TaskInv, NEW w \in Workers, WorkerDequeue(w)
  PROVE  TaskKept
<1> USE DEF callerVars, workerVars, poolVars
<1> DEFINE t == Head(tasks_)
<1>0. /\ Held /\ QueueAccounted(tasks_, fate) /\ QueueTypes
      /\ tasks_ \in Seq(Tasks) /\ fate \in [Tasks -> Fates] /\ tasks_ # <<>>
      /\ workerPc \in [Workers -> WorkerPcs]
      /\ workerTask \in [Workers -> Tasks \cup {NoTask}]
      /\ NoTask \notin Tasks
  BY ConstantsAssumption, Zenon DEF TaskInv, QueueTypes, WorkerDequeue
<1>1. 1 \in 1..Len(tasks_) /\ t = tasks_[1] /\ Tail(tasks_) = Erase(tasks_, 1)
  BY <1>0, TailIsErase, Zenon
<1>2. /\ tasks_' = Tail(tasks_) /\ fate' = [fate EXCEPT ![t] = Admitted(t)]
      /\ UNCHANGED <<expiredCount_, callerVars, lapsed>> /\ workerPc[w] = "loop"
      /\ \/ UNCHANGED <<workerPc, workerTask>>
         \/ /\ \/ Admitted(t) = "expired" /\ workerPc' = [workerPc EXCEPT ![w] = "expiring"]
               \/ Admitted(t) = "executing" /\ workerPc' = [workerPc EXCEPT ![w] = "running"]
            /\ workerTask' = [workerTask EXCEPT ![w] = t]
  BY Zenon DEF WorkerDequeue, Admitted
<1>3. Admitted(t) \in {"expired", "executing"}
  BY Zenon DEF Admitted
<1> HIDE DEF t
<1>4. fate[t] = "pending" /\ t \in Tasks /\ QueueAccounted(tasks_', fate')
  <2>1. Admitted(t) # "pending"
    BY <1>3, Zenon
  <2>2. tasks_' = Erase(tasks_, 1) /\ fate' = [fate EXCEPT ![tasks_[1]] = Admitted(t)]
    BY <1>1, <1>2, Zenon
  <2>3. tasks_ \in Seq(Tasks) /\ fate \in [Tasks -> Fates] /\ QueueAccounted(tasks_, fate)
    BY <1>0, Zenon
  <2> DEFINE v == Admitted(t)
  <2> HIDE DEF v
  <2>4. /\ fate[tasks_[1]] = "pending" /\ tasks_[1] \in Tasks
        /\ QueueAccounted(Erase(tasks_, 1), [fate EXCEPT ![tasks_[1]] = v])
    <3>1. 1 \in 1..Len(tasks_) /\ v # "pending"
      BY <1>1, <2>1, Zenon DEF v
    <3> QED
      BY <2>3, <3>1, EraseAccounts, Zenon
  <2> QED
    BY <1>1, <2>2, <2>4, Zenon DEF v
<1>5. tasks_' \in Seq(Tasks)
  <2>1. tasks_ \in Seq(Tasks) /\ 1 \in 1..Len(tasks_) /\ tasks_' = Erase(tasks_, 1)
    BY <1>0, <1>1, <1>2, Zenon
  <2> QED
    BY <2>1, EraseProperties, Zenon
<1>6. fate' \in [Tasks -> Fates]
  BY <1>0, <1>2, <1>3, Zenon DEF Fates
<1>7. workerPc' \in [Workers -> WorkerPcs] /\ workerTask' \in [Workers -> Tasks \cup {NoTask}]
  BY <1>0, <1>2, <1>4, Zenon DEF WorkerPcs
<1>8. QueueTypes'
  BY <1>0, <1>2, <1>5, <1>6, <1>7, Zenon DEF QueueTypes
<1>9. workerTask[w] = NoTask /\ \A u \in Workers : workerTask[u] # t
  BY <1>0, <1>2, <1>4 DEF Held, WorkersHoldTasks
<1>10. CallersHoldTasks'
  BY <1>0, <1>2, <1>4 DEF Held, CallersHoldTasks, Blocked
<1>11. WorkersHoldTasks'
  BY <1>0, <1>2, <1>4, <1>9 DEF Held, WorkersHoldTasks
<1>12. WorkersApart'
  BY <1>0, <1>2, <1>4, <1>9, Zenon DEF Held, WorkersApart
<1> QED
  BY <1>4, <1>8, <1>10, <1>11, <1>12, Zenon DEF Held, TaskKept

LEMMA TaskDone ==
  ASSUME TaskInv, NEW w \in Workers, WorkerTaskDone(w) \/ WorkerExpireDone(w)
  PROVE  TaskKept
<1> USE DEF callerVars, workerVars, poolVars
<1>0. /\ Held /\ QueueAccounted(tasks_, fate) /\ QueueTypes
      /\ tasks_ \in Seq(Tasks) /\ fate \in [Tasks -> Fates]
      /\ workerPc \in [Workers -> WorkerPcs]
      /\ workerTask \in [Workers -> Tasks \cup {NoTask}]
      /\ NoTask \notin Tasks
  BY ConstantsAssumption, Zenon DEF TaskInv, QueueTypes
<1>1. /\ UNCHANGED <<tasks_, callerVars, lapsed>>
      /\ workerPc' = [workerPc EXCEPT ![w] = "loop"]
      /\ workerTask' = [workerTask EXCEPT ![w] = NoTask]
      /\ \/ /\ workerPc[w] = "running" /\ UNCHANGED expiredCount_
            /\ fate' = [fate EXCEPT ![workerTask[w]] = "complete"]
         \/ UNCHANGED fate /\ expiredCount_' = expiredCount_ + 1
  BY Zenon DEF WorkerTaskDone, WorkerExpireDone
<1>2. workerPc[w] = "running" =>
        /\ workerTask[w] \in Tasks /\ fate[workerTask[w]] = "executing"
        /\ \A u \in Workers \ {w} : workerTask[u] # workerTask[w]
  BY <1>0, Zenon DEF Held, WorkersHoldTasks, WorkersApart
<1>3. QueueTypes'
  BY <1>0, <1>1 DEF QueueTypes, Fates, WorkerPcs
<1>4. QueueAccounted(tasks_', fate')
  <2>1. CASE UNCHANGED fate
    BY <1>0, <1>1, <2>1, Zenon
  <2>2. CASE ~UNCHANGED fate
    <3>1. /\ workerTask[w] \in Tasks /\ fate[workerTask[w]] # "pending"
          /\ fate' = [fate EXCEPT ![workerTask[w]] = "complete"] /\ tasks_' = tasks_
          /\ "complete" # "pending"
      BY <1>1, <1>2, <2>2, Zenon
    <3> QED
      BY <1>0, <3>1, OtherFates, Zenon
  <2> QED
    BY <2>1, <2>2, Zenon
<1>5. CallersHoldTasks'
  BY <1>0, <1>1, <1>2 DEF Held, CallersHoldTasks, Blocked
<1>6. WorkersHoldTasks'
  BY <1>0, <1>1, <1>2 DEF Held, WorkersHoldTasks
<1>7. WorkersApart'
  BY <1>0, <1>1, <1>2 DEF Held, WorkersApart, WorkersHoldTasks
<1> QED
  BY <1>3, <1>4, <1>5, <1>6, <1>7, Zenon DEF Held, TaskKept

LEMMA TaskIsErased ==
  ASSUME TaskInv, NEW i \in 1..Len(tasks_), NEW v \in {"removed", "expired", "lost"},
         TaskErased(i, v)
  PROVE  TaskKept
<1> USE DEF callerVars, workerVars
<1>0. /\ Held /\ QueueAccounted(tasks_, fate) /\ QueueTypes
      /\ tasks_ \in Seq(Tasks) /\ fate \in [Tasks -> Fates] /\ v # "pending"
  BY Zenon DEF TaskInv, QueueTypes
<1>1. /\ tasks_' = Erase(tasks_, i) /\ fate' = [fate EXCEPT ![tasks_[i]] = v]
      /\ UNCHANGED <<lapsed, workerVars, callerTask, sweepNow, expiredCount_>>
  BY Zenon DEF TaskErased
<1>a. /\ callerPc' \in [Callers -> CallerPcs]
      /\ \A c \in Callers : Blocked(c)' <=> Blocked(c)
  BY <1>0, Zenon DEF TaskErased, QueueTypes, CallerPcs, SweepPcs, Blocked
<1>2. fate[tasks_[i]] = "pending" /\ tasks_[i] \in Tasks /\ QueueAccounted(tasks_', fate')
  BY <1>0, <1>1, EraseAccounts, Zenon
<1>3. tasks_' \in Seq(Tasks)
  BY <1>0, <1>1, EraseProperties, Zenon
<1>4. QueueTypes'
  BY <1>0, <1>1, <1>3, <1>a DEF QueueTypes, Fates
<1>5. \A u \in Tasks : fate[u] \in {"blocked", "executing", "expired"} => fate'[u] = fate[u]
  BY <1>0, <1>1, <1>2, Zenon
<1>6. Held'
  BY <1>0, <1>1, <1>5, <1>a, HeldFrame, Zenon
<1> QED
  BY <1>2, <1>4, <1>6, Zenon DEF TaskKept

LEMMA TaskSweepMoves ==
  ASSUME TaskInv, NEW c \in Callers, SweepMoves(c)
  PROVE  TaskKept
<1> USE DEF callerVars, workerVars, SweepMoves
<1>0. Held /\ QueueAccounted(tasks_, fate) /\ QueueTypes /\ SweepTypes
  BY Zenon DEF TaskInv
<1>a. expiredCount_' \in Nat
  BY <1>0 DEF QueueTypes, SweepTypes
<1>1. QueueTypes' /\ \A d \in Callers : Blocked(d)' <=> Blocked(d)
  <2>1. callerPc \in [Callers -> CallerPcs] /\ sweepNow \in [Callers -> SUBSET Tasks]
        /\ lapsed \subseteq Tasks
    BY <1>0, Zenon DEF QueueTypes
  <2>2. callerPc' \in [Callers -> CallerPcs] /\ \A d \in Callers : Blocked(d)' <=> Blocked(d)
    BY <2>1, Zenon DEF Blocked, CallerPcs, SweepPcs
  <2>3. sweepNow' \in [Callers -> SUBSET Tasks]
    BY <2>1, ZenonT(30)
  <2> QED
    BY <1>0, <1>a, <2>2, <2>3, Zenon DEF QueueTypes
<1>2. Held'
  BY <1>0, <1>1, HeldFrame, Zenon
<1> QED
  BY <1>0, <1>1, <1>2, Zenon DEF TaskKept

(* add() with room: the task goes to the end of the queue.                 *)
LEMMA TaskAdd ==
  ASSUME TaskInv, NEW th \in Workers \cup Callers, NEW t \in Tasks, Add(th, t)
  PROVE  TaskKept
<1> USE DEF callerVars, workerVars, poolVars
<1>0. QueueTypes /\ Held /\ expiredCount_ \in Nat
  BY Zenon DEF TaskInv, QueueTypes
<1>1. /\ fate[t] = "unused" /\ Accounted([fate EXCEPT ![t] = "pending"])
      /\ tasks_' = Append(WithRoomMade, t) /\ "pending" \in Fates
      /\ UNCHANGED <<workerPc, workerTask, callerVars, lapsed>>
  BY Zenon DEF Add, Enqueue, Fates
<1>a. PICK g \in [Tasks -> Fates] : NewTask(g, t, "pending")
  BY <1>1, RoomMade, Zenon
<1>2. /\ MadeRoom(g) /\ fate' = [g EXCEPT ![t] = "pending"] /\ g[t] = "unused"
      /\ QueueAccounted(WithRoomMade, g) /\ WithRoomMade \in Seq(Tasks)
      /\ \A u \in Tasks : fate[u] # "pending" => g[u] = fate[u]
  BY <1>a, Zenon DEF NewTask
<1>3. QueueAccounted(tasks_', fate')
  <2>1. g[t] # "pending"
    BY <1>2, Zenon
  <2> QED
    BY <1>1, <1>2, <2>1, AppendAccounts, Zenon
<1>4. \A u \in Tasks : fate[u] \in {"blocked", "executing", "expired"} => fate'[u] = fate[u]
  BY <1>1, <1>2, Zenon
<1>5. Held'
  BY <1>0, <1>1, <1>4, HeldFrame, Zenon DEF Blocked
<1>6. tasks_' \in Seq(Tasks)
  BY <1>1, <1>2
<1>7. expiredCount_' \in Nat
  BY <1>0, <1>2 DEF MadeRoom
<1>8. fate' \in [Tasks -> Fates]
  BY <1>1, <1>2, Zenon
<1>9. QueueTypes'
  BY <1>0, <1>1, <1>6, <1>7, <1>8, Zenon DEF QueueTypes
<1> QED
  BY <1>3, <1>5, <1>9, Zenon DEF TaskKept

(* add() on a full queue: the caller keeps the task and waits.             *)
LEMMA TaskAddBlock ==
  ASSUME TaskInv, NEW c \in Callers, NEW t \in Tasks, NEW timeout, AddBlock(c, t, timeout)
  PROVE  TaskKept
<1> USE DEF callerVars, workerVars, poolVars
<1>0. /\ QueueTypes /\ Held /\ expiredCount_ \in Nat /\ c \notin Workers
      /\ callerPc \in [Callers -> CallerPcs]
      /\ callerTask \in [Callers -> Tasks \cup {NoTask}]
      /\ NoTask \notin Tasks
  BY ConstantsAssumption, Zenon DEF TaskInv, QueueTypes
<1>1. /\ fate[t] = "unused" /\ Accounted([fate EXCEPT ![t] = "blocked"])
      /\ tasks_' = WithRoomMade /\ "blocked" \in Fates
      /\ callerTask' = [callerTask EXCEPT ![c] = t] /\ callerPc[c] = "idle"
      /\ \E pc \in {"addTimed", "addForever"} : callerPc' = [callerPc EXCEPT ![c] = pc]
      /\ UNCHANGED <<workerPc, workerTask, sweepNow, lapsed>>
  BY <1>0, Zenon DEF AddBlock, Fates, Free
<1>a. PICK g \in [Tasks -> Fates] : NewTask(g, t, "blocked")
  BY <1>1, RoomMade, Zenon
<1>2. /\ MadeRoom(g) /\ fate' = [g EXCEPT ![t] = "blocked"] /\ g[t] = "unused"
      /\ QueueAccounted(WithRoomMade, g) /\ WithRoomMade \in Seq(Tasks)
      /\ \A u \in Tasks : fate[u] # "pending" => g[u] = fate[u]
  BY <1>a, Zenon DEF NewTask
<1>3. QueueAccounted(tasks_', fate')
  <2>1. g[t] # "pending" /\ "blocked" # "pending"
    BY <1>2, Zenon
  <2> QED
    BY <1>1, <1>2, <2>1, OtherFates, Zenon
<1>4. Blocked(c)' /\ ~Blocked(c) /\ \A d \in Callers \ {c} : Blocked(d)' <=> Blocked(d)
  BY <1>0, <1>1, Zenon DEF Blocked
<1>5. /\ fate'[t] = "blocked"
      /\ \A u \in Tasks : fate[u] \in {"blocked", "executing", "expired"} => fate'[u] = fate[u]
  BY <1>1, <1>2, Zenon
<1>6. \A d \in Callers : callerTask[d] # t
  BY <1>0, <1>1, Zenon DEF Held, CallersHoldTasks
<1>7. CallersHoldTasks'
  BY <1>0, <1>1, <1>4, <1>5, <1>6, SMTT(30) DEF Held, CallersHoldTasks
<1>8. WorkersHoldTasks' /\ WorkersApart'
  BY <1>0, <1>1, <1>5 DEF Held, WorkersHoldTasks, WorkersApart
<1>9. expiredCount_' \in Nat
  BY <1>0, <1>2 DEF MadeRoom
<1>10. fate' \in [Tasks -> Fates]
  BY <1>1, <1>2, Zenon
<1>11. QueueTypes'
  <2>1. /\ callerPc' \in [Callers -> CallerPcs]
        /\ callerTask' \in [Callers -> Tasks \cup {NoTask}]
    BY <1>0, <1>1, ZenonT(30) DEF CallerPcs
  <2> QED
    BY <1>0, <1>1, <1>2, <1>9, <1>10, <2>1, Zenon DEF QueueTypes
<1> QED
  BY <1>3, <1>7, <1>8, <1>11, Zenon DEF Held, TaskKept

(* A blocked add() ends: the task is queued, or goes back to its owner.    *)
LEMMA TaskUnblocked ==
  ASSUME TaskInv, NEW c \in Callers, AddTimeout(c) \/ (AddWakeup(c) /\ ~Full(tasks_))
  PROVE  TaskKept
<1> USE DEF callerVars, workerVars, poolVars
<1> DEFINE t == callerTask[c]
<1>0. /\ QueueTypes /\ Held /\ QueueAccounted(tasks_, fate)
      /\ tasks_ \in Seq(Tasks) /\ fate \in [Tasks -> Fates]
      /\ callerPc \in [Callers -> CallerPcs]
      /\ callerTask \in [Callers -> Tasks \cup {NoTask}]
      /\ NoTask \notin Tasks
  BY ConstantsAssumption, Zenon DEF TaskInv, QueueTypes
<1>1. /\ Blocked(c)
      /\ callerPc' = [callerPc EXCEPT ![c] = "idle"]
      /\ callerTask' = [callerTask EXCEPT ![c] = NoTask]
      /\ UNCHANGED <<workerPc, workerTask, sweepNow, lapsed, expiredCount_>>
      /\ \/ tasks_' = Append(tasks_, t) /\ fate' = [fate EXCEPT ![t] = "pending"]
         \/ tasks_' = tasks_ /\ fate' = [fate EXCEPT ![t] = "unused"]
  BY Zenon DEF AddTimeout, AddWakeup, Blocked, Enqueue
<1>2. /\ t \in Tasks /\ fate[t] = "blocked"
      /\ \A d \in Callers \ {c} : callerTask[d] # t
  BY <1>0, <1>1, Zenon DEF Held, CallersHoldTasks
<1>3. CallersHoldTasks'
  BY <1>0, <1>1, <1>2, SMTT(30) DEF Held, CallersHoldTasks, Blocked
<1> HIDE DEF t
<1>4. WorkersHoldTasks' /\ WorkersApart'
  BY <1>0, <1>1, <1>2 DEF Held, WorkersHoldTasks, WorkersApart
<1>5. fate[t] # "pending" /\ "unused" # "pending"
  BY <1>2, Zenon
<1>6. QueueAccounted(tasks_', fate') /\ tasks_' \in Seq(Tasks) /\ fate' \in [Tasks -> Fates]
  <2>1. CASE tasks_' = Append(tasks_, t) /\ fate' = [fate EXCEPT ![t] = "pending"]
    <3>1. QueueAccounted(tasks_', fate')
      BY <1>0, <1>2, <1>5, <2>1, AppendAccounts, Zenon
    <3> QED
      BY <1>0, <1>2, <2>1, <3>1 DEF Fates
  <2>2. CASE tasks_' = tasks_ /\ fate' = [fate EXCEPT ![t] = "unused"]
    <3>1. QueueAccounted(tasks_', fate')
      BY <1>0, <1>2, <1>5, <2>2, OtherFates, Zenon
    <3> QED
      BY <1>0, <1>2, <2>2, <3>1, Zenon DEF Fates
  <2> QED
    BY <1>1, <2>1, <2>2, Zenon
<1>7. QueueTypes'
  <2>1. /\ callerPc' \in [Callers -> CallerPcs]
        /\ callerTask' \in [Callers -> Tasks \cup {NoTask}]
    BY <1>0, <1>1, ZenonT(30) DEF CallerPcs
  <2> QED
    BY <1>0, <1>1, <1>6, <2>1, Zenon DEF QueueTypes
<1> QED
  BY <1>3, <1>4, <1>6, <1>7, Zenon DEF Held, TaskKept

(* The iterators and what the sweeps have read.                            *)
LEMMA SweepTypesNext ==
  ASSUME QueueTypes, SweepTypes, [Next]_vars
  PROVE  SweepTypes'
<1> USE DEF SweepTypes
<1>1. Shifted \in [Callers -> Int]
  BY DEF Shifted
<1>2. \A i : ShiftedAt(i) \in {sweepAt, Shifted}
  BY Zenon DEF ShiftedAt
<1>3. ASSUME UNCHANGED sweepSeen, sweepAt' \in {sweepAt, Shifted} PROVE SweepTypes'
  BY <1>1, <1>3, Zenon
<1>4. ASSUME NEW w \in Workers, Worker(w)
      PROVE  UNCHANGED sweepSeen /\ sweepAt' \in {sweepAt, Shifted}
  BY <1>4, Zenon DEF Worker, WorkerStart, WorkerWait, WorkerWakeup, WorkerDequeue,
         WorkerTaskDone, WorkerExpireDone, WorkerInactive, WorkerExit
<1>5. ASSUME NEW a \in Admins, Admin(a) PROVE UNCHANGED <<sweepAt, sweepSeen>>
  BY <1>5, Zenon DEF Admin, Start, Stop, RemoveWorker, removeWorkersUnderLock, AddWorker,
         AdminWakeup
<1>6. ASSUME NEW f, Accounted(f) PROVE sweepAt' \in {sweepAt, Shifted}
  BY <1>2, <1>6, Zenon DEF Accounted
<1>7. ASSUME NEW c \in Callers, Caller(c) PROVE SweepTypes'
  <2>1. CASE (\E t \in Tasks, timeout \in Timeouts : AddBlock(c, t, timeout))
    BY <1>3, <1>6, <2>1, Zenon DEF AddBlock
  <2>2. CASE AddWakeup(c) \/ AddTimeout(c) \/ RemoveNextPending(c)
    BY <1>3, <2>2, Zenon DEF AddWakeup, AddTimeout, RemoveNextPending
  <2>3. CASE \E r \in Runnables : Remove(c, r)
    BY <1>2, <1>3, <2>3, Zenon DEF Remove
  <2>4. CASE SweepBegin(c) \/ SweepEnd(c) \/ SweepPass(c) \/ SweepCallback(c)
    <3>1. UNCHANGED sweepSeen /\ (UNCHANGED sweepAt \/
             \E i \in {0, 1, sweepAt[c] + 1} : sweepAt' = [sweepAt EXCEPT ![c] = i])
      BY <2>4, Zenon DEF SweepBegin, SweepEnd, SweepPass, SweepCallback, SweepUnseen
    <3> QED
      BY <3>1
  <2>5. CASE SweepErase(c)
    <3>1. /\ sweepSeen' = [sweepSeen EXCEPT ![c] = expiredCount_]
          /\ \/ UNCHANGED sweepAt
             \/ sweepAt' = [ShiftedAt(sweepAt[c]) EXCEPT ![c] = sweepAt[c]]
      BY <2>5, Zenon DEF SweepErase
    <3>2. ShiftedAt(sweepAt[c]) \in [Callers -> Int]
      <4> DEFINE i == sweepAt[c]
      <4> HIDE DEF i
      <4>1. ShiftedAt(i) \in {sweepAt, Shifted}
        BY <1>2, Zenon
      <4> QED
        BY <1>1, <4>1, Zenon DEF i
    <3> QED
      BY <3>1, <3>2, Zenon DEF QueueTypes
  <2>6. CASE SweepCount(c)
    BY <2>6 DEF SweepCount
  <2> QED
    BY <1>7, <2>1, <2>2, <2>3, <2>4, <2>5, <2>6, Zenon DEF Caller, Sweep
<1>8. ASSUME NEW th, NEW t \in Tasks, Add(th, t) PROVE SweepTypes'
  BY <1>3, <1>6, <1>8, Zenon DEF Add
<1> QED
  BY <1>3, <1>4, <1>5, <1>7, <1>8, Zenon DEF Next, Lapse, Spurious, vars

LEMMA TaskNext == TaskInv /\ [Next]_vars => TaskInv'
<1> SUFFICES ASSUME TaskInv, [Next]_vars PROVE TaskInv'
  BY Zenon
<1>0. QueueTypes
  BY Zenon DEF TaskInv
<1>1. ASSUME NEW t \in Tasks, Lapse(t) PROVE TaskKept
  <2>1. UNCHANGED <<tasks_, fate, expiredCount_, workerVars, callerVars>> /\ lapsed' \subseteq Tasks
    BY <1>0, <1>1, Zenon DEF Lapse, QueueTypes
  <2>2. QueueTypes'
    BY <1>0, <2>1, Zenon DEF QueueTypes, workerVars, callerVars
  <2>3. Held'
    BY <2>1, HeldFrame, Zenon DEF TaskInv, workerVars, callerVars, Blocked
  <2> QED
    BY <2>1, <2>2, <2>3, Zenon DEF TaskInv, TaskKept
<1>2. TaskShapes
  BY EveryStepHasAShape, Zenon DEF TaskInv
<1>3. TaskKept
  BY <1>1, <1>2, TaskWorkersMove, TaskDequeue, TaskDone, TaskIsErased, TaskSweepMoves,
     TaskAdd, TaskAddBlock, TaskUnblocked, Zenon DEF TaskShapes
<1> QED
  BY <1>3, SweepTypesNext, Zenon DEF TaskKept, TaskInv, QueueAccounted

-----------------------------------------------------------------------------
(* A sweep that has the manager for itself.  It does not hold the mutex;   *)
(* what it relies on is that nobody else takes it meanwhile: its iterator  *)
(* then points into the queue, the task it erases is the one that it found *)
(* expired (it looked at the clock before, and time does not go back), and *)
(* the count it increments is still the one it read.                       *)

MutexHeld == \A w \in Workers : workerPc[w] \in {"loop", "leaving"} => mutex_ = w

SweepsLate == \A c \in Callers : sweepNow[c] \subseteq lapsed

Undisturbed(c) ==
    /\ mutex_ = NoThread /\ sweepAt[c] >= 1
    /\ \A d \in Callers \ {c} : ~Sweeping(d)
    /\ callerPc[c] = "swept" => sweepAt[c] <= Len(tasks_) /\ tasks_[sweepAt[c]] \in lapsed
    /\ callerPc[c] = "counting" => sweepSeen[c] = expiredCount_

AloneInv ==
    /\ MutexHeld /\ SweepsLate /\ SweepsTakeExpired
    /\ \A c \in Callers : Sweeping(c) => Undisturbed(c)

LEMMA MutexHeldNext ==
  ASSUME QueueTypes, MutexHeld, [Next]_vars
  PROVE  MutexHeld'
<1> USE DEF workerVars
<1>0. workerPc \in [Workers -> WorkerPcs] /\ NoThread \notin Workers
  BY ConstantsAssumption, Zenon DEF QueueTypes
<1>1. ASSUME UNCHANGED mutex_,
             \A w \in Workers : workerPc'[w] \in {"loop", "leaving"} => workerPc'[w] = workerPc[w]
      PROVE  MutexHeld'
  BY <1>1, Zenon DEF MutexHeld
<1>2. ASSUME NEW w \in Workers, Worker(w) PROVE MutexHeld'
  <2>1. CASE WorkerStart(w)
    BY <1>0, <2>1, Zenon DEF WorkerStart, Unlocked, MutexHeld
  <2>2. CASE WorkerWait(w)
    BY <1>0, <2>2, Zenon DEF WorkerWait, MutexHeld
  <2>3. CASE WorkerWakeup(w) \/ WorkerTaskDone(w) \/ WorkerExpireDone(w)
    BY <1>0, <2>3, Zenon DEF WorkerWakeup, WorkerTaskDone, WorkerExpireDone, Unlocked, MutexHeld
  <2>4. CASE WorkerDequeue(w)
    <3>1. /\ workerPc[w] = "loop"
          /\ \/ UNCHANGED <<mutex_, workerPc>>
             \/ /\ mutex_' = NoThread
                /\ \E pc \in {"expiring", "running"} : workerPc' = [workerPc EXCEPT ![w] = pc]
      BY <2>4, Zenon DEF WorkerDequeue
    <3> QED
      BY <1>0, <3>1, Zenon DEF MutexHeld
  <2>5. CASE WorkerInactive(w)
    BY <1>0, <2>5, Zenon DEF WorkerInactive, MutexHeld
  <2>6. CASE WorkerExit(w)
    BY <1>0, <2>6, Zenon DEF WorkerExit, MutexHeld
  <2> QED
    BY <1>2, <2>1, <2>2, <2>3, <2>4, <2>5, <2>6, Zenon DEF Worker
<1>3. ASSUME NEW a \in Admins, Admin(a) PROVE MutexHeld'
  <2>1. /\ UNCHANGED mutex_
        /\ \/ UNCHANGED workerPc
           \/ workerPc' = Reaped
           \/ \E new \in SUBSET Workers :
                 workerPc' = [w \in Workers |-> IF w \in new THEN "starting" ELSE workerPc[w]]
    BY <1>3, Zenon DEF Admin, Start, Stop, RemoveWorker, removeWorkersUnderLock, AddWorker,
                AdminWakeup
  <2> QED
    BY <1>0, <1>1, <2>1, Zenon DEF Reaped
<1>4. ASSUME NEW c \in Callers, Caller(c) PROVE UNCHANGED <<mutex_, workerPc>>
  <2>1. ASSUME Sweep(c) PROVE UNCHANGED <<mutex_, workerPc>>
    BY <2>1, Zenon DEF Sweep, SweepEnd, SweepPass, SweepCallback, SweepErase, SweepCount,
           SweepUnseen
  <2> QED
    BY <1>4, <2>1, Zenon DEF Caller, AddBlock, AddWakeup, AddTimeout, Remove,
           RemoveNextPending, SweepBegin
<1> QED
  BY <1>1, <1>2, <1>3, <1>4, Zenon DEF Next, Add, Lapse, Spurious, vars

LEMMA SweepsLateNext ==
  ASSUME TaskInv, SweepsLate, [Next]_vars
  PROVE  SweepsLate'
<1> USE DEF callerVars, workerVars, poolVars
<1>0. QueueTypes /\ sweepNow \in [Callers -> SUBSET Tasks]
  BY Zenon DEF TaskInv, QueueTypes
<1>1. CASE UNCHANGED <<sweepNow, lapsed>>
  BY <1>1, Zenon DEF SweepsLate
<1>2. ASSUME NEW c \in Callers, SweepMoves(c) PROVE SweepsLate'
  BY <1>0, <1>2, Zenon DEF SweepMoves, SweepsLate
<1>3. ASSUME NEW t \in Tasks, Lapse(t) PROVE SweepsLate'
  BY <1>3, Zenon DEF Lapse, SweepsLate
<1>4. TaskShapes
  BY EveryStepHasAShape, Zenon DEF TaskInv
<1> QED
  BY <1>1, <1>2, <1>3, <1>4, Zenon
  DEF TaskShapes, WorkersMove, WorkerDequeue, WorkerTaskDone, WorkerExpireDone, TaskErased,
      AddTimeout, AddWakeup, AddBlock, Add

(* While a sweep runs the others only let time pass.                       *)
LEMMA OnlyTheSweepMoves ==
  ASSUME SweepsAlone, AloneInv, NEW c \in Callers, Sweeping(c), [Next]_vars
  PROVE  Sweep(c) \/ (\E t \in Tasks : Lapse(t)) \/ Spurious \/ UNCHANGED vars
<1>1. ~Unlocked /\ NoThread \notin Workers
  BY ConstantsAssumption, Zenon DEF Unlocked
<1>2. \A w \in Workers : workerPc[w] \notin {"loop", "leaving"}
  BY <1>1, Zenon DEF AloneInv, MutexHeld, Undisturbed
<1>3. ~\E w \in Workers : Worker(w)
  BY <1>1, <1>2, Zenon DEF Worker, WorkerStart, WorkerWait, WorkerWakeup, WorkerDequeue,
         WorkerTaskDone, WorkerExpireDone, WorkerInactive, WorkerExit
<1>4. ~\E a \in Admins : Admin(a)
  BY <1>1, Zenon DEF Admin, Start, Stop, RemoveWorker, AddWorker, AdminWakeup
<1>5. ASSUME NEW d \in Callers, Caller(d) PROVE Sweep(c)
  <2>1. Sweep(d)
    BY <1>1, <1>5, Zenon DEF Caller, AddBlock, AddWakeup, AddTimeout, Remove,
           RemoveNextPending, SweepBegin
  <2>2. Sweeping(d)
    BY <2>1, Zenon DEF Sweep, SweepEnd, SweepPass, SweepCallback, SweepErase, SweepCount,
           Sweeping
  <2>3. d = c
    BY <2>2, Zenon DEF AloneInv, Undisturbed
  <2> QED
    BY <2>1, <2>3, Zenon
<1> QED
  BY <1>1, <1>3, <1>4, <1>5, Zenon DEF Next, Add

(* Without a sweep none gets into the middle of one, and no task is lost.  *)
LEMMA NoSweepMoves ==
  ASSUME QueueTypes, \A c \in Callers : ~Sweeping(c), [Next]_vars
  PROVE  (\E c \in Callers : SweepBegin(c)) \/ \A c \in Callers : ~Sweeping(c)'
<1> USE DEF callerVars
<1>0. callerPc \in [Callers -> CallerPcs]
  BY Zenon DEF QueueTypes
<1>1. ASSUME UNCHANGED callerPc PROVE \A c \in Callers : ~Sweeping(c)'
  BY <1>1, Zenon DEF Sweeping
<1>2. ASSUME NEW d \in Callers, NEW pc \in {"idle", "addForever", "addTimed"},
             callerPc' = [callerPc EXCEPT ![d] = pc]
      PROVE  \A c \in Callers : ~Sweeping(c)'
  BY <1>0, <1>2, Zenon DEF Sweeping
<1>3. ASSUME NEW d \in Callers, Caller(d), ~SweepBegin(d)
      PROVE  \A c \in Callers : ~Sweeping(c)'
  <2>1. ~Sweep(d)
    BY Zenon DEF Sweep, SweepEnd, SweepPass, SweepCallback, SweepErase, SweepCount, Sweeping
  <2>2. \/ UNCHANGED callerPc
        \/ \E pc \in {"idle", "addForever", "addTimed"} :
              callerPc' = [callerPc EXCEPT ![d] = pc]
    BY <1>3, <2>1, Zenon DEF Caller, AddBlock, AddWakeup, AddTimeout, Remove,
           RemoveNextPending
  <2> QED
    BY <1>1, <1>2, <2>2, Zenon
<1>4. ASSUME NEW w \in Workers, Worker(w) PROVE UNCHANGED callerPc
  BY <1>4, Zenon DEF Worker, WorkerStart, WorkerWait, WorkerWakeup, WorkerDequeue,
         WorkerTaskDone, WorkerExpireDone, WorkerInactive, WorkerExit
<1>5. ASSUME NEW a \in Admins, Admin(a) PROVE UNCHANGED callerPc
  BY <1>5, Zenon DEF Admin, Start, Stop, RemoveWorker, removeWorkersUnderLock, AddWorker,
         AdminWakeup
<1> QED
  BY <1>1, <1>3, <1>4, <1>5, Zenon DEF Next, Add, Lapse, Spurious, vars

LEMMA NothingLost ==
  ASSUME TaskInv, \A c \in Callers : ~Sweeping(c), SweepsTakeExpired, [Next]_vars
  PROVE  SweepsTakeExpired'
<1> USE DEF callerVars, workerVars
<1>0. fate \in [Tasks -> Fates]
  BY Zenon DEF TaskInv, QueueTypes
<1>1. ASSUME UNCHANGED fate PROVE SweepsTakeExpired'
  BY <1>1, Zenon DEF SweepsTakeExpired
<1>2. ASSUME NEW t, NEW v, v # "lost", fate' = [fate EXCEPT ![t] = v]
      PROVE  SweepsTakeExpired'
  BY <1>0, <1>2, Zenon DEF SweepsTakeExpired
<1>3. ASSUME NEW t \in Tasks, NEW v \in {"pending", "blocked"}, fate[t] = "unused",
             Accounted([fate EXCEPT ![t] = v])
      PROVE  SweepsTakeExpired'
  <2>1. PICK g \in [Tasks -> Fates] : NewTask(g, t, v)
    BY <1>3, RoomMade, Zenon DEF Fates
  <2>2. \A u \in Tasks : g[u] # "lost"
    BY <1>0, <2>1, Zenon DEF NewTask, MadeRoom, SweepsTakeExpired
  <2>3. fate' = [g EXCEPT ![t] = v] /\ v # "lost"
    BY <2>1, Zenon DEF NewTask
  <2> QED
    BY <2>2, <2>3, Zenon DEF SweepsTakeExpired
<1>4. ASSUME NEW i \in 1..Len(tasks_), NEW v, TaskErased(i, v) PROVE SweepsTakeExpired'
  <2>1. v = "removed" /\ fate' = [fate EXCEPT ![tasks_[i]] = v]
    BY <1>4, Zenon DEF TaskErased, Sweeping
  <2> QED
    BY <1>2, <2>1, Zenon
<1>5. ASSUME NEW w \in Workers, WorkerDequeue(w) PROVE SweepsTakeExpired'
  <2>1. /\ fate' = [fate EXCEPT ![Head(tasks_)] = Admitted(Head(tasks_))]
        /\ Admitted(Head(tasks_)) # "lost"
    BY <1>5, Zenon DEF WorkerDequeue, Admitted
  <2> QED
    BY <1>2, <2>1, Zenon
<1>6. ASSUME NEW c \in Callers, AddTimeout(c) \/ (AddWakeup(c) /\ ~Full(tasks_))
      PROVE  SweepsTakeExpired'
  BY <1>2, <1>6, Zenon DEF AddTimeout, AddWakeup
<1>7. TaskShapes
  BY EveryStepHasAShape, Zenon DEF TaskInv
<1> QED
  BY <1>1, <1>2, <1>3, <1>4, <1>5, <1>6, <1>7, ZenonT(30)
  DEF TaskShapes, WorkersMove, WorkerTaskDone, WorkerExpireDone, SweepMoves, AddBlock, Add,
      Lapse

(* A step of the sweep c itself.                                           *)
LEMMA SweepUndisturbed ==
  ASSUME TaskInv, SweepsLate, NEW c \in Callers, Sweeping(c), Undisturbed(c),
         SweepsTakeExpired, Sweep(c)
  PROVE  SweepsTakeExpired' /\ (Sweeping(c)' => Undisturbed(c)')
         /\ \A d \in Callers \ {c} : ~Sweeping(d)'
<1> USE DEF SweepUnseen
<1>0. /\ callerPc \in [Callers -> CallerPcs] /\ sweepNow \in [Callers -> SUBSET Tasks]
      /\ sweepAt \in [Callers -> Int] /\ sweepSeen \in [Callers -> Nat]
      /\ sweepAt[c] \in Int /\ fate \in [Tasks -> Fates]
      /\ tasks_ \in Seq(Tasks) /\ Len(tasks_) \in Nat
  BY DEF TaskInv, QueueTypes, SweepTypes
<1>1. \E pc : callerPc' = [callerPc EXCEPT ![c] = pc]
  <2>1. callerPc = [callerPc EXCEPT ![c] = callerPc[c]]
    BY <1>0, Zenon
  <2> QED
    BY <2>1, Zenon DEF Sweep, SweepEnd, SweepPass, SweepCallback, SweepErase, SweepCount
<1>2. \A d \in Callers \ {c} : ~Sweeping(d)'
  BY <1>0, <1>1, Zenon DEF Undisturbed, Sweeping
<1>3. UNCHANGED <<mutex_, lapsed>>
  BY Zenon DEF Sweep, SweepEnd, SweepPass, SweepCallback, SweepErase, SweepCount
<1>4. CASE SweepEnd(c)
  BY <1>0, <1>2, <1>4, Zenon DEF SweepEnd, Sweeping, SweepsTakeExpired
<1>5. CASE SweepPass(c)
  <2>1. /\ UNCHANGED <<fate, callerPc>> /\ sweepAt'[c] = sweepAt[c] + 1
        /\ callerPc[c] = "sweep"
    BY <1>0, <1>5, Zenon DEF SweepPass
  <2>2. sweepAt'[c] >= 1
    BY <1>0, <2>1 DEF Undisturbed
  <2> QED
    BY <1>2, <1>3, <2>1, <2>2, Zenon DEF Undisturbed, SweepsTakeExpired
<1>6. CASE SweepCallback(c)
  <2>1. /\ UNCHANGED <<fate, sweepAt, tasks_>> /\ callerPc'[c] = "swept"
        /\ sweepAt[c] <= Len(tasks_) /\ MayHaveExpired(c)
    BY <1>0, <1>6, Zenon DEF SweepCallback
  <2>2. tasks_[sweepAt[c]] \in lapsed
    <3>1. ~(sweepAt[c] < 1)
      BY <1>0 DEF Undisturbed
    <3> QED
      BY <2>1, <3>1, Zenon DEF MayHaveExpired, SweepsLate
  <2> QED
    BY <1>2, <1>3, <2>1, <2>2, Zenon DEF Undisturbed, SweepsTakeExpired
<1>7. CASE SweepErase(c)
  <2>1. callerPc[c] = "swept" /\ sweepAt[c] <= Len(tasks_) /\ tasks_[sweepAt[c]] \in lapsed
    BY <1>7, Zenon DEF SweepErase, Undisturbed
  <2>2. sweepAt[c] \in 1..Len(tasks_) /\ tasks_ # <<>> /\ EraseAt(c) = sweepAt[c]
    BY <1>0, <2>1 DEF Undisturbed, EraseAt
  <2>3. /\ callerPc'[c] = "counting" /\ sweepSeen'[c] = expiredCount_
        /\ UNCHANGED expiredCount_
        /\ fate' = [fate EXCEPT ![tasks_[sweepAt[c]]] = "expired"]
    BY <1>0, <1>7, <2>1, <2>2, Zenon DEF SweepErase
  <2>4. sweepAt'[c] = sweepAt[c]
    <3>1. sweepAt' = [ShiftedAt(sweepAt[c]) EXCEPT ![c] = sweepAt[c]]
      BY <1>7, <2>2, Zenon DEF SweepErase
    <3>2. ShiftedAt(sweepAt[c]) = Shifted \/ ShiftedAt(sweepAt[c]) = sweepAt
      BY Zenon DEF ShiftedAt
    <3> QED
      BY <1>0, <3>1, <3>2, Zenon DEF Shifted
  <2>5. SweepsTakeExpired'
    BY <1>0, <2>3, Zenon DEF SweepsTakeExpired
  <2> QED
    BY <1>2, <1>3, <2>3, <2>4, <2>5, Zenon DEF Undisturbed
<1>8. CASE SweepCount(c)
  BY <1>0, <1>2, <1>3, <1>8, Zenon DEF SweepCount, Undisturbed, SweepsTakeExpired
<1> QED
  BY <1>2, <1>4, <1>5, <1>6, <1>7, <1>8, Zenon DEF Sweep

LEMMA AloneNext ==
  ASSUME SweepsAlone, TaskInv, AloneInv, [Next]_vars
  PROVE  AloneInv'
<1> USE DEF callerVars, workerVars
<1>0. QueueTypes /\ MutexHeld' /\ SweepsLate'
  BY MutexHeldNext, SweepsLateNext, Zenon DEF AloneInv, TaskInv
<1>1. CASE \E c \in Callers : Sweeping(c)
  <2>1. PICK c \in Callers : Sweeping(c)
    BY <1>1, Zenon
  <2>2. CASE Sweep(c)
    BY <1>0, <2>1, <2>2, SweepUndisturbed, Zenon DEF AloneInv
  <2>3. CASE (\E t \in Tasks : Lapse(t)) \/ Spurious \/ UNCHANGED vars
    <3>1. /\ UNCHANGED <<fate, callerPc, mutex_, sweepAt, sweepSeen, tasks_, expiredCount_>>
          /\ lapsed \subseteq lapsed'
      BY <2>3, Zenon DEF Lapse, Spurious, vars
    <3> QED
      BY <1>0, <3>1, Zenon DEF AloneInv, Undisturbed, Sweeping, SweepsTakeExpired
  <2> QED
    BY <2>1, <2>2, <2>3, OnlyTheSweepMoves, Zenon
<1>2. CASE \A c \in Callers : ~Sweeping(c)
  <2>1. SweepsTakeExpired'
    BY <1>2, NothingLost, Zenon DEF AloneInv
  <2>2. ASSUME NEW c \in Callers, SweepBegin(c) PROVE AloneInv'
    <3>1. /\ callerPc' = [callerPc EXCEPT ![c] = "sweep"] /\ mutex_' = NoThread
          /\ sweepAt' = [sweepAt EXCEPT ![c] = 1]
      BY <2>2, Zenon DEF SweepBegin, Unlocked
    <3>2. /\ callerPc'[c] = "sweep" /\ sweepAt'[c] = 1
          /\ \A d \in Callers \ {c} : ~Sweeping(d)'
      BY <1>0, <1>2, <3>1, Zenon DEF TaskInv, QueueTypes, SweepTypes, Sweeping
    <3>3. sweepAt'[c] >= 1
      BY <3>2
    <3> QED
      BY <1>0, <2>1, <3>1, <3>2, <3>3, Zenon DEF AloneInv, Undisturbed
  <2> QED
    BY <1>0, <1>2, <2>1, <2>2, NoSweepMoves, Zenon DEF AloneInv
<1> QED
  BY <1>1, <1>2, Zenon

LEMMA AloneInit == Init => AloneInv
  BY Zenon DEF Init, AloneInv, MutexHeld, SweepsLate, SweepsTakeExpired, Sweeping

(* A task is in one place only: the queue holds the pending tasks, each of *)
(* them once, a task that is being run is run by one worker, and none gets *)
(* lost, as long as the program keeps the other threads away from the      *)
(* manager while removeExpiredTasks(), which does not take the mutex, is   *)
(* at work.                                                                *)
THEOREM TasksStayAccounted ==
  ASSUME SweepsAlone
  PROVE  Spec => []TasksAccounted
<1>1. TaskInv /\ AloneInv /\ [Next]_vars => TaskInv' /\ AloneInv'
  BY TaskNext, AloneNext, Zenon
<1>2. TaskInv /\ AloneInv => TasksAccounted
  BY TaskInvImplies, Zenon DEF AloneInv
<1> QED
  BY <1>1, <1>2, TaskInit, AloneInit, PTL DEF Spec

-----------------------------------------------------------------------------
(* The limit of the queue.                                                 *)

LEMMA LimitNext == TaskInv /\ QueueBounded /\ [Next]_vars => QueueBounded'
<1> SUFFICES ASSUME TaskInv, QueueBounded, [Next]_vars PROVE QueueBounded'
  BY Zenon
<1> USE DEF callerVars, workerVars, poolVars
<1>0. /\ QueueTypes /\ tasks_ \in Seq(Tasks) /\ Len(tasks_) \in Nat
      /\ PendingTaskCountMax \in Nat
  BY ConstantsAssumption DEF TaskInv, QueueTypes
<1>1. ASSUME tasks_' = tasks_ PROVE QueueBounded'
  BY <1>1, Zenon DEF QueueBounded
<1>2. ASSUME NEW i \in 1..Len(tasks_), tasks_' = Erase(tasks_, i) PROVE QueueBounded'
  BY <1>0, <1>2, EraseProperties DEF QueueBounded
<1>3. ASSUME NEW q \in Seq(Tasks), NEW t, ~Full(q), tasks_' = Append(q, t)
      PROVE  QueueBounded'
  <2>1. Len(tasks_') = Len(q) + 1 /\ Len(q) \in Nat
    BY <1>3
  <2> QED
    BY <1>0, <1>3, <2>1 DEF QueueBounded, Full
<1>4. ASSUME NEW w \in Workers, WorkerDequeue(w) PROVE QueueBounded'
  <2>1. tasks_ # <<>> /\ tasks_' = Tail(tasks_)
    BY <1>4, Zenon DEF WorkerDequeue
  <2> QED
    BY <1>0, <1>2, <2>1, TailIsErase, Zenon
<1>5. ASSUME NEW c \in Callers, NEW t \in Tasks, NEW timeout, AddBlock(c, t, timeout)
      PROVE  QueueBounded'
  <2>1. /\ tasks_' = WithRoomMade /\ fate[t] = "unused" /\ "blocked" \in Fates
        /\ Accounted([fate EXCEPT ![t] = "blocked"])
    BY <1>5, Zenon DEF AddBlock, Fates
  <2>2. Len(WithRoomMade) \in Nat /\ Len(WithRoomMade) <= Len(tasks_)
    BY <2>1, RoomMade, Zenon DEF NewTask
  <2> QED
    BY <1>0, <2>1, <2>2 DEF QueueBounded
<1>6. ASSUME NEW th, NEW t \in Tasks, Add(th, t) PROVE QueueBounded'
  <2>1. /\ tasks_' = Append(WithRoomMade, t) /\ fate[t] = "unused" /\ "pending" \in Fates
        /\ Accounted([fate EXCEPT ![t] = "pending"]) /\ ~Full(WithRoomMade)
    BY <1>6, Zenon DEF Add, Enqueue, Fates
  <2>2. WithRoomMade \in Seq(Tasks)
    BY <2>1, RoomMade, Zenon DEF NewTask
  <2> QED
    BY <1>3, <2>1, <2>2, Zenon
<1>7. TaskShapes
  BY EveryStepHasAShape, Zenon DEF TaskInv
<1> QED
  BY <1>0, <1>1, <1>2, <1>3, <1>4, <1>5, <1>6, <1>7, Zenon
  DEF TaskShapes, WorkersMove, WorkerTaskDone, WorkerExpireDone, TaskErased, SweepMoves,
      AddTimeout, AddWakeup, Enqueue, Lapse

(* The queue never holds more than pendingTaskCountMax_ tasks, whoever     *)
(* calls add(), and however long a blocked call has waited.                *)
THEOREM QueueStaysBounded == Spec => []QueueBounded
<1>1. Init => QueueBounded
  BY ConstantsAssumption DEF Init, QueueBounded
<1> QED
  BY <1>1, TaskInit, TaskNext, LimitNext, PTL DEF Spec

-----------------------------------------------------------------------------
(* What a step does to the fate of a task.                                 *)

Over == {"complete", "expired", "removed", "lost"}

RunsOnceStep ==
    \A t \in Tasks :
        /\ fate'[t] = "executing" =>
              \/ fate[t] = "executing"
              \/ fate[t] = "pending" /\ t \notin lapsed
        /\ fate[t] \in Over => fate'[t] = fate[t]

(* The fate of one task, which is not over, changes.                       *)
LEMMA OneFate ==
  ASSUME fate \in [Tasks -> Fates], NEW t \in Tasks, NEW v,
         fate' = [fate EXCEPT ![t] = v], fate[t] \notin Over,
         v = "executing" => fate[t] = "pending" /\ t \notin lapsed
  PROVE  RunsOnceStep
  BY Zenon DEF RunsOnceStep

(* add() gives a fate to the new task and to the one it drops.             *)
LEMMA AddFates ==
  ASSUME TaskInv, NEW t \in Tasks, fate[t] = "unused", NEW v \in Fates,
         v # "executing", Accounted([fate EXCEPT ![t] = v])
  PROVE  RunsOnceStep
<1>1. PICK g \in [Tasks -> Fates] : NewTask(g, t, v)
  BY RoomMade, Zenon
<1>2. fate' = [g EXCEPT ![t] = v] /\ \A u \in Tasks : fate[u] # "pending" => g[u] = fate[u]
  BY <1>1, Zenon DEF NewTask
<1>3. \A u \in Tasks : g[u] = "executing" => fate[u] = "executing"
  <2>1. g = fate \/ \E x : g = [fate EXCEPT ![x] = "expired"]
    BY <1>1, Zenon DEF NewTask, MadeRoom
  <2>2. fate \in [Tasks -> Fates]
    BY Zenon DEF TaskInv, QueueTypes
  <2> QED
    BY <2>1, <2>2, Zenon
<1> QED
  BY <1>2, <1>3, Zenon DEF RunsOnceStep, Over

LEMMA RunsOnceNext == TaskInv /\ [Next]_vars => RunsOnceStep
<1> SUFFICES ASSUME TaskInv, [Next]_vars PROVE RunsOnceStep
  BY Zenon
<1> USE DEF callerVars, workerVars, poolVars
<1>0. /\ QueueTypes /\ Held /\ QueueAccounted(tasks_, fate)
      /\ tasks_ \in Seq(Tasks) /\ Len(tasks_) \in Nat /\ fate \in [Tasks -> Fates]
  BY DEF TaskInv, QueueTypes
<1>1. ASSUME UNCHANGED fate PROVE RunsOnceStep
  BY <1>1, Zenon DEF RunsOnceStep
<1>2. ASSUME NEW i \in 1..Len(tasks_), NEW v, v \in Over,
             fate' = [fate EXCEPT ![tasks_[i]] = v]
      PROVE  RunsOnceStep
  <2>1. fate[tasks_[i]] = "pending" /\ tasks_[i] \in Tasks
    BY <1>0 DEF QueueAccounted
  <2> QED
    BY <1>0, <1>2, <2>1, OneFate, Zenon DEF Over
<1>3. ASSUME NEW w \in Workers, WorkerDequeue(w) PROVE RunsOnceStep
  <2> DEFINE t == Head(tasks_)
  <2>1. tasks_ # <<>> /\ fate' = [fate EXCEPT ![t] = Admitted(t)]
    BY <1>3, Zenon DEF WorkerDequeue
  <2>2. Admitted(t) = "executing" => t \notin lapsed
    BY Zenon DEF Admitted
  <2>3. t = tasks_[1] /\ 1 \in 1..Len(tasks_)
    BY <1>0, <2>1, TailIsErase, Zenon
  <2> HIDE DEF t
  <2>4. fate[t] = "pending" /\ t \in Tasks
    BY <1>0, <2>3 DEF QueueAccounted
  <2> QED
    BY <1>0, <2>1, <2>2, <2>4, OneFate, Zenon DEF Over
<1>4. ASSUME NEW w \in Workers, WorkerTaskDone(w) PROVE RunsOnceStep
  <2>1. workerTask[w] \in Tasks /\ fate[workerTask[w]] = "executing"
    BY <1>0, <1>4, Zenon DEF WorkerTaskDone, Held, WorkersHoldTasks
  <2> QED
    BY <1>0, <1>4, <2>1, OneFate, Zenon DEF WorkerTaskDone, Over
<1>5. ASSUME NEW c \in Callers, AddTimeout(c) \/ (AddWakeup(c) /\ ~Full(tasks_))
      PROVE  RunsOnceStep
  <2>1. /\ Blocked(c)
        /\ \E v \in {"pending", "unused"} : fate' = [fate EXCEPT ![callerTask[c]] = v]
    BY <1>5, Zenon DEF AddTimeout, AddWakeup, Blocked
  <2>2. callerTask[c] \in Tasks /\ fate[callerTask[c]] = "blocked"
    BY <1>0, <2>1, Zenon DEF Held, CallersHoldTasks
  <2> QED
    BY <1>0, <2>1, <2>2, OneFate, Zenon DEF Over
<1>6. ASSUME NEW c \in Callers, NEW t \in Tasks, NEW timeout, AddBlock(c, t, timeout)
      PROVE  RunsOnceStep
  <2>1. /\ fate[t] = "unused" /\ "blocked" \in Fates /\ "blocked" # "executing"
        /\ Accounted([fate EXCEPT ![t] = "blocked"])
    BY <1>6, Zenon DEF AddBlock, Fates
  <2> QED
    BY <2>1, AddFates, Zenon
<1>7. ASSUME NEW th, NEW t \in Tasks, Add(th, t) PROVE RunsOnceStep
  <2>1. /\ fate[t] = "unused" /\ "pending" \in Fates /\ "pending" # "executing"
        /\ Accounted([fate EXCEPT ![t] = "pending"])
    BY <1>7, Zenon DEF Add, Fates
  <2> QED
    BY <2>1, AddFates, Zenon
<1>8. TaskShapes
  BY EveryStepHasAShape, Zenon DEF TaskInv
<1>9. {"removed", "expired", "lost"} \subseteq Over
  BY Zenon DEF Over
<1> QED
  BY <1>1, <1>2, <1>3, <1>4, <1>5, <1>6, <1>7, <1>8, <1>9, Zenon
  DEF TaskShapes, WorkersMove, WorkerExpireDone, TaskErased, SweepMoves, Lapse

(* A worker runs a task at most once, and never one that expired or was    *)
(* removed: tasks leave the queue for good, in one of these ways.          *)
THEOREM TasksRunOnce == Spec => TaskRunsOnce
<1>1. Spec => []TaskInv
  BY TaskInit, TaskNext, PTL DEF Spec
<1>2. TaskInv /\ [Next]_vars => [RunsOnceStep]_vars
  BY RunsOnceNext, Zenon
<1> QED
  BY <1>1, <1>2, PTL DEF Spec, TaskRunsOnce, RunsOnceStep, Over

-----------------------------------------------------------------------------
(* ThreadManager implements TaskPool: every step of the manager is a step  *)
(* of the abstract pool or changes nothing the pool can see.               *)

LEMMA OutcomeChanges ==
  ASSUME fate \in [Tasks -> Fates], NEW t \in Tasks, NEW v,
         v \notin {"unused", "blocked"}, fate' = [fate EXCEPT ![t] = v]
  PROVE  Outcomes' = [Outcomes EXCEPT ![t] = v]
  BY Zenon DEF Outcomes

LEMMA OutcomeStays ==
  ASSUME fate \in [Tasks -> Fates], NEW t \in Tasks, NEW v,
         {v, fate[t]} \subseteq {"unused", "blocked"}, fate' = [fate EXCEPT ![t] = v]
  PROVE  Outcomes' = Outcomes
  BY Zenon DEF Outcomes

LEMMA RunsStay ==
  ASSUME UNCHANGED <<workerPc, workerTask>>
  PROVE  Runs' = Runs
  BY Zenon DEF Runs

(* Erase, of this module's queue, is Without, of the pool's.               *)
LEMMA EraseIsWithout ==
  ASSUME NEW q, NEW i
  PROVE  Erase(q, i) = Pool!Without(q, i)
  BY Zenon DEF Erase, Pool!Without

PoolStep == Pool!Next \/ UNCHANGED <<tasks_, Outcomes, lapsed, Runs>>

(* A task leaves the queue, because its time is over or because it is      *)
(* withdrawn.                                                              *)
LEMMA LeavesQueue ==
  ASSUME TaskInv, NEW i \in 1..Len(tasks_), NEW v,
         v = "removed" \/ (v = "expired" /\ tasks_[i] \in lapsed),
         tasks_' = Erase(tasks_, i), fate' = [fate EXCEPT ![tasks_[i]] = v],
         Runs' = Runs, lapsed' = lapsed
  PROVE  PoolStep
<1>0. tasks_ \in Seq(Tasks) /\ fate \in [Tasks -> Fates] /\ tasks_[i] \in Tasks
  BY DEF TaskInv, QueueTypes
<1>1. Outcomes' = [Outcomes EXCEPT ![tasks_[i]] = v]
  BY <1>0, OutcomeChanges, Zenon
<1>2. CASE v = "removed"
  BY <1>1, <1>2, EraseIsWithout, Zenon DEF PoolStep, Pool!Next, Pool!Withdraw
<1>3. CASE v = "expired" /\ tasks_[i] \in lapsed
  BY <1>1, <1>3, EraseIsWithout, Zenon DEF PoolStep, Pool!Next, Pool!Drop
<1> QED
  BY <1>2, <1>3, Zenon

LEMMA DequeueStep ==
  ASSUME TaskInv, NEW w \in Workers, WorkerDequeue(w)
  PROVE  PoolStep
<1> USE DEF callerVars, workerVars, poolVars
<1> DEFINE t == Head(tasks_)
<1>0. /\ tasks_ \in Seq(Tasks) /\ fate \in [Tasks -> Fates] /\ tasks_ # <<>>
      /\ workerPc \in [Workers -> WorkerPcs]
      /\ workerTask \in [Workers -> Tasks \cup {NoTask}]
  BY Zenon DEF TaskInv, QueueTypes, WorkerDequeue
<1>1. /\ 1 \in 1..Len(tasks_) /\ t = tasks_[1] /\ t \in Tasks
      /\ tasks_' = Tail(tasks_) /\ Tail(tasks_) = Erase(tasks_, 1)
      /\ fate' = [fate EXCEPT ![t] = Admitted(t)] /\ lapsed' = lapsed
      /\ workerPc[w] = "loop"
  BY <1>0, TailIsErase DEF WorkerDequeue
<1>2. CASE t \in lapsed
  <2>1. Admitted(t) = "expired"
    BY <1>2, Zenon DEF Admitted
  <2>2. \/ UNCHANGED <<workerPc, workerTask>>
        \/ /\ workerPc' = [workerPc EXCEPT ![w] = "expiring"]
           /\ workerTask' = [workerTask EXCEPT ![w] = t]
    BY <2>1, Zenon DEF WorkerDequeue
  <2>3. Runs' = Runs
    BY <1>0, <1>1, <2>2, Zenon DEF Runs
  <2> HIDE DEF t
  <2>4. /\ tasks_' = Erase(tasks_, 1) /\ fate' = [fate EXCEPT ![tasks_[1]] = "expired"]
        /\ tasks_[1] \in lapsed /\ "expired" = "expired"
    BY <1>1, <1>2, <2>1, Zenon
  <2> QED
    BY <1>1, <2>3, <2>4, LeavesQueue, Zenon
<1>3. CASE t \notin lapsed
  <2>1. Admitted(t) = "executing"
    BY <1>3, Zenon DEF Admitted
  <2>2. /\ workerPc' = [workerPc EXCEPT ![w] = "running"]
        /\ workerTask' = [workerTask EXCEPT ![w] = t]
    BY <2>1, Zenon DEF WorkerDequeue
  <2>3. Runs[w] = NoTask /\ Runs' = [Runs EXCEPT ![w] = t]
    BY <1>0, <1>1, <2>2, Zenon DEF Runs
  <2>4. Outcomes' = [Outcomes EXCEPT ![t] = "executing"]
    BY <1>0, <1>1, <2>1, OutcomeChanges, Zenon
  <2> QED
    BY <1>0, <1>1, <1>3, <2>3, <2>4, Zenon DEF PoolStep, Pool!Next, Pool!Begin
<1> QED
  BY <1>2, <1>3, Zenon

LEMMA DoneStep ==
  ASSUME TaskInv, NEW w \in Workers, WorkerTaskDone(w) \/ WorkerExpireDone(w)
  PROVE  PoolStep
<1> USE DEF callerVars, workerVars, poolVars
<1>0. /\ fate \in [Tasks -> Fates] /\ Held /\ NoTask \notin Tasks
      /\ workerPc \in [Workers -> WorkerPcs]
      /\ workerTask \in [Workers -> Tasks \cup {NoTask}]
  BY ConstantsAssumption, Zenon DEF TaskInv, QueueTypes
<1>1. /\ workerPc' = [workerPc EXCEPT ![w] = "loop"]
      /\ workerTask' = [workerTask EXCEPT ![w] = NoTask]
      /\ UNCHANGED <<tasks_, lapsed>>
  BY Zenon DEF WorkerTaskDone, WorkerExpireDone
<1>2. CASE WorkerTaskDone(w)
  <2>1. /\ workerTask[w] \in Tasks /\ workerPc[w] = "running"
        /\ fate' = [fate EXCEPT ![workerTask[w]] = "complete"]
    BY <1>0, <1>2, Zenon DEF WorkerTaskDone, Held, WorkersHoldTasks
  <2>2. Runs[w] = workerTask[w] /\ Runs' = [Runs EXCEPT ![w] = NoTask]
    BY <1>0, <1>1, <2>1, Zenon DEF Runs
  <2>3. Outcomes' = [Outcomes EXCEPT ![Runs[w]] = "complete"]
    BY <1>0, <2>1, <2>2, OutcomeChanges, Zenon
  <2> QED
    BY <1>0, <1>1, <2>1, <2>2, <2>3, ZenonT(30) DEF PoolStep, Pool!Next, Pool!Complete
<1>3. CASE WorkerExpireDone(w)
  <2>1. UNCHANGED fate /\ workerPc[w] = "expiring"
    BY <1>3, Zenon DEF WorkerExpireDone
  <2>2. Runs' = Runs /\ Outcomes' = Outcomes
    BY <1>0, <1>1, <2>1, Zenon DEF Runs, Outcomes
  <2> QED
    BY <1>1, <2>2, Zenon DEF PoolStep
<1> QED
  BY <1>2, <1>3, Zenon

(* add(): the new task goes to the end of the queue, in the place of an    *)
(* overdue one if the queue is full.                                       *)
LEMMA AddStep ==
  ASSUME TaskInv, NEW th \in Workers \cup Callers, NEW t \in Tasks, Add(th, t)
  PROVE  PoolStep
<1> USE DEF callerVars, workerVars, poolVars
<1>0. /\ PendingTaskCountMax \in Nat /\ fate \in [Tasks -> Fates]
      /\ tasks_ \in Seq(Tasks) /\ Len(tasks_) \in Nat
  BY ConstantsAssumption DEF TaskInv, QueueTypes
<1>1. /\ fate[t] = "unused" /\ ~Full(WithRoomMade) /\ "pending" \in Fates
      /\ tasks_' = Append(WithRoomMade, t)
      /\ Accounted([fate EXCEPT ![t] = "pending"])
      /\ UNCHANGED <<lapsed, workerPc, workerTask>>
  BY Zenon DEF Add, Enqueue, Fates
<1>2. Runs' = Runs /\ Outcomes[t] = "new"
  BY <1>0, <1>1, RunsStay, Zenon DEF Outcomes
<1>3. PICK g \in [Tasks -> Fates] : NewTask(g, t, "pending")
  BY <1>1, RoomMade, Zenon
<1>4. ASSUME NEW i \in 1..Len(tasks_), Full(tasks_), tasks_[i] \in lapsed,
             WithRoomMade = Erase(tasks_, i), fate[tasks_[i]] = "pending",
             g = [fate EXCEPT ![tasks_[i]] = "expired"]
      PROVE  PoolStep
  <2> DEFINE x == tasks_[i]
  <2>1. fate' = [g EXCEPT ![t] = "pending"] /\ x \in Tasks /\ x # t
    BY <1>0, <1>1, <1>3, <1>4 DEF NewTask
  <2>2. Outcomes' = [Outcomes EXCEPT ![t] = "pending", ![x] = "expired"]
    <3> HIDE DEF x
    <3> QED
      BY <1>0, <1>1, <1>4, <2>1, ZenonT(30) DEF Outcomes, x
  <2>3. tasks_' = Append(Pool!Without(tasks_, i), t)
    BY <1>1, <1>4, EraseIsWithout, Zenon
  <2>4. ~Pool!HasRoom
    BY <1>0, <1>4 DEF Full, Pool!HasRoom
  <2> QED
    BY <1>1, <1>2, <1>4, <2>2, <2>3, <2>4, ZenonT(30) DEF PoolStep, Pool!Next, Pool!SubmitInPlace
<1>5. CASE WithRoomMade = tasks_ /\ g = fate
  <2>1. tasks_' = Append(tasks_, t) /\ fate' = [fate EXCEPT ![t] = "pending"] /\ ~Full(tasks_)
    BY <1>1, <1>3, <1>5, Zenon DEF NewTask
  <2>2. Outcomes' = [Outcomes EXCEPT ![t] = "pending"]
    BY <1>0, <2>1, OutcomeChanges, Zenon
  <2>3. Pool!HasRoom
    BY <1>0, <2>1 DEF Full, Pool!HasRoom
  <2> QED
    BY <1>1, <1>2, <2>1, <2>2, <2>3, Zenon DEF PoolStep, Pool!Next, Pool!Submit
<1> QED
  BY <1>3, <1>4, <1>5, Zenon DEF NewTask, MadeRoom

(* A task that add() waits with has not been added yet; in the meantime it *)
(* may only have dropped an overdue one.                                   *)
LEMMA BlockStep ==
  ASSUME TaskInv, NEW c \in Callers, NEW t \in Tasks, NEW timeout, AddBlock(c, t, timeout)
  PROVE  PoolStep
<1> USE DEF callerVars, workerVars, poolVars
<1>0. fate \in [Tasks -> Fates] /\ tasks_ \in Seq(Tasks) /\ Len(tasks_) \in Nat
  BY DEF TaskInv, QueueTypes
<1>1. /\ fate[t] = "unused" /\ "blocked" \in Fates /\ tasks_' = WithRoomMade
      /\ Accounted([fate EXCEPT ![t] = "blocked"])
      /\ UNCHANGED <<lapsed, workerPc, workerTask>>
  BY Zenon DEF AddBlock, Fates
<1>2. Runs' = Runs
  BY <1>1, RunsStay, Zenon
<1>3. PICK g \in [Tasks -> Fates] : NewTask(g, t, "blocked")
  BY <1>1, RoomMade, Zenon
<1>4. ASSUME NEW i \in 1..Len(tasks_), tasks_[i] \in lapsed,
             WithRoomMade = Erase(tasks_, i), fate[tasks_[i]] = "pending",
             g = [fate EXCEPT ![tasks_[i]] = "expired"]
      PROVE  PoolStep
  <2> DEFINE x == tasks_[i]
  <2>1. fate' = [g EXCEPT ![t] = "blocked"] /\ x \in Tasks /\ x # t
    BY <1>0, <1>1, <1>3, <1>4 DEF NewTask
  <2>2. Outcomes' = [Outcomes EXCEPT ![x] = "expired"]
    <3> HIDE DEF x
    <3> QED
      BY <1>0, <1>1, <1>4, <2>1, Zenon DEF Outcomes, x
  <2>3. tasks_' = Pool!Without(tasks_, i)
    BY <1>1, <1>4, EraseIsWithout, Zenon
  <2> QED
    BY <1>1, <1>2, <1>4, <2>2, <2>3, ZenonT(30) DEF PoolStep, Pool!Next, Pool!Drop
<1>5. CASE WithRoomMade = tasks_ /\ g = fate
  <2>1. tasks_' = tasks_ /\ fate' = [fate EXCEPT ![t] = "blocked"]
    BY <1>1, <1>3, <1>5, Zenon DEF NewTask
  <2>2. Outcomes' = Outcomes
    BY <1>0, <1>1, <2>1, OutcomeStays, Zenon
  <2> QED
    BY <1>1, <1>2, <2>1, <2>2, Zenon DEF PoolStep
<1> QED
  BY <1>3, <1>4, <1>5, Zenon DEF NewTask, MadeRoom

LEMMA UnblockStep ==
  ASSUME TaskInv, NEW c \in Callers, AddTimeout(c) \/ (AddWakeup(c) /\ ~Full(tasks_))
  PROVE  PoolStep
<1> USE DEF callerVars, workerVars, poolVars
<1> DEFINE t == callerTask[c]
<1>0. /\ fate \in [Tasks -> Fates] /\ Held /\ PendingTaskCountMax \in Nat
      /\ tasks_ \in Seq(Tasks) /\ Len(tasks_) \in Nat
  BY ConstantsAssumption DEF TaskInv, QueueTypes
<1>1. t \in Tasks /\ fate[t] = "blocked"
  BY <1>0, Zenon DEF AddTimeout, AddWakeup, Blocked, Held, CallersHoldTasks
<1>2. /\ UNCHANGED <<lapsed, workerPc, workerTask>>
      /\ \/ /\ ~Full(tasks_) /\ tasks_' = Append(tasks_, t)
            /\ fate' = [fate EXCEPT ![t] = "pending"]
         \/ tasks_' = tasks_ /\ fate' = [fate EXCEPT ![t] = "unused"]
  BY Zenon DEF AddTimeout, AddWakeup, Enqueue
<1>3. Runs' = Runs
  BY <1>2, RunsStay, Zenon
<1> HIDE DEF t
<1>4. CASE /\ ~Full(tasks_) /\ tasks_' = Append(tasks_, t)
           /\ fate' = [fate EXCEPT ![t] = "pending"]
  <2>1. Outcomes' = [Outcomes EXCEPT ![t] = "pending"] /\ Outcomes[t] = "new"
    BY <1>0, <1>1, <1>4, OutcomeChanges, Zenon DEF Outcomes
  <2>2. Pool!HasRoom
    BY <1>0, <1>4 DEF Full, Pool!HasRoom
  <2> QED
    BY <1>1, <1>2, <1>3, <1>4, <2>1, <2>2, Zenon DEF PoolStep, Pool!Next, Pool!Submit
<1>5. CASE tasks_' = tasks_ /\ fate' = [fate EXCEPT ![t] = "unused"]
  <2>1. Outcomes' = Outcomes
    BY <1>0, <1>1, <1>5, OutcomeStays, Zenon
  <2> QED
    BY <1>2, <1>3, <1>5, <2>1, Zenon DEF PoolStep
<1> QED
  BY <1>2, <1>4, <1>5, Zenon

(* Every step of the manager is a step of the pool, or none.               *)
LEMMA PoolNext ==
  TaskInv /\ SweepsTakeExpired' /\ [Next]_vars
      => [Pool!Next]_<<tasks_, Outcomes, lapsed, Runs>>
<1> SUFFICES ASSUME TaskInv, SweepsTakeExpired', [Next]_vars PROVE PoolStep
  BY Zenon DEF PoolStep
<1> USE DEF callerVars, workerVars, poolVars
<1>0. QueueTypes
  BY Zenon DEF TaskInv
<1>1. ASSUME WorkersMove PROVE PoolStep
  <2>1. Runs' = Runs /\ Outcomes' = Outcomes
    BY <1>1, Zenon DEF WorkersMove, Runs, Outcomes
  <2> QED
    BY <1>1, <2>1, Zenon DEF WorkersMove, PoolStep
<1>2. ASSUME NEW c \in Callers, SweepMoves(c) PROVE PoolStep
  BY <1>2, RunsStay, Zenon DEF SweepMoves, PoolStep, Outcomes
<1>3. ASSUME NEW i \in 1..Len(tasks_), NEW v, TaskErased(i, v) PROVE PoolStep
  <2>0. tasks_[i] \in Tasks /\ fate \in [Tasks -> Fates] /\ tasks_ \in Seq(Tasks)
    BY <1>0 DEF QueueTypes
  <2>a. v # "lost"
    BY <1>3, <2>0, Zenon DEF TaskErased, SweepsTakeExpired
  <2>1. v = "removed" \/ (v = "expired" /\ tasks_[i] \in lapsed)
    BY <1>3, <2>a, ZenonT(30) DEF TaskErased
  <2> QED
    BY <1>3, <2>1, RunsStay, LeavesQueue, Zenon DEF TaskErased
<1>4. ASSUME NEW t \in Tasks, Lapse(t) PROVE PoolStep
  <2>1. Runs' = Runs /\ Outcomes' = Outcomes /\ Outcomes[t] = "pending"
    BY <1>4, RunsStay, ZenonT(30) DEF Lapse, Outcomes
  <2> QED
    BY <1>4, <2>1, ZenonT(30) DEF Lapse, PoolStep, Pool!Next, Pool!Elapse
<1>5. TaskShapes
  BY EveryStepHasAShape, Zenon DEF TaskInv
<1> QED
  BY <1>1, <1>2, <1>3, <1>4, <1>5, DequeueStep, DoneStep, AddStep, BlockStep, UnblockStep,
     Zenon DEF TaskShapes

(* Every behaviour of the manager is a behaviour of the abstract pool: the *)
(* order in which tasks start, the limit of the queue, one run per task    *)
(* and none after its time do not depend on how the threads interleave, on *)
(* lost or spurious wakeups or on the number of threads and tasks; but no  *)
(* thread may use the manager while removeExpiredTasks() is at work.       *)
THEOREM ManagerImplementsPool ==
  ASSUME SweepsAlone
  PROVE  Spec => ImplementsPool
<1>1. Init => Pool!Init
  BY Zenon DEF Init, Pool!Init, Outcomes, Runs
<1> DEFINE IInv == TaskInv /\ AloneInv
<1>2. IInv /\ [Next]_vars => IInv'
  BY TaskNext, AloneNext, Zenon
<1>3. Init => IInv
  BY TaskInit, AloneInit, Zenon
<1>4. IInv /\ IInv' /\ [Next]_vars => [Pool!Next]_<<tasks_, Outcomes, lapsed, Runs>>
  BY PoolNext, Zenon DEF AloneInv
<1> QED
  BY <1>1, <1>2, <1>3, <1>4, PTL DEF Spec, ImplementsPool, Pool!Spec, Pool!poolVars
=============================================================================

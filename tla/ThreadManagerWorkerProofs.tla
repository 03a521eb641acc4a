--------------------- MODULE ThreadManagerWorkerProofs ---------------------
(***************************************************************************)
(* Proofs about the workers of ThreadManager, for every number of workers, *)
(* callers, tasks and managing threads: the types of its state, the counts *)
(* of workers, and the invariant that ties workers_, idMap_, deadWorkers_  *)
(* and workerCount_ to where each worker is. From it follows what the      *)
(* manager promises while it runs and when it stops: waiting work finds a  *)
(* worker awake, the counters tell the truth, and a stopped manager has no *)
(* worker left.                                                            *)
(***************************************************************************)
EXTENDS ThreadManagerProofs, FiniteSetTheorems

-----------------------------------------------------------------------------
(* Counting workers.                                                       *)

LEMMA WorkersFinite ==
  ASSUME NEW S \in SUBSET Workers
  PROVE  /\ IsFiniteSet(S) /\ Cardinality(S) \in Nat
         /\ Cardinality(S) = 0 => S = {}
         /\ \A w \in Workers \ S : Cardinality(S \cup {w}) = Cardinality(S) + 1
         /\ \A w \in S : Cardinality(S \ {w}) = Cardinality(S) - 1
<1>1. IsFiniteSet(S)
  BY ConstantsAssumption, FS_Subset, Zenon
<1>2. Cardinality(S) \in Nat /\ (Cardinality(S) = 0 => S = {})
  BY <1>1, FS_CardinalityType, FS_EmptySet, Zenon
<1>3. \A w \in Workers \ S : Cardinality(S \cup {w}) = Cardinality(S) + 1
  BY <1>1, FS_AddElement, Zenon
<1>4. \A w \in S : Cardinality(S \ {w}) = Cardinality(S) - 1
  BY <1>1, FS_RemoveElement, Zenon
<1> QED
  BY <1>1, <1>2, <1>3, <1>4, Zenon

(* Signalling a monitor only takes threads out of its wait set.            *)
LEMMA NotifyShrinks ==
  ASSUME NEW m
  PROVE  /\ \A r \in Notify(m) : r \subseteq m
         /\ \A n, r : r \in NotifyTimes(m, n) => r \subseteq m
         /\ \A r \in NotifyAll(m) : r \subseteq m
         /\ \A r \in SpuriousWakeup(m) : r \subseteq m
  BY Zenon DEF Notify, NotifyTimes, NotifyAll, SpuriousWakeup

-----------------------------------------------------------------------------
(* Type correctness.  That idleCount_ never becomes negative rests on its  *)
(* being the number of waiting workers.                                    *)

CountTypes ==
    /\ state_ \in {"UNINITIALIZED", "STARTED", "JOINING", "STOPPED"}
    /\ workerCount_ \in Nat /\ workerMaxCount_ \in Nat /\ idleCount_ \in Nat
    /\ mutex_ \in Workers \cup {NoThread}
    /\ monitor_ \subseteq Workers
    /\ maxMonitor_ \subseteq Callers /\ workerMonitor_ \subseteq Admins
    /\ workerPc \in [Workers -> WorkerPcs]
    /\ adminPc \in [Admins -> {"idle", "addWorker", "removeWorker", "stop"}]

CountInv == CountTypes /\ IdleCountExact

LEMMA CountInit == Init => CountInv
<1> SUFFICES ASSUME Init PROVE CountInv
  BY Zenon
<1>1. Waiting = {}
  BY Zenon DEF Init, Waiting
<1>2. IdleCountExact
  BY <1>1, FS_EmptySet, Zenon DEF Init, IdleCountExact
<1>3. CountTypes
  BY ConstantsAssumption, Zenon DEF Init, CountTypes, WorkerPcs
<1> QED
  BY <1>2, <1>3, Zenon DEF CountInv

(* What the threads that use the pool, the clock and a spurious wakeup do  *)
(* to it: at most wake somebody, and queue a task or take some away.       *)
ClientStep ==
    /\ UNCHANGED <<state_, poolVars, mutex_, workerPc, adminPc>>
    /\ monitor_' \subseteq monitor_ /\ maxMonitor_' \subseteq Callers
    /\ workerMonitor_' \subseteq workerMonitor_
    /\ \/ Len(tasks_') <= Len(tasks_)
       \/ \E queue \in Seq(Tasks), t \in Tasks :
             Len(queue) <= Len(tasks_) /\ Enqueue(queue, t)

LEMMA ClientsStep ==
  ASSUME TaskInv, CountTypes,
         \/ \E c \in Callers : Caller(c)
         \/ \E th \in Workers \cup Callers, t \in Tasks : Add(th, t)
         \/ \E t \in Tasks : Lapse(t)
         \/ Spurious
         \/ UNCHANGED vars
  PROVE  ClientStep
<1> USE DEF callerVars, workerVars, poolVars
<1>0. /\ QueueTypes /\ SweepTypes /\ Held /\ tasks_ \in Seq(Tasks) /\ Len(tasks_) \in Nat
      /\ maxMonitor_ \subseteq Callers
  BY DEF TaskInv, QueueTypes, CountTypes
<1>1. ASSUME UNCHANGED <<state_, poolVars, mutex_, workerPc, adminPc, monitor_, workerMonitor_>>,
             maxMonitor_' \subseteq Callers, Len(tasks_') <= Len(tasks_)
      PROVE  ClientStep
  BY <1>1, Zenon DEF ClientStep
<1>2. ASSUME UNCHANGED <<state_, poolVars, mutex_, workerPc, adminPc, workerMonitor_, maxMonitor_>>,
             NEW queue \in Seq(Tasks), NEW t \in Tasks, Len(queue) <= Len(tasks_),
             Enqueue(queue, t)
      PROVE  ClientStep
  <2>1. monitor_' \subseteq monitor_
    BY <1>2, NotifyShrinks, Zenon DEF Enqueue
  <2> QED
    BY <1>0, <1>2, <2>1, Zenon DEF ClientStep
<1>3. ASSUME NEW c \in Callers, Caller(c) PROVE ClientStep
  <2>1. UNCHANGED <<state_, poolVars, mutex_, workerPc, adminPc, workerMonitor_>>
    BY <1>3, Zenon DEF Caller, AddBlock, AddWakeup, AddTimeout, Remove, RemoveNextPending,
                SweepBegin, Sweep, SweepEnd, SweepPass, SweepCallback, SweepErase,
                SweepCount, SweepUnseen
  <2>2. ASSUME NEW t \in Tasks, NEW timeout \in Timeouts, AddBlock(c, t, timeout)
        PROVE  ClientStep
    <3>1. /\ fate[t] = "unused" /\ Accounted([fate EXCEPT ![t] = "blocked"])
          /\ tasks_' = WithRoomMade /\ UNCHANGED monitor_ /\ "blocked" \in Fates
          /\ maxMonitor_' \subseteq Callers
      BY <1>0, <2>2, Zenon DEF AddBlock, Fates
    <3>2. Len(WithRoomMade) <= Len(tasks_)
      BY <3>1, RoomMade, Zenon DEF NewTask
    <3> QED
      BY <1>1, <2>1, <3>1, <3>2, Zenon
  <2>3. CASE AddWakeup(c) /\ ~Full(tasks_)
    <3>1. callerTask[c] \in Tasks /\ Enqueue(tasks_, callerTask[c]) /\ UNCHANGED maxMonitor_
      BY <1>0, <2>3, Zenon DEF AddWakeup, Held, CallersHoldTasks
    <3>2. Len(tasks_) <= Len(tasks_)
      BY <1>0
    <3> QED
      BY <1>0, <1>2, <2>1, <3>1, <3>2, Zenon
  <2>4. CASE \/ (AddWakeup(c) /\ Full(tasks_)) \/ AddTimeout(c) \/ SweepBegin(c)
             \/ SweepEnd(c) \/ SweepPass(c) \/ SweepCallback(c) \/ SweepCount(c)
    <3>1. UNCHANGED <<tasks_, monitor_>> /\ maxMonitor_' \subseteq Callers
      BY <1>0, <2>4, Zenon DEF AddWakeup, AddTimeout, SweepBegin, SweepEnd, SweepPass,
                  SweepCallback, SweepCount, SweepUnseen
    <3>2. Len(tasks_') <= Len(tasks_)
      BY <1>0, <3>1
    <3> QED
      BY <1>1, <2>1, <3>1, <3>2, Zenon
  <2>5. CASE (\E r \in Runnables : Remove(c, r)) \/ RemoveNextPending(c) \/ SweepErase(c)
    <3>1. UNCHANGED <<monitor_, maxMonitor_>>
      BY <2>5, Zenon DEF Remove, RemoveNextPending, SweepErase, SweepUnseen
    <3>2. tasks_' = tasks_ \/ \E i \in 1..Len(tasks_) : tasks_' = Erase(tasks_, i)
      BY <1>0, <2>5, ErasingCalls, Zenon DEF TaskErased, SweepMoves
    <3>3. Len(tasks_') <= Len(tasks_)
      BY <1>0, <3>2, EraseProperties
    <3> QED
      BY <1>0, <1>1, <2>1, <3>1, <3>3, Zenon
  <2> QED
    BY <1>3, <2>2, <2>3, <2>4, <2>5, Zenon DEF Caller, Sweep
<1>4. ASSUME NEW th \in Workers \cup Callers, NEW t \in Tasks, Add(th, t) PROVE ClientStep
  <2>1. /\ fate[t] = "unused" /\ Accounted([fate EXCEPT ![t] = "pending"])
        /\ "pending" \in Fates /\ Enqueue(WithRoomMade, t)
        /\ UNCHANGED <<state_, poolVars, mutex_, workerPc, adminPc, workerMonitor_, maxMonitor_>>
    BY <1>4, Zenon DEF Add, Fates
  <2>2. WithRoomMade \in Seq(Tasks) /\ Len(WithRoomMade) <= Len(tasks_)
    BY <2>1, RoomMade, Zenon DEF NewTask
  <2> QED
    BY <1>2, <2>1, <2>2, Zenon
<1>5. CASE (\E t \in Tasks : Lapse(t)) \/ UNCHANGED vars
  <2>1. UNCHANGED <<state_, poolVars, mutex_, workerPc, adminPc, monitor_, workerMonitor_,
                    maxMonitor_, tasks_>>
    BY <1>5, Zenon DEF Lapse, vars
  <2> QED
    BY <1>0, <1>1, <2>1
<1>6. CASE Spurious
  <2>1. /\ UNCHANGED <<state_, poolVars, mutex_, workerPc, adminPc, tasks_>>
        /\ monitor_' \subseteq monitor_ /\ maxMonitor_' \subseteq maxMonitor_
        /\ workerMonitor_' \subseteq workerMonitor_
    BY <1>6, NotifyShrinks, Zenon DEF Spurious
  <2> QED
    BY <1>0, <2>1 DEF ClientStep
<1> QED
  BY <1>3, <1>4, <1>5, <1>6, Zenon

(* Every step is one of a worker, of a managing thread or of a client.     *)
LEMMA ThreeKinds ==
  ASSUME TaskInv, CountTypes, [Next]_vars
  PROVE  \/ \E w \in Workers : Worker(w)
         \/ \E a \in Admins : Admin(a) /\ ~UNCHANGED vars
         \/ ClientStep
  BY ClientsStep, Zenon DEF Next

(* A worker that starts or stops waiting changes the count by one.         *)
LEMMA CountWorker ==
  ASSUME TaskInv, CountInv, NEW w \in Workers, Worker(w)
  PROVE  CountInv'
<1> USE DEF CountInv, callerVars, workerVars, poolVars
<1>0. Waiting \in SUBSET Workers
  BY Zenon DEF Waiting
<1>1. ASSUME NEW pc \in WorkerPcs, pc # "wait", workerPc[w] # "wait",
             workerPc' = [workerPc EXCEPT ![w] = pc],
             UNCHANGED <<monitor_, idleCount_>>
      PROVE  IdleCountExact'
  <2>1. Waiting' = Waiting
    BY <1>1, Zenon DEF Waiting, CountTypes
  <2> QED
    BY <1>1, <2>1, Zenon DEF IdleCountExact
<1>2. CASE WorkerStart(w)
  <2>1. CountTypes'
    BY <1>2, NotifyShrinks DEF WorkerStart, CountTypes, SettledSignal, WorkerPcs
  <2>2. /\ \E pc \in {"loop", "leaving"} : workerPc' = [workerPc EXCEPT ![w] = pc]
        /\ UNCHANGED <<monitor_, idleCount_>> /\ workerPc[w] = "starting"
    BY <1>2, Zenon DEF WorkerStart
  <2> QED
    BY <1>1, <2>1, <2>2, Zenon DEF WorkerPcs
<1>3. CASE WorkerWait(w)
  <2>1. CountTypes'
    BY <1>3, ConstantsAssumption DEF WorkerWait, CountTypes, WorkerPcs
  <2>2. Waiting' = Waiting \cup {w} /\ w \notin Waiting
    BY <1>3, Zenon DEF WorkerWait, Waiting, CountTypes
  <2>3. Cardinality(Waiting') = Cardinality(Waiting) + 1
    BY <1>0, <2>2, WorkersFinite, Zenon
  <2> QED
    BY <1>3, <2>1, <2>2, <2>3, Zenon DEF WorkerWait, IdleCountExact
<1>4. CASE WorkerWakeup(w)
  <2>1. Waiting' = Waiting \ {w} /\ w \in Waiting
    BY <1>4, Zenon DEF WorkerWakeup, Waiting, CountTypes
  <2>2. Cardinality(Waiting') = Cardinality(Waiting) - 1 /\ Cardinality(Waiting') \in Nat
    BY <1>0, <2>1, WorkersFinite, Zenon
  <2>3. CountTypes'
    BY <1>4, <2>2, Zenon DEF WorkerWakeup, CountTypes, IdleCountExact, WorkerPcs
  <2> QED
    BY <1>4, <2>1, <2>2, <2>3, Zenon DEF WorkerWakeup, IdleCountExact
<1>5. CASE WorkerDequeue(w)
  <2>1. /\ UNCHANGED <<state_, poolVars, monitor_, workerMonitor_, adminPc>>
        /\ \/ UNCHANGED <<mutex_, workerPc>>
           \/ /\ mutex_' = NoThread
              /\ \E pc \in {"running", "expiring"} : workerPc' = [workerPc EXCEPT ![w] = pc]
        /\ workerPc[w] = "loop"
    BY <1>5, Zenon DEF WorkerDequeue
  <2>2. maxMonitor_' \subseteq maxMonitor_
    BY <1>5, NotifyShrinks, Zenon DEF WorkerDequeue, RoomSignal
  <2>3. CountTypes'
    BY <2>1, <2>2, Zenon DEF CountTypes, WorkerPcs
  <2>4. Waiting' = Waiting
    BY <2>1, Zenon DEF Waiting, CountTypes
  <2> QED
    BY <2>1, <2>3, <2>4, Zenon DEF IdleCountExact
<1>6. CASE WorkerTaskDone(w) \/ WorkerExpireDone(w) \/ WorkerInactive(w)
  <2>1. /\ UNCHANGED <<state_, poolVars, monitor_, maxMonitor_, workerMonitor_, adminPc>>
        /\ \E pc \in {"loop", "leaving"} : workerPc' = [workerPc EXCEPT ![w] = pc]
        /\ workerPc[w] # "wait" /\ (mutex_' = w \/ UNCHANGED mutex_)
    BY <1>6, Zenon DEF WorkerTaskDone, WorkerExpireDone, WorkerInactive
  <2>2. CountTypes'
    BY <2>1, Zenon DEF CountTypes, WorkerPcs
  <2> QED
    BY <1>1, <2>1, <2>2, Zenon DEF WorkerPcs
<1>7. CASE WorkerExit(w)
  <2>1. CountTypes'
    BY <1>7, NotifyShrinks, ConstantsAssumption
       DEF WorkerExit, CountTypes, Decremented, SettledSignal, WorkerPcs
  <2> QED
    BY <1>1, <1>7, <2>1, Zenon DEF WorkerExit, WorkerPcs
<1> QED
  BY <1>2, <1>3, <1>4, <1>5, <1>6, <1>7, Zenon DEF Worker

(* Joining dead threads changes nothing that is counted.                   *)
LEMMA ReapedCounts ==
  ASSUME workerPc \in [Workers -> WorkerPcs], workerPc' \in {workerPc, Reaped}
  PROVE  /\ workerPc' \in [Workers -> WorkerPcs]
         /\ \A w \in Workers : \A l \in WorkerPcs \ {"dead", "reaped"} :
               workerPc'[w] = l <=> workerPc[w] = l
  BY Zenon DEF Reaped, WorkerPcs

LEMMA CountAdmin ==
  ASSUME CountInv, NEW a \in Admins, Admin(a)
  PROVE  CountInv'
<1> USE DEF CountInv, callerVars, workerVars, poolVars
<1>0. workerPc \in [Workers -> WorkerPcs] /\ "wait" \in WorkerPcs \ {"dead", "reaped"}
  BY Zenon DEF CountTypes, WorkerPcs
<1>1. ASSUME workerPc' \in {workerPc, Reaped}, monitor_' \subseteq monitor_,
             UNCHANGED idleCount_
      PROVE  IdleCountExact' /\ workerPc' \in [Workers -> WorkerPcs]
  <2>1. workerPc' \in [Workers -> WorkerPcs] /\ Waiting' = Waiting
    BY <1>0, <1>1, ReapedCounts, ZenonT(30) DEF Waiting
  <2> QED
    BY <1>1, <2>1, Zenon DEF IdleCountExact
<1>2. CASE Start(a)
  <2>1. monitor_' \subseteq monitor_ /\ UNCHANGED <<workerPc, idleCount_>>
    BY <1>2, NotifyShrinks, Zenon DEF Start
  <2> QED
    BY <1>1, <1>2, <2>1, Zenon DEF Start, CountTypes
<1>3. ASSUME NEW value \in Nat, NEW call \in {"removeWorker", "stop"},
             value <= workerMaxCount_, removeWorkersUnderLock(a, value, call)
      PROVE  CountInv'
  <2>1. monitor_' \subseteq monitor_ /\ UNCHANGED <<workerCount_, idleCount_, mutex_, maxMonitor_>>
    BY <1>3, NotifyShrinks, Zenon DEF removeWorkersUnderLock
  <2>2. workerPc' \in {workerPc, Reaped}
    BY <1>3, Zenon DEF removeWorkersUnderLock
  <2>3. workerMaxCount_' \in Nat
    BY <1>3 DEF removeWorkersUnderLock, CountTypes
  <2>4. /\ state_' \in {"UNINITIALIZED", "STARTED", "JOINING", "STOPPED"}
        /\ adminPc' \in [Admins -> {"idle", "addWorker", "removeWorker", "stop"}]
        /\ workerMonitor_' \subseteq Admins
    BY <1>3, Zenon DEF removeWorkersUnderLock, CountTypes
  <2> QED
    BY <1>1, <2>1, <2>2, <2>3, <2>4, Zenon DEF CountTypes
<1>4. CASE Stop(a)
  <2>1. CASE workerCount_ <= workerMaxCount_ /\ removeWorkersUnderLock(a, workerCount_, "stop")
    BY <1>3, <2>1, Zenon DEF CountTypes
  <2>2. CASE /\ state_' \in {"JOINING", "STOPPED"}
             /\ UNCHANGED <<poolVars, mutex_, monitor_, maxMonitor_, workerMonitor_,
                            workerPc, adminPc>>
    BY <1>1, <2>2, Zenon DEF CountTypes
  <2> QED
    BY <1>4, <2>1, <2>2, Zenon DEF Stop
<1>5. ASSUME NEW value \in 1..Cardinality(Workers), RemoveWorker(a, value)
      PROVE  CountInv'
  <2>1. value \in Nat
    BY ConstantsAssumption, FS_CardinalityType
  <2> QED
    BY <1>3, <1>5, <2>1, Zenon DEF RemoveWorker
<1>6. ASSUME NEW new \in SUBSET Workers, AddWorker(a, new)
      PROVE  CountInv'
  <2>1. Cardinality(new) \in Nat
    BY WorkersFinite, Zenon
  <2>2. CountTypes'
    BY <1>6, <2>1 DEF AddWorker, CountTypes, WorkerPcs
  <2>3. Waiting' = Waiting
    BY <1>6, Zenon DEF AddWorker, Waiting, CountTypes
  <2> QED
    BY <1>6, <2>2, <2>3, Zenon DEF AddWorker, IdleCountExact
<1>7. CASE AdminWakeup(a)
  <2>1. /\ workerPc' \in {workerPc, Reaped}
        /\ UNCHANGED <<poolVars, mutex_, monitor_, maxMonitor_>>
    BY <1>7, Zenon DEF AdminWakeup
  <2>2. /\ state_' \in {"UNINITIALIZED", "STARTED", "JOINING", "STOPPED"}
        /\ adminPc' \in [Admins -> {"idle", "addWorker", "removeWorker", "stop"}]
        /\ workerMonitor_' \subseteq Admins
    BY <1>7, Zenon DEF AdminWakeup, CountTypes
  <2> QED
    BY <1>1, <2>1, <2>2, Zenon DEF CountTypes
<1> QED
  BY <1>2, <1>4, <1>5, <1>6, <1>7, ZenonT(30) DEF Admin

TypeInv == TaskInv /\ CountInv

LEMMA TypeNext == TypeInv /\ [Next]_vars => TypeInv'
<1> SUFFICES ASSUME TypeInv, [Next]_vars PROVE CountInv'
  BY TaskNext, Zenon DEF TypeInv
<1>1. TaskInv /\ CountInv /\ CountTypes
  BY Zenon DEF TypeInv, CountInv
<1>2. ASSUME ClientStep PROVE CountInv'
  BY <1>1, <1>2, Zenon DEF ClientStep, CountInv, CountTypes, IdleCountExact, Waiting, poolVars
<1> QED
  BY <1>1, <1>2, ThreeKinds, CountWorker, CountAdmin, Zenon

LEMMA TypeInvariant == Spec => []TypeInv
<1>1. Init => TypeInv
  BY TaskInit, CountInit, Zenon DEF TypeInv
<1> QED
  BY <1>1, TypeNext, PTL DEF Spec

(* Every variable of the pool keeps its type; in particular the unsigned   *)
(* idleCount_ never wraps and every queued object is a task.               *)
THEOREM TypeCorrect == Spec => []TypeOK
<1>1. CallerPcs = {"idle", "addForever", "addTimed", "sweep", "swept", "counting"}
  BY Zenon DEF CallerPcs, SweepPcs
<1>2. TypeInv => TypeOK
  BY <1>1, Zenon DEF TypeInv, TaskInv, CountInv, CountTypes, QueueTypes, SweepTypes, TypeOK,
                     Fates, WorkerPcs
<1> QED
  BY <1>2, TypeInvariant, PTL

-----------------------------------------------------------------------------
(* The workers, as long as the calls that change the limit take turns.     *)

(* No addWorker(), removeWorker() or stop() is in progress.                *)
Quiet == \A a \in Admins : adminPc[a] = "idle"

(* The limit is changed only then, as it is when one thread manages the    *)
(* pool; otherwise a worker may start when there is no place for it, and   *)
(* leave without having been counted.                                      *)
LimitInTurn == workerMaxCount_' # workerMaxCount_ => Quiet
InTurn == [][LimitInTurn]_vars

StartingWorkers == {w \in Workers : workerPc[w] = "starting"}

(* The mutex serialises the decisions of the workers; one that leaves is   *)
(* surplus; there is a place for every one that starts; and a call returns *)
(* when the count has reached the limit.                                   *)
WorkerInv ==
    /\ \A w \in Workers : workerPc[w] \in {"loop", "leaving"} => mutex_ = w
    /\ workerCount_ = Cardinality(Counted)
    /\ \A w \in Workers : workerPc[w] = "leaving" => workerCount_ > workerMaxCount_
    /\ StartingWorkers # {} =>
          workerCount_ + Cardinality(StartingWorkers) = workerMaxCount_
    /\ Quiet => workerCount_ = workerMaxCount_

LEMMA WorkerInit == Init => WorkerInv
<1> SUFFICES ASSUME Init PROVE WorkerInv
  BY Zenon
<1>1. Counted = {} /\ StartingWorkers = {}
  BY Zenon DEF Init, Counted, StartingWorkers
<1> QED
  BY <1>1, FS_EmptySet, Zenon DEF Init, WorkerInv

(* A step that leaves workers, mutex and counts alone.                     *)
LEMMA WorkerFrame ==
  ASSUME WorkerInv,
         UNCHANGED <<workerPc, mutex_, workerCount_, workerMaxCount_, adminPc>>
  PROVE  WorkerInv'
<1>1. Counted' = Counted /\ StartingWorkers' = StartingWorkers /\ (Quiet' <=> Quiet)
  BY Zenon DEF Counted, StartingWorkers, Quiet
<1> QED
  BY <1>1, Zenon DEF WorkerInv

(* A worker starts.                                                        *)
LEMMA WorkerStarts ==
  ASSUME CountTypes, WorkerInv, NEW w \in Workers, WorkerStart(w)
  PROVE  /\ WorkerInv' /\ workerCount_ < workerMaxCount_
         /\ workerCount_' = workerCount_ + 1
         /\ workerPc' = [workerPc EXCEPT ![w] = "loop"]
<1>1. w \in StartingWorkers /\ w \notin Counted
  BY Zenon DEF WorkerStart, StartingWorkers, Counted
<1>2. /\ StartingWorkers \in SUBSET Workers /\ Counted \in SUBSET Workers
      /\ workerCount_ \in Nat /\ workerMaxCount_ \in Nat
  BY Zenon DEF StartingWorkers, Counted, CountTypes
<1>3. /\ Cardinality(StartingWorkers) \in Nat /\ Cardinality(StartingWorkers) # 0
      /\ Cardinality(StartingWorkers \ {w}) = Cardinality(StartingWorkers) - 1
      /\ Cardinality(Counted \cup {w}) = Cardinality(Counted) + 1
  BY <1>1, <1>2, WorkersFinite, Zenon
<1>4. workerCount_ + Cardinality(StartingWorkers) = workerMaxCount_
  BY <1>1, Zenon DEF WorkerInv
<1>5. workerCount_ < workerMaxCount_
  BY <1>2, <1>3, <1>4
<1>6. /\ workerCount_' = workerCount_ + 1 /\ mutex_ = NoThread /\ mutex_' = w
      /\ workerPc' = [workerPc EXCEPT ![w] = "loop"]
      /\ UNCHANGED <<workerMaxCount_, adminPc>>
  BY <1>5, Zenon DEF WorkerStart, Unlocked
<1>7. Counted' = Counted \cup {w} /\ StartingWorkers' = StartingWorkers \ {w}
  BY <1>6, Zenon DEF Counted, StartingWorkers, CountTypes
<1>8. ~Quiet /\ ~Quiet'
  BY <1>2, <1>5, <1>6 DEF WorkerInv, Quiet
<1>9. \A v \in Workers \ {w} : workerPc'[v] = workerPc[v]
                               /\ workerPc[v] \notin {"loop", "leaving"}
  BY <1>6, ConstantsAssumption, Zenon DEF WorkerInv, CountTypes
<1>10. workerCount_' = Cardinality(Counted')
  BY <1>3, <1>6, <1>7, Zenon DEF WorkerInv
<1>11. workerCount_' + Cardinality(StartingWorkers') = workerMaxCount_'
  BY <1>2, <1>3, <1>4, <1>6, <1>7
<1>12. workerPc'[w] = "loop"
  BY <1>6, Zenon DEF CountTypes
<1>13. \A v \in Workers : /\ workerPc'[v] \in {"loop", "leaving"} => mutex_' = v
                          /\ workerPc'[v] # "leaving"
  BY <1>6, <1>9, <1>12, Zenon
<1> QED
  BY <1>5, <1>6, <1>8, <1>10, <1>11, <1>13, Zenon DEF WorkerInv

(* A worker ends.                                                          *)
LEMMA WorkerEnds ==
  ASSUME CountTypes, WorkerInv, NEW w \in Workers, WorkerExit(w)
  PROVE  WorkerInv' /\ workerCount_ > workerMaxCount_ /\ workerCount_' = workerCount_ - 1
<1>1. w \in Counted /\ mutex_ = w /\ workerCount_ > workerMaxCount_
  BY Zenon DEF WorkerExit, Counted, WorkerInv
<1>2. /\ StartingWorkers \in SUBSET Workers /\ Counted \in SUBSET Workers
      /\ workerCount_ \in Nat /\ workerMaxCount_ \in Nat
  BY Zenon DEF StartingWorkers, Counted, CountTypes
<1>3. /\ Cardinality(StartingWorkers) \in Nat
      /\ Cardinality(Counted \ {w}) = Cardinality(Counted) - 1
  BY <1>1, <1>2, WorkersFinite, Zenon
<1>4. StartingWorkers = {}
  BY <1>1, <1>2, <1>3 DEF WorkerInv
<1>5. /\ workerCount_' = workerCount_ - 1 /\ mutex_' = NoThread
      /\ workerPc' = [workerPc EXCEPT ![w] = "dead"]
      /\ UNCHANGED <<workerMaxCount_, adminPc>>
  BY <1>1, <1>2 DEF WorkerExit, Decremented
<1>6. Counted' = Counted \ {w} /\ StartingWorkers' = StartingWorkers
  BY <1>5, Zenon DEF Counted, StartingWorkers, CountTypes, WorkerExit
<1>7. ~Quiet /\ ~Quiet'
  BY <1>1, <1>2, <1>5, SMTT(30) DEF WorkerInv, Quiet
<1>8. \A v \in Workers \ {w} : workerPc'[v] = workerPc[v]
                               /\ workerPc[v] \notin {"loop", "leaving"}
  BY <1>1, <1>5, Zenon DEF WorkerInv, CountTypes
<1> QED
  BY <1>1, <1>2, <1>3, <1>4, <1>5, <1>6, <1>7, <1>8, Zenon DEF WorkerInv, CountTypes

(* A worker that is in the pool and stays there.                           *)
LEMMA WorkerMoves ==
  ASSUME CountTypes, WorkerInv, NEW w \in Workers, w \in Counted,
         NEW pc \in {"loop", "wait", "running", "expiring", "leaving"},
         workerPc' = [workerPc EXCEPT ![w] = pc],
         mutex_ \in {NoThread, w}, pc \in {"loop", "leaving"} => mutex_' = w,
         pc = "leaving" => workerCount_ > workerMaxCount_,
         UNCHANGED <<workerCount_, workerMaxCount_, adminPc>>
  PROVE  WorkerInv'
<1>1. Counted' = Counted /\ StartingWorkers' = StartingWorkers /\ (Quiet' <=> Quiet)
  BY Zenon DEF Counted, StartingWorkers, Quiet, CountTypes
<1>2. \A v \in Workers \ {w} : workerPc'[v] = workerPc[v]
                               /\ workerPc[v] \notin {"loop", "leaving"}
  BY ConstantsAssumption, Zenon DEF WorkerInv, CountTypes
<1> QED
  BY <1>1, <1>2, Zenon DEF WorkerInv, CountTypes

LEMMA WorkerWorker ==
  ASSUME CountTypes, WorkerInv, NEW w \in Workers, Worker(w)
  PROVE  WorkerInv'
<1> USE DEF callerVars, workerVars, poolVars
<1>1. CASE WorkerWait(w)
  BY <1>1, WorkerMoves, Zenon DEF WorkerWait, Counted, WorkerInv
<1>2. CASE WorkerWakeup(w)
  BY <1>2, WorkerMoves, Zenon DEF WorkerWakeup, Unlocked, Counted
<1>3. CASE WorkerDequeue(w)
  <2>1. workerPc[w] = "loop" /\ mutex_ = w /\ w \in Counted
    BY <1>3, Zenon DEF WorkerDequeue, WorkerInv, Counted
  <2>2. UNCHANGED <<workerCount_, workerMaxCount_, adminPc>>
    BY <1>3, Zenon DEF WorkerDequeue
  <2>3. CASE UNCHANGED <<mutex_, workerPc>>
    BY <2>2, <2>3, WorkerFrame, Zenon
  <2>4. CASE ~UNCHANGED <<mutex_, workerPc>>
    <3>1. \E pc \in {"expiring", "running"} : workerPc' = [workerPc EXCEPT ![w] = pc]
      BY <1>3, <2>4, Zenon DEF WorkerDequeue
    <3> QED
      BY <2>1, <2>2, <3>1, WorkerMoves, Zenon
  <2> QED
    BY <2>3, <2>4, Zenon
<1>4. CASE WorkerTaskDone(w)
  BY <1>4, WorkerMoves, Zenon DEF WorkerTaskDone, Unlocked, Counted
<1>5. CASE WorkerExpireDone(w)
  BY <1>5, WorkerMoves, Zenon DEF WorkerExpireDone, Unlocked, Counted
<1>6. CASE WorkerInactive(w)
  <2>1. mutex_ = w /\ w \in Counted /\ workerCount_ > workerMaxCount_
    BY <1>6 DEF WorkerInactive, WorkerInv, Counted, isActive, CountTypes
  <2> QED
    BY <1>6, <2>1, WorkerMoves, Zenon DEF WorkerInactive
<1> QED
  BY <1>1, <1>2, <1>3, <1>4, <1>5, <1>6, WorkerStarts, WorkerEnds, ZenonT(30) DEF Worker

(* Nobody starts when the limit changes.                                   *)
LEMMA QuietLimit ==
  ASSUME CountTypes, WorkerInv, Quiet
  PROVE  StartingWorkers = {} /\ workerCount_ = workerMaxCount_
<1>1. StartingWorkers \in SUBSET Workers /\ workerCount_ \in Nat
  BY Zenon DEF StartingWorkers, CountTypes
<1>2. Cardinality(StartingWorkers) \in Nat /\ (Cardinality(StartingWorkers) = 0 => StartingWorkers = {})
  BY <1>1, WorkersFinite, Zenon
<1> QED
  BY <1>1, <1>2 DEF WorkerInv

LEMMA ReapedWorkers ==
  ASSUME CountTypes, workerPc' \in {workerPc, Reaped}
  PROVE  /\ Counted' = Counted /\ StartingWorkers' = StartingWorkers
         /\ \A w \in Workers : \A l \in {"loop", "leaving", "wait"} :
               workerPc'[w] = l <=> workerPc[w] = l
  BY Zenon DEF Counted, StartingWorkers, Reaped, CountTypes

LEMMA WorkerRemoval ==
  ASSUME CountTypes, WorkerInv, NEW a \in Admins, mutex_ = NoThread,
         NEW value \in Nat, value <= workerMaxCount_, value = 0 \/ Quiet,
         NEW call \in {"removeWorker", "stop"}, removeWorkersUnderLock(a, value, call)
  PROVE  WorkerInv'
<1>1. workerCount_ \in Nat /\ workerMaxCount_ \in Nat /\ workerMaxCount_' = workerMaxCount_ - value
  BY Zenon DEF CountTypes, removeWorkersUnderLock
<1>2. workerPc' \in {workerPc, Reaped} /\ UNCHANGED <<workerCount_, mutex_>>
  BY Zenon DEF removeWorkersUnderLock
<1>3. /\ Counted' = Counted /\ StartingWorkers' = StartingWorkers
      /\ \A w \in Workers : workerPc'[w] \notin {"loop", "leaving"}
  BY <1>2, ReapedWorkers, ConstantsAssumption, Zenon DEF WorkerInv
<1>4. Quiet' => workerCount_' = workerMaxCount_'
  BY <1>2, Zenon DEF removeWorkersUnderLock, Quiet, CountTypes
<1>5. StartingWorkers # {} => value = 0
  BY QuietLimit, Zenon
<1> QED
  BY <1>1, <1>2, <1>3, <1>4, <1>5 DEF WorkerInv

LEMMA WorkerAdmin ==
  ASSUME CountTypes, WorkerInv, NEW a \in Admins, Admin(a), LimitInTurn
  PROVE  WorkerInv'
<1> USE DEF callerVars, workerVars, poolVars
<1>1. CASE Start(a)
  BY <1>1, WorkerFrame, Zenon DEF Start
<1>2. CASE Stop(a)
  <2>1. CASE /\ workerCount_ <= workerMaxCount_
             /\ removeWorkersUnderLock(a, workerCount_, "stop")
    <3>1. workerCount_ = 0 \/ Quiet
      BY <2>1 DEF removeWorkersUnderLock, LimitInTurn, CountTypes
    <3> QED
      BY <1>2, <2>1, <3>1, WorkerRemoval, Zenon DEF Stop, Unlocked, CountTypes
  <2>2. CASE UNCHANGED <<poolVars, mutex_, workerVars, adminPc>>
    BY <2>2, WorkerFrame, Zenon
  <2> QED
    BY <1>2, <2>1, <2>2, Zenon DEF Stop
<1>3. ASSUME NEW value \in 1..Cardinality(Workers), RemoveWorker(a, value)
      PROVE  WorkerInv'
  <2>1. value \in Nat /\ value # 0
    BY ConstantsAssumption, FS_CardinalityType
  <2>2. Quiet
    BY <1>3, <2>1 DEF RemoveWorker, removeWorkersUnderLock, LimitInTurn, CountTypes
  <2> QED
    BY <1>3, <2>1, <2>2, WorkerRemoval, ZenonT(30) DEF RemoveWorker, Unlocked
<1>4. ASSUME NEW new \in SUBSET Workers, AddWorker(a, new)
      PROVE  WorkerInv'
  <2>1. new # {} /\ Cardinality(new) \in Nat /\ Cardinality(new) # 0
    BY <1>4, WorkersFinite, Zenon DEF AddWorker
  <2>2. workerMaxCount_' = workerMaxCount_ + Cardinality(new) /\ workerMaxCount_ \in Nat
    BY <1>4, Zenon DEF AddWorker, CountTypes
  <2>3. Quiet /\ StartingWorkers = {} /\ workerCount_ = workerMaxCount_
    BY <2>1, <2>2, QuietLimit, SMTT(30) DEF LimitInTurn
  <2>4. StartingWorkers' = new /\ Counted' = Counted
    BY <1>4, <2>3, Zenon DEF AddWorker, StartingWorkers, Counted, CountTypes
  <2>5. \A w \in Workers : workerPc'[w] \notin {"loop", "leaving"}
    BY <1>4, ConstantsAssumption, Zenon DEF AddWorker, Unlocked, WorkerInv, CountTypes
  <2>6. UNCHANGED <<workerCount_, mutex_>> /\ ~Quiet'
    BY <1>4, <2>1, <2>2, <2>3, SMTT(30) DEF AddWorker, Quiet, CountTypes
  <2> QED
    BY <2>1, <2>2, <2>3, <2>4, <2>5, <2>6, ZenonT(30) DEF WorkerInv
<1>5. CASE AdminWakeup(a)
  <2>1. workerPc' \in {workerPc, Reaped} /\ UNCHANGED <<workerCount_, workerMaxCount_, mutex_>>
    BY <1>5, Zenon DEF AdminWakeup
  <2>2. Counted' = Counted /\ StartingWorkers' = StartingWorkers
    BY <2>1, ReapedWorkers, Zenon
  <2>3. \A w \in Workers : workerPc'[w] \notin {"loop", "leaving"}
    BY <1>5, <2>1, ReapedWorkers, ConstantsAssumption, ZenonT(30) DEF AdminWakeup, Unlocked, WorkerInv
  <2>4. Quiet' => workerCount_ = workerMaxCount_
    BY <1>5, Zenon DEF AdminWakeup, Settled, Quiet, WorkerInv
  <2> QED
    BY <2>1, <2>2, <2>3, <2>4, Zenon DEF WorkerInv
<1> QED
  BY <1>1, <1>2, <1>3, <1>4, <1>5, Zenon DEF Admin

LEMMA WorkerNext ==
  TypeInv /\ WorkerInv /\ [Next]_vars /\ [LimitInTurn]_vars => WorkerInv'
<1> SUFFICES ASSUME TypeInv, WorkerInv, [Next]_vars, [LimitInTurn]_vars PROVE WorkerInv'
  BY Zenon
<1>1. TaskInv /\ CountTypes
  BY Zenon DEF TypeInv, CountInv
<1>2. ASSUME NEW a \in Admins, Admin(a), ~UNCHANGED vars PROVE WorkerInv'
  BY <1>1, <1>2, WorkerAdmin, Zenon
<1>3. ASSUME ClientStep PROVE WorkerInv'
  BY <1>3, WorkerFrame, Zenon DEF ClientStep, poolVars
<1> QED
  BY <1>1, <1>2, <1>3, ThreeKinds, WorkerWorker, ZenonT(30)

-----------------------------------------------------------------------------
(* The wakeups of the workers.                                             *)

(* Awake workers, pending tasks and surplus workers are counted.           *)
LEMMA AlertTypes ==
  ASSUME TypeInv
  PROVE  /\ Alert \in SUBSET Workers /\ IsFiniteSet(Alert) /\ Cardinality(Alert) \in Nat
         /\ Len(tasks_) \in Nat /\ Surplus \in Nat
<1>1. Alert \in SUBSET Workers
  BY Zenon DEF Alert
<1> QED
  BY <1>1, WorkersFinite DEF TypeInv, TaskInv, QueueTypes, CountInv, CountTypes, Surplus

LEMMA SurplusNext ==
  ASSUME TypeInv'
  PROVE  Surplus' \in Nat
<1>1. PICK count \in Nat, limit \in Nat : count = workerCount_' /\ limit = workerMaxCount_'
  BY Zenon DEF TypeInv, CountInv, CountTypes
<1>2. Surplus' = IF count > limit THEN count - limit ELSE 0
  BY <1>1, Zenon DEF Surplus
<1> QED
  BY <1>2

(* More workers awake and no more work.                                    *)
LEMMA AlertMore ==
  ASSUME TypeInv, TypeInv', NoSleepWhileWork, monitor_' # {} => monitor_ # {},
         Alert \subseteq Alert', Len(tasks_') <= Len(tasks_), Surplus' <= Surplus
  PROVE  NoSleepWhileWork'
<1>1. /\ Alert' \in SUBSET Workers /\ Cardinality(Alert') \in Nat
      /\ Len(tasks_') \in Nat /\ Surplus' \in Nat
  <2>1. Alert' \in SUBSET Workers
    BY Zenon DEF Alert
  <2>2. tasks_' \in Seq(Tasks)
    BY Zenon DEF TypeInv, TaskInv, QueueTypes
  <2>3. Len(tasks_') \in Nat
    BY <2>2
  <2> QED
    BY <2>1, <2>3, SurplusNext, WorkersFinite, Zenon
<1>2. IsFiniteSet(Alert')
  BY <1>1, WorkersFinite, Zenon
<1>3. Cardinality(Alert) <= Cardinality(Alert')
  BY <1>2, FS_Subset, Zenon
<1> QED
  BY <1>1, <1>3, AlertTypes DEF NoSleepWhileWork

(* A worker that sleeps is counted as idle.                                *)
LEMMA SleepersIdle ==
  ASSUME TypeInv, monitor_ # {}
  PROVE  idleCount_ > 0
<1>1. monitor_ \subseteq Waiting /\ idleCount_ = Cardinality(Waiting) /\ Waiting # {}
  BY Zenon DEF TypeInv, CountInv, IdleCountExact
<1>2. Waiting \in SUBSET Workers
  BY Zenon DEF Waiting
<1> QED
  BY <1>1, <1>2, WorkersFinite

(* add() wakes a worker for the task it queues.                            *)
LEMMA AlertEnqueue ==
  ASSUME TypeInv, TypeInv', NoSleepWhileWork, NEW queue \in Seq(Tasks), NEW t \in Tasks,
         Len(queue) <= Len(tasks_), Enqueue(queue, t),
         UNCHANGED <<workerPc, workerCount_, workerMaxCount_>>
  PROVE  NoSleepWhileWork'
<1>0. CountTypes /\ tasks_ \in Seq(Tasks)
  BY Zenon DEF TypeInv, CountInv, TaskInv, QueueTypes
<1>1. CASE monitor_' = {}
  BY <1>1, Zenon DEF NoSleepWhileWork
<1>2. CASE monitor_' # {}
  <2>1. monitor_ # {}
    BY <1>2, SMT, Zenon DEF Enqueue, Notify
  <2>2. PICK th \in monitor_ : monitor_' = monitor_ \ {th}
    BY <2>1, SleepersIdle, Zenon DEF Enqueue, Notify
  <2>3. th \in Workers /\ workerPc[th] = "wait"
    BY <2>2, Zenon DEF TypeInv, CountInv, IdleCountExact, Waiting
  <2>4. Alert' = Alert \cup {th} /\ th \notin Alert
    BY <2>2, <2>3, Zenon DEF Alert
  <2>5. Cardinality(Alert') = Cardinality(Alert) + 1
    BY <1>0, <2>3, <2>4, AlertTypes, WorkersFinite, Zenon
  <2>6. Len(tasks_') = Len(queue) + 1 /\ Len(queue) \in Nat
    BY DEF Enqueue
  <2>7. Surplus' = Surplus
    BY Zenon DEF Surplus
  <2> QED
    BY <1>0, <2>1, <2>5, <2>6, <2>7, AlertTypes, SMTT(30) DEF NoSleepWhileWork
<1> QED
  BY <1>1, <1>2, Zenon

(* removeWorkersUnderLock wakes a worker for each one that is to go, or    *)
(* all of them.                                                            *)
LEMMA AlertRemoval ==
  ASSUME TypeInv, TypeInv', NoSleepWhileWork, NEW a \in Admins,
         NEW value \in Nat, value <= workerMaxCount_,
         NEW call, removeWorkersUnderLock(a, value, call)
  PROVE  NoSleepWhileWork'
<1>0. CountTypes /\ tasks_ \in Seq(Tasks)
  BY Zenon DEF TypeInv, CountInv, TaskInv, QueueTypes
<1>1. CASE monitor_' = {}
  BY <1>1, Zenon DEF NoSleepWhileWork
<1>2. CASE monitor_' # {}
  <2> DEFINE woken == monitor_ \ monitor_'
  <2>1. monitor_' \in NotifyTimes(monitor_, value)
    BY <1>2, Zenon DEF removeWorkersUnderLock, NotifyAll
  <2>2. /\ monitor_' \subseteq monitor_ /\ monitor_ \in SUBSET Workers
        /\ Cardinality(woken) = IF value < Cardinality(monitor_) THEN value
                                ELSE Cardinality(monitor_)
    BY <1>0, <2>1, Zenon DEF NotifyTimes, CountTypes
  <2>3. woken \in SUBSET monitor_ /\ woken # monitor_
    BY <1>2, <2>2, Zenon
  <2>4. IsFiniteSet(monitor_) /\ IsFiniteSet(woken)
    BY <2>2, <2>3, WorkersFinite, FS_Subset, ZenonT(30)
  <2>5. Cardinality(woken) # Cardinality(monitor_)
    BY <2>3, <2>4, FS_Subset, Zenon
  <2>6. Cardinality(woken) = value
    BY <2>2, <2>5, Zenon
  <2>7. workerPc' \in {workerPc, Reaped}
    BY Zenon DEF removeWorkersUnderLock
  <2>8. \A w \in Workers : \A l \in {"loop", "leaving", "wait"} :
           workerPc'[w] = l <=> workerPc[w] = l
    BY <1>0, <2>7, ReapedWorkers, ZenonT(30)
  <2>9. \A w \in monitor_ : w \in Workers /\ workerPc[w] = "wait"
    BY Zenon DEF TypeInv, CountInv, IdleCountExact, Waiting
  <2>10. Alert' = Alert \cup woken /\ Alert \cap woken = {}
    BY <2>2, <2>8, <2>9, Zenon DEF Alert
  <2> HIDE DEF woken
  <2>11. Cardinality(Alert') = Cardinality(Alert) + value
    <3>1. Cardinality(Alert \cup woken) = Cardinality(Alert) + Cardinality(woken)
                                             - Cardinality(Alert \cap woken)
      BY <1>0, <2>4, AlertTypes, FS_Union, Zenon
    <3>2. Cardinality(Alert \cap woken) = 0
      BY <2>10, FS_EmptySet, Zenon
    <3> QED
      BY <1>0, <2>6, <2>10, <3>1, <3>2, AlertTypes, SMTT(30)
  <2>12. Surplus' \in Nat /\ Surplus' <= Surplus + value /\ tasks_' = tasks_
    BY <1>0 DEF Surplus, CountTypes, removeWorkersUnderLock
  <2>13. monitor_ # {}
    BY <1>2, <2>2, Zenon
  <2> QED
    BY <1>0, <2>11, <2>12, <2>13, AlertTypes, SMTT(30) DEF NoSleepWhileWork
<1> QED
  BY <1>1, <1>2, Zenon

LEMMA AlertWorker ==
  ASSUME TypeInv, TypeInv', WorkerInv, NoSleepWhileWork, NEW w \in Workers, Worker(w)
  PROVE  NoSleepWhileWork'
<1> USE DEF callerVars, workerVars, poolVars
<1>0. CountTypes /\ tasks_ \in Seq(Tasks)
  BY Zenon DEF TypeInv, CountInv, TaskInv, QueueTypes
<1>1. CASE WorkerStart(w)
  <2>1. /\ workerCount_ < workerMaxCount_ /\ workerCount_' = workerCount_ + 1
        /\ workerPc' = [workerPc EXCEPT ![w] = "loop"]
    BY <1>0, <1>1, WorkerStarts, Zenon
  <2>2. UNCHANGED <<workerMaxCount_, tasks_, monitor_>>
    BY <1>1, Zenon DEF WorkerStart
  <2>3. Surplus' <= Surplus
    BY <1>0, <2>1, <2>2 DEF Surplus, CountTypes
  <2>4. Alert \subseteq Alert' /\ Len(tasks_') <= Len(tasks_)
    BY <1>0, <2>1, <2>2 DEF Alert, CountTypes
  <2> QED
    BY <1>0, <2>2, <2>3, <2>4, AlertMore, Zenon
<1>2. CASE WorkerWait(w)
  <2>1. Len(tasks_') = 0 /\ Surplus' = 0
    BY <1>0, <1>2 DEF WorkerWait, isActive, Surplus, CountTypes
  <2>2. Alert' \in SUBSET Workers
    BY Zenon DEF Alert
  <2> QED
    BY <2>1, <2>2, WorkersFinite DEF NoSleepWhileWork
<1>3. CASE WorkerDequeue(w)
  <2>1. /\ workerPc[w] = "loop" /\ UNCHANGED <<workerCount_, workerMaxCount_, monitor_>>
        /\ Len(tasks_') = Len(tasks_) - 1
    BY <1>0, <1>3 DEF WorkerDequeue, CountTypes
  <2>2. \A v \in Workers \ {w} : workerPc'[v] = workerPc[v]
    BY <1>0, <1>3, Zenon DEF WorkerDequeue, CountTypes
  <2>3. Alert' \in {Alert, Alert \ {w}} /\ w \in Alert
    BY <2>1, <2>2, Zenon DEF Alert
  <2>4. Cardinality(Alert') >= Cardinality(Alert) - 1
    BY <1>0, <2>3, AlertTypes, WorkersFinite, SMTT(30)
  <2>5. Cardinality(Alert') \in Nat /\ Surplus' = Surplus
    BY <1>0, <2>1, <2>3, AlertTypes, WorkersFinite, Zenon DEF Surplus
  <2> QED
    BY <1>0, <2>1, <2>4, <2>5, AlertTypes, SMTT(30) DEF NoSleepWhileWork
<1>4. CASE WorkerExit(w)
  <2>1. workerCount_ > workerMaxCount_ /\ workerCount_' = workerCount_ - 1
    BY <1>0, <1>4, WorkerEnds, Zenon
  <2>2. /\ workerPc[w] = "leaving" /\ workerPc' = [workerPc EXCEPT ![w] = "dead"]
        /\ UNCHANGED <<workerMaxCount_, monitor_, tasks_>>
    BY <1>4, Zenon DEF WorkerExit
  <2>3. Alert' = Alert \ {w} /\ w \in Alert
    BY <1>0, <2>2, Zenon DEF Alert, CountTypes
  <2>4. Cardinality(Alert') = Cardinality(Alert) - 1
    BY <1>0, <2>3, AlertTypes, WorkersFinite, Zenon
  <2>5. Surplus' = Surplus - 1
    BY <1>0, <2>1, <2>2 DEF Surplus, CountTypes
  <2> QED
    BY <1>0, <2>2, <2>4, <2>5, AlertTypes DEF NoSleepWhileWork
<1>5. CASE WorkerWakeup(w) \/ WorkerTaskDone(w) \/ WorkerExpireDone(w) \/ WorkerInactive(w)
  <2>1. /\ UNCHANGED <<workerCount_, workerMaxCount_, tasks_, monitor_>>
        /\ \/ workerPc' = [workerPc EXCEPT ![w] = "loop"]
           \/ workerPc' = [workerPc EXCEPT ![w] = "leaving"]
    BY <1>5, Zenon DEF WorkerWakeup, WorkerTaskDone, WorkerExpireDone, WorkerInactive
  <2>2. Alert \subseteq Alert'
    BY <1>0, <2>1, Zenon DEF Alert, CountTypes
  <2>3. Surplus' <= Surplus /\ Len(tasks_') <= Len(tasks_)
    BY <1>0, <2>1, SMTT(30) DEF Surplus, CountTypes
  <2> QED
    BY <1>0, <2>1, <2>2, <2>3, AlertMore, Zenon
<1> QED
  BY <1>1, <1>2, <1>3, <1>4, <1>5, ZenonT(30) DEF Worker

LEMMA AlertAdmin ==
  ASSUME TypeInv, TypeInv', NoSleepWhileWork, NEW a \in Admins, Admin(a)
  PROVE  NoSleepWhileWork'
<1> USE DEF callerVars, workerVars, poolVars
<1>0. CountTypes /\ tasks_ \in Seq(Tasks)
  BY Zenon DEF TypeInv, CountInv, TaskInv, QueueTypes
<1>1. CASE Start(a)
  BY <1>1, Zenon DEF Start, NotifyAll, NoSleepWhileWork
<1>2. CASE Stop(a)
  <2>1. CASE workerCount_ <= workerMaxCount_ /\ removeWorkersUnderLock(a, workerCount_, "stop")
    BY <1>0, <2>1, AlertRemoval, Zenon DEF CountTypes
  <2>2. CASE UNCHANGED <<poolVars, tasks_, monitor_, workerPc>>
    BY <2>2, Zenon DEF NoSleepWhileWork, Alert, Surplus
  <2> QED
    BY <1>2, <2>1, <2>2, Zenon DEF Stop
<1>3. ASSUME NEW value \in 1..Cardinality(Workers), RemoveWorker(a, value)
      PROVE  NoSleepWhileWork'
  <2>1. value \in Nat
    BY ConstantsAssumption, FS_CardinalityType
  <2> QED
    BY <1>3, <2>1, AlertRemoval, Zenon DEF RemoveWorker
<1>4. ASSUME NEW new \in SUBSET Workers, AddWorker(a, new)
      PROVE  NoSleepWhileWork'
  <2>1. Cardinality(new) \in Nat
    BY WorkersFinite, Zenon
  <2>2. /\ workerMaxCount_' = workerMaxCount_ + Cardinality(new)
        /\ UNCHANGED <<workerCount_, tasks_, monitor_>>
    BY <1>4, Zenon DEF AddWorker
  <2>3. Surplus' <= Surplus /\ Len(tasks_') <= Len(tasks_)
    BY <1>0, <2>1, <2>2 DEF Surplus, CountTypes
  <2>4. Alert \subseteq Alert'
    BY <1>4, Zenon DEF AddWorker, Alert
  <2> QED
    BY <1>0, <2>2, <2>3, <2>4, AlertMore, Zenon
<1>5. CASE AdminWakeup(a)
  <2>1. /\ workerPc' \in {workerPc, Reaped}
        /\ UNCHANGED <<workerCount_, workerMaxCount_, tasks_, monitor_>>
    BY <1>5, Zenon DEF AdminWakeup
  <2>2. Alert' = Alert
    BY <1>0, <2>1, ReapedWorkers, Zenon DEF Alert
  <2> QED
    BY <2>1, <2>2, Zenon DEF NoSleepWhileWork, Surplus
<1> QED
  BY <1>1, <1>2, <1>3, <1>4, <1>5, Zenon DEF Admin

LEMMA AlertNext ==
  TypeInv /\ WorkerInv /\ NoSleepWhileWork /\ [Next]_vars => NoSleepWhileWork'
<1> SUFFICES ASSUME TypeInv, WorkerInv, NoSleepWhileWork, [Next]_vars PROVE NoSleepWhileWork'
  BY Zenon
<1>0. TypeInv' /\ TaskInv /\ CountTypes
  BY TypeNext, Zenon DEF TypeInv, CountInv
<1>1. ASSUME ClientStep PROVE NoSleepWhileWork'
  <2>1. /\ UNCHANGED <<workerPc, workerCount_, workerMaxCount_>>
        /\ monitor_' \subseteq monitor_
    BY <1>1, Zenon DEF ClientStep, poolVars
  <2>2. CASE Len(tasks_') <= Len(tasks_)
    <3>1. Alert \subseteq Alert' /\ Surplus' = Surplus
      BY <2>1, Zenon DEF Alert, Surplus
    <3>2. Surplus' <= Surplus
      BY <3>1, AlertTypes
    <3> QED
      BY <1>0, <2>1, <2>2, <3>1, <3>2, AlertMore, Zenon
  <2>3. CASE \E queue \in Seq(Tasks), t \in Tasks :
                Len(queue) <= Len(tasks_) /\ Enqueue(queue, t)
    BY <1>0, <2>1, <2>3, AlertEnqueue, Zenon
  <2> QED
    BY <1>1, <2>2, <2>3, Zenon DEF ClientStep
<1> QED
  BY <1>0, <1>1, ThreeKinds, AlertWorker, AlertAdmin, Zenon

(* No wakeup of a worker is lost, however many threads add, remove and     *)
(* sweep tasks, as long as the calls that change the limit take turns: a   *)
(* worker sleeps only while enough others are awake for every pending task *)
(* and every worker that has to leave.                                     *)
THEOREM WorkersAreWoken == Spec /\ InTurn => []NoSleepWhileWork
<1>1. Init => NoSleepWhileWork
  BY Zenon DEF Init, NoSleepWhileWork
<1> DEFINE IInv == TypeInv /\ WorkerInv /\ NoSleepWhileWork
<1>2. IInv /\ [Next]_vars /\ [LimitInTurn]_vars => IInv'
  BY TypeNext, WorkerNext, AlertNext, Zenon
<1>3. Init => IInv
  BY <1>1, TaskInit, CountInit, WorkerInit, Zenon DEF TypeInv
<1> QED
  BY <1>2, <1>3, PTL DEF Spec, InTurn

-----------------------------------------------------------------------------
(* The count of expired tasks.                                             *)

ExpiringWorkers == {w \in Workers : workerPc[w] = "expiring"}
CountingCallers == {c \in Callers : callerPc[c] = "counting"}
ExpiredTasks == {t \in Tasks : fate[t] = "expired"}

ExpiredExact ==
    expiredCount_ + Cardinality(ExpiringWorkers) + Cardinality(CountingCallers)
      = Cardinality(ExpiredTasks)

LEMMA ExpiredTypes ==
  /\ IsFiniteSet(ExpiredTasks) /\ Cardinality(ExpiredTasks) \in Nat
  /\ ExpiringWorkers \in SUBSET Workers /\ Cardinality(ExpiringWorkers) \in Nat
  /\ IsFiniteSet(CountingCallers) /\ Cardinality(CountingCallers) \in Nat
<1>1. /\ ExpiredTasks \in SUBSET Tasks /\ ExpiringWorkers \in SUBSET Workers
      /\ CountingCallers \in SUBSET Callers
  BY Zenon DEF ExpiredTasks, ExpiringWorkers, CountingCallers
<1>2. IsFiniteSet(ExpiredTasks) /\ IsFiniteSet(CountingCallers)
  BY <1>1, ConstantsAssumption, FS_Subset, Zenon
<1> QED
  BY <1>1, <1>2, FS_CardinalityType, WorkersFinite, Zenon

(* Nothing expires.                                                        *)
LEMMA NothingExpires ==
  ASSUME ExpiredExact, UNCHANGED expiredCount_,
         \A w \in Workers : workerPc'[w] = "expiring" <=> workerPc[w] = "expiring",
         \A c \in Callers : callerPc'[c] = "counting" <=> callerPc[c] = "counting",
         \A t \in Tasks : fate'[t] = "expired" <=> fate[t] = "expired"
  PROVE  ExpiredExact'
<1>1. /\ ExpiringWorkers' = ExpiringWorkers /\ CountingCallers' = CountingCallers
      /\ ExpiredTasks' = ExpiredTasks
  BY Zenon DEF ExpiringWorkers, CountingCallers, ExpiredTasks
<1> QED
  BY <1>1, Zenon DEF ExpiredExact

(* add() drops the task x.                                                 *)
LEMMA ClientExpires ==
  ASSUME ExpiredExact, expiredCount_ \in Nat, expiredCount_' = expiredCount_ + 1,
         UNCHANGED workerPc,
         \A c \in Callers : callerPc'[c] = "counting" <=> callerPc[c] = "counting",
         NEW x \in Tasks, fate[x] # "expired",
         \A t \in Tasks : fate'[t] = "expired" <=> fate[t] = "expired" \/ t = x
  PROVE  ExpiredExact'
<1>1. ExpiringWorkers' = ExpiringWorkers /\ CountingCallers' = CountingCallers
  BY Zenon DEF ExpiringWorkers, CountingCallers
<1>2. ExpiredTasks' = ExpiredTasks \cup {x} /\ x \notin ExpiredTasks
  BY Zenon DEF ExpiredTasks
<1>3. Cardinality(ExpiredTasks') = Cardinality(ExpiredTasks) + 1
  BY <1>2, ExpiredTypes, FS_AddElement, Zenon
<1> QED
  BY <1>1, <1>3, ExpiredTypes DEF ExpiredExact

(* add() drops at most one task, and not the new one.                      *)
LEMMA ExpiredAdd ==
  ASSUME TaskInv, ExpiredExact, UNCHANGED workerPc,
         \A c \in Callers : callerPc'[c] = "counting" <=> callerPc[c] = "counting",
         NEW t \in Tasks, fate[t] = "unused",
         NEW v \in {"pending", "blocked"}, Accounted([fate EXCEPT ![t] = v])
  PROVE  ExpiredExact'
<1>0. /\ tasks_ \in Seq(Tasks) /\ Len(tasks_) \in Nat /\ expiredCount_ \in Nat
      /\ fate \in [Tasks -> Fates] /\ v \in Fates
  BY DEF TaskInv, QueueTypes, Fates
<1>1. PICK g \in [Tasks -> Fates] : NewTask(g, t, v)
  BY <1>0, RoomMade, Zenon
<1>2. MadeRoom(g) /\ fate' = [g EXCEPT ![t] = v] /\ g[t] = "unused"
  BY <1>1, Zenon DEF NewTask
<1>3. \A u \in Tasks : fate'[u] = "expired" <=> g[u] = "expired"
  BY <1>2, Zenon
<1>4. CASE g = fate /\ UNCHANGED expiredCount_
  BY <1>3, <1>4, NothingExpires, Zenon
<1>5. CASE \E i \in 1..Len(tasks_) : /\ fate[tasks_[i]] = "pending"
                                     /\ g = [fate EXCEPT ![tasks_[i]] = "expired"]
                                     /\ expiredCount_' = expiredCount_ + 1
  <2>1. PICK i \in 1..Len(tasks_) : /\ fate[tasks_[i]] = "pending"
                                    /\ g = [fate EXCEPT ![tasks_[i]] = "expired"]
                                    /\ expiredCount_' = expiredCount_ + 1
    BY <1>5, Zenon
  <2>2. tasks_[i] \in Tasks
    BY <1>0
  <2>3. \A u \in Tasks : fate'[u] = "expired" <=> fate[u] = "expired" \/ u = tasks_[i]
    BY <1>0, <1>3, <2>1, <2>2, Zenon
  <2> QED
    BY <1>0, <2>1, <2>2, <2>3, ClientExpires, Zenon
<1> QED
  BY <1>2, <1>4, <1>5, Zenon DEF MadeRoom

(* A worker takes a task; with a callback set, it counts a task that has   *)
(* expired after the callback.                                             *)
LEMMA ExpiredDequeue ==
  ASSUME ExpireCallback, TaskInv, ExpiredExact, NEW w \in Workers, WorkerDequeue(w)
  PROVE  ExpiredExact'
<1> DEFINE t == Head(tasks_)
<1>0. /\ tasks_ \in Seq(Tasks) /\ fate \in [Tasks -> Fates] /\ tasks_ # <<>>
      /\ expiredCount_ \in Nat /\ workerPc \in [Workers -> WorkerPcs]
      /\ QueueAccounted(tasks_, fate)
  BY Zenon DEF TaskInv, QueueTypes, WorkerDequeue
<1>1. t \in Tasks /\ fate[t] = "pending"
  BY <1>0, TailIsErase DEF QueueAccounted
<1>2. /\ workerPc[w] = "loop" /\ UNCHANGED expiredCount_
      /\ fate' = [fate EXCEPT ![t] = Admitted(t)]
      /\ workerPc' = [workerPc EXCEPT ![w] =
                        IF Admitted(t) = "expired" THEN "expiring" ELSE "running"]
      /\ UNCHANGED callerPc
  BY Zenon DEF WorkerDequeue, callerVars
<1>3. Admitted(t) \in {"expired", "executing"}
  BY Zenon DEF Admitted
<1> HIDE DEF t
<1>4. CASE Admitted(t) = "expired"
  <2>1. ExpiredTasks' = ExpiredTasks \cup {t} /\ t \notin ExpiredTasks
    BY <1>0, <1>1, <1>2, <1>4, Zenon DEF ExpiredTasks
  <2>2. /\ ExpiringWorkers' = ExpiringWorkers \cup {w} /\ w \notin ExpiringWorkers
        /\ CountingCallers' = CountingCallers
    BY <1>0, <1>2, <1>4, Zenon DEF ExpiringWorkers, CountingCallers
  <2>3. Cardinality(ExpiredTasks') = Cardinality(ExpiredTasks) + 1
    BY <2>1, ExpiredTypes, FS_AddElement, Zenon
  <2>4. Cardinality(ExpiringWorkers') = Cardinality(ExpiringWorkers) + 1
    BY <2>2, ExpiredTypes, WorkersFinite, Zenon
  <2> QED
    BY <1>0, <1>2, <2>2, <2>3, <2>4, ExpiredTypes DEF ExpiredExact
<1>5. CASE Admitted(t) = "executing"
  BY <1>0, <1>1, <1>2, <1>5, NothingExpires, Zenon
<1> QED
  BY <1>3, <1>4, <1>5, Zenon

(* A sweep drops a task and has still to count it, or counts it: nobody    *)
(* has counted in between.                                                 *)
LEMMA SweepExpires ==
  ASSUME TypeInv, AloneInv, ExpiredExact, UNCHANGED workerPc, NEW c \in Callers,
         \/ /\ callerPc[c] = "swept" /\ callerPc' = [callerPc EXCEPT ![c] = "counting"]
            /\ UNCHANGED expiredCount_
            /\ \E x \in Tasks : fate[x] # "expired" /\ fate' = [fate EXCEPT ![x] = "expired"]
         \/ /\ callerPc[c] = "counting" /\ callerPc' = [callerPc EXCEPT ![c] = "sweep"]
            /\ expiredCount_' = sweepSeen[c] + 1 /\ UNCHANGED fate
  PROVE  ExpiredExact'
<1>0. /\ callerPc \in [Callers -> CallerPcs] /\ fate \in [Tasks -> Fates]
      /\ expiredCount_ \in Nat
  BY Zenon DEF TypeInv, TaskInv, QueueTypes
<1>1. ExpiringWorkers' = ExpiringWorkers
  BY Zenon DEF ExpiringWorkers
<1>2. CASE callerPc[c] = "swept"
  <2>1. PICK x \in Tasks : fate[x] # "expired" /\ fate' = [fate EXCEPT ![x] = "expired"]
    BY <1>2, Zenon
  <2>2. /\ UNCHANGED expiredCount_
        /\ CountingCallers' = CountingCallers \cup {c} /\ c \notin CountingCallers
    BY <1>0, <1>2, Zenon DEF CountingCallers
  <2>3. ExpiredTasks' = ExpiredTasks \cup {x} /\ x \notin ExpiredTasks
    BY <1>0, <2>1, Zenon DEF ExpiredTasks
  <2>4. /\ Cardinality(ExpiredTasks') = Cardinality(ExpiredTasks) + 1
        /\ Cardinality(CountingCallers') = Cardinality(CountingCallers) + 1
    BY <2>2, <2>3, ExpiredTypes, FS_AddElement, Zenon
  <2> QED
    BY <1>0, <1>1, <2>2, <2>4, ExpiredTypes DEF ExpiredExact
<1>3. CASE callerPc[c] = "counting"
  <2>1. /\ expiredCount_' = expiredCount_ + 1 /\ ExpiredTasks' = ExpiredTasks
        /\ CountingCallers' = CountingCallers \ {c} /\ c \in CountingCallers
    BY <1>0, <1>3, Zenon DEF AloneInv, Sweeping, Undisturbed, CountingCallers, ExpiredTasks
  <2>2. Cardinality(CountingCallers') = Cardinality(CountingCallers) - 1
    BY <2>1, ExpiredTypes, FS_RemoveElement, Zenon
  <2> QED
    BY <1>0, <1>1, <2>1, <2>2, ExpiredTypes DEF ExpiredExact
<1> QED
  BY <1>2, <1>3, Zenon

LEMMA ExpiredNext ==
  ASSUME ExpireCallback, SweepsAlone, TypeInv, AloneInv, ExpiredExact, [Next]_vars
  PROVE  ExpiredExact'
<1> USE DEF callerVars, workerVars
<1>0. /\ TaskInv /\ QueueTypes /\ SweepTypes /\ Held
      /\ tasks_ \in Seq(Tasks) /\ Len(tasks_) \in Nat
      /\ fate \in [Tasks -> Fates] /\ expiredCount_ \in Nat
      /\ workerPc \in [Workers -> WorkerPcs] /\ QueueAccounted(tasks_, fate)
      /\ callerPc \in [Callers -> CallerPcs]
  BY DEF TypeInv, TaskInv, QueueTypes
<1>1. CASE WorkersMove
  BY <1>1, NothingExpires, Zenon DEF WorkersMove
<1>2. ASSUME NEW w \in Workers, WorkerTaskDone(w) PROVE ExpiredExact'
  <2>1. fate[workerTask[w]] = "executing"
    BY <1>0, <1>2, Zenon DEF WorkerTaskDone, Held, WorkersHoldTasks
  <2> QED
    BY <1>0, <1>2, <2>1, NothingExpires, Zenon DEF WorkerTaskDone
<1>3. ASSUME NEW w \in Workers, WorkerExpireDone(w) PROVE ExpiredExact'
  <2>1. /\ ExpiringWorkers' = ExpiringWorkers \ {w} /\ w \in ExpiringWorkers
        /\ ExpiredTasks' = ExpiredTasks /\ expiredCount_' = expiredCount_ + 1
        /\ CountingCallers' = CountingCallers
    BY <1>0, <1>3, Zenon DEF WorkerExpireDone, ExpiringWorkers, ExpiredTasks, CountingCallers
  <2>2. Cardinality(ExpiringWorkers') = Cardinality(ExpiringWorkers) - 1
    BY <2>1, ExpiredTypes, WorkersFinite, Zenon
  <2> QED
    BY <1>0, <2>1, <2>2, ExpiredTypes, SMTT(30) DEF ExpiredExact
<1>4. ASSUME NEW i \in 1..Len(tasks_), NEW v \in {"removed", "expired", "lost"}, TaskErased(i, v)
      PROVE  ExpiredExact'
  <2>1. /\ fate' = [fate EXCEPT ![tasks_[i]] = v] /\ UNCHANGED <<workerPc, expiredCount_>>
        /\ tasks_[i] \in Tasks /\ fate[tasks_[i]] = "pending"
    BY <1>0, <1>4 DEF TaskErased, QueueAccounted
  <2>2. CASE v = "removed" /\ UNCHANGED callerPc
    BY <1>0, <2>1, <2>2, NothingExpires, Zenon
  <2>3. CASE \E c \in Callers : /\ callerPc[c] = "swept"
                               /\ callerPc' = [callerPc EXCEPT ![c] = "counting"]
    <3>1. PICK c \in Callers : /\ callerPc[c] = "swept"
                               /\ callerPc' = [callerPc EXCEPT ![c] = "counting"]
      BY <2>3, Zenon
    <3>2. v # "lost"
      BY <1>0, <2>1, AloneNext, Zenon DEF AloneInv, SweepsTakeExpired
    <3>3. v # "removed"
      BY <1>0, <1>4, <3>1, Zenon DEF TaskErased
    <3>4. fate' = [fate EXCEPT ![tasks_[i]] = "expired"] /\ fate[tasks_[i]] # "expired"
      BY <2>1, <3>2, <3>3, Zenon
    <3> QED
      BY <2>1, <3>1, <3>4, SweepExpires, Zenon
  <2> QED
    BY <1>4, <2>2, <2>3, ZenonT(30) DEF TaskErased
<1>5. ASSUME NEW c \in Callers, SweepMoves(c) PROVE ExpiredExact'
  <2>1. ~(callerPc[c] = "swept" /\ tasks_ = <<>>)
    <3> SUFFICES ASSUME callerPc[c] = "swept", tasks_ = <<>> PROVE FALSE
      BY Zenon
    <3>1. sweepAt[c] >= 1 /\ sweepAt[c] <= Len(tasks_) /\ sweepAt[c] \in Int
      BY <1>0, Zenon DEF AloneInv, Undisturbed, Sweeping, SweepTypes
    <3> QED
      BY <3>1
  <2>2. CASE callerPc[c] = "counting"
    BY <1>5, <2>2, SweepExpires, Zenon DEF SweepMoves
  <2>3. CASE callerPc[c] # "counting"
    <3>1. /\ UNCHANGED <<workerPc, expiredCount_, fate>>
          /\ \A d \in Callers : callerPc'[d] = "counting" <=> callerPc[d] = "counting"
      BY <1>0, <1>5, <2>1, <2>3, Zenon DEF SweepMoves
    <3> QED
      BY <3>1, NothingExpires, Zenon
  <2> QED
    BY <2>2, <2>3, Zenon
<1>6. ASSUME NEW c \in Callers, AddTimeout(c) \/ (AddWakeup(c) /\ ~Full(tasks_))
      PROVE  ExpiredExact'
  <2>1. /\ UNCHANGED <<workerPc, expiredCount_>>
        /\ fate[callerTask[c]] = "blocked" /\ callerPc[c] \in {"addForever", "addTimed"}
        /\ callerPc' = [callerPc EXCEPT ![c] = "idle"]
        /\ \E v \in {"unused", "pending"} : fate' = [fate EXCEPT ![callerTask[c]] = v]
    BY <1>0, <1>6, Zenon DEF AddTimeout, AddWakeup, Held, CallersHoldTasks, Blocked
  <2> QED
    BY <1>0, <2>1, NothingExpires, Zenon
<1>7. ASSUME NEW c \in Callers, NEW t \in Tasks, NEW timeout \in Timeouts, AddBlock(c, t, timeout)
      PROVE  ExpiredExact'
  <2>1. /\ fate[t] = "unused" /\ Accounted([fate EXCEPT ![t] = "blocked"])
        /\ UNCHANGED workerPc /\ "blocked" \in {"pending", "blocked"}
        /\ callerPc[c] # "counting"
        /\ callerPc' = [callerPc EXCEPT ![c] =
                          IF timeout = "timed" THEN "addTimed" ELSE "addForever"]
    BY <1>7, ConstantsAssumption, Zenon DEF AddBlock, Free
  <2>2. \A d \in Callers : callerPc'[d] = "counting" <=> callerPc[d] = "counting"
    BY <1>0, <2>1, Zenon
  <2> QED
    BY <1>0, <2>1, <2>2, ExpiredAdd, ZenonT(30)
<1>8. ASSUME NEW th \in Workers \cup Callers, NEW t \in Tasks, Add(th, t)
      PROVE  ExpiredExact'
  <2>1. /\ fate[t] = "unused" /\ Accounted([fate EXCEPT ![t] = "pending"])
        /\ UNCHANGED <<workerPc, callerPc>> /\ "pending" \in {"pending", "blocked"}
    BY <1>8, Zenon DEF Add
  <2> QED
    BY <1>0, <2>1, ExpiredAdd, ZenonT(30)
<1>9. ASSUME NEW t \in Tasks, Lapse(t) PROVE ExpiredExact'
  BY <1>9, NothingExpires, Zenon DEF Lapse
<1> QED
  BY <1>0, <1>1, <1>2, <1>3, <1>4, <1>5, <1>6, <1>7, <1>8, <1>9, ExpiredDequeue,
     EveryStepHasAShape, ZenonT(30) DEF TaskShapes

(* workerCount_ is the number of workers in the pool, as long as the calls *)
(* that change the limit take turns.  With a callback set, and as long as  *)
(* no other thread uses the manager during removeExpiredTasks(), the count *)
(* of expired tasks misses none and counts none twice, be it one dropped   *)
(* by a worker, by add() on a full queue or by that sweep.                 *)
THEOREM CountsAreExact ==
  ASSUME ExpireCallback, SweepsAlone
  PROVE  Spec /\ InTurn => []CountersExact
<1> DEFINE IInv == TypeInv /\ WorkerInv /\ AloneInv /\ ExpiredExact
<1>1. Init => IInv
  <2> SUFFICES ASSUME Init PROVE ExpiredExact
    BY TaskInit, CountInit, WorkerInit, AloneInit, Zenon DEF TypeInv
  <2>1. /\ ExpiringWorkers = {} /\ CountingCallers = {} /\ ExpiredTasks = {}
        /\ expiredCount_ = 0
    BY Zenon DEF Init, ExpiringWorkers, CountingCallers, ExpiredTasks
  <2> QED
    BY <2>1, FS_EmptySet DEF ExpiredExact
<1>2. IInv /\ [Next]_vars /\ [LimitInTurn]_vars => IInv'
  BY TypeNext, WorkerNext, AloneNext, ExpiredNext, Zenon DEF TypeInv
<1>3. IInv => CountersExact
  BY ZenonT(30) DEF WorkerInv, ExpiredExact, ExpiringWorkers, CountingCallers, ExpiredTasks,
               CountersExact
<1> QED
  BY <1>1, <1>2, <1>3, PTL DEF Spec, InTurn

-----------------------------------------------------------------------------
(* A pool managed by one thread.                                           *)

(* Each addWorker(), removeWorker() and stop() of that thread returns      *)
(* before the next one changes workerMaxCount_.                            *)
THEOREM OneManagerTakesTurns ==
  ASSUME NEW m, Admins = {m}
  PROVE  Spec => InTurn
<1>1. TypeInv /\ [Next]_vars => [LimitInTurn]_vars
  <2> SUFFICES ASSUME TypeInv, [Next]_vars, workerMaxCount_' # workerMaxCount_ PROVE Quiet
    BY Zenon DEF LimitInTurn
  <2>1. TaskInv /\ CountTypes
    BY Zenon DEF TypeInv, CountInv
  <2>2. ~\E w \in Workers : Worker(w)
    BY Zenon DEF Worker, WorkerStart, WorkerWait, WorkerWakeup, WorkerDequeue, WorkerTaskDone,
           WorkerExpireDone, WorkerInactive, WorkerExit, poolVars
  <2>3. ~ClientStep
    BY Zenon DEF ClientStep, poolVars
  <2>4. PICK a \in Admins : Admin(a)
    BY <2>1, <2>2, <2>3, ThreeKinds, ZenonT(30)
  <2>5. adminPc[a] = "idle"
    BY <2>4, Zenon DEF Admin, Start, AddWorker, RemoveWorker, Stop, AdminWakeup, poolVars
  <2> QED
    BY <2>5, Zenon DEF Quiet
<1> QED
  BY <1>1, TypeInvariant, PTL DEF Spec, InTurn

(* stop() waits until the limit and the count are zero, and nobody else    *)
(* moves the state on in the meantime.                                     *)
StopInv ==
    \A a \in Admins : /\ state_ = "JOINING" => adminPc[a] = "stop"
                      /\ adminPc[a] = "stop" => workerMaxCount_ = 0

(* With the limit and the count at zero the pool is empty.                 *)
LEMMA NobodyLeft ==
  ASSUME CountTypes, WorkerInv, workerCount_ = 0, workerMaxCount_ = 0 \/ Quiet
  PROVE  \A w \in Workers : Reaped[w] \in {"none", "reaped"}
<1>1. Counted \in SUBSET Workers /\ StartingWorkers \in SUBSET Workers
  BY Zenon DEF Counted, StartingWorkers
<1>2. Counted = {}
  BY <1>1, WorkersFinite, Zenon DEF WorkerInv
<1>3. StartingWorkers = {}
  <2>1. workerMaxCount_ = 0
    BY Zenon DEF WorkerInv
  <2>2. Cardinality(StartingWorkers) \in Nat
    BY <1>1, WorkersFinite, Zenon
  <2>3. StartingWorkers # {} => Cardinality(StartingWorkers) = 0
    BY <2>1, <2>2 DEF WorkerInv
  <2> QED
    BY <1>1, <2>3, WorkersFinite, Zenon
<1> QED
  BY <1>2, <1>3, Zenon DEF Counted, StartingWorkers, Reaped, CountTypes, WorkerPcs

StopStep == state_ # "STOPPED" /\ state_' = "STOPPED" =>
                \A w \in Workers : workerPc'[w] \in {"none", "reaped"}

LEMMA StopNext ==
  ASSUME NEW m, Admins = {m}, TypeInv, WorkerInv, StopInv, [Next]_vars
  PROVE  StopInv' /\ (StopStep \/ UNCHANGED vars)
<1> USE DEF callerVars, workerVars, poolVars
<1>0. /\ TaskInv /\ CountTypes /\ m \in Admins
      /\ adminPc \in [Admins -> {"idle", "addWorker", "removeWorker", "stop"}]
      /\ workerCount_ \in Nat /\ workerMaxCount_ \in Nat
  BY Zenon DEF TypeInv, CountInv, CountTypes
<1>1. CASE UNCHANGED <<state_, adminPc, workerMaxCount_>>
  BY <1>1, Zenon DEF StopInv, StopStep
<1>2. ASSUME NEW w \in Workers, Worker(w)
      PROVE  UNCHANGED <<state_, adminPc, workerMaxCount_>>
  BY <1>2, Zenon DEF Worker, WorkerStart, WorkerWait, WorkerWakeup, WorkerDequeue,
           WorkerTaskDone, WorkerExpireDone, WorkerInactive, WorkerExit
<1>3. ASSUME ClientStep PROVE UNCHANGED <<state_, adminPc, workerMaxCount_>>
  BY <1>3, Zenon DEF ClientStep
<1>4. CASE adminPc[m] = "idle"
  <2>1. Quiet /\ workerCount_ = workerMaxCount_ /\ state_ # "JOINING"
    BY <1>0, <1>4, Zenon DEF Quiet, WorkerInv, StopInv
  <2>2. CASE Start(m)
    BY <1>4, <2>2, Zenon DEF Start, StopInv, StopStep
  <2>3. ASSUME NEW value \in 1..Cardinality(Workers), RemoveWorker(m, value)
        PROVE  StopInv' /\ StopStep
    BY <1>0, <1>4, <2>1, <2>3, Zenon DEF RemoveWorker, removeWorkersUnderLock, StopInv, StopStep
  <2>4. ASSUME NEW new \in SUBSET Workers, AddWorker(m, new)
        PROVE  StopInv' /\ StopStep
    BY <1>0, <1>4, <2>1, <2>4, Zenon DEF AddWorker, StopInv, StopStep
  <2>5. CASE Stop(m)
    <3>1. \/ state_ = "STOPPED" /\ UNCHANGED <<state_, adminPc, workerMaxCount_>>
          \/ removeWorkersUnderLock(m, workerCount_, "stop")
      BY <1>0, <2>1, <2>5 DEF Stop
    <3>2. CASE removeWorkersUnderLock(m, workerCount_, "stop")
      <4>1. workerMaxCount_' = 0
        BY <1>0, <2>1, <3>2 DEF removeWorkersUnderLock
      <4>2. CASE workerCount_ = 0
        <5>1. workerPc' = Reaped /\ state_' = "STOPPED" /\ UNCHANGED adminPc
          BY <3>2, <4>1, <4>2, ZenonT(30) DEF removeWorkersUnderLock
        <5> QED
          BY <1>0, <1>4, <2>1, <4>2, <5>1, NobodyLeft, Zenon DEF StopInv, StopStep
      <4>3. CASE workerCount_ # 0
        <5>1. adminPc' = [adminPc EXCEPT ![m] = "stop"] /\ state_' = "JOINING"
          BY <3>2, <4>1, <4>3, ZenonT(30) DEF removeWorkersUnderLock
        <5> QED
          BY <1>0, <4>1, <5>1, Zenon DEF StopInv, StopStep
      <4> QED
        BY <4>2, <4>3, Zenon
    <3> QED
      BY <1>1, <3>1, <3>2, Zenon
  <2>6. ~AdminWakeup(m)
    BY <1>4, Zenon DEF AdminWakeup
  <2> QED
    BY <1>0, <1>1, <1>2, <1>3, <2>2, <2>3, <2>4, <2>5, <2>6, ThreeKinds, ZenonT(30) DEF Admin
<1>5. CASE adminPc[m] # "idle"
  <2>1. CASE AdminWakeup(m)
    <3>1. CASE ~Settled
      BY <1>1, <2>1, <3>1, Zenon DEF AdminWakeup
    <3>2. CASE Settled
      <4>1. /\ adminPc' = [adminPc EXCEPT ![m] = "idle"] /\ UNCHANGED workerMaxCount_
            /\ adminPc[m] = "stop" => workerPc' = Reaped /\ state_' = "STOPPED"
            /\ adminPc[m] # "stop" => UNCHANGED state_
        BY <2>1, <3>2, Zenon DEF AdminWakeup
      <4>2. StopInv'
        BY <1>0, <4>1, Zenon DEF StopInv
      <4>3. adminPc[m] = "stop" => workerMaxCount_ = 0 /\ workerCount_ = 0
        BY <1>0, <3>2, Zenon DEF StopInv, Settled
      <4>4. StopStep
        BY <1>0, <4>1, <4>3, NobodyLeft, Zenon DEF StopStep
      <4> QED
        BY <4>2, <4>4, Zenon
    <3> QED
      BY <3>1, <3>2, Zenon
  <2>2. ASSUME Admin(m) PROVE AdminWakeup(m)
    BY <1>5, <2>2, Zenon DEF Admin, Start, AddWorker, RemoveWorker, Stop
  <2> QED
    BY <1>0, <1>1, <1>2, <1>3, <2>1, <2>2, ThreeKinds, ZenonT(30)
<1> QED
  BY <1>4, <1>5, Zenon

(* When the thread that manages a pool has stopped it, no worker is left:  *)
(* every one that was started has ended and has been joined.               *)
THEOREM StopIsComplete ==
  ASSUME NEW m, Admins = {m}
  PROVE  Spec => StopLeavesNoWorker
<1> DEFINE IInv == TypeInv /\ WorkerInv /\ StopInv
<1>1. Init => IInv
  BY TaskInit, CountInit, WorkerInit, Zenon DEF TypeInv, Init, StopInv
<1>2. IInv /\ [Next]_vars /\ [LimitInTurn]_vars => IInv'
  BY TypeNext, WorkerNext, StopNext, Zenon
<1>3. IInv /\ [Next]_vars => [StopStep]_vars
  BY StopNext, Zenon
<1>4. Spec => InTurn
  BY OneManagerTakesTurns, Zenon
<1>5. Spec => [][StopStep]_vars
  BY <1>1, <1>2, <1>3, <1>4, PTL DEF Spec, InTurn
<1> QED
  BY <1>5, Zenon DEF StopLeavesNoWorker, StopStep

=============================================================================

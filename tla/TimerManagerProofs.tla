------------------------- MODULE TimerManagerProofs -------------------------
(***************************************************************************)
(* The safety of TimerManager for any number of threads, timers and clock  *)
(* units.  The inductive invariant ties the state of the manager to where  *)
(* its dispatcher and its users are: which states each of them may see is  *)
(* what the single notify() of add() and the cleanup of stop() rely on.    *)
(***************************************************************************)
EXTENDS TimerManager, FiniteSetTheorems, TLAPS

DispatcherLabels == {"off", "run", "loop", "execute", "check", "exit", "done", "failed"}
UserLabels == {"idle", "spawn", "starting", "stopping", "cleanup"}

Labels ==
    /\ pc[Dispatcher] \in DispatcherLabels
    /\ \A u \in Users : pc[u] \in UserLabels

Spawning(u) == pc[u] = "spawn"

(* One thread starts the dispatcher, and only while there is none.         *)
OneSpawner ==
    \A u \in Users : Spawning(u) =>
        pc[Dispatcher] = "off" /\ \A v \in Users \ {u} : ~Spawning(v)

(* The states of the manager at each place of the dispatcher.              *)
DispatcherSees ==
    /\ pc[Dispatcher] = "off" =>
          IF \E u \in Users : Spawning(u) THEN state_ \in {"STARTING", "STOPPING"}
                                          ELSE state_ \in {"UNINITIALIZED", "STOPPED"}
    /\ pc[Dispatcher] \in {"run", "failed"} => state_ \in {"STARTING", "STOPPING"}
    /\ pc[Dispatcher] \in {"loop", "execute", "check"} => state_ \in {"STARTED", "STOPPING"}
    /\ pc[Dispatcher] = "exit" => state_ = "STOPPING"
    /\ pc[Dispatcher] = "done" => state_ = "STOPPED"

(* ... and at each place of a thread that has called stop().               *)
UsersSee ==
    /\ \A u \in Users : pc[u] = "stopping" => state_ \in {"STOPPING", "STOPPED"}
    /\ \A u \in Users : pc[u] = "cleanup" => state_ = "STOPPED"
    /\ ~manager_ => state_ = "STOPPED"

BatchInHand == expiredTasks # {} => pc[Dispatcher] = "execute"

Control == Labels /\ OneSpawner /\ DispatcherSees /\ UsersSee /\ BatchInHand

TimerInv ==
    TypeOK /\ Control /\ CountMatchesMap /\ OnlyDispatcherSleeps /\ NeverOversleeps

LEMMA TimerInit == Init => TimerInv
<1> SUFFICES ASSUME Init PROVE TimerInv
  BY Zenon
<1>1. TypeOK
  BY ConstantsAssumption, Zenon DEF Init, TypeOK, States, Threads
<1>2. Labels /\ OneSpawner /\ DispatcherSees /\ UsersSee /\ BatchInHand
  BY ConstantsAssumption, Zenon
  DEF Init, Labels, DispatcherLabels, UserLabels, OneSpawner, Spawning, DispatcherSees,
      UsersSee, BatchInHand, Threads
<1>3. CountMatchesMap /\ OnlyDispatcherSleeps /\ NeverOversleeps
  BY FS_EmptySet, Zenon DEF Init, CountMatchesMap, OnlyDispatcherSleeps, NeverOversleeps
<1> QED
  BY <1>1, <1>2, <1>3, Zenon DEF TimerInv, Control

-----------------------------------------------------------------------------
(* What the actions have in common.                                        *)

(* The wait set only shrinks when threads are woken.                       *)
LEMMA WakingShrinks ==
  ASSUME NEW W, NEW X,
         X \in Notify(W) \/ X \in NotifyAll(W) \/ X \in SpuriousWakeup(W)
  PROVE  X \subseteq W
  BY Zenon DEF Notify, NotifyAll, SpuriousWakeup

(* Timers that leave the map leave the count as well.                      *)
LEMMA Removed ==
  ASSUME TimerInv, state_ # "STOPPED", NEW gone \in SUBSET taskMap_
  PROVE  /\ taskCount_ - Cardinality(gone) = Cardinality(taskMap_ \ gone)
         /\ taskCount_ - Cardinality(gone) \in Nat
<1>1. IsFiniteSet(taskMap_)
  BY ConstantsAssumption, FS_Subset, Zenon DEF TimerInv, TypeOK
<1>2. taskMap_ \cap gone = gone
  BY Zenon
<1>3. /\ IsFiniteSet(taskMap_ \ gone)
      /\ Cardinality(taskMap_ \ gone) = Cardinality(taskMap_) - Cardinality(gone)
  BY <1>1, <1>2, FS_Difference
<1>4. Cardinality(taskMap_ \ gone) \in Nat
  BY <1>3, FS_CardinalityType, Zenon
<1> QED
  BY <1>3, <1>4, Zenon DEF TimerInv, CountMatchesMap

(* A sleep of the dispatcher ends within a millisecond of the time it is   *)
(* meant for, and not before now.                                          *)
LEMMA TimeoutBound ==
  ASSUME clock \in Nat, NEW due \in Nat, clock < due
  PROVE  Timeout(due) \in Nat /\ Timeout(due) < due + MS
<1> DEFINE whole == (due - clock) \div MS
<1>1. MS \in Nat \ {0} /\ due - clock \in Nat
  BY ConstantsAssumption
<1>2. whole \in Nat /\ whole * MS \in Nat /\ whole * MS <= due - clock
  BY <1>1
<1>3. Timeout(due) = clock + (IF whole = 0 THEN 1 ELSE whole) * MS
  BY Zenon DEF Timeout
<1> HIDE DEF whole
<1>4. CASE whole = 0
  BY <1>1, <1>3, <1>4
<1>5. CASE whole # 0
  BY <1>1, <1>2, <1>3, <1>5
<1> QED
  BY <1>4, <1>5, Zenon

-----------------------------------------------------------------------------
LEMMA TimerTypes == TimerInv /\ [Next]_vars => TypeOK'
<1> SUFFICES ASSUME TimerInv, [Next]_vars PROVE TypeOK'
  BY Zenon
<1> USE DEF vars, mapVars, timerVars, Goto, States, Threads
<1>0. TypeOK /\ ConstantsAssumption
  BY ConstantsAssumption, Zenon DEF TimerInv
<1>1. CASE Begin
  BY <1>0, <1>1, Zenon DEF Begin, NotifyAll, TypeOK
<1>2. CASE Sleep
  <2>1. wakeAt' \in Nat \cup {None}
    <3>1. ASSUME NEW first \in taskMap_ PROVE Timeout(abstime[first]) \in Nat
      BY <1>0, <1>2, <3>1, TimeoutBound DEF Sleep, Expired, TypeOK
    <3> QED
      BY <1>2, <3>1, Zenon DEF Sleep
  <2> QED
    BY <1>0, <1>2, <2>1, Zenon DEF Sleep, TypeOK
<1>3. CASE TimesOut
  BY <1>0, <1>3, Zenon DEF TimesOut, TypeOK
<1>4. CASE TakeExpired
  <2>1. Expired \subseteq taskMap_ /\ state_ # "STOPPED" /\ taskCount_' \in Nat
    BY <1>4, Removed, Zenon DEF TakeExpired, Expired
  <2>2. taskState' \in [Timers -> {"absent", "WAITING", "EXECUTING", "COMPLETE"}]
    BY <1>0, <1>4, Zenon DEF TakeExpired, TypeOK
  <2>3. \A t \in taskMap_' : taskState'[t] = "WAITING"
    BY <1>0, <1>4, Zenon DEF TakeExpired, Remaining, TypeOK
  <2> QED
    BY <1>0, <1>4, <2>1, <2>2, <2>3 DEF TakeExpired, Remaining, TypeOK
<1>5. CASE TakeNothing
  BY <1>0, <1>5, Zenon DEF TakeNothing, TypeOK
<1>6. ASSUME NEW t \in Timers, RunTask(t) PROVE TypeOK'
  BY <1>0, <1>6, Zenon DEF RunTask, TypeOK
<1>7. CASE EndBatch
  BY <1>0, <1>7, Zenon DEF EndBatch, TypeOK, TimerInv
<1>8. CASE CheckState
  BY <1>0, <1>8, Zenon DEF CheckState, TypeOK
<1>9. CASE Exit
  BY <1>0, <1>9, Zenon DEF Exit, ExitWakes, NotifyAll, TypeOK
<1>10. ASSUME NEW u \in Users, Start(u) PROVE TypeOK'
  BY <1>0, <1>10, Zenon DEF Start, TypeOK
<1>11. ASSUME NEW u \in Users, Stop(u) PROVE TypeOK'
  BY <1>0, <1>11, Zenon DEF Stop, StateAfterStop, NotifyAll, TypeOK
<1>12. ASSUME NEW u \in Users, Spawn(u) \/ SpawnFails(u) PROVE TypeOK'
  BY <1>0, <1>12 DEF Spawn, SpawnFails, TypeOK, TimerInv, Control, OneSpawner, Spawning
<1>13. ASSUME NEW u \in Users, AwaitStart(u) \/ AwaitStop(u) PROVE TypeOK'
  BY <1>0, <1>13 DEF AwaitStart, AwaitStop, TypeOK
<1>14. ASSUME NEW u \in Users, CleanUp(u) PROVE TypeOK'
  BY <1>0, <1>14, Zenon DEF CleanUp, TypeOK
<1>15. ASSUME NEW t \in Timers, NEW r \in Runnables, NEW a \in Times, Add(t, r, a)
       PROVE  TypeOK'
  <2>1. monitor_' \subseteq monitor_
    BY <1>15, WakingShrinks, Zenon DEF Add
  <2> QED
    BY <1>0, <1>15, <2>1 DEF Add, TypeOK
<1>16. ASSUME NEW r \in Runnables, Remove(r) PROVE TypeOK'
  <2> DEFINE found == {t \in taskMap_ : runnable_[t] = r}
  <2>1. found \in SUBSET taskMap_
    BY Zenon
  <2>2. /\ state_ # "STOPPED" /\ taskCount_' = taskCount_ - Cardinality(found)
        /\ taskMap_' = taskMap_ \ found
    BY <1>16, Zenon DEF Remove
  <2> HIDE DEF found
  <2>3. taskCount_' \in Nat
    BY <2>1, <2>2, Removed, Zenon
  <2> QED
    BY <1>0, <1>16, <2>2, <2>3, Zenon DEF Remove, TypeOK
<1>17. ASSUME NEW t \in Timers, RemoveHandle(t) PROVE TypeOK'
  <2>1. {t} \in SUBSET taskMap_ /\ state_ # "STOPPED" /\ Cardinality({t}) = 1
    BY <1>17, FS_Singleton, Zenon DEF RemoveHandle
  <2>2. taskCount_ - 1 \in Nat
    BY <2>1, Removed, Zenon
  <2> QED
    BY <1>0, <1>17, <2>2, Zenon DEF RemoveHandle, TypeOK
<1>18. CASE Tick
  BY <1>0, <1>18 DEF Tick, TypeOK
<1>19. CASE Spurious
  BY <1>0, <1>19, WakingShrinks, Zenon DEF Spurious, TypeOK
<1>20. CASE UNCHANGED vars
  BY <1>0, <1>20, Zenon DEF TypeOK
<1> QED
  BY <1>1, <1>2, <1>3, <1>4, <1>5, <1>6, <1>7, <1>8, <1>9, <1>10, <1>11, <1>12, <1>13,
     <1>14, <1>15, <1>16, <1>17, <1>18, <1>19, <1>20, Zenon
  DEF Next, DispatcherStep, Calls, UserStep

-----------------------------------------------------------------------------
LEMMA TimerControl == TimerInv /\ [Next]_vars => Control'
<1> SUFFICES ASSUME TimerInv, [Next]_vars PROVE Control'
  BY Zenon
<1> USE DEF vars, mapVars, timerVars, Goto, Control, Labels, OneSpawner, Spawning,
            DispatcherSees, UsersSee, BatchInHand, DispatcherLabels, UserLabels
<1>0. /\ Control /\ state_ \in States /\ Dispatcher \notin Users
      /\ pc \in [Users \cup {Dispatcher} ->
                    {"off", "run", "loop", "execute", "check", "exit", "done", "failed",
                     "idle", "spawn", "starting", "stopping", "cleanup"}]
  BY ConstantsAssumption, Zenon DEF TimerInv, TypeOK, Threads
<1>1. CASE Begin
  BY <1>0, <1>1, Zenon DEF Begin
<1>2. CASE TakeExpired
  BY <1>0, <1>2, Zenon DEF TakeExpired
<1>3. CASE TakeNothing
  BY <1>0, <1>3, Zenon DEF TakeNothing
<1>4. CASE EndBatch
  BY <1>0, <1>4, Zenon DEF EndBatch
<1>5. CASE CheckState
  BY <1>0, <1>5, Zenon DEF CheckState
<1>6. CASE Exit
  BY <1>0, <1>6, Zenon DEF Exit
<1>7. ASSUME NEW u \in Users, Start(u) PROVE Control'
  BY <1>0, <1>7 DEF Start
<1>8. ASSUME NEW u \in Users, Stop(u) PROVE Control'
  BY <1>0, <1>8 DEF Stop, StateAfterStop, States
<1>9. ASSUME NEW u \in Users, Spawn(u) PROVE Control'
  BY <1>0, <1>9, Zenon DEF Spawn
<1>10. ASSUME NEW u \in Users, SpawnFails(u) PROVE Control'
  BY <1>0, <1>10 DEF SpawnFails
<1>11. ASSUME NEW u \in Users, AwaitStart(u) PROVE Control'
  BY <1>0, <1>11, Zenon DEF AwaitStart
<1>12. ASSUME NEW u \in Users, AwaitStop(u) PROVE Control'
  BY <1>0, <1>12, Zenon DEF AwaitStop
<1>13. ASSUME NEW u \in Users, CleanUp(u) PROVE Control'
  BY <1>0, <1>13, Zenon DEF CleanUp
<1>14. CASE UNCHANGED <<state_, pc, expiredTasks, manager_>>
  BY <1>0, <1>14, Zenon
<1> QED
  BY <1>1, <1>2, <1>3, <1>4, <1>5, <1>6, <1>7, <1>8, <1>9, <1>10, <1>11, <1>12, <1>13, <1>14, Zenon
  DEF Next, DispatcherStep, Calls, UserStep, Sleep, TimesOut, RunTask, Add, Remove,
      RemoveHandle, Tick, Spurious

LEMMA TimerCount == TimerInv /\ [Next]_vars => CountMatchesMap'
<1> SUFFICES ASSUME TimerInv, [Next]_vars PROVE CountMatchesMap'
  BY Zenon
<1> USE DEF vars, mapVars, timerVars
<1>0. /\ TypeOK /\ CountMatchesMap /\ IsFiniteSet(taskMap_)
      /\ \A u \in Users : pc[u] = "cleanup" => state_ = "STOPPED"
  BY ConstantsAssumption, FS_Subset, Zenon DEF TimerInv, TypeOK, Control, UsersSee
<1>1. CASE UNCHANGED <<taskMap_, taskCount_>> /\ (state_ = "STOPPED" => state_' = "STOPPED")
  BY <1>0, <1>1, Zenon DEF CountMatchesMap
<1>2. CASE TakeExpired
  <2>1. Expired \in SUBSET taskMap_ /\ state_ # "STOPPED"
    BY <1>2, Zenon DEF TakeExpired, Expired
  <2> QED
    BY <1>2, <2>1, Removed, Zenon DEF TakeExpired, Remaining, CountMatchesMap
<1>3. ASSUME NEW r \in Runnables, Remove(r) PROVE CountMatchesMap'
  <2> DEFINE found == {t \in taskMap_ : runnable_[t] = r}
  <2>1. found \in SUBSET taskMap_
    BY Zenon
  <2>2. /\ state_ # "STOPPED" /\ taskCount_' = taskCount_ - Cardinality(found)
        /\ taskMap_' = taskMap_ \ found
    BY <1>3, Zenon DEF Remove
  <2> HIDE DEF found
  <2> QED
    BY <2>1, <2>2, Removed, Zenon DEF CountMatchesMap
<1>4. ASSUME NEW t \in Timers, RemoveHandle(t) PROVE CountMatchesMap'
  BY <1>0, <1>4, FS_RemoveElement, Zenon DEF RemoveHandle, CountMatchesMap
<1>5. ASSUME NEW t \in Timers, NEW r \in Runnables, NEW a \in Times, Add(t, r, a)
      PROVE  CountMatchesMap'
  <2>1. t \notin taskMap_
    BY <1>0, <1>5, Zenon DEF Add, TypeOK
  <2> QED
    BY <1>0, <1>5, <2>1, FS_AddElement, Zenon DEF Add, CountMatchesMap
<1>6. ASSUME NEW u \in Users, CleanUp(u) PROVE CountMatchesMap'
  BY <1>0, <1>6, Zenon DEF CleanUp, CountMatchesMap
<1> QED
  BY <1>1, <1>2, <1>3, <1>4, <1>5, <1>6, Zenon
  DEF Next, DispatcherStep, Calls, UserStep, Begin, Sleep, TimesOut, TakeNothing, RunTask,
      EndBatch, CheckState, Exit, Start, Stop, StateAfterStop, Spawn, SpawnFails,
      AwaitStart, AwaitStop, Tick, Spurious

LEMMA TimerSleepers == TimerInv /\ [Next]_vars => OnlyDispatcherSleeps'
<1> SUFFICES ASSUME TimerInv, [Next]_vars PROVE OnlyDispatcherSleeps'
  BY Zenon
<1> USE DEF vars, mapVars, timerVars, OnlyDispatcherSleeps
<1>0. /\ OnlyDispatcherSleeps
      /\ \A u \in Users : pc[u] = "stopping" => state_ \in {"STOPPING", "STOPPED"}
  BY Zenon DEF TimerInv, Control, UsersSee
<1>1. CASE /\ monitor_' \subseteq monitor_ \cup {Dispatcher}
           /\ state_' = "STARTED" => state_ = "STARTED"
  BY <1>0, <1>1, Zenon
<1>2. CASE Begin
  BY <1>0, <1>2, Zenon DEF Begin, NotifyAll
<1>3. ASSUME NEW t \in Timers, NEW r \in Runnables, NEW a \in Times, Add(t, r, a)
      PROVE  OnlyDispatcherSleeps'
  <2>1. monitor_' \subseteq monitor_ /\ UNCHANGED state_
    BY <1>3, WakingShrinks, Zenon DEF Add
  <2> QED
    BY <1>1, <2>1, Zenon
<1>4. CASE Spurious
  <2>1. monitor_' \subseteq monitor_ /\ UNCHANGED state_
    BY <1>4, WakingShrinks, Zenon DEF Spurious
  <2> QED
    BY <1>1, <2>1, Zenon
<1>5. CASE Exit
  BY <1>1, <1>5, Zenon DEF Exit, ExitWakes, NotifyAll
<1>6. ASSUME NEW u \in Users, Stop(u) PROVE OnlyDispatcherSleeps'
  BY <1>6, Zenon DEF Stop, StateAfterStop
<1>7. ASSUME NEW u \in Users, AwaitStart(u) \/ AwaitStop(u) PROVE OnlyDispatcherSleeps'
  BY <1>0, <1>7, Zenon DEF AwaitStart, AwaitStop
<1>8. ASSUME NEW u \in Users, Start(u) PROVE OnlyDispatcherSleeps'
  BY <1>1, <1>8, Zenon DEF Start
<1> QED
  BY <1>1, <1>2, <1>3, <1>4, <1>5, <1>6, <1>7, <1>8, Zenon
  DEF Next, DispatcherStep, Calls, UserStep, Sleep, TimesOut, TakeExpired, TakeNothing,
      RunTask, EndBatch, CheckState, Spawn, SpawnFails, CleanUp, Remove, RemoveHandle, Tick

LEMMA TimerWakes == TimerInv /\ [Next]_vars => NeverOversleeps'
<1> SUFFICES ASSUME TimerInv, [Next]_vars PROVE NeverOversleeps'
  BY Zenon
<1> USE DEF vars, mapVars, timerVars
<1>0. /\ TypeOK /\ NeverOversleeps /\ OnlyDispatcherSleeps
      /\ abstime \in [Timers -> Nat] /\ taskMap_ \subseteq Timers /\ clock \in Nat
      /\ wakeAt \in Nat \cup {None}
      /\ MS \in Nat \ {0} /\ None \notin Nat /\ Times \subseteq Nat
      /\ Dispatcher \in monitor_ => pc[Dispatcher] = "loop"
      /\ Dispatcher \notin Users
  BY ConstantsAssumption, Zenon DEF TimerInv, TypeOK, Control, Labels, DispatcherLabels
<1>1. CASE /\ UNCHANGED <<abstime, wakeAt>> /\ taskMap_' \subseteq taskMap_
           /\ Dispatcher \in monitor_' => Dispatcher \in monitor_
           /\ state_' = "STARTED" => state_ = "STARTED"
  BY <1>0, <1>1, Zenon DEF NeverOversleeps
<1>2. CASE Begin
  BY <1>0, <1>2, Zenon DEF Begin, NeverOversleeps, NotifyAll
<1>3. CASE Sleep
  <2>1. CASE taskMap_ = {}
    BY <1>3, <2>1, Zenon DEF Sleep, NeverOversleeps
  <2>2. CASE taskMap_ # {}
    <3>1. PICK first \in taskMap_ : /\ \A t \in taskMap_ : abstime[first] <= abstime[t]
                                    /\ wakeAt' = Timeout(abstime[first])
      BY <1>3, <2>2, Zenon DEF Sleep
    <3>2. wakeAt' \in Nat /\ wakeAt' < abstime[first] + MS
      <4>1. abstime[first] \in Nat /\ clock < abstime[first]
        BY <1>0, <1>3 DEF Sleep, Expired
      <4> QED
        BY <1>0, <3>1, <4>1, TimeoutBound, Zenon
    <3>3. \A t \in taskMap_ : abstime[t] \in Nat /\ abstime[first] \in Nat
      BY <1>0, Zenon
    <3>4. \A t \in taskMap_ : wakeAt' # None /\ wakeAt' < abstime[t] + MS
      BY <1>0, <3>1, <3>2, <3>3
    <3> QED
      BY <1>3, <3>4, Zenon DEF Sleep, NeverOversleeps
  <2> QED
    BY <2>1, <2>2, Zenon
<1>4. ASSUME NEW t \in Timers, NEW r \in Runnables, NEW a \in Times, Add(t, r, a)
      PROVE  NeverOversleeps'
  <2>1. /\ t \notin taskMap_ /\ taskMap_' = taskMap_ \cup {t} /\ wakeAt' = wakeAt
        /\ \A u \in taskMap_ : abstime'[u] = abstime[u]
        /\ abstime'[t] = a /\ a \in Nat /\ state_ = "STARTED"
    BY <1>0, <1>4, Zenon DEF Add, TypeOK
  <2>2. CASE NotifyRequired(t, a)
    <3>1. monitor_' \in Notify(monitor_) /\ monitor_ \subseteq {Dispatcher}
      BY <1>0, <1>4, <2>1, <2>2, Zenon DEF Add, OnlyDispatcherSleeps
    <3>2. Dispatcher \notin monitor_'
      BY <3>1, Zenon DEF Notify
    <3> QED
      BY <3>2, Zenon DEF NeverOversleeps
  <2>3. CASE ~NotifyRequired(t, a)
    <3>1. monitor_' = monitor_
      BY <1>4, <2>3, Zenon DEF Add
    <3>2. PICK u \in taskMap_ : ~(a < abstime[u])
      BY <2>3, Zenon DEF NotifyRequired
    <3>3. SUFFICES ASSUME Dispatcher \in monitor_, NEW v \in taskMap_ \cup {t}
                   PROVE  wakeAt # None /\ wakeAt < abstime'[v] + MS
      BY <2>1, <3>1, Zenon DEF NeverOversleeps
    <3>4. \A x \in taskMap_ : wakeAt # None /\ wakeAt < abstime[x] + MS
      BY <1>0, <2>1, <3>3, Zenon DEF NeverOversleeps
    <3>5. CASE v = t
      <4>1. abstime[u] \in Nat /\ abstime[u] <= a /\ wakeAt \in Nat
        BY <1>0, <2>1, <3>2, <3>4
      <4> QED
        BY <1>0, <2>1, <3>2, <3>4, <3>5, <4>1
    <3>6. CASE v \in taskMap_
      BY <2>1, <3>4, <3>6, Zenon
    <3> QED
      BY <3>5, <3>6, Zenon
  <2> QED
    BY <2>2, <2>3, Zenon
<1>5. CASE Spurious
  <2>1. monitor_' \subseteq monitor_
    BY <1>5, WakingShrinks, Zenon DEF Spurious
  <2> QED
    BY <1>1, <1>5, <2>1, Zenon DEF Spurious
<1>6. CASE TakeExpired
  BY <1>1, <1>6, Zenon DEF TakeExpired, Remaining
<1>7. CASE Exit
  BY <1>1, <1>7, Zenon DEF Exit, ExitWakes, NotifyAll
<1>8. ASSUME NEW u \in Users, Start(u) \/ Stop(u) PROVE NeverOversleeps'
  BY <1>1, <1>8, Zenon DEF Start, Stop, StateAfterStop, NotifyAll
<1>9. ASSUME NEW u \in Users, AwaitStart(u) \/ AwaitStop(u) PROVE NeverOversleeps'
  BY <1>0, <1>1, <1>9, Zenon DEF AwaitStart, AwaitStop
<1>10. ASSUME NEW u \in Users, Spawn(u) \/ SpawnFails(u) \/ CleanUp(u) PROVE NeverOversleeps'
  BY <1>1, <1>10, Zenon DEF Spawn, SpawnFails, CleanUp
<1>11. ASSUME NEW r \in Runnables, Remove(r) PROVE NeverOversleeps'
  BY <1>1, <1>11, Zenon DEF Remove
<1>12. ASSUME NEW t \in Timers, RemoveHandle(t) PROVE NeverOversleeps'
  BY <1>1, <1>12, Zenon DEF RemoveHandle
<1> QED
  BY <1>1, <1>2, <1>3, <1>4, <1>5, <1>6, <1>7, <1>8, <1>9, <1>10, <1>11, <1>12, Zenon
  DEF Next, DispatcherStep, Calls, UserStep, TimesOut, TakeNothing, RunTask, EndBatch,
      CheckState, Tick

LEMMA TimerInvariant == Spec => []TimerInv
<1>1. TimerInv /\ [Next]_vars => TimerInv'
  BY TimerTypes, TimerControl, TimerCount, TimerSleepers, TimerWakes, Zenon DEF TimerInv
<1> QED
  BY <1>1, TimerInit, PTL DEF Spec

-----------------------------------------------------------------------------
(* Every variable keeps its type, and the timers in the map are waiting:   *)
(* taskCount_, which is unsigned in the code, never wraps around.          *)
THEOREM TimerTypeCorrect == Spec => []TypeOK
<1>1. TimerInv => TypeOK
  BY Zenon DEF TimerInv
<1> QED
  BY <1>1, TimerInvariant, PTL

(* taskCount_, by which add() decides whether there is a first timer to    *)
(* compare with, is the size of the map until stop() clears it.            *)
THEOREM CountIsExact == Spec => []CountMatchesMap
<1>1. TimerInv => CountMatchesMap
  BY Zenon DEF TimerInv
<1> QED
  BY <1>1, TimerInvariant, PTL

(* The dispatcher never sleeps a millisecond past the time of a timer,     *)
(* whatever is added while it sleeps: the one notify() of add() cannot go  *)
(* to another thread.                                                      *)
THEOREM DispatcherWakesInTime == Spec => []NeverOversleeps
<1>1. TimerInv => NeverOversleeps
  BY Zenon DEF TimerInv
<1> QED
  BY <1>1, TimerInvariant, PTL

(* A stopped manager runs nothing: stop() takes the manager away from a    *)
(* dispatcher that has ended or never began.                               *)
THEOREM StopIsFinal == Spec => []StoppedIsQuiet
<1>1. TimerInv => StoppedIsQuiet
  BY Zenon DEF TimerInv, Control, Labels, DispatcherLabels, DispatcherSees, UsersSee, BatchInHand,
         StoppedIsQuiet
<1> QED
  BY <1>1, TimerInvariant, PTL
=============================================================================

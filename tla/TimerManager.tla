---------------------------- MODULE TimerManager ----------------------------
(***************************************************************************)
(* thrift::concurrency::TimerManager: a dispatcher thread that sleeps      *)
(* until the earliest timer is due and runs the timers that have expired,  *)
(* and callers that start it, add and remove timers, and stop it.          *)
(*                                                                         *)
(* Everything done under monitor_ is one action.  The dispatcher lets go   *)
(* of the monitor to run tasks and reads state_ without it at the end of   *)
(* its loop; stop() cleans up after it has let go of the monitor.          *)
(*                                                                         *)
(* The clock counts units smaller than a millisecond, as steady_clock      *)
(* does; the dispatcher sleeps for whole milliseconds of MS units.         *)
(***************************************************************************)
EXTENDS Monitor, Integers

CONSTANTS
    Users,              \* threads that call start() and stop()
    Timers,             \* TimerManager::Task objects; each is added once
    Runnables,          \* what the timers run
    Times,              \* the times timers are set to
    MaxClock,           \* where the clock stops: a bound of the model
    MS,                 \* clock units in a millisecond
    Dispatcher,         \* the dispatcher thread
    None

ASSUME ConstantsAssumption ==
    /\ Dispatcher \notin Users
    /\ IsFiniteSet(Timers)
    /\ None \notin Runnables /\ None \notin Nat
    /\ Times \subseteq Nat /\ MaxClock \in Nat /\ MS \in Nat \ {0}

Threads == Users \cup {Dispatcher}

VARIABLES
    state_,
    taskMap_,           \* the timers in the map, sorted by abstime
    taskCount_,
    abstime, runnable_, \* when a timer is due and what it runs
    taskState,          \* Task::state_; "absent" before add()
    expiredTasks,       \* the batch the dispatcher took out of the map
    monitor_,           \* the threads that sleep on it
    wakeAt,             \* when the dispatcher's wait times out; None: never
    doStop,             \* the users whose stop() has to clean up
    manager_,           \* whether the dispatcher still refers to the manager
    clock,
    pc

timerVars == <<abstime, runnable_, taskState>>
mapVars == <<taskMap_, taskCount_, timerVars>>
vars == <<state_, mapVars, expiredTasks, monitor_, wakeAt, doStop, manager_, clock, pc>>

Init ==
    /\ state_ = "UNINITIALIZED"
    /\ taskMap_ = {} /\ taskCount_ = 0
    /\ abstime = [t \in Timers |-> 0]
    /\ runnable_ = [t \in Timers |-> None]
    /\ taskState = [t \in Timers |-> "absent"]
    /\ expiredTasks = {}
    /\ monitor_ = {} /\ wakeAt = None
    /\ doStop = {} /\ manager_ = TRUE
    /\ clock = 0
    /\ pc = [th \in Threads |-> IF th = Dispatcher THEN "off" ELSE "idle"]

Goto(th, label) == pc' = [pc EXCEPT ![th] = label]

-----------------------------------------------------------------------------
(* Dispatcher::run                                                         *)

Begin ==
    /\ pc[Dispatcher] = "run"
    /\ \/ /\ state_ = "STARTING" /\ state_' = "STARTED"
          /\ monitor_' \in NotifyAll(monitor_)
       \/ state_ # "STARTING" /\ UNCHANGED <<state_, monitor_>>
    /\ Goto(Dispatcher, "loop")
    /\ UNCHANGED <<mapVars, expiredTasks, wakeAt, doStop, manager_, clock>>

Expired == {t \in taskMap_ : abstime[t] <= clock}    \* before upper_bound(now)

(* Mutated Timeout: a rest of less than a millisecond is cut to nothing,   *)
(* and waitForTimeRelative(0) waits for a notify only.                     *)
TimeoutCutOff(due) ==
    LET whole == (due - clock) \div MS
    IN  IF whole = 0 THEN None ELSE clock + whole * MS

(* The timeout is cut to whole milliseconds, and at least one of them.     *)
Timeout(due) ==
    LET whole == (due - clock) \div MS
    IN  clock + (IF whole = 0 THEN 1 ELSE whole) * MS

(* Nothing is due: sleep until the first timer is, or until a notify.      *)
Sleep ==
    /\ pc[Dispatcher] = "loop" /\ Dispatcher \notin monitor_
    /\ state_ = "STARTED" /\ Expired = {}
    /\ \/ taskMap_ = {} /\ wakeAt' = None
       \/ \E first \in taskMap_ :
             /\ \A t \in taskMap_ : abstime[first] <= abstime[t]
             /\ wakeAt' = Timeout(abstime[first])
    /\ monitor_' = monitor_ \cup {Dispatcher}
    /\ UNCHANGED <<state_, mapVars, expiredTasks, doStop, manager_, clock, pc>>

TimesOut ==
    /\ Dispatcher \in monitor_ /\ wakeAt # None /\ wakeAt <= clock
    /\ monitor_' = monitor_ \ {Dispatcher}
    /\ UNCHANGED <<state_, mapVars, expiredTasks, wakeAt, doStop, manager_, clock, pc>>

(* Mutated Remaining: the timers that are run stay in the map.             *)
RemainingAll == taskMap_

Remaining == taskMap_ \ Expired

(* All timers that are due leave the map ...                               *)
TakeExpired ==
    /\ pc[Dispatcher] = "loop" /\ Dispatcher \notin monitor_
    /\ state_ = "STARTED" /\ Expired # {}
    /\ expiredTasks' = Expired
    /\ taskState' = [t \in Timers |-> IF t \in Expired /\ taskState[t] = "WAITING"
                                      THEN "EXECUTING" ELSE taskState[t]]
    /\ taskMap_' = Remaining
    /\ taskCount_' = taskCount_ - Cardinality(Expired)
    /\ Goto(Dispatcher, "execute")
    /\ UNCHANGED <<state_, abstime, runnable_, monitor_, wakeAt, doStop,
                   manager_, clock>>

(* ... or there is nothing to run and the loop ends, because the manager   *)
(* is stopping; what was seen under the monitor is not missed right after. *)
TakeNothing ==
    /\ pc[Dispatcher] = "loop" /\ Dispatcher \notin monitor_
    /\ state_ # "STARTED"
    /\ Goto(Dispatcher, "exit")
    /\ UNCHANGED <<state_, mapVars, expiredTasks, monitor_, wakeAt, doStop, manager_, clock>>

(* The batch is ordered by address, not by time: any order.                *)
RunTask(t) ==
    /\ pc[Dispatcher] = "execute" /\ t \in expiredTasks
    /\ taskState[t] = "EXECUTING"
    /\ taskState' = [taskState EXCEPT ![t] = "COMPLETE"]
    /\ UNCHANGED <<state_, taskMap_, taskCount_, abstime, runnable_,
                   expiredTasks, monitor_, wakeAt, doStop, manager_, clock, pc>>

EndBatch ==
    /\ pc[Dispatcher] = "execute"
    /\ \A t \in expiredTasks : taskState[t] # "EXECUTING"
    /\ expiredTasks' = {}
    /\ Goto(Dispatcher, "check")
    /\ UNCHANGED <<state_, mapVars, monitor_, wakeAt, doStop, manager_, clock>>

(* while (state_ == STARTED), read without the monitor: the read may miss  *)
(* that stop() has just changed it.                                        *)
CheckState ==
    /\ pc[Dispatcher] = "check"
    /\ \/ Goto(Dispatcher, "loop")
       \/ state_ # "STARTED" /\ Goto(Dispatcher, "exit")
    /\ UNCHANGED <<state_, mapVars, expiredTasks, monitor_, wakeAt, doStop, manager_, clock>>

(* Mutated ExitWakes: wakes one of the threads that wait for the end.      *)
ExitWakesOne == Notify(monitor_)

ExitWakes == NotifyAll(monitor_)

Exit ==
    /\ pc[Dispatcher] = "exit"
    /\ state_' = IF state_ = "STOPPING" THEN "STOPPED" ELSE state_
    /\ monitor_' \in IF state_ = "STOPPING" THEN ExitWakes ELSE {monitor_}
    /\ Goto(Dispatcher, "done")
    /\ UNCHANGED <<mapVars, expiredTasks, wakeAt, doStop, manager_, clock>>

-----------------------------------------------------------------------------
(* start() and stop()                                                      *)

Start(u) ==
    /\ pc[u] = "idle"
    /\ \/ /\ state_ = "UNINITIALIZED" /\ state_' = "STARTING"
          /\ Goto(u, "spawn")
       \/ /\ state_ # "UNINITIALIZED" /\ UNCHANGED state_
          /\ Goto(u, "starting")
    /\ UNCHANGED <<mapVars, expiredTasks, monitor_, wakeAt, doStop, manager_, clock>>

(* The dispatcher thread is started outside the monitor ...                *)
Spawn(u) ==
    /\ pc[u] = "spawn"
    /\ pc' = [pc EXCEPT ![u] = "starting", ![Dispatcher] = "run"]
    /\ UNCHANGED <<state_, mapVars, expiredTasks, monitor_, wakeAt, doStop, manager_, clock>>

(* ... or cannot be: start() throws and state_ stays what it is.           *)
SpawnFails(u) ==
    /\ pc[u] = "spawn"
    /\ pc' = [pc EXCEPT ![u] = "idle", ![Dispatcher] = "failed"]
    /\ UNCHANGED <<state_, mapVars, expiredTasks, monitor_, wakeAt, doStop, manager_, clock>>

AwaitStart(u) ==
    /\ pc[u] = "starting" /\ u \notin monitor_
    /\ \/ state_ = "STARTING" /\ monitor_' = monitor_ \cup {u} /\ UNCHANGED pc
       \/ state_ # "STARTING" /\ Goto(u, "idle") /\ UNCHANGED monitor_
    /\ UNCHANGED <<state_, mapVars, expiredTasks, wakeAt, doStop, manager_, clock>>

(* Mutated StateAfterStop: does not wait for the dispatcher to finish.     *)
StateAfterStopAtOnce == "STOPPED"

StateAfterStop ==
    CASE state_ \in {"UNINITIALIZED", "STOPPED"} -> "STOPPED"
      [] OTHER -> "STOPPING"

(* The first stop() of a running manager also has to clean up.             *)
Stop(u) ==
    /\ pc[u] = "idle"
    /\ state_' = StateAfterStop
    /\ \/ /\ state_ \in {"STARTING", "STARTED"}
          /\ doStop' = doStop \cup {u}
          /\ monitor_' \in NotifyAll(monitor_)
       \/ /\ state_ \notin {"STARTING", "STARTED"}
          /\ UNCHANGED <<doStop, monitor_>>
    /\ Goto(u, "stopping")
    /\ UNCHANGED <<mapVars, expiredTasks, wakeAt, manager_, clock>>

AwaitStop(u) ==
    /\ pc[u] = "stopping" /\ u \notin monitor_
    /\ \/ state_ # "STOPPED" /\ monitor_' = monitor_ \cup {u} /\ UNCHANGED pc
       \/ /\ state_ = "STOPPED"
          /\ Goto(u, IF u \in doStop THEN "cleanup" ELSE "idle")
          /\ UNCHANGED monitor_
    /\ UNCHANGED <<state_, mapVars, expiredTasks, wakeAt, doStop, manager_, clock>>

(* Outside the monitor; taskCount_ keeps its value.                        *)
CleanUp(u) ==
    /\ pc[u] = "cleanup"
    /\ taskMap_' = {} /\ manager_' = FALSE
    /\ doStop' = doStop \ {u}
    /\ Goto(u, "idle")
    /\ UNCHANGED <<state_, taskCount_, timerVars, expiredTasks, monitor_, wakeAt, clock>>

-----------------------------------------------------------------------------
(* add() and remove(), called by any thread, timer tasks included.  A call *)
(* that throws changes nothing.                                            *)

(* Mutated NotifyRequired: tests the map when the timer is in it.          *)
NotifyRequiredLate(t, a) ==
    \A u \in taskMap_ \cup {t} : a < (IF u = t THEN a ELSE abstime[u])

NotifyRequired(t, a) == taskCount_ = 0 \/ \A u \in taskMap_ : a < abstime[u]

(* The time was compared with the clock before the monitor was entered, so *)
(* that it may be over by now.                                             *)
Add(t, r, a) ==
    /\ state_ = "STARTED"
    /\ taskState[t] = "absent"
    /\ taskState' = [taskState EXCEPT ![t] = "WAITING"]
    /\ runnable_' = [runnable_ EXCEPT ![t] = r]
    /\ abstime' = [abstime EXCEPT ![t] = a]
    /\ taskMap_' = taskMap_ \cup {t}
    /\ taskCount_' = taskCount_ + 1
    /\ monitor_' \in IF NotifyRequired(t, a) THEN Notify(monitor_) ELSE {monitor_}
    /\ UNCHANGED <<state_, expiredTasks, wakeAt, doStop, manager_, clock, pc>>

(* remove(task): all timers in the map that run the runnable.              *)
Remove(r) ==
    LET found == {t \in taskMap_ : runnable_[t] = r}
    IN  /\ state_ = "STARTED" /\ found # {}
        /\ taskMap_' = taskMap_ \ found
        /\ taskCount_' = taskCount_ - Cardinality(found)
        /\ UNCHANGED <<state_, timerVars, expiredTasks, monitor_, wakeAt, doStop,
                       manager_, clock, pc>>

(* Mutated RemoveHandle: forgets the count.                                *)
RemoveHandleUncounted(t) ==
    /\ state_ = "STARTED" /\ t \in taskMap_
    /\ taskMap_' = taskMap_ \ {t}
    /\ UNCHANGED <<state_, taskCount_, timerVars, expiredTasks, monitor_, wakeAt, doStop,
                   manager_, clock, pc>>

(* remove(handle): throws when the Task is gone, or in expiredTasks.       *)
RemoveHandle(t) ==
    /\ state_ = "STARTED" /\ t \in taskMap_
    /\ taskMap_' = taskMap_ \ {t}
    /\ taskCount_' = taskCount_ - 1
    /\ UNCHANGED <<state_, timerVars, expiredTasks, monitor_, wakeAt, doStop, manager_,
                   clock, pc>>

Tick ==
    /\ clock < MaxClock
    /\ clock' = clock + 1
    /\ UNCHANGED <<state_, mapVars, expiredTasks, monitor_, wakeAt, doStop, manager_, pc>>

Spurious ==
    /\ monitor_ # {}
    /\ monitor_' \in SpuriousWakeup(monitor_)
    /\ UNCHANGED <<state_, mapVars, expiredTasks, wakeAt, doStop, manager_, clock, pc>>

DispatcherStep ==
    \/ Begin \/ Sleep \/ TimesOut \/ TakeExpired \/ TakeNothing
    \/ \E t \in Timers : RunTask(t)
    \/ EndBatch \/ CheckState \/ Exit

UserStep(u) == Spawn(u) \/ AwaitStart(u) \/ AwaitStop(u) \/ CleanUp(u)

Calls ==
    \/ \E u \in Users : Start(u) \/ Stop(u)
    \/ \E t \in Timers, r \in Runnables, a \in Times : Add(t, r, a)
    \/ \E r \in Runnables : Remove(r)
    \/ \E t \in Timers : RemoveHandle(t)

Next ==
    \/ DispatcherStep \/ Calls \/ Tick \/ Spurious
    \/ \E u \in Users : UserStep(u) \/ SpawnFails(u)

Spec == Init /\ [][Next]_vars

(* Time goes on, tasks end, and every thread that can run does.  A thread  *)
(* is not kept from the monitor for ever by the others.                    *)
Fairness ==
    /\ WF_vars(Tick) /\ SF_vars(DispatcherStep)
    /\ \A u \in Users : SF_vars(UserStep(u))

FairSpec == Spec /\ Fairness

-----------------------------------------------------------------------------
(* Properties                                                              *)

States == {"UNINITIALIZED", "STARTING", "STARTED", "STOPPING", "STOPPED"}

(* Every variable has its type, a timer in the map is waiting, and only    *)
(* the thread that is at a wait() is in the wait set.                      *)
TypeOK ==
    /\ state_ \in States
    /\ taskMap_ \subseteq Timers /\ taskCount_ \in Nat
    /\ abstime \in [Timers -> Nat]
    /\ runnable_ \in [Timers -> Runnables \cup {None}]
    /\ taskState \in [Timers -> {"absent", "WAITING", "EXECUTING", "COMPLETE"}]
    /\ \A t \in taskMap_ : taskState[t] = "WAITING"
    /\ expiredTasks \subseteq Timers
    /\ monitor_ \subseteq Threads
    /\ wakeAt \in Nat \cup {None}
    /\ doStop \subseteq Users /\ manager_ \in BOOLEAN
    /\ clock \in Nat
    /\ pc \in [Threads -> {"off", "run", "loop", "execute", "check", "exit", "done",
                           "failed", "idle", "spawn", "starting", "stopping", "cleanup"}]
    /\ \A th \in monitor_ : pc[th] \in {"loop", "starting", "stopping"}

(* Until stop() clears the map, taskCount_ is the number of timers in it:  *)
(* add() looks at the first timer of the map when the count is not zero.   *)
CountMatchesMap ==
    state_ # "STOPPED" => taskCount_ = Cardinality(taskMap_)

(* Part of the inductive invariant of the proofs: while the manager runs,  *)
(* nobody but the dispatcher sleeps on monitor_, so that the one notify()  *)
(* of add() reaches the dispatcher.                                        *)
OnlyDispatcherSleeps == state_ = "STARTED" => monitor_ \subseteq {Dispatcher}

(* A sleeping dispatcher wakes up less than a millisecond after the time   *)
(* of any timer, also of one that was added after it went to sleep.        *)
NeverOversleeps ==
    state_ = "STARTED" /\ Dispatcher \in monitor_ =>
        \A t \in taskMap_ : wakeAt # None /\ wakeAt < abstime[t] + MS

(* Once the manager is stopped, no timer task runs or will run, and the    *)
(* dispatcher thread does not touch the manager any more, which stop() is  *)
(* about to take away from it.                                             *)
StoppedIsQuiet ==
    state_ = "STOPPED" \/ ~manager_ =>
        expiredTasks = {} /\ pc[Dispatcher] \in {"off", "done"}

(* start() and stop() return, whatever else is called at the same time,    *)
(* unless the dispatcher thread could not be started.                      *)
CallsReturn ==
    \A u \in Users :
        pc[u] # "idle" ~> pc[u] = "idle" \/ pc[Dispatcher] = "failed"

(* A timer that is in the map leaves it when its time has come: it is run, *)
(* removed, or dropped by stop().                                          *)
TimersFire == \A t \in Timers : t \in taskMap_ ~> t \notin taskMap_
=============================================================================

------------------------------ MODULE Monitor ------------------------------
(***************************************************************************)
(* The condition variables of thrift::concurrency::Monitor.                *)
(*                                                                         *)
(* A monitor is represented by its wait set: the threads that are blocked  *)
(* in wait() and have not been signalled.  A thread that has been          *)
(* signalled leaves the wait set at once and still has to take the mutex   *)
(* again before wait() returns.  Because the code lets the implementation  *)
(* choose the thread a notify() wakes, each operator returns the SET of    *)
(* wait sets that may result.                                              *)
(***************************************************************************)
EXTENDS Naturals, FiniteSets

(* notify(): wakes one waiting thread; does nothing when there is none.    *)
Notify(waiters) ==
    IF waiters = {} THEN {{}} ELSE {waiters \ {th} : th \in waiters}

(* n calls of notify() in a row while the mutex is held.                   *)
NotifyTimes(waiters, n) ==
    {rest \in SUBSET waiters :
        Cardinality(waiters \ rest) =
            IF n < Cardinality(waiters) THEN n ELSE Cardinality(waiters)}

(* notifyAll(): wakes every waiting thread.                                *)
NotifyAll(waiters) == {{}}

(* The condition variable may also return from wait() without a signal.    *)
SpuriousWakeup(waiters) == {waiters \ {th} : th \in waiters}
=============================================================================

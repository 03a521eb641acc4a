------------------------------ MODULE TaskPool ------------------------------
(***************************************************************************)
(* What a ThreadManager promises about the tasks it is given, without      *)
(* threads, locks and condition variables: a bounded queue that is served  *)
(* in order by a fixed number of slots.  A task is run at most once, by    *)
(* one slot, and only while it is not overdue; what leaves the queue in    *)
(* another way is overdue or was withdrawn.                                *)
(***************************************************************************)
EXTENDS Naturals, Sequences

CONSTANTS Tasks, Slots, Capacity, Idle

VARIABLES
    queue,      \* the tasks that wait, the oldest first
    outcome,    \* what has become of each task
    overdue,    \* the tasks whose time is over
    runs        \* the task each slot runs

poolVars == <<queue, outcome, overdue, runs>>

Init ==
    /\ queue = <<>>
    /\ outcome = [t \in Tasks |-> "new"]
    /\ overdue = {}
    /\ runs = [s \in Slots |-> Idle]

HasRoom == Capacity = 0 \/ Len(queue) < Capacity

Without(q, i) == SubSeq(q, 1, i - 1) \o SubSeq(q, i + 1, Len(q))

Submit(t) ==
    /\ outcome[t] = "new" /\ HasRoom
    /\ queue' = Append(queue, t)
    /\ outcome' = [outcome EXCEPT ![t] = "pending"]
    /\ UNCHANGED <<overdue, runs>>

(* In a full queue an overdue task makes way for a new one.                *)
SubmitInPlace(t, i) ==
    /\ outcome[t] = "new" /\ ~HasRoom
    /\ queue[i] \in overdue
    /\ queue' = Append(Without(queue, i), t)
    /\ outcome' = [outcome EXCEPT ![t] = "pending", ![queue[i]] = "expired"]
    /\ UNCHANGED <<overdue, runs>>

Drop(i) ==
    /\ queue[i] \in overdue
    /\ queue' = Without(queue, i)
    /\ outcome' = [outcome EXCEPT ![queue[i]] = "expired"]
    /\ UNCHANGED <<overdue, runs>>

Withdraw(i) ==
    /\ queue' = Without(queue, i)
    /\ outcome' = [outcome EXCEPT ![queue[i]] = "removed"]
    /\ UNCHANGED <<overdue, runs>>

Begin(s) ==
    /\ runs[s] = Idle
    /\ queue # <<>> /\ Head(queue) \notin overdue
    /\ queue' = Tail(queue)
    /\ outcome' = [outcome EXCEPT ![Head(queue)] = "executing"]
    /\ runs' = [runs EXCEPT ![s] = Head(queue)]
    /\ UNCHANGED overdue

Complete(s) ==
    /\ runs[s] # Idle
    /\ outcome' = [outcome EXCEPT ![runs[s]] = "complete"]
    /\ runs' = [runs EXCEPT ![s] = Idle]
    /\ UNCHANGED <<queue, overdue>>

(* The time of a task that waits runs out.                                 *)
Elapse(t) ==
    /\ outcome[t] = "pending"
    /\ overdue' = overdue \cup {t}
    /\ UNCHANGED <<queue, outcome, runs>>

Next ==
    \/ \E t \in Tasks : Submit(t) \/ Elapse(t)
    \/ \E t \in Tasks, i \in 1..Len(queue) : SubmitInPlace(t, i)
    \/ \E i \in 1..Len(queue) : Drop(i) \/ Withdraw(i)
    \/ \E s \in Slots : Begin(s) \/ Complete(s)

Spec == Init /\ [][Next]_poolVars
=============================================================================

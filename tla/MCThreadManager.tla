--------------------------- MODULE MCThreadManager --------------------------
(* Instances of ThreadManager for model checking.                          *)
EXTENDS ThreadManager, TLC

CONSTANTS w1, w2, c1, c2, a1, t1, t2, t3, r1, r2

(* t1 and t2 wrap the same Runnable.                                       *)
MCRunnableOf == [t \in Tasks |-> IF t \in {t1, t2} THEN r1 ELSE r2]

(* One thread makes every call that manages the pool.                      *)
OneAdmin == [a \in Admins |-> {"start", "stop", "addWorker", "removeWorker"}]
=============================================================================

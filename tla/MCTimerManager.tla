--------------------------- MODULE MCTimerManager ---------------------------
(***************************************************************************)
(* Instances of TimerManager for TLC.                                      *)
(***************************************************************************)
EXTENDS TimerManager, TLC

CONSTANTS u1, u2, m1, m2, m3, r1, r2
=============================================================================

------------------------- MODULE MCConcurrentClient -------------------------
(* Instances of ConcurrentClient for model checking.                       *)
EXTENDS ConcurrentClient, TLC

CONSTANTS p1, p2, p3

(* int32_t shrunk to eight values, the first call close to the rollover.   *)
MCSeqMin == -4
MCSeqMax == 3
=============================================================================

------------------------- MODULE MCNonblockingServer -------------------------
(***************************************************************************)
(* Instances of NonblockingServer for TLC.                                 *)
(***************************************************************************)
EXTENDS NonblockingServer, TLC

CONSTANTS k1, k2, o1, o2, w1

(* The IO threads process requests themselves; or a pool does, with a      *)
(* queue so short that the IO threads wait for it, except where overload   *)
(* drains the queue and a waiting thread would not be woken.               *)
MCConfigurations ==
    {<<"none", FALSE, 1>>, <<"none", TRUE, 1>>, <<"close", TRUE, 1>>, <<"drain", TRUE, 0>>}
=============================================================================

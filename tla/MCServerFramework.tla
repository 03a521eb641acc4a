------------------------- MODULE MCServerFramework --------------------------
(* An instance of ServerFramework for model checking.                      *)
EXTENDS ServerFramework, TLC

CONSTANTS k1, k2
=============================================================================

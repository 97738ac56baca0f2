-------------------------------- MODULE MCFx --------------------------------
(***************************************************************************)
(* An instance of the exchange rates and the worker's cycle for TLC.       *)
(***************************************************************************)
EXTENDS Fx, TLC

CONSTANTS w1, w2

ConvertedAmounts == {-3, 1, 2}
=============================================================================

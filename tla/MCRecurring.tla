---------------------------- MODULE MCRecurring -----------------------------
(***************************************************************************)
(* Instances of recurring generation for TLC.                              *)
(***************************************************************************)
EXTENDS Recurring

CONSTANTS a1, c1, c2
=============================================================================

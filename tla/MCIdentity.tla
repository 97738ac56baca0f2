----------------------------- MODULE MCIdentity -----------------------------
(***************************************************************************)
(* An instance of users, sessions and the second factor for TLC.           *)
(***************************************************************************)
EXTENDS Identity, TLC

CONSTANTS u1, e1, r1, r2, s1, s2

Symmetry == Permutations(Requests) \cup Permutations(SessionIds)
=============================================================================

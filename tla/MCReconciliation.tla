-------------------------- MODULE MCReconciliation --------------------------
(***************************************************************************)
(* Instances of reconciliation for TLC.                                    *)
(***************************************************************************)
EXTENDS Reconciliation, TLC

CONSTANTS a1, c1, c2, k1, k2, r1, r2, r3

Symmetry == Permutations(Categories) \cup Permutations(Keys)
                \cup Permutations(ReconciliationKeys)
=============================================================================

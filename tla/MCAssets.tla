------------------------------ MODULE MCAssets ------------------------------
(***************************************************************************)
(* Instances of the assets and the dashboard for TLC.                      *)
(***************************************************************************)
EXTENDS Dashboard, TLC

CONSTANTS a1, a2, c1, c2, k1, k2, x1, x2

Symmetry == Permutations(UserAccounts) \cup Permutations(Categories)
                \cup Permutations(Keys) \cup Permutations(AssetIds)
=============================================================================

------------------------------ MODULE MCLedger ------------------------------
(***************************************************************************)
(* Instances of the ledger for TLC.                                        *)
(***************************************************************************)
EXTENDS LedgerBook, TLC

CONSTANTS a1, c1, c2, c3, k1, k2, k3

Symmetry == Permutations(Categories) \cup Permutations(Keys)

\* Bound: once every category is in use, no handler runs on a journal of two.
Narrow ==
    \/ Len(journal) <= 1
    \/ \E c \in Categories : accounts[c].status = "absent"
=============================================================================

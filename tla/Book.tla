-------------------------------- MODULE Book --------------------------------
(***************************************************************************)
(* What the ledger promises its user: a book of operations that can be     *)
(* recorded, deleted and edited in place, and for every account and date a *)
(* balance that is kept up to date with each of them (ADR 0002: "UI edit   *)
(* and delete actions").  The append-only journal of module Ledger         *)
(* implements it.                                                          *)
(***************************************************************************)
EXTENDS Integers, FiniteSetsExt

CONSTANTS Accounts, BalanceDates

VARIABLES
    operations,  \* the operations that count: [id, date, movement]
    balance      \* balance[a][d]: balance of account a at the end of date d

bookVars == <<operations, balance>>

BookInit ==
    /\ operations = {}
    /\ balance = [a \in Accounts |-> [d \in BalanceDates |-> 0]]

\* No operation creates or destroys money.
Conserves(op) == MapThenSumSet(LAMBDA a : op.movement[a], Accounts) = 0

Effect(op, a, d) == IF op.date <= d THEN op.movement[a] ELSE 0

Record(op) ==
    /\ op \notin operations
    /\ Conserves(op)
    /\ operations' = operations \cup {op}
    /\ balance' = [a \in Accounts |-> [d \in BalanceDates |->
                      balance[a][d] + Effect(op, a, d)]]

Delete(op) ==
    /\ op \in operations
    /\ operations' = operations \ {op}
    /\ balance' = [a \in Accounts |-> [d \in BalanceDates |->
                      balance[a][d] - Effect(op, a, d)]]

Edit(old, new) ==
    /\ old \in operations
    /\ new \notin operations
    /\ Conserves(new)
    /\ operations' = (operations \ {old}) \cup {new}
    /\ balance' = [a \in Accounts |-> [d \in BalanceDates |->
                      balance[a][d] - Effect(old, a, d) + Effect(new, a, d)]]

BookNext ==
    \/ \E op \in operations' \ operations : Record(op)
    \/ \E op \in operations \ operations' : Delete(op)
    \/ \E old \in operations \ operations', new \in operations' \ operations :
          Edit(old, new)

BookSpec == BookInit /\ [][BookNext]_bookVars
=============================================================================

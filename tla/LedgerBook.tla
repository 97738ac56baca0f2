----------------------------- MODULE LedgerBook -----------------------------
(***************************************************************************)
(* The journal seen as a book.  An operation of the book is a transaction  *)
(* that counts; the balances are the sums the handlers compute over the    *)
(* whole journal, reversals included.                                      *)
(***************************************************************************)
EXTENDS Ledger

BookOperation(i) ==
    [id |-> i, date |-> journal[i].date,
     movement |-> [a \in LedgerAccounts |-> Delta(journal[i], a)]]

TheBook == INSTANCE Book WITH
    Accounts     <- LedgerAccounts,
    BalanceDates <- Dates,
    operations   <- {BookOperation(i) : i \in Live(journal)},
    balance      <- [a \in LedgerAccounts |->
                        [d \in Dates |-> BalanceAt(journal, a, d)]]

\* The append-only journal implements the editable book: every handler records,
\* deletes or edits at most one operation, conserves money, and moves every
\* balance at every date by exactly that change (ledger.go, postJournal,
\* postReversal and ReplaceTransaction).
ImplementsBook == TheBook!BookSpec
=============================================================================

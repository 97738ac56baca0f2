--------------------------- MODULE Reconciliation ---------------------------
(***************************************************************************)
(* Month-end reconciliation of bank and cash accounts on top of the ledger *)
(* (internal/httpapi/reconciliation.go, and the worker's clean-up of       *)
(* previews in cmd/worker/main.go).                                        *)
(*                                                                         *)
(* A user reports the balance of an account at the end of a month; the     *)
(* application posts the difference.  In AUTO mode this happens at once,   *)
(* in CONFIRM mode a preview is stored first and applied by a second       *)
(* request, which may come after any other activity on the ledger.         *)
(*                                                                         *)
(* reconciliation_mode can be changed at any time and has no other effect, *)
(* so each submission may take either mode.  Gap months are metadata that  *)
(* no balance depends on; module Calendar treats them.                     *)
(***************************************************************************)
EXTENDS Ledger

CONSTANTS
    CashAccounts,         \* user accounts with subtype bank or cash
    MonthEnds,            \* dates that are the last day of a month
    ReportedBalances,     \* balances a user may report
    ReconciliationKeys,   \* idempotency keys of reconciliation requests
    MaxReconciliations    \* bound on the number of reconciliations

ASSUME ReconciliationConstants ==
    /\ CashAccounts \subseteq UserAccounts
    /\ MonthEnds \subseteq Dates
    /\ ReportedBalances \subseteq Int
    /\ UniqueKeys => ReconciliationKeys \cap Keys = {}
    /\ MaxReconciliations \in Nat

\* The keys that the server draws or derives itself are none a client sends.
ASSUME DerivedReconciliationKeys ==
    \A k \in ReconciliationKeys :
        /\ k \notin {"setup", "fresh"} \X UserAccounts
        /\ \A c \in 1 .. MaxReconciliations :
              <<"reconciliation-reversal", c, k>> \notin Keys \cup ReconciliationKeys

VARIABLES
    reconciliations,  \* the reconciliations table, in order of insertion
    previews,         \* reconciliation_previews, by idempotency key
    thisMonth         \* end of the current month in the user's time zone

reconciliationVars == <<reconciliations, previews, thisMonth>>

vars == <<ledgerVars, reconciliationVars>>

NoPreview ==
    [status |-> "none", account |-> "NONE", period |-> 0, reported |-> 0,
     ledger |-> 0, difference |-> 0, current |-> 0]

\* activeReconciliationID: the row that is not superseded; 0 when there is none.
ActiveReconciliations(recs, a, period) ==
    {r \in DOMAIN recs :
        /\ recs[r].account = a
        /\ recs[r].period = period
        /\ ~recs[r].superseded}

ActiveReconciliation(recs, a, period) ==
    LET active == ActiveReconciliations(recs, a, period)
    IN  IF active = {} THEN 0 ELSE CHOOSE r \in active : TRUE

ReconciledWith(key) ==
    \E r \in DOMAIN reconciliations : reconciliations[r].key = key

LockReconciliationAccount(a) ==
    /\ a \in CashAccounts
    /\ accounts[a].class = "ASSET"
    /\ IsActive(accounts, a)

ValidPeriod(period) == period \in MonthEnds /\ period <= thisMonth

\* Mutant: off by one.
TransactionBefore(j, key) == Len(j) - 1

TransactionWithKey(j, key) == CHOOSE i \in DOMAIN j : j[i].key = key

(***************************************************************************)
(* applyReconciliation: a key that is already reconciled changes nothing;  *)
(* otherwise reverse the adjustment of the reconciliation that is          *)
(* replaced, post the adjustment that leads from the remaining balance to  *)
(* the reported one, and insert the new reconciliation.                    *)
(***************************************************************************)
Adjustment(a, period, amount, key) ==
    LET counterpart == IF amount > 0 THEN "OTHER_INCOME" ELSE "OTHER_EXPENSE"
    IN  JournalSpec("RECONCILIATION", period, key, 0, 0,
            <<Entry(a, amount, accounts[a].currency),
              Entry(counterpart, -amount, accounts[a].currency)>>)

ReversalKey(current, key) == <<"reconciliation-reversal", current, key>>

\* Mutant: the prior adjustment stays.
AdjustmentKept(old, reversal) == journal

\* The journal after the adjustment that is replaced has been reversed.
WithoutAdjustment(old, reversal) ==
    IF old = 0 THEN journal ELSE PostJournal(journal, reversal)

\* Mutant: the balance is read before the reversal.
StaleAdjustmentAmount(cleared, a, period, reported) ==
    reported - BalanceAt(journal, a, period)

AdjustmentAmount(cleared, a, period, reported) ==
    reported - BalanceAt(cleared, a, period)

ApplyReconciliation(a, period, reported, key) ==
    LET current  == ActiveReconciliation(reconciliations, a, period)
        old      == IF current = 0 THEN 0 ELSE reconciliations[current].transaction
        reversal == ReversalOf(journal, old, ReversalKey(current, key))
        cleared  == WithoutAdjustment(old, reversal)
        amount   == AdjustmentAmount(cleared, a, period, reported)
        spec     == Adjustment(a, period, amount, key)
        posted   == IF amount = 0 THEN cleared ELSE PostJournal(cleared, spec)
        row      == [account |-> a, period |-> period, reported |-> reported,
                     key |-> key, supersedes |-> current, superseded |-> FALSE,
                     transaction |-> IF amount = 0 THEN 0
                                     ELSE TransactionWithKey(posted, key)]
    IN  IF ReconciledWith(key) THEN UNCHANGED <<journal, reconciliations>> ELSE
        /\ Len(reconciliations) < MaxReconciliations
        /\ old # 0 => /\ Reversible(journal, old)
                      /\ Accepted(journal, accounts, reversal)
        /\ amount # 0 => Accepted(cleared, accounts, spec)
        /\ journal' = posted
        /\ reconciliations' =
              Append([r \in DOMAIN reconciliations |->
                         [reconciliations[r] EXCEPT
                             !.superseded = @ \/ r = current]], row)

-----------------------------------------------------------------------------
ReconciliationInit ==
    /\ Init
    /\ reconciliations = <<>>
    /\ previews = [k \in ReconciliationKeys |-> NoPreview]
    /\ thisMonth \in MonthEnds

\* A key that has a reconciliation or a preview gets the stored answer back.
CanPrepare(a, period, key) ==
    /\ ValidPeriod(period)
    /\ ~ReconciledWith(key)
    /\ previews[key].status = "none"
    /\ LockReconciliationAccount(a)
    /\ accounts[a].currency = functional

\* PrepareReconciliation in AUTO mode.
PrepareAuto(a, period, reported, key) ==
    /\ CanPrepare(a, period, key)
    /\ ApplyReconciliation(a, period, reported, key)
    /\ UNCHANGED <<functional, onboarded, accounts, previews, thisMonth>>

\* PrepareReconciliation in CONFIRM mode.
PreparePreview(a, period, reported, key) ==
    LET balance == BalanceAt(journal, a, period)
    IN  /\ CanPrepare(a, period, key)
        /\ previews' = [previews EXCEPT ![key] =
              [status |-> "open", account |-> a, period |-> period,
               reported |-> reported, ledger |-> balance,
               difference |-> reported - balance,
               current |-> ActiveReconciliation(reconciliations, a, period)]]
        /\ UNCHANGED <<ledgerVars, reconciliations, thisMonth>>

\* Mutant: only the reconciliation is rechecked, not the balance.
PreviewHasReconciliation(p) ==
    ActiveReconciliation(reconciliations, p.account, p.period) = p.current

\* The locked recheck before a preview is applied.
PreviewIsCurrent(p) ==
    /\ BalanceAt(journal, p.account, p.period) = p.ledger
    /\ ActiveReconciliation(reconciliations, p.account, p.period) = p.current

ConfirmReconciliation(key) ==
    LET p == previews[key]
    IN  /\ p.status = "open"
        /\ LockReconciliationAccount(p.account)
        /\ PreviewIsCurrent(p)
        /\ ApplyReconciliation(p.account, p.period, p.reported, key)
        /\ previews' = [previews EXCEPT ![key].status = "confirmed"]
        /\ UNCHANGED <<functional, onboarded, accounts, thisMonth>>

\* Fifteen minutes pass.
ExpirePreview(key) ==
    /\ previews[key].status = "open"
    /\ previews' = [previews EXCEPT ![key].status = "expired"]
    /\ UNCHANGED <<ledgerVars, reconciliations, thisMonth>>

\* The worker deletes every expired preview that was not confirmed.
DeleteExpiredPreviews ==
    /\ \E k \in ReconciliationKeys : previews[k].status = "expired"
    /\ previews' = [k \in ReconciliationKeys |->
                       IF previews[k].status = "expired" THEN NoPreview
                       ELSE previews[k]]
    /\ UNCHANGED <<ledgerVars, reconciliations, thisMonth>>

MonthPasses ==
    /\ \E m \in MonthEnds : m > thisMonth /\ thisMonth' = m
    /\ UNCHANGED <<ledgerVars, reconciliations, previews>>

\* A handler of the ledger.  The foreign key of balance_snapshots, of which every
\* reconciliation inserts one, keeps the account's currency.
LedgerStep ==
    /\ Next
    /\ \A r \in DOMAIN reconciliations :
          LET a == reconciliations[r].account
          IN  accounts'[a].currency = accounts[a].currency
    /\ UNCHANGED reconciliationVars

ReconciliationNext ==
    \/ LedgerStep
    \/ \E a \in CashAccounts, p \in MonthEnds, x \in ReportedBalances,
          k \in ReconciliationKeys : PrepareAuto(a, p, x, k)
    \/ \E a \in CashAccounts, p \in MonthEnds, x \in ReportedBalances,
          k \in ReconciliationKeys : PreparePreview(a, p, x, k)
    \/ \E k \in ReconciliationKeys : ConfirmReconciliation(k)
    \/ \E k \in ReconciliationKeys : ExpirePreview(k)
    \/ DeleteExpiredPreviews
    \/ MonthPasses

ReconciliationSpec == ReconciliationInit /\ [][ReconciliationNext]_vars

-----------------------------------------------------------------------------
(***************************************************************************)
(* Properties.                                                             *)
(***************************************************************************)

\* The tables are well formed: links between reconciliations point backwards,
\* adjustments are RECONCILIATION transactions of the journal.
ReconciliationTypeOK ==
    /\ \A r \in DOMAIN reconciliations :
          LET row == reconciliations[r]
          IN  /\ row.account \in CashAccounts
              /\ row.period \in MonthEnds
              /\ row.supersedes \in 0 .. r - 1
              /\ row.transaction \in 0 .. Len(journal)
              /\ row.transaction # 0 =>
                    journal[row.transaction].type = "RECONCILIATION"
    /\ \A k \in ReconciliationKeys :
          previews[k].status \in {"none", "open", "expired", "confirmed"}
    /\ thisMonth \in MonthEnds

\* Whenever a reconciliation is recorded, by AUTO or by confirming a preview,
\* the ledger balance of the account at that month end becomes the reported
\* balance, also when it replaces an earlier one (applyReconciliation).
ReportedBalanceReached ==
    [][\A r \in DOMAIN reconciliations' \ DOMAIN reconciliations :
          LET row == reconciliations'[r]
          IN  BalanceAt(journal', row.account, row.period) = row.reported
      ]_vars

\* A confirmation moves the balance by exactly the difference the user saw in
\* the preview, whatever happened to the ledger in between
\* (ConfirmReconciliation's recheck).
ConfirmedAsPreviewed ==
    [][\A k \in ReconciliationKeys :
          previews[k].status = "open" /\ previews'[k].status = "confirmed" =>
             BalanceAt(journal', previews[k].account, previews[k].period)
             - BalanceAt(journal, previews[k].account, previews[k].period)
             = previews[k].difference
      ]_vars

\* Every adjustment that still counts belongs to the one reconciliation of its
\* account and month that is not superseded: replacing a reconciliation never
\* leaves two adjustments in force (applyReconciliation, activeReconciliationID).
OneAdjustmentInForce ==
    /\ \A a \in CashAccounts, p \in MonthEnds :
          Cardinality(ActiveReconciliations(reconciliations, a, p)) <= 1
    /\ \A i \in Live(journal) : journal[i].type = "RECONCILIATION" =>
          \E r \in DOMAIN reconciliations :
             /\ reconciliations[r].transaction = i
             /\ ~reconciliations[r].superseded

\* A repeated reconciliation can reverse its prior adjustment: the adjustment of
\* a reconciliation that is not superseded has not been reversed by anyone else
\* (postReversal refuses a second reversal of the same transaction).
PriorAdjustmentReversible ==
    \A r \in DOMAIN reconciliations :
        LET row == reconciliations[r]
        IN  ~row.superseded /\ row.transaction # 0
            => Reversible(journal, row.transaction)
=============================================================================

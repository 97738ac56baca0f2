----------------------------- MODULE Dashboard ------------------------------
(***************************************************************************)
(* The figures of the dashboard and of the asset list                      *)
(* (internal/httpapi/dashboard.go and ListAssets of assets.go), for a      *)
(* display currency equal to the functional one.  A month is a date of the *)
(* model.                                                                  *)
(***************************************************************************)
EXTENDS Assets

UserBalances == [a \in UserAccounts |-> TotalBalance(journal, a)]

NetWorth == MapThenSumSet(LAMBDA a : UserBalances[a], UserAccounts)

OfClass(class) == {a \in UserAccounts : accounts[a].class = class}

\* dashboardNetWorthHistory: the net worth at the end of a month.
NetWorthAt(date) ==
    MapThenSumSet(LAMBDA a : BalanceAt(journal, a, date), UserAccounts)

\* What a transaction adds to income and to expenses in dashboardCashflow.
AssetEntries(transaction) ==
    {n \in DOMAIN transaction.entries :
        transaction.entries[n].account \in OfClass("ASSET")}

PositivePart(x) == IF x > 0 THEN x ELSE 0

IncomeOf(transaction) ==
    IF transaction.type \notin {"INCOME", "RECONCILIATION"} THEN 0
    ELSE MapThenSumSet(LAMBDA n : PositivePart(transaction.entries[n].amount),
                       AssetEntries(transaction))

ExpensesOf(transaction) ==
    IF transaction.type \notin {"EXPENSE", "ASSET_PURCHASE", "RECONCILIATION"} THEN 0
    ELSE MapThenSumSet(LAMBDA n : PositivePart(-transaction.entries[n].amount),
                       AssetEntries(transaction))

InMonth(date) == {i \in DOMAIN journal : journal[i].date = date}

MonthlyIncome(date) == MapThenSumSet(LAMBDA i : IncomeOf(journal[i]), InMonth(date))

MonthlyExpenses(date) ==
    MapThenSumSet(LAMBDA i : ExpensesOf(journal[i]), InMonth(date))

\* apiAsset and dashboardAllocation: the latest valuation, else the balance.
CurrentOwnedValue(x) ==
    IF Valued(x) THEN valuations[LatestValuation(x)].owned
    ELSE TotalBalance(journal, assets[x].account)

-----------------------------------------------------------------------------
\* The net worth is what the system accounts and categories balance, now and at
\* the end of every month: no handler, CreateAsset and CreateAssetValuation
\* included, posts an amount to one side only.
NetWorthBalances ==
    LET others == LedgerAccounts \ UserAccounts
    IN  /\ NetWorth + MapThenSumSet(LAMBDA a : TotalBalance(journal, a), others) = 0
        /\ \A d \in Dates :
              NetWorthAt(d)
                  + MapThenSumSet(LAMBDA a : BalanceAt(journal, a, d), others) = 0

\* The value shown for an asset is its balance at the date of the latest
\* valuation but for what was posted at or before that date afterwards, by any
\* handler: operations, corrections, reversals of the revaluation itself.
ShownValueExplained ==
    \A x \in AssetIds : Valued(x) =>
        LET v == valuations[LatestValuation(x)]
            a == assets[x].account
            late == {i \in DOMAIN journal : i > v.seen /\ journal[i].date <= v.date}
        IN  CurrentOwnedValue(x) + MapThenSumSet(LAMBDA i : Delta(journal[i], a), late)
                = BalanceAt(journal, a, v.date)

\* The income and the expenses of a month are those of the operations that
\* count: a deletion takes them back and an edit replaces them.
CashflowIsLive ==
    \A d \in Dates :
        LET live == InMonth(d) \cap Live(journal)
        IN  /\ MonthlyIncome(d) = MapThenSumSet(LAMBDA i : IncomeOf(journal[i]), live)
            /\ MonthlyExpenses(d) = MapThenSumSet(LAMBDA i : ExpensesOf(journal[i]), live)
=============================================================================

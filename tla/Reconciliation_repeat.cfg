CONSTANTS
    a1 = a1
    c1 = c1
    c2 = c2
    k1 = k1
    k2 = k2
    r1 = r1
    r2 = r2
    r3 = r3
    UserAccounts = {a1}
    Categories = {c1, c2}
    Currencies = {"USD"}
    DefaultCurrency = "USD"
    Amounts = {1}
    Dates = {1, 2}
    Keys = {k1}
    AccountClasses = {"ASSET"}
    OperationTypes = {"EXPENSE"}
    UniqueKeys = TRUE
    MaxJournal = 4
    CashAccounts = {a1}
    MonthEnds = {1, 2}
    ReportedBalances = {0, 1}
    ReconciliationKeys = {r1, r2}
    MaxReconciliations = 2
SPECIFICATION ReconciliationSpec
SYMMETRY Symmetry
CHECK_DEADLOCK FALSE
INVARIANTS
    PriorAdjustmentReversible

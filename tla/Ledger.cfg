SPECIFICATION Spec
CONSTANTS
    a1 = a1
    c1 = c1
    c2 = c2
    c3 = c3
    k1 = k1
    k2 = k2
    k3 = k3
    UserAccounts = {a1}
    Categories = {c1, c2, c3}
    Currencies = {"USD", "EUR"}
    DefaultCurrency = "USD"
    Amounts = {1}
    Dates = {1, 2}
    Keys = {k1, k2, k3}
    AccountClasses = {"ASSET", "LIABILITY"}
    OperationTypes = {"EXPENSE"}
    UniqueKeys = TRUE
    MaxJournal = 4
CONSTRAINT Narrow
SYMMETRY Symmetry
INVARIANTS
    TypeOK
    Balanced
    CurrencyLocked
    ReversalsCancel
    ReplacedIsReversed
PROPERTIES
    ArchivedStaysClosed
    ImplementsBook
CHECK_DEADLOCK FALSE

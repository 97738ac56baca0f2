SPECIFICATION AssetsSpec
CONSTANTS
    a1 = a1
    a2 = a2
    c1 = c1
    c2 = c2
    k1 = k1
    k2 = k2
    x1 = x1
    x2 = x2
    UserAccounts = {a1, a2}
    Categories = {c1, c2}
    Currencies = {"USD"}
    DefaultCurrency = "USD"
    Amounts = {1}
    Dates = {1, 2}
    Keys = {k1, k2}
    AccountClasses = {"ASSET"}
    OperationTypes = {"INCOME"}
    UniqueKeys = TRUE
    MaxJournal = 3
    AssetIds = {x1, x2}
    MarketValues = {3}
    Shares = {5000}
    MaxValuations = 2
SYMMETRY Symmetry
INVARIANT CashflowIsLive
CHECK_DEADLOCK FALSE

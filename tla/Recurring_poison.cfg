CONSTANTS
    a1 = a1
    c1 = c1
    c2 = c2
    UserAccounts = {a1}
    Categories = {c1, c2}
    Currencies = {"USD", "EUR"}
    DefaultCurrency = "USD"
    Amounts = {1}
    Dates = {1}
    Keys = {}
    AccountClasses = {"ASSET"}
    OperationTypes = {}
    UniqueKeys = TRUE
    MaxJournal = 7
    TemplateTypes = {"EXPENSE"}
    MaxTemplates = 1
    Intervals = {1}
    BatchSize = 1
    LastDay = 1
SPECIFICATION StronglyFairRecurringSpec
CHECK_DEADLOCK FALSE
PROPERTIES
    DueIsGenerated

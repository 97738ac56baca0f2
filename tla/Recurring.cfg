SPECIFICATION FairRecurringSpec
CONSTANTS
    a1 = a1
    c1 = c1
    c2 = c2
    UserAccounts = {a1}
    Categories = {c1, c2}
    Currencies = {"USD"}
    DefaultCurrency = "USD"
    Amounts = {1}
    Dates = {1}
    Keys = {}
    AccountClasses = {}
    OperationTypes = {}
    UniqueKeys = TRUE
    MaxJournal = 7
    TemplateTypes = {"INCOME"}
    MaxTemplates = 2
    Intervals = {1}
    BatchSize = 1
    LastDay = 2
INVARIANTS
    TemplatesOK
    ScheduleComplete
    ActiveMeansUsable
PROPERTIES
    GeneratesOnlyWhatIsDue
    DueIsGenerated
CHECK_DEADLOCK FALSE

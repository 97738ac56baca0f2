SPECIFICATION FxSpec
CONSTANTS
    w1 = w1
    w2 = w2
    Workers = {w1, w2}
    Quotes = {"EUR"}
    Days = {1, 2}
    RateValues = {3}
    Unit = 2
    Amounts <- ConvertedAmounts
    Attempts = 2
    MaxHeld = 2
INVARIANTS
    FxTypeOK
    OverlapOnlyAfterLoss
    FailureShown
    ConversionFair
PROPERTIES
    CycleReachesWork
CHECK_DEADLOCK FALSE

SPECIFICATION IdentitySpec
CONSTANTS
    u1 = u1
    e1 = e1
    r1 = r1
    r2 = r2
    s1 = s1
    s2 = s2
    Users = {u1}
    Emails = {e1}
    Requests = {r1, r2}
    SessionIds = {s1, s2}
    CodeNumbers = {1}
    MaxAttempts = 1
    Maximum = 1
    Limited = {"login"}
    Window = 1
    FirstStep = 1
    LastStep = 2
    CodeSteps = {1, 2}
    MaxDrawn = 3
    MaxVersions = 2
SYMMETRY Symmetry
INVARIANTS
    IdentityTypeOK
    CodesOfLatestConfirmation
    NoOrphanRows
    LimiterBound
PROPERTIES
    ChallengeOnce
    CodeOnce
    PasswordChangeRevokes
    OnlyStaleLoginSkipsFactor
    FactorRemoved
CHECK_DEADLOCK FALSE

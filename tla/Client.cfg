SPECIFICATION MCSpec
CHECK_DEADLOCK FALSE
CONSTANTS
    Password = {p, q, r}
    MaxUid = 2
    MaxCode = 2
    MaxJobs = 2
    User = {a, b}
    Nobody = nobody
    MaxSession = 2
    MaxRequests = 2
    Item = {i1, i2}
    MaxDeletes = 3
    MaxMounts = 2
    MaxCodes = 3
    MaxLogins = 2
    MaxViews = 3
    MaxCalls = 2
    Root = root
    Part = {ch}
    Stories = {1}
    MaxId = 2
    MaxEdits = 1
    MaxFiles = 2
    MaxImports = 2
    MaxChanges = 2
    MaxGets = 1
    MaxOpens = 1
    MaxOps = 2
    MaxProbes = 1
INVARIANTS
    OneKey
    SessionsFollowPassword
    ConfirmedSecretsWork
    NoStrangersData
    ExpiryIsReal
    KeptSurvives
    
    RestoreLosesNothing
    SettingsSettle
    KeyPanelTruthful
PROPERTIES
    UnchangedIsCovered

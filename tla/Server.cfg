SPECIFICATION MCSpec
CHECK_DEADLOCK FALSE
CONSTANTS
    User = {u, v}
    Browser = {p, q}
    Id = {i1, i2, i3}
    NoCookie = NoCookie
    Idle = Idle
    IDLE_TTL = 2
    ABSOLUTE_TTL = 3
    REFRESH = 2
    MAX_SESSIONS = 2
    MaxTime = 3
    Turn = {x, y}
    Text = {s, t}
    NoTurn = NoTurn
    NoText = NoText
    MaxSends = 2
    Length = 2
INVARIANTS
    CookieWithinCap
    RepliesInPlace
    PromptEndsWithAnchor
    
    OutcomeTruthful
PROPERTIES
    LoginSparesOthers
    ExpiredSwept
    ComesToRest

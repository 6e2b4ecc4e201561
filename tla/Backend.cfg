SPECIFICATION MCSpec
CHECK_DEADLOCK FALSE
CONSTANTS
    Chapter = {c1, c2}
    Draft = {d1, d2, d3}
    NoChapter = NoChapter
    NoDraft = NoDraft
    Request = {r1, r2}
    Op = {"blank", "fork", "activate", "remove", "drop"}
    MaxAttempts = 3
    TTL = 2
    MaxNow = 5
    MaxKeys = 2
    MaxRequests = 3
    Context = {1000, 2000, 4096}
    Response = {300, 500, 4096}
    Fixed = {50, 400, 900}
    Size = {400, 1500}
    MaxEntries = 3
    Length = {0, 500, 9000}
    Escapes = {0, 900, 2000, 5000}
    History = {0, 250, 2000}
    Item = {a, b, c}
    Tab = {c1, c2}
    Mutation = {r1, r2}
    NoRow = NoRow
    NoTab = NoTab
    Stored = {a, b}
    Kinds = {"chapter", "character", "outline"}
    Tries = 2
    MaxOps = 2
    Titled = {c1, c2}
    Name = {Old, NoName, N1}
    Old = Old
    NoName = NoName
    MaxEdits = 2
    MaxChapter = 3
    MaxDraft = 2
    MaxCalls = 2
    MaxOther = 1
SYMMETRY Symmetry
INVARIANTS
    OneActiveUnlessRaced
    
    PromptFits
    
    DenseUnlessRaced
    
    ViewHolds
PROPERTIES
    ImplementsChapterDrafts
    GateFollowsKey

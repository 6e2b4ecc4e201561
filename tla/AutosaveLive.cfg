SPECIFICATION FairSpec
CONSTANTS
    Doc = {a, b}
    NoDoc = NoDoc
    NoPayload = NoPayload
    Cached = {}
    MaxRev = 2
    MaxFlushes = 0
    EagerTyping = FALSE
PROPERTIES
    SavedEventually
INVARIANTS
    OneSaveAtATime

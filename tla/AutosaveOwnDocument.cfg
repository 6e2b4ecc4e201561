SPECIFICATION Spec
CONSTANTS
    Doc = {a, b}
    NoDoc = NoDoc
    NoPayload = NoPayload
    Cached = {a, b}
    MaxRev = 1
    MaxFlushes = 1
    EagerTyping = FALSE
SYMMETRY DocSym
INVARIANTS
    OwnDocument

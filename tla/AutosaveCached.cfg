SPECIFICATION Spec
CONSTANTS
    Doc = {a, b}
    NoDoc = NoDoc
    NoPayload = NoPayload
    Cached = {a, b}
    MaxRev = 2
    MaxFlushes = 1
    EagerTyping = FALSE
SYMMETRY DocSym
INVARIANTS
    OwnDocumentUnlessCrossed
    EditSafeUnlessCrossed

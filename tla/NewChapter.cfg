SPECIFICATION Spec
CHECK_DEADLOCK FALSE
CONSTANTS
    MaxChapter = 3
    MaxDraft = 2
    MaxCalls = 1
    MaxOps = 1
    MaxOther = 0
PROPERTIES
    NewChapterOpens

SPECIFICATION Spec
CHECK_DEADLOCK FALSE
CONSTANTS
    MaxMine = 2
    MaxOther = 0
    MaxVer = 3
INVARIANT TypedTextSurvives

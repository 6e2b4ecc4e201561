SPECIFICATION Spec
CHECK_DEADLOCK FALSE
CONSTANTS
    Row = {a, b}
    Name = {Old, Blank, x, y}
    Old = Old
    Blank = Blank
    MaxEdits = 2
    MaxCalls = 2
PROPERTIES
    EscapeReverts

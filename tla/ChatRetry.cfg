CHECK_DEADLOCK FALSE
SPECIFICATION Spec
CONSTANTS
    Turn = {x, y}
    Text = {s, t}
    NoTurn = NoTurn
    NoText = NoText
    MaxSends = 3
INVARIANTS
    RetriedTextUnstored

SPECIFICATION MCSpec
CHECK_DEADLOCK FALSE
CONSTANTS
    MaxMine = 2
    MaxOther = 1
    MaxVer = 3
    Chapter = {a, b}
    Draft = {1, 2}
    FirstDraft = 1
    Passage = {x, y}
    Cursor = Cursor
    MaxRuns = 2
    Character = {c1, c2}
    Cast = {c1}
    Story = Story
    Summary = Summary
    New = New
    Field = {a, b}
    MaxTyped = 2
    MaxSheets = 2
    MaxSaves = 1
    MaxCalls = 2
    Chat = {a, b}
    NoChat = NoChat
    Text = {x, y}
    NoText = NoText
    MaxTurns = 1
SYMMETRY Symmetry
INVARIANTS
    LostOnlyInPeril
    ClobberedOnlyIfMoved
    ConflictExplained
    ScreenIsBuffer
    SummaryFaithful
    AITextInPlace
    FormsLoseNothing
    MessageKept

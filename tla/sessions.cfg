CONSTANTS
    Kind <- MCKind
    Garbled = Garbled
    ChildLines = {"message", "usage", "completed", Garbled}
    max_turns = 1
    deadline = 1
    PipeSize = 1
    MaxLines = 2
    MaxNow = 2
    MayRaise = TRUE
    MaxRuns = 2
SPECIFICATION ChildFair
INVARIANTS
    TypeOK
    TurnsWithinBudget
    StateTruthful
    ChildReaped
    LinesAccounted
PROPERTIES
    CancelSticks
    RunEnds
    ImplementsLog
CHECK_DEADLOCK FALSE

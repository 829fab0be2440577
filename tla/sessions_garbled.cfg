CONSTANTS
    Kind <- MCKind
    Garbled = Garbled
    ChildLines = {"message", Garbled}
    max_turns = 0
    deadline = 0
    PipeSize = 2
    MaxLines = 2
    MaxNow = 0
    MayRaise = FALSE
    MaxRuns = 1
SPECIFICATION Spec
INVARIANTS
    CompletedSawAll
CHECK_DEADLOCK FALSE

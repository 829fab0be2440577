CONSTANTS
    Kind <- MCKind
    Garbled = Garbled
    ChildLines = {"message"}
    max_turns = 2
    deadline = 1
    PipeSize = 2
    MaxLines = 2
    MaxNow = 2
    MayRaise = FALSE
    MaxRuns = 1
SPECIFICATION Spec
PROPERTIES
    DeadlineEnforced
CHECK_DEADLOCK FALSE

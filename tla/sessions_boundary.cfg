CONSTANTS
    Kind <- MCKind
    Garbled = Garbled
    ChildLines = {"message"}
    max_turns = 2
    deadline = 0
    PipeSize = 2
    MaxLines = 2
    MaxNow = 0
    MayRaise = FALSE
    MaxRuns = 1
SPECIFICATION Spec
INVARIANTS
    BudgetFailsOnExcess
CHECK_DEADLOCK FALSE

CONSTANTS
    o1 = o1
    o2 = o2
    TaskId <- MCTaskId1
    ProgressValue <- MCProgress
    MaxSignals = 3
SPECIFICATION TaskSpec
INVARIANTS
    CompletionIsTerminal
CHECK_DEADLOCK FALSE

CONSTANTS
    o1 = o1
    o2 = o2
    TaskId <- MCTaskId
    ProgressValue <- MCProgress
    MaxSignals = 3
SPECIFICATION TaskSpec
INVARIANTS
    TaskTypeOK
    LiveTaskHasDeadline
PROPERTIES
    TaskEventuallyDisposed
CHECK_DEADLOCK FALSE

CONSTANTS
    r1 = r1
    r2 = r2
    r3 = r3
    NoReq = NoReq
    Req <- MCReq3
    MaxForeignLogs = 1
SPECIFICATION Spec
SYMMETRY MCSymmetry
INVARIANTS
    TypeOK
    GuardHasReleaser
    OnlyHeldTimerArmed
    BusyCreatesNoSession
CHECK_DEADLOCK FALSE

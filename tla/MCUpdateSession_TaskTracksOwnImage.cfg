CONSTANTS
    r1 = r1
    r2 = r2
    r3 = r3
    NoReq = NoReq
    Req <- MCReq2
    MaxForeignLogs = 1
SPECIFICATION Spec
INVARIANTS
    TaskTracksOwnImage
CHECK_DEADLOCK FALSE

SPECIFICATION DetectFairSpec
CONSTANTS
    Callers = {c1, c2}
    Slots = {s1}
    clean = clean
    second = second
    Revs = {clean, second}
    Errors = {encrypted, ctxErr}
    Cancelled = ctxErr
    Encrypted = encrypted
    CallIds = {i1, i2}
    Nil = Nil
    HasDB = FALSE
    DBMayFail = TRUE
    MayPanic = FALSE
    MaxRestarts = 1
    Requests <- MCRequests
    Mountpoints <- MCMountpoints
INVARIANTS
    DetectTypeOK
    PassedIffNoConcerns
    ChecksJudgeReportedDocument
    ChecksHitMemory
    ReportsAgree
PROPERTIES
    DetectReturns

SPECIFICATION FairSpec
CONSTANTS
    Callers = {c1, c2}
    Slots = {s1}
    Revs = {r1, r2}
    Errors = {failed, ctxErr}
    Cancelled = ctxErr
    CallIds = {i1, i2}
    Nil = Nil
    HasDB = TRUE
    DBMayFail = FALSE
    MayPanic = FALSE
    MaxRestarts = 1
INVARIANTS
    WaitersHaveExecutor
    LayersAgree
PROPERTIES
    DBWriteOnce
    Answered
    EntryReleased

SPECIFICATION Spec
CONSTANTS
    Callers = {c1, c2}
    Slots = {s1}
    Revs = {r1}
    Errors = {failed, ctxErr}
    Cancelled = ctxErr
    CallIds = {i1, i2}
    Nil = Nil
    HasDB = FALSE
    DBMayFail = FALSE
    MayPanic = TRUE
    MaxRestarts = 0
INVARIANTS
    WaitersHaveExecutor
CHECK_DEADLOCK FALSE

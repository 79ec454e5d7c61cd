SPECIFICATION Spec
CONSTANTS
    Callers = {c1, c2, c3}
    Slots = {s1}
    Revs = {r1, r2}
    Errors = {failed, ctxErr}
    Cancelled = ctxErr
    CallIds = {i1, i2, i3}
    Nil = Nil
    HasDB = TRUE
    DBMayFail = TRUE
    MayPanic = TRUE
    MaxRestarts = 1
SYMMETRY Symmetry
INVARIANTS
    TypeOK
    OneLeaderPerSlot
    InspectOnlyOnMiss
    AnswersAgree
PROPERTIES
    MemoryWriteOnce
    SharedWhileLed
    ImplementsService
CHECK_DEADLOCK FALSE

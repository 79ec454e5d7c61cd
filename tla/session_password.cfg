SPECIFICATION Spec
CONSTANTS
    NumDisks = 1
    MaxPolls = 1
INVARIANTS
    NoPasswordLeft
CHECK_DEADLOCK FALSE

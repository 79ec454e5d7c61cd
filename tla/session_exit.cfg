SPECIFICATION Spec
CONSTANTS
    NumDisks = 1
    MaxPolls = 1
PROPERTIES
    ExitIsNoticed
CHECK_DEADLOCK FALSE

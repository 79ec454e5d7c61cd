SPECIFICATION FairSpec
CONSTANTS
    NumDisks = 3
    MaxPolls = 2
INVARIANTS
    TypeOK
    NoServerLeft
    NoSocketLeft
    PasswordsLeft
    EngineHasAllDisks
PROPERTIES
    ImplementsScope
    Returns
CHECK_DEADLOCK FALSE

\* One invocation, its rollback, and a key command.
SPECIFICATION SetupSpec
CONSTANTS
    Inits = {i1}
    Foreign = Foreign
    Free = Free
INVARIANTS
    KeyFileStays
CHECK_DEADLOCK FALSE

SPECIFICATION Spec
CONSTANTS
    NENV = 3
    NULL = NULL
    Quanta = {10}
    UnknownId = 7
PROPERTIES
    DestroyedIsFree
CHECK_DEADLOCK FALSE

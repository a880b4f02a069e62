SPECIFICATION Spec
CONSTANTS
    NENV = 4
    NULL = NULL
    Quanta = {10, 60, 256}
    UnknownId = 7
INVARIANTS
    TypeOK
    OnePlace
    IdleAtPrompt
    UniqueIds
PROPERTIES
    RotatesInOrder
    ReadyRuns
CHECK_DEADLOCK FALSE

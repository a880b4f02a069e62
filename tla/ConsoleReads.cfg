SPECIFICATION Spec
CONSTANTS
    CONSBUFSIZE = 3
    Keys = {30, 157, 211}
    SerialChars = {97}
    ControllerSize = 2
INVARIANTS TypeOK NoStuckModifier
PROPERTY ReadsInOrder

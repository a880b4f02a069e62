SPECIFICATION Spec
CONSTANTS
    PAGE_SIZE = 2
    numPages = 5
    USER_HEAP_START = 1
    WordSize = 16
    Sizes = {1, 2, 3, 4, 6, 9, 10, 11}
    Strays = {0, 1, 2, 3, 4, 5}
INVARIANTS HeapTiled PageFileAgrees
PROPERTY KeepsBlocksApart
CHECK_DEADLOCK FALSE

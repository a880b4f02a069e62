SPECIFICATION Spec
CONSTANTS
    c1 = c1
    c2 = c2
    k1 = k1
    k2 = k2
    h1 = h1
    tc = tc
    tk = tk
    th = th
    Segment <- SmallSegment
    PagesToLoad = 1
    StackPages = {k1, k2}
    StackTop = k1
    HeapPages = {h1}
    TableOf <- SmallTables
    ActiveListSize = 2
    SecondListSize = 0
    NumFrames = 8
    NumDiskFrames = 3
    MaxOperands = 2
INVARIANTS
    Conservation
PROPERTY
    LRUOrder
CHECK_DEADLOCK FALSE

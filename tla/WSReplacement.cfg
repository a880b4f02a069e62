SPECIFICATION FairSpec
CONSTANTS
    c1 = c1
    c2 = c2
    k1 = k1
    k2 = k2
    h1 = h1
    tc = tc
    tk = tk
    th = th
    Segment <- SmallSegment
    PagesToLoad = 2
    StackPages = {k1, k2}
    StackTop = k1
    HeapPages = {h1}
    TableOf <- SmallTables
    ActiveListSize = 2
    SecondListSize = 1
    NumFrames = 9
    NumDiskFrames = 5
    MaxOperands = 2
INVARIANTS
    TypeOK
    ListsFull
    Residency
    NoLostStore
PROPERTY
    LRUOrder
    InstructionCompletes
CHECK_DEADLOCK FALSE

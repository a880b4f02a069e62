CONSTANTS
    Heads = {l1, l2}
    Elems = {a, b, c}
    NULL = NULL
    Chars = {0, 1, 2}
    MemSize = 6
    MAX_ARGUMENTS = 3
    WordBits = 8
    PrintBuf = 5
    BUFLEN = 4
    Widths = {0, 2, 3, 6}
    FlagChars = {"-", "0", "1", "*", ".", "#", "l"}
    Conversions = {"c", "e", "s", "d", "u", "o", "p", "x", "%", "q"}
    MaxFlags = 3
    MaxWidth = 12
    Rooms = {0, 1, 4}
    Keys = {"a", "b", "backspace", "newline", "tab", "EOF"}
    MaxKeys = 5
    PAGE_SIZE = 2
    TableSize = 4
    AddressSpace = 16
    SECTSIZE = 2
    SegmentStarts = {0, 1, 2, 4, 5, 6}
    SegmentSizes = {0, 1, 2, 3, 4}
SPECIFICATION LibrarySpec
INVARIANTS LinksComplete StringsRight TextsRight ImagesRight
PROPERTY AreSequences
CHECK_DEADLOCK FALSE

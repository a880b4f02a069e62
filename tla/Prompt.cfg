SPECIFICATION PromptSpec
CONSTANTS
    BUFLEN = 5
    HISTORY_MAX = 1
    NUL = "0"
    Blank = "_"
    DelChar = "233"
    Letters = {"r", "u"}
    CommandNames <- MCCommandNames
    ArgCommands <- MCArgCommands
    Programs <- MCPrograms
    Beyond <- MCBeyond
    MaxKeys = 7
    MaxLines = 3
    Envs = {e1, e2}
    Pages = {p}
    Numbers = {0, 1, 2, 3, 4, 7}
    UINT_MAX = 7
    PWS_MAX_SIZE = 3
    MaxCommands = 4
INVARIANTS
    LineIsShown
    HistoryIsRecent
    SettingsAgree
PROPERTIES
    KeysRecall
    LossesAreKnown
CHECK_DEADLOCK FALSE

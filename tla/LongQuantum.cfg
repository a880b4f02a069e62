SPECIFICATION TrapsSpec
CONSTANTS
    NENV = 2
    NULL = NULL
    Quanta = {53}
    UnknownId = 7
    Calls <- MCCalls
    Pages = {1}
    CountsRead = {1, 21}
    MaxTests = 1
    ActiveList <- MCActive
    SecondList <- MCSecond
    WSSize <- MCWSSize
    percentage_of_WS_pages_to_be_removed <- MCPercentage
PROPERTIES QuantumGiven
CHECK_DEADLOCK FALSE

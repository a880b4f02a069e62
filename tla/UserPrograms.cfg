CONSTANTS
    PAGE_SIZE = 16
    numPages = 24
    USER_HEAP_START = 64
    WordSize = 4096
    Envs = {1, 2}
    Main = 1
    Programs = {"quicksort", "quicksort1", "quicksort2", "quicksort3", "quicksort_heap", "quicksort_noleakage", "quicksort_interrupt", "quicksort_freeheap", "mergesort_leakage", "mergesort_noleakage", "ef_mergesort_leakage", "ef_mergesort_noleakage"}
    Others = {"quicksort", "quicksort1"}
    OtherNums = {4}
    NumsOfElements = {0, 2, 4, 8}
    MaxRounds = 2
    Tests = {"tst_malloc_1", "tst_malloc_2", "tst_malloc_3", "tst_malloc_5", "tst_free_1", "tst_free_2", "tst_best_fit_1", "tst_best_fit_2", "tst_first_fit_1", "tst_first_fit_2"}
    OtherTests = {"tst_malloc_2", "tst_best_fit_2"}
    Checks = {"address", "disk", "value"}
SPECIFICATION ProgramsSpec
INVARIANTS NoOtherAnswers RoundsSort HeapAsExpected
CHECK_DEADLOCK FALSE

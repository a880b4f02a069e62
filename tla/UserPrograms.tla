---------------------------- MODULE UserPrograms ----------------------------
(***************************************************************************)
(* Two environments that run programs of user/: either the sorting         *)
(* programs, with a small heap whose end they can reach, or the tests of   *)
(* the heap, with the heap's real sizes.                                   *)
(***************************************************************************)
EXTENDS SortPrograms

CONSTANTS Tests,       \* the test programs that Main runs,
          OtherTests,  \* those that the other environment runs
          Checks       \* and the kinds of the checks that are made

VARIABLES kind,        \* which programs the user has started
          test, pc, phase, ptr_allocations, test_heap, usedDiskPages, freeFrames,
          start_freeFrames, failed

\* inc/mmu.h and inc/memlayout.h; 788 pages are in the ActiveList when a test
\* begins, and no size of a test is near 2^31.
T == INSTANCE HeapTests WITH
       PAGE_SIZE <- 4096, numPages <- 131072, USER_HEAP_START <- 524288,
       WordSize <- 2147483647, ActiveSize <- 788,
       Others <- OtherTests, heap <- test_heap

testVars == <<test, pc, phase, ptr_allocations, test_heap, usedDiskPages, freeFrames,
              start_freeFrames, failed>>

NotStarted == "not started"
TestsNotStarted ==
    /\ test = NotStarted /\ pc = NotStarted /\ phase = NotStarted
    /\ ptr_allocations = NotStarted /\ test_heap = NotStarted
    /\ usedDiskPages = NotStarted /\ freeFrames = NotStarted
    /\ start_freeFrames = NotStarted /\ failed = NotStarted
SortsNotStarted ==
    /\ curenv = NotStarted /\ program = NotStarted /\ at = NotStarted
    /\ intr = NotStarted /\ NumOfElements = NotStarted /\ Chose = NotStarted
    /\ Elements = NotStarted /\ ptr = NotStarted /\ heap = NotStarted
    /\ rounds = NotStarted

ProgramsInit ==
    \/ kind = "sort" /\ Init /\ TestsNotStarted
    \/ kind = "tests" /\ T!Init /\ SortsNotStarted

Sort == kind = "sort" /\ Next /\ UNCHANGED <<kind, testVars>>
TestHeap == kind = "tests" /\ T!Next /\ UNCHANGED <<kind, vars>>

ProgramsNext == Sort \/ TestHeap

ProgramsSpec == ProgramsInit /\ [][ProgramsNext]_<<kind, vars, testVars>>

-----------------------------------------------------------------------------
\* The test programs find what they expect in every schedule: their checks of
\* addresses, counters and values hold, the pages in the page file are those of
\* the blocks in use, and no store in a block faults.
HeapAsExpected ==
    kind = "tests" => T!ChecksHold /\ T!DiskIsBlocks /\ T!NoHeapFault

\* While a program that locks its dialogue asks, no other program runs: what is
\* typed for it cannot become the answer of another one. The two programs that
\* ask unlocked (quicksort.c:30, quicksort_freeheap.c:30) promise nothing.
NoOtherAnswers == kind = "sort" => DialogUndisturbed

\* The algorithms sort every array, what CheckSorted is given is the initial
\* elements in order, and the programs that free leave nothing in the page file.
RoundsSort ==
    kind = "sort" => SortsEveryArray /\ SortsItsElements /\ NothingLeaks
=============================================================================

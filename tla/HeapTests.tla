------------------------------ MODULE HeapTests ------------------------------
(***************************************************************************)
(* The heap's test programs, user/tst_malloc_*.c, tst_free_*.c,            *)
(* tst_best_fit_*.c and tst_first_fit_*.c: several of them run at the same *)
(* time, each in an environment of its own, on the allocator of UserHeap   *)
(* and on sys_allocateMem and sys_freeMem.  A program reads its counters,  *)
(* calls malloc or free or stores values, and compares; it panics at the   *)
(* first check that fails.  Only the checks of the kinds in Checks are     *)
(* made: "address", "strategy" (the address a first fit would give),       *)
(* "disk", "frames", "ws", "freed" and "value".                            *)
(***************************************************************************)
EXTENDS ProgramHeap

CONSTANTS ActiveSize,    \* the pages in the ActiveList when a program begins
          Envs,          \* the environments
          Main,          \* one of them, that runs one of
          Tests,         \* these programs, while the others run one of
          Others,        \* these
          Checks         \* the kinds of the checks that are made

VARIABLES test, pc, phase, ptr_allocations, heap, usedDiskPages, freeFrames,
          start_freeFrames, failed

vars == <<test, pc, phase, ptr_allocations, heap, usedDiskPages, freeFrames,
          start_freeFrames, failed>>

None == -1                    \* a counter that the program does not compare
kilo == 1024
Mega == 1024 * kilo
HeapSize == numPages * PAGE_SIZE

\* Mutant: the pages of every environment are counted.
pf_calculate_all_pages(e) == MapThenSumSet(LAMBDA d : Pages(heap[d].disk), Envs)

\* pf_calculate_allocated_pages counts the pages of the current environment,
\* the free frames are those that no environment has.
pf_calculate_allocated_pages(e) == Pages(heap[e].disk)
Frames(hs) == MapThenSumSet(LAMBDA e :
    Pages(hs[e].mapped) + TablesOf(hs[e].mapped) + TablesOf(hs[e].disk_tables), Envs)

-----------------------------------------------------------------------------
(***************************************************************************)
(* The steps of the programs.  Places are the page offsets in the heap     *)
(* where a block may be; the counters are how many pages or frames the     *)
(* step is to take (malloc, store) or to give back (free).                 *)
(***************************************************************************)
At(b) == {b \div PAGE_SIZE}
Near(b) == {b \div PAGE_SIZE, b \div PAGE_SIZE + 1}
From(b) == b \div PAGE_SIZE .. numPages
Nowhere == {}
Anywhere == 0 .. numPages

Step(op, slot) ==
    [op |-> op, slot |-> slot, size |-> 0, place |-> Anywhere, kind |-> "address",
     disk |-> None, frames |-> None, cells |-> {}, found |-> None, active |-> None,
     second |-> None]

Malloc(slot, size, place, disk, frames) ==
    [Step("malloc", slot) EXCEPT !.size = size, !.place = place,
                                 !.disk = disk, !.frames = frames]
FirstFitMalloc(slot, size, place, disk, frames) ==
    [Malloc(slot, size, place, disk, frames) EXCEPT !.kind = "strategy"]
Free(slot, disk, frames) ==
    [Step("free", slot) EXCEPT !.disk = disk, !.frames = frames]

\* Stores, with the frames and the entries of the working set they are to take.
Store(slot, cells, frames, found) ==
    [Step("store", slot) EXCEPT !.cells = cells, !.frames = frames, !.found = found]
\* A comparison with what has been stored.
Compare(slot, cells) == [Step("compare", slot) EXCEPT !.cells = cells]
\* Stores in a block that has been freed, which are to fault.
Reach(slot, offsets) ==
    [Step("reach", slot) EXCEPT !.cells = {<<o, "10">> : o \in offsets}]
\* The sizes the lists of the working set are to have.
Lists(active, second) == [Step("lists", 0) EXCEPT !.active = active, !.second = second]
\* The frames that are to be missing since the program began.
Total(frames) == [Step("total", 0) EXCEPT !.frames = frames]

\* The first and the last element of arrays of chars, shorts, ints and of
\* structs of a char, a short and an int.
Ends(bytes, min, max, size) == {<<0, min>>, <<(bytes \div size - 1) * size, max>>}
Bytes(bytes) == Ends(bytes, "minByte", "maxByte", 1)
Shorts(bytes) == Ends(bytes, "minShort", "maxShort", 2)
Ints(bytes) == Ends(bytes, "minInt", "maxInt", 4)
Structs(bytes) ==
    LET last == (bytes \div 8 - 1) * 8 IN
    {<<0, "minByte">>, <<2, "minShort">>, <<4, "minInt">>,
     <<last, "maxByte">>, <<last + 2, "maxShort">>, <<last + 4, "maxInt">>}
Thirds(bytes) == Bytes(bytes) \cup {<<(bytes - 1) \div 2, "maxByte / 2">>}

tst_malloc_1 == <<
    Malloc(0, 2*Mega - kilo, Near(0), 512, 1),
    Malloc(1, 2*Mega - kilo, Near(2*Mega), 512, 0),
    Malloc(2, 3*kilo, Near(4*Mega), 1, 1),
    Malloc(3, 3*kilo, Near(4*Mega + 4*kilo), 1, 0),
    Malloc(4, 7*kilo, Near(4*Mega + 8*kilo), 2, 0),
    Malloc(5, 3*Mega - kilo, Near(4*Mega + 16*kilo), 768, 0),
    Malloc(6, 2*Mega - kilo, Near(7*Mega + 16*kilo), 512, 1)>>

\* tst_malloc_2 and tst_malloc_5 differ in the size of the third block.
StoreAndCompare(third) == <<
    Malloc(0, 2*Mega - kilo, Anywhere, None, None),
    Store(0, Bytes(2*Mega - kilo), None, None),
    Malloc(1, 2*Mega - kilo, Anywhere, None, None),
    Store(1, Shorts(2*Mega - kilo), None, None),
    Malloc(2, third, Anywhere, None, None),
    Store(2, Ints(2*kilo), None, None),
    Malloc(3, 7*kilo, Anywhere, None, None),
    Store(3, Structs(7*kilo), None, None),
    Compare(0, Bytes(2*Mega - kilo)), Compare(1, Shorts(2*Mega - kilo)),
    Compare(2, Ints(2*kilo)), Compare(3, Structs(7*kilo))>>
tst_malloc_2 == StoreAndCompare(3*kilo)
tst_malloc_5 == StoreAndCompare(2*kilo)

tst_malloc_3 == <<
    Malloc(0, 2*Mega - kilo, Near(0), 512, None),
    Store(0, Bytes(2*Mega - kilo), 2 + 1, 2),
    Malloc(1, 2*Mega - kilo, Near(2*Mega), 512, None),
    Store(1, Shorts(2*Mega - kilo), 2, 2),
    Malloc(2, 3*kilo, Near(4*Mega), 1, None),
    Store(2, Ints(2*kilo), 1 + 1, 2),
    Malloc(3, 3*kilo, Near(4*Mega + 4*kilo), 1, None),
    Malloc(4, 7*kilo, Near(4*Mega + 8*kilo), 2, None),
    Store(4, Structs(7*kilo), 2, 2)>>
tst_malloc_3_end == <<
    Malloc(5, 3*Mega - kilo, Near(4*Mega + 16*kilo), 768, None),
    Malloc(6, 6*Mega - kilo, Near(7*Mega + 16*kilo), 1536, None),
    Store(6, Thirds(6*Mega - kilo), 3 + 2, 3),
    Malloc(7, 14*kilo, Near(13*Mega + 16*kilo), 4, None),
    Store(7, Shorts(14*kilo), 2, 2)>>

toAccess == 800 - ActiveSize - 8
tst_free_1_allocate == <<
    Malloc(0, 2*Mega - kilo, Near(0), 512, None),
    Store(0, Bytes(2*Mega - kilo), 2 + 1, 2),
    Malloc(1, 2*Mega - kilo, Near(2*Mega), 512, None),
    Store(1, Shorts(2*Mega - kilo), 2, 2),
    Malloc(2, 3*kilo, Near(4*Mega), 1, None),
    Store(2, Ints(3*kilo), 1 + 1, 2),
    Malloc(3, 3*kilo, Near(4*Mega + 4*kilo), 1, None),
    Malloc(4, 7*kilo, Near(4*Mega + 8*kilo), 2, None),
    Store(4, Structs(7*kilo), 2, 2)>>
tst_free_1_fill == <<
    Malloc(5, 3*Mega - kilo, Near(4*Mega + 16*kilo), 768, None),
    Store(5, {<<i * PAGE_SIZE, "@">> : i \in 0 .. toAccess - 1}, None, None),
    Malloc(6, 6*Mega - kilo, Near(7*Mega + 16*kilo), 1536, None),
    Store(6, Thirds(6*Mega - kilo), 3 + 2, 3),
    Malloc(7, 14*kilo, Near(13*Mega + 16*kilo), 4, None),
    Store(7, Shorts(14*kilo), 2, 2)>>
tst_free_1_free == <<
    Free(6, 1536, 3 + 1), Lists(800, 1),
    Free(0, 512, 2), Lists(799, 0),
    Free(1, 512, 2 + 1), Lists(797, 0),
    Free(4, 2, 2), Lists(795, 0)>>
tst_free_1_end == <<
    Free(5, 768, toAccess),
    Free(2, 1, 1 + 1), Lists(794, 0),
    Free(3, 1, 0),
    Free(7, 4, 2 + 1), Lists(792, 0),
    Total(4)>>

tst_free_2_allocate == <<
    Malloc(0, 2*Mega - kilo, From(0), 512, None),
    Malloc(1, 2*Mega - kilo, From(2*Mega), 512, None),
    Malloc(2, 3*kilo, From(4*Mega), 1, None),
    Malloc(3, 3*kilo, From(4*Mega + 4*kilo), 1, None),
    Malloc(4, 7*kilo, From(4*Mega + 8*kilo), 2, None),
    Malloc(5, 3*Mega - kilo, From(4*Mega + 16*kilo), 768, None),
    Malloc(6, 2*Mega - kilo, From(7*Mega + 16*kilo), 512, None)>>
tst_free_2_free == <<
    Free(0, 512, None), Reach(0, {0, 2*Mega - kilo - 1}),
    Free(1, 512, None), Reach(1, {0, 2*Mega - kilo - 1}),
    Free(2, 1, None), Reach(2, {0, 3*kilo - 1}),
    Free(3, 1, None), Reach(3, {0, 3*kilo - 1}),
    Free(4, 2, None), Reach(4, {0, 7*kilo - 1}),
    Free(5, 768, None), Reach(5, {0, 3*Mega - kilo - 1}),
    Free(6, 512, None), Reach(6, {0, 2*Mega - kilo - 1}),
    Total(3)>>

tst_best_fit_1_allocate == <<
    Malloc(0, 3*Mega - kilo, At(0), 768, 1),
    Malloc(1, 3*Mega - kilo, At(3*Mega), 768, 1),
    Malloc(2, 2*Mega - kilo, At(6*Mega), 512, 0),
    Malloc(3, 2*Mega - kilo, At(8*Mega), 512, 1),
    Malloc(4, Mega - kilo, At(10*Mega), 256, 0),
    Malloc(5, Mega - kilo, At(11*Mega), 256, 0),
    Malloc(6, Mega - kilo, At(12*Mega), 256, 1),
    Malloc(7, Mega - kilo, At(13*Mega), 256, 0)>>
tst_best_fit_1_holes == <<
    Free(1, 768, 0), Free(3, 512, 0), Free(5, 256, 0),
    Malloc(8, 512*kilo, At(11*Mega), 128, 0),
    Malloc(9, Mega - kilo, At(8*Mega), 256, 0),
    Malloc(10, 256*kilo - kilo, At(11*Mega + 512*kilo), 64, 0),
    Malloc(11, 4*Mega - kilo, At(14*Mega), 1024, 1),
    Free(4, 256, 0), Free(8, 128, 0),
    Malloc(12, 2*Mega - kilo, At(9*Mega), 512, 0)>>

tst_best_fit_2_fragments == <<
    Malloc(0, HeapSize + 1, Nowhere, None, None),
    Malloc(0, 2*Mega - kilo, At(0), 512, None),
    Malloc(1, 2*Mega - kilo, At(2*Mega), 512, None),
    Malloc(2, 2*kilo, At(4*Mega), 1, None),
    Malloc(3, 2*kilo, At(4*Mega + 4*kilo), 1, None),
    Free(2, 1, None),
    Malloc(4, 7*kilo, At(4*Mega + 8*kilo), 2, None),
    Free(0, 512, None),
    Malloc(5, 3*Mega - kilo, At(4*Mega + 16*kilo), 768, None),
    Malloc(6, 2*Mega + 6*kilo, At(7*Mega + 16*kilo), 514, None),
    Malloc(7, 5*Mega - kilo, At(9*Mega + 24*kilo), 1280, None)>>
tst_best_fit_2_fit == <<
    Free(6, 514, None), Free(1, 512, None),
    Malloc(8, 2*Mega - kilo, At(7*Mega + 16*kilo), 512, None),
    Malloc(9, 6*kilo, At(9*Mega + 16*kilo), 2, None),
    Free(5, 768, None),
    Malloc(10, 3*Mega - kilo, At(4*Mega + 16*kilo), 768, None),
    Malloc(11, 4*Mega - kilo, At(0), 1024, None),
    Malloc(12, HeapSize - 14*Mega, Nowhere, None, None)>>

tst_first_fit_1_allocate == <<
    FirstFitMalloc(0, Mega - kilo, At(0), 256, 1),
    FirstFitMalloc(1, Mega - kilo, At(Mega), 256, 0),
    FirstFitMalloc(2, Mega - kilo, At(2*Mega), 256, 0),
    FirstFitMalloc(3, Mega - kilo, At(3*Mega), 256, 0),
    FirstFitMalloc(4, 2*Mega - kilo, At(4*Mega), 512, 1),
    FirstFitMalloc(5, 2*Mega - kilo, At(6*Mega), 512, 0),
    FirstFitMalloc(6, 3*Mega - kilo, At(8*Mega), 768, 1),
    FirstFitMalloc(7, 3*Mega - kilo, At(11*Mega), 768, 1)>>
tst_first_fit_1_holes == <<
    Free(1, 256, 0), Free(4, 512, 0), Free(6, 768, 0),
    FirstFitMalloc(8, 512*kilo - kilo, At(Mega), 128, 0),
    FirstFitMalloc(9, Mega - kilo, At(4*Mega), 256, 0),
    FirstFitMalloc(10, 256*kilo - kilo, At(Mega + 512*kilo), 64, 0),
    FirstFitMalloc(11, 2*Mega, At(8*Mega), 512, 0),
    FirstFitMalloc(12, 4*Mega - kilo, At(14*Mega), 1024, 1),
    Free(2, 256, 0), Free(9, 256, 0), Free(3, 256, 0),
    FirstFitMalloc(13, 4*Mega + 256*kilo - kilo, At(Mega + 768*kilo), 1024 + 64, 0)>>

tst_first_fit_2_fragments == <<
    FirstFitMalloc(0, HeapSize + 1, Nowhere, None, None),
    FirstFitMalloc(0, 2*Mega - kilo, At(0), 512, None),
    FirstFitMalloc(1, 2*Mega - kilo, At(2*Mega), 512, None),
    FirstFitMalloc(2, 3*kilo, At(4*Mega), 1, None),
    FirstFitMalloc(3, 3*kilo, At(4*Mega + 4*kilo), 1, None),
    Free(2, 1, None),
    FirstFitMalloc(4, 7*kilo, At(4*Mega + 8*kilo), 2, None),
    Free(0, 512, None),
    FirstFitMalloc(5, 3*Mega - kilo, At(4*Mega + 16*kilo), 768, None),
    FirstFitMalloc(6, 2*Mega + 6*kilo, At(7*Mega + 16*kilo), 514, None)>>
tst_first_fit_2_fit == <<
    Free(5, 768, None), Free(1, 512, None),
    FirstFitMalloc(7, 5*Mega - kilo, At(9*Mega + 24*kilo), 1280, None),
    FirstFitMalloc(8, 3*Mega - kilo, At(0), 768, None),
    FirstFitMalloc(9, HeapSize - 14*Mega, Nowhere, None, None)>>

Program(name) ==
    CASE name = "tst_malloc_1" -> tst_malloc_1
      [] name = "tst_malloc_2" -> tst_malloc_2
      [] name = "tst_malloc_3" -> tst_malloc_3 \o tst_malloc_3_end
      [] name = "tst_malloc_5" -> tst_malloc_5
      [] name = "tst_free_1" -> tst_free_1_allocate \o tst_free_1_fill
                                  \o tst_free_1_free \o tst_free_1_end
      [] name = "tst_free_2" -> tst_free_2_allocate \o tst_free_2_free
      [] name = "tst_best_fit_1" -> tst_best_fit_1_allocate \o tst_best_fit_1_holes
      [] name = "tst_best_fit_2" -> tst_best_fit_2_fragments \o tst_best_fit_2_fit
      [] name = "tst_first_fit_1" -> tst_first_fit_1_allocate \o tst_first_fit_1_holes
      [] name = "tst_first_fit_2" -> tst_first_fit_2_fragments \o tst_first_fit_2_fit

-----------------------------------------------------------------------------
Init ==
    /\ test \in {t \in [Envs -> Tests \cup Others] :
                 \A e \in Envs : t[e] \in IF e = Main THEN Tests ELSE Others}
    /\ pc = [e \in Envs |-> 1]
    /\ phase = [e \in Envs |-> "read"]
    /\ ptr_allocations = [e \in Envs |-> [slot \in 0 .. 19 |-> NULL]]
    /\ heap = [e \in Envs |-> NewHeap]
    /\ usedDiskPages = [e \in Envs |-> 0]
    /\ freeFrames = [e \in Envs |-> 0]
    /\ start_freeFrames = [e \in Envs |-> 0]
    /\ failed = [e \in Envs |-> {}]

Running(e) == pc[e] <= Len(Program(test[e])) /\ failed[e] = {}
Now(e) == Program(test[e])[pc[e]]
Pointer(e) == ptr_allocations[e][Now(e).slot]

\* The page and the offset in it of a byte of a block.
Cell(va, offset) == <<va + offset \div PAGE_SIZE, offset % PAGE_SIZE>>

\* The program keeps the counters it compares with later, freeFrames only if it
\* does; what is counted is the frames in use, with the other sign.
ReadCounters(e) ==
    /\ Running(e) /\ phase[e] = "read"
    /\ usedDiskPages' = [usedDiskPages EXCEPT ![e] = pf_calculate_allocated_pages(e)]
    /\ LET count == IF "frames" \in Checks THEN -Frames(heap) ELSE 0 IN
       /\ freeFrames' = [freeFrames EXCEPT ![e] = count]
       /\ start_freeFrames' = IF pc[e] # 1 THEN start_freeFrames
                              ELSE [start_freeFrames EXCEPT ![e] = count]
    /\ phase' = [phase EXCEPT ![e] = "call"]
    /\ UNCHANGED <<test, pc, ptr_allocations, heap, failed>>

Called(e) ==
    /\ phase' = [phase EXCEPT ![e] = "check"]
    /\ UNCHANGED <<test, pc, usedDiskPages, freeFrames, start_freeFrames, failed>>

CallMalloc(e) ==
    LET m == malloc(heap[e], Now(e).size) IN
    /\ Running(e) /\ phase[e] = "call" /\ Now(e).op = "malloc"
    /\ heap' = [heap EXCEPT ![e] = m.heap]
    /\ ptr_allocations' = [ptr_allocations EXCEPT ![e][Now(e).slot] = m.va]
    /\ Called(e)

\* Mutant: free merges the holes before it looks for the pages of the block.
CallFreeMerged(e) ==
    /\ Running(e) /\ phase[e] = "call" /\ Now(e).op = "free"
    /\ heap' = [heap EXCEPT ![e].spaces = free(heap[e], Pointer(e)).spaces]
    /\ UNCHANGED ptr_allocations
    /\ Called(e)

CallFree(e) ==
    /\ Running(e) /\ phase[e] = "call" /\ Now(e).op = "free"
    /\ heap' = [heap EXCEPT ![e] = free(@, Pointer(e))]
    /\ UNCHANGED ptr_allocations
    /\ Called(e)

\* The pages are mapped (NoHeapFault), so that a store just stores.
StoreCells(e) ==
    LET cells == Now(e).cells
        written == {Cell(Pointer(e), c[1]) : c \in cells}
    IN
    /\ Running(e) /\ phase[e] = "call" /\ Now(e).op \in {"store", "reach"}
    /\ heap' = [heap EXCEPT ![e].stored =
                  [a \in written \cup DOMAIN @ |->
                     IF a \in written
                     THEN (CHOOSE c \in cells : Cell(Pointer(e), c[1]) = a)[2]
                     ELSE @[a]]]
    /\ UNCHANGED ptr_allocations
    /\ Called(e)

OnlyCompare(e) ==
    /\ Running(e) /\ phase[e] = "call" /\ Now(e).op \in {"compare", "lists", "total"}
    /\ UNCHANGED <<heap, ptr_allocations>>
    /\ Called(e)

\* The kinds of the checks that the step fails.
FailedKinds(e) ==
    LET s == Now(e)
        taken == IF s.op = "free" THEN -1 ELSE 1
        offset == IF Pointer(e) = NULL THEN {} ELSE {Pointer(e) - USER_HEAP_START}
    IN {k \in Checks :
         \/ /\ s.op = "malloc" /\ k = s.kind
            /\ IF s.place = {} THEN offset # {} ELSE offset = {} \/ ~(offset \subseteq s.place)
         \/ /\ k = "disk" /\ s.disk # None
            /\ taken * (pf_calculate_allocated_pages(e) - usedDiskPages[e]) # s.disk
         \/ /\ k = "frames" /\ s.frames # None /\ s.op # "total"
            /\ taken * (Frames(heap) + freeFrames[e]) # s.frames
         \/ /\ k = "frames" /\ s.op = "total"
            /\ Frames(heap) + start_freeFrames[e] # s.frames
         \/ k = "ws" /\ s.op = "store" /\ s.found # None /\ s.found # 0
         \/ k = "ws" /\ s.op = "lists" /\ s.active # ActiveSize /\ s.second # 0
         \/ k = "freed" /\ s.op = "reach"
         \/ /\ k = "value" /\ s.op = "compare"
            /\ \E c \in s.cells : heap[e].stored[Cell(Pointer(e), c[1])] # c[2]}

Check(e) ==
    /\ Running(e) /\ phase[e] = "check"
    /\ failed' = [failed EXCEPT ![e] = FailedKinds(e)]
    /\ pc' = [pc EXCEPT ![e] = IF FailedKinds(e) = {} THEN @ + 1 ELSE @]
    /\ phase' = [phase EXCEPT ![e] = "read"]
    /\ UNCHANGED <<test, ptr_allocations, heap, usedDiskPages, freeFrames, start_freeFrames>>

Next == \E e \in Envs : \/ ReadCounters(e) \/ CallMalloc(e) \/ CallFree(e)
                        \/ StoreCells(e) \/ OnlyCompare(e) \/ Check(e)

Spec == Init /\ [][Next]_vars
-----------------------------------------------------------------------------
\* The checks of the programs hold however the environments are scheduled
\* between the reading of a counter and the comparison.
ChecksHold == \A e \in Envs : failed[e] = {}

\* The page file has the pages of the blocks in use and no other, for holes of
\* the real sizes and whatever order they are split and merged in.
DiskIsBlocks ==
    \A e \in Envs :
      LET h == heap[e]
          used == {i \in DOMAIN h.spaces : ~h.spaces[i].isFree /\ h.spaces[i].pages # -1}
      IN /\ Pages(h.disk) = MapThenSumSet(LAMBDA i : h.spaces[i].pages, used)
         /\ \A i \in used : \A page \in {h.spaces[i].str_address, h.spaces[i].end_address - 1} :
              Has(h.disk, page)

\* A program that stores in a block it has never faults: its pages were mapped
\* when the block was allocated, and nothing unmaps them.
NoHeapFault ==
    \A e \in Envs : \A a \in DOMAIN heap[e].stored : Has(heap[e].mapped, a[1])
=============================================================================

----------------------------- MODULE ProgramHeap -----------------------------
(***************************************************************************)
(* The heap of one program as a value: what malloc and free of UserHeap,   *)
(* sys_allocateMem and sys_freeMem make of it.                             *)
(***************************************************************************)
EXTENDS Integers, Sequences, FiniteSets, FiniteSetsExt

CONSTANTS PAGE_SIZE, numPages, USER_HEAP_START, WordSize

NULL == 0

H == INSTANCE UserHeap WITH
       Sizes <- {}, Strays <- {}, spaces <- << >>, page_file <- {},
       running <- TRUE, overflown <- FALSE, live <- {}

-----------------------------------------------------------------------------
\* Sets of disjoint ranges lo .. hi - 1 of pages.
range(lo, hi) == [lo |-> lo, hi |-> hi]
Without(S, r) ==
    {i \in {range(m.lo, Min({m.hi, r.lo})) : m \in S}
         \cup {range(Max({m.lo, r.hi}), m.hi) : m \in S} : i.lo < i.hi}
With(S, r) == Without(S, r) \cup {i \in {r} : i.lo < i.hi}
Pages(S) == MapThenSumSet(LAMBDA i : i.hi - i.lo, S)
TablesOf(S) == Cardinality(UNION {i.lo \div 1024 .. (i.hi - 1) \div 1024 : i \in S})
Has(S, page) == \E i \in S : i.lo <= page /\ page < i.hi

\* What an environment has: the table of its heap, its heap pages in the page
\* file and, for ever, the page tables there, the pages that are mapped, the
\* values the program has stored, and whether it has written behind spaces[].
NewHeap == [spaces |-> << >>, disk |-> {}, disk_tables |-> {}, mapped |-> {},
            stored |-> [a \in {} |-> "none"], overflown |-> FALSE]

\* Mutant: as the comment in it says, nothing is allocated in main memory.
allocateMemOnDisk(h, va, pages) ==
    LET r == range(va, va + pages) IN
    [h EXCEPT !.disk = With(@, r), !.disk_tables = With(@, r)]

\* allocateMem: every page gets a place in the page file and a frame.
allocateMem(h, va, pages) ==
    LET r == range(va, va + pages) IN
    [h EXCEPT !.disk = With(@, r), !.disk_tables = With(@, r), !.mapped = With(@, r)]

\* freeMem: the pages leave the page file.  It unmaps those of them that are
\* in the working set, and a heap page that was mapped by allocateMem has
\* never been faulted into it.
freeMem(h, va, pages) == [h EXCEPT !.disk = Without(@, range(va, va + pages))]

\* malloc, with the address it returns.
TableOf(h) ==
    IF h.spaces = << >>
    THEN <<H!info(USER_HEAP_START, USER_HEAP_START + numPages, numPages, TRUE)>>
    ELSE h.spaces
malloc(h, size) ==
    LET table == TableOf(h)
        req == H!ReqPages(size)
        i == H!BestFit(table, req)
        va == table[i].str_address
    IN CASE H!Fits(table, req) = {} ->
              [heap |-> [h EXCEPT !.spaces = table], va |-> NULL]
         [] H!Fits(table, req) # {} /\ req = table[i].pages ->
              [heap |-> allocateMem([h EXCEPT !.spaces = [table EXCEPT ![i].isFree = FALSE]],
                                    va, req),
               va |-> va]
         [] H!Fits(table, req) # {} /\ req # table[i].pages /\ Len(table) < numPages ->
              [heap |-> allocateMem([h EXCEPT !.spaces = H!Split(table, i, req)], va, req),
               va |-> va]
         [] OTHER -> [heap |-> [h EXCEPT !.overflown = TRUE], va |-> NULL]

\* free of the address of a block.
free(h, va) ==
    LET index == H!First({k \in DOMAIN h.spaces : h.spaces[k].str_address = va})
    IN freeMem([h EXCEPT !.spaces = H!Merged(@, index)], va, h.spaces[index].pages)
=============================================================================

------------------------------ MODULE UserHeap ------------------------------
(***************************************************************************)
(* The user heap, lib/uheap.c: the table spaces[] of the blocks and holes  *)
(* of the heap, malloc with best fit, and free with the merging of holes.  *)
(* Addresses count pages, sizes are bytes in words of WordSize values.     *)
(* Address 0 is NULL, which free also writes into an entry it removes.     *)
(***************************************************************************)
EXTENDS Integers, Sequences

CONSTANTS
    PAGE_SIZE,
    numPages,            \* the pages of the heap, and the entries of spaces[]
    USER_HEAP_START,
    WordSize,            \* 2^32 in the code
    Sizes,               \* the sizes a program asks for
    Strays               \* addresses it gives to free without having them

ASSUME HeapAssumption ==
    /\ PAGE_SIZE \in Nat \ {0} /\ numPages \in Nat \ {0}
    /\ USER_HEAP_START \in Nat \ {0}
    /\ WordSize \in Nat \ {0} /\ WordSize >= PAGE_SIZE * (USER_HEAP_START + numPages)
    /\ Sizes \subseteq 0 .. WordSize - 1
    /\ Strays \subseteq Nat

USER_HEAP_MAX == USER_HEAP_START + numPages
HeapPages == USER_HEAP_START .. USER_HEAP_MAX - 1

VARIABLES
    spaces,      \* spaces[0 .. arraySize - 1]
    page_file,   \* the heap pages that allocateMem has put in the page file
    running,     \* the program has not ended
    overflown,   \* malloc has written behind the end of spaces[]
    live         \* history: the blocks the program has, with what it asked for

vars == <<spaces, page_file, running, overflown, live>>

Init ==
    /\ spaces = << >>
    /\ page_file = {}
    /\ running = TRUE
    /\ overflown = FALSE
    /\ live = {}

\* An entry of spaces[], and what free leaves of one that it merges.
info(str, end, pages, isFree) ==
    [str_address |-> str, end_address |-> end, pages |-> pages, isFree |-> isFree]
Removed == info(0, 0, -1, FALSE)

PagesAt(va, pages) == va .. va + pages - 1

\* ROUNDUP in 32-bit words, and the pages of the result.
ROUNDUP(size) ==
    LET sum == (size + PAGE_SIZE - 1) % WordSize IN sum - (sum % PAGE_SIZE)
ReqPages(size) == ROUNDUP(size) \div PAGE_SIZE

-----------------------------------------------------------------------------
\* The first call of malloc makes the whole heap one hole.
Table == IF spaces = << >>
         THEN <<info(USER_HEAP_START, USER_HEAP_MAX, numPages, TRUE)>>
         ELSE spaces

\* Mutant: a block that is in use can be taken.
FitsInUse(table, req) == {i \in DOMAIN table : table[i].pages >= req}

Fits(table, req) == {i \in DOMAIN table : table[i].isFree /\ table[i].pages >= req}

BestFit(table, req) ==
    CHOOSE i \in Fits(table, req) :
      \A j \in Fits(table, req) :
        \/ table[i].pages < table[j].pages
        \/ table[i].pages = table[j].pages /\ i <= j

\* The block is the first part of hole i, a new entry is the rest.
Split(table, i, req) ==
    Append([table EXCEPT ![i].end_address = table[i].str_address + req,
                         ![i].pages = req, ![i].isFree = FALSE],
           info(table[i].str_address + req, table[i].end_address,
                table[i].pages - req, TRUE))

\* Mutant: the loop begins with the second page.
AllocateMemFromOne(va, req) ==
    /\ page_file' = page_file \cup PagesAt(va + 1, req - 1)
    /\ UNCHANGED running

\* sys_allocateMem: the kernel ends the program when the page file is full.
AllocateMem(va, req) ==
    \/ /\ page_file' = page_file \cup PagesAt(va, req)
       /\ UNCHANGED running
    \/ \E done \in 0 .. req - 1 :
         /\ page_file' = page_file \cup PagesAt(va, done)
         /\ running' = FALSE

MallocFits(size, i) ==
    LET table == Table
        req == ReqPages(size)
        va == table[i].str_address
    IN /\ \/ /\ req = table[i].pages
             /\ spaces' = [table EXCEPT ![i].isFree = FALSE]
          \/ /\ req # table[i].pages /\ Len(table) < numPages
             /\ spaces' = Split(table, i, req)
       /\ AllocateMem(va, req)
       /\ live' = live \cup {[va |-> va, pages |-> req, size |-> size]}
       /\ UNCHANGED overflown

\* The new entry is behind the table: what it overwrites is undefined, and so
\* is all that follows.
MallocOverflows(size, i) ==
    /\ ReqPages(size) # Table[i].pages /\ Len(Table) = numPages
    /\ overflown' = TRUE
    /\ running' = FALSE
    /\ UNCHANGED <<spaces, page_file, live>>

\* The program's pointer is NULL when nothing fits.
MallocFails ==
    /\ spaces' = Table
    /\ UNCHANGED <<page_file, running, overflown, live>>

malloc(size) ==
    /\ running
    /\ LET fits == Fits(Table, ReqPages(size)) IN
       \/ fits = {} /\ MallocFails
       \/ fits # {} /\ MallocFits(size, BestFit(Table, ReqPages(size)))
       \/ fits # {} /\ MallocOverflows(size, BestFit(Table, ReqPages(size)))

-----------------------------------------------------------------------------
\* The place a loop over the table stops at, 0 if it does not stop.
First(places) == IF places = {} THEN 0
                 ELSE CHOOSE i \in places : \A j \in places : i <= j

\* The hole that ends where the block begins takes the block's pages.
MergeLeft(table, index) ==
    LET b == table[index]
        i == First({k \in DOMAIN table : /\ table[k].isFree
                                         /\ table[k].end_address = b.str_address})
    IN IF i = 0 THEN table
       ELSE [table EXCEPT ![i].end_address = b.end_address,
                          ![i].pages = @ + b.pages,
                          ![index] = Removed]

\* Mutant: the merged block stays in the table.
MergeRightKeeps(table, index) ==
    LET b == table[index]
        i == First({k \in DOMAIN table : /\ table[k].isFree
                                         /\ table[k].str_address = b.end_address})
    IN IF i = 0 THEN table
       ELSE [table EXCEPT ![i].str_address = b.str_address,
                          ![i].pages = @ + b.pages,
                          ![index].isFree = FALSE]

\* The hole that begins where the block ends takes the block's pages.
MergeRight(table, index) ==
    LET b == table[index]
        i == First({k \in DOMAIN table : /\ table[k].isFree
                                         /\ table[k].str_address = b.end_address})
    IN IF i = 0 THEN table
       ELSE [table EXCEPT ![i].str_address = b.str_address,
                          ![i].pages = @ + b.pages,
                          ![index] = Removed]

\* Both loops run; the second one sees the entry as the first one left it.
Merged(table, index) ==
    LET left == MergeLeft(table, index)
        both == MergeRight(left, index)
    IN IF both = table THEN [table EXCEPT ![index].isFree = TRUE] ELSE both

\* free(va).  Without an entry the program panics.  A removed entry has
\* address 0 and -1 pages: sys_freeMem then takes every page of the program
\* away, its instructions too.
free(va) ==
    LET index == First({k \in DOMAIN spaces : spaces[k].str_address = va}) IN
    /\ running
    /\ \/ /\ index = 0
          /\ running' = FALSE
          /\ UNCHANGED <<spaces, page_file>>
       \/ /\ index # 0 /\ spaces[index].pages = -1
          /\ page_file' = {}
          /\ running' = FALSE
          /\ UNCHANGED spaces
       \/ /\ index # 0 /\ spaces[index].pages # -1
          /\ page_file' = page_file \ PagesAt(va, spaces[index].pages)
          /\ spaces' = Merged(spaces, index)
          /\ UNCHANGED running
    /\ UNCHANGED overflown

FreeBlock(b) == free(b.va) /\ live' = live \ {b}

FreeStray(va) ==
    /\ \A b \in live : b.va # va
    /\ free(va)
    /\ UNCHANGED live

Next == \/ \E size \in Sizes : malloc(size)
        \/ \E b \in live : FreeBlock(b)
        \/ \E va \in Strays : FreeStray(va)

Spec == Init /\ [][Next]_vars
-----------------------------------------------------------------------------
InUse == {i \in DOMAIN spaces : spaces[i].pages # -1}
Entry == [str_address : 0 .. USER_HEAP_MAX, end_address : 0 .. USER_HEAP_MAX,
          pages : -1 .. numPages, isFree : BOOLEAN]

\* Every variable has its type, and the table at most numPages entries.
TypeOK ==
    /\ spaces \in Seq(Entry) /\ Len(spaces) <= numPages
    /\ page_file \subseteq HeapPages
    /\ running \in BOOLEAN /\ overflown \in BOOLEAN
    /\ live \subseteq [va : HeapPages, pages : 0 .. numPages, size : Sizes]

EntryPages(i) == spaces[i].str_address .. spaces[i].end_address - 1

\* The entries of spaces[] tile the heap: every page of it is in one entry,
\* and an entry has as many pages as it says.
HeapTiled ==
    /\ \A i \in InUse : spaces[i].end_address = spaces[i].str_address + spaces[i].pages
    /\ \A i, j \in InUse : i # j => EntryPages(i) \cap EntryPages(j) = {}
    /\ spaces # << >> => UNION {EntryPages(i) : i \in InUse} = HeapPages

\* The page file has the pages of the blocks the program has and no other, so
\* that free(va) releases the allocation at va (uheap.c:100).
PageFileAgrees ==
    running => page_file = UNION {PagesAt(b.va, b.pages) : b \in live}

\* The table refines the blocks a program may rely on.
Blocks ==
    INSTANCE HeapBlocks WITH
        Base   <- USER_HEAP_START,
        Limit  <- USER_HEAP_MAX,
        blocks <- {[va |-> spaces[i].str_address, pages |-> spaces[i].pages] :
                     i \in {k \in InUse : ~spaces[k].isFree}}

KeepsBlocksApart == Blocks!Spec

\* tst_best_fit_1.c:172: a hole is "appended to already existing" one: no hole
\* begins where another one ends.  Not so when a block has holes on both sides
\* (uheap.c:152).
HolesMerged ==
    \A i, j \in InUse : spaces[i].isFree /\ spaces[j].isFree
                          => spaces[i].end_address # spaces[j].str_address

\* uheap.c:142: a merged entry is removed "from spaces", so that the table, with
\* an entry for every page of the heap, is never full when malloc splits a hole.
\* Not so after enough splits, as no entry is used again (uheap.c:81).
TableHolds == ~overflown
=============================================================================

----------------------------- MODULE HeapBlocks -----------------------------
(***************************************************************************)
(* What malloc and free promise a program: the blocks it has are disjoint  *)
(* ranges of pages of the heap, a block that is returned is a new one or   *)
(* none, and free returns exactly the pages of the block.  The page file   *)
(* has a page for every page of a block and no other.                      *)
(***************************************************************************)
EXTENDS Integers

CONSTANTS Base, Limit     \* the heap: the pages Base .. Limit - 1

VARIABLES blocks,          \* records [va, pages]
          page_file,       \* pages of the heap that have a page in it
          running          \* the program has not ended

PagesAt(va, pages) == va .. va + pages - 1
Used == UNION {PagesAt(b.va, b.pages) : b \in blocks}

Init == blocks = {} /\ page_file = {} /\ running = TRUE

Malloc ==
    /\ running
    /\ \E va \in Base .. Limit - 1, pages \in 1 .. Limit - Base :
         /\ PagesAt(va, pages) \subseteq (Base .. Limit - 1) \ Used
         /\ blocks' = blocks \cup {[va |-> va, pages |-> pages]}
         /\ page_file' = page_file \cup PagesAt(va, pages)
    /\ UNCHANGED running

Free ==
    /\ running
    /\ \E b \in blocks : /\ blocks' = blocks \ {b}
                         /\ page_file' = page_file \ PagesAt(b.va, b.pages)
    /\ UNCHANGED running

\* The program ends: of its own, or because the kernel ends it.
End == running /\ running' = FALSE

Next == Malloc \/ Free \/ End

Spec == Init /\ [][Next]_<<blocks, page_file, running>>
=============================================================================

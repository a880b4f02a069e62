------------------------------ MODULE LRUStack ------------------------------
(***************************************************************************)
(* What the two working-set lists of an environment promise together: one  *)
(* stack of resident pages, most recently faulted first, never longer than *)
(* the working set.  A fault on a page of the stack moves it to the front; *)
(* a fault on another page puts it in front, and in place of the LAST page *)
(* when the stack is full; nothing else reorders the pages.                *)
(***************************************************************************)
EXTENDS Naturals, Sequences, SequencesExt

CONSTANTS Page,        \* the pages of the address space
          Capacity     \* page_WS_max_size

VARIABLE stack

Init == /\ stack \in Seq(Page)
        /\ Len(stack) <= Capacity

\* A fault on a resident page: nothing is loaded, the page becomes the newest.
Refault(i) == stack' = Cons(stack[i], RemoveAt(stack, i))

\* A fault on a page that is not resident, with a free working-set element.
Load(p) == /\ p \notin ToSet(stack)
           /\ Len(stack) < Capacity
           /\ stack' = Cons(p, stack)

\* A fault on a page that is not resident, in a full working set.
Replace(p) == /\ p \notin ToSet(stack)
              /\ stack # << >> /\ Len(stack) = Capacity
              /\ stack' = Cons(p, Front(stack))

\* A page leaves the working set because the program released it.
Discard(i) == stack' = RemoveAt(stack, i)

\* The environment dies in the middle of a replacement: its victim is gone.
Abort == /\ stack # << >>
         /\ stack' = Front(stack)

\* The environment is freed.
Clear == stack' = << >>

Next == \/ \E i \in DOMAIN stack : Refault(i) \/ Discard(i)
        \/ \E p \in Page : Load(p) \/ Replace(p)
        \/ Abort
        \/ Clear

Spec == Init /\ [][Next]_stack
=============================================================================

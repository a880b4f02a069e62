-------------------------------- MODULE Lists --------------------------------
(***************************************************************************)
(* The doubly linked lists of inc/queue.h: heads with a first and a last   *)
(* element and a size, elements with the next and the previous one, and    *)
(* the loop LIST_FOREACH, which keeps the element it goes on with in the   *)
(* head.  An action is one macro, called for an element that is in no list *)
(* (insertions) or in this list (removals), as the callers see to.         *)
(*                                                                         *)
(* The body of a loop may take the element it is at out of the list, and   *)
(* put others into it; it does not start a second loop over the same list. *)
(***************************************************************************)
EXTENDS Naturals, Sequences, FiniteSets

CONSTANTS Heads, Elems, NULL

ASSUME ListsAssumption == NULL \notin Elems /\ IsFiniteSet(Elems)

VARIABLES
    lh_first, lh_last, size, ptr_next,    \* of the heads
    le_next, le_prev,                     \* of the elements
    loop                                  \* the loop that runs, or NoLoop

linkVars == <<lh_first, lh_last, size, le_next, le_prev>>
vars == <<linkVars, ptr_next, loop>>

NoLoop == [list |-> NULL, var |-> NULL, start |-> << >>, visited |-> << >>, kept |-> {}]

LIST_INIT ==
    /\ lh_first = [h \in Heads |-> NULL]
    /\ lh_last = [h \in Heads |-> NULL]
    /\ size = [h \in Heads |-> 0]

Init ==
    /\ LIST_INIT
    /\ ptr_next = [h \in Heads |-> NULL]
    /\ le_next = [e \in Elems |-> NULL]
    /\ le_prev = [e \in Elems |-> NULL]
    /\ loop = NoLoop

-----------------------------------------------------------------------------
\* The elements from e on, following the links one way; a list that does not
\* end is cut behind more elements than there are.
Chain(link, e) ==
    LET Path[n \in 0 .. Cardinality(Elems)] ==
          IF n = 0 THEN <<e>>
          ELSE LET s == Path[n - 1]
                   behind == link[s[Len(s)]]
               IN  IF behind = NULL THEN s ELSE Append(s, behind)
    IN  IF e = NULL THEN << >> ELSE Path[Cardinality(Elems)]

ElemsOf(h) == Chain(le_next, lh_first[h])
Members(s) == {s[k] : k \in DOMAIN s}
In(h, e) == e \in Members(ElemsOf(h))
Free(e) == \A h \in Heads : ~In(h, e)

\* Mutant: an element that is in the other list is inserted.
NotInThisList(h, e) ==
    /\ ~In(h, e)
    /\ loop.list = h => e \notin Members(loop.visited)

\* An insertion in the list of the loop: not of an element it has seen, which
\* it would see again.
Insertable(h, e) ==
    /\ Free(e)
    /\ loop.list = h => e \notin Members(loop.visited)

-----------------------------------------------------------------------------
(***************************************************************************)
(* The macros.                                                             *)
(***************************************************************************)
LIST_INSERT_AFTER(h, listelm, e) ==
    /\ Insertable(h, e) /\ In(h, listelm)
    /\ LET after == le_next[listelm]
       IN  /\ le_next' = [le_next EXCEPT ![e] = after, ![listelm] = e]
           /\ le_prev' = [x \in Elems |-> IF x = after THEN e
                                          ELSE IF x = e THEN listelm ELSE le_prev[x]]
           /\ lh_last' = IF after = NULL THEN [lh_last EXCEPT ![h] = e] ELSE lh_last
    /\ size' = [size EXCEPT ![h] = @ + 1]
    /\ UNCHANGED <<lh_first, ptr_next, loop>>

LIST_INSERT_BEFORE(h, listelm, e) ==
    /\ Insertable(h, e) /\ In(h, listelm)
    /\ LET before == le_prev[listelm]
       IN  /\ le_prev' = [le_prev EXCEPT ![e] = before, ![listelm] = e]
           /\ le_next' = [x \in Elems |-> IF x = before THEN e
                                          ELSE IF x = e THEN listelm ELSE le_next[x]]
           /\ lh_first' = IF before = NULL THEN [lh_first EXCEPT ![h] = e] ELSE lh_first
    /\ size' = [size EXCEPT ![h] = @ + 1]
    /\ UNCHANGED <<lh_last, ptr_next, loop>>

LIST_INSERT_HEAD(h, e) ==
    /\ Insertable(h, e)
    /\ le_next' = [le_next EXCEPT ![e] = lh_first[h]]
    /\ IF lh_first[h] # NULL
       THEN /\ le_prev' = [le_prev EXCEPT ![lh_first[h]] = e, ![e] = NULL]
            /\ UNCHANGED lh_last
       ELSE /\ le_prev' = [le_prev EXCEPT ![e] = NULL]
            /\ lh_last' = [lh_last EXCEPT ![h] = e]
    /\ lh_first' = [lh_first EXCEPT ![h] = e]
    /\ size' = [size EXCEPT ![h] = @ + 1]
    /\ UNCHANGED <<ptr_next, loop>>

LIST_INSERT_TAIL(h, e) ==
    /\ Insertable(h, e)
    /\ le_prev' = [le_prev EXCEPT ![e] = lh_last[h]]
    /\ IF lh_last[h] # NULL
       THEN /\ le_next' = [le_next EXCEPT ![lh_last[h]] = e, ![e] = NULL]
            /\ UNCHANGED lh_first
       ELSE /\ le_next' = [le_next EXCEPT ![e] = NULL]
            /\ lh_first' = [lh_first EXCEPT ![h] = e]
    /\ lh_last' = [lh_last EXCEPT ![h] = e]
    /\ size' = [size EXCEPT ![h] = @ + 1]
    /\ UNCHANGED <<ptr_next, loop>>

\* Mutant: the element behind keeps its link to the one that is removed.
Unlinked(h, e) ==
    /\ lh_last' = IF le_next[e] = NULL THEN [lh_last EXCEPT ![h] = le_prev[e]] ELSE lh_last
    /\ lh_first' = IF le_prev[e] = NULL THEN [lh_first EXCEPT ![h] = le_next[e]] ELSE lh_first
    /\ le_next' = [x \in Elems |-> IF x = e THEN NULL
                                   ELSE IF x = le_prev[e] THEN le_next[e] ELSE le_next[x]]
    /\ le_prev' = [le_prev EXCEPT ![e] = NULL]
    /\ size' = [size EXCEPT ![h] = @ - 1]

LIST_REMOVE(h, e) ==
    /\ IF le_next[e] # NULL
       THEN /\ le_prev' = [le_prev EXCEPT ![le_next[e]] = le_prev[e], ![e] = NULL]
            /\ UNCHANGED lh_last
       ELSE /\ lh_last' = [lh_last EXCEPT ![h] = le_prev[e]]
            /\ le_prev' = [le_prev EXCEPT ![e] = NULL]
    /\ IF le_prev[e] # NULL
       THEN /\ le_next' = [le_next EXCEPT ![le_prev[e]] = le_next[e], ![e] = NULL]
            /\ UNCHANGED lh_first
       ELSE /\ lh_first' = [lh_first EXCEPT ![h] = le_next[e]]
            /\ le_next' = [le_next EXCEPT ![e] = NULL]
    /\ size' = [size EXCEPT ![h] = @ - 1]

-----------------------------------------------------------------------------
(***************************************************************************)
(* The functions that call them: the queues of kern/sched.c take their     *)
(* elements in at the head and out at the end.                             *)
(***************************************************************************)
enqueue(h, e) == LIST_INSERT_HEAD(h, e)
bufferList_add_page(h, e) == LIST_INSERT_TAIL(h, e)

\* A loop over the list has the element it is at taken out, or the loop is
\* over another list.
Removed(h, e) ==
    /\ loop.list = h => e = loop.var
    /\ LIST_REMOVE(h, e)
    /\ loop' = IF loop.list = h THEN [loop EXCEPT !.kept = @ \ {e}] ELSE loop
    /\ UNCHANGED ptr_next

dequeue(h) == lh_last[h] # NULL /\ Removed(h, lh_last[h])
remove_from_queue(h, e) == In(h, e) /\ Removed(h, e)

-----------------------------------------------------------------------------
(***************************************************************************)
(* LIST_FOREACH: the condition of the loop reads the next element into the *)
(* head before the body runs.                                              *)
(***************************************************************************)
At(h, e) == ptr_next' = [ptr_next EXCEPT ![h] = IF e = NULL THEN NULL ELSE le_next[e]]

LIST_FOREACH(h) ==
    /\ loop = NoLoop /\ lh_first[h] # NULL
    /\ At(h, lh_first[h])
    /\ loop' = [list |-> h, var |-> lh_first[h], start |-> ElemsOf(h),
                visited |-> <<lh_first[h]>>, kept |-> Members(ElemsOf(h))]
    /\ UNCHANGED linkVars

\* Mutant: the next element is read after the body has run.
LoopNextLate ==
    /\ loop # NoLoop /\ le_next[loop.var] # NULL
    /\ At(loop.list, le_next[loop.var])
    /\ loop' = [loop EXCEPT !.var = le_next[loop.var],
                            !.visited = Append(@, le_next[loop.var])]
    /\ UNCHANGED linkVars

LoopNext ==
    /\ loop # NoLoop /\ ptr_next[loop.list] # NULL
    /\ At(loop.list, ptr_next[loop.list])
    /\ loop' = [loop EXCEPT !.var = ptr_next[loop.list],
                            !.visited = Append(@, ptr_next[loop.list])]
    /\ UNCHANGED linkVars

LoopEnd ==
    /\ loop # NoLoop /\ ptr_next[loop.list] = NULL
    /\ At(loop.list, NULL)
    /\ loop' = NoLoop
    /\ UNCHANGED linkVars

\* The body returns from the middle of the loop.
find_env_in_queue ==
    /\ loop # NoLoop
    /\ loop' = NoLoop
    /\ UNCHANGED <<linkVars, ptr_next>>

Next ==
    \/ \E h \in Heads, e \in Elems :
         \/ enqueue(h, e) \/ bufferList_add_page(h, e) \/ remove_from_queue(h, e)
         \/ \E listelm \in Elems :
              LIST_INSERT_AFTER(h, listelm, e) \/ LIST_INSERT_BEFORE(h, listelm, e)
    \/ \E h \in Heads : dequeue(h) \/ LIST_FOREACH(h)
    \/ LoopNext \/ LoopEnd \/ find_env_in_queue

Spec == Init /\ [][Next]_vars

-----------------------------------------------------------------------------
\* x is somewhere before y.
Precedes(s, x, y) == \E i, j \in DOMAIN s : i < j /\ s[i] = x /\ s[j] = y

Reversed(s) == [k \in DOMAIN s |-> s[Len(s) + 1 - k]]

(***************************************************************************)
(* Read from its end, a list is the reverse of what it is read from its    *)
(* beginning, and its size is the number of its elements: dequeue and      *)
(* LIST_LAST trust in the one, LIST_SIZE in the other.                     *)
(***************************************************************************)
BothWays ==
    \A h \in Heads :
      /\ Chain(le_prev, lh_last[h]) = Reversed(ElemsOf(h))
      /\ size[h] = Len(ElemsOf(h))

(***************************************************************************)
(* A loop that is at its end has visited, in the order of the list, each   *)
(* element that was there when it began and that its body left there.      *)
(***************************************************************************)
VisitsEveryElement ==
    loop # NoLoop /\ ptr_next[loop.list] = NULL =>
      /\ loop.kept \subseteq Members(loop.visited)
      /\ \A i, j \in DOMAIN loop.visited :
           i < j /\ {loop.visited[i], loop.visited[j]} \subseteq loop.kept
             => Precedes(loop.start, loop.visited[i], loop.visited[j])

\* The links are right both ways and the loops that follow them miss nothing.
LinksComplete == BothWays /\ VisitsEveryElement

\* The links implement the sequences they are meant to be.
Seqs == INSTANCE ListSeqs WITH seq <- [h \in Heads |-> ElemsOf(h)]
AreSequences == Seqs!Spec
=============================================================================

---------------------------- MODULE SortPrograms ----------------------------
(***************************************************************************)
(* The interactive sorting programs, user/quicksort*.c and mergesort*.c,   *)
(* run side by side.  A program asks for a number of elements and for how  *)
(* to initialise them, sorts, checks, and asks whether to repeat; most of  *)
(* them disable their interrupts while they ask, which keeps the clock     *)
(* from giving the processor and the console to another program.           *)
(***************************************************************************)
EXTENDS ProgramHeap

CONSTANTS Envs,
          Main,              \* one of them, that runs one of
          Programs,          \* these programs, while the others run one of
          Others,            \* these, for one round
          NumsOfElements,    \* the numbers the user enters for Main,
          OtherNums,         \* and for the others
          MaxRounds          \* bound: how often Main repeats

VARIABLES
    curenv,       \* the environment that runs
    program,      \* the program of every environment
    at,           \* where it is
    intr,         \* its interrupts are enabled
    NumOfElements, Chose, Elements, ptr, heap,
    rounds        \* the rounds it has begun

vars == <<curenv, program, at, intr, NumOfElements, Chose, Elements, ptr, heap, rounds>>

(***************************************************************************)
(* What distinguishes the programs: the algorithm; whether the questions   *)
(* are asked with the interrupts disabled; whether the choice is asked for *)
(* until it is a, b or c; whether a value is stored behind the last        *)
(* element; whether the elements are freed, and the halves that Merge      *)
(* copies; whether the last question is asked until the answer is y or n;  *)
(* and the answers, for the programs that do not read them.                *)
(***************************************************************************)
Read == << >>
Program(sort, lock, insist, behind, frees, freesHalves, insistAgain, answers) ==
    [sort |-> sort, lock |-> lock, insist |-> insist, behind |-> behind, frees |-> frees,
     freesHalves |-> freesHalves, insistAgain |-> insistAgain, answers |-> answers]

quicksort           == Program("quick", FALSE, TRUE,  FALSE, TRUE,  FALSE, FALSE, Read)
quicksort1          == Program("quick", TRUE,  TRUE,  TRUE,  TRUE,  FALSE, FALSE, Read)
quicksort2          == Program("quick", TRUE,  TRUE,  TRUE,  TRUE,  FALSE, FALSE, Read)
quicksort3          == Program("quick", TRUE,  FALSE, TRUE,  TRUE,  FALSE, FALSE, Read)
quicksort_heap      == Program("quick", TRUE,  TRUE,  FALSE, FALSE, FALSE, TRUE,  Read)
quicksort_noleakage == Program("quick", TRUE,  TRUE,  FALSE, TRUE,  FALSE, FALSE, Read)
quicksort_interrupt == Program("quick", TRUE,  TRUE,  FALSE, FALSE, FALSE, FALSE, Read)
quicksort_freeheap  == Program("quick", FALSE, TRUE,  FALSE, FALSE, FALSE, FALSE, Read)
mergesort_leakage   == Program("merge", TRUE,  TRUE,  FALSE, FALSE, FALSE, TRUE,  Read)
mergesort_noleakage == Program("merge", TRUE,  TRUE,  FALSE, TRUE,  TRUE,  TRUE,  Read)
ef_mergesort_leakage == Program("merge", TRUE, TRUE,  FALSE, FALSE, FALSE, TRUE,
    <<[number |-> 32, choice |-> "a", again |-> "y"],
      [number |-> 32, choice |-> "c", again |-> "n"]>>)
ef_mergesort_noleakage == Program("merge", TRUE, TRUE, FALSE, TRUE, TRUE, TRUE,
    <<[number |-> 2000, choice |-> "a", again |-> "n"]>>)

Code(name) ==
    CASE name = "quicksort" -> quicksort
      [] name = "quicksort1" -> quicksort1
      [] name = "quicksort2" -> quicksort2
      [] name = "quicksort3" -> quicksort3
      [] name = "quicksort_heap" -> quicksort_heap
      [] name = "quicksort_noleakage" -> quicksort_noleakage
      [] name = "quicksort_interrupt" -> quicksort_interrupt
      [] name = "quicksort_freeheap" -> quicksort_freeheap
      [] name = "mergesort_leakage" -> mergesort_leakage
      [] name = "mergesort_noleakage" -> mergesort_noleakage
      [] name = "ef_mergesort_leakage" -> ef_mergesort_leakage
      [] name = "ef_mergesort_noleakage" -> ef_mergesort_noleakage

-----------------------------------------------------------------------------
\* The initialisations; a remainder by zero ends the program (Divides).
InitializeAscending(n) == [i \in 0 .. n - 1 |-> i]
InitializeDescending(n) == [i \in 0 .. n - 1 |-> n - i - 1]
InitializeSemiRandom(n) == [i \in 0 .. n - 1 |-> i % (n \div 3)]
Divides(n) == n = 0 \/ n \div 3 # 0

Swap(a, i, j) == [a EXCEPT ![i] = a[j], ![j] = a[i]]

\* The two inner loops of QSort.
RECURSIVE Rightwards(_, _, _, _), Leftwards(_, _, _)
Rightwards(a, s, f, i) ==
    IF i <= f /\ a[s] >= a[i] THEN Rightwards(a, s, f, i + 1) ELSE i
Leftwards(a, s, j) ==
    IF j > s /\ a[s] <= a[j] THEN Leftwards(a, s, j - 1) ELSE j

\* The partition: the array and where i and j end.
RECURSIVE Partition(_, _, _, _, _)
Partition(a, s, f, i, j) ==
    IF i > j THEN [a |-> a, i |-> i, j |-> j]
    ELSE LET p == Rightwards(a, s, f, i)
             q == Leftwards(a, s, j)
         IN Partition(IF p <= q THEN Swap(a, p, q) ELSE a, s, f, p, q)

RECURSIVE QSort(_, _, _)
QSort(a, s, f) ==
    IF s >= f THEN a
    ELSE LET p == Partition(a, s, f, s + 1, f)
         IN QSort(QSort(Swap(p.a, s, p.j), s, p.j - 1), p.i, f)
QuickSort(a, n) == QSort(a, 0, n - 1)

\* Mutant: the larger element is taken.
RECURSIVE MergedDown(_, _)
MergedDown(left, right) ==
    CASE left = << >> -> right
      [] right = << >> -> left
      [] OTHER -> IF left[1] > right[1]
                  THEN <<left[1]>> \o MergedDown(Tail(left), right)
                  ELSE <<right[1]>> \o MergedDown(left, Tail(right))

\* The array that two sorted halves are merged into, smaller elements first.
RECURSIVE MergedFrom(_, _)
MergedFrom(left, right) ==
    CASE left = << >> -> right
      [] right = << >> -> left
      [] OTHER -> IF left[1] < right[1]
                  THEN <<left[1]>> \o MergedFrom(Tail(left), right)
                  ELSE <<right[1]>> \o MergedFrom(left, Tail(right))

sizeofInt == 4

\* Mutant: the right half is not freed.
MergeKeepsRight(c, st, p, q, r) ==
    LET left == malloc(st.heap, sizeofInt * (q - p + 1))
        right == malloc(left.heap, sizeofInt * (r - q))
        merged == MergedFrom([i \in 1 .. q - p + 1 |-> st.a[p + i - 2]],
                             [j \in 1 .. r - q |-> st.a[q + j - 1]])
    IN IF left.va = NULL \/ right.va = NULL
       THEN [st EXCEPT !.ok = FALSE, !.heap = right.heap]
       ELSE [st EXCEPT !.a = [k \in DOMAIN @ |-> IF k \in p - 1 .. r - 1
                                                 THEN merged[k - p + 2] ELSE @[k]],
                       !.heap = IF c.freesHalves
                                THEN free(right.heap, left.va)
                                ELSE right.heap]

\* Merge of A[p - 1 .. q - 1] and A[q .. r - 1]: the copies are allocated, and
\* storing in one that malloc refused ends the program.
Merge(c, st, p, q, r) ==
    LET left == malloc(st.heap, sizeofInt * (q - p + 1))
        right == malloc(left.heap, sizeofInt * (r - q))
        merged == MergedFrom([i \in 1 .. q - p + 1 |-> st.a[p + i - 2]],
                             [j \in 1 .. r - q |-> st.a[q + j - 1]])
    IN IF left.va = NULL \/ right.va = NULL
       THEN [st EXCEPT !.ok = FALSE, !.heap = right.heap]
       ELSE [st EXCEPT !.a = [k \in DOMAIN @ |-> IF k \in p - 1 .. r - 1
                                                 THEN merged[k - p + 2] ELSE @[k]],
                       !.heap = IF c.freesHalves
                                THEN free(free(right.heap, left.va), right.va)
                                ELSE right.heap]

RECURSIVE MSort(_, _, _, _)
MSort(c, st, p, r) ==
    IF p >= r \/ ~st.ok THEN st
    ELSE LET q == (p + r) \div 2
             halves == MSort(c, MSort(c, st, p, q), q + 1, r)
         IN IF halves.ok THEN Merge(c, halves, p, q, r) ELSE halves

CheckSorted(a, n) == \A i \in 0 .. n - 2 : a[i] <= a[i + 1]

-----------------------------------------------------------------------------
C(e) == Code(program[e])
Live(e) == at[e] \notin {"done", "ended"}
Runs(e, place) == curenv = e /\ at[e] = place
Goes(e, place) == at' = [at EXCEPT ![e] = place]

\* The answers of the user, or those the program has written in it; a number
\* in it is cut to the largest one of NumsOfElements.
Answers(e, question, user) ==
    IF C(e).answers = Read THEN user ELSE {C(e).answers[rounds[e]][question]}
Numbers(e) == {Min({n, Max(NumsOfElements)}) :
                 n \in Answers(e, "number", IF e = Main THEN NumsOfElements ELSE OtherNums)}
Rounds(e) == IF e = Main THEN MaxRounds ELSE 1

Init ==
    /\ curenv \in Envs
    /\ program \in {p \in [Envs -> Programs \cup Others] :
                    \A e \in Envs : p[e] \in IF e = Main THEN Programs ELSE Others}
    /\ at = [e \in Envs |-> "begin"]
    /\ intr = [e \in Envs |-> TRUE]
    /\ NumOfElements = [e \in Envs |-> 0]
    /\ Chose = [e \in Envs |-> " "]
    /\ Elements = [e \in Envs |-> << >>]
    /\ ptr = [e \in Envs |-> NULL]
    /\ heap = [e \in Envs |-> NewHeap]
    /\ rounds = [e \in Envs |-> 0]

\* Mutant: the interrupts stay enabled.
BeginUnlocked(e) ==
    /\ Runs(e, "begin") /\ rounds[e] < Rounds(e)
    /\ rounds' = [rounds EXCEPT ![e] = @ + 1]
    /\ Goes(e, "number")
    /\ UNCHANGED <<curenv, program, intr, NumOfElements, Chose, Elements, ptr, heap>>

Begin(e) ==
    /\ Runs(e, "begin") /\ rounds[e] < Rounds(e)
    /\ rounds' = [rounds EXCEPT ![e] = @ + 1]
    /\ intr' = [intr EXCEPT ![e] = ~C(e).lock]
    /\ Goes(e, "number")
    /\ UNCHANGED <<curenv, program, NumOfElements, Chose, Elements, ptr, heap>>

\* The store Elements[NumOfElements] = 10, in a page that may not be mapped.
FaultsBehind(e, m, n) ==
    /\ C(e).behind
    /\ ~Has(m.heap.mapped, m.va + (n * sizeofInt) \div PAGE_SIZE)

EnterNumber(e) ==
    /\ Runs(e, "number")
    /\ \E n \in Numbers(e) :
         LET m == malloc(heap[e], sizeofInt * n) IN
         /\ NumOfElements' = [NumOfElements EXCEPT ![e] = n]
         /\ ptr' = [ptr EXCEPT ![e] = m.va]
         /\ heap' = [heap EXCEPT ![e] = m.heap]
         /\ Goes(e, IF m.heap.overflown \/ FaultsBehind(e, m, n) THEN "ended" ELSE "choose")
    /\ UNCHANGED <<curenv, program, intr, Chose, Elements, rounds>>

Choose(e) ==
    /\ Runs(e, "choose")
    /\ \E c \in Answers(e, "choice", {"a", "b", "c", "x"}) :
         /\ Chose' = [Chose EXCEPT ![e] = c]
         /\ \/ C(e).insist /\ c = "x" /\ UNCHANGED <<intr, at>>
            \/ ~(C(e).insist /\ c = "x") /\ intr' = [intr EXCEPT ![e] = TRUE] /\ Goes(e, "sort")
    /\ UNCHANGED <<curenv, program, NumOfElements, Elements, ptr, heap, rounds>>

Initialized(c, n) ==
    CASE c = "a" -> InitializeAscending(n)
      [] c = "b" -> InitializeDescending(n)
      [] OTHER -> InitializeSemiRandom(n)

\* The first store through NULL ends the program, as the division by zero does.
CanInitialize(e) ==
    /\ NumOfElements[e] > 0 => ptr[e] # NULL
    /\ Chose[e] \in {"a", "b"} \/ Divides(NumOfElements[e])

InitializeFails(e) ==
    /\ Runs(e, "sort") /\ ~CanInitialize(e)
    /\ Goes(e, "ended")
    /\ UNCHANGED <<curenv, program, intr, NumOfElements, Chose, Elements, ptr, heap, rounds>>

\* Mutant: the last element is left where it is.
QuickSortButLast(e) ==
    /\ Runs(e, "sort") /\ C(e).sort = "quick" /\ CanInitialize(e)
    /\ Elements' = [Elements EXCEPT ![e] =
                      QuickSort(Initialized(Chose[e], NumOfElements[e]), NumOfElements[e] - 1)]
    /\ Goes(e, "check")
    /\ UNCHANGED <<curenv, program, intr, NumOfElements, Chose, ptr, heap, rounds>>

InitializeAndQuickSort(e) ==
    /\ Runs(e, "sort") /\ C(e).sort = "quick" /\ CanInitialize(e)
    /\ Elements' = [Elements EXCEPT ![e] =
                      QuickSort(Initialized(Chose[e], NumOfElements[e]), NumOfElements[e])]
    /\ Goes(e, "check")
    /\ UNCHANGED <<curenv, program, intr, NumOfElements, Chose, ptr, heap, rounds>>

InitializeAndMergeSort(e) ==
    LET n == NumOfElements[e]
        st == MSort(C(e), [a |-> Initialized(Chose[e], n), heap |-> heap[e], ok |-> TRUE], 1, n)
    IN
    /\ Runs(e, "sort") /\ C(e).sort = "merge" /\ CanInitialize(e)
    /\ Elements' = [Elements EXCEPT ![e] = st.a]
    /\ heap' = [heap EXCEPT ![e] = st.heap]
    /\ Goes(e, IF st.ok THEN "check" ELSE "ended")
    /\ UNCHANGED <<curenv, program, intr, NumOfElements, Chose, ptr, rounds>>

\* An array that is not sorted is a panic, free(NULL) another one.
CheckAndFree(e) ==
    LET fails == \/ ~CheckSorted(Elements[e], NumOfElements[e])
                 \/ C(e).frees /\ ptr[e] = NULL
    IN
    /\ Runs(e, "check")
    /\ heap' = IF C(e).frees /\ ~fails
               THEN [heap EXCEPT ![e] = free(@, ptr[e])] ELSE heap
    /\ Elements' = [Elements EXCEPT ![e] = << >>]
    /\ Goes(e, IF fails THEN "ended" ELSE "again")
    /\ UNCHANGED <<curenv, program, intr, NumOfElements, Chose, ptr, rounds>>

AskAgain(e) ==
    /\ Runs(e, "again")
    /\ intr' = [intr EXCEPT ![e] = ~C(e).lock]
    /\ Goes(e, "answer")
    /\ UNCHANGED <<curenv, program, NumOfElements, Chose, Elements, ptr, heap, rounds>>

AnswerAgain(e) ==
    /\ Runs(e, "answer")
    /\ \E c \in Answers(e, "again", {"y", "n", "x"}) :
         /\ Chose' = [Chose EXCEPT ![e] = c]
         /\ \/ C(e).insistAgain /\ c = "x" /\ UNCHANGED <<intr, at>>
            \/ /\ ~(C(e).insistAgain /\ c = "x")
               /\ c = "y" => rounds[e] < Rounds(e)
               /\ intr' = [intr EXCEPT ![e] = TRUE]
               /\ Goes(e, IF c = "y" THEN "begin" ELSE "done")
    /\ UNCHANGED <<curenv, program, NumOfElements, Elements, ptr, heap, rounds>>

\* The clock interrupt, or the scheduler after the end of a program.
Switch(e) ==
    /\ e # curenv /\ Live(e)
    /\ intr[curenv] \/ ~Live(curenv)
    /\ curenv' = e
    /\ UNCHANGED <<program, at, intr, NumOfElements, Chose, Elements, ptr, heap, rounds>>

Next == \E e \in Envs :
          \/ Begin(e) \/ EnterNumber(e) \/ Choose(e) \/ InitializeFails(e)
          \/ InitializeAndQuickSort(e) \/ InitializeAndMergeSort(e)
          \/ CheckAndFree(e) \/ AskAgain(e) \/ AnswerAgain(e) \/ Switch(e)

Spec == Init /\ [][Next]_vars
-----------------------------------------------------------------------------
\* While a program that locks the interrupts asks, no other program runs: a key
\* typed for it cannot become the answer of another program.  (A disable and
\* enable pair inside a library call, which would end the lock, is not modelled.)
DialogUndisturbed ==
    \A e \in Envs : C(e).lock /\ at[e] \in {"number", "choose", "answer"} => curenv = e

Occurrences(a, x) == Cardinality({i \in DOMAIN a : a[i] = x})
SortedFrom(b, a) ==
    /\ DOMAIN b = DOMAIN a
    /\ \A i, j \in DOMAIN b : i < j => b[i] <= b[j]
    /\ \A i \in DOMAIN a : Occurrences(a, a[i]) = Occurrences(b, a[i])

\* What a program checks is sorted, and has the elements it was initialised
\* with, which CheckSorted does not look at.
SortsItsElements ==
    \A e \in Envs :
      at[e] = "check" => SortedFrom(Elements[e], Initialized(Chose[e], NumOfElements[e]))

\* Both algorithms sort every array, with repeated elements too, and reach no
\* element outside it.
SortsEveryArray ==
    (\A e \in Envs : at[e] = "begin" /\ rounds[e] = 0) =>
      \A n \in 0 .. 5 : \A a \in [0 .. n - 1 -> 0 .. 2] :
        /\ SortedFrom(QuickSort(a, n), a)
        /\ SortedFrom(MSort(mergesort_noleakage, [a |-> a, heap |-> NewHeap, ok |-> TRUE],
                            1, n).a, a)

\* A program that frees what it allocates has nothing in the page file when it
\* asks whether to repeat, so that the next round begins as the first one did.
NothingLeaks ==
    \A e \in Envs :
      /\ C(e).frees
      /\ at[e] \in {"again", "answer", "begin", "done"}
      => heap[e].disk = {}
=============================================================================

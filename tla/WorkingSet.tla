----------------------------- MODULE WorkingSet -----------------------------
(***************************************************************************)
(* The demand-paged memory of one environment: the page-fault handler      *)
(* (kern/trap.c) with its two LRU lists, the page and table mappings       *)
(* (kern/memory_manager.c), the page file (kern/file_manager.c), the       *)
(* system calls allocateMem and freeMem, and env_free                      *)
(* (kern/user_environment.c).  The state starts as env_create leaves it.   *)
(*                                                                         *)
(* A trap is taken with interrupts disabled, so every handler is one step. *)
(* A panic in a handler exits the environment (kern/init.c, _panic) with   *)
(* whatever the handler had done so far, so a panic keeps the half-done    *)
(* state.                                                                  *)
(*                                                                         *)
(* Frames and disk frames are interchangeable, so only their number is     *)
(* kept.  The contents of a copy of a page are abstracted to whether they  *)
(* are the ones the program last stored ("current") or not ("stale").      *)
(***************************************************************************)
EXTENDS Naturals, FiniteSets, Sequences, SequencesExt

CONSTANTS
    Segment,         \* the pages of the program image, in loading order
    PagesToLoad,     \* how many of them env_create would load (all but the
                     \* pages after the sixth of the segment at 0x200000)
    StackPages,      \* the pages of [USTACKBOTTOM, USTACKTOP)
    StackTop,        \* the stack page env_create maps
    HeapPages,       \* the pages of the user heap
    TableOf,         \* the page table (directory entry) of each page
    ActiveListSize,  \* e->ActiveListSize
    SecondListSize,  \* e->SecondListSize
    NumFrames,       \* RAM frames the environment can draw on
    NumDiskFrames,   \* page-file frames it can draw on
    MaxOperands      \* pages one instruction may touch (code, stack, data)

VARIABLES
    status,              \* "alive", "exit" (in the EXIT queue) or "freed"
    insn,                \* the pages of the instruction being executed
    PageWorkingSetList,  \* the number of unused working-set elements
    ActiveList,          \* the pages of the active list, newest first
    SecondList,          \* the pages of the second-chance list, newest first
    pte,                 \* the page-table entry of each page
    tables,              \* the page tables in memory
    pf,                  \* the page-file copy of each page
    diskTables,          \* the page tables of the page file (kept in RAM)
    freeFrames,          \* LIST_SIZE(free_frame_list)
    freeDisk,            \* LIST_SIZE(disk_free_frame_list)
    written              \* the pages whose contents the program relies on

vars == <<status, insn, PageWorkingSetList, ActiveList, SecondList, pte,
          tables, pf, diskTables, freeFrames, freeDisk, written>>

Pages == ToSet(Segment) \cup StackPages \cup HeapPages
Tables == {TableOf[p] : p \in Pages}
WSSize == ActiveListSize + SecondListSize

\* A frame holds one page, one page table or one page table of the page file.
Mapped(pt) == {p \in DOMAIN pt : pt[p].mapped}
Slots(store) == {p \in DOMAIN store : store[p] # "none"}
Resident == ToSet(ActiveList) \cup ToSet(SecondList)

Unmapped == [mapped |-> FALSE, present |-> FALSE, modified |-> FALSE,
             data |-> "stale"]
\* A page mapped on a new frame: allocate_frame does not clear its contents.
OnNewFrame == [Unmapped EXCEPT !.mapped = TRUE, !.present = TRUE]

(***************************************************************************)
(* env_create: the segment pages that fit go to the active list, leaving   *)
(* one place for the stack, then to the second list; the stack page goes   *)
(* to the head of the active list.                                         *)
(***************************************************************************)
Least(a, b) == IF a < b THEN a ELSE b
Loaded == Least(PagesToLoad, WSSize - 1)
LoadedActive == Least(Loaded, ActiveListSize - 1)
LoadedPages == {StackTop} \cup {Segment[i] : i \in 1 .. Loaded}
LoadedTables == {TableOf[p] : p \in LoadedPages}
SwapTables == {TableOf[p] : p \in ToSet(Segment) \cup {StackTop}}
LoadFrames == Loaded + 1 + Cardinality(LoadedTables) + Cardinality(SwapTables)

ASSUME ProgramAssumption ==
    /\ Segment \in Seq(ToSet(Segment))
    /\ \A i, j \in DOMAIN Segment : Segment[i] = Segment[j] => i = j
    /\ StackTop \in StackPages
    /\ StackPages \cap ToSet(Segment) = {}
    /\ HeapPages \cap (ToSet(Segment) \cup StackPages) = {}
    /\ IsFiniteSet(StackPages) /\ IsFiniteSet(HeapPages)
    /\ Pages \subseteq DOMAIN TableOf
    /\ PagesToLoad \in 0 .. Len(Segment)
    /\ MaxOperands \in Nat

\* CreateEnv refuses a second list as long as the working set; the load needs
\* its frames and a disk frame for every page of the image.
ASSUME SizeAssumption ==
    /\ ActiveListSize \in Nat \ {0} /\ SecondListSize \in Nat
    /\ NumFrames \in Nat /\ NumDiskFrames \in Nat
    /\ NumFrames >= LoadFrames
    /\ NumDiskFrames >= Len(Segment)

Init ==
    /\ status = "alive"
    /\ insn = {}
    /\ PageWorkingSetList = WSSize - Loaded - 1
    /\ ActiveList = [i \in 1 .. LoadedActive + 1 |->
                       IF i = 1 THEN StackTop
                                ELSE Segment[LoadedActive + 2 - i]]
    /\ SecondList = [i \in 1 .. Loaded - LoadedActive |->
                       Segment[Loaded + 1 - i]]
    /\ pte = [p \in Pages |->
                IF p \notin LoadedPages THEN Unmapped
                ELSE [mapped   |-> TRUE,
                      present  |-> \E i \in DOMAIN ActiveList : ActiveList[i] = p,
                      modified |-> p = StackTop,
                      data     |-> "current"]]
    /\ tables = LoadedTables
    /\ diskTables = SwapTables
    /\ pf = [p \in Pages |->
               IF \/ p \in ToSet(Segment)
                  \/ p = StackTop /\ NumDiskFrames > Len(Segment)
               THEN "current" ELSE "none"]
    /\ freeFrames = NumFrames - LoadFrames
    /\ freeDisk = NumDiskFrames - Cardinality(Slots(pf))
    /\ written = ToSet(Segment) \cup {StackTop}

-----------------------------------------------------------------------------
(***************************************************************************)
(* The program: one instruction touches a few pages, faults until all of   *)
(* them are present, and then may store into one of them.                  *)
(***************************************************************************)
Issue(S) ==
    /\ status = "alive" /\ insn = {}
    /\ S # {} /\ Cardinality(S) <= MaxOperands
    /\ insn' = S
    /\ UNCHANGED <<status, PageWorkingSetList, ActiveList, SecondList, pte,
                   tables, pf, diskTables, freeFrames, freeDisk, written>>

CanExecute == /\ status = "alive" /\ insn # {}
              /\ \A p \in insn : TableOf[p] \in tables /\ pte[p].present

Load ==
    /\ CanExecute
    /\ insn' = {}
    /\ UNCHANGED <<status, PageWorkingSetList, ActiveList, SecondList, pte,
                   tables, pf, diskTables, freeFrames, freeDisk, written>>

\* The processor sets the MODIFIED (dirty) bit of the page it stores into.
Store(p) ==
    /\ CanExecute
    /\ p \in insn
    /\ insn' = {}
    /\ pte' = [pte EXCEPT ![p].modified = TRUE, ![p].data = "current"]
    /\ pf' = [pf EXCEPT ![p] = IF @ = "none" THEN "none" ELSE "stale"]
    /\ written' = written \cup {p}
    /\ UNCHANGED <<status, PageWorkingSetList, ActiveList, SecondList,
                   tables, diskTables, freeFrames, freeDisk>>

-----------------------------------------------------------------------------
(***************************************************************************)
(* fault_handler: a table fault creates the page table, the instruction    *)
(* faults again; otherwise page_fault_handler runs.                        *)
(***************************************************************************)
Die == status' = "exit" /\ insn' = {}

Faulting(p) == status = "alive" /\ p \in insn

table_fault_handler(p) ==
    /\ Faulting(p)
    /\ TableOf[p] \notin tables
    /\ IF freeFrames = 0
       THEN Die /\ UNCHANGED <<tables, freeFrames>>
       ELSE /\ tables' = tables \cup {TableOf[p]}
            /\ freeFrames' = freeFrames - 1
            /\ UNCHANGED <<status, insn>>
    /\ UNCHANGED <<PageWorkingSetList, ActiveList, SecondList, pte, pf,
                   diskTables, freeDisk, written>>

\* The frame get_disk_page_table takes when it creates the disk page table.
DiskTableFrames(p) == IF TableOf[p] \in diskTables THEN 0 ELSE 1

(***************************************************************************)
(* The end of every branch of page_fault_handler that loads p into a       *)
(* working-set element taken off its list: allocate a frame, map it, read  *)
(* the page file; a page that is not there is a new stack page or illegal. *)
(* ws is the memory as the branch has left it before the load.             *)
(***************************************************************************)
\* Mutant: the loaded page goes to the wrong end of the active list.
PlaceAtTail(p, ws) ==
    /\ ws.freeFrames > 0 /\ ws.pf[p] # "none"
    /\ pte' = [ws.pte EXCEPT ![p] = [OnNewFrame EXCEPT !.data = ws.pf[p]]]
    /\ ActiveList' = Append(ws.ActiveList, p)
    /\ freeFrames' = ws.freeFrames - 1
    /\ pf' = ws.pf
    /\ UNCHANGED <<status, insn, diskTables, freeDisk>>

PlaceFromPageFile(p, ws) ==
    /\ ws.freeFrames > 0 /\ ws.pf[p] # "none"
    /\ pte' = [ws.pte EXCEPT ![p] = [OnNewFrame EXCEPT !.data = ws.pf[p]]]
    /\ ActiveList' = Cons(p, ws.ActiveList)
    /\ freeFrames' = ws.freeFrames - 1
    /\ pf' = ws.pf
    /\ UNCHANGED <<status, insn, diskTables, freeDisk>>

\* pf_add_empty_env_page fails silently when the page file is full.
PlaceNewStackPage(p, ws) ==
    /\ ws.freeFrames > DiskTableFrames(p)
    /\ ws.pf[p] = "none" /\ p \in StackPages
    /\ pte' = [ws.pte EXCEPT ![p] = OnNewFrame]
    /\ ActiveList' = Cons(p, ws.ActiveList)
    /\ freeFrames' = ws.freeFrames - 1 - DiskTableFrames(p)
    /\ diskTables' = diskTables \cup {TableOf[p]}
    /\ IF freeDisk > 0
       THEN /\ pf' = [ws.pf EXCEPT ![p] = "stale"]
            /\ freeDisk' = freeDisk - 1
       ELSE pf' = ws.pf /\ UNCHANGED freeDisk
    /\ UNCHANGED <<status, insn>>

\* "Illegal memory access ...": the frame stays mapped, the element is lost.
IllegalAccess(p, ws) ==
    /\ ws.freeFrames > 0
    /\ ws.pf[p] = "none" /\ p \notin StackPages
    /\ pte' = [ws.pte EXCEPT ![p] = OnNewFrame]
    /\ ActiveList' = ws.ActiveList
    /\ freeFrames' = ws.freeFrames - 1
    /\ pf' = ws.pf
    /\ Die
    /\ UNCHANGED <<diskTables, freeDisk>>

\* allocate_frame panics: for the page, or for its disk page table.
OutOfFrames(p, ws) ==
    /\ \/ /\ ws.freeFrames = 0
          /\ pte' = ws.pte
       \/ /\ ws.freeFrames = 1 /\ DiskTableFrames(p) = 1
          /\ ws.pf[p] = "none" /\ p \in StackPages
          /\ pte' = [ws.pte EXCEPT ![p] = OnNewFrame]
    /\ freeFrames' = 0
    /\ ActiveList' = ws.ActiveList
    /\ pf' = ws.pf
    /\ Die
    /\ UNCHANGED <<diskTables, freeDisk>>

PlacePage(p, ws) ==
    /\ \/ PlaceFromPageFile(p, ws)
       \/ PlaceNewStackPage(p, ws)
       \/ IllegalAccess(p, ws)
       \/ OutOfFrames(p, ws)
    /\ SecondList' = ws.SecondList
    /\ PageWorkingSetList' = ws.PageWorkingSetList
    /\ UNCHANGED <<tables, written>>

Current == [PageWorkingSetList |-> PageWorkingSetList,
            ActiveList |-> ActiveList, SecondList |-> SecondList,
            pte |-> pte, pf |-> pf, freeFrames |-> freeFrames]

PageFaulting(p) == Faulting(p) /\ TableOf[p] \in tables /\ ~pte[p].present

ActiveFull == Len(ActiveList) = ActiveListSize

\* The active list has room (trap.c: "This mean Second List is empty").
PlaceInActive(p) ==
    /\ PageFaulting(p)
    /\ PageWorkingSetList # 0 /\ ~ActiveFull
    /\ PlacePage(p, [Current EXCEPT !.PageWorkingSetList = @ - 1])

\* Mutant: the demoted page stays accessible.
SecondChanceKeepsPresent(p) ==
    /\ PageFaulting(p)
    /\ PageWorkingSetList = 0 \/ ActiveFull
    /\ \E i \in DOMAIN SecondList :
         /\ SecondList[i] = p
         /\ ActiveList' = Cons(p, Front(ActiveList))
         /\ SecondList' = Cons(Last(ActiveList), RemoveAt(SecondList, i))
         /\ pte' = [pte EXCEPT ![p].present = TRUE]
    /\ UNCHANGED <<status, insn, PageWorkingSetList, tables, pf, diskTables,
                   freeFrames, freeDisk, written>>

\* Mutant: the page takes the very place of the demoted one.
SecondChanceAtTail(p) ==
    /\ PageFaulting(p)
    /\ PageWorkingSetList = 0 \/ ActiveFull
    /\ \E i \in DOMAIN SecondList :
         LET tail == Last(ActiveList) IN
         /\ SecondList[i] = p
         /\ ActiveList' = Append(Front(ActiveList), p)
         /\ SecondList' = Cons(tail, RemoveAt(SecondList, i))
         /\ pte' = [pte EXCEPT ![p].present = TRUE, ![tail].present = FALSE]
    /\ UNCHANGED <<status, insn, PageWorkingSetList, tables, pf, diskTables,
                   freeFrames, freeDisk, written>>

\* The page is in the second list: it changes places with the active tail.
SecondChance(p) ==
    /\ PageFaulting(p)
    /\ PageWorkingSetList = 0 \/ ActiveFull
    /\ \E i \in DOMAIN SecondList :
         LET tail == Last(ActiveList) IN
         /\ SecondList[i] = p
         /\ ActiveList' = Cons(p, Front(ActiveList))
         /\ SecondList' = Cons(tail, RemoveAt(SecondList, i))
         /\ pte' = [pte EXCEPT ![p].present = TRUE, ![tail].present = FALSE]
    /\ UNCHANGED <<status, insn, PageWorkingSetList, tables, pf, diskTables,
                   freeFrames, freeDisk, written>>

\* Mutant: demotes without checking that an element is free.
DemoteWithoutElement(p) ==
    /\ PageFaulting(p)
    /\ ActiveFull
    /\ p \notin ToSet(SecondList)
    /\ LET tail == Last(ActiveList) IN
       PlacePage(p, [Current EXCEPT !.PageWorkingSetList = @ - 1,
                                    !.ActiveList = Front(@),
                                    !.SecondList = Cons(tail, @),
                                    !.pte[tail].present = FALSE])

\* An element is free: the active tail moves to the second list.
DemoteAndPlace(p) ==
    /\ PageFaulting(p)
    /\ PageWorkingSetList # 0 /\ ActiveFull
    /\ p \notin ToSet(SecondList)
    /\ LET tail == Last(ActiveList) IN
       PlacePage(p, [Current EXCEPT !.PageWorkingSetList = @ - 1,
                                    !.ActiveList = Front(@),
                                    !.SecondList = Cons(tail, @),
                                    !.pte[tail].present = FALSE])

\* Mutants: the victim is never written back; its entry is cleared but its
\* frame is not released.
EvictedWithoutWriteBack(v, ws) ==
    [ws EXCEPT !.pte[v] = Unmapped, !.freeFrames = @ + 1]

EvictedKeepsFrame(v, ws) ==
    [ws EXCEPT !.pf[v] = IF pte[v].modified /\ @ # "none" THEN pte[v].data ELSE @,
               !.pte[v] = Unmapped]

\* The victim v is written back if MODIFIED (pf_update_env_page does nothing
\* for a page the page file does not hold) and unmapped, which frees its frame.
Evicted(v, ws) ==
    [ws EXCEPT !.pf[v] = IF pte[v].modified /\ @ # "none" THEN pte[v].data ELSE @,
               !.pte[v] = Unmapped,
               !.freeFrames = @ + 1]

\* No second list: the active tail is replaced.
ReplaceActive(p) ==
    /\ PageFaulting(p)
    /\ PageWorkingSetList = 0 /\ SecondListSize = 0
    /\ p \notin ToSet(SecondList)
    /\ PlacePage(p, Evicted(Last(ActiveList),
                            [Current EXCEPT !.ActiveList = Front(@)]))

\* The second tail is replaced, the active tail moves to the second list.
ReplaceSecond(p) ==
    /\ PageFaulting(p)
    /\ PageWorkingSetList = 0 /\ SecondListSize # 0
    /\ p \notin ToSet(SecondList)
    /\ LET tail == Last(ActiveList) IN
       PlacePage(p, Evicted(Last(SecondList),
                            [Current EXCEPT !.ActiveList = Front(@),
                                            !.SecondList = Cons(tail, Front(@)),
                                            !.pte[tail].present = FALSE]))

page_fault_handler(p) ==
    \/ PlaceInActive(p)
    \/ SecondChance(p)
    \/ DemoteAndPlace(p)
    \/ ReplaceActive(p)
    \/ ReplaceSecond(p)

-----------------------------------------------------------------------------
(***************************************************************************)
(* sys_allocateMem, one heap page (a range is its pages in turn): a page-  *)
(* file slot, a frame and a mapping; the page enters no list.              *)
(***************************************************************************)
InSyscall == status = "alive" /\ insn = {}

\* Mutant: the frame that was mapped at p is forgotten instead of unmapped.
AllocateMemForgetsFrame(p) ==
    LET dt   == DiskTableFrames(p)
        slot == IF pf[p] = "none" THEN 1 ELSE 0
        pt   == IF TableOf[p] \in tables THEN 0 ELSE 1
    IN
    /\ InSyscall
    /\ freeFrames > dt + pt /\ freeDisk >= slot
    /\ diskTables' = diskTables \cup {TableOf[p]}
    /\ tables' = tables \cup {TableOf[p]}
    /\ pf' = [pf EXCEPT ![p] = IF @ = "none" THEN "stale" ELSE @]
    /\ freeDisk' = freeDisk - slot
    /\ pte' = [pte EXCEPT ![p] = OnNewFrame]
    /\ freeFrames' = freeFrames - dt - 1 - pt
    /\ written' = written \ {p}
    /\ UNCHANGED <<status, insn, PageWorkingSetList, ActiveList, SecondList>>

AllocateMem(p) ==
    LET dt   == DiskTableFrames(p)
        slot == IF pf[p] = "none" THEN 1 ELSE 0
        pt   == IF TableOf[p] \in tables THEN 0 ELSE 1
        unmapped == IF pte[p].present THEN 1 ELSE 0   \* map_frame
    IN
    /\ InSyscall
    /\ freeFrames > dt + pt /\ freeDisk >= slot
    /\ diskTables' = diskTables \cup {TableOf[p]}
    /\ tables' = tables \cup {TableOf[p]}
    /\ pf' = [pf EXCEPT ![p] = IF @ = "none" THEN "stale" ELSE @]
    /\ freeDisk' = freeDisk - slot
    /\ pte' = [pte EXCEPT ![p] = OnNewFrame]
    /\ freeFrames' = freeFrames - dt - 1 - pt + unmapped
    /\ written' = written \ {p}
    /\ UNCHANGED <<status, insn, PageWorkingSetList, ActiveList, SecondList>>

\* allocateMem panics: no frame for the disk table, no page-file space, no
\* frame for the page, or none for its table (the page's frame is then lost).
AllocateMemFails(p) ==
    LET dt   == DiskTableFrames(p)
        slot == IF pf[p] = "none" THEN 1 ELSE 0
        pt   == IF TableOf[p] \in tables THEN 0 ELSE 1
        noTable == freeFrames < dt
        noSlot  == ~noTable /\ freeDisk < slot
    IN
    /\ InSyscall
    /\ ~(freeFrames > dt + pt /\ freeDisk >= slot)
    /\ diskTables' = IF noTable THEN diskTables ELSE diskTables \cup {TableOf[p]}
    /\ IF noTable \/ noSlot
       THEN UNCHANGED <<pf, freeDisk>>
       ELSE /\ pf' = [pf EXCEPT ![p] = IF @ = "none" THEN "stale" ELSE @]
            /\ freeDisk' = freeDisk - slot
    /\ freeFrames' = IF noTable THEN freeFrames
                     ELSE IF noSlot THEN freeFrames - dt ELSE 0
    /\ Die
    /\ UNCHANGED <<PageWorkingSetList, ActiveList, SecondList, pte, tables,
                   written>>

\* freeMem drops a page table once none of its pages is mapped.
EmptyTables(pt, t) ==
    IF \A q \in Pages : TableOf[q] = t => ~pt[q].mapped THEN {t} ELSE {}

\* Mutants: the active list is left one page short; the second head is put at
\* the head of the active list.
RemoveWithoutPromotion(p, i) ==
    LET pt == [pte EXCEPT ![p] = Unmapped]
        gone == EmptyTables(pt, TableOf[p])
    IN
    /\ ActiveList[i] = p
    /\ ActiveList' = RemoveAt(ActiveList, i)
    /\ pte' = pt
    /\ tables' = tables \ gone
    /\ freeFrames' = freeFrames + 1 + Cardinality(gone)
    /\ PageWorkingSetList' = PageWorkingSetList + 1
    /\ UNCHANGED SecondList

RemovePromotesToHead(p, i) ==
    LET promoted == SecondList # << >>
        pt == [q \in Pages |->
                 IF q = p THEN Unmapped
                 ELSE IF promoted /\ q = Head(SecondList)
                      THEN [pte[q] EXCEPT !.present = TRUE]
                      ELSE pte[q]]
        gone == EmptyTables(pt, TableOf[p])
    IN
    /\ ActiveList[i] = p
    /\ ActiveList' = IF promoted
                     THEN Cons(Head(SecondList), RemoveAt(ActiveList, i))
                     ELSE RemoveAt(ActiveList, i)
    /\ SecondList' = IF promoted THEN Tail(SecondList) ELSE SecondList
    /\ pte' = pt
    /\ tables' = tables \ gone
    /\ freeFrames' = freeFrames + 1 + Cardinality(gone)
    /\ PageWorkingSetList' = PageWorkingSetList + 1

\* The page is in the active list: the second head takes a place at its tail.
RemoveFromActive(p, i) ==
    LET promoted == SecondList # << >>
        pt == [q \in Pages |->
                 IF q = p THEN Unmapped
                 ELSE IF promoted /\ q = Head(SecondList)
                      THEN [pte[q] EXCEPT !.present = TRUE]
                      ELSE pte[q]]
        gone == EmptyTables(pt, TableOf[p])
    IN
    /\ ActiveList[i] = p
    /\ ActiveList' = IF promoted
                     THEN Append(RemoveAt(ActiveList, i), Head(SecondList))
                     ELSE RemoveAt(ActiveList, i)
    /\ SecondList' = IF promoted THEN Tail(SecondList) ELSE SecondList
    /\ pte' = pt
    /\ tables' = tables \ gone
    /\ freeFrames' = freeFrames + 1 + Cardinality(gone)
    /\ PageWorkingSetList' = PageWorkingSetList + 1

RemoveFromSecond(p, i) ==
    LET pt == [pte EXCEPT ![p] = Unmapped]
        gone == EmptyTables(pt, TableOf[p])
    IN
    /\ SecondList[i] = p
    /\ SecondList' = RemoveAt(SecondList, i)
    /\ pte' = pt
    /\ tables' = tables \ gone
    /\ freeFrames' = freeFrames + 1 + Cardinality(gone)
    /\ PageWorkingSetList' = PageWorkingSetList + 1
    /\ UNCHANGED ActiveList

\* Mutant: pf_remove_env_page does not remember that the slot is gone.
FreeMemFreesTwice(p) ==
    /\ InSyscall
    /\ pf' = [pf EXCEPT ![p] = "none"]
    /\ freeDisk' = freeDisk + 1
    /\ \/ \E i \in DOMAIN ActiveList : RemoveFromActive(p, i)
       \/ \E i \in DOMAIN SecondList : RemoveFromSecond(p, i)
       \/ /\ p \notin Resident
          /\ UNCHANGED <<PageWorkingSetList, ActiveList, SecondList, pte,
                         tables, freeFrames>>
    /\ written' = written \ {p}
    /\ UNCHANGED <<status, insn, diskTables>>

(***************************************************************************)
(* sys_freeMem, one page (a range is its pages in turn): its page-file     *)
(* slot is released; its frame only when the page is in the working set.   *)
(***************************************************************************)
FreeMem(p) ==
    /\ InSyscall
    /\ pf' = [pf EXCEPT ![p] = "none"]
    /\ freeDisk' = IF pf[p] = "none" THEN freeDisk ELSE freeDisk + 1
    /\ \/ \E i \in DOMAIN ActiveList : RemoveFromActive(p, i)
       \/ \E i \in DOMAIN SecondList : RemoveFromSecond(p, i)
       \/ /\ p \notin Resident
          /\ UNCHANGED <<PageWorkingSetList, ActiveList, SecondList, pte,
                         tables, freeFrames>>
    /\ written' = written \ {p}
    /\ UNCHANGED <<status, insn, diskTables>>

\* env_exit, or a panic of fault_handler on an address above the user stack.
Exit ==
    /\ InSyscall
    /\ Die
    /\ UNCHANGED <<PageWorkingSetList, ActiveList, SecondList, pte, tables, pf,
                   diskTables, freeFrames, freeDisk, written>>

(***************************************************************************)
(* env_free: the pages of the two lists, the page tables, the page file of *)
(* the environment and its disk tables.  Nothing walks the page tables, so *)
(* a page that is mapped and in no list keeps its frame.                   *)
(***************************************************************************)
EnvFree ==
    /\ status \in {"alive", "exit"}
    /\ status' = "freed"
    /\ insn' = {}
    /\ PageWorkingSetList' =
         PageWorkingSetList + Len(ActiveList) + Len(SecondList)
    /\ ActiveList' = << >>
    /\ SecondList' = << >>
    /\ freeFrames' = freeFrames + Cardinality(Resident \cap Mapped(pte))
                       + Cardinality(tables) + Cardinality(diskTables)
    /\ freeDisk' = freeDisk + Cardinality(Slots(pf))
    /\ pte' = [p \in Pages |-> Unmapped]
    /\ pf' = [p \in Pages |-> "none"]
    /\ tables' = {}
    /\ diskTables' = {}
    /\ written' = {}

-----------------------------------------------------------------------------
CPU == \/ Load
       \/ \E p \in Pages : \/ Store(p)
                           \/ table_fault_handler(p)
                           \/ page_fault_handler(p)

Next == \/ \E S \in SUBSET Pages : Issue(S)
        \/ CPU
        \/ \E p \in HeapPages : AllocateMem(p) \/ AllocateMemFails(p)
        \/ \E p \in Pages : FreeMem(p)
        \/ Exit
        \/ EnvFree

Spec == Init /\ [][Next]_vars

\* The clock and the round-robin scheduler give a runnable environment the
\* processor again and again, so its current instruction keeps being tried.
FairSpec == Spec /\ WF_vars(CPU)
-----------------------------------------------------------------------------
Entry == [mapped : BOOLEAN, present : BOOLEAN, modified : BOOLEAN,
          data : {"current", "stale"}]

\* Every variable has the type of the field it models.
TypeOK ==
    /\ status \in {"alive", "exit", "freed"}
    /\ insn \subseteq Pages
    /\ PageWorkingSetList \in Nat
    /\ ActiveList \in Seq(Pages)
    /\ SecondList \in Seq(Pages)
    /\ pte \in [Pages -> Entry]
    /\ tables \subseteq Tables
    /\ pf \in [Pages -> {"none", "current", "stale"}]
    /\ diskTables \subseteq Tables
    /\ freeFrames \in Nat
    /\ freeDisk \in Nat
    /\ written \subseteq Pages

\* The two facts page_fault_handler relies on without checking them
\* (trap.c:488 and trap.c:578): a second list that holds a page means a full
\* active list, and when no element is unused both lists are full.  Neither
\* list outgrows its size and no element is lost.
ListsFull ==
    status = "alive" =>
      /\ SecondList # << >> => ActiveFull
      /\ PageWorkingSetList = 0 =>
           ActiveFull /\ Len(SecondList) = SecondListSize
      /\ PageWorkingSetList + Len(ActiveList) + Len(SecondList) = WSSize
      /\ Len(ActiveList) <= ActiveListSize
      /\ Len(SecondList) <= SecondListSize

\* The lists and the PRESENT bits tell the same story: no page is in the lists
\* twice, the pages of the active list are accessible, those of the second
\* list are in memory and fault, and a page in memory that is in no list is a
\* page of the heap (which allocateMem maps without an element).
Residency ==
    status = "alive" =>
      /\ \A i, j \in DOMAIN ActiveList :
           ActiveList[i] = ActiveList[j] => i = j
      /\ \A i, j \in DOMAIN SecondList :
           SecondList[i] = SecondList[j] => i = j
      /\ ToSet(ActiveList) \cap ToSet(SecondList) = {}
      /\ \A p \in Pages :
           /\ pte[p].mapped => TableOf[p] \in tables
           /\ pte[p].present => pte[p].mapped
           /\ p \in ToSet(SecondList) <=> pte[p].mapped /\ ~pte[p].present
           /\ p \in ToSet(ActiveList) => pte[p].present
           /\ pte[p].present => p \in ToSet(ActiveList) \cup HeapPages
           /\ p \in Resident => p \notin HeapPages

\* No frame is lost while the environment lives: every frame is free, maps a
\* page, holds a page table or holds a disk page table.
FrameConservation ==
    status = "alive" =>
      freeFrames + Cardinality(Mapped(pte)) + Cardinality(tables)
        + Cardinality(diskTables) = NumFrames

\* The page file loses no frame either, not even when a handler panics half
\* way or a page that is not there is removed.
DiskConservation == freeDisk + Cardinality(Slots(pf)) = NumDiskFrames

\* Neither memory nor the page file loses a frame when one of them is short.
Conservation == FrameConservation /\ DiskConservation

\* What the program stored last is what it will read: a page it relies on is
\* current in memory, or, when replaced, in the page file.  Holds when the
\* page file has a frame for every page.
NoLostStore ==
    status = "alive" =>
      \A p \in written :
        IF pte[p].mapped THEN pte[p].data = "current" ELSE pf[p] = "current"

\* The two lists, end to end, are the LRU stack: the replacement policy never
\* reorders pages other than by a fault and always replaces the oldest.
LRU == INSTANCE LRUStack WITH Page <- Pages, Capacity <- WSSize,
                              stack <- ActiveList \o SecondList

LRUOrder == LRU!Spec

\* An instruction whose pages fit the active list together is not starved by
\* its own faults: it executes, unless the environment exits.
InstructionCompletes ==
    (status = "alive" /\ insn # {}) ~> (status # "alive" \/ insn = {})

\* user_environment.c:813: env_free frees "all memory it uses".  Not so when
\* allocateMem has mapped pages, which are in neither list.
FreedEnvironmentHoldsNothing ==
    status = "freed" => freeFrames = NumFrames
=============================================================================

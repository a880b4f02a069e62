-------------------------- MODULE WorkingSet_proofs --------------------------
(***************************************************************************)
(* Proofs about WorkingSet, for every program image, every size of the two *)
(* lists and every amount of RAM and page file.                            *)
(***************************************************************************)
EXTENDS WorkingSet, ListLemmas, FiniteSetTheorems, FunctionTheorems

USE DEF WSSize

-----------------------------------------------------------------------------
(***************************************************************************)
(* The constants: the page and table sets are finite, and what env_create  *)
(* takes is there.                                                         *)
(***************************************************************************)

\* The image has finitely many pages, at most one for each entry of Segment.
LEMMA SegmentFinite ==
    /\ Segment \in Seq(ToSet(Segment))
    /\ Len(Segment) \in Nat
    /\ IsFiniteSet(ToSet(Segment))
    /\ Cardinality(ToSet(Segment)) <= Len(Segment)
    /\ \A i \in 1 .. Len(Segment) : Segment[i] \in ToSet(Segment)
  <1> DEFINE n == Len(Segment)
  <1>1. /\ Segment \in Seq(ToSet(Segment))
        /\ n \in Nat /\ DOMAIN Segment = 1 .. n
    BY ProgramAssumption, LenProperties
  <1>2. \A i \in 1 .. n : Segment[i] \in ToSet(Segment)
    BY <1>1 DEF ToSet
  <1>3. Segment \in [1 .. n -> ToSet(Segment)]
    BY <1>1, <1>2, LenProperties
  <1>4. Segment \in Surjection(1 .. n, ToSet(Segment))
    BY <1>1, <1>3 DEF Surjection, ToSet
  <1>5. IsFiniteSet(1 .. n) /\ Cardinality(1 .. n) = n
    BY <1>1, FS_Interval
  <1>6. QED
    BY <1>1, <1>2, <1>4, <1>5, FS_Surjection

\* The address space of the model is finite, and so are its page tables.
LEMMA PagesFinite ==
    /\ IsFiniteSet(Pages)
    /\ IsFiniteSet(Tables)
    /\ \A p \in Pages : TableOf[p] \in Tables
  <1>1. IsFiniteSet(Pages)
    BY SegmentFinite, ProgramAssumption, FS_Union DEF Pages
  <1> DEFINE f == [p \in Pages |-> TableOf[p]]
  <1>2. f \in Surjection(Pages, Tables)
    BY DEF Surjection, Tables
  <1>3. IsFiniteSet(Tables)
    BY <1>1, <1>2, FS_Surjection
  <1>4. QED
    BY <1>1, <1>3 DEF Tables

\* env_create loads image pages and the top stack page, and no more than fit.
LEMMA LoadFacts ==
    /\ Loaded \in Nat /\ Loaded <= Len(Segment) /\ Loaded <= WSSize - 1
    /\ LoadedActive \in Nat /\ LoadedActive <= Loaded
    /\ LoadedActive <= ActiveListSize - 1
    /\ LoadedActive < ActiveListSize - 1 => Loaded = LoadedActive
    /\ WSSize \in Nat \ {0}
    /\ StackTop \in Pages
    /\ \A i \in 1 .. Len(Segment) : Segment[i] \in Pages
    /\ LoadedPages \subseteq Pages
    /\ LoadedTables \subseteq Tables
    /\ SwapTables \subseteq Tables
    /\ LoadFrames \in Nat
  <1>1. /\ Loaded \in Nat /\ Loaded <= Len(Segment) /\ Loaded <= WSSize - 1
        /\ LoadedActive \in Nat /\ LoadedActive <= Loaded
        /\ LoadedActive <= ActiveListSize - 1
        /\ LoadedActive < ActiveListSize - 1 => Loaded = LoadedActive
        /\ WSSize \in Nat \ {0}
    BY SizeAssumption, ProgramAssumption, SegmentFinite
       DEF Loaded, LoadedActive, Least
  <1>2. /\ StackTop \in Pages
        /\ \A i \in 1 .. Len(Segment) : Segment[i] \in Pages
    BY ProgramAssumption, SegmentFinite DEF Pages
  <1>3. LoadedPages \subseteq Pages
    BY <1>1, <1>2, SegmentFinite DEF LoadedPages
  <1>4. LoadedTables \subseteq Tables /\ SwapTables \subseteq Tables
    BY <1>2, <1>3, SegmentFinite DEF LoadedTables, SwapTables, Tables, Pages
  <1>5. /\ Cardinality(LoadedTables) \in Nat
        /\ Cardinality(SwapTables) \in Nat
    BY <1>4, PagesFinite, FS_Subset, FS_CardinalityType
  <1>6. QED
    BY <1>1, <1>2, <1>3, <1>4, <1>5 DEF LoadFrames

-----------------------------------------------------------------------------
(***************************************************************************)
(* The lists.  ListsFull is inductive once types are known, and TypeOK     *)
(* needs it: the handlers take the last element of a list they have not    *)
(* checked.                                                                *)
(***************************************************************************)
WSInv == TypeOK /\ ListsFull

\* The page file holds the image and, when there is room, the stack page.
LEMMA InitSlots ==
    Init => /\ Slots(pf) \subseteq Pages
            /\ Cardinality(Slots(pf)) \in Nat
            /\ Cardinality(Slots(pf)) <= NumDiskFrames
  <1> SUFFICES ASSUME Init PROVE /\ Slots(pf) \subseteq Pages
                                 /\ Cardinality(Slots(pf)) \in Nat
                                 /\ Cardinality(Slots(pf)) <= NumDiskFrames
    OBVIOUS
  <1> DEFINE C == Cardinality(ToSet(Segment))
  <1>1. Slots(pf) \subseteq Pages
    BY DEF Init, Slots
  <1>2. /\ IsFiniteSet(ToSet(Segment))
        /\ C \in Nat /\ C <= Len(Segment) /\ Len(Segment) <= NumDiskFrames
        /\ Len(Segment) \in Nat /\ NumDiskFrames \in Nat
    BY SegmentFinite, SizeAssumption, FS_CardinalityType
  <1>3. ToSet(Segment) \subseteq Pages /\ StackTop \in Pages
    BY LoadFacts DEF Pages
  <1>4. CASE NumDiskFrames > Len(Segment)
    <2>1. Slots(pf) = ToSet(Segment) \cup {StackTop}
      BY <1>3, <1>4 DEF Init, Slots
    <2>2. Cardinality(Slots(pf)) \in {C, C + 1}
      BY <1>2, <2>1, FS_AddElement
    <2>3. QED BY <1>1, <1>2, <1>4, <2>2
  <1>5. CASE ~(NumDiskFrames > Len(Segment))
    <2>1. Slots(pf) = ToSet(Segment)
      BY <1>3, <1>5 DEF Init, Slots
    <2>2. QED BY <1>1, <1>2, <2>1
  <1>6. QED BY <1>4, <1>5

\* The state env_create leaves is well formed.
LEMMA InitWSInv == Init => WSInv
  <1> SUFFICES ASSUME Init PROVE WSInv
    OBVIOUS
  <1>1. /\ ActiveList \in Seq(Pages) /\ Len(ActiveList) = LoadedActive + 1
    BY LoadFacts DEF Init
  <1>2. /\ SecondList \in Seq(Pages) /\ Len(SecondList) = Loaded - LoadedActive
    <2>1. \A i \in 1 .. Loaded - LoadedActive : Segment[Loaded + 1 - i] \in Pages
      BY LoadFacts, SegmentFinite
    <2>2. QED BY <2>1, LoadFacts DEF Init
  <1>3. pte \in [Pages -> Entry]
    BY DEF Init, Entry, Unmapped
  <1>4. PageWorkingSetList \in Nat /\ freeFrames \in Nat /\ freeDisk \in Nat
    BY LoadFacts, SizeAssumption, InitSlots DEF Init
  <1>5. pf \in [Pages -> {"none", "current", "stale"}]
    BY DEF Init
  <1>6. written \subseteq Pages
    BY LoadFacts DEF Init, Pages
  <1>7. TypeOK
    BY <1>1, <1>2, <1>3, <1>4, <1>5, <1>6, LoadFacts DEF Init, TypeOK
  <1>8. ListsFull
    <2>1. Len(SecondList) > 0 => Len(ActiveList) = ActiveListSize
      BY <1>1, <1>2, LoadFacts, SizeAssumption
    <2>2. PageWorkingSetList = WSSize - Loaded - 1
      BY DEF Init
    <2>3. SecondList # << >> => Len(SecondList) > 0
      BY <1>2, EmptySeq, LenProperties
    <2>4. QED
      BY <1>1, <1>2, <2>1, <2>2, <2>3, LoadFacts, SizeAssumption
         DEF ListsFull, ActiveFull
  <1>9. QED BY <1>7, <1>8 DEF WSInv

\* The type of the memory a branch of page_fault_handler hands to PlacePage.
MemoryOK(ws) ==
    /\ ws.PageWorkingSetList \in Nat
    /\ ws.ActiveList \in Seq(Pages)
    /\ ws.SecondList \in Seq(Pages)
    /\ ws.pte \in [Pages -> Entry]
    /\ ws.pf \in [Pages -> {"none", "current", "stale"}]
    /\ ws.freeFrames \in Nat

\* Loading the page keeps the types, whatever branch called PlacePage.
LEMMA PlaceTypes ==
    ASSUME TypeOK, NEW p \in Pages, NEW ws, MemoryOK(ws), PlacePage(p, ws)
    PROVE  TypeOK'
  <1> USE DEF MemoryOK
  <1>1. DiskTableFrames(p) \in {0, 1}
    BY DEF DiskTableFrames
  <1>2. OnNewFrame \in Entry
        /\ [OnNewFrame EXCEPT !.data = "current"] \in Entry
        /\ [OnNewFrame EXCEPT !.data = "stale"] \in Entry
    BY DEF OnNewFrame, Unmapped, Entry
  <1>3. Cons(p, ws.ActiveList) \in Seq(Pages)
    BY ConsShape
  <1>4. /\ SecondList' \in Seq(Pages) /\ PageWorkingSetList' \in Nat
        /\ tables' \subseteq Tables /\ written' \subseteq Pages
    BY DEF PlacePage, TypeOK
  <1>5. CASE PlaceFromPageFile(p, ws)
    <2>1. ws.pf[p] \in {"current", "stale"}
      BY <1>5 DEF PlaceFromPageFile
    <2>2. [OnNewFrame EXCEPT !.data = ws.pf[p]] \in Entry
      BY <1>2, <2>1
    <2>3. pte' \in [Pages -> Entry]
      BY <1>5, <2>2 DEF PlaceFromPageFile
    <2>4. /\ freeFrames' \in Nat
          /\ pf' \in [Pages -> {"none", "current", "stale"}]
          /\ ActiveList' \in Seq(Pages)
      BY <1>3, <1>5 DEF PlaceFromPageFile
    <2>5. /\ status' = status /\ insn' = insn /\ diskTables' = diskTables
          /\ freeDisk' = freeDisk
      BY <1>5 DEF PlaceFromPageFile
    <2>6. QED
      BY <1>4, <2>3, <2>4, <2>5 DEF TypeOK
  <1>6. CASE PlaceNewStackPage(p, ws)
    <2>1. pte' \in [Pages -> Entry]
      BY <1>2, <1>6 DEF PlaceNewStackPage
    <2>2. freeFrames' \in Nat
      BY <1>1, <1>6 DEF PlaceNewStackPage
    <2>3. /\ freeDisk' \in Nat
          /\ pf' \in [Pages -> {"none", "current", "stale"}]
      <3>1. CASE freeDisk > 0
        <4>1. /\ freeDisk' = freeDisk - 1
              /\ pf' = [ws.pf EXCEPT ![p] = "stale"]
          BY <1>6, <3>1 DEF PlaceNewStackPage
        <4>2. QED BY <3>1, <4>1 DEF TypeOK
      <3>2. CASE ~(freeDisk > 0)
        BY <1>6, <3>2 DEF PlaceNewStackPage, TypeOK
      <3>3. QED BY <3>1, <3>2
    <2>4. diskTables' \subseteq Tables
      BY <1>6, PagesFinite DEF PlaceNewStackPage, TypeOK
    <2>5. /\ status' = status /\ insn' = insn
          /\ ActiveList' = Cons(p, ws.ActiveList)
      BY <1>6 DEF PlaceNewStackPage
    <2>6. QED
      BY <1>3, <1>4, <2>1, <2>2, <2>3, <2>4, <2>5 DEF TypeOK
  <1>7. CASE IllegalAccess(p, ws)
    BY <1>2, <1>4, <1>7, SMTT(60) DEF IllegalAccess, TypeOK, Die
  <1>8. CASE OutOfFrames(p, ws)
    <2>1. pte' \in [Pages -> Entry]
      BY <1>2, <1>8 DEF OutOfFrames
    <2>2. QED
      BY <1>4, <1>8, <2>1 DEF OutOfFrames, TypeOK, Die
  <1>9. QED
    BY <1>5, <1>6, <1>7, <1>8 DEF PlacePage

\* A page is only put in a list when the environment survives the fault, and
\* then at the head of the active list.
LEMMA PlaceLists ==
    ASSUME NEW p, NEW ws, PlacePage(p, ws), status = "alive"
    PROVE  /\ SecondList' = ws.SecondList
           /\ PageWorkingSetList' = ws.PageWorkingSetList
           /\ status' = "alive" => ActiveList' = Cons(p, ws.ActiveList)
  BY DEF PlacePage, PlaceFromPageFile, PlaceNewStackPage, IllegalAccess,
         OutOfFrames, Die

\* The memory in the middle of each branch of page_fault_handler.
AfterTake == [Current EXCEPT !.PageWorkingSetList = @ - 1]

AfterDemote ==
    LET tail == Last(ActiveList) IN
    [Current EXCEPT !.PageWorkingSetList = @ - 1,
                    !.ActiveList = Front(@),
                    !.SecondList = Cons(tail, @),
                    !.pte[tail].present = FALSE]

AfterActiveEviction ==
    Evicted(Last(ActiveList), [Current EXCEPT !.ActiveList = Front(@)])

AfterSecondEviction ==
    LET tail == Last(ActiveList) IN
    Evicted(Last(SecondList),
            [Current EXCEPT !.ActiveList = Front(@),
                            !.SecondList = Cons(tail, Front(@)),
                            !.pte[tail].present = FALSE])

LEMMA AfterTakeMemory ==
    ASSUME TypeOK, PageWorkingSetList # 0
    PROVE  /\ MemoryOK(AfterTake)
           /\ AfterTake.PageWorkingSetList = PageWorkingSetList - 1
           /\ AfterTake.ActiveList = ActiveList
           /\ AfterTake.SecondList = SecondList
           /\ AfterTake.pte = pte
           /\ AfterTake.pf = pf
           /\ AfterTake.freeFrames = freeFrames
  <1>1. /\ AfterTake.PageWorkingSetList = PageWorkingSetList - 1
        /\ AfterTake.ActiveList = ActiveList
        /\ AfterTake.SecondList = SecondList
        /\ AfterTake.pte = pte
        /\ AfterTake.pf = pf
        /\ AfterTake.freeFrames = freeFrames
    BY DEF AfterTake, Current
  <1>2. QED
    BY <1>1 DEF TypeOK, MemoryOK

LEMMA AfterDemoteMemory ==
    ASSUME TypeOK, PageWorkingSetList # 0, ActiveList # << >>
    PROVE  /\ MemoryOK(AfterDemote)
           /\ AfterDemote.PageWorkingSetList = PageWorkingSetList - 1
           /\ AfterDemote.ActiveList = Front(ActiveList)
           /\ AfterDemote.SecondList = Cons(Last(ActiveList), SecondList)
           /\ AfterDemote.pte = [pte EXCEPT ![Last(ActiveList)].present = FALSE]
           /\ AfterDemote.pf = pf
           /\ AfterDemote.freeFrames = freeFrames
  <1>1. /\ Last(ActiveList) \in Pages /\ Front(ActiveList) \in Seq(Pages)
        /\ Cons(Last(ActiveList), SecondList) \in Seq(Pages)
    BY FrontShape, ConsShape DEF TypeOK
  <1>2. [pte EXCEPT ![Last(ActiveList)].present = FALSE] \in [Pages -> Entry]
    BY <1>1 DEF TypeOK, Entry
  <1>3. /\ AfterDemote.PageWorkingSetList = PageWorkingSetList - 1
        /\ AfterDemote.ActiveList = Front(ActiveList)
        /\ AfterDemote.SecondList = Cons(Last(ActiveList), SecondList)
        /\ AfterDemote.pte = [pte EXCEPT ![Last(ActiveList)].present = FALSE]
        /\ AfterDemote.pf = pf
        /\ AfterDemote.freeFrames = freeFrames
    BY DEF AfterDemote, Current
  <1>4. QED
    BY <1>1, <1>2, <1>3 DEF TypeOK, MemoryOK

LEMMA AfterActiveEvictionMemory ==
    ASSUME TypeOK, ActiveList # << >>,
           NEW v, v = Last(ActiveList)
    PROVE  /\ MemoryOK(AfterActiveEviction)
           /\ AfterActiveEviction.PageWorkingSetList = PageWorkingSetList
           /\ AfterActiveEviction.ActiveList = Front(ActiveList)
           /\ AfterActiveEviction.SecondList = SecondList
           /\ AfterActiveEviction.pte = [pte EXCEPT ![v] = Unmapped]
           /\ AfterActiveEviction.pf =
                [pf EXCEPT ![v] = IF pte[v].modified /\ @ # "none"
                                  THEN pte[v].data ELSE @]
           /\ AfterActiveEviction.freeFrames = freeFrames + 1
  <1>1. v \in Pages /\ Front(ActiveList) \in Seq(Pages)
    BY FrontShape DEF TypeOK
  <1>2. [pte EXCEPT ![v] = Unmapped] \in [Pages -> Entry]
    BY <1>1 DEF TypeOK, Entry, Unmapped
  <1>3. [pf EXCEPT ![v] = IF pte[v].modified /\ @ # "none"
                          THEN pte[v].data ELSE @]
          \in [Pages -> {"none", "current", "stale"}]
    BY <1>1 DEF TypeOK, Entry
  <1>4. /\ AfterActiveEviction.PageWorkingSetList = PageWorkingSetList
        /\ AfterActiveEviction.ActiveList = Front(ActiveList)
        /\ AfterActiveEviction.SecondList = SecondList
        /\ AfterActiveEviction.pte = [pte EXCEPT ![v] = Unmapped]
        /\ AfterActiveEviction.pf =
             [pf EXCEPT ![v] = IF pte[v].modified /\ @ # "none"
                               THEN pte[v].data ELSE @]
        /\ AfterActiveEviction.freeFrames = freeFrames + 1
    BY DEF AfterActiveEviction, Current, Evicted
  <1>5. QED
    BY <1>1, <1>2, <1>3, <1>4 DEF TypeOK, MemoryOK

LEMMA AfterSecondEvictionMemory ==
    ASSUME TypeOK, ActiveList # << >>, SecondList # << >>,
           NEW v, v = Last(SecondList)
    PROVE  /\ MemoryOK(AfterSecondEviction)
           /\ AfterSecondEviction.PageWorkingSetList = PageWorkingSetList
           /\ AfterSecondEviction.ActiveList = Front(ActiveList)
           /\ AfterSecondEviction.SecondList =
                Cons(Last(ActiveList), Front(SecondList))
           /\ AfterSecondEviction.pte =
                [[pte EXCEPT ![Last(ActiveList)].present = FALSE]
                   EXCEPT ![v] = Unmapped]
           /\ AfterSecondEviction.pf =
                [pf EXCEPT ![v] = IF pte[v].modified /\ @ # "none"
                                  THEN pte[v].data ELSE @]
           /\ AfterSecondEviction.freeFrames = freeFrames + 1
  <1> DEFINE tail == Last(ActiveList)
             pt == [pte EXCEPT ![tail].present = FALSE]
  <1>1. /\ v \in Pages /\ tail \in Pages /\ Front(ActiveList) \in Seq(Pages)
        /\ Cons(tail, Front(SecondList)) \in Seq(Pages)
    BY FrontShape, ConsShape DEF TypeOK
  <1>2. pt \in [Pages -> Entry]
    BY <1>1 DEF TypeOK, Entry
  <1>3. [pt EXCEPT ![v] = Unmapped] \in [Pages -> Entry]
    <2> HIDE DEF pt
    <2>1. QED BY <1>1, <1>2 DEF Entry, Unmapped
  <1>4. [pf EXCEPT ![v] = IF pte[v].modified /\ @ # "none"
                          THEN pte[v].data ELSE @]
          \in [Pages -> {"none", "current", "stale"}]
    BY <1>1 DEF TypeOK, Entry
  <1>5. /\ AfterSecondEviction.PageWorkingSetList = PageWorkingSetList
        /\ AfterSecondEviction.ActiveList = Front(ActiveList)
        /\ AfterSecondEviction.SecondList =
             Cons(Last(ActiveList), Front(SecondList))
        /\ AfterSecondEviction.pte =
             [[pte EXCEPT ![Last(ActiveList)].present = FALSE]
                EXCEPT ![v] = Unmapped]
        /\ AfterSecondEviction.pf =
             [pf EXCEPT ![v] = IF pte[v].modified /\ @ # "none"
                               THEN pte[v].data ELSE @]
        /\ AfterSecondEviction.freeFrames = freeFrames + 1
    BY DEF AfterSecondEviction, Current, Evicted
  <1>6. AfterSecondEviction.pte \in [Pages -> Entry]
    BY <1>3, <1>5
  <1>7. AfterSecondEviction.pf \in [Pages -> {"none", "current", "stale"}]
    BY <1>4, <1>5
  <1>8. freeFrames + 1 \in Nat /\ PageWorkingSetList \in Nat
    BY DEF TypeOK
  <1>9. QED
    BY <1>1, <1>5, <1>6, <1>7, <1>8, Zenon DEF MemoryOK

-----------------------------------------------------------------------------
\* While the environment lives, the lists a handler takes the tail of are not
\* empty: exactly what the handlers assume without a check.
LEMMA TailsExist ==
    ASSUME TypeOK, ListsFull, status = "alive"
    PROVE  /\ ActiveFull => ActiveList # << >>
           /\ PageWorkingSetList = 0 => ActiveFull /\ ActiveList # << >>
           /\ PageWorkingSetList = 0 /\ SecondListSize # 0 => SecondList # << >>
  BY SizeAssumption, EmptySeq DEF TypeOK, ListsFull, ActiveFull

\* The page-fault handler keeps the lists in shape.
LEMMA FaultWSInv ==
    ASSUME WSInv, NEW p \in Pages, page_fault_handler(p)
    PROVE  WSInv'
  <1> USE DEF WSInv
  <1>1. /\ status = "alive" /\ TypeOK /\ ListsFull
        /\ ActiveList \in Seq(Pages) /\ SecondList \in Seq(Pages)
        /\ Len(ActiveList) \in Nat /\ Len(SecondList) \in Nat
        /\ PageWorkingSetList \in Nat
        /\ ActiveListSize \in Nat \ {0} /\ SecondListSize \in Nat
    BY SizeAssumption, LenProperties
       DEF page_fault_handler, PlaceInActive, SecondChance, DemoteAndPlace,
           ReplaceActive, ReplaceSecond, PageFaulting, Faulting, TypeOK
  <1>2. SecondList = << >> <=> Len(SecondList) = 0
    BY <1>1, EmptySeq
  <1>3. CASE PlaceInActive(p)
    <2>1. PageWorkingSetList # 0 /\ ~ActiveFull /\ PlacePage(p, AfterTake)
      BY <1>3 DEF PlaceInActive, AfterTake
    <2>2. TypeOK'
      BY <1>1, <2>1, AfterTakeMemory, PlaceTypes
    <2>3. /\ SecondList' = SecondList
          /\ PageWorkingSetList' = PageWorkingSetList - 1
          /\ status' = "alive" => ActiveList' = Cons(p, ActiveList)
      BY <1>1, <2>1, AfterTakeMemory, PlaceLists
    <2>4. Len(Cons(p, ActiveList)) = Len(ActiveList) + 1
      BY <1>1, ConsShape
    <2>5. ListsFull'
      BY <1>1, <1>2, <2>1, <2>3, <2>4 DEF ListsFull, ActiveFull
    <2>6. QED BY <2>2, <2>5
  <1>4. CASE SecondChance(p)
    <2>1. ActiveFull /\ ActiveList # << >>
      BY <1>1, <1>4, TailsExist DEF SecondChance
    <2>2. PICK i \in DOMAIN SecondList :
            /\ SecondList[i] = p
            /\ ActiveList' = Cons(p, Front(ActiveList))
            /\ SecondList' = Cons(Last(ActiveList), RemoveAt(SecondList, i))
            /\ pte' = [pte EXCEPT ![p].present = TRUE,
                                  ![Last(ActiveList)].present = FALSE]
      BY <1>4 DEF SecondChance
    <2>3. /\ Front(ActiveList) \in Seq(Pages) /\ Last(ActiveList) \in Pages
          /\ Len(Front(ActiveList)) = Len(ActiveList) - 1
          /\ RemoveAt(SecondList, i) \in Seq(Pages)
          /\ Len(RemoveAt(SecondList, i)) = Len(SecondList) - 1
      BY <1>1, <2>1, FrontShape, RemoveAtShape
    <2>4. /\ ActiveList' \in Seq(Pages) /\ Len(ActiveList') = Len(ActiveList)
          /\ SecondList' \in Seq(Pages) /\ Len(SecondList') = Len(SecondList)
      BY <1>1, <2>2, <2>3, ConsShape
    <2>5. pte' \in [Pages -> Entry]
      <3> DEFINE pt == [pte EXCEPT ![p].present = TRUE]
      <3>1. pt \in [Pages -> Entry]
        BY <1>1 DEF TypeOK, Entry
      <3>2. pte' = [pt EXCEPT ![Last(ActiveList)].present = FALSE]
        BY <2>2
      <3> HIDE DEF pt
      <3>3. QED BY <2>3, <3>1, <3>2 DEF Entry
    <2>6. UNCHANGED <<status, insn, PageWorkingSetList, tables, pf, diskTables,
                      freeFrames, freeDisk, written>>
      BY <1>4 DEF SecondChance
    <2>7. TypeOK'
      BY <1>1, <2>4, <2>5, <2>6 DEF TypeOK
    <2>8. ListsFull'
      BY <1>1, <1>2, <2>1, <2>4, <2>6 DEF ListsFull, ActiveFull
    <2>9. QED BY <2>7, <2>8
  <1>5. CASE DemoteAndPlace(p)
    <2>1. /\ PageWorkingSetList # 0 /\ ActiveFull /\ PlacePage(p, AfterDemote)
          /\ ActiveList # << >>
      BY <1>1, <1>5, TailsExist DEF DemoteAndPlace, AfterDemote
    <2>2. TypeOK'
      BY <1>1, <2>1, AfterDemoteMemory, PlaceTypes
    <2>3. /\ SecondList' = Cons(Last(ActiveList), SecondList)
          /\ PageWorkingSetList' = PageWorkingSetList - 1
          /\ status' = "alive" => ActiveList' = Cons(p, Front(ActiveList))
      BY <1>1, <2>1, AfterDemoteMemory, PlaceLists
    <2>4. /\ Len(Cons(p, Front(ActiveList))) = Len(ActiveList)
          /\ Len(SecondList') = Len(SecondList) + 1
      <3>1. Last(ActiveList) \in Pages
        BY <1>1, <2>1, FrontShape
      <3>2. Len(SecondList') = Len(SecondList) + 1
        BY <1>1, <2>3, <3>1, ConsShape
      <3>3. Len(Cons(p, Front(ActiveList))) = Len(ActiveList)
        BY <1>1, <2>1, RotateShape
      <3>4. QED BY <3>2, <3>3
    <2>5. ListsFull'
      BY <1>1, <1>2, <2>1, <2>3, <2>4 DEF ListsFull, ActiveFull
    <2>6. QED BY <2>2, <2>5
  <1>6. CASE ReplaceActive(p)
    <2>1. /\ PageWorkingSetList = 0 /\ ActiveFull
          /\ PlacePage(p, AfterActiveEviction) /\ ActiveList # << >>
      BY <1>1, <1>6, TailsExist DEF ReplaceActive, AfterActiveEviction
    <2>2. TypeOK'
      BY <1>1, <2>1, AfterActiveEvictionMemory, PlaceTypes
    <2>3. /\ SecondList' = SecondList
          /\ PageWorkingSetList' = PageWorkingSetList
          /\ status' = "alive" => ActiveList' = Cons(p, Front(ActiveList))
      <3>1. /\ AfterActiveEviction.PageWorkingSetList = PageWorkingSetList
            /\ AfterActiveEviction.ActiveList = Front(ActiveList)
            /\ AfterActiveEviction.SecondList = SecondList
        BY <1>1, <2>1, AfterActiveEvictionMemory
      <3>2. QED BY <1>1, <2>1, <3>1, PlaceLists
    <2>4. Len(Cons(p, Front(ActiveList))) = Len(ActiveList)
      BY <1>1, <2>1, RotateShape
    <2>5. ListsFull'
      BY <1>1, <1>2, <2>1, <2>3, <2>4 DEF ListsFull, ActiveFull
    <2>6. QED BY <2>2, <2>5
  <1>7. CASE ReplaceSecond(p)
    <2>1. /\ PageWorkingSetList = 0 /\ ActiveFull
          /\ PlacePage(p, AfterSecondEviction)
          /\ ActiveList # << >> /\ SecondList # << >>
      BY <1>1, <1>7, TailsExist DEF ReplaceSecond, AfterSecondEviction
    <2>2. TypeOK'
      BY <1>1, <2>1, AfterSecondEvictionMemory, PlaceTypes
    <2>3. /\ SecondList' = Cons(Last(ActiveList), Front(SecondList))
          /\ PageWorkingSetList' = PageWorkingSetList
          /\ status' = "alive" => ActiveList' = Cons(p, Front(ActiveList))
      <3>1. /\ AfterSecondEviction.PageWorkingSetList = PageWorkingSetList
            /\ AfterSecondEviction.ActiveList = Front(ActiveList)
            /\ AfterSecondEviction.SecondList = Cons(Last(ActiveList), Front(SecondList))
        BY <1>1, <2>1, AfterSecondEvictionMemory
      <3>2. QED BY <1>1, <2>1, <3>1, PlaceLists
    <2>4. /\ Len(Cons(p, Front(ActiveList))) = Len(ActiveList)
          /\ Len(SecondList') = Len(SecondList)
      <3>1. Last(ActiveList) \in Pages
        BY <1>1, <2>1, FrontShape
      <3>2. QED BY <1>1, <2>1, <2>3, <3>1, RotateShape
    <2>5. ListsFull'
      BY <1>1, <1>2, <2>1, <2>3, <2>4 DEF ListsFull, ActiveFull
    <2>6. QED BY <2>2, <2>5
  <1>8. QED
    BY <1>3, <1>4, <1>5, <1>6, <1>7 DEF page_fault_handler

\* freeMem keeps the lists in shape: the page that leaves the active list is
\* replaced from the second list.
LEMMA FreeWSInv ==
    ASSUME WSInv, NEW p \in Pages, FreeMem(p)
    PROVE  WSInv'
  <1> USE DEF WSInv
  <1>1. /\ status = "alive" /\ status' = status /\ insn' = insn
        /\ diskTables' = diskTables
        /\ written' \subseteq Pages /\ freeDisk' \in Nat
        /\ pf' \in [Pages -> {"none", "current", "stale"}]
    BY DEF FreeMem, InSyscall, TypeOK
  <1>2. /\ TypeOK /\ ListsFull
        /\ ActiveList \in Seq(Pages) /\ SecondList \in Seq(Pages)
        /\ Len(ActiveList) \in Nat /\ Len(SecondList) \in Nat
        /\ PageWorkingSetList \in Nat /\ freeFrames \in Nat
        /\ ActiveListSize \in Nat \ {0} /\ SecondListSize \in Nat
        /\ Unmapped \in Entry
    BY SizeAssumption, LenProperties DEF TypeOK, Unmapped, Entry
  <1>3. SecondList = << >> <=> Len(SecondList) = 0
    BY <1>2, EmptySeq
  <1>4. \A pt : Cardinality(EmptyTables(pt, TableOf[p])) \in Nat
    <2>1. \A pt : \/ EmptyTables(pt, TableOf[p]) = {}
                  \/ EmptyTables(pt, TableOf[p]) = {TableOf[p]}
      BY DEF EmptyTables
    <2>2. Cardinality({}) = 0 /\ Cardinality({TableOf[p]}) = 1
      BY FS_EmptySet, FS_Singleton
    <2>3. QED BY <2>1, <2>2
  <1>5. CASE \E i \in DOMAIN ActiveList : RemoveFromActive(p, i)
    <2>1. PICK i \in DOMAIN ActiveList : RemoveFromActive(p, i)
      BY <1>5
    <2>2. /\ RemoveAt(ActiveList, i) \in Seq(Pages)
          /\ Len(RemoveAt(ActiveList, i)) = Len(ActiveList) - 1
          /\ Len(ActiveList) > 0
      BY <1>2, RemoveAtShape
    <2>3. /\ PageWorkingSetList' = PageWorkingSetList + 1
          /\ tables' \subseteq tables /\ freeFrames' \in Nat
      BY <1>2, <1>4, <2>1 DEF RemoveFromActive
    <2>4. pte' \in [Pages -> Entry]
      <3>1. \A q \in Pages : [pte[q] EXCEPT !.present = TRUE] \in Entry
        BY <1>2 DEF TypeOK, Entry
      <3>2. QED BY <1>2, <2>1, <3>1 DEF RemoveFromActive, TypeOK
    <2>5. CASE SecondList # << >>
      <3>1. /\ ActiveList' = Append(RemoveAt(ActiveList, i), Head(SecondList))
            /\ SecondList' = Tail(SecondList)
        BY <2>1, <2>5 DEF RemoveFromActive
      <3>2. /\ Head(SecondList) \in Pages /\ Tail(SecondList) \in Seq(Pages)
            /\ Len(Tail(SecondList)) = Len(SecondList) - 1
            /\ Len(SecondList) \in Nat \ {0}
        BY <1>2, <2>5, HeadElements
      <3>3. /\ ActiveList' \in Seq(Pages)
            /\ Len(ActiveList') = Len(RemoveAt(ActiveList, i)) + 1
        BY <2>2, <3>1, <3>2, AppendElements
      <3>4. TypeOK'
        BY <1>1, <1>2, <2>3, <2>4, <3>1, <3>2, <3>3 DEF TypeOK
      <3>5. Len(ActiveList') = ActiveListSize
        BY <1>1, <1>2, <2>2, <2>5, <3>3 DEF ListsFull, ActiveFull
      <3>6. /\ PageWorkingSetList + Len(ActiveList) + Len(SecondList) = WSSize
            /\ Len(SecondList) <= SecondListSize
            /\ Len(ActiveList) = ActiveListSize
        BY <1>1, <1>2, <2>5 DEF ListsFull, ActiveFull
      <3>7. /\ PageWorkingSetList' # 0
            /\ PageWorkingSetList' + Len(ActiveList') + Len(SecondList') = WSSize
            /\ Len(SecondList') <= SecondListSize
        <4>1. Len(SecondList') = Len(SecondList) - 1
          BY <3>1, <3>2
        <4>2. Len(ActiveList') = ActiveListSize
          BY <3>5
        <4>3. PageWorkingSetList' = PageWorkingSetList + 1
          BY <2>3
        <4>4. /\ PageWorkingSetList \in Nat /\ Len(SecondList) \in Nat
              /\ ActiveListSize \in Nat /\ SecondListSize \in Nat
          BY <1>2
        <4>5. QED BY <3>6, <4>1, <4>2, <4>3, <4>4
      <3>8. ListsFull'
        BY <1>2, <3>5, <3>7 DEF ListsFull, ActiveFull
      <3>9. QED BY <3>4, <3>8
    <2>6. CASE SecondList = << >>
      <3>1. ActiveList' = RemoveAt(ActiveList, i) /\ SecondList' = SecondList
        BY <2>1, <2>6 DEF RemoveFromActive
      <3>2. TypeOK'
        BY <1>1, <1>2, <2>2, <2>3, <2>4, <3>1 DEF TypeOK
      <3>3. ListsFull'
        BY <1>1, <1>2, <1>3, <2>2, <2>3, <2>6, <3>1 DEF ListsFull, ActiveFull
      <3>4. QED BY <3>2, <3>3
    <2>7. QED BY <2>5, <2>6
  <1>6. CASE \E i \in DOMAIN SecondList : RemoveFromSecond(p, i)
    <2>1. PICK i \in DOMAIN SecondList : RemoveFromSecond(p, i)
      BY <1>6
    <2>2. /\ SecondList' = RemoveAt(SecondList, i)
          /\ SecondList' \in Seq(Pages)
          /\ Len(SecondList') = Len(SecondList) - 1
          /\ Len(SecondList) > 0
          /\ ActiveList' = ActiveList
          /\ PageWorkingSetList' = PageWorkingSetList + 1
      BY <1>2, <2>1, RemoveAtShape DEF RemoveFromSecond
    <2>3. /\ tables' \subseteq tables /\ freeFrames' \in Nat
          /\ pte' \in [Pages -> Entry]
      BY <1>2, <1>4, <2>1 DEF RemoveFromSecond, TypeOK
    <2>4. TypeOK'
      BY <1>1, <1>2, <2>2, <2>3 DEF TypeOK
    <2>5. ListsFull'
      BY <1>1, <1>2, <1>3, <2>2, SMTT(60) DEF ListsFull, ActiveFull
    <2>6. QED BY <2>4, <2>5
  <1>7. CASE UNCHANGED <<PageWorkingSetList, ActiveList, SecondList, pte,
                         tables, freeFrames>>
    BY <1>1, <1>2, <1>7 DEF TypeOK, ListsFull, ActiveFull
  <1>8. QED
    BY <1>5, <1>6, <1>7 DEF FreeMem

\* Every step keeps the types and the lists.
LEMMA NextWSInv == WSInv /\ [Next]_vars => WSInv'
  <1> SUFFICES ASSUME WSInv, [Next]_vars PROVE WSInv'
    OBVIOUS
  <1> USE DEF WSInv
  <1>1. ASSUME NEW S \in SUBSET Pages, Issue(S) PROVE WSInv'
    BY <1>1 DEF Issue, TypeOK, ListsFull, ActiveFull
  <1>2. CASE Load
    BY <1>2 DEF Load, CanExecute, TypeOK, ListsFull, ActiveFull
  <1>3. ASSUME NEW p \in Pages, Store(p) PROVE WSInv'
    <2>1. pte' \in [Pages -> Entry]
      BY <1>3, ZenonT(60) DEF Store, TypeOK, Entry
    <2>2. pf' \in [Pages -> {"none", "current", "stale"}]
      BY <1>3 DEF Store, TypeOK
    <2>3. QED
      BY <1>3, <2>1, <2>2 DEF Store, CanExecute, TypeOK, ListsFull, ActiveFull
  <1>4. ASSUME NEW p \in Pages, table_fault_handler(p) PROVE WSInv'
    <2>1. /\ UNCHANGED <<PageWorkingSetList, ActiveList, SecondList, pte, pf,
                         diskTables, freeDisk, written>>
          /\ status = "alive"
      BY <1>4 DEF table_fault_handler, Faulting
    <2>2. /\ tables' \subseteq Tables /\ freeFrames' \in Nat
          /\ status' \in {"alive", "exit"} /\ insn' \subseteq Pages
      BY <1>4, PagesFinite DEF table_fault_handler, Faulting, Die, TypeOK
    <2>3. TypeOK'
      BY <2>1, <2>2 DEF TypeOK
    <2>4. ListsFull'
      BY <2>1 DEF ListsFull, ActiveFull
    <2>5. QED BY <2>3, <2>4
  <1>5. ASSUME NEW p \in Pages, page_fault_handler(p) PROVE WSInv'
    BY <1>5, FaultWSInv
  <1>6. ASSUME NEW p \in HeapPages, AllocateMem(p) PROVE WSInv'
    <2>1. p \in Pages /\ OnNewFrame \in Entry
      BY DEF Pages, OnNewFrame, Unmapped, Entry
    <2>2. freeFrames' \in Nat /\ freeDisk' \in Nat
      BY <1>6 DEF AllocateMem, DiskTableFrames, TypeOK
    <2>3. /\ pte' \in [Pages -> Entry]
          /\ pf' \in [Pages -> {"none", "current", "stale"}]
          /\ tables' \subseteq Tables /\ diskTables' \subseteq Tables
          /\ written' \subseteq Pages
      BY <1>6, <2>1, PagesFinite DEF AllocateMem, TypeOK
    <2>4. UNCHANGED <<status, insn, PageWorkingSetList, ActiveList, SecondList>>
      BY <1>6 DEF AllocateMem
    <2>5. TypeOK'
      BY <2>2, <2>3, <2>4 DEF TypeOK
    <2>6. ListsFull'
      BY <2>4 DEF ListsFull, ActiveFull
    <2>7. QED BY <2>5, <2>6
  <1>7. ASSUME NEW p \in HeapPages, AllocateMemFails(p) PROVE WSInv'
    <2>1. p \in Pages
      BY DEF Pages
    <2>2. freeFrames' \in Nat
      BY <1>7 DEF AllocateMemFails, DiskTableFrames, TypeOK
    <2>3. /\ freeDisk' \in Nat
          /\ pf' \in [Pages -> {"none", "current", "stale"}]
      BY <1>7, <2>1 DEF AllocateMemFails, DiskTableFrames, TypeOK
    <2>4. diskTables' \subseteq Tables
      BY <1>7, <2>1, PagesFinite DEF AllocateMemFails, TypeOK
    <2>5. /\ UNCHANGED <<PageWorkingSetList, ActiveList, SecondList, pte, tables,
                         written>>
          /\ status' = "exit" /\ insn' = {}
      BY <1>7 DEF AllocateMemFails, Die
    <2>6. QED
      BY <2>2, <2>3, <2>4, <2>5 DEF TypeOK, ListsFull
  <1>8. ASSUME NEW p \in Pages, FreeMem(p) PROVE WSInv'
    BY <1>8, FreeWSInv
  <1>9. CASE Exit
    BY <1>9 DEF Exit, Die, TypeOK, ListsFull
  <1>10. CASE EnvFree
    <2>1. /\ Cardinality(Resident \cap Mapped(pte)) \in Nat
          /\ Cardinality(tables) \in Nat /\ Cardinality(diskTables) \in Nat
          /\ Cardinality(Slots(pf)) \in Nat
      <3>1. /\ Resident \cap Mapped(pte) \subseteq Pages
            /\ Slots(pf) \subseteq Pages
        BY DEF Mapped, Slots, TypeOK
      <3>2. QED
        BY <3>1, PagesFinite, FS_Subset, FS_CardinalityType DEF TypeOK
    <2>2. freeFrames' \in Nat /\ freeDisk' \in Nat /\ PageWorkingSetList' \in Nat
      BY <1>10, <2>1, LenProperties, SMTT(60) DEF EnvFree, TypeOK
    <2>3. /\ ActiveList' \in Seq(Pages) /\ SecondList' \in Seq(Pages)
          /\ pte' \in [Pages -> Entry]
      BY <1>10, EmptySeq DEF EnvFree, Unmapped, Entry
    <2>4. QED
      BY <1>10, <2>2, <2>3 DEF EnvFree, TypeOK, ListsFull
  <1>11. CASE UNCHANGED vars
    BY <1>11 DEF vars, TypeOK, ListsFull, ActiveFull
  <1>12. QED
    BY <1>1, <1>2, <1>3, <1>4, <1>5, <1>6, <1>7, <1>8, <1>9, <1>10, <1>11
       DEF Next, CPU

\* Every reachable state is well typed: in particular no counter of free
\* frames, free disk frames or free elements ever goes below zero.
THEOREM TypeCorrect == Spec => []TypeOK
  <1>1. Spec => []WSInv
    BY InitWSInv, NextWSInv, PTL DEF Spec
  <1>2. WSInv => TypeOK
    BY DEF WSInv
  <1>3. QED BY <1>1, <1>2, PTL

\* The facts page_fault_handler assumes about its lists hold whenever it runs.
THEOREM ListsFullCorrect == Spec => []ListsFull
  <1>1. Spec => []WSInv
    BY InitWSInv, NextWSInv, PTL DEF Spec
  <1>2. WSInv => ListsFull
    BY DEF WSInv
  <1>3. QED BY <1>1, <1>2, PTL

-----------------------------------------------------------------------------
(***************************************************************************)
(* Residency as a predicate of the lists, the entries and the tables, for  *)
(* the memory in the middle of a handler.                                  *)
(***************************************************************************)
PageAgrees(p, active, second, entry, tabs) ==
    /\ entry.mapped => TableOf[p] \in tabs
    /\ entry.present => entry.mapped
    /\ p \in second <=> entry.mapped /\ ~entry.present
    /\ p \in active => entry.present
    /\ entry.present => p \in active \cup HeapPages
    /\ p \in active \cup second => p \notin HeapPages

ListsAgree(al, sl, pt, tabs) ==
    /\ Distinct(al) /\ Distinct(sl)
    /\ ToSet(al) \cap ToSet(sl) = {}
    /\ \A p \in Pages : PageAgrees(p, ToSet(al), ToSet(sl), pt[p], tabs)

\* A heap page is in the page file only while it is mapped: it came there by
\* allocateMem, enters no list and is never replaced.
HeapInFile(pt, file) ==
    \A p \in HeapPages : file[p] # "none" => pt[p].present

AgreeNow == /\ ListsAgree(ActiveList, SecondList, pte, tables)
            /\ HeapInFile(pte, pf)

\* Residency is inductive together with HeapInFile.
ResInv == WSInv /\ (status = "alive" => AgreeNow)

LEMMA ResidencyFromLists ==
    ResInv => Residency
  BY DEF ResInv, AgreeNow, ListsAgree, PageAgrees, Residency, Resident, Distinct

\* The lists env_create makes hold each page once: the image has no page twice
\* and the stack page is not in it.
LEMMA InitLists ==
    ASSUME Init
    PROVE  /\ Distinct(ActiveList) /\ Distinct(SecondList)
           /\ ToSet(ActiveList) =
                {StackTop} \cup {Segment[i] : i \in 1 .. LoadedActive}
           /\ ToSet(SecondList) =
                {Segment[i] : i \in LoadedActive + 1 .. Loaded}
  <1> DEFINE a == LoadedActive
             n == Loaded
  <1>1. /\ a \in Nat /\ n \in Nat /\ a <= n /\ n <= Len(Segment)
        /\ Len(Segment) \in Nat
        /\ \A i \in 1 .. n : Segment[i] # StackTop
        /\ \A i, j \in 1 .. n : Segment[i] = Segment[j] => i = j
    <2>1. a \in Nat /\ n \in Nat /\ a <= n /\ n <= Len(Segment) /\ Len(Segment) \in Nat
      BY LoadFacts, SegmentFinite
    <2>2. DOMAIN Segment = 1 .. Len(Segment)
      BY SegmentFinite, LenProperties
    <2>3. \A i \in 1 .. n : Segment[i] # StackTop
      BY <2>1, <2>2, SegmentFinite, ProgramAssumption
    <2>4. \A i, j \in 1 .. n : Segment[i] = Segment[j] => i = j
      BY <2>1, <2>2, ProgramAssumption
    <2>5. QED BY <2>1, <2>3, <2>4
  <1>2. /\ DOMAIN ActiveList = 1 .. a + 1
        /\ ActiveList[1] = StackTop
        /\ \A i \in 2 .. a + 1 : ActiveList[i] = Segment[a + 2 - i]
    BY <1>1 DEF Init
  <1>3. /\ DOMAIN SecondList = 1 .. n - a
        /\ \A i \in 1 .. n - a : SecondList[i] = Segment[n + 1 - i]
    BY <1>1 DEF Init
  <1> HIDE DEF a, n
  <1>4. Distinct(ActiveList)
    <2> SUFFICES ASSUME NEW i \in 1 .. a + 1, NEW j \in 1 .. a + 1,
                        ActiveList[i] = ActiveList[j]
                 PROVE  i = j
      BY <1>2 DEF Distinct
    <2>1. CASE i = 1 /\ j # 1
      <3>1. ActiveList[j] = Segment[a + 2 - j] /\ a + 2 - j \in 1 .. n
        BY <1>1, <1>2, <2>1
      <3>2. QED BY <1>1, <1>2, <2>1, <3>1
    <2>2. CASE i # 1 /\ j = 1
      <3>1. ActiveList[i] = Segment[a + 2 - i] /\ a + 2 - i \in 1 .. n
        BY <1>1, <1>2, <2>2
      <3>2. QED BY <1>1, <1>2, <2>2, <3>1
    <2>3. CASE i # 1 /\ j # 1
      <3>1. /\ ActiveList[i] = Segment[a + 2 - i] /\ a + 2 - i \in 1 .. n
            /\ ActiveList[j] = Segment[a + 2 - j] /\ a + 2 - j \in 1 .. n
        BY <1>1, <1>2, <2>3
      <3>2. a + 2 - i = a + 2 - j
        BY <1>1, <3>1
      <3>3. QED BY <1>1, <3>2
    <2>4. QED BY <2>1, <2>2, <2>3
  <1>5. Distinct(SecondList)
    <2> SUFFICES ASSUME NEW i \in 1 .. n - a, NEW j \in 1 .. n - a,
                        SecondList[i] = SecondList[j]
                 PROVE  i = j
      BY <1>3 DEF Distinct
    <2>1. /\ SecondList[i] = Segment[n + 1 - i] /\ n + 1 - i \in 1 .. n
          /\ SecondList[j] = Segment[n + 1 - j] /\ n + 1 - j \in 1 .. n
      BY <1>1, <1>3
    <2>2. n + 1 - i = n + 1 - j
      BY <1>1, <2>1
    <2>3. QED BY <1>1, <2>2
  <1>6. ToSet(ActiveList) = {StackTop} \cup {Segment[i] : i \in 1 .. a}
    <2>1. ASSUME NEW i \in 1 .. a + 1
          PROVE  ActiveList[i] \in {StackTop} \cup {Segment[j] : j \in 1 .. a}
      <3>1. CASE i = 1
        BY <1>2, <3>1
      <3>2. CASE i # 1
        <4>1. i \in 2 .. a + 1 /\ a + 2 - i \in 1 .. a
          BY <1>1, <3>2
        <4>2. QED BY <1>2, <4>1
      <3>3. QED BY <3>1, <3>2
    <2>2. ASSUME NEW i \in 1 .. a
          PROVE  Segment[i] \in ToSet(ActiveList)
      <3>1. /\ a + 2 - i \in 2 .. a + 1 /\ a + 2 - i \in 1 .. a + 1
            /\ a + 2 - (a + 2 - i) = i
        BY <1>1
      <3>2. ActiveList[a + 2 - i] = Segment[i]
        BY <1>2, <3>1
      <3>3. QED BY <1>2, <3>1, <3>2 DEF ToSet
    <2>3. 1 \in 1 .. a + 1
      BY <1>1
    <2>4. StackTop \in ToSet(ActiveList)
      BY <1>2, <2>3 DEF ToSet
    <2>5. QED BY <1>2, <2>1, <2>2, <2>4 DEF ToSet
  <1>7. ToSet(SecondList) = {Segment[i] : i \in a + 1 .. n}
    <2>1. ASSUME NEW i \in 1 .. n - a
          PROVE  SecondList[i] \in {Segment[j] : j \in a + 1 .. n}
      <3>1. n + 1 - i \in a + 1 .. n
        BY <1>1
      <3>2. QED BY <1>3, <3>1
    <2>2. ASSUME NEW i \in a + 1 .. n
          PROVE  Segment[i] \in ToSet(SecondList)
      <3>1. n + 1 - i \in 1 .. n - a /\ n + 1 - (n + 1 - i) = i
        BY <1>1
      <3>2. SecondList[n + 1 - i] = Segment[i]
        BY <1>3, <3>1
      <3>3. QED BY <1>3, <3>1, <3>2 DEF ToSet
    <2>3. QED BY <1>3, <2>1, <2>2 DEF ToSet
  <1>8. QED BY <1>4, <1>5, <1>6, <1>7 DEF a, n

LEMMA InitResInv == Init => ResInv
  <1> SUFFICES ASSUME Init PROVE AgreeNow
    BY InitWSInv DEF ResInv
  <1> DEFINE A == ToSet(ActiveList)
             S == ToSet(SecondList)
  <1>1. /\ LoadedActive \in Nat /\ Loaded \in Nat
        /\ LoadedActive <= Loaded /\ Loaded <= Len(Segment)
        /\ Len(Segment) \in Nat
        /\ \A i \in 1 .. Len(Segment) : Segment[i] \in ToSet(Segment)
        /\ \A i, j \in 1 .. Len(Segment) : Segment[i] = Segment[j] => i = j
        /\ DOMAIN Segment = 1 .. Len(Segment)
    BY LoadFacts, SegmentFinite, LenProperties, ProgramAssumption
  <1>2. A \cap S = {}
    <2>1. \A i \in 1 .. Len(Segment) : Segment[i] # StackTop
      BY <1>1, ProgramAssumption
    <2>2. \A i \in 1 .. LoadedActive, j \in LoadedActive + 1 .. Loaded :
            Segment[i] # Segment[j]
      BY <1>1
    <2>3. QED BY <1>1, <2>1, <2>2, InitLists
  <1>3. LoadedPages = A \cup S
    BY <1>1, InitLists DEF LoadedPages
  <1>4. A \cup S \subseteq ToSet(Segment) \cup StackPages
    BY <1>1, <1>3, ProgramAssumption DEF LoadedPages
  <1>5. \A p \in Pages : PageAgrees(p, A, S, pte[p], tables)
    <2> SUFFICES ASSUME NEW p \in Pages PROVE PageAgrees(p, A, S, pte[p], tables)
      OBVIOUS
    <2>1. p \in A <=> \E i \in DOMAIN ActiveList : ActiveList[i] = p
      BY DEF ToSet
    <2>2. CASE p \in A \cup S
      <3>1. /\ pte[p].mapped
            /\ pte[p].present <=> p \in A
        BY <1>3, <2>1, <2>2 DEF Init
      <3>2. TableOf[p] \in tables
        BY <1>3, <2>2 DEF Init, LoadedTables
      <3>3. p \notin HeapPages
        BY <1>4, <2>2, ProgramAssumption
      <3>4. QED BY <1>2, <2>2, <3>1, <3>2, <3>3 DEF PageAgrees
    <2>3. CASE p \notin A \cup S
      <3>1. pte[p] = Unmapped
        BY <1>3, <2>3 DEF Init
      <3>2. QED BY <2>3, <3>1 DEF PageAgrees, Unmapped
    <2>4. QED BY <2>2, <2>3
  <1>6. HeapInFile(pte, pf)
    BY ProgramAssumption DEF Init, HeapInFile, Pages
  <1>7. QED
    BY <1>2, <1>5, <1>6, InitLists DEF AgreeNow, ListsAgree

\* Loading page p into the element a branch has taken keeps the agreement the
\* branch has left, provided p is in neither list; a heap page is not loaded,
\* since one that is absent is not in the page file.
LEMMA PlaceAgree ==
    ASSUME TypeOK, NEW p \in Pages, NEW ws, MemoryOK(ws), PlacePage(p, ws),
           status = "alive", TableOf[p] \in tables, ~ws.pte[p].mapped,
           ListsAgree(ws.ActiveList, ws.SecondList, ws.pte, tables),
           HeapInFile(ws.pte, ws.pf)
    PROVE  status' = "alive" => AgreeNow'
  <1> SUFFICES ASSUME status' = "alive" PROVE AgreeNow'
    OBVIOUS
  <1> DEFINE A == ToSet(ws.ActiveList)
             S == ToSet(ws.SecondList)
  <1>1. PlaceFromPageFile(p, ws) \/ PlaceNewStackPage(p, ws)
    BY DEF PlacePage, IllegalAccess, OutOfFrames, Die
  <1>2. /\ SecondList' = ws.SecondList /\ tables' = tables
        /\ ActiveList' = Cons(p, ws.ActiveList)
    BY <1>1 DEF PlacePage, PlaceFromPageFile, PlaceNewStackPage
  <1>3. p \notin A \cup S
    BY DEF ListsAgree, PageAgrees
  <1>4. p \notin HeapPages
    <2>1. CASE PlaceFromPageFile(p, ws)
      BY <2>1 DEF PlaceFromPageFile, HeapInFile, ListsAgree, PageAgrees
    <2>2. CASE PlaceNewStackPage(p, ws)
      BY <2>2, ProgramAssumption DEF PlaceNewStackPage
    <2>3. QED BY <1>1, <2>1, <2>2
  <1>5. /\ pte'[p].mapped /\ pte'[p].present
        /\ \A q \in Pages \ {p} : pte'[q] = ws.pte[q] /\ pf'[q] = ws.pf[q]
    <2>1. CASE PlaceFromPageFile(p, ws)
      BY <2>1 DEF PlaceFromPageFile, MemoryOK, OnNewFrame, Unmapped
    <2>2. CASE PlaceNewStackPage(p, ws)
      <3>1. pf' = [ws.pf EXCEPT ![p] = "stale"] \/ pf' = ws.pf
        BY <2>2 DEF PlaceNewStackPage
      <3>2. pte' = [ws.pte EXCEPT ![p] = OnNewFrame]
        BY <2>2 DEF PlaceNewStackPage
      <3>3. QED BY <3>1, <3>2 DEF MemoryOK, OnNewFrame, Unmapped
    <2>3. QED BY <1>1, <2>1, <2>2
  <1>6. /\ ToSet(ActiveList') = {p} \cup A
        /\ Distinct(ActiveList')
    BY <1>2, <1>3, ConsElements DEF MemoryOK, ListsAgree
  <1>7. ASSUME NEW q \in Pages
        PROVE  PageAgrees(q, {p} \cup A, S, pte'[q], tables)
    <2>1. PageAgrees(q, A, S, ws.pte[q], tables)
      BY DEF ListsAgree
    <2>2. CASE q = p
      BY <1>3, <1>4, <1>5, <2>2 DEF PageAgrees
    <2>3. CASE q # p
      BY <1>5, <2>1, <2>3 DEF PageAgrees
    <2>4. QED BY <2>2, <2>3
  <1>8. HeapInFile(pte', pf')
    BY <1>4, <1>5 DEF HeapInFile, Pages
  <1>9. ({p} \cup A) \cap S = {}
    BY <1>3 DEF ListsAgree
  <1>10. QED
    BY <1>2, <1>6, <1>7, <1>8, <1>9 DEF AgreeNow, ListsAgree

\* Demoting the active tail moves it to the second list and hides it.
LEMMA DemoteAgree ==
    ASSUME TypeOK, AgreeNow, PageWorkingSetList # 0, ActiveList # << >>
    PROVE  /\ ListsAgree(AfterDemote.ActiveList, AfterDemote.SecondList,
                         AfterDemote.pte, tables)
           /\ HeapInFile(AfterDemote.pte, AfterDemote.pf)
           /\ \A q \in Pages : AfterDemote.pte[q].mapped = pte[q].mapped
  <1> DEFINE tail == Last(ActiveList)
             A == ToSet(ActiveList)
             S == ToSet(SecondList)
             pt == AfterDemote.pte
  <1>1. /\ AfterDemote.ActiveList = Front(ActiveList)
        /\ AfterDemote.SecondList = Cons(tail, SecondList)
        /\ pt = [pte EXCEPT ![tail].present = FALSE]
        /\ AfterDemote.pf = pf
    BY AfterDemoteMemory
  <1>2. tail \in Pages /\ tail \in A
    BY FrontShape, FrontElements DEF TypeOK
  <1>3. /\ ToSet(Front(ActiveList)) = A \ {tail} /\ Distinct(Front(ActiveList))
        /\ ToSet(Cons(tail, SecondList)) = {tail} \cup S
        /\ Distinct(Cons(tail, SecondList))
    BY <1>2, FrontElements, ConsElements DEF AgreeNow, ListsAgree, TypeOK
  <1>4. /\ pt[tail].mapped = pte[tail].mapped /\ ~pt[tail].present
        /\ \A q \in Pages \ {tail} : pt[q] = pte[q]
    BY <1>1, <1>2 DEF TypeOK, Entry
  <1> HIDE DEF pt, tail
  <1>5. ASSUME NEW q \in Pages
        PROVE  PageAgrees(q, A \ {tail}, {tail} \cup S, pt[q], tables)
    <2>1. PageAgrees(q, A, S, pte[q], tables)
      BY DEF AgreeNow, ListsAgree
    <2>2. CASE q = tail
      BY <1>2, <1>4, <2>1, <2>2 DEF PageAgrees
    <2>3. CASE q # tail
      BY <1>4, <2>1, <2>3 DEF PageAgrees
    <2>4. QED BY <2>2, <2>3
  <1>6. (A \ {tail}) \cap ({tail} \cup S) = {}
    BY DEF AgreeNow, ListsAgree
  <1>7. ListsAgree(AfterDemote.ActiveList, AfterDemote.SecondList, pt, tables)
    BY <1>1, <1>3, <1>5, <1>6 DEF ListsAgree
  <1>8. HeapInFile(pt, pf)
    <2>1. tail \notin HeapPages
      BY <1>2 DEF AgreeNow, ListsAgree, PageAgrees
    <2>2. QED BY <1>4, <2>1 DEF AgreeNow, HeapInFile, Pages
  <1>9. QED
    BY <1>1, <1>2, <1>4, <1>7, <1>8 DEF pt

\* Replacing the active tail (there is no second list) unmaps it.
LEMMA ActiveEvictionAgree ==
    ASSUME TypeOK, AgreeNow, ActiveList # << >>
    PROVE  /\ ListsAgree(AfterActiveEviction.ActiveList,
                         AfterActiveEviction.SecondList,
                         AfterActiveEviction.pte, tables)
           /\ HeapInFile(AfterActiveEviction.pte, AfterActiveEviction.pf)
           /\ \A q \in Pages :
                ~pte[q].mapped => ~AfterActiveEviction.pte[q].mapped
  <1> DEFINE v == Last(ActiveList)
             A == ToSet(ActiveList)
             S == ToSet(SecondList)
             pt == AfterActiveEviction.pte
             file == AfterActiveEviction.pf
  <1>1. /\ AfterActiveEviction.ActiveList = Front(ActiveList)
        /\ AfterActiveEviction.SecondList = SecondList
        /\ pt = [pte EXCEPT ![v] = Unmapped]
        /\ file = [pf EXCEPT ![v] = IF pte[v].modified /\ @ # "none"
                                    THEN pte[v].data ELSE @]
    BY AfterActiveEvictionMemory
  <1>2. v \in Pages /\ v \in A
    BY FrontShape, FrontElements DEF TypeOK
  <1>3. ToSet(Front(ActiveList)) = A \ {v} /\ Distinct(Front(ActiveList))
    BY FrontElements DEF AgreeNow, ListsAgree, TypeOK
  <1>4. /\ ~pt[v].mapped /\ ~pt[v].present
        /\ \A q \in Pages \ {v} : pt[q] = pte[q] /\ file[q] = pf[q]
    BY <1>1, <1>2 DEF TypeOK, Unmapped
  <1> HIDE DEF pt, file, v
  <1>5. ASSUME NEW q \in Pages
        PROVE  PageAgrees(q, A \ {v}, S, pt[q], tables)
    <2>1. PageAgrees(q, A, S, pte[q], tables)
      BY DEF AgreeNow, ListsAgree
    <2>2. CASE q = v
      BY <1>2, <1>4, <2>1, <2>2 DEF PageAgrees
    <2>3. CASE q # v
      BY <1>4, <2>1, <2>3 DEF PageAgrees
    <2>4. QED BY <2>2, <2>3
  <1>6. ListsAgree(AfterActiveEviction.ActiveList,
                   AfterActiveEviction.SecondList, pt, tables)
    BY <1>1, <1>3, <1>5 DEF AgreeNow, ListsAgree
  <1>7. HeapInFile(pt, file)
    <2>1. v \notin HeapPages
      BY <1>2 DEF AgreeNow, ListsAgree, PageAgrees
    <2>2. QED BY <1>4, <2>1 DEF AgreeNow, HeapInFile, Pages
  <1>8. \A q \in Pages : ~pte[q].mapped => ~pt[q].mapped
    BY <1>4
  <1>9. QED
    BY <1>6, <1>7, <1>8 DEF pt, file

\* Replacing the second tail unmaps it, and the active tail takes its element.
LEMMA SecondEvictionAgree ==
    ASSUME TypeOK, AgreeNow, ActiveList # << >>, SecondList # << >>
    PROVE  /\ ListsAgree(AfterSecondEviction.ActiveList,
                         AfterSecondEviction.SecondList,
                         AfterSecondEviction.pte, tables)
           /\ HeapInFile(AfterSecondEviction.pte, AfterSecondEviction.pf)
           /\ \A q \in Pages :
                ~pte[q].mapped => ~AfterSecondEviction.pte[q].mapped
  <1> DEFINE v == Last(SecondList)
             tail == Last(ActiveList)
             A == ToSet(ActiveList)
             S == ToSet(SecondList)
             mid == [pte EXCEPT ![tail].present = FALSE]
             pt == AfterSecondEviction.pte
             file == AfterSecondEviction.pf
  <1>1. /\ AfterSecondEviction.ActiveList = Front(ActiveList)
        /\ AfterSecondEviction.SecondList = Cons(tail, Front(SecondList))
        /\ pt = [mid EXCEPT ![v] = Unmapped]
        /\ file = [pf EXCEPT ![v] = IF pte[v].modified /\ @ # "none"
                                    THEN pte[v].data ELSE @]
    BY AfterSecondEvictionMemory
  <1>2. /\ v \in Pages /\ v \in S /\ tail \in Pages /\ tail \in A
        /\ Front(SecondList) \in Seq(Pages)
        /\ A \cap S = {}
    BY FrontShape, FrontElements DEF TypeOK, AgreeNow, ListsAgree
  <1>3. /\ ToSet(Front(ActiveList)) = A \ {tail} /\ Distinct(Front(ActiveList))
        /\ ToSet(Front(SecondList)) = S \ {v} /\ Distinct(Front(SecondList))
    BY FrontElements DEF AgreeNow, ListsAgree, TypeOK
  <1>4. /\ ToSet(Cons(tail, Front(SecondList))) = {tail} \cup (S \ {v})
        /\ Distinct(Cons(tail, Front(SecondList)))
    BY <1>2, <1>3, ConsElements
  <1>5. /\ mid \in [Pages -> Entry]
        /\ mid[tail].mapped = pte[tail].mapped /\ ~mid[tail].present
        /\ \A q \in Pages \ {tail} : mid[q] = pte[q]
    BY <1>2 DEF TypeOK, Entry
  <1> HIDE DEF mid
  <1>6. /\ ~pt[v].mapped /\ ~pt[v].present
        /\ \A q \in Pages \ {v} : pt[q] = mid[q] /\ file[q] = pf[q]
    BY <1>1, <1>2, <1>5 DEF TypeOK, Unmapped
  <1> HIDE DEF pt, file, v, tail
  <1>7. ASSUME NEW q \in Pages
        PROVE  PageAgrees(q, A \ {tail}, {tail} \cup (S \ {v}), pt[q], tables)
    <2>1. PageAgrees(q, A, S, pte[q], tables)
      BY DEF AgreeNow, ListsAgree
    <2>2. CASE q = v
      BY <1>2, <1>6, <2>1, <2>2 DEF PageAgrees
    <2>3. CASE q = tail
      BY <1>2, <1>5, <1>6, <2>1, <2>3 DEF PageAgrees
    <2>4. CASE q # v /\ q # tail
      BY <1>5, <1>6, <2>1, <2>4 DEF PageAgrees
    <2>5. QED BY <2>2, <2>3, <2>4
  <1>8. (A \ {tail}) \cap ({tail} \cup (S \ {v})) = {}
    BY <1>2
  <1>9. ListsAgree(AfterSecondEviction.ActiveList,
                   AfterSecondEviction.SecondList, pt, tables)
    BY <1>1, <1>3, <1>4, <1>7, <1>8 DEF ListsAgree
  <1>10. HeapInFile(pt, file)
    <2>1. v \notin HeapPages /\ tail \notin HeapPages
      BY <1>2 DEF AgreeNow, ListsAgree, PageAgrees
    <2>2. QED BY <1>5, <1>6, <2>1 DEF AgreeNow, HeapInFile, Pages
  <1>11. \A q \in Pages : ~pte[q].mapped => ~pt[q].mapped
    BY <1>2, <1>5, <1>6
  <1>12. QED
    BY <1>9, <1>10, <1>11 DEF pt, file

\* A page that faults and is in neither list is not mapped.
LEMMA FaultingUnmapped ==
    ASSUME WSInv, AgreeNow, NEW p \in Pages, PageFaulting(p),
           p \notin ToSet(SecondList) \/ ~ActiveFull
    PROVE  ~pte[p].mapped
  <1>1. PageAgrees(p, ToSet(ActiveList), ToSet(SecondList), pte[p], tables)
        /\ ~pte[p].present /\ status = "alive"
    BY DEF AgreeNow, ListsAgree, PageFaulting, Faulting
  <1>2. ~ActiveFull => SecondList = << >>
    BY <1>1 DEF WSInv, ListsFull
  <1>3. p \notin ToSet(SecondList)
    BY <1>2, EmptyElements
  <1>4. QED
    BY <1>1, <1>3 DEF PageAgrees

\* A second chance swaps a page of the second list with the active tail.
LEMMA SecondChanceAgree ==
    ASSUME WSInv, AgreeNow, NEW p \in Pages, SecondChance(p)
    PROVE  AgreeNow'
  <1> DEFINE tail == Last(ActiveList)
             A == ToSet(ActiveList)
             S == ToSet(SecondList)
             mid == [pte EXCEPT ![p].present = TRUE]
  <1>1. /\ status = "alive" /\ ActiveFull /\ ActiveList # << >>
        /\ ActiveList \in Seq(Pages) /\ SecondList \in Seq(Pages)
    BY TailsExist DEF SecondChance, PageFaulting, Faulting, WSInv, TypeOK
  <1>2. PICK i \in DOMAIN SecondList :
          /\ SecondList[i] = p
          /\ ActiveList' = Cons(p, Front(ActiveList))
          /\ SecondList' = Cons(tail, RemoveAt(SecondList, i))
          /\ pte' = [mid EXCEPT ![tail].present = FALSE]
    BY DEF SecondChance
  <1>3. /\ tail \in Pages /\ tail \in A /\ p \in S /\ A \cap S = {}
        /\ Front(ActiveList) \in Seq(Pages)
        /\ RemoveAt(SecondList, i) \in Seq(Pages)
    <2>1. tail \in Pages /\ tail \in A /\ Front(ActiveList) \in Seq(Pages)
      BY <1>1, FrontShape, FrontElements
    <2>2. p \in S
      BY <1>2 DEF ToSet
    <2>3. RemoveAt(SecondList, i) \in Seq(Pages)
      BY <1>1, RemoveAtShape
    <2>4. QED BY <2>1, <2>2, <2>3 DEF AgreeNow, ListsAgree
  <1>4. /\ ToSet(Front(ActiveList)) = A \ {tail} /\ Distinct(Front(ActiveList))
        /\ ToSet(RemoveAt(SecondList, i)) = S \ {p}
        /\ Distinct(RemoveAt(SecondList, i))
    BY <1>1, <1>2, FrontElements, RemoveAtElements DEF AgreeNow, ListsAgree
  <1>5. /\ ToSet(ActiveList') = {p} \cup (A \ {tail}) /\ Distinct(ActiveList')
        /\ ToSet(SecondList') = {tail} \cup (S \ {p}) /\ Distinct(SecondList')
    BY <1>2, <1>3, <1>4, ConsElements
  <1>6. /\ mid \in [Pages -> Entry]
        /\ mid[p].mapped = pte[p].mapped /\ mid[p].present
        /\ \A q \in Pages \ {p} : mid[q] = pte[q]
    BY DEF WSInv, TypeOK, Entry
  <1> HIDE DEF mid
  <1>7. /\ pte'[tail].mapped = mid[tail].mapped /\ ~pte'[tail].present
        /\ \A q \in Pages \ {tail} : pte'[q] = mid[q]
    BY <1>2, <1>3, <1>6 DEF Entry
  <1> HIDE DEF tail
  <1>8. UNCHANGED <<tables, pf>>
    BY DEF SecondChance
  <1>9. ASSUME NEW q \in Pages
        PROVE  PageAgrees(q, {p} \cup (A \ {tail}), {tail} \cup (S \ {p}),
                          pte'[q], tables)
    <2>1. PageAgrees(q, A, S, pte[q], tables)
      BY DEF AgreeNow, ListsAgree
    <2>2. CASE q = p
      BY <1>3, <1>6, <1>7, <2>1, <2>2 DEF PageAgrees
    <2>3. CASE q = tail
      BY <1>3, <1>6, <1>7, <2>1, <2>3 DEF PageAgrees
    <2>4. CASE q # p /\ q # tail
      BY <1>6, <1>7, <2>1, <2>4 DEF PageAgrees
    <2>5. QED BY <2>2, <2>3, <2>4
  <1>10. HeapInFile(pte', pf')
    <2>1. p \notin HeapPages /\ tail \notin HeapPages
      BY <1>3 DEF AgreeNow, ListsAgree, PageAgrees
    <2>2. QED BY <1>6, <1>7, <1>8, <2>1 DEF AgreeNow, HeapInFile, Pages
  <1>11. ToSet(ActiveList') \cap ToSet(SecondList') = {}
    BY <1>3, <1>5
  <1>12. QED
    BY <1>5, <1>8, <1>9, <1>10, <1>11 DEF AgreeNow, ListsAgree

\* Whatever branch serves the fault, the lists agree with the tables again.
LEMMA FaultAgree ==
    ASSUME WSInv, AgreeNow, NEW p \in Pages, page_fault_handler(p)
    PROVE  status' = "alive" => AgreeNow'
  <1>1. /\ TypeOK /\ ListsFull /\ status = "alive" /\ PageFaulting(p)
        /\ TableOf[p] \in tables
    BY DEF WSInv, page_fault_handler, PlaceInActive, SecondChance,
           DemoteAndPlace, ReplaceActive, ReplaceSecond, PageFaulting, Faulting
  <1>2. CASE PlaceInActive(p)
    <2>1. PageWorkingSetList # 0 /\ ~ActiveFull /\ PlacePage(p, AfterTake)
      BY <1>2 DEF PlaceInActive, AfterTake
    <2>2. ~AfterTake.pte[p].mapped
      BY <1>1, <2>1, FaultingUnmapped, AfterTakeMemory
    <2>3. /\ ListsAgree(AfterTake.ActiveList, AfterTake.SecondList,
                        AfterTake.pte, tables)
          /\ HeapInFile(AfterTake.pte, AfterTake.pf)
      BY <1>1, <2>1, AfterTakeMemory DEF AgreeNow
    <2>4. QED
      BY <1>1, <2>1, <2>2, <2>3, AfterTakeMemory, PlaceAgree
  <1>3. CASE SecondChance(p)
    BY <1>3, SecondChanceAgree
  <1>4. CASE DemoteAndPlace(p)
    <2>1. /\ PageWorkingSetList # 0 /\ PlacePage(p, AfterDemote)
          /\ ActiveList # << >> /\ p \notin ToSet(SecondList)
      BY <1>1, <1>4, TailsExist DEF DemoteAndPlace, AfterDemote
    <2>2. ~AfterDemote.pte[p].mapped
      BY <1>1, <2>1, FaultingUnmapped, DemoteAgree
    <2>3. MemoryOK(AfterDemote)
      BY <1>1, <2>1, AfterDemoteMemory
    <2>4. QED
      BY <1>1, <2>1, <2>2, <2>3, DemoteAgree, PlaceAgree
  <1>5. CASE ReplaceActive(p)
    <2>1. /\ PlacePage(p, AfterActiveEviction)
          /\ ActiveList # << >> /\ p \notin ToSet(SecondList)
      BY <1>1, <1>5, TailsExist DEF ReplaceActive, AfterActiveEviction
    <2>2. ~AfterActiveEviction.pte[p].mapped
      BY <1>1, <2>1, FaultingUnmapped, ActiveEvictionAgree
    <2>3. MemoryOK(AfterActiveEviction)
      BY <1>1, <2>1, AfterActiveEvictionMemory
    <2>4. QED
      BY <1>1, <2>1, <2>2, <2>3, ActiveEvictionAgree, PlaceAgree
  <1>6. CASE ReplaceSecond(p)
    <2>1. /\ PlacePage(p, AfterSecondEviction)
          /\ ActiveList # << >> /\ SecondList # << >>
          /\ p \notin ToSet(SecondList)
      BY <1>1, <1>6, TailsExist DEF ReplaceSecond, AfterSecondEviction
    <2>2. ~AfterSecondEviction.pte[p].mapped
      BY <1>1, <2>1, FaultingUnmapped, SecondEvictionAgree
    <2>3. MemoryOK(AfterSecondEviction)
      BY <1>1, <2>1, AfterSecondEvictionMemory
    <2>4. QED
      BY <1>1, <2>1, <2>2, <2>3, SecondEvictionAgree, PlaceAgree
  <1>7. QED
    BY <1>2, <1>3, <1>4, <1>5, <1>6 DEF page_fault_handler

\* Unmapping p and dropping its table, if no page in the table is mapped any
\* more, leaves every mapped page its table.
LEMMA KeptTables ==
    ASSUME NEW p \in Pages, NEW pt, NEW q \in Pages, pt[q].mapped,
           TableOf[q] \in tables,
           tables' = tables \ EmptyTables(pt, TableOf[p])
    PROVE  TableOf[q] \in tables'
  BY DEF EmptyTables

\* freeMem of an active page; the head of the second list is promoted.
LEMMA RemoveFromActiveAgree ==
    ASSUME WSInv, AgreeNow, NEW p \in Pages, NEW i \in DOMAIN ActiveList,
           RemoveFromActive(p, i), pf' = [pf EXCEPT ![p] = "none"]
    PROVE  AgreeNow'
  <1> DEFINE A == ToSet(ActiveList)
             S == ToSet(SecondList)
             h == Head(SecondList)
  <1>1. /\ ActiveList \in Seq(Pages) /\ SecondList \in Seq(Pages)
        /\ pte \in [Pages -> Entry]
        /\ A \cap S = {}
    BY DEF WSInv, TypeOK, AgreeNow, ListsAgree
  <1>2. /\ ActiveList[i] = p
        /\ pte' = [q \in Pages |->
                     IF q = p THEN Unmapped
                     ELSE IF SecondList # << >> /\ q = h
                          THEN [pte[q] EXCEPT !.present = TRUE]
                          ELSE pte[q]]
        /\ tables' = tables \ EmptyTables(pte', TableOf[p])
    BY DEF RemoveFromActive
  <1>3. /\ ToSet(RemoveAt(ActiveList, i)) = A \ {p} /\ p \in A
        /\ Distinct(RemoveAt(ActiveList, i))
        /\ RemoveAt(ActiveList, i) \in Seq(Pages)
    BY <1>1, <1>2, RemoveAtShape, RemoveAtElements DEF AgreeNow, ListsAgree
  <1>4. ~pte'[p].mapped /\ ~pte'[p].present
    BY <1>2 DEF Unmapped
  <1>5. \A q \in Pages : PageAgrees(q, A, S, pte[q], tables)
    BY DEF AgreeNow, ListsAgree
  <1>6. p \notin HeapPages
    BY <1>3, <1>5 DEF PageAgrees
  <1>7. CASE SecondList # << >>
    <2>1. /\ ActiveList' = Append(RemoveAt(ActiveList, i), h)
          /\ SecondList' = Tail(SecondList)
      BY <1>7 DEF RemoveFromActive
    <2>2. /\ h \in Pages /\ h \in S /\ h # p
          /\ Distinct(Tail(SecondList)) /\ ToSet(Tail(SecondList)) = S \ {h}
      BY <1>1, <1>3, <1>7, HeadElements DEF AgreeNow, ListsAgree
    <2>3. ToSet(ActiveList') = (A \ {p}) \cup {h} /\ Distinct(ActiveList')
      BY <1>1, <1>3, <2>1, <2>2, AppendElements
    <2>4. pte'[h].mapped = pte[h].mapped /\ pte'[h].present
      BY <1>1, <1>2, <1>7, <2>2 DEF Entry
    <2>5. \A q \in Pages : q # p /\ q # h => pte'[q] = pte[q]
      BY <1>2
    <2> HIDE DEF h
    <2>6. ASSUME NEW q \in Pages
          PROVE  PageAgrees(q, (A \ {p}) \cup {h}, S \ {h}, pte'[q], tables')
      <3>1. PageAgrees(q, A, S, pte[q], tables)
        BY <1>5
      <3>2. pte'[q].mapped => TableOf[q] \in tables'
        <4>1. pte'[q].mapped => TableOf[q] \in tables
          BY <1>4, <2>4, <2>5, <3>1 DEF PageAgrees
        <4>2. QED BY <1>2, <4>1, KeptTables
      <3>3. CASE q = p
        BY <1>1, <1>3, <1>4, <1>6, <2>2, <3>3 DEF PageAgrees
      <3>4. CASE q = h
        BY <1>1, <2>2, <2>4, <3>1, <3>2, <3>4 DEF PageAgrees
      <3>5. CASE q # p /\ q # h
        BY <2>5, <3>1, <3>2, <3>5 DEF PageAgrees
      <3>6. QED BY <3>3, <3>4, <3>5
    <2>7. ((A \ {p}) \cup {h}) \cap (S \ {h}) = {}
      BY <1>1
    <2>8. HeapInFile(pte', pf')
      <3>1. h \notin HeapPages
        BY <1>5, <2>2 DEF PageAgrees
      <3>2. \A q \in HeapPages : pf'[q] = pf[q]
        BY <1>6 DEF WSInv, TypeOK, Pages
      <3>3. QED
        BY <1>6, <2>5, <3>1, <3>2 DEF AgreeNow, HeapInFile, Pages
    <2>9. QED
      BY <2>1, <2>2, <2>3, <2>6, <2>7, <2>8 DEF AgreeNow, ListsAgree
  <1>8. CASE SecondList = << >>
    <2>1. ActiveList' = RemoveAt(ActiveList, i) /\ SecondList' = SecondList
      BY <1>8 DEF RemoveFromActive
    <2>2. \A q \in Pages : q # p => pte'[q] = pte[q]
      BY <1>2, <1>8
    <2>3. ASSUME NEW q \in Pages
          PROVE  PageAgrees(q, A \ {p}, S, pte'[q], tables')
      <3>1. PageAgrees(q, A, S, pte[q], tables)
        BY <1>5
      <3>2. pte'[q].mapped => TableOf[q] \in tables'
        <4>1. pte'[q].mapped => TableOf[q] \in tables
          BY <1>4, <2>2, <3>1 DEF PageAgrees
        <4>2. QED BY <1>2, <4>1, KeptTables
      <3>3. CASE q = p
        BY <1>1, <1>3, <1>4, <1>6, <3>3 DEF PageAgrees
      <3>4. CASE q # p
        BY <2>2, <3>1, <3>2, <3>4 DEF PageAgrees
      <3>5. QED BY <3>3, <3>4
    <2>4. HeapInFile(pte', pf')
      <3>1. \A q \in HeapPages : pf'[q] = pf[q]
        BY <1>6 DEF WSInv, TypeOK, Pages
      <3>2. QED BY <1>6, <2>2, <3>1 DEF AgreeNow, HeapInFile, Pages
    <2>5. QED
      BY <1>1, <1>3, <2>1, <2>3, <2>4 DEF AgreeNow, ListsAgree
  <1>9. QED BY <1>7, <1>8

\* freeMem of a page of the second list.
LEMMA RemoveFromSecondAgree ==
    ASSUME WSInv, AgreeNow, NEW p \in Pages, NEW i \in DOMAIN SecondList,
           RemoveFromSecond(p, i), pf' = [pf EXCEPT ![p] = "none"]
    PROVE  AgreeNow'
  <1> DEFINE A == ToSet(ActiveList)
             S == ToSet(SecondList)
  <1>1. /\ SecondList \in Seq(Pages) /\ pte \in [Pages -> Entry]
        /\ pf \in [Pages -> {"none", "current", "stale"}]
        /\ A \cap S = {}
    BY DEF WSInv, TypeOK, AgreeNow, ListsAgree
  <1>2. /\ SecondList[i] = p
        /\ pte' = [pte EXCEPT ![p] = Unmapped]
        /\ tables' = tables \ EmptyTables(pte', TableOf[p])
        /\ SecondList' = RemoveAt(SecondList, i) /\ ActiveList' = ActiveList
    BY DEF RemoveFromSecond
  <1>3. /\ ToSet(RemoveAt(SecondList, i)) = S \ {p} /\ p \in S
        /\ Distinct(RemoveAt(SecondList, i))
    BY <1>1, <1>2, RemoveAtElements DEF AgreeNow, ListsAgree
  <1>4. /\ ~pte'[p].mapped /\ ~pte'[p].present
        /\ \A q \in Pages : q # p => pte'[q] = pte[q] /\ pf'[q] = pf[q]
    BY <1>1, <1>2 DEF Unmapped
  <1>5. \A q \in Pages : PageAgrees(q, A, S, pte[q], tables)
    BY DEF AgreeNow, ListsAgree
  <1>6. p \notin HeapPages
    BY <1>3, <1>5 DEF PageAgrees
  <1>7. ASSUME NEW q \in Pages
        PROVE  PageAgrees(q, A, S \ {p}, pte'[q], tables')
    <2>1. PageAgrees(q, A, S, pte[q], tables)
      BY <1>5
    <2>2. pte'[q].mapped => TableOf[q] \in tables'
      <3>1. pte'[q].mapped => TableOf[q] \in tables
        BY <1>4, <2>1 DEF PageAgrees
      <3>2. QED BY <1>2, <3>1, KeptTables
    <2>3. CASE q = p
      BY <1>1, <1>3, <1>4, <1>6, <2>3 DEF PageAgrees
    <2>4. CASE q # p
      BY <1>4, <2>1, <2>2, <2>4 DEF PageAgrees
    <2>5. QED BY <2>3, <2>4
  <1>8. HeapInFile(pte', pf')
    BY <1>4, <1>6 DEF AgreeNow, HeapInFile, Pages
  <1>9. QED
    BY <1>1, <1>2, <1>3, <1>7, <1>8 DEF AgreeNow, ListsAgree

\* freeMem of a page in neither list releases its place in the page file only.
LEMMA FreeAgree ==
    ASSUME WSInv, AgreeNow, NEW p \in Pages, FreeMem(p)
    PROVE  AgreeNow'
  <1>1. pf' = [pf EXCEPT ![p] = "none"]
    BY DEF FreeMem
  <1>2. CASE \E i \in DOMAIN ActiveList : RemoveFromActive(p, i)
    BY <1>1, <1>2, RemoveFromActiveAgree
  <1>3. CASE \E i \in DOMAIN SecondList : RemoveFromSecond(p, i)
    BY <1>1, <1>3, RemoveFromSecondAgree
  <1>4. CASE UNCHANGED <<PageWorkingSetList, ActiveList, SecondList, pte,
                         tables, freeFrames>>
    <2>1. \A q \in HeapPages : pf'[q] # "none" => pf[q] # "none"
      BY <1>1 DEF WSInv, TypeOK, Pages
    <2>2. QED BY <1>4, <2>1 DEF AgreeNow, ListsAgree, HeapInFile
  <1>5. QED
    BY <1>2, <1>3, <1>4 DEF FreeMem

\* allocateMem maps a heap page that enters no list.
LEMMA AllocateAgree ==
    ASSUME WSInv, AgreeNow, NEW p \in HeapPages, AllocateMem(p)
    PROVE  AgreeNow'
  <1>1. /\ UNCHANGED <<ActiveList, SecondList>>
        /\ tables' = tables \cup {TableOf[p]}
        /\ p \in Pages
    BY DEF AllocateMem, Pages
  <1>2. /\ pte'[p].mapped /\ pte'[p].present
        /\ \A q \in Pages : q # p => pte'[q] = pte[q] /\ pf'[q] = pf[q]
    BY <1>1 DEF AllocateMem, WSInv, TypeOK, OnNewFrame, Unmapped
  <1>3. ASSUME NEW q \in Pages
        PROVE  PageAgrees(q, ToSet(ActiveList), ToSet(SecondList), pte'[q],
                          tables')
    BY <1>1, <1>2 DEF AgreeNow, ListsAgree, PageAgrees
  <1>4. HeapInFile(pte', pf')
    BY <1>2 DEF AgreeNow, HeapInFile, Pages
  <1>5. QED
    BY <1>1, <1>3, <1>4 DEF AgreeNow, ListsAgree

\* A store changes neither what is mapped nor what the page file holds.
LEMMA StoreAgree ==
    ASSUME WSInv, AgreeNow, NEW p \in Pages, Store(p)
    PROVE  AgreeNow'
  <1>1. UNCHANGED <<ActiveList, SecondList, tables>>
    BY DEF Store
  <1>2. \A q \in Pages : /\ pte'[q].mapped = pte[q].mapped
                         /\ pte'[q].present = pte[q].present
                         /\ pf'[q] # "none" => pf[q] # "none"
    BY DEF Store, WSInv, TypeOK, Entry
  <1>3. ASSUME NEW q \in Pages
        PROVE  PageAgrees(q, ToSet(ActiveList), ToSet(SecondList), pte'[q],
                          tables)
    BY <1>2 DEF AgreeNow, ListsAgree, PageAgrees
  <1>4. HeapInFile(pte', pf')
    BY <1>2 DEF AgreeNow, HeapInFile, Pages
  <1>5. QED
    BY <1>1, <1>3, <1>4 DEF AgreeNow, ListsAgree

\* Every step of a living environment keeps the agreement, unless it dies.
LEMMA NextResInv == ResInv /\ [Next]_vars => ResInv'
  <1> SUFFICES ASSUME ResInv, [Next]_vars, status' = "alive"
               PROVE  AgreeNow'
    BY NextWSInv DEF ResInv
  <1>1. WSInv /\ (status = "alive" => AgreeNow)
    BY DEF ResInv
  <1>2. ASSUME NEW S \in SUBSET Pages, Issue(S) PROVE AgreeNow'
    BY <1>1, <1>2 DEF Issue, AgreeNow, ListsAgree, HeapInFile
  <1>3. CASE Load
    BY <1>1, <1>3 DEF Load, CanExecute, AgreeNow, ListsAgree, HeapInFile
  <1>4. ASSUME NEW p \in Pages, Store(p) PROVE AgreeNow'
    BY <1>1, <1>4, StoreAgree DEF Store, CanExecute
  <1>5. ASSUME NEW p \in Pages, table_fault_handler(p) PROVE AgreeNow'
    <2>1. /\ AgreeNow /\ tables \subseteq tables'
          /\ UNCHANGED <<ActiveList, SecondList, pte, pf>>
      BY <1>1, <1>5 DEF table_fault_handler, Faulting
    <2>2. ASSUME NEW q \in Pages
          PROVE  PageAgrees(q, ToSet(ActiveList), ToSet(SecondList), pte[q],
                            tables')
      BY <2>1 DEF AgreeNow, ListsAgree, PageAgrees
    <2>3. QED BY <2>1, <2>2 DEF AgreeNow, ListsAgree, HeapInFile
  <1>6. ASSUME NEW p \in Pages, page_fault_handler(p) PROVE AgreeNow'
    <2>1. status = "alive"
      BY <1>6 DEF page_fault_handler, PlaceInActive, SecondChance,
                  DemoteAndPlace, ReplaceActive, ReplaceSecond, PageFaulting,
                  Faulting
    <2>2. QED BY <1>1, <1>6, <2>1, FaultAgree
  <1>7. ASSUME NEW p \in HeapPages, AllocateMem(p) PROVE AgreeNow'
    BY <1>1, <1>7, AllocateAgree DEF AllocateMem, InSyscall
  <1>8. ASSUME NEW p \in HeapPages, AllocateMemFails(p) PROVE FALSE
    BY <1>8 DEF AllocateMemFails, Die
  <1>9. ASSUME NEW p \in Pages, FreeMem(p) PROVE AgreeNow'
    BY <1>1, <1>9, FreeAgree DEF FreeMem, InSyscall
  <1>10. ~Exit /\ ~EnvFree
    BY DEF Exit, Die, EnvFree
  <1>11. CASE UNCHANGED vars
    BY <1>1, <1>11 DEF vars, AgreeNow, ListsAgree, HeapInFile
  <1>12. QED
    BY <1>2, <1>3, <1>4, <1>5, <1>6, <1>7, <1>8, <1>9, <1>10, <1>11
       DEF Next, CPU

\* The lists and the PRESENT bits never disagree while the environment lives:
\* no page is in a list twice, and no page is in memory that no list and no
\* allocateMem accounts for.
THEOREM ResidencyCorrect == Spec => []Residency
  <1>1. Spec => []ResInv
    BY InitResInv, NextResInv, PTL DEF Spec
  <1>2. QED BY <1>1, ResidencyFromLists, PTL

-----------------------------------------------------------------------------
(***************************************************************************)
(* The two lists implement one LRU stack: LRUStack's refinement, step by   *)
(* step.                                                                   *)
(***************************************************************************)
Stack == ActiveList \o SecondList

\* A page that is in neither list can be put on the stack.
LEMMA StackFacts ==
    ASSUME WSInv, status = "alive"
    PROVE  /\ ActiveList \in Seq(Pages) /\ SecondList \in Seq(Pages)
           /\ Stack \in Seq(Pages)
           /\ Len(Stack) = Len(ActiveList) + Len(SecondList)
           /\ Len(Stack) = WSSize - PageWorkingSetList
           /\ PageWorkingSetList \in Nat /\ WSSize \in Nat
           /\ ToSet(Stack) = ToSet(ActiveList) \cup ToSet(SecondList)
  <1>1. /\ ActiveList \in Seq(Pages) /\ SecondList \in Seq(Pages)
        /\ PageWorkingSetList \in Nat
        /\ PageWorkingSetList + Len(ActiveList) + Len(SecondList) = WSSize
        /\ ActiveListSize \in Nat /\ SecondListSize \in Nat
    BY SizeAssumption DEF WSInv, TypeOK, ListsFull
  <1>2. /\ Stack \in Seq(Pages)
        /\ Len(Stack) = Len(ActiveList) + Len(SecondList)
        /\ ToSet(Stack) = ToSet(ActiveList) \cup ToSet(SecondList)
    BY <1>1, ConcatProperties, ConcatElements DEF Stack
  <1>3. Len(ActiveList) \in Nat /\ Len(SecondList) \in Nat
    BY <1>1, LenProperties
  <1>4. QED
    BY <1>1, <1>2, <1>3

\* A fault that is served puts the page on top of what the branch has left of
\* the stack, and a fault that kills the environment leaves it at that.
LEMMA PlaceStack ==
    ASSUME NEW p \in Pages, NEW ws, MemoryOK(ws), PlacePage(p, ws)
    PROVE  \/ Stack' = Cons(p, ws.ActiveList \o ws.SecondList)
           \/ Stack' = ws.ActiveList \o ws.SecondList
  <1>1. /\ SecondList' = ws.SecondList
        /\ ActiveList' = Cons(p, ws.ActiveList) \/ ActiveList' = ws.ActiveList
    BY DEF PlacePage, PlaceFromPageFile, PlaceNewStackPage, IllegalAccess,
           OutOfFrames
  <1>2. Cons(p, ws.ActiveList) \o ws.SecondList =
          Cons(p, ws.ActiveList \o ws.SecondList)
    BY ConsConcat DEF MemoryOK
  <1>3. QED
    BY <1>1, <1>2 DEF Stack

\* The steps of the abstract stack, in terms of the two lists end to end: a
\* page loaded into a free element goes on top,
LEMMA LoadStep ==
    ASSUME NEW p \in Pages, p \notin ToSet(Stack), Len(Stack) < WSSize,
           Stack' = Cons(p, Stack)
    PROVE  LRU!Next
  <1>1. LRU!Load(p)
    BY DEF LRU!Load, LRU!ToSet, LRU!Cons, ToSet, Cons, Stack
  <1>2. QED
    BY <1>1 DEF LRU!Next

\* with every element taken, in place of the oldest page,
LEMMA ReplaceStep ==
    ASSUME NEW p \in Pages, p \notin ToSet(Stack), Stack # << >>,
           Len(Stack) = WSSize, Stack' = Cons(p, Front(Stack))
    PROVE  LRU!Next
  <1>1. LRU!Replace(p)
    BY DEF LRU!Replace, LRU!ToSet, LRU!Cons, LRU!Front, ToSet, Cons, Front,
           Stack
  <1>2. QED
    BY <1>1 DEF LRU!Next

\* or the oldest page goes and the environment dies;
LEMMA AbortStep ==
    ASSUME Stack # << >>, Stack' = Front(Stack)
    PROVE  LRU!Next
  <1>1. LRU!Abort
    BY DEF LRU!Abort, LRU!Front, Front, Stack
  <1>2. QED
    BY <1>1 DEF LRU!Next

\* a page of the stack that faults moves to the top,
LEMMA RefaultStep ==
    ASSUME NEW i \in DOMAIN Stack,
           Stack' = Cons(Stack[i], RemoveAt(Stack, i))
    PROVE  LRU!Next
  <1>1. LRU!Refault(i)
    BY DEF LRU!Refault, LRU!Cons, LRU!RemoveAt, Cons, RemoveAt, Stack
  <1>2. i \in DOMAIN (ActiveList \o SecondList)
    BY DEF Stack
  <1>3. QED
    BY <1>1, <1>2 DEF LRU!Next

\* and a page that is released leaves the others in order.
LEMMA DiscardStep ==
    ASSUME NEW i \in DOMAIN Stack, Stack' = RemoveAt(Stack, i)
    PROVE  LRU!Next
  <1>1. LRU!Discard(i)
    BY DEF LRU!Discard, LRU!RemoveAt, RemoveAt, Stack
  <1>2. i \in DOMAIN (ActiveList \o SecondList)
    BY DEF Stack
  <1>3. QED
    BY <1>1, <1>2 DEF LRU!Next

\* A page fault is a step of the LRU stack: a refault, a load into a free
\* element, or the replacement of the oldest page.
LEMMA FaultStack ==
    ASSUME WSInv, AgreeNow, NEW p \in Pages, page_fault_handler(p)
    PROVE  LRU!Next \/ Stack' = Stack
  <1>1. /\ TypeOK /\ ListsFull /\ status = "alive" /\ PageFaulting(p)
        /\ ActiveList \in Seq(Pages) /\ SecondList \in Seq(Pages)
        /\ Stack \in Seq(Pages)
        /\ Len(Stack) = WSSize - PageWorkingSetList
        /\ PageWorkingSetList \in Nat /\ WSSize \in Nat
        /\ ToSet(Stack) = ToSet(ActiveList) \cup ToSet(SecondList)
    BY StackFacts
       DEF WSInv, page_fault_handler, PlaceInActive, SecondChance,
           DemoteAndPlace, ReplaceActive, ReplaceSecond, PageFaulting,
           Faulting
  <1>2. p \notin ToSet(SecondList) \/ ~ActiveFull => p \notin ToSet(Stack)
    <2>1. PageAgrees(p, ToSet(ActiveList), ToSet(SecondList), pte[p], tables)
      BY DEF AgreeNow, ListsAgree
    <2>2. QED BY <1>1, <2>1, FaultingUnmapped DEF PageAgrees
  <1>3. ASSUME p \notin ToSet(Stack), PageWorkingSetList # 0,
               \/ Stack' = Cons(p, Stack)
               \/ Stack' = Stack
        PROVE  LRU!Next \/ Stack' = Stack
    <2>1. Len(Stack) < WSSize
      BY <1>1, <1>3
    <2>2. QED BY <1>3, <2>1, LoadStep
  <1>4. ASSUME p \notin ToSet(Stack), PageWorkingSetList = 0, Stack # << >>,
               \/ Stack' = Cons(p, Front(Stack))
               \/ Stack' = Front(Stack)
        PROVE  LRU!Next \/ Stack' = Stack
    <2>1. Len(Stack) = WSSize
      BY <1>1, <1>4
    <2>2. QED BY <1>4, <2>1, ReplaceStep, AbortStep
  <1>5. CASE PlaceInActive(p)
    <2>1. PageWorkingSetList # 0 /\ ~ActiveFull /\ PlacePage(p, AfterTake)
      BY <1>5 DEF PlaceInActive, AfterTake
    <2>2. /\ MemoryOK(AfterTake)
          /\ AfterTake.ActiveList \o AfterTake.SecondList = Stack
      BY <1>1, <2>1, AfterTakeMemory DEF Stack
    <2>3. QED BY <1>2, <1>3, <2>1, <2>2, PlaceStack
  <1>6. CASE SecondChance(p)
    <2> DEFINE tail == Last(ActiveList)
    <2>1. ActiveList # << >>
      BY <1>1, <1>6, TailsExist DEF SecondChance
    <2>2. PICK i \in DOMAIN SecondList :
            /\ SecondList[i] = p
            /\ ActiveList' = Cons(p, Front(ActiveList))
            /\ SecondList' = Cons(tail, RemoveAt(SecondList, i))
      BY <1>6 DEF SecondChance
    <2> DEFINE rest == RemoveAt(SecondList, i)
               k == Len(ActiveList) + i
    <2>3. /\ Front(ActiveList) \in Seq(Pages) /\ tail \in Pages
          /\ rest \in Seq(Pages) /\ Cons(tail, rest) \in Seq(Pages)
      BY <1>1, <2>1, FrontShape, RemoveAtShape, ConsShape
    <2>4. Front(ActiveList) \o Cons(tail, rest) = ActiveList \o rest
      BY <1>1, <2>1, <2>3, TailMoves
    <2>5. /\ RemoveAt(Stack, k) = ActiveList \o rest
          /\ k \in DOMAIN Stack /\ Stack[k] = p
      BY <1>1, <2>2, ConcatRemoveAt DEF Stack
    <2>6. Stack' = Cons(p, Front(ActiveList) \o Cons(tail, rest))
      BY <2>2, <2>3, ConsConcat DEF Stack
    <2> HIDE DEF tail, rest, k
    <2>7. Stack' = Cons(Stack[k], RemoveAt(Stack, k))
      BY <2>4, <2>5, <2>6
    <2>8. QED BY <2>5, <2>7, RefaultStep
  <1>7. CASE DemoteAndPlace(p)
    <2>1. /\ PageWorkingSetList # 0 /\ PlacePage(p, AfterDemote)
          /\ ActiveList # << >> /\ p \notin ToSet(SecondList)
      BY <1>1, <1>7, TailsExist DEF DemoteAndPlace, AfterDemote
    <2>2. /\ MemoryOK(AfterDemote)
          /\ AfterDemote.ActiveList = Front(ActiveList)
          /\ AfterDemote.SecondList = Cons(Last(ActiveList), SecondList)
      BY <1>1, <2>1, AfterDemoteMemory
    <2>3. AfterDemote.ActiveList \o AfterDemote.SecondList = Stack
      BY <1>1, <2>1, <2>2, TailMoves DEF Stack
    <2>4. QED BY <1>2, <1>3, <2>1, <2>2, <2>3, PlaceStack
  <1>8. CASE ReplaceActive(p)
    <2>1. /\ PageWorkingSetList = 0 /\ SecondListSize = 0
          /\ PlacePage(p, AfterActiveEviction)
          /\ ActiveList # << >> /\ p \notin ToSet(SecondList)
      BY <1>1, <1>8, TailsExist DEF ReplaceActive, AfterActiveEviction
    <2>2. /\ MemoryOK(AfterActiveEviction)
          /\ AfterActiveEviction.ActiveList = Front(ActiveList)
          /\ AfterActiveEviction.SecondList = SecondList
      BY <1>1, <2>1, AfterActiveEvictionMemory
    <2>3. SecondList = << >>
      BY <1>1, <2>1, EmptySeq DEF ListsFull
    <2>4. /\ Stack = ActiveList
          /\ Front(ActiveList) \o << >> = Front(ActiveList)
      BY <1>1, <2>1, <2>3, ConcatEmptySeq, FrontShape DEF Stack
    <2>5. AfterActiveEviction.ActiveList \o AfterActiveEviction.SecondList
            = Front(Stack)
      BY <2>2, <2>3, <2>4
    <2>6. QED BY <1>2, <1>4, <2>1, <2>2, <2>4, <2>5, PlaceStack
  <1>9. CASE ReplaceSecond(p)
    <2>1. /\ PageWorkingSetList = 0
          /\ PlacePage(p, AfterSecondEviction)
          /\ ActiveList # << >> /\ SecondList # << >>
          /\ p \notin ToSet(SecondList)
      BY <1>1, <1>9, TailsExist DEF ReplaceSecond, AfterSecondEviction
    <2>2. /\ MemoryOK(AfterSecondEviction)
          /\ AfterSecondEviction.ActiveList = Front(ActiveList)
          /\ AfterSecondEviction.SecondList =
               Cons(Last(ActiveList), Front(SecondList))
      BY <1>1, <2>1, AfterSecondEvictionMemory
    <2>3. Front(SecondList) \in Seq(Pages)
      BY <1>1, <2>1, FrontShape
    <2>4. AfterSecondEviction.ActiveList \o AfterSecondEviction.SecondList
            = ActiveList \o Front(SecondList)
      BY <1>1, <2>1, <2>2, <2>3, TailMoves
    <2>5. Front(Stack) = ActiveList \o Front(SecondList) /\ Stack # << >>
      BY <1>1, <2>1, FrontConcat DEF Stack
    <2>6. QED BY <1>2, <1>4, <2>1, <2>2, <2>4, <2>5, PlaceStack
  <1>10. QED
    BY <1>5, <1>6, <1>7, <1>8, <1>9 DEF page_fault_handler

\* freeMem takes its page out of the stack and moves no other.
LEMMA FreeStack ==
    ASSUME WSInv, NEW p \in Pages, FreeMem(p)
    PROVE  LRU!Next \/ Stack' = Stack
  <1>1. ActiveList \in Seq(Pages) /\ SecondList \in Seq(Pages)
    BY DEF WSInv, TypeOK
  <1>2. CASE \E i \in DOMAIN ActiveList : RemoveFromActive(p, i)
    <2>1. PICK i \in DOMAIN ActiveList : RemoveFromActive(p, i)
      BY <1>2
    <2> DEFINE rest == RemoveAt(ActiveList, i)
    <2>2. /\ rest \in Seq(Pages)
          /\ RemoveAt(Stack, i) = rest \o SecondList
          /\ i \in DOMAIN Stack
      BY <1>1, RemoveAtShape, RemoveAtConcat DEF Stack
    <2>3. Stack' = rest \o SecondList
      <3>1. CASE SecondList # << >>
        <4>1. /\ ActiveList' = Append(rest, Head(SecondList))
              /\ SecondList' = Tail(SecondList)
          BY <2>1, <3>1 DEF RemoveFromActive
        <4> HIDE DEF rest
        <4>2. QED BY <1>1, <2>2, <3>1, <4>1, HeadMoves DEF Stack
      <3>2. CASE SecondList = << >>
        BY <2>1, <3>2 DEF RemoveFromActive, Stack
      <3>3. QED BY <3>1, <3>2
    <2>4. QED BY <2>2, <2>3, DiscardStep
  <1>3. CASE \E i \in DOMAIN SecondList : RemoveFromSecond(p, i)
    <2>1. PICK i \in DOMAIN SecondList : RemoveFromSecond(p, i)
      BY <1>3
    <2>2. /\ RemoveAt(Stack, Len(ActiveList) + i)
               = ActiveList \o RemoveAt(SecondList, i)
          /\ Len(ActiveList) + i \in DOMAIN Stack
      BY <1>1, ConcatRemoveAt DEF Stack
    <2>3. Stack' = ActiveList \o RemoveAt(SecondList, i)
      BY <2>1 DEF RemoveFromSecond, Stack
    <2>4. QED BY <2>2, <2>3, DiscardStep
  <1>4. CASE UNCHANGED <<ActiveList, SecondList>>
    BY <1>4 DEF Stack
  <1>5. QED
    BY <1>2, <1>3, <1>4 DEF FreeMem

\* Every other step leaves the stack alone, or empties it (env_free).
LEMMA NextStack ==
    ASSUME ResInv, [Next]_vars
    PROVE  LRU!Next \/ Stack' = Stack
  <1>1. WSInv /\ (status = "alive" => AgreeNow)
    BY DEF ResInv
  <1>2. CASE UNCHANGED <<ActiveList, SecondList>>
    BY <1>2 DEF Stack
  <1>3. ASSUME NEW p \in Pages, page_fault_handler(p)
        PROVE  LRU!Next \/ Stack' = Stack
    <2>1. status = "alive"
      BY <1>3 DEF page_fault_handler, PlaceInActive, SecondChance,
                  DemoteAndPlace, ReplaceActive, ReplaceSecond, PageFaulting,
                  Faulting
    <2>2. QED BY <1>1, <1>3, <2>1, FaultStack
  <1>4. ASSUME NEW p \in Pages, FreeMem(p)
        PROVE  LRU!Next \/ Stack' = Stack
    BY <1>1, <1>4, FreeStack
  <1>5. CASE EnvFree
    <2>1. ActiveList' = << >> /\ SecondList' = << >>
      BY <1>5 DEF EnvFree
    <2>2. Stack' = << >>
      BY <2>1, ConcatEmptySeq, EmptySeq DEF Stack
    <2>3. LRU!Clear
      BY <2>2 DEF LRU!Clear, Stack
    <2>4. QED BY <2>3 DEF LRU!Next
  <1>6. QED
    BY <1>2, <1>3, <1>4, <1>5
       DEF Next, CPU, Issue, Load, Store, table_fault_handler, AllocateMem,
           AllocateMemFails, Exit, vars

\* The stack env_create leaves fits the working set.
LEMMA InitStack == Init => LRU!Init
  <1> SUFFICES ASSUME Init PROVE LRU!Init
    OBVIOUS
  <1>1. WSInv /\ status = "alive"
    BY InitWSInv DEF Init
  <1>2. /\ Stack \in Seq(Pages) /\ Len(Stack) = WSSize - PageWorkingSetList
        /\ PageWorkingSetList \in Nat /\ WSSize \in Nat
    BY <1>1, StackFacts
  <1>3. Len(Stack) <= WSSize
    BY <1>2
  <1>4. QED
    BY <1>2, <1>3 DEF LRU!Init, Stack

\* The second list is no queue of its own: end to end, the two lists are one
\* LRU stack whatever the program does, so a replacement always takes the page
\* that was faulted longest ago.
THEOREM LRUOrderCorrect == Spec => LRUOrder
  <1>1. ResInv /\ [Next]_vars => [LRU!Next]_(ActiveList \o SecondList)
    BY NextStack DEF Stack
  <1>2. QED
    BY InitResInv, NextResInv, InitStack, <1>1, PTL DEF Spec, LRUOrder, LRU!Spec

-----------------------------------------------------------------------------
(***************************************************************************)
(* Counting.                                                               *)
(***************************************************************************)
\* A page table in which only the entry of p changed maps the same pages, one
\* more or one less.
LEMMA MappedCount ==
    ASSUME NEW pt \in [Pages -> Entry], NEW pt2 \in [Pages -> Entry],
           NEW p \in Pages,
           \A q \in Pages : q # p => pt2[q].mapped = pt[q].mapped
    PROVE  /\ Cardinality(Mapped(pt)) \in Nat
           /\ Cardinality(Mapped(pt2)) \in Nat
           /\ pt2[p].mapped = pt[p].mapped => Mapped(pt2) = Mapped(pt)
           /\ pt2[p].mapped /\ ~pt[p].mapped =>
                Cardinality(Mapped(pt2)) = Cardinality(Mapped(pt)) + 1
           /\ ~pt2[p].mapped /\ pt[p].mapped =>
                Cardinality(Mapped(pt2)) = Cardinality(Mapped(pt)) - 1
  <1>1. /\ Mapped(pt) = {q \in Pages : pt[q].mapped}
        /\ Mapped(pt2) = {q \in Pages : pt2[q].mapped}
    BY DEF Mapped
  <1>2. IsFiniteSet(Mapped(pt)) /\ IsFiniteSet(Mapped(pt2))
    BY <1>1, PagesFinite, FS_Subset
  <1>3. pt2[p].mapped = pt[p].mapped => Mapped(pt2) = Mapped(pt)
    BY <1>1
  <1>4. ASSUME pt2[p].mapped, ~pt[p].mapped
        PROVE  Cardinality(Mapped(pt2)) = Cardinality(Mapped(pt)) + 1
    <2>1. Mapped(pt2) = Mapped(pt) \cup {p} /\ p \notin Mapped(pt)
      BY <1>1, <1>4
    <2>2. QED BY <1>2, <2>1, FS_AddElement
  <1>5. ASSUME ~pt2[p].mapped, pt[p].mapped
        PROVE  Cardinality(Mapped(pt2)) = Cardinality(Mapped(pt)) - 1
    <2>1. Mapped(pt2) = Mapped(pt) \ {p} /\ p \in Mapped(pt)
      BY <1>1, <1>5
    <2>2. QED BY <1>2, <2>1, FS_RemoveElement
  <1>6. QED
    BY <1>2, <1>3, <1>4, <1>5, FS_CardinalityType

\* The same for the places of the page file.
LEMMA SlotCount ==
    ASSUME NEW f, NEW f2, NEW p \in Pages,
           DOMAIN f = Pages, DOMAIN f2 = Pages,
           \A q \in Pages : q # p => (f2[q] = "none" <=> f[q] = "none")
    PROVE  /\ Cardinality(Slots(f)) \in Nat
           /\ Cardinality(Slots(f2)) \in Nat
           /\ (f2[p] = "none" <=> f[p] = "none") => Slots(f2) = Slots(f)
           /\ f2[p] # "none" /\ f[p] = "none" =>
                Cardinality(Slots(f2)) = Cardinality(Slots(f)) + 1
           /\ f2[p] = "none" /\ f[p] # "none" =>
                Cardinality(Slots(f2)) = Cardinality(Slots(f)) - 1
  <1>1. /\ Slots(f) = {q \in Pages : f[q] # "none"}
        /\ Slots(f2) = {q \in Pages : f2[q] # "none"}
    BY DEF Slots
  <1>2. IsFiniteSet(Slots(f)) /\ IsFiniteSet(Slots(f2))
    BY <1>1, PagesFinite, FS_Subset
  <1>3. (f2[p] = "none" <=> f[p] = "none") => Slots(f2) = Slots(f)
    BY <1>1
  <1>4. ASSUME f2[p] # "none", f[p] = "none"
        PROVE  Cardinality(Slots(f2)) = Cardinality(Slots(f)) + 1
    <2>1. Slots(f2) = Slots(f) \cup {p} /\ p \notin Slots(f)
      BY <1>1, <1>4
    <2>2. QED BY <1>2, <2>1, FS_AddElement
  <1>5. ASSUME f2[p] = "none", f[p] # "none"
        PROVE  Cardinality(Slots(f2)) = Cardinality(Slots(f)) - 1
    <2>1. Slots(f2) = Slots(f) \ {p} /\ p \in Slots(f)
      BY <1>1, <1>5
    <2>2. QED BY <1>2, <2>1, FS_RemoveElement
  <1>6. QED
    BY <1>2, <1>3, <1>4, <1>5, FS_CardinalityType

\* One more page table, unless it was there.
LEMMA TableCount ==
    ASSUME NEW T, T \subseteq Tables, NEW t \in Tables
    PROVE  /\ Cardinality(T) \in Nat
           /\ Cardinality(T \cup {t}) =
                Cardinality(T) + (IF t \in T THEN 0 ELSE 1)
           /\ Cardinality(T \ {t}) =
                Cardinality(T) - (IF t \in T THEN 1 ELSE 0)
  <1>1. IsFiniteSet(T)
    BY PagesFinite, FS_Subset
  <1>2. Cardinality(T) \in Nat
    BY <1>1, FS_CardinalityType
  <1>3. Cardinality(T \cup {t}) = Cardinality(T) + (IF t \in T THEN 0 ELSE 1)
    BY <1>1, <1>2, FS_AddElement
  <1>4. Cardinality(T \ {t}) = Cardinality(T) - (IF t \in T THEN 1 ELSE 0)
    <2>1. Cardinality(T \ {t}) =
            IF t \in T THEN Cardinality(T) - 1 ELSE Cardinality(T)
      BY <1>1, FS_RemoveElement
    <2>2. QED BY <1>2, <2>1
  <1>5. QED BY <1>2, <1>3, <1>4

-----------------------------------------------------------------------------
(***************************************************************************)
(* The page file.                                                          *)
(***************************************************************************)
\* Writing a victim back changes no place of the page file, only its contents.
LEMMA PlaceDisk ==
    ASSUME TypeOK, DiskConservation, NEW p \in Pages, NEW ws, MemoryOK(ws),
           Slots(ws.pf) = Slots(pf), PlacePage(p, ws)
    PROVE  DiskConservation'
  <1>1. CASE pf' = ws.pf /\ freeDisk' = freeDisk
    BY <1>1 DEF DiskConservation
  <1>2. CASE /\ freeDisk > 0 /\ ws.pf[p] = "none"
             /\ pf' = [ws.pf EXCEPT ![p] = "stale"]
             /\ freeDisk' = freeDisk - 1
    <2>1. /\ DOMAIN ws.pf = Pages /\ DOMAIN pf' = Pages
          /\ pf'[p] # "none" /\ ws.pf[p] = "none"
          /\ \A q \in Pages : q # p => pf'[q] = ws.pf[q]
      BY <1>2 DEF MemoryOK
    <2>2. /\ Cardinality(Slots(ws.pf)) \in Nat
          /\ Cardinality(Slots(pf')) = Cardinality(Slots(ws.pf)) + 1
      BY <2>1, SlotCount
    <2>3. QED
      BY <1>2, <2>2 DEF DiskConservation, TypeOK
  <1>3. QED
    BY <1>1, <1>2 DEF PlacePage, PlaceFromPageFile, PlaceNewStackPage,
                      IllegalAccess, OutOfFrames

\* The page file keeps its places over a page fault, served or not.
LEMMA FaultDisk ==
    ASSUME WSInv, DiskConservation, NEW p \in Pages, page_fault_handler(p)
    PROVE  DiskConservation'
  <1>1. /\ TypeOK /\ ListsFull /\ status = "alive"
        /\ pf \in [Pages -> {"none", "current", "stale"}]
        /\ pte \in [Pages -> Entry]
    BY DEF WSInv, page_fault_handler, PlaceInActive, SecondChance, TypeOK,
           DemoteAndPlace, ReplaceActive, ReplaceSecond, PageFaulting, Faulting
  <1>2. ASSUME NEW v \in Pages
        PROVE  Slots([pf EXCEPT ![v] = IF pte[v].modified /\ @ # "none"
                                       THEN pte[v].data ELSE @]) = Slots(pf)
    <2>1. pte[v].data # "none"
      BY <1>1 DEF Entry
    <2>2. QED BY <1>1, <2>1 DEF Slots
  <1>3. CASE PlaceInActive(p)
    BY <1>1, <1>3, AfterTakeMemory, PlaceDisk DEF PlaceInActive, AfterTake
  <1>4. CASE SecondChance(p)
    BY <1>4 DEF SecondChance, DiskConservation
  <1>5. CASE DemoteAndPlace(p)
    <2>1. /\ PageWorkingSetList # 0 /\ PlacePage(p, AfterDemote)
          /\ ActiveList # << >>
      BY <1>1, <1>5, TailsExist DEF DemoteAndPlace, AfterDemote
    <2>2. QED BY <1>1, <2>1, AfterDemoteMemory, PlaceDisk
  <1>6. CASE ReplaceActive(p)
    <2>1. PlacePage(p, AfterActiveEviction) /\ ActiveList # << >>
      BY <1>1, <1>6, TailsExist DEF ReplaceActive, AfterActiveEviction
    <2>2. Last(ActiveList) \in Pages
      BY <1>1, <2>1, FrontShape DEF TypeOK
    <2>3. /\ MemoryOK(AfterActiveEviction)
          /\ Slots(AfterActiveEviction.pf) = Slots(pf)
      <3> DEFINE v == Last(ActiveList)
      <3>1. /\ MemoryOK(AfterActiveEviction)
            /\ AfterActiveEviction.pf =
                 [pf EXCEPT ![v] = IF pte[v].modified /\ @ # "none"
                                   THEN pte[v].data ELSE @]
        BY <1>1, <2>1, AfterActiveEvictionMemory
      <3> HIDE DEF v
      <3>2. QED BY <1>2, <2>2, <3>1 DEF v
    <2>4. QED BY <1>1, <2>1, <2>3, PlaceDisk
  <1>7. CASE ReplaceSecond(p)
    <2>1. /\ PlacePage(p, AfterSecondEviction)
          /\ ActiveList # << >> /\ SecondList # << >>
      BY <1>1, <1>7, TailsExist DEF ReplaceSecond, AfterSecondEviction
    <2>2. Last(SecondList) \in Pages
      BY <1>1, <2>1, FrontShape DEF TypeOK
    <2>3. /\ MemoryOK(AfterSecondEviction)
          /\ Slots(AfterSecondEviction.pf) = Slots(pf)
      <3> DEFINE v == Last(SecondList)
      <3>1. /\ MemoryOK(AfterSecondEviction)
            /\ AfterSecondEviction.pf =
                 [pf EXCEPT ![v] = IF pte[v].modified /\ @ # "none"
                                   THEN pte[v].data ELSE @]
        BY <1>1, <2>1, AfterSecondEvictionMemory
      <3> HIDE DEF v
      <3>2. QED BY <1>2, <2>2, <3>1 DEF v
    <2>4. QED BY <1>1, <2>1, <2>3, PlaceDisk
  <1>8. QED
    BY <1>3, <1>4, <1>5, <1>6, <1>7 DEF page_fault_handler

\* No step loses a place of the page file, not even one that panics half way.
LEMMA NextDisk ==
    WSInv /\ DiskConservation /\ [Next]_vars => DiskConservation'
  <1> SUFFICES ASSUME WSInv, DiskConservation, [Next]_vars
               PROVE  DiskConservation'
    OBVIOUS
  <1>1. /\ TypeOK /\ pf \in [Pages -> {"none", "current", "stale"}]
        /\ freeDisk \in Nat /\ NumDiskFrames \in Nat
    BY SizeAssumption DEF WSInv, TypeOK
  <1>2. ASSUME UNCHANGED <<pf, freeDisk>> PROVE DiskConservation'
    BY <1>2 DEF DiskConservation
  <1>3. ASSUME NEW p \in Pages, Store(p) PROVE DiskConservation'
    <2>1. /\ DOMAIN pf = Pages /\ DOMAIN pf' = Pages
          /\ \A q \in Pages : pf'[q] = "none" <=> pf[q] = "none"
      BY <1>1, <1>3 DEF Store
    <2>2. Slots(pf') = Slots(pf)
      BY <2>1 DEF Slots
    <2>3. QED BY <1>3, <2>2 DEF Store, DiskConservation
  <1>4. ASSUME NEW p \in HeapPages,
               pf' = [pf EXCEPT ![p] = IF @ = "none" THEN "stale" ELSE @],
               freeDisk' = freeDisk - (IF pf[p] = "none" THEN 1 ELSE 0)
        PROVE  DiskConservation'
    <2>1. /\ DOMAIN pf = Pages /\ DOMAIN pf' = Pages
          /\ p \in Pages /\ pf'[p] # "none"
          /\ \A q \in Pages : q # p => pf'[q] = pf[q]
      BY <1>1, <1>4 DEF Pages
    <2>2. /\ Cardinality(Slots(pf)) \in Nat
          /\ pf[p] # "none" => Slots(pf') = Slots(pf)
          /\ pf[p] = "none" =>
               Cardinality(Slots(pf')) = Cardinality(Slots(pf)) + 1
      BY <2>1, SlotCount
    <2>3. QED BY <1>1, <1>4, <2>2 DEF DiskConservation
  <1>5. ASSUME NEW p \in Pages, FreeMem(p) PROVE DiskConservation'
    <2>1. /\ DOMAIN pf = Pages /\ DOMAIN pf' = Pages
          /\ pf'[p] = "none"
          /\ \A q \in Pages : q # p => pf'[q] = pf[q]
          /\ freeDisk' = IF pf[p] = "none" THEN freeDisk ELSE freeDisk + 1
      BY <1>1, <1>5 DEF FreeMem
    <2>2. /\ Cardinality(Slots(pf)) \in Nat
          /\ pf[p] = "none" => Slots(pf') = Slots(pf)
          /\ pf[p] # "none" =>
               Cardinality(Slots(pf')) = Cardinality(Slots(pf)) - 1
      BY <2>1, SlotCount
    <2>3. QED BY <1>1, <2>1, <2>2 DEF DiskConservation
  <1>6. CASE EnvFree
    <2>1. freeDisk' = NumDiskFrames /\ Slots(pf') = {}
      BY <1>6 DEF EnvFree, DiskConservation, Slots
    <2>2. QED BY <1>1, <2>1, FS_EmptySet DEF DiskConservation
  <1>7. ASSUME NEW p \in HeapPages, AllocateMem(p) PROVE DiskConservation'
    BY <1>4, <1>7 DEF AllocateMem
  <1>8. ASSUME NEW p \in HeapPages, AllocateMemFails(p) PROVE DiskConservation'
    <2>1. \/ UNCHANGED <<pf, freeDisk>>
          \/ /\ pf' = [pf EXCEPT ![p] = IF @ = "none" THEN "stale" ELSE @]
             /\ freeDisk' = freeDisk - (IF pf[p] = "none" THEN 1 ELSE 0)
      BY <1>8 DEF AllocateMemFails
    <2>2. QED BY <1>2, <1>4, <2>1
  <1>9. ASSUME NEW p \in Pages, page_fault_handler(p) PROVE DiskConservation'
    BY <1>9, FaultDisk
  <1>10. QED
    BY <1>2, <1>3, <1>5, <1>6, <1>7, <1>8, <1>9
       DEF Next, CPU, Issue, Load, table_fault_handler, Exit, vars

\* env_create gives the environment only places it has.
LEMMA InitDisk == Init => DiskConservation
  <1> SUFFICES ASSUME Init PROVE DiskConservation
    OBVIOUS
  <1>1. freeDisk = NumDiskFrames - Cardinality(Slots(pf))
    BY DEF Init
  <1>2. QED
    BY <1>1, InitSlots, SizeAssumption DEF DiskConservation

\* The page file never loses a place nor gives one away twice, in any state:
\* also after a handler has panicked half way and after env_free.
THEOREM DiskConserved == Spec => []DiskConservation
  <1>1. WSInv /\ DiskConservation /\ [Next]_vars
          => (WSInv /\ DiskConservation)'
    BY NextWSInv, NextDisk
  <1>2. Spec => [](WSInv /\ DiskConservation)
    BY InitWSInv, InitDisk, <1>1, PTL DEF Spec
  <1>3. QED BY <1>2, PTL

-----------------------------------------------------------------------------
(***************************************************************************)
(* The frames of the RAM.  A panic may leak the frames it was working on,  *)
(* so the account is kept while the environment lives.                     *)
(***************************************************************************)
\* Every frame is free, maps a page, or holds a table.
FramesAdd(free, pt) ==
    free + Cardinality(Mapped(pt)) + Cardinality(tables)
      + Cardinality(diskTables) = NumFrames

\* What Init sets up: one frame for each loaded page and each table.
LEMMA InitFrames == Init => FrameConservation
  <1> SUFFICES ASSUME Init PROVE FrameConservation
    OBVIOUS
  <1> DEFINE Img == {Segment[i] : i \in 1 .. Loaded}
             f == [i \in 1 .. Loaded |-> Segment[i]]
  <1>1. /\ Loaded \in Nat /\ Loaded <= Len(Segment) /\ Len(Segment) \in Nat
        /\ DOMAIN Segment = 1 .. Len(Segment)
    BY LoadFacts, SegmentFinite, LenProperties
  <1>2. \A i, j \in 1 .. Loaded : Segment[i] = Segment[j] => i = j
    BY <1>1, ProgramAssumption
  <1>3. StackTop \notin Img
    BY <1>1, SegmentFinite, ProgramAssumption
  <1>4. f \in Surjection(1 .. Loaded, Img) /\ f \in Injection(1 .. Loaded, Img)
    <2>1. /\ DOMAIN f = 1 .. Loaded
          /\ \A i \in 1 .. Loaded : f[i] = Segment[i] /\ f[i] \in Img
          /\ f \in [1 .. Loaded -> Img]
      OBVIOUS
    <2>2. \A x \in Img : \E i \in 1 .. Loaded : f[i] = x
      OBVIOUS
    <2>3. \A i, j \in 1 .. Loaded : f[i] = f[j] => i = j
      BY <1>2
    <2> HIDE DEF f, Img
    <2>4. f \in Surjection(1 .. Loaded, Img)
      BY <2>1, <2>2 DEF Surjection
    <2>5. QED BY <2>1, <2>3, <2>4 DEF Injection, IsInjective
  <1>5. IsFiniteSet(1 .. Loaded) /\ Cardinality(1 .. Loaded) = Loaded
    BY <1>1, FS_Interval
  <1> HIDE DEF f, Img
  <1>6. IsFiniteSet(Img) /\ Cardinality(Img) = Loaded
    BY <1>4, <1>5, FS_Surjection
  <1>7. LoadedPages = Img \cup {StackTop}
    BY DEF LoadedPages, Img
  <1>8. Cardinality(LoadedPages) = Loaded + 1
    BY <1>3, <1>6, <1>7, FS_AddElement
  <1>9. Mapped(pte) = LoadedPages
    <2>1. LoadedPages \subseteq Pages
      BY LoadFacts
    <2>2. \A p \in Pages : pte[p].mapped <=> p \in LoadedPages
      BY DEF Init, Unmapped
    <2>3. DOMAIN pte = Pages
      BY DEF Init
    <2>4. QED BY <2>1, <2>2, <2>3 DEF Mapped
  <1>10. /\ Cardinality(LoadedTables) \in Nat /\ Cardinality(SwapTables) \in Nat
    BY LoadFacts, PagesFinite, FS_Subset, FS_CardinalityType
  <1>11. /\ freeFrames = NumFrames - LoadFrames
         /\ tables = LoadedTables /\ diskTables = SwapTables
    BY DEF Init
  <1>12. LoadFrames = Loaded + 1 + Cardinality(LoadedTables)
                        + Cardinality(SwapTables)
    BY DEF LoadFrames
  <1>13. freeFrames + Cardinality(Mapped(pte)) + Cardinality(tables)
           + Cardinality(diskTables) = NumFrames
    <2>1. Cardinality(Mapped(pte)) = Loaded + 1
      BY <1>8, <1>9
    <2>2. freeFrames = NumFrames - (Loaded + 1 + Cardinality(tables)
                                      + Cardinality(diskTables))
      BY <1>11, <1>12
    <2>3. /\ NumFrames \in Nat
          /\ Cardinality(tables) \in Nat /\ Cardinality(diskTables) \in Nat
      BY <1>10, <1>11, SizeAssumption
    <2>4. Loaded \in Nat
      BY <1>1
    <2>5. QED BY <2>1, <2>2, <2>3, <2>4
  <1>14. QED
    BY <1>13 DEF FrameConservation

\* The frame of the page, and the frame of its disk table if it needs one.
LEMMA PlaceFrames ==
    ASSUME TypeOK, NEW p \in Pages, NEW ws, MemoryOK(ws), PlacePage(p, ws),
           status = "alive", ~ws.pte[p].mapped, FramesAdd(ws.freeFrames, ws.pte)
    PROVE  FrameConservation'
  <1> SUFFICES ASSUME status' = "alive" PROVE FrameConservation'
    BY DEF FrameConservation
  <1>1. /\ NumFrames \in Nat /\ TableOf[p] \in Tables
        /\ Cardinality(tables) \in Nat /\ Cardinality(diskTables) \in Nat
        /\ tables' = tables
    BY SizeAssumption, PagesFinite, FS_Subset, FS_CardinalityType
       DEF TypeOK, PlacePage
  <1>2. ASSUME NEW e \in Entry, e.mapped, pte' = [ws.pte EXCEPT ![p] = e]
        PROVE  /\ Cardinality(Mapped(ws.pte)) \in Nat
               /\ Cardinality(Mapped(pte')) = Cardinality(Mapped(ws.pte)) + 1
    <2>1. /\ pte' \in [Pages -> Entry] /\ ws.pte \in [Pages -> Entry]
          /\ pte'[p].mapped /\ \A q \in Pages : q # p => pte'[q] = ws.pte[q]
      BY <1>2 DEF MemoryOK
    <2>2. QED BY <2>1, MappedCount
  <1>3. CASE PlaceFromPageFile(p, ws)
    <2>1. ws.pf[p] \in {"current", "stale"}
      BY <1>3 DEF PlaceFromPageFile, MemoryOK
    <2> DEFINE e == [OnNewFrame EXCEPT !.data = ws.pf[p]]
    <2>2. e \in Entry /\ e.mapped
      BY <2>1 DEF OnNewFrame, Unmapped, Entry
    <2>3. /\ freeFrames' = ws.freeFrames - 1 /\ ws.freeFrames \in Nat
          /\ diskTables' = diskTables /\ pte' = [ws.pte EXCEPT ![p] = e]
      BY <1>3 DEF PlaceFromPageFile, MemoryOK
    <2> HIDE DEF e
    <2>4. /\ Cardinality(Mapped(ws.pte)) \in Nat
          /\ Cardinality(Mapped(pte')) = Cardinality(Mapped(ws.pte)) + 1
      BY <1>2, <2>2, <2>3
    <2>5. QED BY <1>1, <2>3, <2>4 DEF FramesAdd, FrameConservation
  <1>4. CASE PlaceNewStackPage(p, ws)
    <2>1. OnNewFrame \in Entry /\ OnNewFrame.mapped
      BY DEF OnNewFrame, Unmapped, Entry
    <2>2. /\ freeFrames' = ws.freeFrames - 1 - DiskTableFrames(p)
          /\ ws.freeFrames \in Nat
          /\ diskTables' = diskTables \cup {TableOf[p]}
          /\ pte' = [ws.pte EXCEPT ![p] = OnNewFrame]
      BY <1>4 DEF PlaceNewStackPage, MemoryOK
    <2>3. /\ Cardinality(diskTables') = Cardinality(diskTables) + DiskTableFrames(p)
          /\ DiskTableFrames(p) \in {0, 1}
      BY <1>1, <2>2, TableCount DEF TypeOK, DiskTableFrames
    <2>4. /\ Cardinality(Mapped(ws.pte)) \in Nat
          /\ Cardinality(Mapped(pte')) = Cardinality(Mapped(ws.pte)) + 1
      BY <1>2, <2>1, <2>2
    <2>5. QED BY <1>1, <2>2, <2>3, <2>4 DEF FramesAdd, FrameConservation
  <1>5. QED
    BY <1>3, <1>4 DEF PlacePage, IllegalAccess, OutOfFrames, Die

\* A victim gives its frame back before the new page takes one.
LEMMA FaultFrames ==
    ASSUME WSInv, AgreeNow, FrameConservation, NEW p \in Pages,
           page_fault_handler(p)
    PROVE  FrameConservation'
  <1>1. /\ TypeOK /\ ListsFull /\ status = "alive" /\ PageFaulting(p)
        /\ pte \in [Pages -> Entry] /\ freeFrames \in Nat
        /\ FramesAdd(freeFrames, pte)
    BY DEF WSInv, page_fault_handler, PlaceInActive, SecondChance, TypeOK,
           DemoteAndPlace, ReplaceActive, ReplaceSecond, PageFaulting,
           Faulting, FrameConservation, FramesAdd
  <1>2. /\ Cardinality(tables) \in Nat /\ Cardinality(diskTables) \in Nat
        /\ NumFrames \in Nat
    BY <1>1, SizeAssumption, PagesFinite, FS_Subset, FS_CardinalityType
       DEF TypeOK
  <1>3. CASE PlaceInActive(p)
    <2>1. PageWorkingSetList # 0 /\ ~ActiveFull /\ PlacePage(p, AfterTake)
      BY <1>3 DEF PlaceInActive, AfterTake
    <2>2. ~AfterTake.pte[p].mapped
      BY <1>1, <2>1, FaultingUnmapped, AfterTakeMemory
    <2>3. FramesAdd(AfterTake.freeFrames, AfterTake.pte) /\ MemoryOK(AfterTake)
      BY <1>1, <2>1, AfterTakeMemory
    <2>4. QED BY <1>1, <2>1, <2>2, <2>3, PlaceFrames
  <1>4. CASE SecondChance(p)
    <2>1. UNCHANGED <<status, tables, diskTables, freeFrames>>
      BY <1>4 DEF SecondChance
    <2>2. Mapped(pte') = Mapped(pte)
      BY <1>1, <1>4 DEF SecondChance, Mapped, Entry
    <2>3. QED BY <2>1, <2>2 DEF FrameConservation
  <1>5. CASE DemoteAndPlace(p)
    <2>1. /\ PageWorkingSetList # 0 /\ PlacePage(p, AfterDemote)
          /\ ActiveList # << >> /\ p \notin ToSet(SecondList)
      BY <1>1, <1>5, TailsExist DEF DemoteAndPlace, AfterDemote
    <2>2. /\ MemoryOK(AfterDemote) /\ AfterDemote.freeFrames = freeFrames
          /\ \A q \in Pages : AfterDemote.pte[q].mapped = pte[q].mapped
      BY <1>1, <2>1, AfterDemoteMemory, DemoteAgree
    <2>3. ~AfterDemote.pte[p].mapped
      BY <1>1, <2>1, <2>2, FaultingUnmapped
    <2>4. Mapped(AfterDemote.pte) = Mapped(pte)
      BY <1>1, <2>2 DEF Mapped, MemoryOK
    <2>5. FramesAdd(AfterDemote.freeFrames, AfterDemote.pte)
      BY <1>1, <2>2, <2>4 DEF FramesAdd
    <2>6. QED BY <1>1, <2>1, <2>2, <2>3, <2>5, PlaceFrames
  <1>6. ASSUME NEW v \in Pages, pte[v].mapped, NEW pt \in [Pages -> Entry],
               ~pt[v].mapped,
               \A q \in Pages : q # v => pt[q].mapped = pte[q].mapped
        PROVE  FramesAdd(freeFrames + 1, pt)
    <2>1. /\ Cardinality(Mapped(pte)) \in Nat /\ Cardinality(Mapped(pt)) \in Nat
          /\ Cardinality(Mapped(pt)) = Cardinality(Mapped(pte)) - 1
      BY <1>1, <1>6, MappedCount
    <2>2. QED BY <1>1, <1>2, <2>1 DEF FramesAdd
  <1>7. CASE ReplaceActive(p)
    <2> DEFINE v == Last(ActiveList)
    <2>1. /\ PlacePage(p, AfterActiveEviction)
          /\ ActiveList # << >> /\ p \notin ToSet(SecondList)
      BY <1>1, <1>7, TailsExist DEF ReplaceActive, AfterActiveEviction
    <2>2. ~AfterActiveEviction.pte[p].mapped
      BY <1>1, <2>1, FaultingUnmapped, ActiveEvictionAgree
    <2>3. /\ MemoryOK(AfterActiveEviction)
          /\ AfterActiveEviction.pte = [pte EXCEPT ![v] = Unmapped]
          /\ AfterActiveEviction.freeFrames = freeFrames + 1
      BY <1>1, <2>1, AfterActiveEvictionMemory
    <2>4. v \in Pages /\ v \in ToSet(ActiveList)
      BY <1>1, <2>1, FrontShape, FrontElements DEF TypeOK
    <2>5. pte[v].mapped
      BY <2>4 DEF AgreeNow, ListsAgree, PageAgrees
    <2> HIDE DEF v
    <2>6. FramesAdd(AfterActiveEviction.freeFrames, AfterActiveEviction.pte)
      <3> DEFINE pt == AfterActiveEviction.pte
      <3>1. pt \in [Pages -> Entry]
        BY <2>3 DEF MemoryOK
      <3>2. ~pt[v].mapped /\ \A q \in Pages : q # v => pt[q].mapped = pte[q].mapped
        BY <1>1, <2>3, <2>4 DEF Unmapped
      <3> HIDE DEF pt
      <3>3. FramesAdd(freeFrames + 1, pt)
        BY <1>6, <2>4, <2>5, <3>1, <3>2
      <3>4. QED BY <2>3, <3>3 DEF pt
    <2>7. QED BY <1>1, <2>1, <2>2, <2>3, <2>6, PlaceFrames
  <1>8. CASE ReplaceSecond(p)
    <2> DEFINE v == Last(SecondList)
               tail == Last(ActiveList)
               mid == [pte EXCEPT ![tail].present = FALSE]
    <2>1. /\ PlacePage(p, AfterSecondEviction)
          /\ ActiveList # << >> /\ SecondList # << >>
          /\ p \notin ToSet(SecondList)
      BY <1>1, <1>8, TailsExist DEF ReplaceSecond, AfterSecondEviction
    <2>2. ~AfterSecondEviction.pte[p].mapped
      BY <1>1, <2>1, FaultingUnmapped, SecondEvictionAgree
    <2>3. /\ MemoryOK(AfterSecondEviction)
          /\ AfterSecondEviction.pte = [mid EXCEPT ![v] = Unmapped]
          /\ AfterSecondEviction.freeFrames = freeFrames + 1
      BY <1>1, <2>1, AfterSecondEvictionMemory
    <2>4. /\ v \in Pages /\ v \in ToSet(SecondList) /\ tail \in Pages
      BY <1>1, <2>1, FrontShape, FrontElements DEF TypeOK
    <2>5. pte[v].mapped
      BY <2>4 DEF AgreeNow, ListsAgree, PageAgrees
    <2>6. /\ mid \in [Pages -> Entry]
          /\ \A q \in Pages : mid[q].mapped = pte[q].mapped
      BY <1>1, <2>4 DEF Entry
    <2> HIDE DEF v, mid
    <2>7. FramesAdd(AfterSecondEviction.freeFrames, AfterSecondEviction.pte)
      <3> DEFINE pt == AfterSecondEviction.pte
      <3>1. pt \in [Pages -> Entry]
        BY <2>3 DEF MemoryOK
      <3>2. ~pt[v].mapped /\ \A q \in Pages : q # v => pt[q].mapped = pte[q].mapped
        BY <1>1, <2>3, <2>4, <2>6 DEF Unmapped
      <3> HIDE DEF pt
      <3>3. FramesAdd(freeFrames + 1, pt)
        BY <1>6, <2>4, <2>5, <3>1, <3>2
      <3>4. QED BY <2>3, <3>3 DEF pt
    <2>8. QED BY <1>1, <2>1, <2>2, <2>3, <2>7, PlaceFrames
  <1>9. QED
    BY <1>3, <1>4, <1>5, <1>7, <1>8 DEF page_fault_handler

\* A table fault takes the frame of the new page table.
LEMMA TableFaultFrames ==
    ASSUME TypeOK, FrameConservation, NEW p \in Pages, table_fault_handler(p)
    PROVE  FrameConservation'
  <1> SUFFICES ASSUME status' = "alive" PROVE FrameConservation'
    BY DEF FrameConservation
  <1>1. /\ TableOf[p] \notin tables /\ status = "alive"
        /\ freeFrames' = freeFrames - 1
        /\ tables' = tables \cup {TableOf[p]}
        /\ UNCHANGED <<pte, diskTables>>
    BY DEF table_fault_handler, Faulting, Die
  <1>2. /\ Cardinality(tables) \in Nat /\ Cardinality(diskTables) \in Nat
        /\ Cardinality(tables') = Cardinality(tables) + 1
    BY <1>1, PagesFinite, TableCount, FS_Subset, FS_CardinalityType DEF TypeOK
  <1>3. Cardinality(Mapped(pte)) \in Nat
    <2>1. Mapped(pte) \subseteq Pages
      BY DEF Mapped, TypeOK
    <2>2. QED BY <2>1, PagesFinite, FS_Subset, FS_CardinalityType
  <1>4. freeFrames \in Nat /\ NumFrames \in Nat
    BY SizeAssumption DEF TypeOK
  <1>5. QED
    BY <1>1, <1>2, <1>3, <1>4 DEF FrameConservation

\* allocateMem takes a frame for the page and for each table it creates; the
\* frame that was mapped at the page, if any, becomes free.
LEMMA AllocateFrames ==
    ASSUME WSInv, AgreeNow, FrameConservation, NEW p \in HeapPages,
           AllocateMem(p)
    PROVE  FrameConservation'
  <1> DEFINE dt == DiskTableFrames(p)
             pg == IF TableOf[p] \in tables THEN 0 ELSE 1
             un == IF pte[p].present THEN 1 ELSE 0
  <1>1. /\ status = "alive" /\ p \in Pages /\ pte \in [Pages -> Entry]
        /\ freeFrames \in Nat /\ NumFrames \in Nat
        /\ tables \subseteq Tables /\ diskTables \subseteq Tables
        /\ TableOf[p] \in Tables
    BY PagesFinite, SizeAssumption
       DEF AllocateMem, InSyscall, WSInv, TypeOK, Pages
  <1>2. /\ freeFrames' = freeFrames - dt - 1 - pg + un
        /\ tables' = tables \cup {TableOf[p]}
        /\ diskTables' = diskTables \cup {TableOf[p]}
        /\ pte' = [pte EXCEPT ![p] = OnNewFrame]
    BY DEF AllocateMem
  <1>3. /\ Cardinality(tables) \in Nat /\ Cardinality(diskTables) \in Nat
        /\ Cardinality(tables') = Cardinality(tables) + pg
        /\ Cardinality(diskTables') = Cardinality(diskTables) + dt
    BY <1>1, <1>2, TableCount DEF DiskTableFrames
  <1>4. pte[p].mapped <=> pte[p].present
    <2>1. PageAgrees(p, ToSet(ActiveList), ToSet(SecondList), pte[p], tables)
      BY <1>1 DEF AgreeNow, ListsAgree
    <2>2. QED BY <2>1 DEF PageAgrees
  <1>5. /\ Cardinality(Mapped(pte)) \in Nat
        /\ Cardinality(Mapped(pte')) = Cardinality(Mapped(pte)) + 1 - un
    <2>1. /\ pte' \in [Pages -> Entry] /\ pte'[p].mapped = TRUE
          /\ \A q \in Pages : q # p => pte'[q] = pte[q]
      BY <1>1, <1>2 DEF OnNewFrame, Unmapped, Entry
    <2>2. CASE pte[p].present
      <3>1. pte[p].mapped = TRUE
        BY <1>1, <1>4, <2>2 DEF Entry
      <3>2. Cardinality(Mapped(pte)) \in Nat /\ Mapped(pte') = Mapped(pte)
        BY <1>1, <2>1, <3>1, MappedCount
      <3>3. QED BY <2>2, <3>2
    <2>3. CASE ~pte[p].present
      <3>1. /\ Cardinality(Mapped(pte)) \in Nat
            /\ Cardinality(Mapped(pte')) = Cardinality(Mapped(pte)) + 1
        BY <1>1, <1>4, <2>1, <2>3, MappedCount
      <3>2. QED BY <2>3, <3>1
    <2>4. QED BY <2>2, <2>3
  <1>6. dt \in {0, 1} /\ pg \in {0, 1} /\ un \in {0, 1}
    BY DEF DiskTableFrames
  <1> HIDE DEF dt, pg, un
  <1>7. freeFrames + Cardinality(Mapped(pte)) + Cardinality(tables)
          + Cardinality(diskTables) = NumFrames
    BY <1>1 DEF FrameConservation
  <1>8. QED
    BY <1>1, <1>2, <1>3, <1>5, <1>6, <1>7 DEF FrameConservation

\* freeMem of a page of the working set frees its frame, and the frame of its
\* page table when no page of it is mapped any more.
LEMMA FreeFrames ==
    ASSUME WSInv, AgreeNow, FrameConservation, NEW p \in Pages, FreeMem(p)
    PROVE  FrameConservation'
  <1> DEFINE t == TableOf[p]
  <1>1. /\ status = "alive" /\ pte \in [Pages -> Entry]
        /\ freeFrames \in Nat /\ NumFrames \in Nat
        /\ tables \subseteq Tables /\ diskTables \subseteq Tables
        /\ t \in Tables /\ diskTables' = diskTables
        /\ freeFrames + Cardinality(Mapped(pte)) + Cardinality(tables)
             + Cardinality(diskTables) = NumFrames
        /\ Cardinality(diskTables) \in Nat
    BY PagesFinite, SizeAssumption, FS_Subset, FS_CardinalityType
       DEF FreeMem, InSyscall, WSInv, TypeOK, FrameConservation
  <1>2. ASSUME p \in Resident, pte' \in [Pages -> Entry], ~pte'[p].mapped,
               \A q \in Pages : q # p => pte'[q].mapped = pte[q].mapped,
               tables' = tables \ EmptyTables(pte', t),
               freeFrames' = freeFrames + 1 + Cardinality(EmptyTables(pte', t))
        PROVE  FrameConservation'
    <2>1. pte[p].mapped /\ t \in tables
      <3>1. PageAgrees(p, ToSet(ActiveList), ToSet(SecondList), pte[p], tables)
        BY DEF AgreeNow, ListsAgree
      <3>2. QED BY <1>2, <3>1 DEF PageAgrees, Resident
    <2>2. /\ Cardinality(Mapped(pte)) \in Nat
          /\ Cardinality(Mapped(pte')) = Cardinality(Mapped(pte)) - 1
      BY <1>1, <1>2, <2>1, MappedCount
    <2>3. /\ Cardinality(tables) \in Nat
          /\ Cardinality(tables') =
               Cardinality(tables) - Cardinality(EmptyTables(pte', t))
          /\ Cardinality(EmptyTables(pte', t)) \in {0, 1}
      <3>1. CASE EmptyTables(pte', t) = {}
        <4>1. tables' = tables /\ Cardinality(EmptyTables(pte', t)) = 0
          BY <1>2, <3>1, FS_EmptySet
        <4>2. Cardinality(tables) \in Nat
          BY <1>1, TableCount
        <4>3. QED BY <4>1, <4>2
      <3>2. CASE EmptyTables(pte', t) = {t}
        <4>1. Cardinality(EmptyTables(pte', t)) = 1
          BY <3>2, FS_Singleton
        <4>2. /\ Cardinality(tables) \in Nat
              /\ Cardinality(tables') = Cardinality(tables) - 1
          BY <1>1, <1>2, <2>1, <3>2, TableCount, SMTT(60)
        <4>3. QED BY <4>1, <4>2
      <3>3. QED BY <3>1, <3>2 DEF EmptyTables
    <2>4. QED
      BY <1>1, <1>2, <2>2, <2>3 DEF FrameConservation
  <1>3. CASE \E i \in DOMAIN ActiveList : RemoveFromActive(p, i)
    <2>1. PICK i \in DOMAIN ActiveList : RemoveFromActive(p, i)
      BY <1>3
    <2>2. p \in Resident
      BY <2>1 DEF RemoveFromActive, Resident, ToSet
    <2>3. /\ tables' = tables \ EmptyTables(pte', t)
          /\ freeFrames' = freeFrames + 1 + Cardinality(EmptyTables(pte', t))
      BY <2>1 DEF RemoveFromActive
    <2>4. /\ pte' = [q \in Pages |->
                       IF q = p THEN Unmapped
                       ELSE IF SecondList # << >> /\ q = Head(SecondList)
                            THEN [pte[q] EXCEPT !.present = TRUE]
                            ELSE pte[q]]
      BY <2>1 DEF RemoveFromActive
    <2>5. /\ pte' \in [Pages -> Entry] /\ ~pte'[p].mapped
          /\ \A q \in Pages : q # p => pte'[q].mapped = pte[q].mapped
      <3>1. Unmapped \in Entry /\ ~Unmapped.mapped
        BY DEF Unmapped, Entry
      <3>2. \A q \in Pages : /\ [pte[q] EXCEPT !.present = TRUE] \in Entry
                             /\ [pte[q] EXCEPT !.present = TRUE].mapped
                                  = pte[q].mapped
        BY <1>1 DEF Entry
      <3>3. QED BY <1>1, <2>4, <3>1, <3>2
    <2>6. QED BY <1>2, <2>2, <2>3, <2>5
  <1>4. CASE \E i \in DOMAIN SecondList : RemoveFromSecond(p, i)
    <2>1. PICK i \in DOMAIN SecondList : RemoveFromSecond(p, i)
      BY <1>4
    <2>2. p \in Resident
      BY <2>1 DEF RemoveFromSecond, Resident, ToSet
    <2>3. /\ tables' = tables \ EmptyTables(pte', t)
          /\ freeFrames' = freeFrames + 1 + Cardinality(EmptyTables(pte', t))
          /\ pte' = [pte EXCEPT ![p] = Unmapped]
      BY <2>1 DEF RemoveFromSecond
    <2>4. /\ pte' \in [Pages -> Entry] /\ ~pte'[p].mapped
          /\ \A q \in Pages : q # p => pte'[q].mapped = pte[q].mapped
      BY <1>1, <2>3 DEF Unmapped, Entry
    <2>5. QED BY <1>2, <2>2, <2>3, <2>4
  <1>5. CASE UNCHANGED <<pte, tables, freeFrames>>
    BY <1>1, <1>5 DEF FrameConservation
  <1>6. QED
    BY <1>3, <1>4, <1>5 DEF FreeMem

\* No step of a living environment loses a frame.
LEMMA NextFrames ==
    ResInv /\ FrameConservation /\ [Next]_vars => FrameConservation'
  <1> SUFFICES ASSUME ResInv, FrameConservation, [Next]_vars
               PROVE  FrameConservation'
    OBVIOUS
  <1>1. WSInv /\ TypeOK /\ (status = "alive" => AgreeNow)
    BY DEF ResInv, WSInv
  <1>2. CASE UNCHANGED <<status, pte, tables, diskTables, freeFrames>>
    BY <1>2 DEF FrameConservation
  <1>3. ASSUME NEW p \in Pages, Store(p) PROVE FrameConservation'
    <2>1. Mapped(pte') = Mapped(pte)
      BY <1>1, <1>3 DEF Store, Mapped, TypeOK, Entry
    <2>2. QED BY <1>3, <2>1 DEF Store, FrameConservation
  <1>4. ASSUME NEW p \in Pages, table_fault_handler(p)
        PROVE  FrameConservation'
    BY <1>1, <1>4, TableFaultFrames
  <1>5. ASSUME NEW p \in Pages, page_fault_handler(p)
        PROVE  FrameConservation'
    <2>1. status = "alive"
      BY <1>5 DEF page_fault_handler, PlaceInActive, SecondChance,
                  DemoteAndPlace, ReplaceActive, ReplaceSecond, PageFaulting,
                  Faulting
    <2>2. QED BY <1>1, <1>5, <2>1, FaultFrames
  <1>6. ASSUME NEW p \in HeapPages, AllocateMem(p) PROVE FrameConservation'
    BY <1>1, <1>6, AllocateFrames DEF AllocateMem, InSyscall
  <1>7. ASSUME NEW p \in Pages, FreeMem(p) PROVE FrameConservation'
    BY <1>1, <1>7, FreeFrames DEF FreeMem, InSyscall
  <1>8. CASE status' # "alive"
    BY <1>8 DEF FrameConservation
  <1>9. QED
    BY <1>2, <1>3, <1>4, <1>5, <1>6, <1>7, <1>8
       DEF Next, CPU, Issue, Load, AllocateMemFails, Exit, Die, EnvFree, vars

\* Neither memory nor the page file loses a frame, however scarce they are.
THEOREM Conserved == Spec => []Conservation
  <1>1. ResInv /\ FrameConservation /\ [Next]_vars
          => (ResInv /\ FrameConservation)'
    BY NextResInv, NextFrames
  <1>2. Spec => [](ResInv /\ FrameConservation)
    BY InitResInv, InitFrames, <1>1, PTL DEF Spec
  <1>3. FrameConservation /\ DiskConservation => Conservation
    BY DEF Conservation
  <1>4. QED BY <1>2, <1>3, DiskConserved, PTL

-----------------------------------------------------------------------------
(***************************************************************************)
(* The stores.  A page the program relies on is current in memory, and     *)
(* also in the page file once it is not MODIFIED; every resident page has  *)
(* a place to be written back to.  With fewer places than pages the code   *)
(* loses stores: pf_add_empty_env_page fails silently.                     *)
(***************************************************************************)
EnoughDisk == NumDiskFrames >= Cardinality(Pages)

KeptSafe(entry, copy) ==
    IF entry.mapped
    THEN entry.data = "current" /\ (~entry.modified => copy = "current")
    ELSE copy = "current"

StoresSafe(listed, pt, file) ==
    /\ \A q \in listed : file[q] # "none"
    /\ \A q \in written : KeptSafe(pt[q], file[q])

SafeNow == StoresSafe(Resident, pte, pf)

StoreInv == /\ ResInv /\ DiskConservation
            /\ status = "alive" => SafeNow

\* The page file holds every page env_create maps.
LEMMA InitSafe == ASSUME EnoughDisk, Init PROVE SafeNow
  <1> DEFINE Img == ToSet(Segment)
  <1>1. /\ IsFiniteSet(Img) /\ IsFiniteSet(Pages)
        /\ Len(Segment) \in Nat /\ NumDiskFrames \in Nat
        /\ StackTop \notin Img /\ StackTop \in Pages /\ Img \subseteq Pages
    BY SegmentFinite, PagesFinite, SizeAssumption, ProgramAssumption, LoadFacts
       DEF Pages
  <1>2. Cardinality(Img) = Len(Segment)
    <2>1. /\ DOMAIN Segment = 1 .. Len(Segment)
          /\ Segment \in [1 .. Len(Segment) -> Img]
          /\ \A i, j \in 1 .. Len(Segment) : Segment[i] = Segment[j] => i = j
          /\ \A x \in Img : \E i \in 1 .. Len(Segment) : Segment[i] = x
      BY SegmentFinite, LenProperties, ProgramAssumption DEF ToSet
    <2>2. /\ Segment \in Surjection(1 .. Len(Segment), Img)
          /\ Segment \in Injection(1 .. Len(Segment), Img)
      BY <2>1 DEF Surjection, Injection, IsInjective
    <2>3. /\ IsFiniteSet(1 .. Len(Segment))
          /\ Cardinality(1 .. Len(Segment)) = Len(Segment)
      <3>1. \A n \in Nat : IsFiniteSet(1 .. n) /\ Cardinality(1 .. n) = n
        BY FS_Interval
      <3>2. Len(Segment) \in Nat
        BY <1>1
      <3>3. QED BY <3>1, <3>2
    <2>4. QED BY <2>2, <2>3, FS_Surjection
  <1> HIDE DEF Img
  <1>3. NumDiskFrames > Len(Segment)
    <2>1. Cardinality(Img \cup {StackTop}) = Len(Segment) + 1
      BY <1>1, <1>2, FS_AddElement
    <2>2. Cardinality(Img \cup {StackTop}) <= Cardinality(Pages)
      BY <1>1, FS_Subset
    <2>3. Cardinality(Pages) \in Nat
      BY <1>1, FS_CardinalityType
    <2>4. QED BY <1>1, <2>1, <2>2, <2>3 DEF EnoughDisk
  <1>4. /\ \A q \in Img \cup {StackTop} : q \in Pages /\ pf[q] = "current"
        /\ written = Img \cup {StackTop}
    BY <1>1, <1>3 DEF Init, Img
  <1>5. \A q \in Pages : pte[q].mapped => pte[q].data = "current"
    BY DEF Init, Unmapped
  <1>6. Resident \subseteq Img \cup {StackTop}
    <2>1. /\ \A i \in 1 .. LoadedActive : Segment[i] \in Img
          /\ \A i \in LoadedActive + 1 .. Loaded : Segment[i] \in Img
      BY LoadFacts, SegmentFinite DEF Img
    <2>2. QED BY <2>1, InitLists DEF Resident
  <1>7. QED
    BY <1>4, <1>5, <1>6 DEF SafeNow, StoresSafe, KeptSafe

\* The lists hold pages of the address space.
LEMMA ResidentPages == TypeOK => Resident \subseteq Pages
  <1> SUFFICES ASSUME TypeOK PROVE Resident \subseteq Pages
    OBVIOUS
  <1>1. /\ \A i \in DOMAIN ActiveList : ActiveList[i] \in Pages
        /\ \A i \in DOMAIN SecondList : SecondList[i] \in Pages
    BY ElementOfSeq, LenProperties DEF TypeOK
  <1>2. QED BY <1>1 DEF Resident, ToSet

\* The entries after v is unmapped, and the page file after v is written back.
Unmaps(pt, v) ==
    /\ ~pt[v].mapped
    /\ \A q \in Pages : q # v => /\ pt[q].mapped = pte[q].mapped
                                 /\ pt[q].modified = pte[q].modified
                                 /\ pt[q].data = pte[q].data

WrittenBack(v) ==
    [pf EXCEPT ![v] = IF pte[v].modified /\ @ # "none"
                      THEN pte[v].data ELSE @]

\* A victim is written back to the place it has in the page file.
LEMMA EvictionSafe ==
    ASSUME TypeOK, SafeNow, NEW v \in Resident, v \in Pages, pte[v].mapped,
           NEW pt, Unmaps(pt, v),
           NEW listed, listed \subseteq Resident, listed \subseteq Pages
    PROVE  /\ StoresSafe(listed, pt, WrittenBack(v))
           /\ Slots(WrittenBack(v)) = Slots(pf)
  <1> DEFINE file == WrittenBack(v)
  <1>1. /\ pf \in [Pages -> {"none", "current", "stale"}]
        /\ pte \in [Pages -> Entry] /\ written \subseteq Pages
    BY DEF TypeOK
  <1>2. pf[v] # "none" /\ pte[v].data # "none"
    BY <1>1 DEF SafeNow, StoresSafe, Entry
  <1>3. /\ file[v] = IF pte[v].modified THEN pte[v].data ELSE pf[v]
        /\ \A q \in Pages : q # v => file[q] = pf[q]
        /\ DOMAIN file = Pages /\ DOMAIN pf = Pages
    BY <1>1, <1>2 DEF WrittenBack
  <1> HIDE DEF file
  <1>4. \A q \in Pages : file[q] = "none" <=> pf[q] = "none"
    BY <1>2, <1>3
  <1>5. ASSUME NEW q \in written PROVE KeptSafe(pt[q], file[q])
    <2>1. KeptSafe(pte[q], pf[q]) /\ q \in Pages
      BY <1>1 DEF SafeNow, StoresSafe
    <2>2. CASE q = v
      BY <1>3, <2>1, <2>2 DEF KeptSafe, Unmaps
    <2>3. CASE q # v
      BY <1>3, <2>1, <2>3 DEF KeptSafe, Unmaps
    <2>4. QED BY <2>2, <2>3
  <1>6. QED
    BY <1>3, <1>4, <1>5 DEF SafeNow, StoresSafe, Slots, file

\* The page that comes in is what the page file holds of it, or a new stack
\* page nothing was stored into; a place is found for it.
LEMMA PlaceSafe ==
    ASSUME EnoughDisk, TypeOK, DiskConservation, NEW p \in Pages, NEW ws,
           MemoryOK(ws), PlacePage(p, ws), status = "alive",
           ~ws.pte[p].mapped, Slots(ws.pf) = Slots(pf),
           StoresSafe(ToSet(ws.ActiveList) \cup ToSet(ws.SecondList),
                      ws.pte, ws.pf)
    PROVE  status' = "alive" => SafeNow'
  <1> SUFFICES ASSUME status' = "alive" PROVE SafeNow'
    OBVIOUS
  <1> DEFINE listed == ToSet(ws.ActiveList) \cup ToSet(ws.SecondList)
  <1>1. PlaceFromPageFile(p, ws) \/ PlaceNewStackPage(p, ws)
    BY DEF PlacePage, IllegalAccess, OutOfFrames, Die
  <1>2. /\ SecondList' = ws.SecondList /\ written' = written
        /\ ActiveList' = Cons(p, ws.ActiveList)
    BY <1>1 DEF PlacePage, PlaceFromPageFile, PlaceNewStackPage
  <1>3. Resident' = {p} \cup listed
    BY <1>2, ConsElements DEF Resident, MemoryOK
  <1>4. listed \subseteq Pages /\ written \subseteq Pages
    <2>1. /\ \A i \in DOMAIN ws.ActiveList : ws.ActiveList[i] \in Pages
          /\ \A i \in DOMAIN ws.SecondList : ws.SecondList[i] \in Pages
      BY ElementOfSeq, LenProperties DEF MemoryOK
    <2>2. QED BY <2>1 DEF ToSet, TypeOK
  <1>5. CASE PlaceFromPageFile(p, ws)
    <2>1. /\ pte'[p].mapped /\ pte'[p].data = ws.pf[p] /\ ws.pf[p] # "none"
          /\ \A q \in Pages : q # p => pte'[q] = ws.pte[q]
          /\ pf' = ws.pf
      BY <1>5 DEF PlaceFromPageFile, MemoryOK, OnNewFrame, Unmapped
    <2>2. ASSUME NEW q \in written PROVE KeptSafe(pte'[q], pf'[q])
      <3>1. KeptSafe(ws.pte[q], ws.pf[q]) /\ q \in Pages
        BY <1>4 DEF StoresSafe
      <3>2. QED BY <2>1, <3>1 DEF KeptSafe
    <2>3. \A q \in {p} \cup listed : pf'[q] # "none"
      BY <2>1 DEF StoresSafe
    <2>4. QED BY <1>2, <1>3, <2>2, <2>3 DEF SafeNow, StoresSafe
  <1>6. CASE PlaceNewStackPage(p, ws)
    <2>1. ws.pf[p] = "none" /\ p \notin written
      <3>1. ws.pf[p] = "none"
        BY <1>6 DEF PlaceNewStackPage
      <3>2. p \in written => KeptSafe(ws.pte[p], ws.pf[p])
        BY DEF StoresSafe
      <3>3. QED BY <3>1, <3>2 DEF KeptSafe
    <2>2. freeDisk > 0
      <3>1. p \notin Slots(pf) /\ Slots(pf) \subseteq Pages
        BY <2>1 DEF Slots, TypeOK
      <3>2. IsFiniteSet(Slots(pf)) /\ Cardinality(Slots(pf)) <= Cardinality(Pages)
        BY <3>1, PagesFinite, FS_Subset
      <3>3. Cardinality(Slots(pf)) # Cardinality(Pages)
        BY <3>1, PagesFinite, FS_Subset
      <3>4. Cardinality(Slots(pf)) \in Nat /\ Cardinality(Pages) \in Nat
        BY <3>2, PagesFinite, FS_CardinalityType
      <3>5. freeDisk \in Nat /\ NumDiskFrames \in Nat
        BY SizeAssumption DEF TypeOK
      <3>6. QED BY <3>2, <3>3, <3>4, <3>5 DEF EnoughDisk, DiskConservation
    <2>3. pf' = [ws.pf EXCEPT ![p] = "stale"]
      BY <1>6, <2>2 DEF PlaceNewStackPage
    <2>4. pte' = [ws.pte EXCEPT ![p] = OnNewFrame]
      BY <1>6 DEF PlaceNewStackPage
    <2>5. /\ pf'[p] = "stale"
          /\ \A q \in Pages : q # p => pf'[q] = ws.pf[q] /\ pte'[q] = ws.pte[q]
      BY <2>3, <2>4 DEF MemoryOK
    <2>6. ASSUME NEW q \in written PROVE KeptSafe(pte'[q], pf'[q])
      <3>1. KeptSafe(ws.pte[q], ws.pf[q]) /\ q \in Pages /\ q # p
        BY <1>4, <2>1 DEF StoresSafe
      <3>2. QED BY <2>5, <3>1
    <2>7. \A q \in {p} \cup listed : pf'[q] # "none"
      BY <1>4, <2>5 DEF StoresSafe
    <2>8. QED BY <1>2, <1>3, <2>6, <2>7 DEF SafeNow, StoresSafe
  <1>7. QED BY <1>1, <1>5, <1>6

\* No store is lost by a page fault.
LEMMA FaultSafe ==
    ASSUME EnoughDisk, WSInv, AgreeNow, DiskConservation, SafeNow,
           NEW p \in Pages, page_fault_handler(p)
    PROVE  status' = "alive" => SafeNow'
  <1>1. /\ TypeOK /\ ListsFull /\ status = "alive" /\ PageFaulting(p)
        /\ pte \in [Pages -> Entry] /\ written \subseteq Pages
        /\ ActiveList \in Seq(Pages) /\ SecondList \in Seq(Pages)
    BY DEF WSInv, page_fault_handler, PlaceInActive, SecondChance, TypeOK,
           DemoteAndPlace, ReplaceActive, ReplaceSecond, PageFaulting,
           Faulting
  <1>2. \A q \in Pages : q \in Resident => pte[q].mapped
    BY DEF AgreeNow, ListsAgree, PageAgrees, Resident
  <1>3. CASE PlaceInActive(p)
    <2>1. PageWorkingSetList # 0 /\ ~ActiveFull /\ PlacePage(p, AfterTake)
      BY <1>3 DEF PlaceInActive, AfterTake
    <2>2. ~AfterTake.pte[p].mapped
      BY <1>1, <2>1, FaultingUnmapped, AfterTakeMemory
    <2>3. /\ MemoryOK(AfterTake)
          /\ Slots(AfterTake.pf) = Slots(pf)
          /\ StoresSafe(ToSet(AfterTake.ActiveList)
                          \cup ToSet(AfterTake.SecondList),
                        AfterTake.pte, AfterTake.pf)
      BY <1>1, <2>1, AfterTakeMemory DEF SafeNow, Resident
    <2>4. QED BY <1>1, <2>1, <2>2, <2>3, PlaceSafe
  <1>4. CASE SecondChance(p)
    <2> DEFINE tail == Last(ActiveList)
               mid == [pte EXCEPT ![p].present = TRUE]
    <2>1. ActiveList # << >>
      BY <1>1, <1>4, TailsExist DEF SecondChance
    <2>2. PICK i \in DOMAIN SecondList :
            /\ SecondList[i] = p
            /\ ActiveList' = Cons(p, Front(ActiveList))
            /\ SecondList' = Cons(tail, RemoveAt(SecondList, i))
            /\ pte' = [mid EXCEPT ![tail].present = FALSE]
      BY <1>4 DEF SecondChance
    <2>3. /\ tail \in Pages /\ Front(ActiveList) \in Seq(Pages)
          /\ ToSet(ActiveList) = ToSet(Front(ActiveList)) \cup {tail}
      BY <1>1, <2>1, FrontShape, FrontElements
    <2>4. /\ RemoveAt(SecondList, i) \in Seq(Pages)
          /\ ToSet(RemoveAt(SecondList, i)) \cup {p} = ToSet(SecondList)
      <3>1. Distinct(SecondList)
        BY DEF AgreeNow, ListsAgree
      <3>2. QED BY <1>1, <2>2, <3>1, RemoveAtShape, RemoveAtElements
    <2>5. /\ ToSet(ActiveList') = {p} \cup ToSet(Front(ActiveList))
          /\ ToSet(SecondList') = {tail} \cup ToSet(RemoveAt(SecondList, i))
      BY <2>2, <2>3, <2>4, ConsElements
    <2>6. Resident' = Resident
      BY <2>3, <2>4, <2>5 DEF Resident
    <2>7. \A q \in Pages : /\ pte'[q].mapped = pte[q].mapped
                           /\ pte'[q].modified = pte[q].modified
                           /\ pte'[q].data = pte[q].data
      <3>1. /\ mid \in [Pages -> Entry]
            /\ \A q \in Pages : /\ mid[q].mapped = pte[q].mapped
                                /\ mid[q].modified = pte[q].modified
                                /\ mid[q].data = pte[q].data
        BY <1>1 DEF Entry
      <3> HIDE DEF mid, tail
      <3>2. QED BY <2>2, <2>3, <3>1 DEF Entry
    <2>8. UNCHANGED <<pf, written>>
      BY <1>4 DEF SecondChance
    <2>9. QED
      BY <1>1, <2>6, <2>7, <2>8 DEF SafeNow, StoresSafe, KeptSafe
  <1>5. CASE DemoteAndPlace(p)
    <2> DEFINE tail == Last(ActiveList)
    <2>1. /\ PageWorkingSetList # 0 /\ PlacePage(p, AfterDemote)
          /\ ActiveList # << >> /\ p \notin ToSet(SecondList)
      BY <1>1, <1>5, TailsExist DEF DemoteAndPlace, AfterDemote
    <2>2. /\ MemoryOK(AfterDemote) /\ AfterDemote.pf = pf
          /\ AfterDemote.ActiveList = Front(ActiveList)
          /\ AfterDemote.SecondList = Cons(tail, SecondList)
          /\ AfterDemote.pte = [pte EXCEPT ![tail].present = FALSE]
      BY <1>1, <2>1, AfterDemoteMemory
    <2>3. ~AfterDemote.pte[p].mapped
      BY <1>1, <2>1, DemoteAgree, FaultingUnmapped
    <2>4. /\ tail \in Pages
          /\ ToSet(ActiveList) = ToSet(Front(ActiveList)) \cup {tail}
          /\ ToSet(Cons(tail, SecondList)) = {tail} \cup ToSet(SecondList)
      BY <1>1, <2>1, FrontShape, FrontElements, ConsElements
    <2> HIDE DEF tail
    <2>5. \A q \in Pages : /\ AfterDemote.pte[q].mapped = pte[q].mapped
                           /\ AfterDemote.pte[q].modified = pte[q].modified
                           /\ AfterDemote.pte[q].data = pte[q].data
      BY <1>1, <2>2, <2>4 DEF Entry
    <2>6. StoresSafe(ToSet(AfterDemote.ActiveList)
                       \cup ToSet(AfterDemote.SecondList),
                     AfterDemote.pte, AfterDemote.pf)
      BY <1>1, <2>2, <2>4, <2>5 DEF SafeNow, StoresSafe, KeptSafe, Resident
    <2>7. QED BY <1>1, <2>1, <2>2, <2>3, <2>6, PlaceSafe
  <1>6. CASE ReplaceActive(p)
    <2> DEFINE v == Last(ActiveList)
               pt == AfterActiveEviction.pte
               listed == ToSet(AfterActiveEviction.ActiveList)
                           \cup ToSet(AfterActiveEviction.SecondList)
    <2>1. /\ PlacePage(p, AfterActiveEviction)
          /\ ActiveList # << >> /\ p \notin ToSet(SecondList)
      BY <1>1, <1>6, TailsExist DEF ReplaceActive, AfterActiveEviction
    <2>2. ~AfterActiveEviction.pte[p].mapped
      BY <1>1, <2>1, FaultingUnmapped, ActiveEvictionAgree
    <2>3. /\ MemoryOK(AfterActiveEviction)
          /\ AfterActiveEviction.ActiveList = Front(ActiveList)
          /\ AfterActiveEviction.SecondList = SecondList
          /\ pt = [pte EXCEPT ![v] = Unmapped]
          /\ AfterActiveEviction.pf =
               [pf EXCEPT ![v] = IF pte[v].modified /\ @ # "none"
                                 THEN pte[v].data ELSE @]
      BY <1>1, <2>1, AfterActiveEvictionMemory
    <2>4. v \in Pages /\ v \in Resident /\ listed \subseteq Resident
      BY <1>1, <2>1, <2>3, FrontShape, FrontElements DEF Resident
    <2>5. pte[v].mapped
      BY <1>2, <2>4
    <2> HIDE DEF v
    <2>6. ~pt[v].mapped /\ \A q \in Pages : q # v => pt[q] = pte[q]
      BY <1>1, <2>3, <2>4 DEF Unmapped
    <2>7. Resident \subseteq Pages
      BY <1>1, ResidentPages
    <2> HIDE DEF pt, listed
    <2>8. /\ StoresSafe(listed, pt, AfterActiveEviction.pf)
          /\ Slots(AfterActiveEviction.pf) = Slots(pf)
      <3>1. /\ listed \subseteq Resident /\ listed \subseteq Pages
            /\ v \in Resident /\ v \in Pages /\ pte[v].mapped
        BY <2>4, <2>5, <2>7
      <3>2. Unmaps(pt, v)
        BY <2>6 DEF Unmaps
      <3>3. AfterActiveEviction.pf = WrittenBack(v)
        BY <2>3 DEF WrittenBack
      <3>4. /\ StoresSafe(listed, pt, WrittenBack(v))
            /\ Slots(WrittenBack(v)) = Slots(pf)
        BY <1>1, <3>1, <3>2, EvictionSafe
      <3>5. QED BY <3>3, <3>4
    <2>9. QED BY <1>1, <2>1, <2>2, <2>3, <2>8, PlaceSafe DEF pt, listed
  <1>7. CASE ReplaceSecond(p)
    <2> DEFINE v == Last(SecondList)
               tail == Last(ActiveList)
               mid == [pte EXCEPT ![tail].present = FALSE]
               pt == AfterSecondEviction.pte
               listed == ToSet(AfterSecondEviction.ActiveList)
                           \cup ToSet(AfterSecondEviction.SecondList)
    <2>1. /\ PlacePage(p, AfterSecondEviction)
          /\ ActiveList # << >> /\ SecondList # << >>
          /\ p \notin ToSet(SecondList)
      BY <1>1, <1>7, TailsExist DEF ReplaceSecond, AfterSecondEviction
    <2>2. ~AfterSecondEviction.pte[p].mapped
      BY <1>1, <2>1, FaultingUnmapped, SecondEvictionAgree
    <2>3. /\ MemoryOK(AfterSecondEviction)
          /\ AfterSecondEviction.ActiveList = Front(ActiveList)
          /\ AfterSecondEviction.SecondList = Cons(tail, Front(SecondList))
          /\ pt = [mid EXCEPT ![v] = Unmapped]
          /\ AfterSecondEviction.pf =
               [pf EXCEPT ![v] = IF pte[v].modified /\ @ # "none"
                                 THEN pte[v].data ELSE @]
      BY <1>1, <2>1, AfterSecondEvictionMemory
    <2>4. /\ v \in Pages /\ v \in Resident /\ tail \in Pages
          /\ listed \subseteq Resident
      <3>1. /\ v \in Pages /\ tail \in Pages /\ Front(SecondList) \in Seq(Pages)
            /\ ToSet(ActiveList) = ToSet(Front(ActiveList)) \cup {tail}
            /\ ToSet(SecondList) = ToSet(Front(SecondList)) \cup {v}
        BY <1>1, <2>1, FrontShape, FrontElements
      <3>2. ToSet(Cons(tail, Front(SecondList))) =
              {tail} \cup ToSet(Front(SecondList))
        BY <3>1, ConsElements
      <3>3. QED BY <2>3, <3>1, <3>2 DEF Resident
    <2>5. pte[v].mapped
      BY <1>2, <2>4
    <2>6. /\ mid \in [Pages -> Entry]
          /\ \A q \in Pages : /\ mid[q].mapped = pte[q].mapped
                              /\ mid[q].modified = pte[q].modified
                              /\ mid[q].data = pte[q].data
      BY <1>1, <2>4 DEF Entry
    <2> HIDE DEF v, tail, mid
    <2>7. ~pt[v].mapped /\ \A q \in Pages : q # v => pt[q] = mid[q]
      BY <2>3, <2>4, <2>6 DEF Unmapped
    <2>8. Resident \subseteq Pages
      BY <1>1, ResidentPages
    <2> HIDE DEF pt, listed
    <2>9. /\ StoresSafe(listed, pt, AfterSecondEviction.pf)
          /\ Slots(AfterSecondEviction.pf) = Slots(pf)
      <3>1. /\ listed \subseteq Resident /\ listed \subseteq Pages
            /\ v \in Resident /\ v \in Pages /\ pte[v].mapped
        BY <2>4, <2>5, <2>8
      <3>2. Unmaps(pt, v)
        BY <2>6, <2>7 DEF Unmaps
      <3>3. AfterSecondEviction.pf = WrittenBack(v)
        BY <2>3 DEF WrittenBack
      <3>4. /\ StoresSafe(listed, pt, WrittenBack(v))
            /\ Slots(WrittenBack(v)) = Slots(pf)
        BY <1>1, <3>1, <3>2, EvictionSafe
      <3>5. QED BY <3>3, <3>4
    <2>10. QED BY <1>1, <2>1, <2>2, <2>3, <2>9, PlaceSafe DEF pt, listed
  <1>8. QED
    BY <1>3, <1>4, <1>5, <1>6, <1>7 DEF page_fault_handler

\* freeMem forgets the page, and only ever makes other pages accessible.
LEMMA FreeSafe ==
    ASSUME WSInv, AgreeNow, SafeNow, NEW p \in Pages, FreeMem(p)
    PROVE  SafeNow'
  <1>1. /\ pf' = [pf EXCEPT ![p] = "none"] /\ written' = written \ {p}
        /\ TypeOK /\ written \subseteq Pages
        /\ pte \in [Pages -> Entry]
        /\ pf \in [Pages -> {"none", "current", "stale"}]
        /\ ActiveList \in Seq(Pages) /\ SecondList \in Seq(Pages)
        /\ Distinct(ActiveList) /\ Distinct(SecondList)
        /\ ToSet(ActiveList) \cap ToSet(SecondList) = {}
    BY DEF FreeMem, WSInv, TypeOK, AgreeNow, ListsAgree
  <1>2. ASSUME Resident' \subseteq Resident \ {p},
               \A q \in Pages : q # p => /\ pte'[q].mapped = pte[q].mapped
                                         /\ pte'[q].modified = pte[q].modified
                                         /\ pte'[q].data = pte[q].data
        PROVE  SafeNow'
    <2>1. \A q \in Pages : q # p => pf'[q] = pf[q]
      BY <1>1
    <2>2. Resident \subseteq Pages
      BY <1>1, ResidentPages
    <2>3. ASSUME NEW q \in written' PROVE KeptSafe(pte'[q], pf'[q])
      <3>1. KeptSafe(pte[q], pf[q]) /\ q \in Pages /\ q # p
        BY <1>1 DEF SafeNow, StoresSafe
      <3>2. QED BY <1>2, <2>1, <3>1 DEF KeptSafe
    <2>4. \A q \in Resident' : pf'[q] # "none"
      BY <1>2, <2>1, <2>2 DEF SafeNow, StoresSafe
    <2>5. QED BY <2>3, <2>4 DEF SafeNow, StoresSafe
  <1>3. CASE \E i \in DOMAIN ActiveList : RemoveFromActive(p, i)
    <2>1. PICK i \in DOMAIN ActiveList : RemoveFromActive(p, i)
      BY <1>3
    <2>2. /\ ToSet(RemoveAt(ActiveList, i)) = ToSet(ActiveList) \ {p}
          /\ p \in ToSet(ActiveList)
          /\ RemoveAt(ActiveList, i) \in Seq(Pages)
      BY <1>1, <2>1, RemoveAtShape, RemoveAtElements DEF RemoveFromActive
    <2>3. Resident' \subseteq Resident \ {p}
      <3>1. CASE SecondList # << >>
        <4>1. /\ ActiveList' = Append(RemoveAt(ActiveList, i), Head(SecondList))
              /\ SecondList' = Tail(SecondList)
          BY <2>1, <3>1 DEF RemoveFromActive
        <4>2. /\ Head(SecondList) \in Pages
              /\ ToSet(SecondList) = ToSet(Tail(SecondList)) \cup {Head(SecondList)}
          BY <1>1, <3>1, HeadElements
        <4>3. ToSet(ActiveList') = (ToSet(ActiveList) \ {p}) \cup {Head(SecondList)}
          BY <2>2, <4>1, <4>2, AppendElements
        <4>4. QED BY <1>1, <2>2, <4>1, <4>2, <4>3 DEF Resident
      <3>2. CASE SecondList = << >>
        <4>1. ActiveList' = RemoveAt(ActiveList, i) /\ SecondList' = SecondList
          BY <2>1, <3>2 DEF RemoveFromActive
        <4>2. QED BY <1>1, <2>2, <4>1 DEF Resident
      <3>3. QED BY <3>1, <3>2
    <2>4. pte' = [q \in Pages |->
                    IF q = p THEN Unmapped
                    ELSE IF SecondList # << >> /\ q = Head(SecondList)
                         THEN [pte[q] EXCEPT !.present = TRUE]
                         ELSE pte[q]]
      BY <2>1 DEF RemoveFromActive
    <2>5. \A q \in Pages : q # p => /\ pte'[q].mapped = pte[q].mapped
                                    /\ pte'[q].modified = pte[q].modified
                                    /\ pte'[q].data = pte[q].data
      <3>1. \A q \in Pages :
              /\ [pte[q] EXCEPT !.present = TRUE].mapped = pte[q].mapped
              /\ [pte[q] EXCEPT !.present = TRUE].modified = pte[q].modified
              /\ [pte[q] EXCEPT !.present = TRUE].data = pte[q].data
        BY <1>1 DEF Entry
      <3>2. QED BY <2>4, <3>1
    <2>6. QED BY <1>2, <2>3, <2>5
  <1>4. CASE \E i \in DOMAIN SecondList : RemoveFromSecond(p, i)
    <2>1. PICK i \in DOMAIN SecondList : RemoveFromSecond(p, i)
      BY <1>4
    <2>2. /\ ToSet(RemoveAt(SecondList, i)) = ToSet(SecondList) \ {p}
          /\ p \in ToSet(SecondList)
          /\ SecondList' = RemoveAt(SecondList, i) /\ ActiveList' = ActiveList
          /\ pte' = [pte EXCEPT ![p] = Unmapped]
      BY <1>1, <2>1, RemoveAtElements DEF RemoveFromSecond
    <2>3. Resident' \subseteq Resident \ {p}
      BY <1>1, <2>2 DEF Resident
    <2>4. \A q \in Pages : q # p => pte'[q] = pte[q]
      BY <1>1, <2>2
    <2>5. QED BY <1>2, <2>3, <2>4
  <1>5. CASE p \notin Resident /\ UNCHANGED <<ActiveList, SecondList, pte>>
    BY <1>2, <1>5 DEF Resident
  <1>6. QED
    BY <1>3, <1>4, <1>5 DEF FreeMem

\* Every step keeps every store of a living environment.
LEMMA NextStoreInv ==
    ASSUME EnoughDisk, StoreInv, [Next]_vars
    PROVE  StoreInv'
  <1> SUFFICES ASSUME status' = "alive" PROVE SafeNow'
    BY NextResInv, NextDisk DEF StoreInv, ResInv
  <1>1. /\ WSInv /\ TypeOK /\ DiskConservation
        /\ status = "alive" => AgreeNow /\ SafeNow
    BY DEF StoreInv, ResInv, WSInv
  <1>2. CASE UNCHANGED <<status, ActiveList, SecondList, pte, pf, written>>
    BY <1>1, <1>2 DEF SafeNow, StoresSafe, Resident
  <1>3. ASSUME NEW p \in Pages, Store(p) PROVE SafeNow'
    <2>1. /\ SafeNow /\ AgreeNow /\ pte[p].present
          /\ UNCHANGED <<ActiveList, SecondList>>
          /\ written' = written \cup {p}
      BY <1>1, <1>3 DEF Store, CanExecute
    <2>2. pte[p].mapped
      <3>1. PageAgrees(p, ToSet(ActiveList), ToSet(SecondList), pte[p], tables)
        BY <2>1 DEF AgreeNow, ListsAgree
      <3>2. QED BY <2>1, <3>1 DEF PageAgrees
    <2>3. /\ pte'[p].mapped /\ pte'[p].modified /\ pte'[p].data = "current"
          /\ \A q \in Pages : q # p => pte'[q] = pte[q] /\ pf'[q] = pf[q]
          /\ \A q \in Pages : pf'[q] = "none" <=> pf[q] = "none"
      BY <1>1, <1>3, <2>2 DEF Store, TypeOK, Entry
    <2>4. ASSUME NEW q \in written' PROVE KeptSafe(pte'[q], pf'[q])
      <3>1. CASE q = p
        BY <2>3, <3>1 DEF KeptSafe
      <3>2. CASE q # p
        <4>1. KeptSafe(pte[q], pf[q]) /\ q \in Pages
          BY <1>1, <2>1, <3>2 DEF SafeNow, StoresSafe, TypeOK
        <4>2. QED BY <2>3, <3>2, <4>1
      <3>3. QED BY <3>1, <3>2
    <2>5. Resident \subseteq Pages /\ Resident' = Resident
      BY <1>1, <2>1, ResidentPages DEF Resident
    <2>6. QED BY <2>1, <2>3, <2>4, <2>5 DEF SafeNow, StoresSafe
  <1>4. ASSUME NEW p \in Pages, table_fault_handler(p) PROVE SafeNow'
    BY <1>1, <1>4 DEF table_fault_handler, Faulting, SafeNow, StoresSafe,
                      Resident
  <1>5. ASSUME NEW p \in Pages, page_fault_handler(p) PROVE SafeNow'
    <2>1. status = "alive"
      BY <1>5 DEF page_fault_handler, PlaceInActive, SecondChance,
                  DemoteAndPlace, ReplaceActive, ReplaceSecond, PageFaulting,
                  Faulting
    <2>2. QED BY <1>1, <1>5, <2>1, FaultSafe
  <1>6. ASSUME NEW p \in HeapPages, AllocateMem(p) PROVE SafeNow'
    <2>1. /\ SafeNow /\ AgreeNow /\ p \in Pages
          /\ UNCHANGED <<ActiveList, SecondList>>
          /\ written' = written \ {p} /\ written \subseteq Pages
      BY <1>1, <1>6 DEF AllocateMem, InSyscall, Pages, TypeOK
    <2>2. \A q \in Pages : q # p => pte'[q] = pte[q] /\ pf'[q] = pf[q]
      BY <1>1, <1>6 DEF AllocateMem, TypeOK
    <2>3. Resident' = Resident /\ p \notin Resident /\ Resident \subseteq Pages
      <3>1. PageAgrees(p, ToSet(ActiveList), ToSet(SecondList), pte[p], tables)
        BY <2>1 DEF AgreeNow, ListsAgree
      <3>2. QED BY <1>1, <2>1, <3>1, ResidentPages DEF PageAgrees, Resident
    <2>4. QED BY <2>1, <2>2, <2>3 DEF SafeNow, StoresSafe
  <1>7. ASSUME NEW p \in Pages, FreeMem(p) PROVE SafeNow'
    BY <1>1, <1>7, FreeSafe DEF FreeMem, InSyscall
  <1>8. QED
    BY <1>2, <1>3, <1>4, <1>5, <1>6, <1>7
       DEF Next, CPU, Issue, Load, AllocateMemFails, Exit, Die, EnvFree, vars

\* What the program stored last it reads back, whatever pages were replaced
\* in between, if the page file has a place for every page: pf_update_env_page
\* and the MODIFIED bit lose no store.
THEOREM NoLostStoreCorrect ==
    ASSUME EnoughDisk
    PROVE  Spec => []NoLostStore
  <1>1. Init => StoreInv
    BY InitResInv, InitDisk, InitSafe DEF StoreInv
  <1>2. StoreInv /\ [Next]_vars => StoreInv'
    BY NextStoreInv
  <1>3. StoreInv => NoLostStore
    BY DEF StoreInv, SafeNow, StoresSafe, KeptSafe, NoLostStore
  <1>4. QED BY <1>1, <1>2, <1>3, PTL DEF Spec
=============================================================================

------------------------------ MODULE FrameMap ------------------------------
(***************************************************************************)
(* The page directories, the page tables and the reference counts of the   *)
(* frames (kern/memory_manager.c, kern/helpers.c), from the boot of the    *)
(* kernel to the running system: initialize_kernel_VM and                  *)
(* initialize_paging step by step, then every operation of the kernel that *)
(* maps, unmaps or frees a frame, with the processor's cr3 and its TLB.    *)
(*                                                                         *)
(* A frame is a number. Its contents matter when it is a directory or a    *)
(* table: word[f] is then its entries, and what an earlier use left there  *)
(* stays until somebody writes it. An entry is a frame and the PRESENT     *)
(* bit; the other permission bits are left out. A virtual page is a        *)
(* number: PDX and PTX take it apart. Sizes of the boot allocator are in   *)
(* half pages, so that rounding up to a page matters.                      *)
(***************************************************************************)
EXTENDS Integers, Sequences, FiniteSets, SequencesExt

CONSTANTS
  NFrames,        \* number_of_frames
  W,              \* entries of a directory or table (1024)
  BaseEnd,        \* PHYS_IO_MEM, as a frame number
  ExtStart,       \* PHYS_EXTENDED_MEM, as a frame number
  KernelEnd,      \* end_of_kernel, in half pages
  ArrayHalves,    \* size of frames_info and of disk_frames_info, in half pages
  EnvsHalves,     \* size of envs, in half pages
  Envs,           \* environments
  StackPage,      \* USTACKTOP - PAGE_SIZE, a virtual page
  SegmentPages,   \* the pages of the program's segment, in order
  OtherPages,     \* other pages a program or an operator may name
  ActiveListSize, \* of every environment
  SecondListSize,
  PowerOn,        \* what the memory may hold when the machine starts: entries
  MaxSteps        \* bound: operations after the boot

Zero == [pa |-> 0, p |-> FALSE]
Frames == 0 .. NFrames - 1
PDX(v) == v \div W
PTX(v) == v % W

\* The layout of inc/memlayout.h in directories: two of user space, then
\* RO ENVS, UVPT, the kernel stack, VPT, and the remapped physical memory.
UserDirs == 0 .. 1
UENVS == 2 * W
UVPT == 3 * W
USER_LIMIT == 4 * W
VPT == 5 * W
KERNEL_BASE == 6 * W
KERNEL_STACK_TOP == VPT
KERNEL_STACK_SIZE == 2
KernelPages == KERNEL_BASE .. W * W - 1
UserPages == {StackPage} \cup ToSet(SegmentPages) \cup OtherPages

ASSUME LayoutFits ==
  /\ {NFrames, W, BaseEnd, ExtStart, KernelEnd} \subseteq Nat \ {0}
  /\ NFrames <= Cardinality(KernelPages) /\ UserPages \subseteq 0 .. 2 * W - 1
  /\ 2 < BaseEnd /\ BaseEnd < ExtStart /\ 2 * (ExtStart + KERNEL_STACK_SIZE) <= KernelEnd

\* A program's segments and its stack are on different pages, and the active
\* list has a place for the stack.
ASSUME ProgramFits ==
  /\ SegmentPages \in Seq(Nat) /\ IsInjective(SegmentPages) /\ StackPage \notin ToSet(SegmentPages)
  /\ ActiveListSize \in Nat \ {0} /\ SecondListSize \in Nat

VARIABLES
  pc,       \* the step of the boot, then "run"
  free_mem, \* ptr_free_mem, in half pages
  m,        \* memory: [word, refs (references), free (free_frame_list), panic]
  kdir,     \* ptr_page_directory, the kernel's
  env,      \* env[e]: [status, dir (env_cr3), active, second, pf (its pages in
            \* the page file), disk (frames of the page file's tables, and at
            \* DiskDir that of its directory)]; 0 for a frame it has not
  cr3,      \* whose directory the processor uses: "kernel" or an environment
  tlb,      \* the translations the processor has cached: <<page, frame>>s
  steps     \* operations so far

vars == <<pc, free_mem, m, kdir, env, cr3, tlb, steps>>

Put(mem, f, i, e) == [mem EXCEPT !.word[f][i] = e]
Present(f) == [pa |-> f, p |-> TRUE]

----------------------------------------------------------------------------
(* Boot: allocation from the end of the kernel, tables not zeroed. *)

RoundUp(h) == h + (h % 2)

\* The memory does not end with the kernel's image; it holds entries at power on.
ASSUME MachineFits ==
  /\ "kernel" \notin Envs /\ RoundUp(KernelEnd) < 2 * NFrames
  /\ {ArrayHalves, EnvsHalves} \subseteq Nat /\ PowerOn \subseteq [pa : Nat, p : BOOLEAN]

\* boot_allocate_space: the frame where the space starts, for a size in halves.
BootStart(fm) == RoundUp(fm) \div 2
BootNext(fm, size) == RoundUp(fm) + size

\* boot_get_page_table(.., 1) on b = [m, fm, dir]: a new table is not cleared.
boot_get_page_table(b, v) ==
  IF b.m.word[b.dir][PDX(v)].pa # 0 THEN b
  ELSE [b EXCEPT !.m = Put(@, b.dir, PDX(v), Present(BootStart(b.fm))),
                 !.fm = BootNext(@, 2)]

\* boot_map_range, page by page.
MapAtBoot(b, x) ==
  LET t == boot_get_page_table(b, x.v) IN
  [t EXCEPT !.m = Put(@, t.m.word[t.dir][PDX(x.v)].pa, PTX(x.v), Present(x.pa))]

boot_map_range(b, v, n, pa) ==
  FoldLeft(MapAtBoot, b, [i \in 1 .. n |-> [v |-> v + i - 1, pa |-> pa + i - 1]])

B == [m |-> m, fm |-> free_mem, dir |-> kdir]
SetB(b) == m' = b.m /\ free_mem' = b.fm

UnchangedAtBoot == UNCHANGED <<env, cr3, tlb, steps>>
ClearFrame(mem, f) == [mem EXCEPT !.word[f] = [i \in 0 .. W - 1 |-> Zero]]

BootDirectory ==
  /\ pc = "directory" /\ pc' = "stack"
  /\ kdir' = BootStart(free_mem)
  /\ m' = ClearFrame(m, BootStart(free_mem))
  /\ free_mem' = BootNext(free_mem, 2)
  /\ UnchangedAtBoot


\* Mutant: the page under the stack is mapped with it.
BootStackTooLarge ==
  /\ pc = "stack" /\ pc' = "tables"
  /\ SetB(boot_map_range(B, KERNEL_STACK_TOP - KERNEL_STACK_SIZE - 1, KERNEL_STACK_SIZE + 1, ExtStart - 1))
  /\ UNCHANGED kdir /\ UnchangedAtBoot

\* The kernel stack lies in the kernel's image, in the frame ExtStart and the next.
BootStack ==
  /\ pc = "stack" /\ pc' = "tables"
  /\ SetB(boot_map_range(B, KERNEL_STACK_TOP - KERNEL_STACK_SIZE, KERNEL_STACK_SIZE, ExtStart))
  /\ UNCHANGED kdir /\ UnchangedAtBoot

BootTables ==
  /\ pc = "tables" /\ pc' = "arrays"
  /\ SetB(FoldLeft(boot_get_page_table, B, [i \in 1 .. W - PDX(KERNEL_BASE) |-> KERNEL_BASE + (i - 1) * W]))
  /\ UNCHANGED kdir /\ UnchangedAtBoot

\* frames_info and disk_frames_info, then the directory entered into itself.
BootArrays ==
  /\ pc = "arrays" /\ pc' = "envs"
  /\ free_mem' = BootNext(BootNext(free_mem, ArrayHalves), ArrayHalves)
  /\ m' = Put(Put(m, kdir, PDX(VPT), Present(kdir)), kdir, PDX(UVPT), Present(kdir))
  /\ UNCHANGED kdir /\ UnchangedAtBoot

BootEnvs ==
  /\ pc = "envs" /\ pc' = "remap"
  /\ LET b == [B EXCEPT !.fm = BootNext(@, EnvsHalves)] IN
     SetB(boot_map_range(b, UENVS, (EnvsHalves + 1) \div 2, BootStart(free_mem)))
  /\ UNCHANGED kdir /\ UnchangedAtBoot


\* Mutant: the size 0xFFFFFFFF - KERNEL_BASE rounded down to a page.
BootRemapButLast ==
  /\ pc = "remap" /\ pc' = "paging_on"
  /\ SetB(boot_map_range(B, KERNEL_BASE, Cardinality(KernelPages) - 1, 0))
  /\ UNCHANGED kdir /\ UnchangedAtBoot

\* All of the kernel's area onto the physical memory, page for page.
BootRemap ==
  /\ pc = "remap" /\ pc' = "paging_on"
  /\ SetB(boot_map_range(B, KERNEL_BASE, Cardinality(KernelPages), 0))
  /\ UNCHANGED kdir /\ UnchangedAtBoot

\* turn_on_paging: the first directories alias the kernel's while cr0 changes,
\* up to that of the 32-bit address ptr_free_mem.
LowAliases ==
  [i \in 1 .. PDX((KERNEL_BASE + free_mem \div 2) % (W * W)) - PDX(KERNEL_BASE) |-> i - 1]
Alias(mem, j) == Put(mem, kdir, j, mem.word[kdir][PDX(KERNEL_BASE) + j])
Unalias(mem, j) == Put(mem, kdir, j, Zero)

\* The directory that holds ptr_free_mem itself is not aliased.
BootPagingOn ==
  /\ pc = "paging_on" /\ pc' = "paging_off_low"
  /\ m' = FoldLeft(Alias, m, LowAliases)
  /\ UNCHANGED <<free_mem, kdir>> /\ UnchangedAtBoot

BootPagingLow ==
  /\ pc = "paging_off_low" /\ pc' = "frames"
  /\ m' = FoldLeft(Unalias, m, LowAliases)
  /\ UNCHANGED <<free_mem, kdir>> /\ UnchangedAtBoot

\* initialize_paging: every frame but 0, 1, 2, the I/O hole and the kernel's.
Reserved == 0 .. 2 \cup BaseEnd .. ExtStart - 1 \cup ExtStart .. BootStart(free_mem) - 1

InsertFrame(list, f) == IF f \in Reserved THEN list ELSE <<f>> \o list

initialize_paging ==
  /\ pc = "frames" /\ pc' = "run"
  /\ m' = [m EXCEPT !.refs = [f \in Frames |-> IF f \in Reserved THEN 1 ELSE 0],
                    !.free = FoldLeft(InsertFrame, <<>>, [i \in 1 .. NFrames |-> i - 1])]
  /\ UNCHANGED <<free_mem, kdir>> /\ UnchangedAtBoot

Boot == \/ BootDirectory \/ BootStack \/ BootTables \/ BootArrays \/ BootEnvs
        \/ BootRemap \/ BootPagingOn \/ BootPagingLow \/ initialize_paging

----------------------------------------------------------------------------
(* Frames and mappings: functions of the memory; mem.panic ends the handler. *)


\* Mutant: the frame stays on the free list.
FrameNotRemoved(mem) ==
  IF mem.free = <<>> THEN [mem EXCEPT !.panic = TRUE]
  ELSE [mem EXCEPT !.refs[Head(mem.free)] = 0]

allocate_frame(mem) ==
  IF mem.free = <<>> THEN [mem EXCEPT !.panic = TRUE]
  ELSE [mem EXCEPT !.free = Tail(@), !.refs[Head(mem.free)] = 0]


\* Mutant: initialize_frame_info forgotten.
FrameNotCleared(mem, f) == [mem EXCEPT !.free = <<f>> \o @]

free_frame(mem, f) == [mem EXCEPT !.refs[f] = 0, !.free = <<f>> \o @]

decrement_references(mem, f) ==
  IF mem.refs[f] = 1 THEN free_frame(mem, f) ELSE [mem EXCEPT !.refs[f] = @ - 1]

\* A frame used as itself: allocated, counted once, cleared.
TakeFrame(mem) ==
  IF mem.free = <<>> THEN allocate_frame(mem)
  ELSE LET f == Head(mem.free) IN ClearFrame([allocate_frame(mem) EXCEPT !.refs[f] = 1], f)

__static_cpt(mem, d, v) ==
  LET t == TakeFrame(mem) IN
  IF t.panic THEN t ELSE Put(t, d, PDX(v), Present(Head(mem.free)))

HasTable(mem, d, v) == mem.word[d][PDX(v)] # Zero
PTE(mem, d, v) == mem.word[mem.word[d][PDX(v)].pa][PTX(v)]
SetPTE(mem, d, v, e) == Put(mem, mem.word[d][PDX(v)].pa, PTX(v), e)

\* The frame of get_frame_info, 0 for none: an entry counts, PRESENT or not.
get_frame_info(mem, d, v) == IF HasTable(mem, d, v) THEN PTE(mem, d, v).pa ELSE 0


\* Mutant: the reference count is left alone.
UnmapUncounted(mem, d, v) ==
  IF get_frame_info(mem, d, v) = 0 THEN mem ELSE SetPTE(mem, d, v, Zero)

unmap_frame(mem, d, v) ==
  LET f == get_frame_info(mem, d, v) IN
  IF f = 0 THEN mem ELSE SetPTE(decrement_references(mem, f), d, v, Zero)

MapOver(mem, d, f, v) == SetPTE([mem EXCEPT !.refs[f] = @ + 1], d, v, Present(f))

WithTable(mem, d, v) == IF HasTable(mem, d, v) THEN mem ELSE __static_cpt(mem, d, v)

loadtime_map_frame(mem, d, f, v) ==
  LET t == WithTable(mem, d, v) IN IF t.panic THEN t ELSE MapOver(t, d, f, v)

\* An entry that is PRESENT is unmapped first, unless it is the same; one that
\* is not is overwritten.
map_frame(mem, d, f, v) ==
  LET t == WithTable(mem, d, v)
      e == PTE(t, d, v)
  IN IF t.panic \/ (e.p /\ e.pa = f) THEN t
     ELSE MapOver(IF e.p THEN unmap_frame(t, d, v) ELSE t, d, f, v)

\* allocate_frame, then map what it gave: its contents are data.
MapNew(mem, d, v, map(_, _, _, _)) ==
  LET a == allocate_frame(mem) IN
  IF a.panic THEN a ELSE map(ClearFrame(a, Head(mem.free)), d, Head(mem.free), v)

\* pt_set_page_permissions with PERM_PRESENT: set (p) or cleared. On an entry
\* that is zero it would leave the bit alone in the word.
SetPresent(mem, d, v, p) ==
  IF HasTable(mem, d, v) THEN SetPTE(mem, d, v, [PTE(mem, d, v) EXCEPT !.p = p])
  ELSE [mem EXCEPT !.panic = TRUE]


\* Mutant: the table of the last page is not counted.
RequiredButLast(mem, d, v, n) ==
  Cardinality({t \in PDX(v) .. PDX(v + n - 2) : mem.word[d][t] = Zero})
  + Cardinality({u \in v .. v + n - 1 : get_frame_info(mem, d, u) = 0})

calculate_required_frames(mem, d, v, n) ==
  Cardinality({t \in PDX(v) .. PDX(v + n - 1) : mem.word[d][t] = Zero})
  + Cardinality({u \in v .. v + n - 1 : get_frame_info(mem, d, u) = 0})

----------------------------------------------------------------------------
(* The page file's own tables live in frames too. *)

DiskDir == 2                     \* user directories are 0 and 1
NoEnv == [status |-> "free", dir |-> 0, active |-> <<>>, second |-> <<>>,
          pf |-> {}, disk |-> [i \in 0 .. DiskDir |-> 0]]

\* s = [m, e]: the memory and the environment a handler works on.
DiskTable(s, i) ==
  IF s.e.disk[i] # 0 \/ s.m.panic THEN s
  ELSE LET t == TakeFrame(s.m) IN
       IF t.panic THEN [s EXCEPT !.m = t]
       ELSE [m |-> t, e |-> [s.e EXCEPT !.disk[i] = Head(s.m.free)]]

pf_add_env_page(s, v) ==
  LET t == DiskTable(DiskTable(s, DiskDir), PDX(v)) IN
  IF t.m.panic THEN t ELSE [t EXCEPT !.e.pf = @ \cup {v}]

pf_remove_env_page(s, v) == [s EXCEPT !.e.pf = @ \ {v}]

FreeDiskTable(s, i) ==
  IF s.e.disk[i] = 0 THEN s
  ELSE [s EXCEPT !.m = decrement_references(@, s.e.disk[i]), !.e.disk[i] = 0]

pf_free_env(s) ==
  [FreeDiskTable(FreeDiskTable(FreeDiskTable(s, 0), 1), DiskDir) EXCEPT !.e = NoEnv]

----------------------------------------------------------------------------
(* env_create, env_run, env_free. *)

\* A step of a handler: nothing once it has panicked.
Then(s, op(_)) == IF s.m.panic THEN s ELSE op(s)
WithMem(s, mem) == [s EXCEPT !.m = mem]


\* Mutant: the kernel's windows onto its own tables are copied with the rest.
DirectoryWithoutWindows(s) ==
  LET t == TakeFrame(s.m)
      d == Head(s.m.free)
      Own == [i \in 0 .. W - 1 |-> IF i < PDX(UENVS) THEN Zero ELSE s.m.word[kdir][i]]
  IN IF t.panic THEN WithMem(s, t)
     ELSE [m |-> [t EXCEPT !.word[d] = Own], e |-> [NoEnv EXCEPT !.status = "alive", !.dir = d]]

CreateDirectory(s) ==
  LET t == TakeFrame(s.m)
      d == Head(s.m.free)
      Own == [i \in 0 .. W - 1 |-> IF i \in {PDX(VPT), PDX(UVPT)} THEN Present(d)
                                   ELSE IF i < PDX(UENVS) THEN Zero ELSE s.m.word[kdir][i]]
  IN IF t.panic THEN WithMem(s, t)
     ELSE [m |-> [t EXCEPT !.word[d] = Own], e |-> [NoEnv EXCEPT !.status = "alive", !.dir = d]]

\* One place of the active list is kept for the stack.
LoadPage(limit, s, v) ==
  LET t == WithMem(s, MapNew(s.m, s.e.dir, v, loadtime_map_frame)) IN
  IF t.m.panic THEN t
  ELSE IF Len(s.e.active) < limit THEN [t EXCEPT !.e.active = <<v>> \o @]
  ELSE [t EXCEPT !.e.second = <<v>> \o @]

Min2(a, b) == IF a < b THEN a ELSE b
Loaded == SubSeq(SegmentPages, 1, Min2(Len(SegmentPages), ActiveListSize + SecondListSize - 1))

LoadSegmentPage(s, v) == Then(s, LAMBDA x : LoadPage(ActiveListSize - 1, x, v))
Hide(s, v) == WithMem(s, SetPresent(s.m, s.e.dir, v, FALSE))

env_create(s) ==
  LET load(t) == FoldLeft(LoadSegmentPage, t, Loaded)
      disk(t) == FoldLeft(pf_add_env_page, t, SegmentPages)
      stack(t) == pf_add_env_page(LoadPage(ActiveListSize, t, StackPage), StackPage)
      hide(t) == FoldLeft(Hide, t, t.e.second)
  IN Then(Then(Then(Then(CreateDirectory(s), load), disk), stack), hide)

Unmap(s, v) == WithMem(s, unmap_frame(s.m, s.e.dir, v))

FreeTable(s, i) ==
  LET t == s.m.word[s.e.dir][i].pa IN
  IF t = 0 THEN s
  ELSE WithMem(s, Put(IF s.m.refs[t] = 0 THEN s.m ELSE free_frame(s.m, t), s.e.dir, i, Zero))

\* Pages in neither list stay mapped in tables that are given away.
env_free(s) ==
  LET pages == FoldLeft(Unmap, s, s.e.second \o s.e.active)
      tables == FreeTable(FreeTable(pages, 0), 1)
  IN pf_free_env([tables EXCEPT !.m = free_frame(@, s.e.dir), !.e.dir = 0])

----------------------------------------------------------------------------
(* The page-fault handler and the system calls, as far as frames go. *)

\* LIST_REMOVE of the element of v.
Without(q, v) == RemoveAt(q, CHOOSE i \in DOMAIN q : q[i] = v)

Demote(s) ==
  LET v == Last(s.e.active) IN
  WithMem([s EXCEPT !.e.active = Front(@), !.e.second = <<v>> \o @],
          SetPresent(s.m, s.e.dir, v, FALSE))

\* Allocate, map, read from the page file; only then is the page in a list.
Place(s, v) ==
  LET t == WithMem(s, MapNew(s.m, s.e.dir, v, map_frame))
      u == IF v \in t.e.pf THEN t ELSE pf_add_env_page(t, v)
  IN IF t.m.panic THEN t
     ELSE IF v \in t.e.pf \/ v = StackPage THEN Then(u, LAMBDA x : [x EXCEPT !.e.active = <<v>> \o @])
     ELSE [t EXCEPT !.m.panic = TRUE]

Promote(s, v) ==
  Demote([m |-> SetPresent(s.m, s.e.dir, v, TRUE),
          e |-> [s.e EXCEPT !.second = Without(@, v)]])

\* The promoted page goes to the front after the tail has left the active list.
Refault(s, v) == LET t == Promote(s, v) IN [t EXCEPT !.e.active = <<v>> \o @]

page_fault_handler(s, v) ==
  LET full == Len(s.e.active) + Len(s.e.second) = ActiveListSize + SecondListSize
      last == Last(s.e.second)
  IN IF ~full /\ Len(s.e.active) # ActiveListSize THEN Place(s, v)
     ELSE IF v \in ToSet(s.e.second) THEN Refault(s, v)
     ELSE IF ~full THEN Place(Demote(s), v)
     ELSE IF SecondListSize = 0
     THEN Place([Unmap(s, Last(s.e.active)) EXCEPT !.e.active = Front(@)], v)
     ELSE Place(Demote([Unmap(s, last) EXCEPT !.e.second = Front(@)]), v)

fault_handler(s, v) ==
  IF HasTable(s.m, s.e.dir, v) THEN page_fault_handler(s, v)
  ELSE WithMem(s, __static_cpt(s.m, s.e.dir, v))

\* n pages from v on.
PagesFrom(v, n) == [i \in 1 .. n |-> v + i - 1]

MapPage(s, v) == Then(s, LAMBDA x : WithMem(x, MapNew(x.m, x.e.dir, v, map_frame)))
AllocatePage(s, v) == MapPage(Then(s, LAMBDA x : pf_add_env_page(x, v)), v)

allocateMem(s, v, n) == FoldLeft(AllocatePage, s, PagesFrom(v, n))

\* pt_clear_page_table_entry follows the unmapping; an empty table is freed.
DropPage(s, v) ==
  WithMem(s, SetPTE(unmap_frame(s.m, s.e.dir, v), s.e.dir, v, Zero))

DropTable(s, v) ==
  LET t == s.m.word[s.e.dir][PDX(v)].pa IN
  IF t # 0 /\ \A i \in 0 .. W - 1 : s.m.word[t][i] = Zero
  THEN WithMem(s, Put(free_frame(s.m, t), s.e.dir, PDX(v), Zero)) ELSE s


\* Mutant: the page moves without becoming PRESENT.
RefillHidden(s) ==
  IF s.e.second = <<>> THEN s
  ELSE [s EXCEPT !.e.second = Tail(@), !.e.active = Append(@, Head(s.e.second))]

\* The head of the second list takes the place of a page of the active list.
Refill(s) ==
  IF s.e.second = <<>> THEN s
  ELSE [m |-> SetPresent(s.m, s.e.dir, Head(s.e.second), TRUE),
        e |-> [s.e EXCEPT !.second = Tail(@), !.active = Append(@, Head(s.e.second))]]

freeMem(s, v) ==
  LET t == pf_remove_env_page(s, v) IN
  IF v \in ToSet(t.e.active)
  THEN DropTable(Refill([DropPage(t, v) EXCEPT !.e.active = Without(@, v)]), v)
  ELSE IF v \in ToSet(t.e.second)
  THEN DropTable([DropPage(t, v) EXCEPT !.e.second = Without(@, v)], v)
  ELSE t

\* Takes n frames for nobody, or all there are and panics.
TakeAway(mem, n) ==
  LET taken == Min2(n, Len(mem.free)) IN
  [mem EXCEPT !.refs = [f \in Frames |-> IF f \in ToSet(SubSeq(mem.free, 1, taken)) THEN 0 ELSE @[f]],
              !.free = SubSeq(@, taken + 1, Len(@)), !.panic = n > Len(mem.free)]

\* total frames are to be in use; one more is taken, and every one when as many
\* already are: the difference is unsigned.
scarce_memory(mem, total) ==
  LET used == NFrames - Len(mem.free) IN
  TakeAway(mem, IF total < used THEN Len(mem.free) + 1 ELSE total - used + 1)

----------------------------------------------------------------------------
(* The running system: one step per handler, interrupts being off in all. *)

Operation == /\ pc = "run" /\ steps < MaxSteps /\ steps' = steps + 1
             /\ UNCHANGED <<pc, free_mem, kdir>>
On(e) == [m |-> [m EXCEPT !.panic = FALSE], e |-> env[e]]

\* The handler's memory and e; what it invalidates. A panic exits the caller,
\* and the scheduler comes back to the kernel's directory.
Finish(e, s, inv) ==
  LET now == [env EXCEPT ![e] = s.e] IN
  /\ m' = s.m
  /\ env' = IF s.m.panic /\ cr3 \in Envs THEN [now EXCEPT ![cr3].status = "exit"] ELSE now
  /\ cr3' = IF s.m.panic THEN "kernel" ELSE cr3
  /\ tlb' = IF s.m.panic THEN {} ELSE {x \in tlb : x[1] \notin inv}

\* By the prompt's run and load, or by sys_create_env of another environment.
Create(e) ==
  /\ Operation /\ env[e].status = "free" /\ cr3 # e
  /\ LET s == env_create(On(e)) IN
     Finish(e, IF s.m.panic /\ s.e.dir # 0 THEN [s EXCEPT !.e.status = "stuck"] ELSE s, UserPages)

Free(e) ==
  /\ Operation /\ env[e].status \in {"alive", "exit"} /\ cr3 # e
  /\ Finish(e, env_free(On(e)), UserPages)

env_run(e) ==
  /\ Operation /\ env[e].status = "alive" /\ cr3 # e
  /\ cr3' = e /\ tlb' = {}
  /\ UNCHANGED <<m, env>>

Prompt ==
  /\ Operation /\ cr3 # "kernel"
  /\ cr3' = "kernel" /\ tlb' = {}
  /\ UNCHANGED <<m, env>>

PresentAt(e, v) == HasTable(m, env[e].dir, v) /\ PTE(m, env[e].dir, v).p

\* The processor caches one translation; which others it drops is its affair.
Access(v) ==
  /\ pc = "run" /\ cr3 \in Envs /\ PresentAt(cr3, v)
  /\ tlb' = {<<v, PTE(m, env[cr3].dir, v).pa>>}
  /\ UNCHANGED <<pc, free_mem, m, kdir, env, cr3, steps>>

PageFault(v) ==
  /\ Operation /\ cr3 \in Envs /\ ~PresentAt(cr3, v)
  /\ Finish(cr3, fault_handler(On(cr3), v), UserPages)


\* Mutant: the processor may go on using what the mapping replaced.
MapWithoutInvalidation(v, n) ==
  /\ Operation /\ cr3 \in Envs
  /\ Finish(cr3, allocateMem(On(cr3), v, n), {})

sys_allocateMem(v, n) ==
  /\ Operation /\ cr3 \in Envs
  /\ Finish(cr3, allocateMem(On(cr3), v, n), v .. v + n - 1)

sys_freeMem(v) ==
  /\ Operation /\ cr3 \in Envs
  /\ Finish(cr3, freeMem(On(cr3), v), UserPages)

\* The frame is taken before the address and the permissions are looked at.
__sys_allocate_page(v, valid) ==
  /\ Operation /\ cr3 \in Envs
  /\ LET s == On(cr3) IN
     Finish(cr3, WithMem(s, IF valid THEN MapNew(s.m, s.e.dir, v, map_frame) ELSE allocate_frame(s.m)), {v})

sys_clearFFL ==
  /\ Operation /\ cr3 \in Envs
  /\ LET s == On(cr3) IN Finish(cr3, WithMem(s, TakeAway(s.m, Len(s.m.free))), {})

sys_scarce_memory(total) ==
  /\ Operation /\ cr3 \in Envs
  /\ LET s == On(cr3) IN Finish(cr3, WithMem(s, scarce_memory(s.m, total)), {})

command_allocuserpage(e, v) ==
  /\ Operation /\ cr3 = "kernel" /\ env[e].status # "free"
  /\ LET s == On(e) IN Finish(e, WithMem(s, MapNew(s.m, s.e.dir, v, map_frame)), {v})

Run ==
  \/ \E e \in Envs : Create(e) \/ Free(e) \/ env_run(e)
  \/ \E e \in Envs, v \in UserPages : command_allocuserpage(e, v)
  \/ \E v \in UserPages : \/ Access(v) \/ PageFault(v) \/ sys_freeMem(v)
                          \/ \E valid \in BOOLEAN : __sys_allocate_page(v, valid)
  \/ \E v \in OtherPages, n \in 1 .. 2 : v + n - 1 \in OtherPages /\ sys_allocateMem(v, n)
  \/ Prompt \/ sys_clearFFL
  \/ \E total \in {NFrames \div 2, NFrames - 1} : sys_scarce_memory(total)

Init ==
  /\ pc = "directory" /\ free_mem = KernelEnd /\ kdir = 0
  /\ \E g \in PowerOn : m = [word |-> [f \in Frames |-> [i \in 0 .. W - 1 |-> g]],
                             refs |-> [f \in Frames |-> 0], free |-> <<>>, panic |-> FALSE]
  /\ env = [e \in Envs |-> NoEnv] /\ cr3 = "kernel" /\ tlb = {} /\ steps = 0

Next == Boot \/ Run
Spec == Init /\ [][Next]_vars

----------------------------------------------------------------------------
(* Properties. *)

Live == {e \in Envs : env[e].dir # 0}
Resident(e) == {v \in 0 .. 2 * W - 1 : HasTable(m, env[e].dir, v) /\ PTE(m, env[e].dir, v) # Zero}

\* Every use of a frame, each as a pair of what it is and where.
Uses == UNION {{<<env[e].dir, e, "dir">>} \cup {<<m.word[env[e].dir][i].pa, e, "table", i>> :
                                               i \in {j \in UserDirs : m.word[env[e].dir][j] # Zero}}
               \cup {<<PTE(m, env[e].dir, v).pa, e, "page", v>> : v \in Resident(e)}
               \cup {<<env[e].disk[i], e, "disk", i>> : i \in {j \in 0 .. DiskDir : env[e].disk[j] # 0}} :
               e \in Live}
Used == {u[1] : u \in Uses}
Lost == IF pc = "run" THEN Frames \ (Reserved \cup ToSet(m.free) \cup Used) ELSE {}

\* No frame serves two purposes, whatever was freed, replaced and given out
\* again: not as a page of two environments, nor as a page and a table.
NothingShared == Cardinality(Used) = Cardinality(Uses)

\* A frame on the free list is on it once and nothing uses it; the kernel's
\* own frames never get there; a used frame counts its one use.
FreeIsFree ==
  pc = "run" => /\ IsInjective(m.free)
                /\ ToSet(m.free) \cap (Used \cup Reserved) = {}
                /\ \A f \in Used : m.refs[f] = 1
                /\ \A f \in ToSet(m.free) : m.refs[f] = 0

\* Each directory holds the kernel's half, however late it was made, and its
\* own windows onto its tables.
KernelHalfShared ==
  \A e \in Live : \A i \in PDX(UENVS) .. W - 1 :
    m.word[env[e].dir][i] = IF i \in {PDX(VPT), PDX(UVPT)} THEN Present(env[e].dir) ELSE m.word[kdir][i]

\* The processor never translates through an entry that was changed since.
TLBCoherent == \A x \in tlb : cr3 \in Envs /\ PresentAt(cr3, x[1]) /\ PTE(m, env[cr3].dir, x[1]).pa = x[2]

\* The second list is what is mapped and not PRESENT, but for pages that an
\* explicit mapping has made PRESENT again under the list.
HiddenIsSecond ==
  \A e \in Live : env[e].status # "stuck" =>
    \A v \in Resident(e) : ~PTE(m, env[e].dir, v).p => v \in ToSet(env[e].second)

\* calculate_required_frames foretells what mapping a range of absent pages takes.
RequiredIsExact ==
  \A e \in Live : \A v \in OtherPages : \A n \in {k \in 1 .. 2 : v + k <= 2 * W} :
    LET after == FoldLeft(MapPage, On(e), PagesFrom(v, n)).m
        need == calculate_required_frames(m, env[e].dir, v, n)
    IN (\A u \in v .. v + n - 1 : get_frame_info(m, env[e].dir, u) = 0) =>
         IF after.panic THEN need > Len(m.free) ELSE need = Len(m.free) - Len(after.free)

\* check_boot_pgdir and, while paging is switched on, that the kernel's image
\* is still where the processor executes it.
KernelVA(v) == m.word[m.word[kdir][PDX(v)].pa][PTX(v)]
BootChecks ==
  /\ pc = "paging_on" =>
       /\ \A i \in 0 .. Cardinality(KernelPages) - 1 : KernelVA(KERNEL_BASE + i) = Present(i)
       /\ \A i \in 0 .. KERNEL_STACK_SIZE - 1 :
            KernelVA(KERNEL_STACK_TOP - KERNEL_STACK_SIZE + i) = Present(ExtStart + i)
       /\ \A i \in 0 .. W - 1 : (m.word[kdir][i] # Zero) <=>
            (i >= PDX(KERNEL_BASE) \/ i \in {PDX(VPT), PDX(UVPT), PDX(KERNEL_STACK_TOP - 1), PDX(UENVS)})
  /\ pc = "paging_off_low" => \A f \in ExtStart .. (KernelEnd - 1) \div 2 : KernelVA(f) = Present(f)
  /\ pc = "run" => \A i \in UserDirs : m.word[kdir][i] = Zero

\* "The kernel ensures that Invalid Memory (USER_LIMIT) is never mapped": the
\* directory of the kernel stack maps the stack and nothing else.
GuardUnmapped ==
  pc = "run" => \A v \in USER_LIMIT .. KERNEL_STACK_TOP - KERNEL_STACK_SIZE - 1 : ~KernelVA(v).p

\* Every frame is accounted for: it has one use or is free, and the number a
\* mapping takes is the number foretold.
FramesAccounted == NothingShared /\ FreeIsFree /\ RequiredIsExact

\* The kernel is mapped as boot meant it to be, and alike in every environment,
\* with nothing below its stack.
KernelMapped == KernelHalfShared /\ BootChecks /\ GuardUnmapped

\* What the processor believes, what the tables say and what the lists say of a
\* page are the same.
TranslationsAgree == TLBCoherent /\ HiddenIsSecond

\* A mapping over a page of the second list; an env_free of pages in no list.
OverHidden == \E e \in Live, v \in UserPages :
  HasTable(m, env[e].dir, v) /\ ~PTE(m, env[e].dir, v).p /\ PTE(m, env[e].dir, v).pa # 0
  /\ \E x \in Envs : env'[x].dir = env[e].dir /\ HasTable(m, env[e].dir, v)
  /\ m'.word[m.word[env[e].dir][PDX(v)].pa][PTX(v)].pa # PTE(m, env[e].dir, v).pa
FreedUnlisted == \E e \in Live : env'[e].dir = 0 /\ Resident(e) # ToSet(env[e].active \o env[e].second)

\* Frames are lost in known ways only: a handler that panics half-way, the two
\* calls made to take memory away, a refused __sys_allocate_page, a mapping
\* over a hidden page, and env_free of pages that are in neither list.
LossesAreKnown ==
  [][\/ Lost' \subseteq Lost
     \/ m'.panic \/ OverHidden \/ FreedUnlisted \/ sys_clearFFL
     \/ \E total \in {NFrames \div 2, NFrames - 1} : sys_scarce_memory(total)
     \/ \E v \in UserPages : __sys_allocate_page(v, FALSE)]_vars
=============================================================================

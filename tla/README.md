# FOS: a TLA+ model of the kernel, its library and its programs

FOS is a teaching operating system: a small monolithic kernel for one i386
processor, a user library and a set of user programs.  All of it is under
`src/PROJECT_template`; paths below are relative to that directory, and
`file.c:n` is a line of it.  This project models the parts that keep state and
whose correctness depends on the order in which things happen, and the
algorithms they are built from.

## 1. Inventory

| Part | State | Operations | What makes it correct |
|---|---|---|---|
| Page faults and working set (`kern/trap.c`) | `PageWorkingSetList`, `ActiveList`, `SecondList` of each environment | `fault_handler`, `table_fault_handler`, `page_fault_handler` | the lists agree with the page tables; the page replaced is the least recently used one; no store is lost; an instruction completes |
| Memory manager (`kern/memory_manager.c`, `kern/helpers.c`) | `free_frame_list`, `frames_info`, page directories and tables, the TLB | the boot of the memory; `allocate_frame`, `free_frame`, `map_frame`, `unmap_frame`, `allocateMem`, `freeMem`, `calculate_*` | a frame has one use or is free; the TLB agrees with the tables; a count foretold is the count taken |
| Page file (`kern/file_manager.c`) | `disk_free_frame_list`, the disk page tables of each environment | `pf_add_empty_env_page`, `pf_add_env_page`, `pf_update_env_page`, `pf_read_env_page`, `pf_remove_env_page`, `pf_free_env` | a disk frame is free or holds one page; what is written back is what is read later |
| Environments (`kern/user_environment.c`) | `envs`, `env_free_list`, `curenv` | `env_create`, `env_run`, `env_free`, `env_exit` | an environment gets its memory and its program at creation and gives all of it back; ids are unique |
| Scheduler (`kern/sched.c`, `kern/kclock.c`) | `env_new_queue`, `env_ready_queues`, `env_exit_queue`, `scheduler_status`, `quantums`, the timer | `fos_scheduler`, `sched_run_env`, `sched_run_all`, `sched_exit_env`, `sched_kill_env`, `sched_kill_all`, `sched_init_RR`, `clock_interrupt_handler`, the `kclock_*` operations | an environment is in exactly one queue, the running one in none; the prompt runs only when nothing else can; a ready environment runs again unless another one never lets go of the processor; a turn lasts for a quantum |
| Traps and system calls (`kern/trap.c`, `kern/syscall.c`, `lib/syscall.c`, `kern/utilities.c`) | the trap frame of each environment, counters of the kernel's own tests | `trap`, `trap_dispatch`, `syscall`, `env_pop_tf`, `chk1`, `chk2` | a program goes on with its own registers and finds the answer to its own call |
| User heap (`lib/uheap.c`) | `spaces[]`, `arraySize` | `malloc`, `free` | blocks are disjoint, blocks and holes tile the heap, the page file has the pages of the blocks |
| User programs (`user/`) | their variables and heap | ten tests of the heap, twelve sorting programs, others | the tests find what they expect in every schedule; arrays are sorted; dialogues with interrupts disabled are not mixed |
| Command prompt (`kern/command_prompt.c`) | the line being edited, `command_history`, completion, the settings | `command_prompt_readline`; `run`, `load`, `kill`, `schedRR`, `lru`, `modbufflength`, `rum`, ... | the screen shows the line; the history is what was entered; a setting is what its report says |
| Console (`kern/console.c`) | the circular input buffer `cons`, the keyboard's `shift` state, the display | `cons_intr`, `cons_getc`, `cons_getc2`, `kbd_proc_data`, `cga_putc` | characters are read in order, none twice; no modifier key sticks |
| Lists (`inc/queue.h`) | links in the elements, first, last and size in the heads | `LIST_INSERT_HEAD`, `LIST_REMOVE`, `LIST_FOREACH`, ... | a list is a sequence, the same both ways; a loop visits every element |
| Library (`lib/string.c`, `lib/printfmt.c`, `lib/printf.c`, `lib/readline.c`) | none | `memmove`, `strsplit`, `strtol`, `vprintfmt`, `snprintf`, `cprintf`, `readline`, ... | each does what its reference definition says, within its buffers |
| Images (`kern/user_environment.c`, `boot/main.c`) | none | `PROGRAM_SEGMENT_FOREACH`, the copy of segments, `cmain`, `readseg` | a program is in memory and in the page file as it is in its image |
| Kernel heap, semaphores, shared memory, priorities, buddy allocator | none used | stubs that panic "not required" | - |
| Boot in assembly, interrupt controller, disk driver, debugging | device state | straight-line code | - |

**Interaction.**  An environment runs until it traps: a page fault, a system
call or the clock.  A handler is never interrupted: the gates of page
faults, system calls and the clock are interrupt gates (those of `T_DEBUG`,
`T_BRKPT` and `T_OFLOW` are not, `trap.c:129-132`, but no program here raises
these).  It ends by returning to the environment, by `fos_scheduler`
choosing another, or at the prompt, a kernel loop that runs while `curenv` is
`NULL`.  A `panic` in the kernel does not stop the machine: `_panic`
(`kern/init.c`) moves `curenv` to the EXIT queue and schedules the next
environment, so *every panic leaves the state its handler had reached half
way*.  The user heap lives in the program, and reaches the kernel by
`sys_allocateMem` and `sys_freeMem`.  Programs share the console and the
processor; they keep others out only by disabling interrupts, which is a flag
in their saved registers.

**What is hard.**  Sequences of legal calls rather than parallelism: the fault
handler relies on facts about its lists that no line checks (`trap.c:488`,
`trap.c:578`); panics and ignored error codes leave things half done;
environments create, free and exit each other while being preempted; a page
fault evicts a page of the instruction that faulted; a translation stays cached
after its entry has changed; the line editor keeps four indices that each key
moves differently; table sizes, 32-bit sizes and a 16-bit timer have edges.
`PROJECT.json` lists forty such hazards at their lines.

## 2. Modules

| Module | Models | Extends / instantiates |
|---|---|---|
| `WorkingSet` | page-fault handler, page file, `allocateMem`/`freeMem`, `env_create`/`env_free` of one environment | `LRUStack` (refinement) |
| `LRUStack` | what the two lists promise together: one LRU stack | |
| `FrameMap` | the memory manager: boot, directories and tables in frames, references, TLB, several environments | |
| `Scheduler` | `envs[]`, the queues, the scheduler, system calls and commands on environments, panics | `ReadyRing` (refinement) |
| `ReadyRing` | what round robin promises: a ring nobody is overtaken in | |
| `Traps` | trap frames, timer, system-call dispatcher and answers, the scheduler's own checks | `Scheduler` |
| `UserHeap` | `spaces[]`, `malloc`, `free` | `HeapBlocks` (refinement) |
| `HeapBlocks` | what `malloc` and `free` promise a program | |
| `ProgramHeap` | `malloc`, `free`, `sys_allocateMem`, `sys_freeMem` on the heap of a program as a value | `UserHeap` |
| `HeapTests` | ten test programs of the heap, preempting each other | `ProgramHeap` |
| `SortPrograms` | twelve sorting programs, preempting each other | `ProgramHeap` |
| `UserPrograms` | either of the two | `SortPrograms`, `HeapTests` |
| `Console` | the keyboard driver, the serial port, the circular input buffer and its two readers | `CharQueue` (refinement) |
| `CharQueue` | what the buffer promises: a queue, emptied by overflow | |
| `LineEditor` | `command_prompt_readline` with history and completion, and its row of the screen | |
| `Commands` | what the commands do to settings, sizes and environments | |
| `Prompt` | `run_command_prompt`: a session of keys or of commands | `LineEditor`, `Commands` |
| `Lists` | the macros of `inc/queue.h` with their links, and `LIST_FOREACH` | `ListSeqs` (refinement) |
| `ListSeqs` | what the lists promise: sequences | |
| `Strings`, `Formats`, `Images` | pure routines: strings and memory; formatted output, numbers, `readline`; segments of programs and of the kernel | |
| `Library` | the inputs of those routines and their reference definitions | `Lists`, the three above |
| `MCWorkingSet`, `MCFrameMap`, `MCLineEditor`, `MCTraps` | instances for TLC | the module |
| `ListLemmas` | proved facts about lists as sequences, and about a loop with any body | |
| `WorkingSet_proofs`, `FrameMap_proofs`, `UserHeap_proofs`, `Console_proofs`, `Lists_proofs` | theorems and proofs | the component's module |
| `Traps_proofs` | theorems about `Scheduler`, and about `Traps`, which drives it | `Traps` |
| `Prompt_proofs` | theorems about `LineEditor` and `Commands` as `Prompt` runs them | `Prompt` |

### WorkingSet

One environment with its memory.  State: the two lists as sequences of pages,
newest first; `PageWorkingSetList` as the number of unused elements (they are
interchangeable); for each page its entry `pte` (mapped, PRESENT, MODIFIED and
whether the frame's contents are what the program last stored); the page
tables in memory; for each page its copy in the page file (none, current or
stale); the disk page tables, which live in RAM frames; and the lengths of the
two free lists.  Frames are interchangeable too, so their number is enough
here; `FrameMap` follows them one by one.  `insn` is the set of pages the
current instruction touches.

Actions: `Issue`, `Load`, `Store` are the processor; `table_fault_handler` and
`page_fault_handler` the two halves of `fault_handler`.  The latter has a
disjunct for each branch: `PlaceInActive` (room in the active list),
`SecondChance` (the page is in the second list, in either branch of the code),
`DemoteAndPlace` (the active list is full, an element is unused),
`ReplaceActive` (no second list), `ReplaceSecond`.  Each includes what the
branch can meet: the page file's copy, a new stack page, an illegal access (the
frame is mapped, then the environment dies), no free frame (panic), no room in
the page file (ignored).  `AllocateMem`, `AllocateMemFails`, `FreeMem`, `Exit`,
`EnvFree` are the system calls; `AllocateMem` and `FreeMem` take one page, and
the code's loop over a range is a sequence of them.

### FrameMap

Where `WorkingSet` counts frames, `FrameMap` has each of them: what a directory
or a table in a frame contains (`word`, also after it was freed, so that a table
handed out again is as dirty as the code leaves it), the references
of a frame, the free list in order, the processor's `cr3` and its TLB, and the
lists of two environments.  It begins before the memory manager:
`boot_allocate_space`, `boot_get_page_table`, `boot_map_range`,
`initialize_kernel_VM` and `initialize_paging` are its first steps.  After the
boot the operations are creation and freeing of environments, faults on any
page, loads and stores through the TLB, `freeMem`, the system calls that map,
unmap and allocate pages, the prompt's commands on memory, and the counting
functions that foretell how many frames a mapping takes.

### Scheduler

State: the free list and the three queues as sequences of indices of `envs[]`,
the newest member first as `enqueue` inserts at the head; `curenv`; status and
id of each entry; which environments have `FL_IF`; `scheduler_status`;
`machine`, which is `"down"` when the kernel recurses for ever.  `freed_id` is
a history variable that provides stale ids as inputs.

`fos_scheduler(ready, cur, status)` is the procedure with what its caller has
left as parameters, so that each handler and the scheduling it ends in are one
step.  Ids are computed as in the code, with `And` for the bitwise operator.
`CreatePanics` is `env_create` running out of memory before or after it takes
the entry.  `KillCurrent` is what `sched_kill_env` does to the running
environment: its assertion fails, and the panic exits it.

### Traps

`Scheduler` with what the programs see of it.  A program is at its own code or
inside the stub of a system call (`eip`), with the register that answers come in
and the interrupt flag; the others' registers are in `env_tf`, saved by the
entry code and restored by `env_pop_tf`.  The timer is the 16-bit count and the
mask of its interrupt.  An action is one trap: what `syscall` does for the
number in `eax`, the scheduling that may follow, and the return into whichever
program is chosen.  `Calls` says which calls the programs make; each kind of use
(asking, testing, list checks, atomic sections, faults) is chosen once, in the
initial state.  `chk1` and `chk2` are the checks of `schedTest`.
`due` is a history variable: the answer an environment must find.

### UserHeap and the programs on it

State of `UserHeap`: `spaces`, the used part of the table as a sequence of
records, with the pages of the page file; `live`, a history variable, is what
the program thinks it has.  Addresses count pages and sizes are bytes modulo
`WordSize`.  `malloc` is best fit with the split; `free` is its two merge loops,
the second seeing the entry the first has zeroed.  `AllocateMem` may end the
program half way through a range (the kernel panics when the page file is full).

`ProgramHeap` takes the same operators of `UserHeap` as functions of one
program's heap, with ranges of pages instead of single ones, so that the tests
run with the sizes they are written for (`PAGE_SIZE` 4096, a heap of 131072
pages).  `HeapTests` has the sequence of steps of each test, with the addresses,
counts and values the test compares; `Checks` says which kinds of
comparisons are made.  `SortPrograms` has the dialogue of each sorting program,
the place where it disables and enables interrupts, its algorithm and what it
leaves in the heap; what distinguishes the twelve is one record each.

### Console

State: the devices (`held` keys, scan codes in the keyboard controller, the
receive register of the serial port, whose FIFO the code turns off), the
driver's `shift` as a set of flags, `cons` (`buf`, `rpos`, `wpos`), and `pc`,
the place of the read under way.  The kernel is not interrupted, but keys and
characters arrive beside it, so each look at a device is a step.  No interrupt
feeds the buffer: only the two readers do.  `cons_getc`, `serial_intr`,
`kbd_intr`, `grab` are the read of the prompt, which empties the devices first;
`cons_getc2`, `serial_once`, `kbd_once`, `grab` that of `sys_cgetc`.  The tables
of the driver have one key of each kind.  The test that makes Del depend on the
cursor reads the display: it is a choice here.  The keyboard and the serial port
are external; the keyboard keeps codes back until the controller has room for
all the codes of a key.

### The prompt

`LineEditor` has the four indices of `command_prompt_readline` (`i`, `lastIndex`,
`commandidx`, `prefixIdx`), the buffer, the history with its shifts at both ends, and the
cells and cursor that `cga_putc` leaves on the row of the screen.  One action is
one key, with everything the code does for it.  A read or write outside the
buffer is undefined behaviour: the model notes it in `overrun` and the session
ends.  `Commands` has an action for each kind of command: those that set the
replacement policy, the placement strategies and the buffering; `CreateEnv` with its
checks, and the panics of `env_create`, which lose the slot they have taken;
`rum`, `wum` and the like on the memory of an environment;
`kill`, `killall`; and `RunToEnd`, an environment's run until it exits.  The
commands that work on queues and frames are also in `Scheduler` and `FrameMap`.
`Prompt` joins the two: a session is either one of keys or one of commands,
because they share only the text of a line.

### Lists and the library

`Lists` has the first, last, next, previous and size fields, an action for each
macro, and `LIST_FOREACH` with the place in the head that it keeps its next
element in; the body of a loop may remove the element it is at and insert
others.  The other modules take lists to be sequences; the refinement of
`ListSeqs`, which is proved, is why they may.

`Strings`, `Formats` and `Images` are pure operators.  Each comes with the
reference definition it is compared with, in the same module: `memmove` against
a block copy, `strsplit` against the words of a line, `strtol` against
`printnum`, `snprintf` against the text of `vprintfmt`, the user's `cprintf` in
pieces against the whole text, the pages of a loaded program against the bytes
of its segments.  `Library` enumerates the arguments, a step for each part of
them.

## 3. Runs

| Run | Configuration | Shows |
|---|---|---|
| `ws_replacement` | two image, two stack pages, one heap page; active list 2, second list 1; 9 frames, a disk frame for every page | `ListsFull`, `Residency`, `NoLostStore`; `LRUOrder`: the two lists are one LRU stack; `InstructionCompletes` under `FairSpec` |
| `ws_scarce` | no second list, 8 frames, 3 disk frames | the direct replacement of the active list's tail; `Conservation` of frames (`FrameConservation`) and of the page file (`DiskConservation`) through every out-of-memory path |
| `mapping` | 31 frames, tables of 10 entries, two environments with lists of 2 and 1, six operations after the boot | `FramesAccounted` (one use or free, and calculations exact), `KernelMapped` (by boot, and in every environment), `TranslationsAgree` (TLB, tables and lists), `LossesAreKnown` |
| `sched_queues` | four environments, quanta 10, 60, 256 | `OnePlace`, `IdleAtPrompt`, `UniqueIds`; `RotatesInOrder`, a refinement; `ReadyRuns`: while no environment keeps the processor for ever, no ready one starves |
| `sched_destroy_current` | violation | destroying oneself is an exit, not a destruction (`syscall.c:90`) |
| `traps` | two environments, five kinds of programs, quantum 52, timer counts 1 and 21 | `OwnAnswers`; `TurnsAreFair` (the timer interrupt as asked, the scheduler passes its own checks); `TurnsKept` (registers and full quantum) |
| `traps_long_quantum` | violation, quantum 53 | the counts of 53 ms do not fit the counter (`kclock.c:186`) |
| `heap_refines` | five pages, five entries, eight sizes, stray frees | `HeapTiled`, `PageFileAgrees`; `KeepsBlocksApart`, a refinement |
| `user_programs` | two environments; the tests with real sizes, or the sorting programs with 24 pages of 16 bytes and up to 8 elements, two rounds | `HeapAsExpected`: the tests' checks hold in every schedule; `NoOtherAnswers`: a locked dialogue is not interrupted; `RoundsSort` |
| `console_reads` | a buffer of 3, two scan codes; a letter, right Ctrl, Del, a serial character | `ReadsInOrder`: a queue for both readers; no position leaves the buffer (`TypeOK`); `NoStuckModifier` |
| `prompt` | a line of 5 characters, a history of 2 lines, seven keys, or two environments and four commands | `LineIsShown` (screen, line and Enter agree; an overrun needs a full line), `HistoryIsRecent`, `KeysRecall` (what Up shows, what Tab completes), `SettingsAgree`, `LossesAreKnown` (a slot out of every queue is lost by a known panic) |
| `library` | two lists of three elements; memories of 6 characters; words of 8 bits; pages of 2 bytes in an address space of 16 | `LinksComplete`, `AreSequences`, `StringsRight`, `TextsRight`, `ImagesRight` |

**Bounds.**  Lists of lengths 2 and 1 are the shortest in which demotion, second
chance, replacement from either list and promotion by `freeMem` differ; five
pages exceed the working set, so replacement happens at every step of a
behaviour.  In `mapping` the pages 9 and 10 lie on both sides of a table's end,
31 frames are few enough to run out, and six operations (`MaxSteps`) are
enough to create, fault, map, free, and use again what was freed; the two
environments are symmetric.  Four environments give a ring of four and a free
list, new and exit queue that are non-empty at the same time.  In `traps` two
environments are enough because a trap frame is only confused with another
one's; the lists that its programs expect are and are not those they have;
`MaxTests` bounds the counter of the test programs.  Five pages of heap
with five entries allow a hole on each side of a block and the overflow of the
table.  `PAGE_SIZE = 2` and `WordSize = 16` keep the two edges of `ROUNDUP` (a
partial page and the wrap) apart.  The sorting programs have a heap whose end a
mergesort that does not free reaches in its second round.  A buffer of three
characters wraps and overflows; two scan codes are the longest a key sends, and
right Ctrl and Del send them with an escape, so that one reader can take the
escape and another the rest.  In `prompt` seven keys (`MaxKeys`) fill a line
of five and step outside it, three lines (`MaxLines`) overflow a history of
two, and `UINT_MAX = 7` puts the wrap of an unsigned size within reach of the
numbers in a line.  In `library` the blocks of a memory of six overlap in every
way; formats have up to three flags (`MaxFlags`, `MaxWidth`); lines have up to
five keys (`MaxKeys`) for a buffer of four; segments start and end inside and
at the ends of pages and tables.  Where no bound is named the state space is
finite and is explored completely.  `CHECK_DEADLOCK FALSE` is set where the
system may stop: an environment is freed for good, the machine is down, the
program has ended, a bound is reached.

**Inputs left out of the passing runs**, because the code is known to fail on
them (section 5): a size that rounds to 0 pages (`heap_refines`); a page file too
small for the program (`ws_replacement`; `ws_scarce` has one, and does not
check `NoLostStore`); memory that is not zero at power on (`mapping`); a quantum of
53 (`traps`); a short segment that begins inside a page (`library`); the heap tests'
comparisons of free frames, of the working set, of the address that first fit
would give and of accesses after `free`
(`user_programs` has `Checks = {"address", "disk", "value"}`; the others ask for
the strategy or the `allocateMem` of another version of the kernel).  `SizesFit`
speaks of working sets of at least one page.  In `user_programs` the programs
that ask with interrupts enabled (`quicksort.c:30`, `quicksort_freeheap.c:30`) may mix
their dialogues, which `NoOtherAnswers` does not exclude, and the pairs of disabling
and enabling inside library calls are not nested into those of the programs.
`sched_queues` has four entries; the build has twelve.

The type invariants `UserHeap!TypeOK`, `PromptTypeOK` and `TrapsTypeOK` hold in
`heap_refines`, `prompt` and `traps` too; the runs leave them to the properties
that say more.

**Fairness.**  `WorkingSet!FairSpec` has weak fairness of the processor: while the
others share it, round robin gives a runnable environment the processor again and
again, and it continues with the instruction it faulted on.  That the faults of
one instruction cannot starve it is the property.

`Scheduler!ReadyRuns` is checked under `Spec`, without fairness; what it needs
is its first half, `ProcessorPasses`: no environment has the processor for ever.
The kernel does not see to that.  A trap stops the timer, and `kclock_resume`
lifts what is left of the turn to 20 counts (`kclock.c:126-135`), so a program
whose next system call comes sooner than that, such as one that polls `sys_cgetc` for
a key (`lib/console.c:37`), never has the clock interrupt.  Nor does one that
disables interrupts while it waits for somebody to type (`quicksort1.c:30-48`).
What the property says is that only such a program starves others: those that share
the processor never do, however they are created, exit and are killed.

## 4. Proofs

Each theorem holds for every value of the constants that satisfies the named
assumptions of its module; a hypothesis beyond them is given with it.

| Theorem | Statement | Hypothesis | Inductive invariant |
|---|---|---|---|
| `WorkingSet_proofs!TypeCorrect` | `Spec => []TypeOK` | | `WSInv == TypeOK /\ ListsFull` |
| `WorkingSet_proofs!ListsFullCorrect` | `Spec => []ListsFull` | | `WSInv` |
| `WorkingSet_proofs!ResidencyCorrect` | `Spec => []Residency` | | `ResInv` |
| `WorkingSet_proofs!LRUOrderCorrect` | `Spec => LRUOrder`, a refinement | | `ResInv` |
| `WorkingSet_proofs!Conserved` | `Spec => []Conservation` | | `ResInv` with `FrameConservation`; `WSInv` with `DiskConservation` |
| `WorkingSet_proofs!NoLostStoreCorrect` | `Spec => []NoLostStore` | `EnoughDisk` | `StoreInv` |
| `FrameMap_proofs!FramesAccountedCorrect` | `Spec => []FramesAccounted` | | `IInv`: `RunInv`, and `BootInv` before |
| `FrameMap_proofs!TranslationsAgreeCorrect` | `Spec => []TranslationsAgree` | | the same |
| `FrameMap_proofs!KernelHalfSharedCorrect` | `Spec => []KernelHalfShared`, a part of `KernelMapped` | | the same |
| `Traps_proofs!OnePlaceCorrect` | `Spec => []OnePlace` | | `SInv == PlacedNow /\ IdleAtPrompt` |
| `Traps_proofs!IdleAtPromptCorrect` | `Spec => []IdleAtPrompt` | | `SInv` |
| `Traps_proofs!RotatesInOrderCorrect` | `Spec => RotatesInOrder`, a refinement | | `SInv` |
| `Traps_proofs!UniqueIdsCorrect` | `Spec => []UniqueIds` | | `SInv`, `IdInv`, `FieldTypes` |
| `Traps_proofs!TypeCorrect` | `Spec => []TypeOK` | | the same |
| `Traps_proofs!TrapsSchedule` | `TrapsSpec => Spec`: the traps drive the environments as `Scheduler` says | | none: step by step |
| `Traps_proofs!TurnsAreFairCorrect` | `TrapsSpec => []TurnsAreFair` | | `TInv` |
| `Traps_proofs!TurnsKeptCorrect` | `TrapsSpec => TurnsKept`, an action property | `NotTheLongest` | `TInv` |
| `Traps_proofs!OwnAnswersCorrect` | `TrapsSpec => []OwnAnswers` | `ArraysAsLong` | `TInv`, `AnswersInv` |
| `UserHeap_proofs!HeapTiledCorrect` | `Spec => []HeapTiled` | | `HInv == spaces = << >> \/ Tiles(spaces)` |
| `UserHeap_proofs!PageFileAgreesCorrect` | `Spec => []PageFileAgrees` | `RequestsHavePages` | `BInv == HInv /\ (running => BlocksAgree)` |
| `UserHeap_proofs!KeepsBlocksApartCorrect` | `Spec => KeepsBlocksApart`, a refinement | `RequestsHavePages` | `BInv` |
| `Console_proofs!ConsoleTypeCorrect` | `Spec => []TypeOK` | | `TypeOK` |
| `Console_proofs!ReadsInOrderCorrect` | `Spec => ReadsInOrder`, a refinement | | `TypeOK` |
| `Console_proofs!NoStuckModifierCorrect` | `Spec => []NoStuckModifier` | `NoKeyIsEscape` | `KeyInv` |
| `Prompt_proofs!LineIsShownCorrect` | `PromptSpec => []LineIsShown` | | `EditorInv`, of which `LineInv` |
| `Prompt_proofs!HistoryIsRecentCorrect` | `PromptSpec => []HistoryIsRecent` | | `EditorInv`, of which `HistoryInv` |
| `Prompt_proofs!KeysRecallCorrect` | `PromptSpec => KeysRecall`, an action property | | `EditorInv` |
| `Prompt_proofs!SettingsAgreeCorrect` | `PromptSpec => []SettingsAgree` | | `SettingsInv` |
| `Prompt_proofs!LossesAreKnownCorrect` | `PromptSpec => LossesAreKnown`, an action property | | `SettingsInv` |
| `Lists_proofs!AreSequencesCorrect` | `Spec => AreSequences`, a refinement | | `LinkInv` |
| `Lists_proofs!LinksCompleteCorrect` | `Spec => []LinksComplete` | | `ListsInv == LinkInv /\ LoopInv` |

**The working set.**

- *ListsFull.*  Types and list shape need each other: that a counter stays a
  natural number when an element is taken rests on `ListsFull`, and
  `ListsFull` on the lists' lengths.  The fault handler is cut where the code
  is: `AfterTake`, `AfterDemote`, `AfterActiveEviction`, `AfterSecondEviction`
  name the state before the common tail that places the page, and `PlaceTypes`
  and `PlaceLists` are that tail, proved once.
- *Residency.*  `ListsAgree` relates any two lists, entries and tables, so that
  it can be followed through the middle of a handler.  It is not inductive
  alone: `allocateMem` maps a page without looking at the lists, and
  `page_fault_handler` takes a page that the page file has.  `HeapInFile` closes
  the gap: a heap page is in the page file only while it is mapped PRESENT, so
  it never faults into a list.  All of it is about a living environment: the
  panic of an illegal access leaves the page mapped that it faulted on.
- *LRUOrder.*  The abstract stack is `ActiveList \o SecondList`.  A refault takes
  an element out of the middle and puts it first, although the code moves two
  elements in two lists (`TailMoves`); a demotion is a stutter; a replacement
  drops the last.  `ResInv` is what rules out a page that is placed while it is
  already in the stack.
- *Conservation.*  The page file's account balances in every state, also half way
  through a panic; that of the frames while the environment lives, which is all
  the code promises, because `env_free` finds pages by the lists only.
  `EmptyTables` is what `freeMem` gives back, one table or none.
- *NoLostStore.*  `StoresSafe` says of what the program relies on that it is
  current in memory, or, once the page is not MODIFIED or not there, in the page
  file, and that every page in a list has a place there to be written back to.  That place is
  what `EnoughDisk` (`NumDiskFrames >= Cardinality(Pages)`) is for: with fewer,
  `pf_add_empty_env_page` fails, the failure is ignored, and the property is
  false (section 5).  With it, `DiskConservation` shows that a place is free
  whenever a page without one is placed.

**The memory map.**

- *One environment.*  A handler works on the memory and one environment.  `O` is
  the set of frames that are none of its business: the kernel's and those of the
  other environments.  `Good` says that what the environment has frames for, its
  directory, tables, pages and tables of the page file, are different frames, none
  of them free or in `O`, each with one reference; `Spares`, that the frames of `O`
  keep their contents.  A frame between the free list and a table is nobody's: for
  that time it counts as one of `O`, which is how `allocate_frame` and `map_frame`,
  or `unmap_frame` and `free_frame`, are put together (`FrameTaken`, `PagePlaced`,
  `FrameFreed`).  `Step` and `OnlyMaps` say what an operation may touch.
- *All environments.*  `System` says `Good` of every environment with the frames of
  all the others and of the kernel as its `O`.  `SystemKept` takes what a handler
  does to one environment, in terms of its `O`, to the whole system.  A panic
  half-way is an outcome of every handler, so what `env_create` has taken when it
  stops is in order too; only `Hidden`, which `env_create` establishes last, is not
  asked of an environment that is `"stuck"`.
- *Loops.*  The loops over segments, ranges of pages, lists and tables are folds.
  `ListLemmas` says of a fold with any body what holds after every turn, if each
  turn leads from one fact to the next; the module is instantiated with the body
  of each loop (`BootMaps`, `Inserts`, ...).
- *FramesAccounted.*  `NothingShared` and `FreeIsFree` are `System` counted.
  `RequiredIsExact` compares the tables that `calculate_required_frames` counts
  with those that mapping one or two pages makes, across the end of a table too
  (`PageTakes`, `MissingTables`).
- *TranslationsAgree.*  `StepInvalidates`: each handler invalidates, or flushes by
  loading `cr3`, the pages its step touches, and no others have changed.  That a
  mapped page without PRESENT is in the second list needs that the pages of the
  active list are PRESENT and that no page is in both (`Lists`).
- *KernelHalfShared.*  Frames of user tables are not the kernel's directory, and
  nothing after the boot writes that; each new directory copies it.
- *The boot.*  `BootInv` has the types, and the kernel's directory at the first
  frame after its image and below `ptr_free_mem`; `initialize_paging` then puts every
  frame that is not reserved on the free list once (`FreeListMade`), which starts
  `RunInv`.

The assumptions are about sizes: `LayoutFits` (the kernel area can map the memory,
the regions do not overlap; user space is two tables of any width), `ProgramFits` (a program's pages
and its stack are different pages; the active list has a place) and `MachineFits` (the
memory does not end with the kernel's image).  At power on memory may hold anything.

**Environments.**

- *OnePlace.*  `PlacedNow` restates `OnePlace` with types, as a predicate of the
  queues, so that the lemmas about `fos_scheduler` and `ExitCurrent` can be
  used with the queues a handler has left in the middle of its step.  It is not
  inductive alone: `schedRR` empties the ready queue, which loses entries
  unless `IdleAtPrompt` says it is empty.
- *RotatesInOrder.*  The ring is the running environment followed by the reverse
  of the ready queue.  Every action is a turn of the first, joining at the end,
  the leaving of one, wherever it is in the ring, or leaves the ring alone.
- *UniqueIds.*  `IdInv` gives the ids in closed form: a free entry has 0, any other
  one 4096 plus its index.  The generation never moves on, since
  `free_environment` has cleared the id that `env_create` computes the next
  one from; ids are unique all the same, for every `NENV` below 4096, and
  the next environment of an entry has the id of the last.  `NoCommonBit` and
  `FirstId` compute the bitwise operator on these numbers.
- *TrapsSchedule.*  Every trap is a step of `Scheduler` or leaves its variables
  alone, so that all theorems about `Scheduler` hold of `Traps`.
- *TurnsAreFair, TurnsKept.*  The steps of `Traps` are of five kinds
  (`Chooses`, `GoesOn`, `StaysAtPrompt`, `GoesOnWithAnswer`, none), each with what it
  does to the frames, the counter and the quantum; `TrapKinds` puts every action
  into one, and the theorems are proved of the kinds.  `TInv` adds to the
  invariants of `Scheduler` that frames are frames and that the quantum is one
  `schedRR` has accepted.  `NotTheLongest` leaves out the quanta that the 8 bits
  `schedRR` stores make 53: the counts of 53 ms do not fit the timer, which is
  what the run `traps_long_quantum` shows.
- *OwnAnswers.*  `AnswersInv` says it of every environment at any time: what its
  frame, or the processor while it runs, has in `eax` is what is due to it, and
  nothing is due to an entry that is not in use, so that whoever gets the entry
  next inherits nothing.  `PoppedAnswers` shows it for all actions that save and
  restore frames.  `AnswerIsPromised` shows that a call answers what its stub
  promises where the two are computed differently: a list compared as far as it goes
  and then by its size, a percentage as a quotient and a remainder, environments found
  in queues or by their status.  `ArraysAsLong` leaves out programs whose arrays
  have fewer elements than they say: `sys_check_LRU_lists` would read on behind
  them.  The run `traps` satisfies it.

**The heap.**

- *HeapTiled.*  `Tiles` says of every entry that it is removed or has its page
  count, and of every page of the heap that exactly one entry has it.  Entries
  of no pages are allowed, so the theorem also covers the requests that round
  to 0.  `AbsorbTiles` is the fact both merge loops share.
- *PageFileAgrees, KeepsBlocksApart.*  `BlocksAgree` says that the entries in use are the
  blocks the program has, one for each, and that the page file has the pages of
  those.  `RequestsHavePages` says that no request rounds to 0 pages, as a size of 0
  or one within a page of 2^32 does; with one of these two blocks share an address
  and both properties are false (section 5).  A stray `free` is allowed.  Both hold
  while the program runs: a panic inside `allocateMem` ends it half way.

**The console.**

- *ReadsInOrder.*  `Contents` maps the array and its two positions to a sequence.
  `StoreContents` and `GrabContents` say what a store and a read do to it,
  the store into a full buffer, where the positions meet, included; the rest is
  one case for each step of the two readers.
- *NoStuckModifier.*  The property speaks of an empty keyboard controller.  `KeyInv`
  says what is true before: for each modifier the last code in the controller
  that is for it, or the flag if there is none, sets it only if one of its keys
  is down; and no code begins with an escape that is still to come.
  `NoKeyIsEscape` excludes a key whose code, pressed or released, would be 0xE0;
  no PC keyboard has one.

**The prompt.**

- *LineIsShown.*  `LineInv` says of a line whose keys only reached the end of the
  text that the row of the screen is the prompt and the text (`RowShows`) with
  the cursor behind it, and that nothing is left in the buffer behind the text
  (`Clean`), without which the next character joins it to the text.  A key is
  then one of two rewrites of the end of the row, `TextKept` and
  `TextReplaced`: what Backspace, Tab and the arrows rub out is as long as what
  is shown.  For a line edited elsewhere `LineInv` keeps what Enter needs: the text ends at
  `lastAt` or before; `lastAt <= typed` is the part of `OverrunNeedsFullLine` that its
  other part rests on.
- *HistoryIsRecent.*  `RecentFrom` says which entered lines the history holds, as a
  set of their numbers; an Enter adds the newest number and, when the array is full,
  drops the oldest one.  `Rank` is the place of a number in the set.
- *KeysRecall.*  `ArrowInv` has it that the arrows' line is one of the history, and
  the last one until a key is pressed; `HistoryInv`, that the last line of the history is
  the one entered last, although repetitions are left out; `WrittenLine`, that a cleared
  buffer with a line written into it has that line as its text.  `CompletionsAre` shows
  that what Tab finds begins with the text, unless that is one word behind
  blanks, and `FoundWritten` that a name written over what it completes leaves no end
  of the old text.
- *SettingsAgree, LossesAreKnown.*  `SettingsInv` adds the types of the
  environments to the property.  `OneSlotMoves` and `StartFreeLoses` reduce a
  command to the one slot it moves, by a panic of the creation or of the freeing if the
  slot is lost.  `MinusInOrder` and `CreatingFits` compute the unsigned
  differences of `CreateEnv`'s checks, the wrapped one of a working set of no
  pages included.

**Lists.**

- *AreSequences.*  `Linked` says that the head and the links are those of a
  sequence; `WalksFind` that such links determine what a walk finds.  A macro
  is shown to be one of `PutLinked` and `TakeLinked`: one element into the
  sequence of one list, or out of it.  A walk is cut at the number of elements,
  hence the assumption that `Elems` is finite.
- *LinksComplete.*  For a loop whose body removes the element it is at and inserts
  others, `LoopInv` says: elements that were there from the beginning are in the
  list in the order of then, what was visited and is still there is before the
  place the loop goes on at, and what is yet to be visited is at that place or
  behind it.  At the end of the loop there is no such place, so nothing is left out.

`ListLemmas` has the facts about sequences that these proofs share.

Only model-checked, and why:

- out of the prover's reach: `InstructionCompletes` and `ReadyRuns`, liveness;
  `StringsRight`, `TextsRight`, `ImagesRight`, `HeapAsExpected` and `RoundsSort`, which compare recursive definitions or whole programs;
- `BootChecks` and `GuardUnmapped` of `KernelMapped`: what the loops of the boot
  write is right for sizes that fit each other (`envs[]` fits
  its area, memory holds all tables of the boot, the directories aliased for
  `ptr_free_mem` reach its end, new tables are zero at power on),
  which is arithmetic on the layout of one machine rather than a property of the code
  for all sizes;
- left for later: `FrameMap!LossesAreKnown`, for which every step of the proofs above
  would also say which frames it lets go; and `NoOtherAnswers`, beside the
  recursive sorts of `SortPrograms`.

## 5. What the models show of the code

Two disagreements have runs: `sched_destroy_current` and `traps_long_quantum`.

**Promises of comments and tests that the code does not keep**, each with the
property that says so; adding it to a configuration shows a behaviour.

| Property | Configuration | What happens |
|---|---|---|
| `WorkingSet!FreedEnvironmentHoldsNothing` (`user_environment.c:813`) | `WSReplacement.cfg` with `NumFrames = 12` | the pages that `allocateMem` maps are in no list, and `env_free` does not find them |
| `WorkingSet!NoLostStore` | `WSReplacement.cfg` with `NumFrames = 12`, `NumDiskFrames = 2` | a replaced page that finds no room in the page file is unmapped all the same (`trap.c:616`) |
| `UserHeap!HolesMerged` (`tst_best_fit_1.c:172`) | `HeapRefines.cfg` with `Sizes = {2, 4, 6}`, `Strays = {}` | holes on both sides of a freed block are not all merged |
| `UserHeap!TableHolds` (`uheap.c:142`) | the same | splits use up `spaces[]`, whose entries are never used again |
| `UserHeap!PageFileAgrees` (`uheap.c:100`) | `HeapRefines.cfg` with `Sizes = {0, 2, 4, 15}`, `Strays = {}` | a block of no pages shares its address, and `free` releases the wrong one |
| `Console!NoneWaiting` (`console.c:428`) | `ConsoleReads.cfg` | `cons_getc2` returns 0 with a serial character waiting |
| `Commands!SecondBelowWS` (the message of `CreateEnv`) | `Commands` with the constants of `Prompt.cfg` | for a working set of 0 pages the bound wraps (`command_prompt.c:826`) |
| `HeapTests!ChecksHold` (`memory_manager.c:793`, `tst_malloc_1.c:34`) | `HeapTests` alone, one environment, the sizes that `UserPrograms` gives it, `Tests = {"tst_malloc_1"}`, `Checks = {"frames"}` | `allocateMem` maps a frame for each page, where its comment and the test want "NOTHING in the main memory" |

**Met while modelling**, and in the models as the code has them:

- *Scheduler and environments.*  `NENV` is 12, no power of two, so `ENVX`
  (`environment_definitions.h:158`) looks the ids of entries 4 to 7 up in entries
  0 to 3.  `free_environment` clears `env_id`, so an entry's next environment has
  the id of the last one (`user_environment.c:232`).  A quantum that
  `kclock_set_quantum` refuses is stored first, and the panic that refuses it
  runs the scheduler, which refuses it again (`sched.c:175`); a quantum of 0
  divides by zero likewise.  `kill` of an unknown id at the prompt reads
  `curenv->env_id` with `curenv` `NULL` (`sched.c:580`).  An environment lost by a
  panic of `env_create` keeps its entry for ever (`user_environment.c:616`), and so
  does one that is killed while buffering is on.  A program that polls for keys, or
  that disables interrupts until somebody types, starves the others
  (`kclock.c:126-135`, `quicksort1.c:30-48`; section 3, fairness).
- *Memory.*  `__sys_allocate_page` takes a frame before it checks its arguments
  and keeps it when they are wrong (`syscall.c:157`); the dispatcher drops its
  result (`syscall.c:641`).  `map_frame` over a page of the second list loses that
  page's frame, because PRESENT is clear (`memory_manager.c:627`).  The page
  tables made at boot are not zeroed (`memory_manager.c:295`).
  `scarce_memory` wraps when more than it is to take is in use already
  (`utilities.c:24`).
- *Images.*  A segment that begins inside a page and ends in the same one is
  written to the page file twice, the second time from what follows it in the
  image (`user_environment.c:634-644`); when its size in memory ends there too,
  the remaining length wraps (`user_environment.c:652`).
  `PROGRAM_SEGMENT_NEXT` reads one header past the last (`user_environment.c:987`).
- *Console and prompt.*  A character that arrives when the console's buffer is
  full empties it (`console.c:400`); Ctrl-Alt-Del never reboots, because Del
  returns before the test (`console.c:327`, `console.c:356`).  Typing inside a
  line moves `lastIndex` past the buffer (`command_prompt.c:382`); Del shifts the
  line and leaves the screen as it was (`command_prompt.c:372`).  A Tab that finds no
  program for the argument of `run` or `load` cuts the word from the line with
  one NUL (`command_prompt.c:300`) and leaves the rest of it behind: a
  character typed, or a completion that ends, right before that rest joins it to the
  line, which Enter then executes.  It takes eleven keys in the instance of `Prompt.cfg`;
  the proofs met it, and `LineIsShown` and `KeysRecall` say so of `LeftOver`.
  A Tab on one word behind blanks compares nothing, because `strsplit` has
  written over the blanks (`string.c:290-291`): every command is listed
  and the first one written over the line (`command_prompt.c:286-308`).
  `rut` frees a page table and clears only PRESENT in its entry of the directory,
  whose comment wants it 0 (`command_prompt.c:649`).  `khcontalloc` reports FIRST FIT.
- *System calls.*  The length of the instruction to bypass is one global for all
  environments (`syscall.c:420`, `trap.c:283`).  `sys_testNum` compares `v1` with
  itself for "between" (`syscall.c:461`), and with `inv` its other comparisons
  always pass.  The list checks read past the shorter array (`syscall.c:501`).
  `calculate_pages_tobe_removed_ready_exit` takes the percentage of `curenv` for every environment and
  reads it before it tests it for `NULL` (`utilities.c:48`).
- *Library.*  `ltostr` stops at a digit 0, so 100 becomes "0" (`string.c:246`).
  `strsplit` leaves the argument vector without its end when there are too many
  words (`string.c:300`).  `-E_INVAL` is +3, as the error numbers are negative
  already; `readline` has a condition that always holds (`readline.c:19`).  The
  kernel's `cprintf` counts with `*cnt++` and returns 0 (`kern/printf.c:13`).
  `LIST_CONCAT` forgets the size of the second list (`queue.h:280`); two loops
  over one list share their place (`queue.h:183`).
- *Programs.*  `quicksort1.c:34` stores behind its array; `quicksort_heap.c:182`
  divides by zero for fewer than three elements.

## 6. Not modelled, and why

- Stubs that panic "not required": kernel heap, semaphores, shared memory,
  priorities, buddy allocator, the multilevel queue, buffering, the replacement
  policies other than LRU lists, `realloc`, `smalloc`, `sget`, `moveMem`.  They
  have no behaviour; the programs that test them (`tst_realloc_*`,
  `tst_sharing_*`, `tst_semaphore_*`, ...) stop at their first call.
- The other user programs print, or reach the kernel by calls that are modelled.
- Assembly of the boot, programming of the interrupt controller, of the display
  and of the disk: straight-line code on hardware.  The parallel port.
- The printing commands, except for the reports of settings; the colour of the display
  and its scrolling.
- `kern/test_kheap.c`, `kern/test_priority.c`, `kern/kdebug.c`: they use the system
  or describe it.
- A fault in the kernel itself, except where it never ends (`KillUnknown`).
- A component is "partly" modelled in `PROJECT.json` when one of these is in it.

## 7. What is left

Proofs, in this order: `FrameMap!LossesAreKnown` along the steps of
`FrameMap_proofs`; `NoOtherAnswers`, with the sorting algorithms as functions.

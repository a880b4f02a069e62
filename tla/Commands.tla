------------------------------ MODULE Commands ------------------------------
(***************************************************************************)
(* What the commands of kern/command_prompt.c do: the settings they change *)
(* and report, the checks of CreateEnv on the sizes of a working set, the  *)
(* memory commands that read and write the memory of an environment by its *)
(* id, and how the settings reach environments that exist already.  The    *)
(* words of the line are split and their numbers converted before an       *)
(* action begins; a word that is missing is read as whatever lies behind   *)
(* the others, so any number.                                              *)
(*                                                                         *)
(* An environment is followed from load until it is freed.  That it runs   *)
(* is one step, which ends with the environment leaving the processor.     *)
(***************************************************************************)
EXTENDS Naturals, FiniteSets

CONSTANTS
    Envs,             \* the slots of envs[]
    Pages,            \* pages of an environment somebody looks at
    Numbers,          \* the numbers somebody writes in a line
    UINT_MAX,         \* the largest uint32
    PWS_MAX_SIZE,     \* __PWS_MAX_SIZE
    MaxCommands       \* bound: commands executed

ConstantsFit ==
    /\ Numbers \subseteq 0 .. UINT_MAX
    /\ UINT_MAX \in Nat /\ PWS_MAX_SIZE \in 1 .. UINT_MAX - 1

VARIABLES
    _PageRepAlgoType, _UHeapPlacementStrategy, _KHeapPlacementStrategy,
    _EnableBuffering, _EnableModifiedBuffer, _ModifiedBufferLength,
    where,        \* the queue an environment is in
    size,         \* page_WS_max_size, ActiveListSize and SecondListSize
    present,      \* its pages with the present bit
    said,         \* the report of the last command
    commandCount  \* commands so far

settings == <<_PageRepAlgoType, _UHeapPlacementStrategy, _KHeapPlacementStrategy,
              _EnableBuffering, _EnableModifiedBuffer, _ModifiedBufferLength>>
envVars == <<where, size, present>>
vars == <<settings, envVars, said, commandCount>>

Replacements == {"TIME", "LISTS", "CLOCK", "FIFO", "MODIFIEDCLOCK"}
UHeapFits == {"FIRST", "BEST", "NEXT", "WORST"}
KHeapFits == UHeapFits \cup {"CONTALLOC"}
Queues == {"free", "new", "exit", "lost"}
NoSize == [ws |-> 0, active |-> 0, second |-> 0]

\* FOS_initialize, after the memory, the environments and the traps.
Init ==
    /\ _PageRepAlgoType = "LISTS"
    /\ _UHeapPlacementStrategy = "BEST"
    /\ _KHeapPlacementStrategy = "FIRST"
    /\ _EnableBuffering = FALSE
    /\ _EnableModifiedBuffer = FALSE
    /\ _ModifiedBufferLength = UINT_MAX      \* 1000, a large one
    /\ where = [e \in Envs |-> "free"]
    /\ size = [e \in Envs |-> NoSize]
    /\ present = [e \in Envs |-> {}]
    /\ said = <<"nothing">>
    /\ commandCount = 0

Crashed == said = <<"kernel", "crashed">>

\* One command is looked up and called.
execute_command ==
    /\ ~Crashed
    /\ commandCount < MaxCommands
    /\ commandCount' = commandCount + 1

Says(report) == said' = report

\* A panic with no environment on the processor comes back to the prompt.
Panics == Says(<<"panic">>)

-----------------------------------------------------------------------------
(***************************************************************************)
(* The settings and their reports.                                         *)
(***************************************************************************)
SetReplacement(algorithm) ==
    /\ execute_command
    /\ _PageRepAlgoType' = algorithm
    /\ Says(<<"replacement", algorithm>>)
    /\ UNCHANGED <<_UHeapPlacementStrategy, _KHeapPlacementStrategy, _EnableBuffering,
                   _EnableModifiedBuffer, _ModifiedBufferLength, envVars>>

\* lru takes the kind of approximation as a number, 1 or 2.
command_set_page_rep_LRU ==
    \E kind \in Numbers :
      IF kind \in {1, 2}
      THEN SetReplacement(IF kind = 1 THEN "TIME" ELSE "LISTS")
      ELSE /\ execute_command
           /\ Says(<<"error">>)
           /\ UNCHANGED <<settings, envVars>>

command_set_page_rep ==
    \E algorithm \in {"CLOCK", "FIFO", "MODIFIEDCLOCK"} : SetReplacement(algorithm)

command_set_uheap_plac ==
    /\ execute_command
    /\ \E fit \in UHeapFits :
         /\ _UHeapPlacementStrategy' = fit
         /\ Says(<<"uheap", fit>>)
    /\ UNCHANGED <<_PageRepAlgoType, _KHeapPlacementStrategy, _EnableBuffering,
                   _EnableModifiedBuffer, _ModifiedBufferLength, envVars>>

\* khcontalloc reports the name of another strategy.
command_set_kheap_plac ==
    /\ execute_command
    /\ \E fit \in KHeapFits :
         /\ _KHeapPlacementStrategy' = fit
         /\ Says(<<"kheap", IF fit = "CONTALLOC" THEN "FIRST" ELSE fit>>)
    /\ UNCHANGED <<_PageRepAlgoType, _UHeapPlacementStrategy, _EnableBuffering,
                   _EnableModifiedBuffer, _ModifiedBufferLength, envVars>>

command_print_page_rep == Says(<<"replacement", _PageRepAlgoType>>)
command_print_uheap_plac == Says(<<"uheap", _UHeapPlacementStrategy>>)
command_print_kheap_plac == Says(<<"kheap", _KHeapPlacementStrategy>>)

\* Whatever the warnings say, the length is printed.
command_get_modified_buffer_length == Says(<<"length", _ModifiedBufferLength>>)

\* help, kernel_info and meminfo print what no command changes.
Information == Says(<<"information">>)
command_meminfo == Says(<<"meminfo">>)

Query ==
    /\ execute_command
    /\ \/ command_print_page_rep
       \/ command_print_uheap_plac
       \/ command_print_kheap_plac
       \/ command_get_modified_buffer_length
       \/ Information \/ command_meminfo
    /\ UNCHANGED <<settings, envVars>>

-----------------------------------------------------------------------------
(***************************************************************************)
(* Buffering.                                                              *)
(***************************************************************************)
ModifiedReportedOnly(enable) ==
    /\ execute_command
    /\ _EnableModifiedBuffer' = (enable /\ _EnableBuffering)
    /\ Says(<<"modified", enable>>)
    /\ UNCHANGED <<_PageRepAlgoType, _UHeapPlacementStrategy, _KHeapPlacementStrategy,
                   _EnableBuffering, _ModifiedBufferLength, envVars>>

SetModifiedBuffer(enable) ==
    /\ execute_command
    /\ IF _EnableBuffering
       THEN /\ _EnableModifiedBuffer' = enable
            /\ Says(<<"modified", enable>>)
       ELSE /\ Says(<<"not enabled">>)
            /\ UNCHANGED _EnableModifiedBuffer
    /\ UNCHANGED <<_PageRepAlgoType, _UHeapPlacementStrategy, _KHeapPlacementStrategy,
                   _EnableBuffering, _ModifiedBufferLength, envVars>>

command_disable_modified_buffer == SetModifiedBuffer(FALSE)
command_enable_modified_buffer == SetModifiedBuffer(TRUE)

BufferingAlone ==
    /\ execute_command
    /\ _EnableBuffering' = FALSE
    /\ Says(<<"buffering", FALSE>>)
    /\ UNCHANGED <<_PageRepAlgoType, _UHeapPlacementStrategy, _KHeapPlacementStrategy,
                   _EnableModifiedBuffer, _ModifiedBufferLength, envVars>>

command_disable_buffering ==
    /\ execute_command
    /\ _EnableBuffering' = FALSE
    /\ _EnableModifiedBuffer' = FALSE
    /\ Says(<<"buffering", FALSE>>)
    /\ UNCHANGED <<_PageRepAlgoType, _UHeapPlacementStrategy, _KHeapPlacementStrategy,
                   _ModifiedBufferLength, envVars>>

\* With a length of 0 another one is read, and not looked at.
command_enable_buffering ==
    /\ execute_command
    /\ _EnableBuffering' = TRUE
    /\ _EnableModifiedBuffer' = TRUE
    /\ IF _ModifiedBufferLength = 0
       THEN _ModifiedBufferLength' \in Numbers
       ELSE UNCHANGED _ModifiedBufferLength
    /\ Says(<<"buffering", TRUE>>)
    /\ UNCHANGED <<_PageRepAlgoType, _UHeapPlacementStrategy, _KHeapPlacementStrategy,
                   envVars>>

\* The warnings that buffering is off do not keep it from being set.
command_set_modified_buffer_length ==
    /\ execute_command
    /\ _ModifiedBufferLength' \in Numbers
    /\ Says(<<"length", _ModifiedBufferLength'>>)
    /\ UNCHANGED <<_PageRepAlgoType, _UHeapPlacementStrategy, _KHeapPlacementStrategy,
                   _EnableBuffering, _EnableModifiedBuffer, envVars>>

-----------------------------------------------------------------------------
(***************************************************************************)
(* Creating environments: run and load with two to four words behind them. *)
(***************************************************************************)
Minus(a, b) == (a + UINT_MAX + 1 - b) % (UINT_MAX + 1)

\* The sizes CreateEnv takes from the words, by their number and the setting.
Sizes(numbers) ==
    IF _PageRepAlgoType = "LISTS"
    THEN IF numbers = 1 THEN {} ELSE {[ws |-> w, second |-> s] : w, s \in Numbers}
    ELSE IF numbers = 3 THEN {} ELSE {[ws |-> w, second |-> 0] : w \in Numbers}

AcceptedEqual(s) ==
    /\ s.ws <= PWS_MAX_SIZE
    /\ _PageRepAlgoType = "LISTS" => s.second <= s.ws

Accepted(s) ==
    /\ s.ws <= PWS_MAX_SIZE
    /\ _PageRepAlgoType = "LISTS" => s.second <= Minus(s.ws, 1)

Refused ==
    /\ execute_command
    /\ Says(<<"error">>)
    /\ UNCHANGED <<settings, envVars>>

\* A percentage above 100 is asserted against, not refused; and without a frame
\* for the directory env_create panics before it takes the entry.
PanicsEarly ==
    /\ execute_command
    /\ Panics
    /\ UNCHANGED <<settings, envVars>>

FirstFree == CHOOSE e \in Envs : where[e] = "free"

\* LRU lists get their sizes only from the setting of this moment.  Once the
\* entry has left the free list a panic takes it out of every queue: no frame,
\* no room in the page file, a full table working set, and, for a working set
\* of no pages, the division by its size when the first page is loaded.
env_create(s) ==
    /\ execute_command
    /\ \E e \in Envs : where[e] = "free"
    /\ size' = [size EXCEPT ![FirstFree] =
                  [ws |-> s.ws, second |-> s.second,
                   active |-> IF _PageRepAlgoType = "LISTS" THEN Minus(s.ws, s.second) ELSE 0]]
    /\ \E pages \in SUBSET Pages : present' = [present EXCEPT ![FirstFree] = pages]
    /\ \/ /\ s.ws # 0
          /\ where' = [where EXCEPT ![FirstFree] = "new"]
          /\ Says(<<"created", FirstFree>>)
       \/ /\ where' = [where EXCEPT ![FirstFree] = "lost"]
          /\ Panics
    /\ UNCHANGED settings

CreateEnv ==
    \/ \E numbers \in 1 .. 3 : \E s \in Sizes(numbers) :
         IF Accepted(s) THEN env_create(s) ELSE Refused
    \/ Refused
    \/ PanicsEarly

-----------------------------------------------------------------------------
(***************************************************************************)
(* Environments that run, fault and are freed.                             *)
(***************************************************************************)
\* An environment on the processor exits, or a page fault stops it: while
\* buffering is on, the handler is a panic, and one without LRU lists has no
\* page to give up and takes the kernel with it.
RunToEnd ==
    /\ ~Crashed
    /\ commandCount < MaxCommands
    /\ commandCount' = commandCount + 1
    /\ \E e \in Envs :
         /\ where[e] = "new"
         /\ where' = [where EXCEPT ![e] = "exit"]
         /\ \E pages \in SUBSET Pages : present' = [present EXCEPT ![e] = pages]
         /\ \/ Says(<<"exited", e>>)
            \/ _EnableBuffering /\ Panics
            \/ ~_EnableBuffering /\ size[e].active = 0 /\ Says(<<"kernel", "crashed">>)
    /\ UNCHANGED <<settings, size>>

FreeLosesSlot(e) ==
    /\ where' = [where EXCEPT ![e] = "lost"]
    /\ present' = [present EXCEPT ![e] = {}]
    /\ Says(<<"freed", e>>)
    /\ UNCHANGED size

\* start_env_free: the caller took the environment out of its queue.  With
\* buffering on it panics before anything is freed.
start_env_free(e) ==
    IF _EnableBuffering
    THEN /\ where' = [where EXCEPT ![e] = "lost"]
         /\ Panics
         /\ UNCHANGED <<size, present>>
    ELSE /\ where' = [where EXCEPT ![e] = "free"]
         /\ size' = [size EXCEPT ![e] = NoSize]
         /\ present' = [present EXCEPT ![e] = {}]
         /\ Says(<<"freed", e>>)

command_kill_program ==
    /\ execute_command
    /\ \E e \in Envs : where[e] \in {"new", "exit"} /\ start_env_free(e)
    /\ UNCHANGED settings

\* kill of an id in no queue reads the id of curenv, which is NULL.
KillUnknown ==
    /\ execute_command
    /\ Says(<<"kernel", "crashed">>)
    /\ UNCHANGED <<settings, envVars>>

\* killall: with buffering on the first panic ends it.
command_kill_all ==
    /\ execute_command
    /\ \E e \in Envs : where[e] \in {"new", "exit"}
    /\ IF _EnableBuffering
       THEN \E e \in Envs : where[e] \in {"new", "exit"} /\ start_env_free(e)
       ELSE /\ where' = [e \in Envs |-> IF where[e] = "lost" THEN "lost" ELSE "free"]
            /\ size' = [e \in Envs |-> IF where[e] = "lost" THEN size[e] ELSE NoSize]
            /\ present' = [e \in Envs |-> IF where[e] = "lost" THEN present[e] ELSE {}]
            /\ Says(<<"killed all">>)
    /\ UNCHANGED settings

-----------------------------------------------------------------------------
(***************************************************************************)
(* The memory commands.  rcr3, lcr3 of the environment, the access, lcr3   *)
(* back: a page that is not present faults with no environment to serve.   *)
(***************************************************************************)
InUserMemory(e, pages, report) ==
    IF pages \subseteq present[e] THEN Says(report) ELSE Says(<<"kernel", "crashed">>)

\* envid2env knows an environment until its slot is cleared.
Known == {e \in Envs : where[e] # "free"}

command_writeusermem(e, p) == InUserMemory(e, {p}, <<"written", e>>)
command_readusermem(e, p) == InUserMemory(e, {p}, <<"value", e>>)
command_readuserblock(e, pages) == InUserMemory(e, pages, <<"block", e>>)

UserMemory ==
    /\ execute_command
    /\ \/ \E e \in Known, p \in Pages :
            command_writeusermem(e, p) \/ command_readusermem(e, p)
       \/ \E e \in Known, pages \in SUBSET Pages : command_readuserblock(e, pages)
       \/ Says(<<"nothing">>)
    /\ UNCHANGED <<settings, envVars>>

\* rut: the page table of an address goes, and with it every page below it.
command_remove_table ==
    /\ execute_command
    /\ \E e \in Known : present' = [present EXCEPT ![e] = {}]
    /\ Says(<<"nothing">>)
    /\ UNCHANGED <<settings, where, size>>

\* wm and rm reach every physical address below the end of memory.
command_writemem_k == Says(<<"written">>)
command_readmem_k == Says(<<"value">>)

KernelMemory ==
    /\ execute_command
    /\ command_writemem_k \/ command_readmem_k
    /\ UNCHANGED <<settings, envVars>>

-----------------------------------------------------------------------------
(***************************************************************************)
(* The test commands: which test of the kernel heap they call.  The heap   *)
(* is not part of this build, so that the test ends in its panic.          *)
(***************************************************************************)
command_test_kmalloc(testNum) ==
    CASE _KHeapPlacementStrategy = "CONTALLOC" -> {"test_kmalloc"}
      [] _KHeapPlacementStrategy = "WORST" -> {"test_kmalloc_worstfit"}
      [] _KHeapPlacementStrategy = "FIRST" /\ testNum = 1 -> {"test_kmalloc_firstfit1"}
      [] _KHeapPlacementStrategy = "FIRST" /\ testNum = 2 -> {"test_kmalloc_firstfit2"}
      [] _KHeapPlacementStrategy = "BEST" /\ testNum = 1 -> {"test_kmalloc"}
      [] _KHeapPlacementStrategy = "BEST" /\ testNum = 2 -> {"test_kmalloc_bestfit1"}
      [] _KHeapPlacementStrategy = "BEST" /\ testNum = 3 -> {"test_kmalloc_bestfit2"}
      [] _KHeapPlacementStrategy = "NEXT" /\ testNum = 1 -> {"test_kmalloc"}
      [] _KHeapPlacementStrategy = "NEXT" /\ testNum = 2 -> {"test_kmalloc_nextfit"}
      [] OTHER -> {}

command_test_kfree ==
    {IF _KHeapPlacementStrategy = "BEST" THEN "test_kfree_bestfit" ELSE "test_kfree"}

command_test_krealloc ==
    CASE _KHeapPlacementStrategy = "NEXT" -> {"test_krealloc"}
      [] _KHeapPlacementStrategy = "BEST" -> {"test_krealloc_BF"}
      [] OTHER -> {}

TestCommand ==
    /\ execute_command
    /\ \E called \in {command_test_kmalloc(n) : n \in Numbers}
                     \cup {command_test_kfree, command_test_krealloc} :
         IF called = {} THEN Says(<<"nothing">>) ELSE Panics
    /\ UNCHANGED <<settings, envVars>>

\* tstsc4 counts the environments of its scenario in the exit queue, as far
\* as they follow each other, and panics if it is not the number given.
command_test_sc_MLFQ ==
    /\ execute_command
    /\ \E ofScenario \in SUBSET {e \in Envs : where[e] = "exit"}, n \in Numbers :
         IF Cardinality(ofScenario) = n THEN Says(<<"scenario">>) ELSE Panics
    /\ UNCHANGED <<settings, envVars>>

Next ==
    \/ command_set_page_rep_LRU \/ command_set_page_rep
    \/ command_set_uheap_plac \/ command_set_kheap_plac \/ Query
    \/ command_disable_modified_buffer \/ command_enable_modified_buffer
    \/ command_disable_buffering \/ command_enable_buffering
    \/ command_set_modified_buffer_length
    \/ CreateEnv \/ RunToEnd
    \/ command_kill_program \/ KillUnknown \/ command_kill_all
    \/ UserMemory \/ command_remove_table \/ KernelMemory \/ TestCommand \/ command_test_sc_MLFQ

Spec == Init /\ [][Next]_vars

-----------------------------------------------------------------------------
TypeOK ==
    /\ _PageRepAlgoType \in Replacements
    /\ _UHeapPlacementStrategy \in UHeapFits /\ _KHeapPlacementStrategy \in KHeapFits
    /\ _EnableBuffering \in BOOLEAN /\ _EnableModifiedBuffer \in BOOLEAN
    /\ _ModifiedBufferLength \in 0 .. UINT_MAX
    /\ where \in [Envs -> Queues]
    /\ size \in [Envs -> [ws : 0 .. UINT_MAX, active : 0 .. UINT_MAX, second : 0 .. UINT_MAX]]
    /\ present \in [Envs -> SUBSET Pages]
    /\ commandCount \in 0 .. MaxCommands

(***************************************************************************)
(* What a command says it set is what the query command would answer       *)
(* (khcontalloc apart), and buff leaves a length behind.                   *)
(***************************************************************************)
ReportsAgree ==
    /\ said[1] = "replacement" => said[2] = _PageRepAlgoType
    /\ said[1] = "uheap" => said[2] = _UHeapPlacementStrategy
    /\ said[1] = "kheap" /\ _KHeapPlacementStrategy # "CONTALLOC"
         => said[2] = _KHeapPlacementStrategy
    /\ said[1] = "modified" => said[2] = _EnableModifiedBuffer /\ _EnableBuffering
    /\ said[1] = "length" => said[2] = _ModifiedBufferLength

(***************************************************************************)
(* The modified buffer is never on without buffering, in whatever order    *)
(* the five commands come.                                                 *)
(***************************************************************************)
ModifiedNeedsBuffering == _EnableModifiedBuffer => _EnableBuffering

(***************************************************************************)
(* Every environment that was created with pages has a working set within  *)
(* its array, and under the LRU lists two lists that fill it exactly, with *)
(* room in the active one: the sizes are unsigned, and the replacement     *)
(* algorithm may change between two commands.                              *)
(***************************************************************************)
SizesFit ==
    \A e \in Envs :
      where[e] \in {"new", "exit"} =>
        /\ size[e].ws \in 1 .. PWS_MAX_SIZE
        /\ \/ size[e].active = 0 /\ size[e].second = 0
           \/ size[e].active >= 1 /\ size[e].active + size[e].second = size[e].ws

(***************************************************************************)
(* A slot of envs[] goes out of every queue only by a panic: of a creation *)
(* that has taken it from the free list, or of a command that frees its    *)
(* environment while buffering is on.  killall loses no more than one, the *)
(* others stay where they are, and no command gets the slot back.          *)
(***************************************************************************)
LossesAreKnown ==
    [][\A e \in Envs :
         /\ where[e] = "lost" => where'[e] = "lost"
         /\ where[e] # "lost" /\ where'[e] = "lost" =>
              /\ said' = <<"panic">>
              /\ where[e] = "free" \/ _EnableBuffering
              /\ \A other \in Envs \ {e} : where'[other] = where[other]]_vars

(***************************************************************************)
(* The size of the LRU second list never equals or exceeds the size of the *)
(* working set, as CreateEnv tells the user.  Not so for a working set of  *)
(* no pages, as pageWSSize - 1 is unsigned.                                *)
(***************************************************************************)
SecondBelowWS ==
    \A e \in Envs : where[e] # "free" => size[e].second < size[e].ws
=============================================================================

------------------------------- MODULE Traps -------------------------------
(***************************************************************************)
(* How programs and the kernel take turns: the trap frames that the entry  *)
(* code saves and env_pop_tf restores (kern/trapentry.S, kern/trap.c), the *)
(* timer that is stopped in the kernel and resumed for a program           *)
(* (kern/kclock.c), the dispatcher of the system calls with the answers    *)
(* that come back in eax (kern/syscall.c, lib/syscall.c), and the checks   *)
(* that "schedTest 1" makes of the scheduler (kern/utilities.c).  What     *)
(* happens to the environments is the module Scheduler.                    *)
(*                                                                         *)
(* All gates are interrupt gates: a trap is one step, from the program it  *)
(* interrupts to the one that runs next.                                   *)
(***************************************************************************)
EXTENDS Scheduler

CONSTANTS
    Calls,              \* the system calls that are made: by kind of use, the
                        \* sets of those of each environment
    Pages,              \* pages that programs store to
    CountsRead,         \* values of counter 0 when a trap comes
    MaxTests,           \* bound on the count of successful tests
    ActiveList, SecondList, WSSize,        \* of each environment
    percentage_of_WS_pages_to_be_removed   \* of each environment

PagesIn(list) == \A p \in ToSet(list) : p \in Nat

ASSUME TrapsAssumption ==
    /\ CountsRead \subseteq Nat \ {0}
    /\ MaxTests \in Nat
    /\ \A s \in Slots : /\ PagesIn(ActiveList[s]) /\ PagesIn(SecondList[s])
                        /\ WSSize[s] \in Nat
                        /\ percentage_of_WS_pages_to_be_removed[s] \in 0 .. 100

VARIABLES
    regs,              \* the registers of the program that runs: eip, eax, IF
    env_tf,            \* the frames of the others; IF is in interruptible
    env_parent_id,
    timer,             \* counter 0 of the 8253 and its mask in the 8259A
    quantum,           \* quantums[0], in ms
    kern,              \* globals that system calls read and write
    chk,               \* __chkstatus and the outcome of chk1 and chk2
    due,               \* history: the answer that each environment must get
    kind               \* the use that programs make of system calls

trapVars == <<regs, env_tf, env_parent_id, timer, quantum, kern, chk, due,
              kind>>
allVars == <<vars, trapVars>>

-----------------------------------------------------------------------------
(***************************************************************************)
(* The timer: counter 0 is 16 bits wide and is set for a quantum to an     *)
(* even number.                                                            *)
(***************************************************************************)
TIMER_FREQ == 1193182
TIMER_DIV(x) == (TIMER_FREQ + x \div 2) \div x
Even(n) == n + (n % 2)

Counts(ms) == Even(TIMER_DIV(1000 \div ms))

\* Mutant: the high byte is not written.
LowByte(ms) == [count |-> Counts(ms) % 2^8, masked |-> TRUE]

\* kclock_set_quantum, which ends by masking the interrupt.
kclock_set_quantum(ms) == [count |-> Counts(ms) % 2^16, masked |-> TRUE]

kclock_stop(left) == [count |-> left, masked |-> TRUE]

kclock_resume(t) ==
    [count |-> Even(IF t.count < 20 THEN 20 ELSE t.count), masked |-> FALSE]

\* What the counter may have come to since it was loaded.
Left == {c \in CountsRead \cup {timer.count} : c <= timer.count}

-----------------------------------------------------------------------------
(***************************************************************************)
(* Trap frames.  eip is "run", or the system call the program is just      *)
(* behind, with the answer still in eax.                                   *)
(***************************************************************************)
NoFrame == [eip |-> "none", eax |-> 0]
NewFrame == [eip |-> "run", eax |-> 0]

Saved(r) == [eip |-> r.eip, eax |-> r.eax]

\* Mutant: a program that is interrupted starts again.
StartsAgain(tfs) ==
    [s \in Slots |-> IF env_id'[s] = 0 THEN NoFrame
                     ELSE IF env_id[s] = 0 \/ (s = curenv /\ curenv' # curenv) THEN NewFrame
                     ELSE tfs[s]]

\* The frames after a step that may create and free environments.
Frames(tfs) ==
    [s \in Slots |-> IF env_id'[s] = 0 THEN NoFrame
                     ELSE IF env_id[s] = 0 THEN NewFrame
                     ELSE tfs[s]]

\* The registers that a frame gives, with the interrupt flag.
Popped(frame, intr) == [eip |-> frame.eip, eax |-> frame.eax, intr |-> intr]

\* Mutant: the interrupt flag of the program that ran before is kept.
PopsKeepsIF(tfs) ==
    regs' = IF curenv' = NULL THEN Popped(NoFrame, FALSE)
            ELSE Popped(tfs[curenv'], IF curenv = NULL THEN curenv' \in interruptible'
                                      ELSE regs.intr)

env_pop_tf(tfs) ==
    regs' = IF curenv' = NULL THEN Popped(NoFrame, FALSE)
            ELSE Popped(tfs[curenv'], curenv' \in interruptible')

\* A new environment is the child of the one that runs.
complete_environment_initialization ==
    env_parent_id' = [s \in Slots |->
         IF env_id'[s] = 0 THEN 0
         ELSE IF env_id[s] # 0 THEN env_parent_id[s]
         ELSE IF curenv = NULL THEN 0 ELSE env_id[curenv]]

\* schenv: the one the scheduler must choose: with one queue, the last of
\* those that are ready.
schenv(ready, cur) == IF ready # << >> THEN Last(ready) ELSE cur

chk2(ready, cur) ==
    /\ curenv' = schenv(ready, cur)
    /\ curenv' # NULL =>
         /\ LET upper == Counts(quantum) % 2^16
                current == kclock_set_quantum(quantum).count
            IN  (90 * upper) \div 100 < current /\ current <= upper
         /\ curenv' \notin ToSet(env_ready_queue')
    /\ cur \notin {NULL, curenv'} => cur \in ToSet(env_ready_queue')

\* The answers that are due, with those to environments that are gone dropped.
Due(d) == due' = [s \in Slots |-> IF env_id'[s] = 0 THEN 0 ELSE d[s]]

\* What follows fos_scheduler, called with these ready environments and this
\* current one: the counter is set, the choice is checked, and the program
\* chosen runs, or the prompt.
Scheduled(tfs, ready, cur) ==
    LET set == kclock_set_quantum(quantum)
        frames == Frames(tfs)
    IN  /\ chk' = [chk EXCEPT !.failed = @ \/ (chk.status /\ ~chk2(ready, cur))]
        /\ timer' = IF curenv' = NULL THEN set ELSE kclock_resume(set)
        /\ env_tf' = frames
        /\ env_pop_tf(frames)
        /\ complete_environment_initialization

\* What follows a trap after which the same program goes on.
Resumed(tfs, t) ==
    LET frames == Frames(tfs)
    IN  /\ timer' = kclock_resume(t)
        /\ env_tf' = frames
        /\ env_pop_tf(frames)
        /\ complete_environment_initialization
        /\ UNCHANGED chk

\* trap: the counter stops and the frame on the stack goes to the current
\* environment.
trap == [env_tf EXCEPT ![curenv] = Saved(regs)]

UserMode == Running
AtCall(c) == UserMode /\ regs.eip = "run" /\ c \in Calls[kind][curenv]

-----------------------------------------------------------------------------
(***************************************************************************)
(* The commands of the prompt and the interrupts of the timer.             *)
(***************************************************************************)
PromptRuns ==
    /\ \/ \E s \in Slots : /\ command_run_program(s)
                           /\ Scheduled(env_tf, Cons(s, env_ready_queue), NULL)
       \/ /\ sched_run_all
          /\ Scheduled(env_tf, Reverse(env_new_queue) \o env_ready_queue, NULL)
    /\ Due(due)
    /\ UNCHANGED <<quantum, kern, kind>>

PromptChanges ==
    /\ AtPrompt
    /\ \/ sched_kill_all
       \/ \E id \in Ids : command_kill_program(id)
       \/ \E s \in Slots : CreateEnv(s)
    /\ complete_environment_initialization
    /\ env_tf' = Frames(env_tf)
    /\ Due(due)
    /\ UNCHANGED <<regs, timer, quantum, kern, chk, kind>>

PromptSets ==
    /\ AtPrompt
    /\ \/ \E ms \in Quanta :
            /\ command_sch_RR(ms)
            /\ quantum' = ms % 256
            /\ timer' = IF machine' = "up" THEN kclock_set_quantum(ms % 256) ELSE timer
            /\ UNCHANGED chk
       \/ \E onoff \in BOOLEAN :                    \* schedTest
            /\ chk' = [chk EXCEPT !.status = onoff]
            /\ UNCHANGED <<vars, quantum, timer>>
    /\ UNCHANGED <<regs, env_tf, env_parent_id, kern, due, kind>>

\* The interrupt of the timer comes while a program runs with FL_IF.
IRQ0_Clock ==
    /\ UserMode /\ regs.intr /\ ~timer.masked
    /\ clock_interrupt_handler
    /\ Scheduled(trap, env_ready_queue, curenv)
    /\ UNCHANGED <<quantum, kern, due, kind>>

-----------------------------------------------------------------------------
(***************************************************************************)
(* System calls that answer about the caller or the kernel.  A call is a   *)
(* record of its number and of the five registers it uses.                 *)
(***************************************************************************)
E_BAD_ENV == 0 - 2
E_INVAL == 0 - 3
MAX_SHARES == 100
PAGE_SIZE == 4
ROUNDDOWN(a) == a - (a % PAGE_SIZE)

\* Mutant: only as many pages are compared as are given.
EqualToSize(list, content, n) ==
    \A k \in 1 .. n : k \in DOMAIN list => ROUNDDOWN(list[k]) = ROUNDDOWN(content[k])

\* One half of sys_check_LRU_lists: the pages of the list against the memory
\* at content, and its size.
ListIs(list, content, n) ==
    /\ \A k \in DOMAIN list :
         k \in DOMAIN content => ROUNDDOWN(list[k]) = ROUNDDOWN(content[k])
    /\ Len(list) = n

Flag(b) == IF b THEN 1 ELSE 0

sys_check_LRU_lists(active, second, n1, n2) ==
    Flag(/\ active # << >> => ListIs(ActiveList[curenv], active, n1)
         /\ second # << >> => ListIs(SecondList[curenv], second, n2))

sys_check_LRU_lists_free(content, n) ==
    Flag(\E p \in ToSet(ActiveList[curenv] \o SecondList[curenv]), k \in 1 .. n :
           ROUNDDOWN(p) = ROUNDDOWN(content[k]))

\* The pages of a working set to remove: the percentage, rounded up.
Removed(percentage, pages) ==
    (percentage * pages) \div 100 + Flag((percentage * pages) % 100 > 0)

\* The sum of the pages of some environments.
Total(pages, envs) == MapThenSumSet(LAMBDA s : pages[s], envs)

calc_no_pages_tobe_removed_from_ready_exit_queues(memory) ==
    LET percentage == percentage_of_WS_pages_to_be_removed[curenv]
        removed == [s \in Slots |-> Removed(percentage, WSSize[s])]
    IN  (IF memory
         THEN Total(removed, ToSet(env_ready_queue)) + Total(WSSize, ToSet(env_exit_queue))
         ELSE 0)
        + removed[curenv]

\* tst: 'b' compares with the lower bound twice.
tst(n, v1, v2, op, inv) ==
    \/ op = "l" /\ (n < v1 \/ inv)
    \/ op = "g" /\ (n > v1 \/ inv)
    \/ op = "e" /\ (n = v1 \/ inv)
    \/ op = "b" /\ n >= v1 /\ n <= v1

Returns(v) == {[ret |-> v, kern |-> kern]}
Sets(k) == {[ret |-> 0, kern |-> k]}

\* The calls of the second half of the dispatcher: those of the test programs.
syscall_tests(c) ==
    CASE c.no = "get_max_shares" -> Returns(MAX_SHARES)
      [] c.no = "rcr2" -> Returns(kern.cr2)
      [] c.no = "bypassPageFault" -> Sets([kern EXCEPT !.bypassInstrLength = c.length])
      [] c.no = "rsttst" -> Sets([kern EXCEPT !.tstcnt = 0])
      [] c.no \in {"inctst", "testNum"} -> Sets([kern EXCEPT !.tstcnt = @ + 1])
      [] c.no \in {"chktst", "get_virtual_time"} -> Returns(0)
      [] c.no = "gettst" -> Returns(kern.tstcnt)
      [] c.no = "get_heap_strategy" -> Returns(kern.strategy)
      [] c.no = "set_heap_strategy" -> Sets([kern EXCEPT !.strategy = c.strategy])
      [] c.no = "check_LRU_lists" -> Returns(sys_check_LRU_lists(c.active, c.second, c.n1, c.n2))
      [] c.no = "check_LRU_lists_free" -> Returns(sys_check_LRU_lists_free(c.content, c.n))
      [] c.no = "NSYSCALLS" -> Returns(0 - E_INVAL)
      [] OTHER -> {}

\* Calls whose handlers end in panic: kernel objects that are not there, and a
\* failed test.
Panics(c) ==
    \/ c.no \in {"map_frame", "unmap_frame", "create_semaphore", "wait_semaphore",
                 "signal_semaphore", "get_semaphore_value", "create_shared_object",
                 "get_shared_object", "free_shared_object",
                 "get_size_of_shared_object", "moveMem"}
    \/ c.no = "testNum" /\ ~tst(c.n, c.v1, c.v2, c.op, c.inv)
    \/ c.no = "chktst" /\ kern.tstcnt # c.n

\* What a call that returns may do: its answer and the globals.  The numbers
\* of frames, of pages and of characters come from elsewhere; the string that
\* is printed may have pages that the kernel faults on.
syscall(c) ==
    CASE c.no = "getenvid" -> Returns(env_id[curenv])
      [] c.no = "getenvindex" -> Returns(curenv)
      [] c.no = "getparentenvid" -> Returns(env_parent_id[curenv])
      [] c.no \in {"calc_req_frames", "calc_free_frames", "calc_modified_frames",
                   "calc_notmod_frames", "pf_calc_allocated_pages", "cgetc"} ->
           Returns(c.answer)
      [] c.no = "calculate_pages_tobe_removed_ready_exit" ->
           Returns(calc_no_pages_tobe_removed_from_ready_exit_queues(c.memory))
      [] c.no \in {"scarce_memory", "freeMem", "allocate_page", "allocateMem",
                   "clearFFL", "cputc"} -> Returns(0)
      [] c.no = "cputs" -> Returns(0) \cup UNION {Sets([kern EXCEPT !.cr2 = p]) : p \in Pages}
      [] OTHER -> syscall_tests(c)

\* The answers as the stubs of lib/syscall.c promise them.
RoundedUp(percentage, pages) ==
    CHOOSE n \in 0 .. pages : 100 * n >= percentage * pages /\ 100 * (n - 1) < percentage * pages

SamePages(list, content, n) ==
    content # << >> =>
      [k \in DOMAIN list |-> ROUNDDOWN(list[k])]
        = [k \in 1 .. n |-> ROUNDDOWN(content[k])]

Answer(c, ret) ==
    CASE c.no = "check_LRU_lists" ->
           Flag(/\ SamePages(ActiveList[curenv], c.active, c.n1)
                /\ SamePages(SecondList[curenv], c.second, c.n2))
      [] c.no = "calculate_pages_tobe_removed_ready_exit" ->
           LET share == [s \in Slots |-> RoundedUp(percentage_of_WS_pages_to_be_removed[curenv],
                                                  WSSize[s])]
               waiting == {s \in Slots : env_status[s] \in {"ENV_READY", "ENV_RUNNABLE"}}
                            \ {curenv}
               exited == {s \in Slots : env_status[s] = "ENV_EXIT"}
           IN  (IF c.memory THEN Total(share, waiting) + Total(WSSize, exited) ELSE 0)
               + share[curenv]
      [] OTHER -> ret

-----------------------------------------------------------------------------
(***************************************************************************)
(* Traps of programs: system calls, page faults, and the instructions      *)
(* between them.                                                           *)
(***************************************************************************)
\* The frames when the call has returned.
Answered(c, ret) == [trap EXCEPT ![curenv] = [eip |-> c.no, eax |-> ret]]

CallReturns(c) ==
    /\ AtCall(c) /\ ~Panics(c)
    /\ \E out \in syscall(c), left \in Left :
         /\ out.kern.tstcnt <= MaxTests
         /\ kern' = out.kern
         /\ due' = [due EXCEPT ![curenv] = Answer(c, out.ret)]
         /\ UNCHANGED <<vars, quantum, kind>>
         /\ Resumed(Answered(c, out.ret), kclock_stop(left))

\* The interrupt flag is the one in the saved frame.
CallSetsIF(c) ==
    /\ AtCall(c)
    /\ \/ c.no = "disableINTR" /\ sys_disable_interrupt
       \/ c.no = "enableINTR" /\ sys_enable_interrupt
    /\ Resumed(Answered(c, 0), kclock_stop(timer.count))
    /\ due' = [due EXCEPT ![curenv] = 0]
    /\ UNCHANGED <<quantum, kern, kind>>

\* env_exit: at the end of a program, in a panic of it or of the kernel.
Exits ==
    /\ UserMode /\ regs.eip = "run"
    /\ env_exit
    /\ Scheduled(trap, env_ready_queue, NULL)
    /\ UNCHANGED <<quantum, kern, due, kind>>

CallPanics(c) == AtCall(c) /\ Panics(c) /\ Exits

E_ENV_CREATION_ERROR == 0 - 17

CallCreates(c) ==
    /\ AtCall(c) /\ c.no = "create_env"
    /\ \/ \E s \in Slots :
            /\ CreateEnv(s)
            /\ Resumed(Answered(c, env_id'[s]), kclock_stop(timer.count))
            /\ due' = [due EXCEPT ![curenv] = 2 ^ ENVGENSHIFT + s, ![s] = 0]
       \/ /\ env_free_list = << >>
          /\ UNCHANGED vars
          /\ Resumed(Answered(c, E_ENV_CREATION_ERROR), kclock_stop(timer.count))
          /\ due' = [due EXCEPT ![curenv] = E_ENV_CREATION_ERROR]
    /\ UNCHANGED <<quantum, kern, kind>>

CallRuns(c) ==
    /\ AtCall(c) /\ c.no = "run_env"
    /\ \E id \in Ids :
         IF Find(env_new_queue, id) # {} THEN sys_run_env(id) ELSE UNCHANGED vars
    /\ Resumed(Answered(c, 0), kclock_stop(timer.count))
    /\ due' = [due EXCEPT ![curenv] = 0]
    /\ UNCHANGED <<quantum, kern, kind>>

\* sys_free_env and sys_env_destroy of another environment, of the caller,
\* or of none.
CallFrees(c) ==
    /\ AtCall(c) /\ c.no \in {"free_env", "env_destroy"}
    /\ \E id \in Ids :
         LET known == \E s \in Slots : env_id[s] = id /\ id # 0
             ret == IF ~known /\ c.no = "env_destroy" THEN E_BAD_ENV ELSE 0
         IN  /\ id # 0
             /\ IF ~known THEN UNCHANGED vars
                ELSE IF c.no = "free_env" THEN sys_free_env(id) ELSE sys_env_destroy(id)
             /\ IF known /\ id = env_id[curenv]
                THEN /\ Scheduled(trap, env_ready_queue, NULL)
                     /\ Due(due)
                ELSE /\ Resumed(Answered(c, ret), kclock_stop(timer.count))
                     /\ Due([due EXCEPT ![curenv] = ret])
    /\ UNCHANGED <<quantum, kern, kind>>

\* A store to a page that is not there: fault_handler brings the page and the
\* program stores, unless some program has asked that faults are bypassed:
\* then the store is skipped.
StoreFaults(p) ==
    /\ UserMode /\ kind = "faults" /\ regs.eip = "run"
    /\ kern' = [kern EXCEPT !.cr2 = p]
    /\ UNCHANGED <<vars, quantum, due, kind>>
    /\ \E left \in Left :
         IF kern.bypassInstrLength # 0
         THEN Resumed([trap EXCEPT ![curenv].eip = "skipped"], kclock_stop(left))
         ELSE Resumed(trap, kclock_stop(left))

\* The program uses the answer, and goes on.
Uses ==
    /\ UserMode /\ regs.eip # "run"
    /\ regs' = [regs EXCEPT !.eip = "run", !.eax = 0]
    /\ due' = [due EXCEPT ![curenv] = 0]
    /\ UNCHANGED <<vars, env_tf, env_parent_id, timer, quantum, kern, chk, kind>>

-----------------------------------------------------------------------------
TrapsInit ==
    /\ Init
    /\ regs = Popped(NoFrame, FALSE)
    /\ env_tf = [s \in Slots |-> NoFrame]
    /\ env_parent_id = [s \in Slots |-> 0]
    /\ quantum = 10
    /\ timer = kclock_set_quantum(10)
    /\ kern = [tstcnt |-> 0, bypassInstrLength |-> 0, cr2 |-> 0, strategy |-> 1]
    /\ chk = [status |-> FALSE, failed |-> FALSE]
    /\ due = [s \in Slots |-> 0]
    /\ kind \in DOMAIN Calls

UserRuns ==
    \/ \E c \in UNION {Calls[kind][s] : s \in Slots} : \/ CallReturns(c)
                              \/ CallPanics(c)
                              \/ CallSetsIF(c)
                              \/ CallCreates(c)
                              \/ CallRuns(c)
                              \/ CallFrees(c)
    \/ Exits
    \/ \E p \in Pages : StoreFaults(p)
    \/ Uses

TrapsNext == PromptRuns \/ PromptChanges \/ PromptSets \/ IRQ0_Clock \/ UserRuns

TrapsSpec == TrapsInit /\ [][TrapsNext]_allVars

-----------------------------------------------------------------------------
Alive(s) == env_status[s] \in {"ENV_READY", "ENV_RUNNABLE"}

\* What environment s finds in its registers, whether it runs or waits.
Registers(s) == IF s = curenv THEN Saved(regs) ELSE env_tf[s]

\* The variables have their types; an entry of envs[] has a frame exactly
\* when it is in use, and counter 0 has 16 bits.
TrapsTypeOK ==
    /\ TypeOK
    /\ \A s \in Slots : /\ env_tf[s].eax \in Int
                        /\ env_tf[s] = NoFrame <=> env_id[s] = 0
                        /\ env_parent_id[s] \in 0 .. 2 ^ IdBits - 1
    /\ regs.intr \in BOOLEAN /\ regs.eax \in Int
    /\ curenv = NULL <=> regs.eip = "none"
    /\ timer.count \in 1 .. 2 ^ 16 - 1 /\ timer.masked \in BOOLEAN
    /\ quantum \in 0 .. 255
    /\ kern.tstcnt \in 0 .. MaxTests
    /\ chk.status \in BOOLEAN /\ chk.failed \in BOOLEAN

\* A program that comes back from a system call finds the answer to its own
\* call, also when other programs have run and have made calls since: which
\* lists are its own, how many pages will go, the id of its child
\* (trap.c:230, syscall.c:489-534, utilities.c:35-80).
OwnAnswers ==
    \A s \in Slots :
      Alive(s) /\ Registers(s).eip # "run" => Registers(s).eax = due[s]

\* While a program runs, the timer interrupt is not masked and does not come
\* before the program has run, and FL_IF is as this program asked last
\* (syscall.c:307-314, kclock.c:123-169).
InterruptsAsAsked ==
    Running => /\ regs.intr <=> curenv \in interruptible
               /\ ~timer.masked
               /\ timer.count >= 20 /\ timer.count % 2 = 0

\* The scheduler passes the checks that schedTest turns on: it takes the one
\* that waits longest, with a full quantum, out of the ready queue, and puts
\* the one before in (utilities.c:135-169).
SchedulerPassesChecks == ~chk.failed

\* Every turn of a program is one that the scheduler's own checks accept, with
\* the timer and FL_IF as they were asked for.
TurnsAreFair == InterruptsAsAsked /\ SchedulerPassesChecks

\* A program that is interrupted, that waits, or that becomes ready has the
\* same registers when it goes on (trap.c:266, user_environment.c:1120).
KeepsRegisters ==
    \A s \in Slots :
      /\ env_id[s] # 0 /\ env_id'[s] = env_id[s] /\ Alive(s)'
      /\ s # curenv \/ curenv' # curenv
      => Registers(s)' = Registers(s)

\* A program that is chosen gets all the counts of a quantum.
FullQuantum == curenv' # curenv /\ curenv' # NULL => timer'.count = Counts(quantum)

\* Whatever happens between two turns of a program, it goes on with what it had
\* and for as long as was set (trap.c:266, sched.c:136).
TurnsKept == [][KeepsRegisters /\ FullQuantum]_allVars

\* kclock.c:200: "Quantum should be between 1 ms and 53 ms": the part of
\* TurnsKept that fails for the longest of these quanta.
QuantumGiven == [][FullQuantum]_allVars
=============================================================================

----------------------------- MODULE Scheduler -----------------------------
(***************************************************************************)
(* The life cycle of environments: the table envs[] and its free list      *)
(* (kern/user_environment.c), the NEW, READY and EXIT queues and the       *)
(* round-robin scheduler (kern/sched.c), the system calls that create,     *)
(* run, free and exit environments (kern/syscall.c), the commands of the   *)
(* kernel prompt that do the same (kern/command_prompt.c), and the path a  *)
(* kernel panic takes through them (kern/init.c).                          *)
(*                                                                         *)
(* The kernel runs with interrupts disabled: a trap or a command is one    *)
(* step, which ends in the next environment or in the prompt.  The prompt  *)
(* runs when curenv = NULL, an environment runs otherwise.                 *)
(***************************************************************************)
EXTENDS Naturals, FiniteSetsExt, Sequences, SequencesExt

CONSTANTS
    NENV,         \* the number of entries of envs[]
    NULL,         \* the null pointer
    Quanta,       \* the numbers an operator gives to schedRR
    UnknownId     \* a number that is the id of no environment

ASSUME TableAssumption ==
    /\ NENV \in 1 .. 4095
    /\ NULL \notin 0 .. NENV - 1
    /\ Quanta \subseteq Nat
    /\ UnknownId \in 1 .. 4095

VARIABLES
    env_free_list,     \* indices of envs[], the first to be used first
    env_new_queue,     \* the queues, the newest member first
    env_ready_queue,   \* env_ready_queues[0]
    env_exit_queue,
    curenv,            \* the running environment, or NULL
    env_status,        \* the fields of envs[]
    env_id,
    interruptible,     \* the environments with FL_IF in their saved flags
    scheduler_status,
    machine,           \* "down" once the kernel recurses for ever
    freed_id           \* history: the id of the last environment freed of
                       \* each entry, 0 if none

vars == <<env_free_list, env_new_queue, env_ready_queue, env_exit_queue,
          curenv, env_status, env_id, interruptible, scheduler_status,
          machine, freed_id>>

Slots == 0 .. NENV - 1

(***************************************************************************)
(* Environment ids: a generation above the index of the entry.  And(a, b)  *)
(* is a & b for numbers of IdBits bits.                                    *)
(***************************************************************************)
IdBits == 14
ENVGENSHIFT == 12
Bits(n) == {k \in 0 .. IdBits - 1 : (n \div 2^k) % 2 = 1}
And(a, b) == SumSet({2^k : k \in Bits(a) \cap Bits(b)})
Or(a, b) == a + b - And(a, b)

ENVX(id) == And(id, NENV - 1)

\* Mutant: an id that is the generation alone.
IdWithoutIndex(s) ==
    LET next == env_id[s] + 2^ENVGENSHIFT IN next - And(next, NENV - 1)

NewId(s) ==
    LET next == env_id[s] + 2^ENVGENSHIFT
        generation == next - And(next, NENV - 1)
    IN Or(generation, s)

env_init ==
    /\ env_free_list = [i \in 1 .. NENV |-> i - 1]
    /\ env_status = [s \in Slots |-> "ENV_FREE"]
    /\ env_id = [s \in Slots |-> 0]
    /\ interruptible = {}

sched_init ==
    /\ env_new_queue = << >>
    /\ env_ready_queue = << >>
    /\ env_exit_queue = << >>
    /\ scheduler_status = "SCH_STOPPED"

Init ==
    /\ env_init
    /\ sched_init
    /\ curenv = NULL
    /\ machine = "up"
    /\ freed_id = [s \in Slots |-> 0]

AtPrompt == machine = "up" /\ curenv = NULL
Running == machine = "up" /\ curenv # NULL

-----------------------------------------------------------------------------
\* Mutants: the next environment is the newest one; the scheduler is not marked
\* as stopped when the prompt takes over.
PickNewest(ready, cur, status) ==
    LET queue == IF cur = NULL THEN ready ELSE Cons(cur, ready) IN
    IF queue = << >>
    THEN /\ curenv' = NULL
         /\ env_ready_queue' = << >>
         /\ env_status' = status
         /\ scheduler_status' = "SCH_STOPPED"
    ELSE /\ curenv' = Head(queue)
         /\ env_ready_queue' = Tail(queue)
         /\ env_status' = [status EXCEPT ![Head(queue)] = "ENV_RUNNABLE"]
         /\ scheduler_status' = "SCH_STARTED"

ForgetStop(ready, cur, status) ==
    LET queue == IF cur = NULL THEN ready ELSE Cons(cur, ready) IN
    IF queue = << >>
    THEN /\ curenv' = NULL
         /\ env_ready_queue' = << >>
         /\ env_status' = status
         /\ scheduler_status' = "SCH_STARTED"
    ELSE /\ curenv' = Last(queue)
         /\ env_ready_queue' = Front(queue)
         /\ env_status' = [status EXCEPT ![Last(queue)] = "ENV_RUNNABLE"]
         /\ scheduler_status' = "SCH_STARTED"

env_run(s, status) ==
    /\ curenv' = s
    /\ env_status' = [status EXCEPT ![s] = "ENV_RUNNABLE"]

(***************************************************************************)
(* fos_scheduler, from a ready queue, a current environment and the status *)
(* fields as its caller has left them.  The current environment goes to    *)
(* the head of the queue, the next one comes from its tail; without one    *)
(* the prompt runs.                                                        *)
(***************************************************************************)
fos_scheduler(ready, cur, status) ==
    LET queue == IF cur = NULL THEN ready ELSE Cons(cur, ready) IN
    IF queue = << >>
    THEN /\ curenv' = NULL
         /\ env_ready_queue' = << >>
         /\ env_status' = status
         /\ scheduler_status' = "SCH_STOPPED"
    ELSE /\ env_run(Last(queue), status)
         /\ env_ready_queue' = Front(queue)
         /\ scheduler_status' = "SCH_STARTED"

\* The clock interrupt, which only an environment with FL_IF can take.
clock_interrupt_handler ==
    /\ Running
    /\ curenv \in interruptible
    /\ fos_scheduler(env_ready_queue, curenv, env_status)
    /\ UNCHANGED <<env_free_list, env_new_queue, env_exit_queue, env_id,
                   interruptible, machine, freed_id>>

-----------------------------------------------------------------------------
(***************************************************************************)
(* Creation.  allocate_environment looks at the first free entry,          *)
(* complete_environment_initialization takes it.                           *)
(***************************************************************************)
Commit(s) ==
    /\ env_free_list # << >> /\ s = Head(env_free_list)
    /\ env_free_list' = Tail(env_free_list)
    /\ env_id' = [env_id EXCEPT ![s] = NewId(s)]
    /\ interruptible' = interruptible \cup {s}

\* load at the prompt, sys_create_env from an environment.
CreateEnv(s) ==
    /\ machine = "up"
    /\ Commit(s)
    /\ env_status' = [env_status EXCEPT ![s] = "ENV_NEW"]
    /\ env_new_queue' = Cons(s, env_new_queue)
    /\ UNCHANGED <<env_ready_queue, env_exit_queue, curenv, scheduler_status,
                   machine, freed_id>>

\* run at the prompt: the environment is new, then ready, then scheduled.
command_run_program(s) ==
    /\ AtPrompt
    /\ Commit(s)
    /\ fos_scheduler(Cons(s, env_ready_queue), NULL,
                     [env_status EXCEPT ![s] = "ENV_READY"])
    /\ UNCHANGED <<env_new_queue, env_exit_queue, machine, freed_id>>

\* Mutant: the exited environment is still the current one when the
\* scheduler runs.
ExitKeepsCurrent(status) ==
    /\ env_exit_queue' = Cons(curenv, env_exit_queue)
    /\ fos_scheduler(env_ready_queue, curenv,
                     [status EXCEPT ![curenv] = "ENV_EXIT"])

\* sched_exit_env of the current environment and the scheduler after it.
ExitCurrent(status) ==
    /\ env_exit_queue' = Cons(curenv, env_exit_queue)
    /\ fos_scheduler(env_ready_queue, NULL,
                     [status EXCEPT ![curenv] = "ENV_EXIT"])

\* env_create panics before the entry is taken (no frame for the directory) or
\* after it (no frame, no page-file space), which leaves the entry in no
\* queue.  The panic exits the environment that asked.
CreatePanics(s, committed) ==
    LET status == [env_status EXCEPT
                     ![s] = IF committed THEN "ENV_NEW" ELSE "ENV_UNKNOWN"]
    IN
    /\ machine = "up"
    /\ IF committed
       THEN Commit(s)
       ELSE /\ env_free_list # << >> /\ s = Head(env_free_list)
            /\ UNCHANGED <<env_free_list, env_id, interruptible>>
    /\ IF curenv # NULL
       THEN ExitCurrent(status)
       ELSE /\ fos_scheduler(env_ready_queue, NULL, status)
            /\ UNCHANGED env_exit_queue
    /\ UNCHANGED <<env_new_queue, machine, freed_id>>

-----------------------------------------------------------------------------
\* The positions of the environment with this id in a queue.
Find(queue, id) == {i \in DOMAIN queue : env_id[queue[i]] = id}

\* sched_run_env: a new environment becomes ready.
sched_run_env(i) ==
    /\ env_new_queue' = RemoveAt(env_new_queue, i)
    /\ env_ready_queue' = Cons(env_new_queue[i], env_ready_queue)
    /\ env_status' = [env_status EXCEPT ![env_new_queue[i]] = "ENV_READY"]

sys_run_env(id) ==
    /\ Running
    /\ \E i \in Find(env_new_queue, id) : sched_run_env(i)
    /\ UNCHANGED <<env_free_list, env_exit_queue, curenv, env_id,
                   interruptible, scheduler_status, machine, freed_id>>

\* runall: the new queue is emptied from its head into the ready queue.
sched_run_all ==
    /\ AtPrompt
    /\ env_new_queue' = << >>
    /\ fos_scheduler(Reverse(env_new_queue) \o env_ready_queue, NULL,
                     [s \in Slots |-> IF s \in ToSet(env_new_queue)
                                      THEN "ENV_READY" ELSE env_status[s]])
    /\ UNCHANGED <<env_free_list, env_exit_queue, env_id, interruptible,
                   machine, freed_id>>

\* Mutant: the entry keeps its id (and so its next id is of a later
\* generation).
FreeKeepsId(gone) ==
    /\ env_free_list' = Reverse(gone) \o env_free_list
    /\ env_status' = [s \in Slots |-> IF s \in ToSet(gone)
                                      THEN "ENV_FREE" ELSE env_status[s]]
    /\ freed_id' = [s \in Slots |-> IF s \in ToSet(gone)
                                    THEN env_id[s] ELSE freed_id[s]]
    /\ interruptible' = interruptible \ ToSet(gone)
    /\ UNCHANGED env_id

\* env_free of the environments gone, in this order: free_environment clears
\* the entry and puts it in front of the free list.
env_free(gone) ==
    /\ env_free_list' = Reverse(gone) \o env_free_list
    /\ env_status' = [s \in Slots |-> IF s \in ToSet(gone)
                                      THEN "ENV_FREE" ELSE env_status[s]]
    /\ env_id' = [s \in Slots |-> IF s \in ToSet(gone) THEN 0 ELSE env_id[s]]
    /\ freed_id' = [s \in Slots |-> IF s \in ToSet(gone)
                                    THEN env_id[s] ELSE freed_id[s]]
    /\ interruptible' = interruptible \ ToSet(gone)

\* killall.
sched_kill_all ==
    /\ AtPrompt
    /\ env_free(env_new_queue \o env_ready_queue \o env_exit_queue)
    /\ env_new_queue' = << >>
    /\ env_ready_queue' = << >>
    /\ env_exit_queue' = << >>
    /\ UNCHANGED <<curenv, scheduler_status, machine>>

\* sched_kill_env: an environment of a queue is freed.  The current one fails
\* the assertion that its id is ENV_RUNNABLE, and the panic exits it.  With no
\* current environment, an id that is in no queue is compared with
\* curenv->env_id: the kernel faults at address 0, and the fault handler
\* faults there again.
KillQueued(id) ==
    /\ \/ \E i \in Find(env_new_queue, id) :
            /\ env_free(<<env_new_queue[i]>>)
            /\ env_new_queue' = RemoveAt(env_new_queue, i)
            /\ UNCHANGED <<env_ready_queue, env_exit_queue>>
       \/ \E i \in Find(env_ready_queue, id) :
            /\ env_free(<<env_ready_queue[i]>>)
            /\ env_ready_queue' = RemoveAt(env_ready_queue, i)
            /\ UNCHANGED <<env_new_queue, env_exit_queue>>
       \/ \E i \in Find(env_exit_queue, id) :
            /\ env_free(<<env_exit_queue[i]>>)
            /\ env_exit_queue' = RemoveAt(env_exit_queue, i)
            /\ UNCHANGED <<env_new_queue, env_ready_queue>>
    /\ UNCHANGED <<curenv, scheduler_status, machine>>

KillCurrent(id) ==
    /\ curenv # NULL /\ env_id[curenv] = id
    /\ ExitCurrent(env_status)
    /\ UNCHANGED <<env_free_list, env_new_queue, env_id, interruptible,
                   machine, freed_id>>

KillUnknown(id) ==
    /\ curenv = NULL
    /\ Find(env_new_queue \o env_ready_queue \o env_exit_queue, id) = {}
    /\ machine' = "down"
    /\ UNCHANGED <<env_free_list, env_new_queue, env_ready_queue,
                   env_exit_queue, curenv, env_status, env_id, interruptible,
                   scheduler_status, freed_id>>

sched_kill_env(id) == KillQueued(id) \/ KillCurrent(id) \/ KillUnknown(id)

command_kill_program(id) == AtPrompt /\ sched_kill_env(id)

sys_free_env(id) == Running /\ sched_kill_env(id)

\* sys_env_destroy looks the id up first: 0 is the current environment.
envid2env(id) ==
    IF id = 0 THEN curenv
    ELSE IF env_status[ENVX(id)] = "ENV_FREE" \/ env_id[ENVX(id)] # id
         THEN NULL ELSE ENVX(id)

sys_env_destroy(id) ==
    /\ Running
    /\ envid2env(id) # NULL
    /\ sched_kill_env(env_id[envid2env(id)])

\* sys_env_exit, a user panic, or a kernel panic while the environment runs.
env_exit ==
    /\ Running
    /\ ExitCurrent(env_status)
    /\ UNCHANGED <<env_free_list, env_new_queue, env_id, interruptible,
                   machine, freed_id>>

sys_disable_interrupt ==
    /\ Running
    /\ interruptible' = interruptible \ {curenv}
    /\ UNCHANGED <<env_free_list, env_new_queue, env_ready_queue,
                   env_exit_queue, curenv, env_status, env_id,
                   scheduler_status, machine, freed_id>>

sys_enable_interrupt ==
    /\ Running
    /\ interruptible' = interruptible \cup {curenv}
    /\ UNCHANGED <<env_free_list, env_new_queue, env_ready_queue,
                   env_exit_queue, curenv, env_status, env_id,
                   scheduler_status, machine, freed_id>>

\* schedRR: the quantum is a byte.  One that kclock_set_quantum refuses is
\* kept, and the panic runs the scheduler, which sets the quantum again; so
\* does the divide error of a quantum of 0.  The ready queue is initialised.
QUANTUM_LIMIT == (1000 * 2^16) \div 1193182

command_sch_RR(n) ==
    /\ AtPrompt
    /\ scheduler_status' = "SCH_STOPPED"
    /\ IF n % 256 \in 1 .. QUANTUM_LIMIT - 1
       THEN env_ready_queue' = << >> /\ UNCHANGED machine
       ELSE machine' = "down" /\ UNCHANGED env_ready_queue
    /\ UNCHANGED <<env_free_list, env_new_queue, env_exit_queue, curenv,
                   env_status, env_id, interruptible, freed_id>>

-----------------------------------------------------------------------------
\* The ids a program or an operator may use: those of environments that are
\* or were, and one that never was.
Ids == {env_id[s] : s \in Slots} \cup {freed_id[s] : s \in Slots}
         \cup {UnknownId}

Prompt == \/ \E s \in Slots : command_run_program(s)
          \/ sched_run_all
          \/ sched_kill_all
          \/ \E id \in Ids : command_kill_program(id)
          \/ \E n \in Quanta : command_sch_RR(n)

User == \/ \E id \in Ids : \/ sys_run_env(id)
                           \/ sys_free_env(id)
                           \/ sys_env_destroy(id)
        \/ env_exit
        \/ sys_disable_interrupt

Next == \/ Prompt
        \/ User
        \/ \E s \in Slots : \/ CreateEnv(s)
                            \/ \E committed \in BOOLEAN :
                                 CreatePanics(s, committed)
        \/ sys_enable_interrupt
        \/ clock_interrupt_handler

Spec == Init /\ [][Next]_vars

-----------------------------------------------------------------------------
Statuses == {"ENV_FREE", "ENV_READY", "ENV_RUNNABLE", "ENV_NEW", "ENV_EXIT",
             "ENV_UNKNOWN"}

\* Every variable has the type of what it models; the ids fit the bits that
\* And works on.
TypeOK ==
    /\ env_free_list \in Seq(Slots)
    /\ env_new_queue \in Seq(Slots)
    /\ env_ready_queue \in Seq(Slots)
    /\ env_exit_queue \in Seq(Slots)
    /\ curenv \in Slots \cup {NULL}
    /\ env_status \in [Slots -> Statuses]
    /\ env_id \in [Slots -> 0 .. 2^(ENVGENSHIFT + 1) - 1]
    /\ interruptible \subseteq Slots
    /\ scheduler_status \in {"SCH_STOPPED", "SCH_STARTED"}
    /\ machine \in {"up", "down"}
    /\ freed_id \in [Slots -> 0 .. 2^(ENVGENSHIFT + 1) - 1]

\* The lists an entry of envs[] can be in, through its one pair of links.
Queues == <<env_free_list, env_new_queue, env_ready_queue, env_exit_queue>>
Placed == (UNION {ToSet(Queues[q]) : q \in 1 .. 4}) \cup {curenv}

\* An entry of envs[] is at one place at most, and its status says which: the
\* running environment is RUNNABLE (the assertion of trap.c:298) and one that
\* is at no place at all was lost by a failed creation.
OnePlace ==
    /\ \A q \in 1 .. 4 : IsInjective(Queues[q]) /\ curenv \notin ToSet(Queues[q])
    /\ \A q, r \in 1 .. 4 : q # r => ToSet(Queues[q]) \cap ToSet(Queues[r]) = {}
    /\ \A s \in ToSet(env_free_list) : env_status[s] \in {"ENV_FREE", "ENV_UNKNOWN"}
    /\ \A s \in ToSet(env_new_queue) : env_status[s] = "ENV_NEW"
    /\ \A s \in ToSet(env_ready_queue) :
         env_status[s] \in {"ENV_READY", "ENV_RUNNABLE"}
    /\ \A s \in ToSet(env_exit_queue) : env_status[s] = "ENV_EXIT"
    /\ curenv # NULL => env_status[curenv] = "ENV_RUNNABLE"
    /\ \A s \in Slots \ Placed : env_status[s] = "ENV_NEW"

\* The prompt runs exactly when no environment can: then the scheduler is
\* stopped, which sched_run_env and sched_run_all rely on to start it, and
\* schedRR, which initialises the ready queue, drops no environment.
IdleAtPrompt ==
    /\ curenv = NULL => env_ready_queue = << >>
    /\ curenv = NULL <=> scheduler_status = "SCH_STOPPED"

\* The environments in the system have different ids, so that an id found in
\* one queue is the id of no environment elsewhere; free entries have none.
UniqueIds ==
    /\ \A s, t \in Slots : env_id[s] = env_id[t] /\ env_id[s] # 0 => s = t
    /\ \A s \in ToSet(env_free_list) : env_id[s] = 0
    /\ \A s \in Slots \ ToSet(env_free_list) : env_id[s] # 0

\* The running environment and the ready queue behind it rotate, whoever
\* joins or leaves.
RoundRobin ==
    INSTANCE ReadyRing WITH
        Env  <- Slots,
        ring <- (IF curenv = NULL THEN << >> ELSE <<curenv>>)
                  \o Reverse(env_ready_queue)

RotatesInOrder == RoundRobin!Spec

\* No environment keeps the processor for ever.  This depends on the programs,
\* not on the scheduler: one may leave interrupts disabled until somebody types
\* (quicksort1.c:30), or make its next system call so soon, every time, that the
\* counter, which kclock_resume lifts to 20, never runs out (kclock.c:126).
ProcessorPasses == \A s \in Slots : []<>(curenv # s)

\* A ready environment does not wait for ever unless it is one program that it
\* waits for: those that share the processor, however they join and leave,
\* starve nobody (sched.c:113).
ReadyRuns ==
    ProcessorPasses =>
      \A s \in Slots :
        s \in ToSet(env_ready_queue) ~> s \notin ToSet(env_ready_queue)

\* syscall.c:90: sys_env_destroy destroys the environment, "possibly the
\* currently running environment".
DestroyedIsFree ==
    [][\A id \in Ids : sys_env_destroy(id)
                         => env_status'[envid2env(id)] = "ENV_FREE"]_vars
=============================================================================

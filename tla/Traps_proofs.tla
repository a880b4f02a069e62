---------------------------- MODULE Traps_proofs ----------------------------
(***************************************************************************)
(* Proofs about Scheduler, and about Traps, which drives it, for every     *)
(* size of envs[], every set of system calls and every quantum.            *)
(*                                                                         *)
(* Scheduler: that no entry is in two queues follows from the status       *)
(* fields: each queue holds entries of its own statuses, and only the      *)
(* running environment shares one with the ready queue.  So the inductive  *)
(* invariant SInv has the statuses, the absence of duplicates and the      *)
(* running environment's absence from the ready queue.  Placement says it  *)
(* of any queues and statuses, because the kernel calls fos_scheduler in   *)
(* the middle of a step: a lemma says that a placement given to            *)
(* fos_scheduler ends in one.                                              *)
(*                                                                         *)
(* Traps: the traps drive the environments as the module Scheduler says,   *)
(* every turn of a program is one that the scheduler's own checks accept,  *)
(* and no program loses its registers.                                     *)
(***************************************************************************)
EXTENDS Traps, ListLemmas

-----------------------------------------------------------------------------
(***************************************************************************)
(* Scheduler: the queues and the statuses.                                 *)
(***************************************************************************)
QueueTypes(free, new, ready, exit) ==
    /\ free \in Seq(Slots) /\ Distinct(free)
    /\ new \in Seq(Slots) /\ Distinct(new)
    /\ ready \in Seq(Slots) /\ Distinct(ready)
    /\ exit \in Seq(Slots) /\ Distinct(exit)

StatusTells(free, new, ready, exit, cur, status) ==
    /\ \A s \in ToSet(free) : status[s] \in {"ENV_FREE", "ENV_UNKNOWN"}
    /\ \A s \in ToSet(new) : status[s] = "ENV_NEW"
    /\ \A s \in ToSet(ready) : status[s] \in {"ENV_READY", "ENV_RUNNABLE"}
    /\ \A s \in ToSet(exit) : status[s] = "ENV_EXIT"
    /\ cur # NULL => status[cur] = "ENV_RUNNABLE"
    /\ cur \notin ToSet(ready)
    /\ \A s \in Slots : \/ s \in ToSet(free) \/ s \in ToSet(new)
                        \/ s \in ToSet(ready) \/ s \in ToSet(exit)
                        \/ s = cur \/ status[s] = "ENV_NEW"

Placement(free, new, ready, exit, cur, status) ==
    /\ QueueTypes(free, new, ready, exit)
    /\ cur \in Slots \cup {NULL}
    /\ status \in [Slots -> Statuses]
    /\ StatusTells(free, new, ready, exit, cur, status)

PlacedNow == Placement(env_free_list, env_new_queue, env_ready_queue,
                        env_exit_queue, curenv, env_status)

SInv == PlacedNow /\ IdleAtPrompt

\* The elements of a queue are entries of envs[].
LEMMA ElementsAreSlots ==
    ASSUME NEW q \in Seq(Slots)
    PROVE  ToSet(q) \subseteq Slots
  <1>1. \A i \in DOMAIN q : q[i] \in Slots
    BY LenProperties, ElementOfSeq
  <1>2. QED BY <1>1 DEF ToSet

\* fos_scheduler makes one of the environments it is given the current one and
\* keeps the others ready, or it stops.
LEMMA SchedulerPicks ==
    ASSUME NEW ready \in Seq(Slots), Distinct(ready),
           NEW cur \in Slots \cup {NULL}, cur \notin ToSet(ready),
           NEW status \in [Slots -> Statuses],
           fos_scheduler(ready, cur, status)
    PROVE  /\ env_ready_queue' \in Seq(Slots) /\ Distinct(env_ready_queue')
           /\ curenv' \in Slots \cup {NULL}
           /\ curenv' \notin ToSet(env_ready_queue')
           /\ \A s \in Slots : (s \in ToSet(env_ready_queue') \/ s = curenv')
                               <=> (s \in ToSet(ready) \/ s = cur)
           /\ env_status' \in [Slots -> Statuses]
           /\ \A s \in Slots : s # curenv' => env_status'[s] = status[s]
           /\ curenv' # NULL => env_status'[curenv'] = "ENV_RUNNABLE"
           /\ IdleAtPrompt'
  <1> DEFINE queue == IF cur = NULL THEN ready ELSE Cons(cur, ready)
  <1>1. NULL \notin Slots
    BY TableAssumption DEF Slots
  <1>2. /\ queue \in Seq(Slots) /\ Distinct(queue)
        /\ \A s \in Slots : s \in ToSet(queue) <=> (s \in ToSet(ready) \/ s = cur)
    <2>1. CASE cur = NULL
      BY <1>1, <2>1
    <2>2. CASE cur # NULL
      <3>1. cur \in Slots /\ queue = Cons(cur, ready)
        BY <2>2
      <3>2. Cons(cur, ready) \in Seq(Slots)
        BY <3>1, ConsShape
      <3>3. /\ ToSet(Cons(cur, ready)) = {cur} \cup ToSet(ready)
            /\ Distinct(Cons(cur, ready))
        BY <3>1, ConsElements
      <3>4. QED BY <3>1, <3>2, <3>3
    <2>3. QED BY <2>1, <2>2
  <1>3. fos_scheduler(ready, cur, status) <=>
          IF queue = << >>
          THEN /\ curenv' = NULL
               /\ env_ready_queue' = << >>
               /\ env_status' = status
               /\ scheduler_status' = "SCH_STOPPED"
          ELSE /\ curenv' = Last(queue)
               /\ env_status' = [status EXCEPT ![Last(queue)] = "ENV_RUNNABLE"]
               /\ env_ready_queue' = Front(queue)
               /\ scheduler_status' = "SCH_STARTED"
    BY DEF fos_scheduler, env_run
  <1> HIDE DEF queue
  <1>4. CASE queue = << >>
    <2>1. /\ curenv' = NULL /\ env_ready_queue' = << >> /\ env_status' = status
          /\ scheduler_status' = "SCH_STOPPED"
      BY <1>3, <1>4
    <2>2. ToSet(queue) = {} /\ Distinct(<< >>) /\ ToSet(<< >>) = {}
      BY <1>4, EmptyElements
    <2>3. IdleAtPrompt'
      BY <2>1 DEF IdleAtPrompt
    <2>4. QED BY <1>1, <1>2, <2>1, <2>2, <2>3
  <1>5. CASE queue # << >>
    <2>1. /\ curenv' = Last(queue) /\ env_ready_queue' = Front(queue)
          /\ env_status' = [status EXCEPT ![Last(queue)] = "ENV_RUNNABLE"]
          /\ scheduler_status' = "SCH_STARTED"
      BY <1>3, <1>5
    <2>2. /\ Front(queue) \in Seq(Slots) /\ Last(queue) \in Slots
          /\ Distinct(Front(queue)) /\ Last(queue) \notin ToSet(Front(queue))
          /\ ToSet(queue) = ToSet(Front(queue)) \cup {Last(queue)}
      BY <1>2, <1>5, FrontShape, FrontElements
    <2>3. IdleAtPrompt'
      BY <1>1, <2>1, <2>2 DEF IdleAtPrompt
    <2>4. /\ env_status' \in [Slots -> Statuses]
          /\ \A s \in Slots : s # curenv' => env_status'[s] = status[s]
          /\ env_status'[curenv'] = "ENV_RUNNABLE"
      BY <2>1, <2>2 DEF Statuses
    <2>5. QED BY <1>2, <2>1, <2>2, <2>3, <2>4
  <1>6. QED BY <1>4, <1>5

\* The places of a placement hold entries of envs[], and no entry is at two.
LEMMA PlacesDisjoint ==
    ASSUME NEW free, NEW new, NEW ready, NEW exit, NEW cur, NEW status,
           Placement(free, new, ready, exit, cur, status)
    PROVE  /\ NULL \notin Slots
           /\ ToSet(free) \subseteq Slots /\ ToSet(new) \subseteq Slots
           /\ ToSet(ready) \subseteq Slots /\ ToSet(exit) \subseteq Slots
           /\ ToSet(free) \cap ToSet(new) = {} /\ ToSet(free) \cap ToSet(ready) = {}
           /\ ToSet(free) \cap ToSet(exit) = {} /\ ToSet(new) \cap ToSet(ready) = {}
           /\ ToSet(new) \cap ToSet(exit) = {} /\ ToSet(ready) \cap ToSet(exit) = {}
           /\ cur \notin ToSet(free) /\ cur \notin ToSet(new)
           /\ cur \notin ToSet(ready) /\ cur \notin ToSet(exit)
  <1>1. NULL \notin Slots
    BY TableAssumption DEF Slots
  <1>2. /\ ToSet(free) \subseteq Slots /\ ToSet(new) \subseteq Slots
        /\ ToSet(ready) \subseteq Slots /\ ToSet(exit) \subseteq Slots
    BY ElementsAreSlots DEF Placement, QueueTypes
  <1>3. StatusTells(free, new, ready, exit, cur, status)
    BY DEF Placement
  <1>4. cur = NULL \/ status[cur] = "ENV_RUNNABLE"
    BY <1>3 DEF StatusTells
  <1>5. /\ cur \notin ToSet(free) /\ cur \notin ToSet(new)
        /\ cur \notin ToSet(ready) /\ cur \notin ToSet(exit)
    BY <1>1, <1>2, <1>3, <1>4 DEF StatusTells
  <1>6. /\ ToSet(free) \cap ToSet(new) = {} /\ ToSet(free) \cap ToSet(ready) = {}
        /\ ToSet(free) \cap ToSet(exit) = {} /\ ToSet(new) \cap ToSet(ready) = {}
        /\ ToSet(new) \cap ToSet(exit) = {} /\ ToSet(ready) \cap ToSet(exit) = {}
    BY <1>3 DEF StatusTells
  <1>7. QED BY <1>1, <1>2, <1>5, <1>6

\* A placement given to fos_scheduler ends in the invariant.
LEMMA SchedulerSInv ==
    ASSUME NEW ready, NEW cur, NEW status,
           Placement(env_free_list', env_new_queue', ready, env_exit_queue',
                     cur, status),
           fos_scheduler(ready, cur, status)
    PROVE  SInv'
  <1>1. /\ ready \in Seq(Slots) /\ Distinct(ready)
        /\ cur \in Slots \cup {NULL} /\ cur \notin ToSet(ready)
        /\ status \in [Slots -> Statuses]
    BY DEF Placement, QueueTypes, StatusTells
  <1>2. /\ env_ready_queue' \in Seq(Slots) /\ Distinct(env_ready_queue')
        /\ curenv' \in Slots \cup {NULL}
        /\ curenv' \notin ToSet(env_ready_queue')
        /\ \A s \in Slots : (s \in ToSet(env_ready_queue') \/ s = curenv')
                            <=> (s \in ToSet(ready) \/ s = cur)
        /\ env_status' \in [Slots -> Statuses]
        /\ \A s \in Slots : s # curenv' => env_status'[s] = status[s]
        /\ curenv' # NULL => env_status'[curenv'] = "ENV_RUNNABLE"
        /\ IdleAtPrompt'
    BY <1>1, SchedulerPicks
  <1>3. QueueTypes(env_free_list', env_new_queue', env_ready_queue', env_exit_queue')
    BY <1>2 DEF Placement, QueueTypes
  <1>4. /\ ToSet(env_free_list') \subseteq Slots /\ ToSet(env_new_queue') \subseteq Slots
        /\ ToSet(env_exit_queue') \subseteq Slots
        /\ ToSet(env_ready_queue') \subseteq Slots /\ NULL \notin Slots
    BY <1>2, PlacesDisjoint, ElementsAreSlots
  <1>5. StatusTells(env_free_list', env_new_queue', ready, env_exit_queue', cur, status)
    BY DEF Placement
  <1>6. curenv' # NULL => status[curenv'] \in {"ENV_READY", "ENV_RUNNABLE"}
    BY <1>2, <1>5 DEF StatusTells
  <1>7. StatusTells(env_free_list', env_new_queue', env_ready_queue',
                    env_exit_queue', curenv', env_status')
    BY <1>2, <1>4, <1>5, <1>6 DEF StatusTells
  <1>8. QED BY <1>2, <1>3, <1>7 DEF SInv, PlacedNow, Placement

\* The running environment goes to the EXIT queue and another one runs.
LEMMA ExitSInv ==
    ASSUME NEW status, curenv # NULL,
           Placement(env_free_list', env_new_queue', env_ready_queue,
                     env_exit_queue, curenv, status),
           ExitCurrent(status)
    PROVE  SInv'
  <1> DEFINE st == [status EXCEPT ![curenv] = "ENV_EXIT"]
  <1>1. /\ QueueTypes(env_free_list', env_new_queue', env_ready_queue, env_exit_queue)
        /\ StatusTells(env_free_list', env_new_queue', env_ready_queue,
                       env_exit_queue, curenv, status)
        /\ curenv \in Slots /\ status \in [Slots -> Statuses]
    BY DEF Placement
  <1>2. /\ env_exit_queue' = Cons(curenv, env_exit_queue)
        /\ fos_scheduler(env_ready_queue, NULL, st)
    BY DEF ExitCurrent
  <1>3. /\ st \in [Slots -> Statuses] /\ st[curenv] = "ENV_EXIT"
        /\ \A s \in Slots : s # curenv => st[s] = status[s]
    BY <1>1 DEF Statuses
  <1> HIDE DEF st
  <1>4. /\ ToSet(env_free_list') \subseteq Slots /\ ToSet(env_new_queue') \subseteq Slots
        /\ ToSet(env_ready_queue) \subseteq Slots /\ ToSet(env_exit_queue) \subseteq Slots
        /\ curenv \notin ToSet(env_free_list') /\ curenv \notin ToSet(env_new_queue')
        /\ curenv \notin ToSet(env_ready_queue) /\ curenv \notin ToSet(env_exit_queue)
        /\ NULL \notin Slots
    BY PlacesDisjoint
  <1>5. Cons(curenv, env_exit_queue) \in Seq(Slots)
    BY <1>1, ConsShape DEF QueueTypes
  <1>6. /\ ToSet(Cons(curenv, env_exit_queue)) = {curenv} \cup ToSet(env_exit_queue)
        /\ Distinct(Cons(curenv, env_exit_queue))
    BY <1>1, <1>4, ConsElements DEF QueueTypes
  <1>7. QueueTypes(env_free_list', env_new_queue', env_ready_queue, env_exit_queue')
    BY <1>1, <1>2, <1>5, <1>6 DEF QueueTypes
  <1>8. StatusTells(env_free_list', env_new_queue', env_ready_queue,
                    env_exit_queue', NULL, st)
    BY <1>1, <1>2, <1>3, <1>4, <1>6 DEF StatusTells
  <1>9. Placement(env_free_list', env_new_queue', env_ready_queue,
                  env_exit_queue', NULL, st)
    BY <1>3, <1>7, <1>8 DEF Placement
  <1>10. QED BY <1>2, <1>9, SchedulerSInv

\* The first entry of the free list leaves it; with the status ENV_NEW it may
\* be at no place at all.
LEMMA CommitTakesFirst ==
    ASSUME SInv, NEW s \in Slots, Commit(s)
    PROVE  /\ s \notin ToSet(env_free_list')
           /\ s \notin ToSet(env_new_queue) /\ s \notin ToSet(env_ready_queue)
           /\ s \notin ToSet(env_exit_queue) /\ s # curenv
           /\ Placement(env_free_list', env_new_queue, env_ready_queue,
                        env_exit_queue, curenv, [env_status EXCEPT ![s] = "ENV_NEW"])
  <1> DEFINE st == [env_status EXCEPT ![s] = "ENV_NEW"]
  <1>1. /\ QueueTypes(env_free_list, env_new_queue, env_ready_queue, env_exit_queue)
        /\ StatusTells(env_free_list, env_new_queue, env_ready_queue,
                       env_exit_queue, curenv, env_status)
        /\ curenv \in Slots \cup {NULL} /\ env_status \in [Slots -> Statuses]
    BY DEF SInv, PlacedNow, Placement
  <1>2. /\ env_free_list \in Seq(Slots) /\ env_free_list # << >>
        /\ Distinct(env_free_list)
        /\ s = Head(env_free_list) /\ env_free_list' = Tail(env_free_list)
    BY <1>1 DEF Commit, QueueTypes
  <1>3. /\ Tail(env_free_list) \in Seq(Slots) /\ Distinct(Tail(env_free_list))
        /\ Head(env_free_list) \in ToSet(env_free_list)
        /\ ToSet(env_free_list) = ToSet(Tail(env_free_list)) \cup {Head(env_free_list)}
        /\ Head(env_free_list) \notin ToSet(Tail(env_free_list))
    BY <1>2, HeadElements
  <1>4. /\ env_free_list' \in Seq(Slots) /\ Distinct(env_free_list')
        /\ s \in ToSet(env_free_list)
        /\ ToSet(env_free_list') = ToSet(env_free_list) \ {s}
    BY <1>2, <1>3
  <1>5. /\ s \notin ToSet(env_new_queue) /\ s \notin ToSet(env_ready_queue)
        /\ s \notin ToSet(env_exit_queue) /\ s # curenv
        /\ ToSet(env_free_list) \subseteq Slots /\ ToSet(env_new_queue) \subseteq Slots
        /\ ToSet(env_ready_queue) \subseteq Slots /\ ToSet(env_exit_queue) \subseteq Slots
    <2>1. Placement(env_free_list, env_new_queue, env_ready_queue,
                    env_exit_queue, curenv, env_status)
      BY DEF SInv, PlacedNow
    <2>2. QED BY <1>4, <2>1, PlacesDisjoint
  <1>6. /\ st \in [Slots -> Statuses] /\ st[s] = "ENV_NEW"
        /\ \A t \in Slots : t # s => st[t] = env_status[t]
    BY <1>1 DEF Statuses
  <1> HIDE DEF st
  <1>7. QueueTypes(env_free_list', env_new_queue, env_ready_queue, env_exit_queue)
    BY <1>1, <1>4 DEF QueueTypes
  <1>8. StatusTells(env_free_list', env_new_queue, env_ready_queue,
                    env_exit_queue, curenv, st)
    BY <1>1, <1>4, <1>5, <1>6 DEF StatusTells
  <1>9. Placement(env_free_list', env_new_queue, env_ready_queue, env_exit_queue,
                  curenv, st)
    BY <1>1, <1>6, <1>7, <1>8 DEF Placement
  <1>10. QED BY <1>4, <1>5, <1>9 DEF st

\* An environment at no place joins the NEW queue.
LEMMA JoinNew ==
    ASSUME NEW free, NEW new, NEW ready, NEW exit, NEW cur, NEW status,
           Placement(free, new, ready, exit, cur, status),
           NEW s \in Slots, s \notin ToSet(new), status[s] = "ENV_NEW"
    PROVE  Placement(free, Cons(s, new), ready, exit, cur, status)
  <1>1. /\ QueueTypes(free, new, ready, exit)
        /\ StatusTells(free, new, ready, exit, cur, status)
        /\ cur \in Slots \cup {NULL} /\ status \in [Slots -> Statuses]
    BY DEF Placement
  <1>2. Cons(s, new) \in Seq(Slots)
    BY <1>1, ConsShape DEF QueueTypes
  <1>3. ToSet(Cons(s, new)) = {s} \cup ToSet(new) /\ Distinct(Cons(s, new))
    BY <1>1, ConsElements DEF QueueTypes
  <1>4. QueueTypes(free, Cons(s, new), ready, exit)
    BY <1>1, <1>2, <1>3 DEF QueueTypes
  <1>5. StatusTells(free, Cons(s, new), ready, exit, cur, status)
    BY <1>1, <1>3 DEF StatusTells
  <1>6. QED BY <1>1, <1>4, <1>5 DEF Placement

\* An environment at no place joins the READY queue.
LEMMA JoinReady ==
    ASSUME NEW free, NEW new, NEW ready, NEW exit, NEW cur, NEW status,
           Placement(free, new, ready, exit, cur, status),
           NEW s \in Slots, s \notin ToSet(free), s \notin ToSet(new),
           s \notin ToSet(ready), s \notin ToSet(exit), s # cur
    PROVE  Placement(free, new, Cons(s, ready), exit, cur,
                     [status EXCEPT ![s] = "ENV_READY"])
  <1> DEFINE st == [status EXCEPT ![s] = "ENV_READY"]
  <1>1. /\ QueueTypes(free, new, ready, exit)
        /\ StatusTells(free, new, ready, exit, cur, status)
        /\ cur \in Slots \cup {NULL} /\ status \in [Slots -> Statuses]
    BY DEF Placement
  <1>2. Cons(s, ready) \in Seq(Slots)
    BY <1>1, ConsShape DEF QueueTypes
  <1>3. ToSet(Cons(s, ready)) = {s} \cup ToSet(ready) /\ Distinct(Cons(s, ready))
    BY <1>1, ConsElements DEF QueueTypes
  <1>4. /\ st \in [Slots -> Statuses] /\ st[s] = "ENV_READY"
        /\ \A t \in Slots : t # s => st[t] = status[t]
    BY <1>1 DEF Statuses
  <1> HIDE DEF st
  <1>5. /\ ToSet(free) \subseteq Slots /\ ToSet(new) \subseteq Slots
        /\ ToSet(ready) \subseteq Slots /\ ToSet(exit) \subseteq Slots
        /\ NULL \notin Slots
    BY PlacesDisjoint
  <1>6. QueueTypes(free, new, Cons(s, ready), exit)
    BY <1>1, <1>2, <1>3 DEF QueueTypes
  <1>7. StatusTells(free, new, Cons(s, ready), exit, cur, st)
    <2>1. /\ \A t \in ToSet(free) : st[t] \in {"ENV_FREE", "ENV_UNKNOWN"}
          /\ \A t \in ToSet(new) : st[t] = "ENV_NEW"
          /\ \A t \in ToSet(exit) : st[t] = "ENV_EXIT"
          /\ cur # NULL => st[cur] = "ENV_RUNNABLE"
      BY <1>1, <1>4, <1>5 DEF StatusTells
    <2>2. \A t \in ToSet(Cons(s, ready)) : st[t] \in {"ENV_READY", "ENV_RUNNABLE"}
      BY <1>1, <1>3, <1>4, <1>5 DEF StatusTells
    <2>3. QED BY <1>1, <1>3, <1>4, <2>1, <2>2 DEF StatusTells
  <1>8. QED BY <1>1, <1>4, <1>6, <1>7 DEF Placement, st

\* The entries freed go to the free list from wherever they were.
LEMMA FreePlacement ==
    ASSUME SInv, NEW gone \in Seq(Slots), Distinct(gone), env_free(gone),
           ToSet(gone) \subseteq ToSet(env_new_queue) \cup ToSet(env_ready_queue)
                                   \cup ToSet(env_exit_queue),
           NEW new \in Seq(Slots), Distinct(new),
           ToSet(new) = ToSet(env_new_queue) \ ToSet(gone),
           NEW ready \in Seq(Slots), Distinct(ready),
           ToSet(ready) = ToSet(env_ready_queue) \ ToSet(gone),
           NEW exit \in Seq(Slots), Distinct(exit),
           ToSet(exit) = ToSet(env_exit_queue) \ ToSet(gone)
    PROVE  Placement(env_free_list', new, ready, exit, curenv, env_status')
  <1>1. /\ QueueTypes(env_free_list, env_new_queue, env_ready_queue, env_exit_queue)
        /\ StatusTells(env_free_list, env_new_queue, env_ready_queue,
                       env_exit_queue, curenv, env_status)
        /\ curenv \in Slots \cup {NULL} /\ env_status \in [Slots -> Statuses]
        /\ Placement(env_free_list, env_new_queue, env_ready_queue,
                     env_exit_queue, curenv, env_status)
    BY DEF SInv, PlacedNow, Placement
  <1>2. /\ Reverse(gone) \in Seq(Slots) /\ ToSet(Reverse(gone)) = ToSet(gone)
        /\ Distinct(Reverse(gone))
    BY ReverseElements
  <1>3. /\ ToSet(gone) \subseteq Slots /\ curenv \notin ToSet(gone)
        /\ ToSet(gone) \cap ToSet(env_free_list) = {}
        /\ ToSet(env_free_list) \subseteq Slots /\ ToSet(env_new_queue) \subseteq Slots
        /\ ToSet(env_ready_queue) \subseteq Slots /\ ToSet(env_exit_queue) \subseteq Slots
        /\ NULL \notin Slots
    BY <1>1, PlacesDisjoint
  <1>4. env_free_list' = Reverse(gone) \o env_free_list
    BY DEF env_free
  <1>5. /\ Reverse(gone) \o env_free_list \in Seq(Slots)
        /\ ToSet(Reverse(gone) \o env_free_list) = ToSet(gone) \cup ToSet(env_free_list)
        /\ Distinct(Reverse(gone) \o env_free_list)
    BY <1>1, <1>2, <1>3, ConcatElements DEF QueueTypes
  <1>6. /\ env_status' \in [Slots -> Statuses]
        /\ \A s \in ToSet(gone) : env_status'[s] = "ENV_FREE"
        /\ \A s \in Slots : s \notin ToSet(gone) => env_status'[s] = env_status[s]
    BY <1>1, <1>3 DEF env_free, Statuses
  <1>7. QueueTypes(env_free_list', new, ready, exit)
    BY <1>4, <1>5 DEF QueueTypes
  <1>8. StatusTells(env_free_list', new, ready, exit, curenv, env_status')
    BY <1>1, <1>3, <1>4, <1>5, <1>6 DEF StatusTells
  <1>9. QED BY <1>1, <1>6, <1>7, <1>8 DEF Placement

\* At the start every entry is free.
LEMMA InitSInv == Init => SInv
  <1> SUFFICES ASSUME Init PROVE SInv
    OBVIOUS
  <1>1. NENV \in Nat /\ NULL \notin Slots
    BY TableAssumption DEF Slots
  <1>2. /\ env_new_queue = << >> /\ env_ready_queue = << >> /\ env_exit_queue = << >>
        /\ curenv = NULL /\ scheduler_status = "SCH_STOPPED"
    BY DEF Init, sched_init
  <1>3. /\ env_free_list = [i \in 1 .. NENV |-> i - 1]
        /\ env_status = [s \in Slots |-> "ENV_FREE"]
    BY DEF Init, env_init
  <1>4. \A i \in 1 .. NENV : i - 1 \in Slots
    BY <1>1 DEF Slots
  <1>5. env_free_list \in [1 .. NENV -> Slots]
    BY <1>3, <1>4
  <1>6. env_free_list \in Seq(Slots)
    BY <1>1, <1>5, SeqDef
  <1>7. Distinct(env_free_list)
    BY <1>1, <1>3 DEF Distinct
  <1>8. \A s \in Slots : s \in ToSet(env_free_list)
    <2> TAKE s \in Slots
    <2>1. s + 1 \in 1 .. NENV /\ (s + 1) - 1 = s
      BY <1>1 DEF Slots
    <2>2. s + 1 \in DOMAIN env_free_list /\ env_free_list[s + 1] = s
      BY <1>3, <2>1
    <2>3. QED BY <2>2 DEF ToSet
  <1>9. ToSet(env_free_list) \subseteq Slots
    BY <1>6, ElementsAreSlots
  <1>10. << >> \in Seq(Slots) /\ ToSet(<< >>) = {} /\ Distinct(<< >>)
    BY EmptyElements
  <1>11. QueueTypes(env_free_list, env_new_queue, env_ready_queue, env_exit_queue)
    BY <1>2, <1>6, <1>7, <1>10 DEF QueueTypes
  <1>12. StatusTells(env_free_list, env_new_queue, env_ready_queue,
                     env_exit_queue, curenv, env_status)
    BY <1>1, <1>2, <1>3, <1>8, <1>9, <1>10 DEF StatusTells
  <1>13. env_status \in [Slots -> Statuses] /\ curenv \in Slots \cup {NULL}
    BY <1>2, <1>3 DEF Statuses
  <1>14. IdleAtPrompt
    BY <1>2 DEF IdleAtPrompt
  <1>15. QED BY <1>11, <1>12, <1>13, <1>14 DEF SInv, PlacedNow, Placement

-----------------------------------------------------------------------------
\* The clock interrupt preempts the running environment.
LEMMA ClockSInv ==
    ASSUME SInv, clock_interrupt_handler
    PROVE  SInv'
  <1>1. /\ fos_scheduler(env_ready_queue, curenv, env_status)
        /\ env_free_list' = env_free_list /\ env_new_queue' = env_new_queue
        /\ env_exit_queue' = env_exit_queue
    BY DEF clock_interrupt_handler
  <1>2. Placement(env_free_list', env_new_queue', env_ready_queue, env_exit_queue',
                  curenv, env_status)
    BY <1>1 DEF SInv, PlacedNow
  <1>3. QED BY <1>1, <1>2, SchedulerSInv

\* The running environment exits or is killed.
LEMMA LeaveSInv ==
    ASSUME SInv, curenv # NULL, ExitCurrent(env_status),
           env_free_list' = env_free_list, env_new_queue' = env_new_queue
    PROVE  SInv'
  <1>1. Placement(env_free_list', env_new_queue', env_ready_queue, env_exit_queue,
                  curenv, env_status)
    BY DEF SInv, PlacedNow
  <1>2. QED BY <1>1, ExitSInv

\* load and sys_create_env.
LEMMA CreateSInv ==
    ASSUME SInv, NEW s \in Slots, CreateEnv(s)
    PROVE  SInv'
  <1> DEFINE st == [env_status EXCEPT ![s] = "ENV_NEW"]
  <1>1. /\ Commit(s) /\ env_status' = st
        /\ env_new_queue' = Cons(s, env_new_queue)
        /\ env_ready_queue' = env_ready_queue /\ env_exit_queue' = env_exit_queue
        /\ curenv' = curenv /\ scheduler_status' = scheduler_status
    BY DEF CreateEnv
  <1>2. st[s] = "ENV_NEW"
    BY DEF SInv, PlacedNow, Placement
  <1>3. /\ s \notin ToSet(env_new_queue)
        /\ Placement(env_free_list', env_new_queue, env_ready_queue,
                     env_exit_queue, curenv, st)
    BY <1>1, CommitTakesFirst
  <1> HIDE DEF st
  <1>4. Placement(env_free_list', Cons(s, env_new_queue), env_ready_queue,
                  env_exit_queue, curenv, st)
    BY <1>2, <1>3, JoinNew
  <1>5. IdleAtPrompt'
    BY <1>1 DEF SInv, IdleAtPrompt
  <1>6. QED BY <1>1, <1>4, <1>5 DEF SInv, PlacedNow

\* run at the prompt.
LEMMA RunProgramSInv ==
    ASSUME SInv, NEW s \in Slots, command_run_program(s)
    PROVE  SInv'
  <1> DEFINE new == [env_status EXCEPT ![s] = "ENV_NEW"]
             st == [env_status EXCEPT ![s] = "ENV_READY"]
  <1>1. /\ Commit(s) /\ curenv = NULL
        /\ fos_scheduler(Cons(s, env_ready_queue), NULL, st)
        /\ env_new_queue' = env_new_queue /\ env_exit_queue' = env_exit_queue
    BY DEF command_run_program, AtPrompt
  <1>2. /\ s \notin ToSet(env_free_list')
        /\ s \notin ToSet(env_new_queue) /\ s \notin ToSet(env_ready_queue)
        /\ s \notin ToSet(env_exit_queue) /\ s # curenv
        /\ Placement(env_free_list', env_new_queue, env_ready_queue,
                     env_exit_queue, curenv, new)
    BY <1>1, CommitTakesFirst
  <1>3. st = [new EXCEPT ![s] = "ENV_READY"]
    BY DEF SInv, PlacedNow, Placement
  <1> HIDE DEF new, st
  <1>4. Placement(env_free_list', env_new_queue, Cons(s, env_ready_queue),
                  env_exit_queue, curenv, st)
    BY <1>2, <1>3, JoinReady
  <1>5. QED BY <1>1, <1>4, SchedulerSInv

\* A creation that panics, before or after the entry is taken.
LEMMA PanicSInv ==
    ASSUME SInv, NEW s \in Slots, NEW committed \in BOOLEAN,
           CreatePanics(s, committed)
    PROVE  SInv'
  <1> DEFINE st == [env_status EXCEPT
                     ![s] = IF committed THEN "ENV_NEW" ELSE "ENV_UNKNOWN"]
  <1>1. /\ IF committed
           THEN Commit(s)
           ELSE /\ env_free_list # << >> /\ s = Head(env_free_list)
                /\ UNCHANGED <<env_free_list, env_id, interruptible>>
        /\ IF curenv # NULL
           THEN ExitCurrent(st)
           ELSE /\ fos_scheduler(env_ready_queue, NULL, st)
                /\ UNCHANGED env_exit_queue
        /\ env_new_queue' = env_new_queue
    BY DEF CreatePanics
  <1>2. Placement(env_free_list', env_new_queue', env_ready_queue, env_exit_queue,
                  curenv, st)
    <2>1. CASE committed
      <3>1. st = [env_status EXCEPT ![s] = "ENV_NEW"]
        BY <2>1
      <3>2. Placement(env_free_list', env_new_queue, env_ready_queue, env_exit_queue,
                      curenv, [env_status EXCEPT ![s] = "ENV_NEW"])
        BY <1>1, <2>1, CommitTakesFirst
      <3>3. QED BY <1>1, <3>1, <3>2
    <2>2. CASE ~committed
      <3>1. /\ QueueTypes(env_free_list, env_new_queue, env_ready_queue, env_exit_queue)
            /\ StatusTells(env_free_list, env_new_queue, env_ready_queue,
                           env_exit_queue, curenv, env_status)
            /\ curenv \in Slots \cup {NULL} /\ env_status \in [Slots -> Statuses]
            /\ Placement(env_free_list, env_new_queue, env_ready_queue,
                         env_exit_queue, curenv, env_status)
        BY DEF SInv, PlacedNow, Placement
      <3>2. s \in ToSet(env_free_list) /\ env_free_list' = env_free_list
        BY <1>1, <2>2, <3>1, HeadElements DEF QueueTypes
      <3>3. /\ s \notin ToSet(env_new_queue) /\ s \notin ToSet(env_ready_queue)
            /\ s \notin ToSet(env_exit_queue) /\ s # curenv
            /\ ToSet(env_free_list) \subseteq Slots /\ ToSet(env_new_queue) \subseteq Slots
            /\ ToSet(env_ready_queue) \subseteq Slots
            /\ ToSet(env_exit_queue) \subseteq Slots
        BY <3>1, <3>2, PlacesDisjoint
      <3>4. /\ st \in [Slots -> Statuses] /\ st[s] = "ENV_UNKNOWN"
            /\ \A t \in Slots : t # s => st[t] = env_status[t]
        BY <2>2, <3>1 DEF Statuses
      <3> HIDE DEF st
      <3>5. StatusTells(env_free_list, env_new_queue, env_ready_queue,
                        env_exit_queue, curenv, st)
        BY <3>1, <3>2, <3>3, <3>4 DEF StatusTells
      <3>6. QED BY <1>1, <3>1, <3>2, <3>4, <3>5 DEF Placement
    <2>3. QED BY <2>1, <2>2
  <1> HIDE DEF st
  <1>3. CASE curenv # NULL
    BY <1>1, <1>2, <1>3, ExitSInv
  <1>4. CASE curenv = NULL
    <2>1. fos_scheduler(env_ready_queue, curenv, st) /\ env_exit_queue' = env_exit_queue
      BY <1>1, <1>4
    <2>2. QED BY <1>2, <2>1, SchedulerSInv
  <1>5. QED BY <1>3, <1>4

\* sys_run_env moves an environment from the NEW to the READY queue.
LEMMA RunEnvSInv ==
    ASSUME SInv, NEW id, sys_run_env(id)
    PROVE  SInv'
  <1>1. /\ curenv # NULL
        /\ env_free_list' = env_free_list /\ env_exit_queue' = env_exit_queue
        /\ curenv' = curenv /\ scheduler_status' = scheduler_status
    BY DEF sys_run_env, Running
  <1>2. PICK i \in DOMAIN env_new_queue : sched_run_env(i)
    BY DEF sys_run_env, Find
  <1> DEFINE s == env_new_queue[i]
             new == RemoveAt(env_new_queue, i)
  <1>3. /\ QueueTypes(env_free_list, env_new_queue, env_ready_queue, env_exit_queue)
        /\ StatusTells(env_free_list, env_new_queue, env_ready_queue,
                       env_exit_queue, curenv, env_status)
        /\ curenv \in Slots \cup {NULL} /\ env_status \in [Slots -> Statuses]
        /\ Placement(env_free_list, env_new_queue, env_ready_queue,
                     env_exit_queue, curenv, env_status)
    BY DEF SInv, PlacedNow, Placement
  <1>4. /\ env_new_queue' = new /\ env_ready_queue' = Cons(s, env_ready_queue)
        /\ env_status' = [env_status EXCEPT ![s] = "ENV_READY"]
    BY <1>2 DEF sched_run_env
  <1>5. new \in Seq(Slots)
    BY <1>3, RemoveAtShape DEF QueueTypes
  <1>6. /\ Distinct(new) /\ ToSet(new) = ToSet(env_new_queue) \ {s}
        /\ s \in ToSet(env_new_queue)
    BY <1>3, RemoveAtElements DEF QueueTypes
  <1> HIDE DEF s, new
  <1>7. /\ s \in Slots /\ s \notin ToSet(env_free_list) /\ s \notin ToSet(env_ready_queue)
        /\ s \notin ToSet(env_exit_queue) /\ s # curenv
    BY <1>3, <1>6, PlacesDisjoint
  <1>8. QueueTypes(env_free_list, new, env_ready_queue, env_exit_queue)
    BY <1>3, <1>5, <1>6 DEF QueueTypes
  <1>9. StatusTells(env_free_list, new, env_ready_queue, env_exit_queue, curenv,
                    env_status)
    BY <1>3, <1>6 DEF StatusTells
  <1>10. Placement(env_free_list, new, env_ready_queue, env_exit_queue, curenv,
                   env_status)
    BY <1>3, <1>8, <1>9 DEF Placement
  <1>11. Placement(env_free_list, new, Cons(s, env_ready_queue), env_exit_queue,
                   curenv, [env_status EXCEPT ![s] = "ENV_READY"])
    BY <1>6, <1>7, <1>10, JoinReady
  <1>12. IdleAtPrompt'
    BY <1>1 DEF SInv, IdleAtPrompt
  <1>13. QED BY <1>1, <1>4, <1>11, <1>12 DEF SInv, PlacedNow

\* runall makes every new environment ready.
LEMMA RunAllSInv ==
    ASSUME SInv, sched_run_all
    PROVE  SInv'
  <1> DEFINE st == [s \in Slots |-> IF s \in ToSet(env_new_queue)
                                    THEN "ENV_READY" ELSE env_status[s]]
             ready == Reverse(env_new_queue) \o env_ready_queue
  <1>1. /\ curenv = NULL /\ env_new_queue' = << >>
        /\ fos_scheduler(ready, NULL, st)
        /\ env_free_list' = env_free_list /\ env_exit_queue' = env_exit_queue
    BY DEF sched_run_all, AtPrompt
  <1>2. /\ QueueTypes(env_free_list, env_new_queue, env_ready_queue, env_exit_queue)
        /\ StatusTells(env_free_list, env_new_queue, env_ready_queue,
                       env_exit_queue, curenv, env_status)
        /\ env_status \in [Slots -> Statuses]
        /\ Placement(env_free_list, env_new_queue, env_ready_queue,
                     env_exit_queue, curenv, env_status)
    BY DEF SInv, PlacedNow, Placement
  <1>3. /\ Reverse(env_new_queue) \in Seq(Slots)
        /\ ToSet(Reverse(env_new_queue)) = ToSet(env_new_queue)
        /\ Distinct(Reverse(env_new_queue))
    BY <1>2, ReverseElements DEF QueueTypes
  <1>4. /\ NULL \notin Slots
        /\ ToSet(env_free_list) \subseteq Slots /\ ToSet(env_new_queue) \subseteq Slots
        /\ ToSet(env_ready_queue) \subseteq Slots /\ ToSet(env_exit_queue) \subseteq Slots
        /\ ToSet(env_free_list) \cap ToSet(env_new_queue) = {}
        /\ ToSet(env_new_queue) \cap ToSet(env_exit_queue) = {}
        /\ ToSet(env_new_queue) \cap ToSet(env_ready_queue) = {}
    BY <1>2, PlacesDisjoint
  <1>5. /\ ready \in Seq(Slots) /\ Distinct(ready)
        /\ ToSet(ready) = ToSet(env_new_queue) \cup ToSet(env_ready_queue)
    BY <1>2, <1>3, <1>4, ConcatElements DEF QueueTypes
  <1>6. /\ st \in [Slots -> Statuses]
        /\ \A s \in ToSet(env_new_queue) : st[s] = "ENV_READY"
        /\ \A s \in Slots : s \notin ToSet(env_new_queue) => st[s] = env_status[s]
    BY <1>2, <1>4 DEF Statuses
  <1> HIDE DEF st, ready
  <1>7. << >> \in Seq(Slots) /\ ToSet(<< >>) = {} /\ Distinct(<< >>)
    BY EmptyElements
  <1>8. QueueTypes(env_free_list, << >>, ready, env_exit_queue)
    BY <1>2, <1>5, <1>7 DEF QueueTypes
  <1>9. StatusTells(env_free_list, << >>, ready, env_exit_queue, NULL, st)
    BY <1>1, <1>2, <1>4, <1>5, <1>6, <1>7 DEF StatusTells
  <1>10. Placement(env_free_list', env_new_queue', ready, env_exit_queue', NULL, st)
    BY <1>1, <1>6, <1>8, <1>9 DEF Placement
  <1>11. QED BY <1>1, <1>10, SchedulerSInv

\* killall frees every environment of the three queues.
LEMMA KillAllSInv ==
    ASSUME SInv, sched_kill_all
    PROVE  SInv'
  <1> DEFINE front == env_new_queue \o env_ready_queue
             gone == front \o env_exit_queue
  <1>1. /\ curenv = NULL /\ env_free(gone)
        /\ env_new_queue' = << >> /\ env_ready_queue' = << >> /\ env_exit_queue' = << >>
        /\ curenv' = curenv /\ scheduler_status' = scheduler_status
    BY DEF sched_kill_all, AtPrompt
  <1>2. /\ QueueTypes(env_free_list, env_new_queue, env_ready_queue, env_exit_queue)
        /\ Placement(env_free_list, env_new_queue, env_ready_queue,
                     env_exit_queue, curenv, env_status)
    BY DEF SInv, PlacedNow, Placement
  <1>3. /\ ToSet(env_new_queue) \cap ToSet(env_ready_queue) = {}
        /\ ToSet(env_new_queue) \cap ToSet(env_exit_queue) = {}
        /\ ToSet(env_ready_queue) \cap ToSet(env_exit_queue) = {}
    BY <1>2, PlacesDisjoint
  <1>4. /\ front \in Seq(Slots) /\ Distinct(front)
        /\ ToSet(front) = ToSet(env_new_queue) \cup ToSet(env_ready_queue)
    BY <1>2, <1>3, ConcatElements DEF QueueTypes
  <1> HIDE DEF front
  <1>5. /\ gone \in Seq(Slots) /\ Distinct(gone)
        /\ ToSet(gone) = ToSet(front) \cup ToSet(env_exit_queue)
    BY <1>2, <1>3, <1>4, ConcatElements DEF QueueTypes
  <1> HIDE DEF gone
  <1>6. << >> \in Seq(Slots) /\ ToSet(<< >>) = {} /\ Distinct(<< >>)
    BY EmptyElements
  <1>7. /\ ToSet(<< >>) = ToSet(env_new_queue) \ ToSet(gone)
        /\ ToSet(<< >>) = ToSet(env_ready_queue) \ ToSet(gone)
        /\ ToSet(<< >>) = ToSet(env_exit_queue) \ ToSet(gone)
        /\ ToSet(gone) \subseteq ToSet(env_new_queue) \cup ToSet(env_ready_queue)
                                   \cup ToSet(env_exit_queue)
    BY <1>4, <1>5, <1>6
  <1>8. Placement(env_free_list', << >>, << >>, << >>, curenv, env_status')
    BY <1>1, <1>5, <1>6, <1>7, FreePlacement
  <1>9. IdleAtPrompt'
    BY <1>1 DEF SInv, IdleAtPrompt
  <1>10. QED BY <1>1, <1>8, <1>9 DEF SInv, PlacedNow

\* One environment of a queue is freed.
LEMMA KillQueuedSInv ==
    ASSUME SInv, NEW id, KillQueued(id)
    PROVE  SInv'
  <1>1. curenv' = curenv /\ scheduler_status' = scheduler_status
    BY DEF KillQueued
  <1>2. /\ QueueTypes(env_free_list, env_new_queue, env_ready_queue, env_exit_queue)
        /\ Placement(env_free_list, env_new_queue, env_ready_queue,
                     env_exit_queue, curenv, env_status)
        /\ IdleAtPrompt
    BY DEF SInv, PlacedNow, Placement
  <1>3. /\ ToSet(env_new_queue) \cap ToSet(env_ready_queue) = {}
        /\ ToSet(env_new_queue) \cap ToSet(env_exit_queue) = {}
        /\ ToSet(env_ready_queue) \cap ToSet(env_exit_queue) = {}
        /\ ToSet(env_new_queue) \subseteq Slots /\ ToSet(env_ready_queue) \subseteq Slots
        /\ ToSet(env_exit_queue) \subseteq Slots
    BY <1>2, PlacesDisjoint
  <1>4. ASSUME NEW i \in Find(env_new_queue, id), env_free(<<env_new_queue[i]>>),
               env_new_queue' = RemoveAt(env_new_queue, i),
               UNCHANGED <<env_ready_queue, env_exit_queue>>
        PROVE  SInv'
    <2> DEFINE s == env_new_queue[i]
               queue == RemoveAt(env_new_queue, i)
    <2>1. i \in DOMAIN env_new_queue
      BY DEF Find
    <2>2. queue \in Seq(Slots)
      BY <1>2, <2>1, RemoveAtShape DEF QueueTypes
    <2>3. /\ Distinct(queue) /\ ToSet(queue) = ToSet(env_new_queue) \ {s}
          /\ s \in ToSet(env_new_queue)
      BY <1>2, <2>1, RemoveAtElements DEF QueueTypes
    <2>4. env_free(<<s>>) /\ env_new_queue' = queue
      BY <1>4
    <2> HIDE DEF s, queue
    <2>5. s \in Slots
      BY <1>3, <2>3
    <2>6. <<s>> \in Seq(Slots) /\ ToSet(<<s>>) = {s} /\ Distinct(<<s>>)
      BY <2>5, SingletonElements
    <2>7. /\ ToSet(queue) = ToSet(env_new_queue) \ ToSet(<<s>>)
          /\ ToSet(env_ready_queue) = ToSet(env_ready_queue) \ ToSet(<<s>>)
          /\ ToSet(env_exit_queue) = ToSet(env_exit_queue) \ ToSet(<<s>>)
          /\ ToSet(<<s>>) \subseteq ToSet(env_new_queue) \cup ToSet(env_ready_queue)
                                      \cup ToSet(env_exit_queue)
      BY <1>3, <2>3, <2>6
    <2>8. Placement(env_free_list', queue, env_ready_queue, env_exit_queue, curenv,
                    env_status')
      BY <1>2, <2>2, <2>3, <2>4, <2>6, <2>7, FreePlacement DEF QueueTypes
    <2>9. IdleAtPrompt'
      BY <1>1, <1>2, <1>4, <2>1 DEF IdleAtPrompt
    <2>10. QED BY <1>1, <1>4, <2>4, <2>8, <2>9 DEF SInv, PlacedNow
  <1>5. ASSUME NEW i \in Find(env_ready_queue, id), env_free(<<env_ready_queue[i]>>),
               env_ready_queue' = RemoveAt(env_ready_queue, i),
               UNCHANGED <<env_new_queue, env_exit_queue>>
        PROVE  SInv'
    <2> DEFINE s == env_ready_queue[i]
               queue == RemoveAt(env_ready_queue, i)
    <2>1. i \in DOMAIN env_ready_queue
      BY DEF Find
    <2>2. queue \in Seq(Slots)
      BY <1>2, <2>1, RemoveAtShape DEF QueueTypes
    <2>3. /\ Distinct(queue) /\ ToSet(queue) = ToSet(env_ready_queue) \ {s}
          /\ s \in ToSet(env_ready_queue)
      BY <1>2, <2>1, RemoveAtElements DEF QueueTypes
    <2>4. env_free(<<s>>) /\ env_ready_queue' = queue
      BY <1>5
    <2> HIDE DEF s, queue
    <2>5. s \in Slots
      BY <1>3, <2>3
    <2>6. <<s>> \in Seq(Slots) /\ ToSet(<<s>>) = {s} /\ Distinct(<<s>>)
      BY <2>5, SingletonElements
    <2>7. /\ ToSet(queue) = ToSet(env_ready_queue) \ ToSet(<<s>>)
          /\ ToSet(env_new_queue) = ToSet(env_new_queue) \ ToSet(<<s>>)
          /\ ToSet(env_exit_queue) = ToSet(env_exit_queue) \ ToSet(<<s>>)
          /\ ToSet(<<s>>) \subseteq ToSet(env_new_queue) \cup ToSet(env_ready_queue)
                                      \cup ToSet(env_exit_queue)
      BY <1>3, <2>3, <2>6
    <2>8. Placement(env_free_list', env_new_queue, queue, env_exit_queue, curenv,
                    env_status')
      BY <1>2, <2>2, <2>3, <2>4, <2>6, <2>7, FreePlacement DEF QueueTypes
    <2>9. IdleAtPrompt'
      BY <1>1, <1>2, <1>5, <2>1 DEF IdleAtPrompt
    <2>10. QED BY <1>1, <1>5, <2>4, <2>8, <2>9 DEF SInv, PlacedNow
  <1>6. ASSUME NEW i \in Find(env_exit_queue, id), env_free(<<env_exit_queue[i]>>),
               env_exit_queue' = RemoveAt(env_exit_queue, i),
               UNCHANGED <<env_new_queue, env_ready_queue>>
        PROVE  SInv'
    <2> DEFINE s == env_exit_queue[i]
               queue == RemoveAt(env_exit_queue, i)
    <2>1. i \in DOMAIN env_exit_queue
      BY DEF Find
    <2>2. queue \in Seq(Slots)
      BY <1>2, <2>1, RemoveAtShape DEF QueueTypes
    <2>3. /\ Distinct(queue) /\ ToSet(queue) = ToSet(env_exit_queue) \ {s}
          /\ s \in ToSet(env_exit_queue)
      BY <1>2, <2>1, RemoveAtElements DEF QueueTypes
    <2>4. env_free(<<s>>) /\ env_exit_queue' = queue
      BY <1>6
    <2> HIDE DEF s, queue
    <2>5. s \in Slots
      BY <1>3, <2>3
    <2>6. <<s>> \in Seq(Slots) /\ ToSet(<<s>>) = {s} /\ Distinct(<<s>>)
      BY <2>5, SingletonElements
    <2>7. /\ ToSet(queue) = ToSet(env_exit_queue) \ ToSet(<<s>>)
          /\ ToSet(env_new_queue) = ToSet(env_new_queue) \ ToSet(<<s>>)
          /\ ToSet(env_ready_queue) = ToSet(env_ready_queue) \ ToSet(<<s>>)
          /\ ToSet(<<s>>) \subseteq ToSet(env_new_queue) \cup ToSet(env_ready_queue)
                                      \cup ToSet(env_exit_queue)
      BY <1>3, <2>3, <2>6
    <2>8. Placement(env_free_list', env_new_queue, env_ready_queue, queue, curenv,
                    env_status')
      BY <1>2, <2>2, <2>3, <2>4, <2>6, <2>7, FreePlacement DEF QueueTypes
    <2>9. IdleAtPrompt'
      BY <1>1, <1>2, <1>6, <2>1 DEF IdleAtPrompt
    <2>10. QED BY <1>1, <1>6, <2>4, <2>8, <2>9 DEF SInv, PlacedNow
  <1>7. QED BY <1>4, <1>5, <1>6 DEF KillQueued

\* schedRR initialises a ready queue that is empty already.
LEMMA RoundRobinSInv ==
    ASSUME SInv, NEW n, command_sch_RR(n)
    PROVE  SInv'
  <1>1. /\ curenv = NULL /\ curenv' = curenv
        /\ env_free_list' = env_free_list /\ env_new_queue' = env_new_queue
        /\ env_exit_queue' = env_exit_queue /\ env_status' = env_status
        /\ scheduler_status' = "SCH_STOPPED"
        /\ env_ready_queue' \in {<< >>, env_ready_queue}
    BY DEF command_sch_RR, AtPrompt
  <1>2. env_ready_queue' = env_ready_queue
    BY <1>1 DEF SInv, IdleAtPrompt
  <1>3. QED BY <1>1, <1>2 DEF SInv, PlacedNow, IdleAtPrompt

\* The three outcomes of sched_kill_env.
LEMMA KillSInv ==
    ASSUME SInv, NEW id, sched_kill_env(id)
    PROVE  SInv'
  <1>1. CASE KillQueued(id)
    BY <1>1, KillQueuedSInv
  <1>2. CASE KillCurrent(id)
    BY <1>2, LeaveSInv DEF KillCurrent
  <1>3. CASE KillUnknown(id)
    BY <1>3 DEF KillUnknown, SInv, PlacedNow, IdleAtPrompt
  <1>4. QED BY <1>1, <1>2, <1>3 DEF sched_kill_env

\* SInv is inductive.
LEMMA NextSInv ==
    ASSUME SInv, [Next]_vars
    PROVE  SInv'
  <1>1. CASE \E s \in Slots : command_run_program(s)
    BY <1>1, RunProgramSInv
  <1>2. CASE sched_run_all
    BY <1>2, RunAllSInv
  <1>3. CASE sched_kill_all
    BY <1>3, KillAllSInv
  <1>4. CASE \E id \in Ids : command_kill_program(id)
    BY <1>4, KillSInv DEF command_kill_program
  <1>5. CASE \E n \in Quanta : command_sch_RR(n)
    BY <1>5, RoundRobinSInv
  <1>6. CASE \E id \in Ids : sys_run_env(id)
    BY <1>6, RunEnvSInv
  <1>7. CASE \E id \in Ids : sys_free_env(id)
    BY <1>7, KillSInv DEF sys_free_env
  <1>8. CASE \E id \in Ids : sys_env_destroy(id)
    BY <1>8, KillSInv DEF sys_env_destroy
  <1>9. CASE env_exit
    BY <1>9, LeaveSInv DEF env_exit, Running
  <1>10. CASE sys_disable_interrupt
    BY <1>10 DEF sys_disable_interrupt, SInv, PlacedNow, IdleAtPrompt
  <1>11. CASE sys_enable_interrupt
    BY <1>11 DEF sys_enable_interrupt, SInv, PlacedNow, IdleAtPrompt
  <1>12. CASE \E s \in Slots : CreateEnv(s)
    BY <1>12, CreateSInv
  <1>13. CASE \E s \in Slots, committed \in BOOLEAN : CreatePanics(s, committed)
    BY <1>13, PanicSInv
  <1>14. CASE clock_interrupt_handler
    BY <1>14, ClockSInv
  <1>15. CASE UNCHANGED vars
    BY <1>15 DEF vars, SInv, PlacedNow, IdleAtPrompt
  <1>16. QED
    BY <1>1, <1>2, <1>3, <1>4, <1>5, <1>6, <1>7, <1>8, <1>9, <1>10, <1>11,
       <1>12, <1>13, <1>14, <1>15 DEF Next, Prompt, User

\* The invariant gives the property the runs check.
LEMMA SInvOnePlace == SInv => OnePlace
  <1> SUFFICES ASSUME SInv PROVE OnePlace
    OBVIOUS
  <1>1. /\ QueueTypes(env_free_list, env_new_queue, env_ready_queue, env_exit_queue)
        /\ StatusTells(env_free_list, env_new_queue, env_ready_queue,
                       env_exit_queue, curenv, env_status)
        /\ Placement(env_free_list, env_new_queue, env_ready_queue,
                     env_exit_queue, curenv, env_status)
    BY DEF SInv, PlacedNow, Placement
  <1>2. /\ Queues[1] = env_free_list /\ Queues[2] = env_new_queue
        /\ Queues[3] = env_ready_queue /\ Queues[4] = env_exit_queue
        /\ 1 .. 4 = {1, 2, 3, 4}
    BY DEF Queues
  <1>3. \A q \in 1 .. 4 : IsInjective(Queues[q]) /\ curenv \notin ToSet(Queues[q])
    <2>1. /\ IsInjective(env_free_list) /\ IsInjective(env_new_queue)
          /\ IsInjective(env_ready_queue) /\ IsInjective(env_exit_queue)
      BY <1>1 DEF QueueTypes, Distinct, IsInjective
    <2>2. /\ curenv \notin ToSet(env_free_list) /\ curenv \notin ToSet(env_new_queue)
          /\ curenv \notin ToSet(env_ready_queue) /\ curenv \notin ToSet(env_exit_queue)
      BY <1>1, PlacesDisjoint
    <2>3. QED BY <1>2, <2>1, <2>2
  <1>4. \A q, r \in 1 .. 4 : q # r => ToSet(Queues[q]) \cap ToSet(Queues[r]) = {}
    <2>1. /\ ToSet(env_free_list) \cap ToSet(env_new_queue) = {}
          /\ ToSet(env_free_list) \cap ToSet(env_ready_queue) = {}
          /\ ToSet(env_free_list) \cap ToSet(env_exit_queue) = {}
          /\ ToSet(env_new_queue) \cap ToSet(env_ready_queue) = {}
          /\ ToSet(env_new_queue) \cap ToSet(env_exit_queue) = {}
          /\ ToSet(env_ready_queue) \cap ToSet(env_exit_queue) = {}
      BY <1>1, PlacesDisjoint
    <2>2. QED BY <1>2, <2>1
  <1>5. \A s \in Slots \ Placed : env_status[s] = "ENV_NEW"
    <2> TAKE s \in Slots \ Placed
    <2>1. /\ s \notin ToSet(env_free_list) /\ s \notin ToSet(env_new_queue)
          /\ s \notin ToSet(env_ready_queue) /\ s \notin ToSet(env_exit_queue)
          /\ s # curenv
      BY <1>2 DEF Placed
    <2>2. QED BY <1>1, <2>1 DEF StatusTells
  <1>6. QED BY <1>1, <1>3, <1>4, <1>5 DEF OnePlace, StatusTells

\* Whatever the operator, the programs and the clock do, an entry of envs[] is
\* in one queue at most, in the one its status names.
THEOREM OnePlaceCorrect == Spec => []OnePlace
  <1>1. Init => SInv
    BY InitSInv
  <1>2. SInv /\ [Next]_vars => SInv'
    BY NextSInv
  <1>3. SInv => OnePlace
    BY SInvOnePlace
  <1>4. QED BY <1>1, <1>2, <1>3, PTL DEF Spec

\* The prompt runs exactly when the scheduler has stopped with no ready
\* environment.
THEOREM IdleAtPromptCorrect == Spec => []IdleAtPrompt
  <1>1. Init => SInv
    BY InitSInv
  <1>2. SInv /\ [Next]_vars => SInv'
    BY NextSInv
  <1>3. SInv => IdleAtPrompt
    BY DEF SInv
  <1>4. QED BY <1>1, <1>2, <1>3, PTL DEF Spec

-----------------------------------------------------------------------------
(***************************************************************************)
(* The running environment and the ready queue implement ReadyRing, step   *)
(* by step: nobody is overtaken.                                           *)
(***************************************************************************)
Ring == (IF curenv = NULL THEN << >> ELSE <<curenv>>) \o Reverse(env_ready_queue)

\* The steps of the abstract ring, in terms of the queue: the first has used
\* its turn,
LEMMA TurnStep ==
    ASSUME Ring # << >>, Ring' = Append(Tail(Ring), Head(Ring))
    PROVE  RoundRobin!Next
  <1>1. RoundRobin!Turn
    BY DEF RoundRobin!Turn, Ring
  <1>2. QED
    BY <1>1 DEF RoundRobin!Next

\* some have joined at the end,
LEMMA JoinStep ==
    ASSUME Ring' \in Seq(Slots), IsPrefix(Ring, Ring')
    PROVE  RoundRobin!Next
  <1>1. RoundRobin!Join
    BY DEF RoundRobin!Join, RoundRobin!IsPrefix, IsPrefix, Ring
  <1>2. QED
    BY <1>1 DEF RoundRobin!Next

\* or one has left.
LEMMA LeaveStep ==
    ASSUME NEW i \in DOMAIN Ring, Ring' = RemoveAt(Ring, i)
    PROVE  RoundRobin!Next
  <1>1. RoundRobin!Leave(i)
    BY DEF RoundRobin!Leave, RoundRobin!RemoveAt, RemoveAt, Ring
  <1>2. i \in DOMAIN ((IF curenv = NULL THEN << >> ELSE <<curenv>>)
                        \o Reverse(env_ready_queue))
    BY DEF Ring
  <1>3. QED
    BY <1>1, <1>2 DEF RoundRobin!Next

\* The ring with and without a running environment.
LEMMA RingShape ==
    ASSUME NEW cur \in Slots \cup {NULL}, NEW ready \in Seq(Slots)
    PROVE  /\ cur = NULL => (IF cur = NULL THEN << >> ELSE <<cur>>)
                              \o Reverse(ready) = Reverse(ready)
           /\ cur # NULL => (IF cur = NULL THEN << >> ELSE <<cur>>)
                              \o Reverse(ready) = Cons(cur, Reverse(ready))
  <1>1. Reverse(ready) \in Seq(Slots)
    BY ReverseElements
  <1>2. << >> \o Reverse(ready) = Reverse(ready)
    BY <1>1, ConcatEmptySeq
  <1>3. QED BY <1>2 DEF Cons

\* The ring, at the prompt and otherwise.
LEMMA RingNow ==
    ASSUME SInv
    PROVE  /\ env_ready_queue \in Seq(Slots) /\ curenv \in Slots \cup {NULL}
           /\ Reverse(env_ready_queue) \in Seq(Slots)
           /\ curenv = NULL => Ring = << >> /\ env_ready_queue = << >>
           /\ curenv # NULL => Ring = Cons(curenv, Reverse(env_ready_queue))
           /\ Ring \in Seq(Slots)
  <1>1. /\ env_ready_queue \in Seq(Slots) /\ curenv \in Slots \cup {NULL}
        /\ curenv = NULL => env_ready_queue = << >>
    BY DEF SInv, PlacedNow, Placement, QueueTypes, IdleAtPrompt
  <1>2. /\ Reverse(env_ready_queue) \in Seq(Slots)
        /\ Len(Reverse(env_ready_queue)) = Len(env_ready_queue)
    BY <1>1, ReverseShape
  <1>3. /\ curenv = NULL => Ring = Reverse(env_ready_queue)
        /\ curenv # NULL => Ring = Cons(curenv, Reverse(env_ready_queue))
    BY <1>1, RingShape DEF Ring
  <1>4. curenv = NULL => Reverse(env_ready_queue) = << >>
    BY <1>1, <1>2, EmptySeq
  <1>5. curenv # NULL => Cons(curenv, Reverse(env_ready_queue)) \in Seq(Slots)
    BY <1>1, <1>2, ConsShape
  <1>6. << >> \in Seq(Slots)
    OBVIOUS
  <1>7. QED BY <1>1, <1>2, <1>3, <1>4, <1>5, <1>6

\* fos_scheduler makes the ring of what it is given, the current environment
\* last.
LEMMA SchedulerRing ==
    ASSUME NEW ready \in Seq(Slots), NEW cur \in Slots \cup {NULL}, NEW status,
           fos_scheduler(ready, cur, status)
    PROVE  Ring' = Reverse(IF cur = NULL THEN ready ELSE Cons(cur, ready))
  <1> DEFINE queue == IF cur = NULL THEN ready ELSE Cons(cur, ready)
  <1>1. NULL \notin Slots
    BY TableAssumption DEF Slots
  <1>2. queue \in Seq(Slots)
    <2>1. cur # NULL => Cons(cur, ready) \in Seq(Slots)
      BY ConsShape
    <2>2. QED BY <2>1
  <1>3. IF queue = << >>
        THEN curenv' = NULL /\ env_ready_queue' = << >>
        ELSE curenv' = Last(queue) /\ env_ready_queue' = Front(queue)
    BY DEF fos_scheduler, env_run
  <1> HIDE DEF queue
  <1>4. CASE queue = << >>
    <2>1. << >> \in Seq(Slots) /\ NULL \in Slots \cup {NULL}
      OBVIOUS
    <2>2. Ring' = (IF NULL = NULL THEN << >> ELSE <<NULL>>) \o Reverse(<< >>)
      BY <1>3, <1>4 DEF Ring
    <2>3. Ring' = Reverse(<< >>)
      BY <2>1, <2>2, RingShape
    <2>4. QED BY <1>4, <2>3 DEF queue
  <1>5. CASE queue # << >>
    <2>1. Front(queue) \in Seq(Slots) /\ Last(queue) \in Slots
      BY <1>2, <1>5, FrontShape
    <2>2. curenv' \in Slots /\ env_ready_queue' \in Seq(Slots) /\ curenv' # NULL
      BY <1>1, <1>3, <1>5, <2>1
    <2>3. Ring' = Cons(curenv', Reverse(env_ready_queue'))
      BY <2>2, RingShape DEF Ring
    <2>4. Reverse(queue) = Cons(Last(queue), Reverse(Front(queue)))
      BY <1>2, <1>5, ReverseFront
    <2>5. QED BY <1>3, <1>5, <2>3, <2>4 DEF queue
  <1>6. QED BY <1>4, <1>5

\* A turn: the clock interrupt.
LEMMA ClockRing ==
    ASSUME SInv, clock_interrupt_handler
    PROVE  RoundRobin!Next
  <1> DEFINE back == Reverse(env_ready_queue)
  <1>1. /\ fos_scheduler(env_ready_queue, curenv, env_status) /\ curenv # NULL
        /\ env_ready_queue \in Seq(Slots) /\ curenv \in Slots
        /\ back \in Seq(Slots) /\ Ring = Cons(curenv, back)
    BY RingNow DEF clock_interrupt_handler, Running
  <1>2. Ring' = Reverse(Cons(curenv, env_ready_queue))
    BY <1>1, SchedulerRing
  <1>3. Reverse(Cons(curenv, env_ready_queue)) = Append(back, curenv)
    BY <1>1, ReverseCons
  <1> HIDE DEF back
  <1>4. Ring # << >> /\ Head(Ring) = curenv /\ Tail(Ring) = back
    BY <1>1, ConsHeadTail
  <1>5. QED BY <1>2, <1>3, <1>4, TurnStep

\* The first leaves: the running environment exits, whatever the status
\* fields its caller has changed.
LEMMA ExitRing ==
    ASSUME SInv, curenv # NULL, NEW status, ExitCurrent(status)
    PROVE  RoundRobin!Next
  <1> DEFINE back == Reverse(env_ready_queue)
  <1>1. /\ fos_scheduler(env_ready_queue, NULL, [status EXCEPT ![curenv] = "ENV_EXIT"])
        /\ env_ready_queue \in Seq(Slots) /\ curenv \in Slots
        /\ back \in Seq(Slots) /\ Ring = Cons(curenv, back)
    BY RingNow DEF ExitCurrent
  <1>2. Ring' = back
    BY <1>1, SchedulerRing
  <1> HIDE DEF back
  <1>3. 1 \in DOMAIN Ring /\ RemoveAt(Ring, 1) = back
    BY <1>1, ConsHeadTail
  <1>4. QED BY <1>2, <1>3, LeaveStep

\* At the prompt the ring is empty, and what the scheduler is given joins.
LEMMA StartRing ==
    ASSUME SInv, curenv = NULL, NEW ready \in Seq(Slots), NEW status,
           fos_scheduler(ready, NULL, status)
    PROVE  RoundRobin!Next
  <1>1. Ring' = Reverse(ready)
    BY SchedulerRing
  <1>2. Reverse(ready) \in Seq(Slots) /\ << >> \in Seq(Slots)
    BY ReverseElements
  <1>3. << >> \o Reverse(ready) = Reverse(ready)
    BY <1>2, ConcatEmptySeq
  <1>4. IsPrefix(<< >>, Reverse(ready))
    BY <1>2, <1>3, ConcatPrefix
  <1>5. Ring = << >>
    BY RingNow
  <1>6. QED BY <1>1, <1>2, <1>4, <1>5, JoinStep

\* An environment that becomes ready joins behind all the others.
LEMMA RunEnvRing ==
    ASSUME SInv, NEW id, sys_run_env(id)
    PROVE  RoundRobin!Next
  <1> DEFINE back == Reverse(env_ready_queue)
  <1>1. /\ curenv # NULL /\ curenv' = curenv
        /\ env_ready_queue \in Seq(Slots) /\ curenv \in Slots
        /\ back \in Seq(Slots) /\ Ring = Cons(curenv, back) /\ Ring \in Seq(Slots)
    BY RingNow DEF sys_run_env, Running
  <1>2. PICK s \in Slots : env_ready_queue' = Cons(s, env_ready_queue)
    <2>1. PICK i \in DOMAIN env_new_queue :
            env_ready_queue' = Cons(env_new_queue[i], env_ready_queue)
      BY DEF sys_run_env, sched_run_env, Find
    <2>2. env_new_queue[i] \in Slots
      BY LenProperties, ElementOfSeq DEF SInv, PlacedNow, Placement, QueueTypes
    <2>3. QED BY <2>1, <2>2
  <1>3. Reverse(env_ready_queue') = Append(back, s)
    BY <1>1, <1>2, ReverseCons
  <1>4. env_ready_queue' \in Seq(Slots)
    BY <1>1, <1>2, ConsShape
  <1>5. Ring' = Cons(curenv, Append(back, s))
    <2>1. Ring' = Cons(curenv', Reverse(env_ready_queue'))
      BY <1>1, <1>4, RingShape DEF Ring
    <2>2. QED BY <1>1, <1>3, <2>1
  <1> HIDE DEF back
  <1>6. <<s>> \in Seq(Slots) /\ Append(back, s) = back \o <<s>>
    BY <1>1, AppendIsConcat
  <1>7. Ring' = Ring \o <<s>>
    BY <1>1, <1>5, <1>6, ConsConcat
  <1>8. Ring \o <<s>> \in Seq(Slots) /\ IsPrefix(Ring, Ring \o <<s>>)
    BY <1>1, <1>6, ConcatPrefix, ConcatProperties
  <1>9. QED BY <1>7, <1>8, JoinStep

\* A ready environment that is killed leaves, the others keep their order; the
\* ring has none of the environments of the other queues.
LEMMA KillQueuedRing ==
    ASSUME SInv, NEW id, KillQueued(id)
    PROVE  RoundRobin!Next \/ Ring' = Ring
  <1> DEFINE back == Reverse(env_ready_queue)
             first == IF curenv = NULL THEN << >> ELSE <<curenv>>
  <1>1. CASE env_ready_queue' = env_ready_queue /\ curenv' = curenv
    BY <1>1 DEF Ring
  <1>2. ASSUME NEW i \in DOMAIN env_ready_queue, curenv' = curenv,
               env_ready_queue' = RemoveAt(env_ready_queue, i)
        PROVE  RoundRobin!Next
    <2>1. /\ env_ready_queue \in Seq(Slots) /\ back \in Seq(Slots)
          /\ first \in Seq(Slots)
      BY RingNow
    <2>2. PICK k \in DOMAIN back :
            Reverse(RemoveAt(env_ready_queue, i)) = RemoveAt(back, k)
      BY <2>1, ReverseRemoveAt
    <2>3. Ring = first \o back /\ Ring' = first \o RemoveAt(back, k)
      BY <1>2, <2>2 DEF Ring
    <2> HIDE DEF first, back
    <2>4. /\ RemoveAt(first \o back, Len(first) + k) = first \o RemoveAt(back, k)
          /\ Len(first) + k \in DOMAIN (first \o back)
      BY <2>1, ConcatRemoveAt
    <2>5. QED BY <2>3, <2>4, LeaveStep
  <1>3. QED BY <1>1, <1>2 DEF KillQueued, Find

\* The outcomes of sched_kill_env, of which two leave the ring or the kernel.
LEMMA KillRing ==
    ASSUME SInv, NEW id, sched_kill_env(id)
    PROVE  RoundRobin!Next \/ Ring' = Ring
  <1>1. CASE KillQueued(id)
    BY <1>1, KillQueuedRing
  <1>2. CASE KillCurrent(id)
    BY <1>2, ExitRing DEF KillCurrent
  <1>3. CASE KillUnknown(id)
    BY <1>3 DEF KillUnknown, Ring
  <1>4. QED BY <1>1, <1>2, <1>3 DEF sched_kill_env

\* Every step of the kernel is a step of the ring or leaves it alone.
LEMMA NextRing ==
    ASSUME SInv, [Next]_vars
    PROVE  RoundRobin!Next \/ Ring' = Ring
  <1>0. UNCHANGED <<curenv, env_ready_queue>> => Ring' = Ring
    BY DEF Ring
  <1>1. ASSUME NEW s \in Slots, command_run_program(s)
        PROVE  RoundRobin!Next
    <2>1. Cons(s, env_ready_queue) \in Seq(Slots)
      BY RingNow, ConsShape
    <2>2. QED BY <1>1, <2>1, StartRing DEF command_run_program, AtPrompt
  <1>2. CASE sched_run_all
    <2>1. Reverse(env_new_queue) \o env_ready_queue \in Seq(Slots)
      BY ReverseElements, ConcatElements
         DEF SInv, PlacedNow, Placement, QueueTypes
    <2>2. QED BY <1>2, <2>1, StartRing DEF sched_run_all, AtPrompt
  <1>3. CASE sched_kill_all
    <2>1. curenv = NULL /\ curenv' = curenv /\ env_ready_queue' = << >>
      BY <1>3 DEF sched_kill_all, AtPrompt
    <2>2. QED BY <1>0, <2>1, RingNow
  <1>4. ASSUME NEW id \in Ids,
               \/ command_kill_program(id) \/ sys_free_env(id)
               \/ sys_env_destroy(id)
        PROVE  RoundRobin!Next \/ Ring' = Ring
    BY <1>4, KillRing
       DEF command_kill_program, sys_free_env, sys_env_destroy
  <1>5. ASSUME NEW n \in Quanta, command_sch_RR(n)
        PROVE  Ring' = Ring
    <2>1. /\ curenv = NULL /\ curenv' = curenv
          /\ env_ready_queue' \in {<< >>, env_ready_queue}
      BY <1>5 DEF command_sch_RR, AtPrompt
    <2>2. QED BY <1>0, <2>1, RingNow
  <1>6. ASSUME NEW id \in Ids, sys_run_env(id)
        PROVE  RoundRobin!Next
    BY <1>6, RunEnvRing
  <1>7. CASE env_exit
    BY <1>7, ExitRing DEF env_exit, Running
  <1>8. ASSUME NEW s \in Slots, CreateEnv(s)
        PROVE  Ring' = Ring
    BY <1>0, <1>8 DEF CreateEnv
  <1>9. ASSUME NEW s \in Slots, NEW committed \in BOOLEAN,
               CreatePanics(s, committed)
        PROVE  RoundRobin!Next
    <2> DEFINE st == [env_status EXCEPT
                        ![s] = IF committed THEN "ENV_NEW" ELSE "ENV_UNKNOWN"]
    <2>1. IF curenv # NULL
          THEN ExitCurrent(st)
          ELSE fos_scheduler(env_ready_queue, NULL, st)
      BY <1>9 DEF CreatePanics
    <2> HIDE DEF st
    <2>2. QED BY <2>1, ExitRing, StartRing, RingNow
  <1>10. CASE clock_interrupt_handler
    BY <1>10, ClockRing
  <1>11. CASE sys_disable_interrupt \/ sys_enable_interrupt \/ UNCHANGED vars
    BY <1>0, <1>11 DEF sys_disable_interrupt, sys_enable_interrupt, vars
  <1>12. QED
    BY <1>1, <1>2, <1>3, <1>4, <1>5, <1>6, <1>7, <1>8, <1>9, <1>10, <1>11
       DEF Next, Prompt, User

\* The ring is empty when the kernel has booted.
LEMMA InitRing == Init => RoundRobin!Init
  <1> SUFFICES ASSUME Init PROVE RoundRobin!Init
    OBVIOUS
  <1>1. SInv /\ curenv = NULL
    BY InitSInv DEF Init
  <1>2. Ring = << >>
    BY <1>1, RingNow
  <1>3. QED BY <1>2 DEF RoundRobin!Init, Ring

\* Round robin: whoever joins, exits or is killed, no environment overtakes
\* another one that was ready before it.
THEOREM RotatesInOrderCorrect == Spec => RotatesInOrder
  <1>1. SInv /\ [Next]_vars
          => [RoundRobin!Next]_((IF curenv = NULL THEN << >> ELSE <<curenv>>)
                                  \o Reverse(env_ready_queue))
    BY NextRing DEF Ring
  <1>2. QED
    BY InitSInv, NextSInv, InitRing, <1>1, PTL
       DEF Spec, RotatesInOrder, RoundRobin!Spec

-----------------------------------------------------------------------------
(***************************************************************************)
(* The ids.  An entry that is free has the id 0, so the next id it gets is *)
(* of the first generation, whatever the size of envs[]: the index above   *)
(* one generation.                                                         *)
(***************************************************************************)
IdOf(s) == 4096 + s

IdInv ==
    /\ env_id \in [Slots -> Nat]
    /\ \A s \in ToSet(env_free_list) : env_id[s] = 0
    /\ \A s \in Slots \ ToSet(env_free_list) : env_id[s] = IdOf(s)
    /\ freed_id \in [Slots -> Nat]
    /\ \A s \in Slots : freed_id[s] \in {0, IdOf(s)}

FieldTypes ==
    /\ interruptible \subseteq Slots
    /\ scheduler_status \in {"SCH_STOPPED", "SCH_STARTED"}
    /\ machine \in {"up", "down"}

\* No bits sum up to nothing.
LEMMA SumOfNone == SumSet({}) = 0
  <1> DEFINE iter == CHOOSE g :
               g = [s \in SUBSET {} |->
                      IF s = {} THEN 0
                      ELSE LET x == CHOOSE y \in s : TRUE IN x + g[s \ {x}]]
             h == [s \in SUBSET {} |-> 0]
  <1>1. h = [s \in SUBSET {} |->
               IF s = {} THEN 0
               ELSE LET x == CHOOSE y \in s : TRUE IN x + h[s \ {x}]]
    OBVIOUS
  <1>2. iter = [s \in SUBSET {} |->
                  IF s = {} THEN 0
                  ELSE LET x == CHOOSE y \in s : TRUE IN x + iter[s \ {x}]]
    BY <1>1, Zenon
  <1>3. iter[{}] = 0
    BY <1>2
  <1>4. SumSet({}) = iter[{}]
    BY Zenon DEF SumSet, FoldSet, MapThenFoldSet
  <1>5. QED BY <1>3, <1>4

\* A generation and a number below it have no bit in common.
LEMMA NoCommonBit ==
    ASSUME NEW m \in Nat, m < 4096
    PROVE  And(4096, m) = 0
  <1> DEFINE clear(k) == (4096 \div 2^k) % 2 = 0
  <1>1. \A k \in 0 .. 13 : k # 12 => clear(k)
    <2>1. /\ 2^0 = 1 /\ 2^1 = 2 /\ 2^2 = 4 /\ 2^3 = 8 /\ 2^4 = 16 /\ 2^5 = 32
          /\ 2^6 = 64 /\ 2^7 = 128 /\ 2^8 = 256 /\ 2^9 = 512 /\ 2^10 = 1024
          /\ 2^11 = 2048 /\ 2^13 = 8192
      OBVIOUS
    <2>2. /\ clear(0) /\ clear(1) /\ clear(2) /\ clear(3) /\ clear(4)
          /\ clear(5) /\ clear(6) /\ clear(7) /\ clear(8) /\ clear(9)
          /\ clear(10) /\ clear(11) /\ clear(13)
      BY <2>1
    <2> HIDE DEF clear
    <2>3. \A k \in 0 .. 13 : \/ k = 0 \/ k = 1 \/ k = 2 \/ k = 3 \/ k = 4
                             \/ k = 5 \/ k = 6 \/ k = 7 \/ k = 8 \/ k = 9
                             \/ k = 10 \/ k = 11 \/ k = 12 \/ k = 13
      OBVIOUS
    <2>4. QED BY <2>2, <2>3
  <1>2. (m \div 2^12) % 2 = 0
    <2>1. m \div 4096 = 0
      OBVIOUS
    <2>2. 2^12 = 4096
      OBVIOUS
    <2>3. QED BY <2>1, <2>2
  <1>3. Bits(4096) \cap Bits(m) = {}
    <2> SUFFICES ASSUME NEW k \in Bits(4096), k \in Bits(m) PROVE FALSE
      OBVIOUS
    <2>1. k \in 0 .. 13 /\ (4096 \div 2^k) % 2 = 1 /\ (m \div 2^k) % 2 = 1
      BY DEF Bits, IdBits
    <2>2. k = 12
      <3>1. clear(k) => FALSE
        BY <2>1
      <3> HIDE DEF clear
      <3>2. k # 12 => clear(k)
        BY <1>1, <2>1
      <3>3. QED BY <3>1, <3>2
    <2>3. (m \div 2^12) % 2 = 1
      BY <2>1, <2>2
    <2>4. QED BY <1>2, <2>3
  <1>4. {2^k : k \in Bits(4096) \cap Bits(m)} = {}
    BY <1>3
  <1>5. QED BY <1>4, SumOfNone DEF And

\* An entry's index is below one generation.
LEMMA EntriesBelowGeneration ==
    /\ NENV - 1 \in Nat /\ NENV - 1 < 4096
    /\ \A s \in Slots : /\ s \in Nat /\ s < 4096
                         /\ IdOf(s) \in Nat /\ IdOf(s) # 0 /\ IdOf(s) <= 8191
  <1>1. NENV \in Nat /\ NENV >= 1 /\ NENV <= 4095
    BY TableAssumption
  <1>2. NENV - 1 \in Nat /\ NENV - 1 < 4096
    BY <1>1
  <1>3. ASSUME NEW s \in Slots
        PROVE  /\ s \in Nat /\ s < 4096
               /\ IdOf(s) \in Nat /\ IdOf(s) # 0 /\ IdOf(s) <= 8191
    <2>1. s \in Nat /\ s <= NENV - 1
      BY <1>1 DEF Slots
    <2>2. s <= 4094
      BY <1>1, <2>1
    <2>3. QED BY <2>1, <2>2 DEF IdOf
  <1>4. QED BY <1>2, <1>3

\* The id a free entry gets.
LEMMA FirstId ==
    ASSUME NEW s \in Slots, env_id[s] = 0
    PROVE  NewId(s) = IdOf(s)
  <1>1. s \in Nat /\ s < 4096 /\ NENV - 1 \in Nat /\ NENV - 1 < 4096
    BY EntriesBelowGeneration
  <1>2. And(4096, NENV - 1) = 0 /\ And(4096, s) = 0
    BY <1>1, NoCommonBit
  <1>3. 0 + 2^ENVGENSHIFT = 4096
    BY DEF ENVGENSHIFT
  <1>4. NewId(s) = Or(4096 - And(4096, NENV - 1), s)
    BY <1>3 DEF NewId
  <1>5. Or(4096 - And(4096, NENV - 1), s) = (4096 + s) - And(4096, s)
    BY <1>1, <1>2 DEF Or
  <1>6. QED BY <1>1, <1>2, <1>4, <1>5 DEF IdOf

\* A committed creation gives the first free entry its id.
LEMMA CommitIds ==
    ASSUME SInv, IdInv, NEW s \in Slots, Commit(s), freed_id' = freed_id
    PROVE  IdInv'
  <1>1. /\ env_free_list # << >> /\ s = Head(env_free_list)
        /\ env_free_list' = Tail(env_free_list)
        /\ env_id' = [env_id EXCEPT ![s] = NewId(s)]
    BY DEF Commit
  <1>2. /\ ToSet(env_free_list) = ToSet(Tail(env_free_list)) \cup {s}
        /\ s \notin ToSet(Tail(env_free_list))
    BY <1>1, HeadElements DEF SInv, PlacedNow, Placement, QueueTypes
  <1>3. NewId(s) = IdOf(s) /\ IdOf(s) \in Nat
    BY <1>2, FirstId, EntriesBelowGeneration DEF IdInv
  <1>4. ToSet(Tail(env_free_list)) \subseteq Slots
    BY <1>1, HeadElements, ElementsAreSlots
       DEF SInv, PlacedNow, Placement, QueueTypes
  <1>5. QED BY <1>1, <1>2, <1>3, <1>4 DEF IdInv

\* The environments that are freed lose their ids.
LEMMA FreeIds ==
    ASSUME SInv, IdInv, NEW gone \in Seq(Slots), env_free(gone)
    PROVE  IdInv'
  <1>1. /\ env_free_list \in Seq(Slots)
        /\ Reverse(gone) \in Seq(Slots) /\ ToSet(Reverse(gone)) = ToSet(gone)
        /\ ToSet(gone) \subseteq Slots
    BY ReverseElements, ElementsAreSlots
       DEF SInv, PlacedNow, Placement, QueueTypes
  <1>2. /\ env_free_list' = Reverse(gone) \o env_free_list
        /\ env_id' = [s \in Slots |-> IF s \in ToSet(gone) THEN 0 ELSE env_id[s]]
        /\ freed_id' = [s \in Slots |-> IF s \in ToSet(gone)
                                        THEN env_id[s] ELSE freed_id[s]]
    BY DEF env_free
  <1>3. ToSet(env_free_list') = ToSet(gone) \cup ToSet(env_free_list)
    BY <1>1, <1>2, ConcatElements
  <1>4. \A s \in Slots : env_id[s] \in {0, IdOf(s)}
    BY DEF IdInv
  <1>5. ToSet(env_free_list) \subseteq Slots
    BY <1>1, ElementsAreSlots
  <1>6. QED BY <1>1, <1>2, <1>3, <1>4, <1>5 DEF IdInv

\* The entries free_environment clears for sched_kill_env and killall.
LEMMA QueuedAreSlots ==
    ASSUME SInv
    PROVE  /\ env_new_queue \in Seq(Slots) /\ env_ready_queue \in Seq(Slots)
           /\ env_exit_queue \in Seq(Slots)
           /\ \A i \in DOMAIN env_new_queue : <<env_new_queue[i]>> \in Seq(Slots)
           /\ \A i \in DOMAIN env_ready_queue : <<env_ready_queue[i]>> \in Seq(Slots)
           /\ \A i \in DOMAIN env_exit_queue : <<env_exit_queue[i]>> \in Seq(Slots)
           /\ env_new_queue \o env_ready_queue \o env_exit_queue \in Seq(Slots)
  <1>1. /\ env_new_queue \in Seq(Slots) /\ env_ready_queue \in Seq(Slots)
        /\ env_exit_queue \in Seq(Slots)
    BY DEF SInv, PlacedNow, Placement, QueueTypes
  <1>2. /\ \A i \in DOMAIN env_new_queue : env_new_queue[i] \in Slots
        /\ \A i \in DOMAIN env_ready_queue : env_ready_queue[i] \in Slots
        /\ \A i \in DOMAIN env_exit_queue : env_exit_queue[i] \in Slots
    BY <1>1, LenProperties, ElementOfSeq
  <1>3. env_new_queue \o env_ready_queue \o env_exit_queue \in Seq(Slots)
    BY <1>1, ConcatProperties
  <1>4. QED BY <1>1, <1>2, <1>3

\* The killed environment loses its id, unless it is the current one, which
\* only exits.
LEMMA KillIds ==
    ASSUME SInv, IdInv, NEW id, sched_kill_env(id)
    PROVE  IdInv'
  <1>1. CASE KillQueued(id)
    BY <1>1, QueuedAreSlots, FreeIds DEF KillQueued, Find
  <1>2. CASE KillCurrent(id)
    BY <1>2 DEF KillCurrent, IdInv
  <1>3. CASE KillUnknown(id)
    BY <1>3 DEF KillUnknown, IdInv
  <1>4. QED BY <1>1, <1>2, <1>3 DEF sched_kill_env

\* IdInv is inductive with SInv.
LEMMA NextIds ==
    ASSUME SInv, IdInv, [Next]_vars
    PROVE  IdInv'
  <1>0. UNCHANGED <<env_free_list, env_id, freed_id>> => IdInv'
    BY DEF IdInv
  <1>1. ASSUME NEW s \in Slots, CreateEnv(s) \/ command_run_program(s)
        PROVE  IdInv'
    BY <1>1, CommitIds DEF CreateEnv, command_run_program
  <1>2. ASSUME NEW s \in Slots, NEW committed \in BOOLEAN,
               CreatePanics(s, committed)
        PROVE  IdInv'
    <2>1. /\ freed_id' = freed_id
          /\ \/ Commit(s)
             \/ UNCHANGED <<env_free_list, env_id>>
      BY <1>2 DEF CreatePanics
    <2>2. QED BY <1>0, <2>1, CommitIds
  <1>3. CASE sched_kill_all
    BY <1>3, QueuedAreSlots, FreeIds DEF sched_kill_all
  <1>4. ASSUME NEW id \in Ids,
               \/ command_kill_program(id) \/ sys_free_env(id)
               \/ sys_env_destroy(id)
        PROVE  IdInv'
    BY <1>4, KillIds DEF command_kill_program, sys_free_env, sys_env_destroy
  <1>5. CASE UNCHANGED <<env_free_list, env_id, freed_id>>
    BY <1>0, <1>5
  <1>6. QED
    BY <1>1, <1>2, <1>3, <1>4, <1>5
       DEF Next, Prompt, User, sched_run_all, command_sch_RR, sys_run_env,
           env_exit, sys_disable_interrupt, sys_enable_interrupt,
           clock_interrupt_handler, vars

\* Only entries of envs[] are ever interruptible, and the scheduler and the
\* machine have two states each.
LEMMA NextFields ==
    ASSUME SInv, FieldTypes, [Next]_vars
    PROVE  FieldTypes'
  <1>1. ASSUME NEW ready, NEW cur, NEW status, fos_scheduler(ready, cur, status)
        PROVE  scheduler_status' \in {"SCH_STOPPED", "SCH_STARTED"}
    BY <1>1 DEF fos_scheduler
  <1>2. ASSUME NEW status, ExitCurrent(status)
        PROVE  scheduler_status' \in {"SCH_STOPPED", "SCH_STARTED"}
    BY <1>1, <1>2 DEF ExitCurrent
  <1>3. ASSUME NEW s \in Slots, Commit(s)
        PROVE  interruptible' \subseteq Slots
    BY <1>3 DEF Commit, FieldTypes
  <1>4. ASSUME NEW gone, env_free(gone)
        PROVE  interruptible' \subseteq Slots
    BY <1>4 DEF env_free, FieldTypes
  <1>5. ASSUME NEW id, sched_kill_env(id)
        PROVE  FieldTypes'
    <2>1. CASE KillQueued(id)
      BY <1>4, <2>1 DEF KillQueued, FieldTypes
    <2>2. CASE KillCurrent(id)
      BY <1>2, <2>2 DEF KillCurrent, FieldTypes
    <2>3. CASE KillUnknown(id)
      BY <2>3 DEF KillUnknown, FieldTypes
    <2>4. QED BY <1>5, <2>1, <2>2, <2>3 DEF sched_kill_env
  <1>6. ASSUME NEW s \in Slots, CreateEnv(s)
        PROVE  FieldTypes'
    BY <1>3, <1>6 DEF CreateEnv, FieldTypes
  <1>7. ASSUME NEW s \in Slots, command_run_program(s)
        PROVE  FieldTypes'
    BY <1>1, <1>3, <1>7 DEF command_run_program, FieldTypes
  <1>8. ASSUME NEW s \in Slots, NEW committed \in BOOLEAN,
               CreatePanics(s, committed)
        PROVE  FieldTypes'
    <2> DEFINE st == [env_status EXCEPT
                        ![s] = IF committed THEN "ENV_NEW" ELSE "ENV_UNKNOWN"]
    <2>1. /\ Commit(s) \/ interruptible' = interruptible
          /\ ExitCurrent(st) \/ fos_scheduler(env_ready_queue, NULL, st)
          /\ machine' = machine
      BY <1>8 DEF CreatePanics
    <2> HIDE DEF st
    <2>2. QED BY <1>1, <1>2, <1>3, <2>1 DEF FieldTypes
  <1>9. CASE sched_run_all
    BY <1>1, <1>9 DEF sched_run_all, FieldTypes
  <1>10. CASE clock_interrupt_handler
    BY <1>1, <1>10 DEF clock_interrupt_handler, FieldTypes
  <1>11. CASE env_exit
    BY <1>2, <1>11 DEF env_exit, FieldTypes
  <1>12. CASE sched_kill_all
    BY <1>4, <1>12 DEF sched_kill_all, FieldTypes
  <1>13. CASE sys_disable_interrupt \/ sys_enable_interrupt
    <2>1. curenv # NULL => curenv \in Slots
      BY RingNow
    <2>2. QED BY <1>13, <2>1 DEF sys_disable_interrupt, sys_enable_interrupt,
                                 Running, FieldTypes
  <1>14. ASSUME NEW n \in Quanta, command_sch_RR(n)
         PROVE  FieldTypes'
    BY <1>14 DEF command_sch_RR, FieldTypes
  <1>15. ASSUME NEW id \in Ids, sys_run_env(id)
         PROVE  FieldTypes'
    BY <1>15 DEF sys_run_env, FieldTypes
  <1>16. CASE UNCHANGED vars
    BY <1>16 DEF vars, FieldTypes
  <1>17. QED
    BY <1>5, <1>6, <1>7, <1>8, <1>9, <1>10, <1>11, <1>12, <1>13, <1>14, <1>15,
       <1>16 DEF Next, Prompt, User, command_kill_program, sys_free_env,
                 sys_env_destroy

\* Booting: every entry is free and has no id.
LEMMA InitIds == Init => IdInv /\ FieldTypes
  <1> SUFFICES ASSUME Init PROVE IdInv /\ FieldTypes
    OBVIOUS
  <1>1. /\ env_free_list = [i \in 1 .. NENV |-> i - 1]
        /\ env_id = [s \in Slots |-> 0] /\ freed_id = [s \in Slots |-> 0]
        /\ interruptible = {} /\ scheduler_status = "SCH_STOPPED"
        /\ machine = "up" /\ NENV \in Nat
    BY TableAssumption DEF Init, env_init, sched_init
  <1>2. ToSet(env_free_list) = Slots
    <2>1. DOMAIN env_free_list = 1 .. NENV
      BY <1>1
    <2>2. ASSUME NEW s \in Slots PROVE s \in ToSet(env_free_list)
      <3>1. s + 1 \in 1 .. NENV /\ (s + 1) - 1 = s
        BY <1>1 DEF Slots
      <3>2. env_free_list[s + 1] = s
        BY <1>1, <3>1
      <3>3. QED BY <2>1, <3>1, <3>2 DEF ToSet
    <2>3. ASSUME NEW i \in 1 .. NENV PROVE env_free_list[i] \in Slots
      BY <1>1 DEF Slots
    <2>4. QED BY <2>1, <2>2, <2>3 DEF ToSet
  <1>3. QED BY <1>1, <1>2 DEF IdInv, FieldTypes

\* The ids tell the environments apart, and are ids of the bits that the
\* kernel works with.
LEMMA IdFacts ==
    ASSUME SInv, IdInv, FieldTypes
    PROVE  UniqueIds /\ TypeOK
  <1>1. /\ env_free_list \in Seq(Slots) /\ env_new_queue \in Seq(Slots)
        /\ env_ready_queue \in Seq(Slots) /\ env_exit_queue \in Seq(Slots)
        /\ curenv \in Slots \cup {NULL} /\ env_status \in [Slots -> Statuses]
    BY DEF SInv, PlacedNow, Placement, QueueTypes
  <1>2. \A s \in Slots : /\ s \in Nat /\ IdOf(s) \in Nat
                         /\ IdOf(s) # 0 /\ IdOf(s) <= 8191
    BY EntriesBelowGeneration
  <1>3. \A s, t \in Slots : IdOf(s) = IdOf(t) => s = t
    BY <1>2 DEF IdOf
  <1>4. ToSet(env_free_list) \subseteq Slots
    BY <1>1, ElementsAreSlots
  <1>5. UniqueIds
    <2>1. \A s \in Slots : env_id[s] = 0 \/ env_id[s] = IdOf(s)
      BY DEF IdInv
    <2>2. \A s, t \in Slots : env_id[s] = env_id[t] /\ env_id[s] # 0 => s = t
      BY <1>3, <2>1, Zenon
    <2>3. \A s \in Slots \ ToSet(env_free_list) : env_id[s] # 0
      BY <1>2 DEF IdInv
    <2>4. QED BY <2>2, <2>3 DEF UniqueIds, IdInv
  <1>6. 2^(ENVGENSHIFT + 1) - 1 = 8191
    <2>1. 12 + 1 = 13 /\ 2^13 = 8192
      OBVIOUS
    <2>2. QED BY <2>1 DEF ENVGENSHIFT
  <1> DEFINE top == 2^(ENVGENSHIFT + 1) - 1
  <1>7. /\ env_id \in [Slots -> 0 .. top]
        /\ freed_id \in [Slots -> 0 .. top]
    <2>1. top \in Nat /\ \A s \in Slots : IdOf(s) <= top
      BY <1>2, <1>6
    <2> HIDE DEF top
    <2>2. \A s \in Slots : env_id[s] \in 0 .. top /\ freed_id[s] \in 0 .. top
      BY <1>2, <2>1 DEF IdInv
    <2>3. QED BY <2>2 DEF IdInv
  <1>8. QED BY <1>1, <1>5, <1>7 DEF TypeOK, FieldTypes

\* Two environments in the system never have the same id, for any size of
\* envs[] that fits below a generation, a power of two or not.
THEOREM UniqueIdsCorrect == Spec => []UniqueIds
  <1>1. SInv /\ IdInv /\ FieldTypes => UniqueIds
    BY IdFacts
  <1>2. QED
    BY InitSInv, NextSInv, InitIds, NextIds, NextFields, <1>1, PTL DEF Spec

\* Every variable keeps its type, and an id fits the bits that ENVX and NewId
\* work on.
THEOREM TypeCorrect == Spec => []TypeOK
  <1>1. SInv /\ IdInv /\ FieldTypes => TypeOK
    BY IdFacts
  <1>2. QED
    BY InitSInv, NextSInv, InitIds, NextIds, NextFields, <1>1, PTL DEF Spec

-----------------------------------------------------------------------------
(***************************************************************************)
(* Traps: frames and checks are records.                                   *)
(***************************************************************************)
IsFrame(x) == x = [eip |-> x.eip, eax |-> x.eax]
ChkShape(x) == x = [status |-> x.status, failed |-> x.failed]

-----------------------------------------------------------------------------
(***************************************************************************)
(* The counts of a quantum.                                                *)
(***************************************************************************)
\* The quotient of two numbers.
LEMMA Quotient ==
    ASSUME NEW a \in Nat, NEW x \in Nat \ {0}
    PROVE  /\ a \div x \in Nat
           /\ (a \div x) * x <= a
           /\ a < (a \div x) * x + x
  OBVIOUS

\* An even number that is not below n.
LEMMA EvenShape ==
    ASSUME NEW n \in Nat
    PROVE  Even(n) \in Nat /\ Even(n) % 2 = 0 /\ n <= Even(n) /\ Even(n) <= n + 1
  BY DEF Even

\* schedRR takes the quanta of which 2^16 counts or fewer are left.
LEMMA QuantumLimit == QUANTUM_LIMIT = 54
  BY DEF QUANTUM_LIMIT

\* The counts of a quantum that schedRR takes.  They fit the counter if the
\* quantum is not the longest one.
LEMMA CountsOfQuantum ==
    ASSUME NEW ms \in 1 .. 53
    PROVE  /\ Counts(ms) \in Nat /\ Counts(ms) % 2 = 0
           /\ Counts(ms) % 2^16 > 0
           /\ ms # 53 => Counts(ms) >= 20 /\ Counts(ms) < 2^16
  <1> DEFINE x == 1000 \div ms
             n == TIMER_DIV(x)
  <1>1. x \in Nat /\ x * ms <= 1000 /\ 1000 < x * ms + ms
    BY Quotient
  <1>2. x >= 18 /\ x <= 1000 /\ (ms # 53 => x >= 19)
    <2> HIDE DEF x
    <2>1. x < 18 => x * ms <= 17 * ms
      BY <1>1
    <2>2. x < 19 => x * ms <= 18 * ms
      BY <1>1
    <2>3. x <= x * ms
      BY <1>1
    <2>4. QED BY <1>1, <2>1, <2>2, <2>3
  <1>3. n = (1193182 + x \div 2) \div x
    BY DEF TIMER_DIV, TIMER_FREQ
  <1> HIDE DEF x, n
  <1>4. x \div 2 \in Nat /\ x \div 2 <= 500
    BY <1>1, <1>2
  <1> DEFINE a == 1193182 + x \div 2
  <1>5. a \in Nat /\ a >= 1193182 /\ a <= 1193682
    BY <1>4
  <1> HIDE DEF a
  <1>6. n \in Nat /\ n * x <= a /\ a < n * x + x
    <2>1. n = a \div x
      BY <1>3 DEF a
    <2>2. QED BY <1>1, <1>2, <1>5, <2>1, Quotient
  <1>7. n >= 1000
    <2>1. n < 1000 => n * x <= 999 * x
      BY <1>1, <1>6
    <2>2. QED BY <1>1, <1>2, <1>5, <1>6, <2>1
  <1>8. Counts(ms) = Even(n)
    BY DEF Counts, x, n
  <1>9. Even(n) \in Nat /\ Even(n) % 2 = 0 /\ n <= Even(n) /\ Even(n) <= n + 1
    BY <1>6, EvenShape
  <1>10. CASE x >= 19
    <2>1. n >= 65000 => n * x >= 65000 * x
      BY <1>1, <1>6
    <2>2. n < 65000
      BY <1>1, <1>5, <1>6, <1>10, <2>1
    <2>3. Even(n) >= 1000 /\ Even(n) <= 65000
      BY <1>6, <1>7, <1>9, <2>2
    <2>4. 2^16 = 65536
      OBVIOUS
    <2>5. Even(n) % 65536 > 0
      BY <1>9, <2>3
    <2>6. Counts(ms) % 2^16 > 0
      BY <1>8, <2>4, <2>5
    <2>7. Even(n) >= 20 /\ Even(n) < 65536
      BY <1>9, <2>3
    <2>8. Counts(ms) >= 20 /\ Counts(ms) < 2^16
      BY <1>8, <2>4, <2>7
    <2>9. Counts(ms) \in Nat /\ Counts(ms) % 2 = 0
      BY <1>8, <1>9
    <2>10. QED BY <2>6, <2>8, <2>9, Zenon
  <1>11. CASE x = 18
    <2>1. n = 66288
      BY <1>3, <1>11
    <2>2. ms = 53
      BY <1>2, <1>11
    <2>3. Even(n) >= 66288 /\ Even(n) <= 66289
      BY <1>9, <2>1
    <2>4. 2^16 = 65536
      OBVIOUS
    <2>5. Even(n) % 65536 > 0
      BY <1>9, <2>3
    <2>6. Counts(ms) % 2^16 > 0
      BY <1>8, <2>4, <2>5
    <2>7. Counts(ms) \in Nat /\ Counts(ms) % 2 = 0
      BY <1>8, <1>9
    <2>8. QED BY <2>2, <2>6, <2>7, Zenon
  <1>12. QED BY <1>1, <1>2, <1>10, <1>11

-----------------------------------------------------------------------------
(***************************************************************************)
(* A trap does to the environments what the module Scheduler says, or      *)
(* nothing.                                                                *)
(***************************************************************************)
\* Every step of the traps is one of the scheduler.
LEMMA TrapIsStep ==
    ASSUME [TrapsNext]_allVars
    PROVE  [Next]_vars
  <1>1. CASE UNCHANGED allVars
    BY <1>1 DEF allVars
  <1>2. CASE PromptRuns
    BY <1>2 DEF PromptRuns, Next, Prompt
  <1>3. CASE PromptChanges
    BY <1>3 DEF PromptChanges, Next, Prompt
  <1>4. CASE PromptSets
    BY <1>4 DEF PromptSets, Next, Prompt
  <1>5. CASE IRQ0_Clock
    BY <1>5 DEF IRQ0_Clock, Next
  <1>6. ASSUME NEW c, CallReturns(c) \/ CallPanics(c) \/ CallSetsIF(c)
        PROVE  [Next]_vars
    BY <1>6 DEF CallReturns, CallPanics, CallSetsIF, Exits, Next, User
  <1>7. ASSUME NEW c, CallCreates(c) \/ CallRuns(c)
        PROVE  [Next]_vars
    BY <1>7 DEF CallCreates, CallRuns, Next, User
  <1>8. ASSUME NEW c, CallFrees(c)
        PROVE  [Next]_vars
    BY <1>8 DEF CallFrees, Next, User
  <1>9. ASSUME NEW p, Exits \/ StoreFaults(p) \/ Uses
        PROVE  [Next]_vars
    BY <1>9 DEF Exits, StoreFaults, Uses, Next, User
  <1>10. QED
    BY <1>1, <1>2, <1>3, <1>4, <1>5, <1>6, <1>7, <1>8, <1>9 DEF TrapsNext, UserRuns

\* The system calls, faults and interrupts of Traps drive the environments as
\* Scheduler says: what is proved of Scheduler holds of them.
THEOREM TrapsSchedule == TrapsSpec => Spec
  <1>1. TrapsInit => Init
    BY DEF TrapsInit
  <1>2. [TrapsNext]_allVars => [Next]_vars
    BY TrapIsStep
  <1>3. QED BY <1>1, <1>2, PTL DEF TrapsSpec, Spec

-----------------------------------------------------------------------------
(***************************************************************************)
(* The kinds of steps, by who runs before and after.                       *)
(***************************************************************************)
\* The scheduler is called and chooses who runs.
Chooses(tfs, ready, cur) ==
    /\ \E status : fos_scheduler(ready, cur, status)
    /\ Scheduled(tfs, ready, cur)
    /\ machine = "up" /\ UNCHANGED <<quantum, machine>>
    /\ ready \in Seq(Slots)
    /\ \/ curenv = NULL /\ tfs = env_tf /\ cur = NULL
       \/ /\ curenv # NULL /\ tfs = trap
          /\ cur = NULL \/ (cur = curenv /\ ready = env_ready_queue)

\* The program that made the trap goes on.
GoesOn(tfs, left) ==
    /\ Resumed(tfs, kclock_stop(left))
    /\ left \in Nat
    /\ curenv # NULL /\ UNCHANGED <<curenv, quantum, machine>>
    /\ \A s \in Slots : s # curenv => tfs[s] = env_tf[s]
    /\ (\A s \in Slots : IsFrame(env_tf[s])) => \A s \in Slots : IsFrame(tfs[s])

\* The prompt stays at work.
StaysAtPrompt ==
    /\ curenv = NULL /\ UNCHANGED <<curenv, regs>>
    /\ env_tf' = [s \in Slots |-> env_tf'[s]]
    /\ \A s \in Slots : /\ env_id[s] # 0 /\ env_id'[s] # 0 => env_tf'[s] = env_tf[s]
                        /\ IsFrame(env_tf[s]) => IsFrame(env_tf'[s])
    /\ chk'.failed = chk.failed /\ (ChkShape(chk) => ChkShape(chk'))
    /\ \/ UNCHANGED <<timer, quantum>>
       \/ quantum' \in Nat /\ UNCHANGED timer /\ machine' = "down"
       \/ quantum' \in 1 .. 53 /\ timer' = kclock_set_quantum(quantum')
    /\ machine' \in {machine, "down"}

\* A program uses an answer.
GoesOnWithAnswer ==
    /\ curenv # NULL
    /\ regs' = [regs EXCEPT !.eip = "run", !.eax = 0]
    /\ UNCHANGED <<vars, env_tf, timer, quantum, chk>>

Kinds == \/ \E tfs, ready, cur : Chooses(tfs, ready, cur)
         \/ \E tfs, left : GoesOn(tfs, left)
         \/ StaysAtPrompt
         \/ GoesOnWithAnswer
         \/ UNCHANGED allVars

FrameTypes ==
    /\ IsFrame(NoFrame) /\ IsFrame(NewFrame)
    /\ env_tf = [s \in Slots |-> env_tf[s]]
    /\ \A s \in Slots : IsFrame(env_tf[s])
    /\ regs = [eip |-> regs.eip, eax |-> regs.eax, intr |-> regs.intr]
    /\ ChkShape(chk)

\* The current environment is an entry of envs[].
LEMMA CurrentSlot ==
    ASSUME SInv
    PROVE  curenv # NULL => curenv \in Slots
  BY DEF SInv, PlacedNow, Placement

\* The frames that a trap saves, with an answer or another place to go on.
LEMMA SavedFrames ==
    ASSUME FrameTypes, curenv \in Slots
    PROVE  /\ trap = [s \in Slots |-> trap[s]]
           /\ trap[curenv] = Saved(regs)
           /\ \A s \in Slots : s # curenv => trap[s] = env_tf[s]
           /\ \A s \in Slots : IsFrame(trap[s])
  <1>1. trap = [env_tf EXCEPT ![curenv] = Saved(regs)]
    BY DEF trap
  <1>2. DOMAIN env_tf = Slots /\ env_tf = [s \in Slots |-> env_tf[s]]
    BY DEF FrameTypes
  <1>3. /\ trap = [s \in Slots |-> trap[s]]
        /\ trap[curenv] = Saved(regs)
        /\ \A s \in Slots : s # curenv => trap[s] = env_tf[s]
    BY <1>1, <1>2
  <1>4. IsFrame(Saved(regs))
    BY DEF IsFrame, Saved
  <1>5. \A s \in Slots : IsFrame(trap[s])
    BY <1>3, <1>4 DEF FrameTypes
  <1>6. QED BY <1>3, <1>5

\* A system call that is answered, and a store that faults, change only the
\* frame of the caller.
LEMMA AnsweredFrames ==
    ASSUME FrameTypes, curenv \in Slots, NEW c, NEW ret
    PROVE  /\ \A s \in Slots : s # curenv => /\ Answered(c, ret)[s] = env_tf[s]
                                             /\ [trap EXCEPT ![curenv].eip = "skipped"][s]
                                                  = env_tf[s]
           /\ \A s \in Slots : /\ IsFrame(Answered(c, ret)[s])
                               /\ IsFrame([trap EXCEPT ![curenv].eip = "skipped"][s])
  <1>1. /\ trap = [s \in Slots |-> trap[s]]
        /\ \A s \in Slots : s # curenv => trap[s] = env_tf[s]
        /\ \A s \in Slots : IsFrame(trap[s])
    BY SavedFrames
  <1> DEFINE a == Answered(c, ret)
             b == [trap EXCEPT ![curenv].eip = "skipped"]
             f == [eip |-> c.no, eax |-> ret]
             g == [trap[curenv] EXCEPT !.eip = "skipped"]
  <1>2. /\ a[curenv] = f /\ b[curenv] = g
        /\ \A s \in Slots : s # curenv => a[s] = trap[s] /\ b[s] = trap[s]
    BY <1>1 DEF Answered
  <1>3. IsFrame(f)
    BY DEF IsFrame
  <1>4. IsFrame(g)
    <2> DEFINE x == trap[curenv]
    <2>1. x = [eip |-> x.eip, eax |-> x.eax]
      BY <1>1 DEF IsFrame
    <2> HIDE DEF x
    <2>2. [x EXCEPT !.eip = "skipped"] = [eip |-> "skipped", eax |-> x.eax]
      BY <2>1
    <2>3. QED BY <2>2 DEF IsFrame, x
  <1> HIDE DEF a, b, f, g
  <1>5. \A s \in Slots : s # curenv => a[s] = env_tf[s] /\ b[s] = env_tf[s]
    BY <1>1, <1>2
  <1>6. \A s \in Slots : IsFrame(a[s]) /\ IsFrame(b[s])
    BY <1>1, <1>2, <1>3, <1>4
  <1>7. QED BY <1>5, <1>6 DEF a, b

\* What the counter may have come to is a number.
LEMMA LeftIsNat == timer.count \in Nat => Left \subseteq Nat
  BY TrapsAssumption DEF Left

\* A system call to free or destroy the caller exits it; one for another
\* environment leaves it the current one.
LEMMA FreesWho ==
    ASSUME SInv, UniqueIds, Running, NEW id, id # 0, sys_free_env(id) \/ sys_env_destroy(id)
    PROVE  IF id = env_id[curenv] THEN ExitCurrent(env_status) /\ UNCHANGED machine
                                  ELSE UNCHANGED <<curenv, machine>>
  <1>1. sched_kill_env(id)
    <2>1. CASE sys_free_env(id)
      BY <2>1 DEF sys_free_env
    <2>2. CASE sys_env_destroy(id)
      <3>1. envid2env(id) # NULL /\ sched_kill_env(env_id[envid2env(id)])
        BY <2>2 DEF sys_env_destroy
      <3>2. env_id[envid2env(id)] = id
        BY <3>1 DEF envid2env
      <3>3. QED BY <3>1, <3>2
    <2>3. QED BY <2>1, <2>2
  <1>2. curenv # NULL /\ curenv \in Slots /\ ~KillUnknown(id)
    BY CurrentSlot DEF Running, KillUnknown
  <1>3. KillQueued(id) => UNCHANGED <<curenv, machine>> /\ id # env_id[curenv]
    <2> SUFFICES ASSUME KillQueued(id)
                 PROVE  UNCHANGED <<curenv, machine>> /\ id # env_id[curenv]
      OBVIOUS
    <2>1. OnePlace
      BY SInvOnePlace
    <2>2. PICK q \in {env_new_queue, env_ready_queue, env_exit_queue} : Find(q, id) # {}
      BY DEF KillQueued
    <2>3. PICK i \in DOMAIN q : env_id[q[i]] = id
      BY <2>2 DEF Find
    <2>4. q \in Seq(Slots)
      BY RingNow DEF SInv, PlacedNow, Placement, QueueTypes
    <2>5. q[i] \in Slots /\ q[i] \in ToSet(q)
      BY <2>3, <2>4, ElementsAreSlots DEF ToSet
    <2>6. curenv \notin ToSet(q)
      <3>1. /\ Queues[2] = env_new_queue /\ Queues[3] = env_ready_queue
            /\ Queues[4] = env_exit_queue
        BY DEF Queues
      <3>2. \A n \in 1 .. 4 : curenv \notin ToSet(Queues[n])
        BY <2>1 DEF OnePlace
      <3>3. QED BY <3>1, <3>2
    <2>7. id # env_id[curenv]
      BY <1>2, <2>3, <2>5, <2>6 DEF UniqueIds
    <2>8. QED BY <2>7 DEF KillQueued
  <1>4. KillCurrent(id) => /\ ExitCurrent(env_status) /\ UNCHANGED machine
                           /\ id = env_id[curenv]
    BY DEF KillCurrent
  <1>5. QED BY <1>1, <1>2, <1>3, <1>4 DEF sched_kill_env

\* A step in which fos_scheduler is called.
LEMMA ChoiceKind ==
    ASSUME NEW tfs, NEW ready \in Seq(Slots), NEW cur, NEW status,
           fos_scheduler(ready, cur, status), Scheduled(tfs, ready, cur),
           machine = "up", UNCHANGED <<quantum, machine>>,
           \/ curenv = NULL /\ tfs = env_tf /\ cur = NULL
           \/ /\ curenv # NULL /\ tfs = trap
              /\ cur = NULL \/ (cur = curenv /\ ready = env_ready_queue)
    PROVE  Kinds
  BY DEF Kinds, Chooses

\* Every step is of one of the kinds.
LEMMA TrapKinds ==
    ASSUME SInv, UniqueIds, FrameTypes, timer.count \in Nat,
           IdInv, [TrapsNext]_allVars
    PROVE  Kinds
  <1>1. /\ env_ready_queue \in Seq(Slots) /\ env_new_queue \in Seq(Slots)
        /\ curenv # NULL => curenv \in Slots
    BY CurrentSlot DEF SInv, PlacedNow, Placement, QueueTypes
  <1>2. Running => /\ curenv # NULL /\ curenv \in Slots
                   /\ \A s \in Slots : s # curenv => trap[s] = env_tf[s]
                   /\ \A s \in Slots : IsFrame(trap[s])
    BY <1>1, SavedFrames DEF Running
  <1>3. ASSUME NEW tfs, NEW left \in Nat, Running, curenv' = curenv,
               UNCHANGED <<quantum, machine>>, Resumed(tfs, kclock_stop(left)),
               \A s \in Slots : s # curenv => tfs[s] = env_tf[s],
               \A s \in Slots : IsFrame(tfs[s])
        PROVE  Kinds
    BY <1>2, <1>3 DEF Kinds, GoesOn
  <1>4. ASSUME ExitCurrent(env_status), Scheduled(trap, env_ready_queue, NULL),
               Running, UNCHANGED <<quantum, machine>>
        PROVE  Kinds
    BY <1>1, <1>2, <1>4, ChoiceKind DEF ExitCurrent, Running
  <1>5. CASE PromptRuns
    <2>1. machine = "up" /\ UNCHANGED <<quantum, machine>> /\ curenv = NULL
      BY <1>5 DEF PromptRuns, command_run_program, sched_run_all, AtPrompt
    <2>2. ASSUME NEW s \in Slots, command_run_program(s),
                 Scheduled(env_tf, Cons(s, env_ready_queue), NULL)
          PROVE  Kinds
      <3>1. Cons(s, env_ready_queue) \in Seq(Slots)
        BY <1>1 DEF Cons
      <3>2. QED BY <2>1, <2>2, <3>1, ChoiceKind DEF command_run_program
    <2>3. ASSUME sched_run_all,
                 Scheduled(env_tf, Reverse(env_new_queue) \o env_ready_queue, NULL)
          PROVE  Kinds
      <3>1. Reverse(env_new_queue) \in Seq(Slots)
        BY <1>1, ReverseShape
      <3>2. Reverse(env_new_queue) \o env_ready_queue \in Seq(Slots)
        BY <1>1, <3>1
      <3>3. QED BY <2>1, <2>3, <3>2, ChoiceKind DEF sched_run_all
    <2>4. QED BY <1>5, <2>2, <2>3 DEF PromptRuns
  <1>6. CASE PromptChanges
    <2>1. curenv = NULL /\ UNCHANGED <<regs, timer, quantum, chk>>
          /\ env_tf' = Frames(env_tf)
      BY <1>6 DEF PromptChanges, AtPrompt
    <2>2. UNCHANGED curenv /\ machine' \in {machine, "down"}
      BY <1>6, <2>1 DEF PromptChanges, sched_kill_all, command_kill_program,
                        sched_kill_env, KillQueued, KillCurrent, KillUnknown, CreateEnv
    <2>3. \A s \in Slots : /\ env_id[s] # 0 /\ env_id'[s] # 0 => env_tf'[s] = env_tf[s]
                           /\ IsFrame(env_tf[s]) => IsFrame(env_tf'[s])
      BY <2>1 DEF Frames, FrameTypes
    <2>4. env_tf' = [s \in Slots |-> env_tf'[s]]
      BY <2>1 DEF Frames
    <2>5. QED BY <2>1, <2>2, <2>3, <2>4 DEF Kinds, StaysAtPrompt
  <1>7. CASE PromptSets
    <2>1. /\ curenv = NULL /\ UNCHANGED <<regs, env_tf>>
          /\ env_tf' = [s \in Slots |-> env_tf'[s]]
      BY <1>7 DEF PromptSets, AtPrompt, FrameTypes
    <2>2. ASSUME NEW ms \in Quanta, command_sch_RR(ms), quantum' = ms % 256,
                 timer' = IF machine' = "up" THEN kclock_set_quantum(ms % 256) ELSE timer,
                 UNCHANGED chk
          PROVE  StaysAtPrompt
      <3>1. ms \in Nat /\ ms % 256 \in Nat
        BY TableAssumption
      <3>2. /\ curenv' = curenv
            /\ IF ms % 256 \in 1 .. QUANTUM_LIMIT - 1
               THEN UNCHANGED machine ELSE machine' = "down"
        BY <2>2 DEF command_sch_RR
      <3>3. machine = "up"
        BY <2>2 DEF command_sch_RR, AtPrompt
      <3>4. QUANTUM_LIMIT - 1 = 53
        BY QuantumLimit
      <3>5. \/ quantum' \in Nat /\ UNCHANGED timer /\ machine' = "down"
            \/ quantum' \in 1 .. 53 /\ timer' = kclock_set_quantum(quantum')
        BY <2>2, <3>1, <3>2, <3>3, <3>4
      <3>6. QED BY <2>1, <2>2, <3>2, <3>5 DEF StaysAtPrompt
    <2>3. ASSUME NEW onoff \in BOOLEAN, chk' = [chk EXCEPT !.status = onoff],
                 UNCHANGED <<vars, quantum, timer>>
          PROVE  StaysAtPrompt
      <3>1. chk'.failed = chk.failed /\ ChkShape(chk')
        BY <2>3 DEF FrameTypes, ChkShape
      <3>2. QED BY <2>1, <2>3, <3>1 DEF StaysAtPrompt, vars
    <2>4. QED BY <1>7, <2>2, <2>3 DEF PromptSets, Kinds
  <1>8. CASE IRQ0_Clock
    <2>1. /\ Running /\ fos_scheduler(env_ready_queue, curenv, env_status)
          /\ Scheduled(trap, env_ready_queue, curenv) /\ UNCHANGED <<quantum, machine>>
      BY <1>8 DEF IRQ0_Clock, clock_interrupt_handler
    <2>2. QED BY <1>1, <1>2, <2>1, ChoiceKind DEF Running
  <1>9. CASE Exits
    <2>1. /\ Running /\ ExitCurrent(env_status) /\ UNCHANGED <<quantum, machine>>
          /\ Scheduled(trap, env_ready_queue, NULL)
      BY <1>9 DEF Exits, env_exit
    <2>2. QED BY <1>4, <2>1
  <1>10. ASSUME NEW c, CallReturns(c) \/ CallSetsIF(c) \/ CallCreates(c) \/ CallRuns(c)
         PROVE  Kinds
    <2>1. Running /\ curenv \in Slots
      BY <1>2, <1>10 DEF CallReturns, CallSetsIF, CallCreates, CallRuns, AtCall, UserMode
    <2>2. /\ UNCHANGED <<curenv, quantum, machine>>
          /\ \E ret : \E left \in Nat : Resumed(Answered(c, ret), kclock_stop(left))
      <3>1. CASE CallReturns(c)
        BY <3>1, LeftIsNat DEF CallReturns, vars
      <3>2. CASE CallSetsIF(c)
        BY <3>2 DEF CallSetsIF, sys_disable_interrupt, sys_enable_interrupt
      <3>3. CASE CallCreates(c)
        BY <3>3 DEF CallCreates, CreateEnv, vars
      <3>4. CASE CallRuns(c)
        BY <3>4 DEF CallRuns, sys_run_env, vars
      <3>5. QED BY <1>10, <3>1, <3>2, <3>3, <3>4
    <2>3. QED BY <1>3, <2>1, <2>2, AnsweredFrames
  <1>11. ASSUME NEW c, CallFrees(c)
         PROVE  Kinds
    <2>1. Running /\ curenv \in Slots /\ UNCHANGED quantum
      BY <1>2, <1>11 DEF CallFrees, AtCall, UserMode
    <2>2. PICK id \in Ids :
            LET known == \E s \in Slots : env_id[s] = id /\ id # 0
            IN  /\ id # 0
                /\ IF ~known THEN UNCHANGED vars
                   ELSE sys_free_env(id) \/ sys_env_destroy(id)
                /\ IF known /\ id = env_id[curenv]
                   THEN Scheduled(trap, env_ready_queue, NULL)
                   ELSE \E ret : Resumed(Answered(c, ret), kclock_stop(timer.count))
      BY <1>11 DEF CallFrees
    <2> DEFINE known == \E s \in Slots : env_id[s] = id /\ id # 0
    <2>3. CASE known /\ id = env_id[curenv]
      <3>1. ExitCurrent(env_status) /\ UNCHANGED machine
        BY <2>1, <2>2, <2>3, FreesWho
      <3>2. QED BY <1>4, <2>1, <2>2, <2>3, <3>1
    <2>4. CASE ~(known /\ id = env_id[curenv])
      <3>1. UNCHANGED <<curenv, machine>>
        <4>1. CASE ~known
          BY <2>2, <4>1 DEF vars
        <4>2. CASE known
          BY <2>1, <2>2, <2>4, <4>2, FreesWho
        <4>3. QED BY <4>1, <4>2
      <3>2. \E ret : Resumed(Answered(c, ret), kclock_stop(timer.count))
        BY <2>2, <2>4
      <3>3. QED BY <1>3, <2>1, <3>1, <3>2, AnsweredFrames
    <2>5. QED BY <2>3, <2>4
  <1>12. ASSUME NEW p, StoreFaults(p)
         PROVE  Kinds
    <2>1. /\ Running /\ curenv \in Slots
          /\ UNCHANGED <<curenv, quantum, machine>>
          /\ \E left \in Nat, tfs \in {[trap EXCEPT ![curenv].eip = "skipped"], trap} :
               Resumed(tfs, kclock_stop(left))
      BY <1>2, <1>12, LeftIsNat DEF StoreFaults, UserMode, vars
    <2>2. QED BY <1>2, <1>3, <2>1, AnsweredFrames
  <1>13. CASE Uses
    BY <1>13 DEF Uses, UserMode, Running, Kinds, GoesOnWithAnswer
  <1>14. CASE UNCHANGED allVars
    BY <1>14 DEF Kinds
  <1>15. QED
    BY <1>5, <1>6, <1>7, <1>8, <1>9, <1>10, <1>11, <1>12, <1>13, <1>14
       DEF TrapsNext, UserRuns, CallPanics

-----------------------------------------------------------------------------
(***************************************************************************)
(* Turns are fair: the invariant of the traps has that of the scheduler,   *)
(* the shapes of the frames, a number in the counter and a quantum that    *)
(* schedRR takes, while the machine is up.                                 *)
(***************************************************************************)
QuantumSet == machine = "up" => quantum \in 1 .. 53

EnvsInv == SInv /\ IdInv /\ FieldTypes

TInv == /\ EnvsInv
        /\ FrameTypes
        /\ timer.count \in Nat
        /\ QuantumSet
        /\ TurnsAreFair

\* The frames of entries that are not in use and of new environments.
LEMMA FixedFrames == IsFrame(NoFrame) /\ IsFrame(NewFrame)
  BY DEF IsFrame, NoFrame, NewFrame

\* Traps start with no frames, at the prompt, with the quantum of 10 ms.
LEMMA InitTInv == TrapsInit => TInv
  <1> SUFFICES ASSUME TrapsInit PROVE TInv
    OBVIOUS
  <1>1. Init
    BY DEF TrapsInit
  <1>2. EnvsInv
    BY <1>1, InitSInv, InitIds DEF EnvsInv
  <1>3. /\ env_tf = [s \in Slots |-> NoFrame]
        /\ regs = [eip |-> NoFrame.eip, eax |-> NoFrame.eax, intr |-> FALSE]
        /\ chk = [status |-> FALSE, failed |-> FALSE]
        /\ quantum = 10 /\ timer = [count |-> Counts(10) % 2^16, masked |-> TRUE]
    BY DEF TrapsInit, Popped, kclock_set_quantum
  <1>4. FrameTypes
    BY <1>3, FixedFrames DEF FrameTypes, ChkShape
  <1>5. timer.count \in Nat
    <2>1. Counts(10) \in Nat
      BY CountsOfQuantum
    <2>2. 2^16 = 65536
      OBVIOUS
    <2>3. Counts(10) % 65536 \in Nat
      BY <2>1
    <2>4. QED BY <1>3, <2>2, <2>3
  <1>6. QuantumSet
    BY <1>3 DEF QuantumSet
  <1>7. curenv = NULL
    BY <1>1 DEF Init
  <1>8. TurnsAreFair
    BY <1>3, <1>7 DEF TurnsAreFair, InterruptsAsAsked, SchedulerPassesChecks, Running
  <1>9. QED BY <1>2, <1>4, <1>5, <1>6, <1>8 DEF TInv

\* The counter that is resumed has at least 20 counts, and an even number.
LEMMA ResumedTimer ==
    ASSUME NEW n \in Nat, NEW m
    PROVE  LET t == kclock_resume([count |-> n, masked |-> m])
           IN  /\ t.count \in Nat /\ t.count >= 20 /\ t.count % 2 = 0
               /\ ~t.masked
               /\ n >= 20 /\ n % 2 = 0 => t.count = n
  <1> DEFINE k == IF n < 20 THEN 20 ELSE n
             t == kclock_resume([count |-> n, masked |-> m])
  <1>1. k \in Nat /\ k >= 20 /\ (n >= 20 => k = n)
    OBVIOUS
  <1>2. t.count = Even(k) /\ t.masked = FALSE
    BY DEF kclock_resume
  <1> HIDE DEF k, t
  <1>3. Even(k) \in Nat /\ Even(k) % 2 = 0 /\ k <= Even(k)
    BY <1>1, EvenShape
  <1>4. k % 2 = 0 => Even(k) = k
    BY <1>1 DEF Even
  <1>5. t.count \in Nat /\ t.count >= 20 /\ t.count % 2 = 0
    BY <1>1, <1>2, <1>3
  <1>6. n >= 20 /\ n % 2 = 0 => t.count = n
    BY <1>1, <1>2, <1>4
  <1>7. ~t.masked
    BY <1>2
  <1>8. QED BY <1>5, <1>6, <1>7 DEF t

\* What the environment that runs next finds when its frame is popped.
LEMMA PoppedFrames ==
    ASSUME NEW tfs, \A s \in Slots : IsFrame(tfs[s]),
           curenv' \in Slots \cup {NULL},
           env_tf' = Frames(tfs), env_pop_tf(Frames(tfs))
    PROVE  /\ env_tf' = [s \in Slots |-> env_tf'[s]]
           /\ \A s \in Slots : IsFrame(env_tf'[s])
           /\ \A s \in Slots : env_id[s] # 0 /\ env_id'[s] # 0 => env_tf'[s] = tfs[s]
           /\ regs' = [eip |-> regs'.eip, eax |-> regs'.eax, intr |-> regs'.intr]
           /\ curenv' # NULL => /\ Saved(regs') = env_tf'[curenv']
                                /\ regs'.intr <=> curenv' \in interruptible'
  <1> DEFINE f == Frames(tfs)
  <1>1. /\ f = [s \in Slots |-> f[s]]
        /\ \A s \in Slots : f[s] \in {NoFrame, NewFrame, tfs[s]}
        /\ \A s \in Slots : env_id[s] # 0 /\ env_id'[s] # 0 => f[s] = tfs[s]
    BY DEF Frames
  <1>2. \A s \in Slots : IsFrame(f[s])
    BY <1>1, FixedFrames
  <1>3. regs' = IF curenv' = NULL THEN Popped(NoFrame, FALSE)
                ELSE Popped(f[curenv'], curenv' \in interruptible')
    BY DEF env_pop_tf
  <1>4. env_tf' = f
    OBVIOUS
  <1> HIDE DEF f
  <1>5. regs' = [eip |-> regs'.eip, eax |-> regs'.eax, intr |-> regs'.intr]
    BY <1>3 DEF Popped
  <1>6. ASSUME curenv' # NULL
        PROVE  /\ Saved(regs') = f[curenv']
               /\ regs'.intr <=> curenv' \in interruptible'
    <2>1. regs' = [eip |-> f[curenv'].eip, eax |-> f[curenv'].eax,
                   intr |-> (curenv' \in interruptible')]
      BY <1>3, <1>6 DEF Popped
    <2>2. regs'.eip = f[curenv'].eip /\ regs'.eax = f[curenv'].eax
      BY <2>1
    <2>3. regs'.intr = (curenv' \in interruptible')
      BY <2>1
    <2>4. f[curenv'] = [eip |-> f[curenv'].eip, eax |-> f[curenv'].eax]
      BY <1>2, <1>6 DEF IsFrame
    <2>5. Saved(regs') = f[curenv']
      BY <2>2, <2>4 DEF Saved
    <2>6. QED BY <2>3, <2>5
  <1>7. QED BY <1>1, <1>2, <1>4, <1>5, <1>6

\* The counter that a turn starts with.
LEMMA QuantumTimer ==
    ASSUME quantum \in 1 .. 53
    PROVE  LET set == kclock_set_quantum(quantum)
               t == kclock_resume(set)
           IN  /\ set.count = Counts(quantum) % 2^16 /\ set.count \in Nat
               /\ set.count > 0
               /\ t.count \in Nat /\ t.count >= 20 /\ t.count % 2 = 0 /\ ~t.masked
               /\ quantum # 53 => t.count = Counts(quantum)
  <1> DEFINE c == Counts(quantum)
             n == c % 2^16
             set == kclock_set_quantum(quantum)
             t == kclock_resume(set)
  <1>1. /\ c \in Nat /\ c % 2 = 0 /\ c % 2^16 > 0
        /\ quantum # 53 => c >= 20 /\ c < 2^16
    BY CountsOfQuantum
  <1>2. 2^16 = 65536
    OBVIOUS
  <1>3. set = [count |-> n, masked |-> TRUE]
    BY DEF kclock_set_quantum
  <1> HIDE DEF c, set, t
  <1>4. n \in Nat /\ n > 0 /\ (quantum # 53 => n = c)
    BY <1>1, <1>2
  <1> HIDE DEF n
  <1>5. set.count = n
    BY <1>3
  <1>6. /\ t.count \in Nat /\ t.count >= 20 /\ t.count % 2 = 0 /\ ~t.masked
        /\ n >= 20 /\ n % 2 = 0 => t.count = n
    BY <1>3, <1>4, ResumedTimer DEF t
  <1>7. quantum # 53 => t.count = c
    BY <1>1, <1>4, <1>6
  <1>8. set.count = Counts(quantum) % 2^16 /\ set.count \in Nat /\ set.count > 0
    BY <1>4, <1>5 DEF n, c
  <1>9. QED BY <1>6, <1>7, <1>8 DEF set, t, c

\* The scheduler's choice passes its own checks.
LEMMA ChoicePassesChecks ==
    ASSUME NEW ready \in Seq(Slots), NEW cur \in Slots \cup {NULL}, NEW status,
           fos_scheduler(ready, cur, status),
           quantum \in 1 .. 53,
           curenv' \notin ToSet(env_ready_queue')
    PROVE  chk2(ready, cur)
  <1> DEFINE queue == IF cur = NULL THEN ready ELSE Cons(cur, ready)
  <1>1. cur \in Slots => /\ Cons(cur, ready) \in Seq(Slots)
                         /\ Len(Cons(cur, ready)) = Len(ready) + 1
                         /\ Cons(cur, ready)[1] = cur
                         /\ \A i \in 1 .. Len(ready) : Cons(cur, ready)[i + 1] = ready[i]
                         /\ ToSet(Cons(cur, ready)) = {cur} \cup ToSet(ready)
    <2> SUFFICES ASSUME cur \in Slots
                 PROVE  /\ Cons(cur, ready) \in Seq(Slots)
                        /\ Len(Cons(cur, ready)) = Len(ready) + 1
                        /\ Cons(cur, ready)[1] = cur
                        /\ \A i \in 1 .. Len(ready) : Cons(cur, ready)[i + 1] = ready[i]
                        /\ ToSet(Cons(cur, ready)) = {cur} \cup ToSet(ready)
      OBVIOUS
    <2>1. ToSet(Cons(cur, ready)) = {cur} \cup ToSet(ready)
      BY ConsElements
    <2>2. QED BY <2>1, ConsShape
  <1>2. IF queue = << >>
        THEN curenv' = NULL /\ env_ready_queue' = << >>
        ELSE curenv' = Last(queue) /\ env_ready_queue' = Front(queue)
    BY DEF fos_scheduler, env_run
  <1>3. curenv' = schenv(ready, cur)
    <2>1. Len(ready) \in Nat
      OBVIOUS
    <2>2. CASE cur = NULL
      BY <1>2, <2>2 DEF schenv
    <2>3. CASE cur # NULL
      <3>1. queue = Cons(cur, ready) /\ Len(queue) = Len(ready) + 1 /\ queue \in Seq(Slots)
        BY <1>1, <2>3
      <3>2. queue # << >>
        BY <2>1, <3>1
      <3>3. curenv' = Cons(cur, ready)[Len(ready) + 1]
        BY <1>2, <3>1, <3>2 DEF Last
      <3>4. CASE ready = << >>
        BY <1>1, <2>3, <3>3, <3>4 DEF schenv
      <3>5. CASE ready # << >>
        <4>1. Len(ready) \in 1 .. Len(ready)
          BY <2>1, <3>5
        <4>2. curenv' = ready[Len(ready)]
          BY <1>1, <2>3, <3>3, <4>1
        <4>3. QED BY <3>5, <4>2 DEF schenv, Last
      <3>6. QED BY <3>4, <3>5
    <2>4. QED BY <2>2, <2>3
  <1>4. LET upper == Counts(quantum) % 2^16
            current == kclock_set_quantum(quantum).count
        IN  (90 * upper) \div 100 < current /\ current <= upper
    <2> DEFINE current == kclock_set_quantum(quantum).count
               upper == Counts(quantum) % 2^16
    <2>1. current = upper /\ current \in Nat /\ current > 0
      BY QuantumTimer
    <2> HIDE DEF current, upper
    <2>2. upper \in Nat /\ upper > 0
      BY <2>1
    <2>3. (90 * upper) \div 100 < upper
      BY <2>2
    <2>4. (90 * upper) \div 100 < current /\ current <= upper
      BY <2>1, <2>2, <2>3
    <2>5. QED BY <2>4 DEF current, upper
  <1>5. cur \notin {NULL, curenv'} => cur \in ToSet(env_ready_queue')
    <2> SUFFICES ASSUME cur # NULL, cur # curenv' PROVE cur \in ToSet(env_ready_queue')
      OBVIOUS
    <2>1. queue = Cons(cur, ready) /\ queue \in Seq(Slots) /\ cur \in ToSet(queue)
      BY <1>1
    <2>2. queue # << >>
      BY <1>1
    <2>3. ToSet(queue) = ToSet(Front(queue)) \cup {Last(queue)}
      BY <2>1, <2>2, FrontElements
    <2>4. QED BY <1>2, <2>1, <2>2, <2>3
  <1>6. QED BY <1>3, <1>4, <1>5 DEF chk2

\* A step that calls the scheduler keeps the invariant.
LEMMA ChooseTInv ==
    ASSUME TInv, EnvsInv', NEW tfs, NEW ready, NEW cur, Chooses(tfs, ready, cur)
    PROVE  TInv'
  <1> DEFINE set == kclock_set_quantum(quantum)
             failed == chk.failed \/ (chk.status /\ ~chk2(ready, cur))
  <1>1. /\ quantum' = quantum /\ machine' = machine /\ machine = "up"
        /\ ready \in Seq(Slots)
        /\ \/ curenv = NULL /\ tfs = env_tf /\ cur = NULL
           \/ curenv # NULL /\ tfs = trap /\ (cur = NULL \/ cur = curenv)
    BY DEF Chooses
  <1>2. /\ SInv /\ FrameTypes /\ quantum \in 1 .. 53
    BY <1>1 DEF TInv, EnvsInv, QuantumSet
  <1>3. ~chk.failed
    BY Zenon DEF TInv, TurnsAreFair, SchedulerPassesChecks
  <1>4. /\ chk' = [chk EXCEPT !.failed = failed]
        /\ timer' = IF curenv' = NULL THEN set ELSE kclock_resume(set)
        /\ env_tf' = Frames(tfs)
        /\ env_pop_tf(Frames(tfs))
    BY DEF Chooses, Scheduled
  <1>5. PICK status : fos_scheduler(ready, cur, status)
    BY DEF Chooses
  <1>6. curenv' \in Slots \cup {NULL} /\ curenv' \notin ToSet(env_ready_queue')
    BY DEF EnvsInv, SInv, PlacedNow, Placement, StatusTells
  <1>7. \A s \in Slots : IsFrame(tfs[s])
    BY <1>1, <1>2, CurrentSlot, SavedFrames DEF FrameTypes
  <1>8. /\ env_tf' = [s \in Slots |-> env_tf'[s]]
        /\ \A s \in Slots : IsFrame(env_tf'[s])
        /\ regs' = [eip |-> regs'.eip, eax |-> regs'.eax, intr |-> regs'.intr]
        /\ curenv' # NULL => (regs'.intr <=> curenv' \in interruptible')
    BY <1>4, <1>6, <1>7, PoppedFrames
  <1>9. chk2(ready, cur)
    <2>1. cur \in Slots \cup {NULL}
      BY <1>1, <1>2, CurrentSlot
    <2>2. QED BY <1>1, <1>2, <1>5, <1>6, <2>1, ChoicePassesChecks
  <1>10. ~failed
    BY <1>3, <1>9, Zenon
  <1>11. chk = [status |-> chk.status, failed |-> chk.failed]
    BY <1>2 DEF FrameTypes, ChkShape
  <1> HIDE DEF failed
  <1>12. chk' = [status |-> chk.status, failed |-> failed]
    BY <1>4, <1>11
  <1>13. ~chk'.failed /\ ChkShape(chk)'
    <2>1. chk'.status = chk.status /\ chk'.failed = failed
      BY <1>12
    <2>2. chk' = [status |-> chk'.status, failed |-> chk'.failed]
      BY <1>12, <2>1, Zenon
    <2>3. ~chk'.failed
      BY <1>10, <2>1, Zenon
    <2>4. QED BY <2>2, <2>3 DEF ChkShape
  <1>14. FrameTypes'
    BY <1>8, <1>13, FixedFrames DEF FrameTypes
  <1>15. LET t == kclock_resume(set)
         IN  /\ set.count \in Nat
             /\ t.count \in Nat /\ t.count >= 20 /\ t.count % 2 = 0 /\ ~t.masked
    BY <1>2, QuantumTimer
  <1>16. timer'.count \in Nat
    <2>1. timer'.count = IF curenv' = NULL THEN set.count ELSE kclock_resume(set).count
      BY <1>4
    <2>2. QED BY <1>15, <2>1
  <1>17. QuantumSet'
    BY <1>1, <1>2 DEF QuantumSet
  <1>18. InterruptsAsAsked'
    <2> SUFFICES ASSUME Running'
                 PROVE  /\ regs'.intr <=> curenv' \in interruptible'
                        /\ ~timer'.masked
                        /\ timer'.count >= 20 /\ timer'.count % 2 = 0
      BY DEF InterruptsAsAsked
    <2>1. curenv' # NULL
      BY DEF Running
    <2>2. timer' = kclock_resume(set)
      BY <1>4, <2>1
    <2>3. ~timer'.masked /\ timer'.count >= 20 /\ timer'.count % 2 = 0
      BY <1>15, <2>2
    <2>4. QED BY <1>8, <2>1, <2>3
  <1>19. TurnsAreFair'
    BY <1>13, <1>18, Zenon DEF TurnsAreFair, SchedulerPassesChecks
  <1>20. QED BY <1>14, <1>16, <1>17, <1>19 DEF TInv

\* A trap after which the same program goes on keeps the invariant.
LEMMA GoOnTInv ==
    ASSUME TInv, EnvsInv', NEW tfs, NEW left, GoesOn(tfs, left)
    PROVE  TInv'
  <1> DEFINE t == kclock_resume(kclock_stop(left))
  <1>1. /\ left \in Nat /\ curenv # NULL
        /\ UNCHANGED <<curenv, quantum, machine>>
        /\ timer' = t /\ env_tf' = Frames(tfs) /\ env_pop_tf(Frames(tfs))
        /\ chk' = chk
    BY DEF GoesOn, Resumed
  <1>2. SInv /\ FrameTypes
    BY DEF TInv, EnvsInv
  <1>3. \A s \in Slots : IsFrame(tfs[s])
    BY <1>2 DEF GoesOn, FrameTypes
  <1>4. curenv' \in Slots
    BY <1>1, <1>2, CurrentSlot
  <1>5. /\ env_tf' = [s \in Slots |-> env_tf'[s]]
        /\ \A s \in Slots : IsFrame(env_tf'[s])
        /\ regs' = [eip |-> regs'.eip, eax |-> regs'.eax, intr |-> regs'.intr]
        /\ curenv' # NULL => (regs'.intr <=> curenv' \in interruptible')
    BY <1>1, <1>3, <1>4, PoppedFrames
  <1>6. FrameTypes'
    BY <1>1, <1>2, <1>5 DEF FrameTypes
  <1>7. t.count \in Nat /\ t.count >= 20 /\ t.count % 2 = 0 /\ ~t.masked
    BY <1>1, ResumedTimer DEF kclock_stop
  <1> HIDE DEF t
  <1>8. QuantumSet'
    BY <1>1 DEF TInv, QuantumSet
  <1>9. InterruptsAsAsked'
    BY <1>1, <1>5, <1>7 DEF InterruptsAsAsked
  <1>10. SchedulerPassesChecks'
    BY <1>1 DEF TInv, TurnsAreFair, SchedulerPassesChecks
  <1>11. TurnsAreFair'
    BY <1>9, <1>10, Zenon DEF TurnsAreFair
  <1>12. timer'.count \in Nat
    BY <1>1, <1>7
  <1>13. QED BY <1>6, <1>8, <1>11, <1>12 DEF TInv

\* A command of the prompt that runs no program keeps the invariant.
LEMMA PromptTInv ==
    ASSUME TInv, EnvsInv', StaysAtPrompt
    PROVE  TInv'
  <1>1. /\ curenv = NULL /\ curenv' = NULL /\ regs' = regs
        /\ \A s \in Slots : IsFrame(env_tf[s]) => IsFrame(env_tf'[s])
        /\ machine' \in {machine, "down"}
    BY DEF StaysAtPrompt
  <1>2. FrameTypes'
    <2>1. ChkShape(chk)'
      BY DEF StaysAtPrompt, TInv, FrameTypes
    <2>2. env_tf' = [s \in Slots |-> env_tf'[s]]
      BY DEF StaysAtPrompt
    <2>3. \A s \in Slots : IsFrame(env_tf'[s])
      BY <1>1 DEF TInv, FrameTypes
    <2>4. regs' = [eip |-> regs'.eip, eax |-> regs'.eax, intr |-> regs'.intr]
      BY <1>1 DEF TInv, FrameTypes
    <2>5. QED BY <2>1, <2>2, <2>3, <2>4, FixedFrames DEF FrameTypes
  <1>3. QuantumSet' /\ timer'.count \in Nat
    <2>1. CASE UNCHANGED <<timer, quantum>>
      BY <1>1, <2>1 DEF TInv, QuantumSet
    <2>2. CASE UNCHANGED timer /\ machine' = "down"
      BY <2>2 DEF TInv, QuantumSet
    <2>3. CASE quantum' \in 1 .. 53 /\ timer' = kclock_set_quantum(quantum')
      <3>1. Counts(quantum') \in Nat
        BY <2>3, CountsOfQuantum
      <3>2. 2^16 = 65536
        OBVIOUS
      <3>3. timer'.count = Counts(quantum') % 2^16
        BY <2>3 DEF kclock_set_quantum
      <3>4. timer'.count \in Nat
        BY <3>1, <3>2, <3>3
      <3>5. QED BY <2>3, <3>4 DEF QuantumSet
    <2>4. QED BY <2>1, <2>2, <2>3 DEF StaysAtPrompt
  <1>4. TurnsAreFair'
    <2>1. ~Running'
      BY <1>1 DEF Running
    <2>2. chk'.failed = chk.failed /\ ~chk.failed
      BY Zenon DEF StaysAtPrompt, TInv, TurnsAreFair, SchedulerPassesChecks
    <2>3. ~chk'.failed
      BY <2>2, Zenon
    <2>4. QED BY <2>1, <2>3, Zenon DEF TurnsAreFair, InterruptsAsAsked, SchedulerPassesChecks
  <1>5. QED BY <1>2, <1>3, <1>4 DEF TInv

\* A program that uses an answer keeps the invariant.
LEMMA AnswerTInv ==
    ASSUME TInv, EnvsInv', GoesOnWithAnswer
    PROVE  TInv'
  <1>1. /\ regs' = [regs EXCEPT !.eip = "run", !.eax = 0]
        /\ UNCHANGED <<curenv, machine, interruptible, env_tf, timer, quantum, chk>>
    BY DEF GoesOnWithAnswer, vars
  <1>2. regs = [eip |-> regs.eip, eax |-> regs.eax, intr |-> regs.intr]
    BY DEF TInv, FrameTypes
  <1>3. regs' = [eip |-> "run", eax |-> 0, intr |-> regs.intr]
    BY <1>1, <1>2
  <1>4. FrameTypes'
    BY <1>1, <1>3 DEF TInv, FrameTypes
  <1>5. QuantumSet' /\ timer'.count \in Nat
    BY <1>1 DEF TInv, QuantumSet
  <1>6. regs'.intr = regs.intr
    BY <1>3
  <1>7. InterruptsAsAsked'
    BY <1>1, <1>6, Zenon DEF TInv, TurnsAreFair, InterruptsAsAsked, Running
  <1>8. SchedulerPassesChecks'
    BY <1>1 DEF TInv, TurnsAreFair, SchedulerPassesChecks
  <1>9. TurnsAreFair'
    BY <1>7, <1>8, Zenon DEF TurnsAreFair
  <1>10. QED BY <1>4, <1>5, <1>9 DEF TInv

\* A step that changes nothing keeps the invariant.
LEMMA StutterTInv ==
    ASSUME TInv, EnvsInv', UNCHANGED allVars
    PROVE  TInv'
  <1>1. UNCHANGED <<curenv, machine, interruptible, regs, env_tf, timer, quantum, chk>>
    BY DEF allVars, vars, trapVars
  <1>2. FrameTypes' /\ QuantumSet' /\ timer'.count \in Nat
    BY <1>1 DEF TInv, FrameTypes, QuantumSet
  <1>3. InterruptsAsAsked'
    BY <1>1, Zenon DEF TInv, TurnsAreFair, InterruptsAsAsked, Running
  <1>4. SchedulerPassesChecks'
    BY <1>1 DEF TInv, TurnsAreFair, SchedulerPassesChecks
  <1>5. TurnsAreFair'
    BY <1>3, <1>4, Zenon DEF TurnsAreFair
  <1>6. QED BY <1>2, <1>5 DEF TInv

\* The environments keep their invariant in every step of the traps.
LEMMA NextEnvsInv ==
    ASSUME EnvsInv, [TrapsNext]_allVars
    PROVE  EnvsInv'
  <1>1. [Next]_vars
    BY TrapIsStep
  <1>2. SInv' /\ IdInv' /\ FieldTypes'
    BY <1>1, NextSInv, NextIds, NextFields DEF EnvsInv
  <1>3. QED BY <1>2 DEF EnvsInv

\* Every step is of a kind, under the invariant.
LEMMA TInvKinds ==
    ASSUME TInv, [TrapsNext]_allVars
    PROVE  Kinds
  <1>1. SInv /\ IdInv /\ FieldTypes /\ FrameTypes /\ timer.count \in Nat
    BY DEF TInv, EnvsInv
  <1>2. UniqueIds
    BY <1>1, IdFacts
  <1>3. QED BY <1>1, <1>2, TrapKinds

\* TInv is inductive.
LEMMA NextTInv ==
    ASSUME TInv, [TrapsNext]_allVars
    PROVE  TInv'
  <1>1. EnvsInv'
    BY NextEnvsInv DEF TInv
  <1>2. Kinds
    BY TInvKinds
  <1>3. ASSUME NEW tfs, NEW ready, NEW cur, Chooses(tfs, ready, cur)
        PROVE  TInv'
    BY <1>1, <1>3, ChooseTInv
  <1>4. ASSUME NEW tfs, NEW left, GoesOn(tfs, left)
        PROVE  TInv'
    BY <1>1, <1>4, GoOnTInv
  <1>5. QED
    BY <1>1, <1>2, <1>3, <1>4, PromptTInv, AnswerTInv, StutterTInv DEF Kinds

\* While a program runs, the timer interrupt is not masked and FL_IF is as it
\* asked last; the scheduler takes the environment that waits longest, with a
\* full quantum, and puts the one before into the ready queue.
THEOREM TurnsAreFairCorrect == TrapsSpec => []TurnsAreFair
  <1>1. TInv => TurnsAreFair
    BY DEF TInv
  <1>2. QED BY InitTInv, NextTInv, <1>1, PTL DEF TrapsSpec

-----------------------------------------------------------------------------
(***************************************************************************)
(* Between two turns of a program its registers are kept, and its turn has *)
(* all the counts of a quantum, unless the quantum is the longest one.     *)
(***************************************************************************)
\* No operator gives the quantum whose counts do not fit counter 0.
NotTheLongest == \A ms \in Quanta : ms % 256 # 53

\* Only schedRR changes the quantum.
LEMMA NextQuantum ==
    ASSUME NotTheLongest, quantum # 53, [TrapsNext]_allVars
    PROVE  quantum' # 53
  <1>1. quantum' = quantum \/ \E ms \in Quanta : quantum' = ms % 256
    BY DEF TrapsNext, PromptRuns, PromptChanges, PromptSets, IRQ0_Clock, UserRuns,
           CallReturns, CallPanics, CallSetsIF, CallCreates, CallRuns, CallFrees,
           Exits, StoreFaults, Uses, allVars, trapVars
  <1>2. QED BY <1>1 DEF NotTheLongest

\* A step that calls the scheduler gives the program that it chooses its own
\* registers and a full quantum.
LEMMA ChooseKeeps ==
    ASSUME TInv, TInv', quantum # 53,
           NEW tfs, NEW ready, NEW cur, Chooses(tfs, ready, cur)
    PROVE  KeepsRegisters /\ FullQuantum
  <1> DEFINE set == kclock_set_quantum(quantum)
  <1>1. /\ quantum \in 1 .. 53
        /\ \/ curenv = NULL /\ tfs = env_tf
           \/ curenv # NULL /\ tfs = trap
    BY DEF Chooses, TInv, QuantumSet
  <1>2. /\ timer' = IF curenv' = NULL THEN set ELSE kclock_resume(set)
        /\ env_tf' = Frames(tfs) /\ env_pop_tf(Frames(tfs))
    BY DEF Chooses, Scheduled
  <1>3. SInv /\ FrameTypes /\ curenv' \in Slots \cup {NULL} /\ NULL \notin Slots
    <2>1. curenv' \in Slots \cup {NULL}
      BY DEF TInv, EnvsInv, SInv, PlacedNow, Placement
    <2>2. NULL \notin Slots
      BY TableAssumption DEF Slots
    <2>3. QED BY <2>1, <2>2 DEF TInv, EnvsInv
  <1>4. FullQuantum
    <2> SUFFICES ASSUME curenv' # NULL PROVE timer'.count = Counts(quantum)
      BY DEF FullQuantum
    <2>1. kclock_resume(set).count = Counts(quantum)
      BY <1>1, QuantumTimer
    <2>2. QED BY <1>2, <2>1
  <1>5. /\ \A s \in Slots : IsFrame(tfs[s])
        /\ \A s \in Slots : tfs[s] = Registers(s)
    <2>1. CASE curenv = NULL /\ tfs = env_tf
      BY <1>3, <2>1 DEF FrameTypes, Registers
    <2>2. CASE curenv # NULL /\ tfs = trap
      <3>1. curenv \in Slots
        BY <1>3, <2>2, CurrentSlot
      <3>2. QED BY <1>3, <2>2, <3>1, SavedFrames DEF Registers
    <2>3. QED BY <1>1, <2>1, <2>2
  <1>6. /\ \A s \in Slots : env_id[s] # 0 /\ env_id'[s] # 0 => env_tf'[s] = tfs[s]
        /\ curenv' # NULL => Saved(regs') = env_tf'[curenv']
    BY <1>2, <1>3, <1>5, PoppedFrames
  <1>7. KeepsRegisters
    <2> SUFFICES ASSUME NEW s \in Slots, env_id[s] # 0, env_id'[s] = env_id[s]
                 PROVE  Registers(s)' = Registers(s)
      BY DEF KeepsRegisters
    <2>1. env_tf'[s] = Registers(s)
      BY <1>5, <1>6
    <2>2. Registers(s)' = IF s = curenv' THEN Saved(regs') ELSE env_tf'[s]
      BY DEF Registers, Saved
    <2>3. s = curenv' => Saved(regs') = env_tf'[s]
      BY <1>3, <1>6
    <2>4. QED BY <2>1, <2>2, <2>3
  <1>8. QED BY <1>4, <1>7

\* A step after which the same program or the prompt goes on keeps the frames
\* of the programs that wait.
LEMMA WaitingKept ==
    ASSUME TInv, UNCHANGED curenv,
           \A s \in Slots : s # curenv /\ env_id[s] # 0 /\ env_id'[s] # 0
                              => env_tf'[s] = env_tf[s]
    PROVE  KeepsRegisters /\ FullQuantum
  <1>1. FullQuantum
    BY DEF FullQuantum
  <1>2. ASSUME NEW s \in Slots, env_id[s] # 0, env_id'[s] = env_id[s], s # curenv
        PROVE  Registers(s)' = Registers(s)
    <2>1. env_tf'[s] = env_tf[s]
      BY <1>2
    <2>2. Registers(s)' = env_tf'[s] /\ Registers(s) = env_tf[s]
      BY <1>2 DEF Registers
    <2>3. QED BY <2>1, <2>2
  <1>3. QED BY <1>1, <1>2 DEF KeepsRegisters

\* Every step keeps the registers of the programs that do not run, and gives
\* a full quantum to one that begins to.
LEMMA NextKeeps ==
    ASSUME TInv, quantum # 53, [TrapsNext]_allVars
    PROVE  KeepsRegisters /\ FullQuantum
  <1>1. TInv' /\ Kinds
    BY NextTInv, TInvKinds
  <1>2. ASSUME NEW tfs, NEW ready, NEW cur, Chooses(tfs, ready, cur)
        PROVE  KeepsRegisters /\ FullQuantum
    BY <1>1, <1>2, ChooseKeeps
  <1>3. ASSUME NEW tfs, NEW left, GoesOn(tfs, left)
        PROVE  KeepsRegisters /\ FullQuantum
    <2>1. curenv' = curenv /\ env_tf' = Frames(tfs)
          /\ \A s \in Slots : s # curenv => tfs[s] = env_tf[s]
      BY <1>3 DEF GoesOn, Resumed
    <2>2. \A s \in Slots : s # curenv /\ env_id[s] # 0 /\ env_id'[s] # 0
                              => env_tf'[s] = env_tf[s]
      BY <2>1 DEF Frames
    <2>3. QED BY <2>1, <2>2, WaitingKept
  <1>4. CASE StaysAtPrompt
    BY <1>4, WaitingKept DEF StaysAtPrompt
  <1>5. CASE GoesOnWithAnswer
    BY <1>5, WaitingKept DEF GoesOnWithAnswer, vars
  <1>6. CASE UNCHANGED allVars
    BY <1>6, WaitingKept DEF allVars, vars, trapVars
  <1>7. QED BY <1>1, <1>2, <1>3, <1>4, <1>5, <1>6 DEF Kinds

\* A program that is interrupted, that waits or that becomes ready has the same
\* registers when it goes on, and each turn has all the counts of the quantum.
\* The quantum of 53 ms, which schedRR takes, has more counts than the counter
\* can hold.
THEOREM TurnsKeptCorrect ==
    ASSUME NotTheLongest
    PROVE  TrapsSpec => TurnsKept
  <1>1. TrapsInit => quantum # 53
    BY DEF TrapsInit
  <1>2. quantum # 53 /\ [TrapsNext]_allVars => (quantum # 53)'
    BY NextQuantum
  <1>3. TInv /\ quantum # 53 /\ [TrapsNext]_allVars
          => [KeepsRegisters /\ FullQuantum]_allVars
    BY NextKeeps
  <1>4. QED
    BY InitTInv, NextTInv, <1>1, <1>2, <1>3, PTL DEF TrapsSpec, TurnsKept

-----------------------------------------------------------------------------
(***************************************************************************)
(* The answers are the caller's own.  Two of them are computed in a way    *)
(* that is not the one the stubs promise: the lists are compared as far as *)
(* they go, and percentages are rounded up with a remainder.               *)
(***************************************************************************)
\* The memory a program gives to sys_check_LRU_lists has the pages whose number
\* it gives.
ArraysAsLong ==
    \A k \in DOMAIN Calls : \A s \in Slots : \A c \in Calls[k][s] :
      c.no = "check_LRU_lists" =>
        /\ c.n1 \in Nat /\ c.active \in Seq(Nat)
        /\ c.n2 \in Nat /\ c.second \in Seq(Nat)
        /\ c.active # << >> => c.n1 <= Len(c.active)
        /\ c.second # << >> => c.n2 <= Len(c.second)

\* Ranges from 1 with the same elements have the same last one.
LEMMA EqualRanges ==
    ASSUME NEW a \in Nat, NEW b \in Nat, 1 .. a = 1 .. b
    PROVE  a = b
  <1>1. a \in 1 .. a => a <= b
    OBVIOUS
  <1>2. b \in 1 .. b => b <= a
    OBVIOUS
  <1>3. QED BY <1>1, <1>2

\* Comparing the lists as far as they go, and their sizes, compares them.
LEMMA ListsCompared ==
    ASSUME NEW list, DOMAIN list = 1 .. Len(list), Len(list) \in Nat,
           NEW content \in Seq(Nat), NEW n \in Nat, n <= Len(content)
    PROVE  ListIs(list, content, n)
             <=> [k \in DOMAIN list |-> ROUNDDOWN(list[k])]
                   = [k \in 1 .. n |-> ROUNDDOWN(content[k])]
  <1> DEFINE ours == [k \in 1 .. Len(list) |-> ROUNDDOWN(list[k])]
             theirs == [k \in 1 .. n |-> ROUNDDOWN(content[k])]
  <1>1. Len(content) \in Nat /\ DOMAIN content = 1 .. Len(content)
    BY LenProperties
  <1>2. ListIs(list, content, n)
          <=> /\ \A k \in 1 .. Len(list) :
                   k \in 1 .. Len(content) => ROUNDDOWN(list[k]) = ROUNDDOWN(content[k])
              /\ Len(list) = n
    BY <1>1, Zenon DEF ListIs
  <1>3. CASE Len(list) = n
    <2>1. \A k \in 1 .. n : k \in 1 .. Len(content)
      BY <1>1
    <2>2. ours = theirs <=> \A k \in 1 .. n : ROUNDDOWN(list[k]) = ROUNDDOWN(content[k])
      <3>1. DOMAIN ours = 1 .. n /\ DOMAIN theirs = 1 .. n
        BY <1>3, Zenon
      <3>2. \A k \in 1 .. n : /\ ours[k] = ROUNDDOWN(list[k])
                              /\ theirs[k] = ROUNDDOWN(content[k])
        BY <1>3, Zenon
      <3>3. ours = [k \in 1 .. n |-> ours[k]] /\ theirs = [k \in 1 .. n |-> theirs[k]]
        BY <1>3, Zenon
      <3> HIDE DEF ours, theirs
      <3>4. ours = theirs <=> \A k \in 1 .. n : ours[k] = theirs[k]
        BY <3>3, SMTT(60)
      <3>5. QED BY <3>2, <3>4, Zenon
    <2>3. QED BY <1>2, <1>3, <2>1, <2>2, Zenon
  <1>4. CASE Len(list) # n
    <2>1. 1 .. Len(list) # 1 .. n
      <3>1. \A a, b \in Nat : 1 .. a = 1 .. b => a = b
        BY EqualRanges
      <3>2. QED BY <1>4, <3>1, Zenon
    <2>2. DOMAIN ours = 1 .. Len(list) /\ DOMAIN theirs = 1 .. n
      BY Zenon
    <2>3. ours # theirs
      BY <2>1, <2>2, Zenon
    <2>4. QED BY <1>2, <1>4, <2>3, Zenon
  <1>5. QED BY <1>3, <1>4

\* The same for an argument that may be left out.
LEMMA PagesCompared ==
    ASSUME NEW list, DOMAIN list = 1 .. Len(list), Len(list) \in Nat,
           NEW content \in Seq(Nat), NEW n \in Nat,
           content # << >> => n <= Len(content)
    PROVE  (content # << >> => ListIs(list, content, n)) <=> SamePages(list, content, n)
  <1>1. CASE content = << >>
    BY <1>1 DEF SamePages
  <1>2. CASE content # << >>
    <2>1. ListIs(list, content, n)
            <=> [k \in DOMAIN list |-> ROUNDDOWN(list[k])]
                  = [k \in 1 .. n |-> ROUNDDOWN(content[k])]
      BY <1>2, ListsCompared, ZenonT(60)
    <2>2. QED BY <1>2, <2>1, ZenonT(60) DEF SamePages
  <1>3. QED BY <1>1, <1>2

\* The share that is removed, as the handler and as the stub computes it.
LEMMA Percentages ==
    ASSUME NEW percentage \in 0 .. 100, NEW pages \in Nat
    PROVE  Removed(percentage, pages) = RoundedUp(percentage, pages)
  <1> DEFINE t == percentage * pages
             up == t \div 100 + Flag(t % 100 > 0)
             Up(n) == 100 * n >= t /\ 100 * (n - 1) < t
  <1>1. t \in Nat /\ t <= 100 * pages
    <2>1. percentage \in Nat /\ 100 - percentage \in Nat
      OBVIOUS
    <2>2. (100 - percentage) * pages \in Nat /\ percentage * pages \in Nat
      BY <2>1
    <2>3. (100 - percentage) * pages = 100 * pages - percentage * pages
      BY <2>1
    <2>4. QED BY <2>2, <2>3
  <1>2. Removed(percentage, pages) = up
    BY DEF Removed
  <1>3. RoundedUp(percentage, pages) = CHOOSE n \in 0 .. pages : Up(n)
    BY Zenon DEF RoundedUp
  <1> HIDE DEF t
  <1>4. /\ t \div 100 \in Nat /\ t % 100 \in 0 .. 99
        /\ t = 100 * (t \div 100) + (t % 100)
    BY <1>1, Quotient
  <1>5. Flag(t % 100 > 0) = IF t % 100 > 0 THEN 1 ELSE 0
    BY DEF Flag
  <1>6. up \in Nat /\ 100 * up >= t /\ 100 * (up - 1) < t
    <2>1. CASE t % 100 > 0
      <3>1. up = t \div 100 + 1
        BY <1>5, <2>1
      <3> HIDE DEF up
      <3>2. QED BY <1>4, <2>1, <3>1
    <2>2. CASE ~(t % 100 > 0)
      <3>1. up = t \div 100
        BY <1>4, <1>5, <2>2
      <3>2. t % 100 = 0
        BY <1>4, <2>2
      <3> HIDE DEF up
      <3>3. QED BY <1>4, <3>1, <3>2
    <2>3. QED BY <2>1, <2>2
  <1> HIDE DEF up
  <1>7. up \in 0 .. pages
    BY <1>1, <1>6
  <1>8. \A n \in 0 .. pages : Up(n) => n = up
    BY <1>1, <1>6
  <1>9. Up(up)
    BY <1>6
  <1> HIDE DEF Up
  <1>10. (CHOOSE n \in 0 .. pages : Up(n)) = up
    BY <1>7, <1>8, <1>9
  <1>11. QED BY <1>2, <1>3, <1>10

\* The environments that the handler counts by the queues are those that have
\* the statuses.
LEMMA WaitingAndExited ==
    ASSUME SInv, curenv \in Slots
    PROVE  /\ ToSet(env_ready_queue)
                = {s \in Slots : env_status[s] \in {"ENV_READY", "ENV_RUNNABLE"}} \ {curenv}
           /\ ToSet(env_exit_queue) = {s \in Slots : env_status[s] = "ENV_EXIT"}
           /\ \A s \in Slots : Alive(s) => s \notin ToSet(env_free_list)
  <1>1. StatusTells(env_free_list, env_new_queue, env_ready_queue, env_exit_queue,
                    curenv, env_status)
    BY DEF SInv, PlacedNow, Placement
  <1>2. /\ ToSet(env_ready_queue) \subseteq Slots /\ ToSet(env_exit_queue) \subseteq Slots
    BY ElementsAreSlots DEF SInv, PlacedNow, Placement, QueueTypes
  <1>3. curenv # NULL
    BY TableAssumption DEF Slots
  <1>4. ASSUME NEW s \in Slots
        PROVE  /\ s \in ToSet(env_ready_queue) <=> Alive(s) /\ s # curenv
               /\ s \in ToSet(env_exit_queue) <=> env_status[s] = "ENV_EXIT"
               /\ Alive(s) => s \notin ToSet(env_free_list)
    BY <1>1, <1>3 DEF StatusTells, Alive
  <1>5. /\ \A s : s \in ToSet(env_ready_queue) <=> s \in Slots /\ Alive(s) /\ s # curenv
        /\ \A s : s \in ToSet(env_exit_queue) <=> s \in Slots /\ env_status[s] = "ENV_EXIT"
    BY <1>2, <1>4
  <1>6. QED BY <1>4, <1>5 DEF Alive

\* What a call answers is what its stub promises.
LEMMA AnswerIsPromised ==
    ASSUME ArraysAsLong, SInv, curenv \in Slots, kind \in DOMAIN Calls,
           NEW c \in Calls[kind][curenv], NEW out \in syscall(c)
    PROVE  Answer(c, out.ret) = out.ret
  <1>1. CASE c.no = "check_LRU_lists"
    <2> DEFINE ours == ActiveList[curenv]
               others == SecondList[curenv]
    <2>1. out \in Returns(sys_check_LRU_lists(c.active, c.second, c.n1, c.n2))
      BY <1>1 DEF syscall, syscall_tests
    <2>2. out.ret = sys_check_LRU_lists(c.active, c.second, c.n1, c.n2)
      BY <2>1 DEF Returns
    <2>3. /\ c.n1 \in Nat /\ c.active \in Seq(Nat)
          /\ c.n2 \in Nat /\ c.second \in Seq(Nat)
          /\ c.active # << >> => c.n1 <= Len(c.active)
          /\ c.second # << >> => c.n2 <= Len(c.second)
      BY <1>1 DEF ArraysAsLong
    <2>4. /\ DOMAIN ours = 1 .. Len(ours) /\ Len(ours) \in Nat
          /\ DOMAIN others = 1 .. Len(others) /\ Len(others) \in Nat
      BY TrapsAssumption, LenProperties
    <2> HIDE DEF ours, others
    <2>5. (c.active # << >> => ListIs(ours, c.active, c.n1)) <=> SamePages(ours, c.active, c.n1)
      BY <2>3, <2>4, PagesCompared, Zenon
    <2>6. (c.second # << >> => ListIs(others, c.second, c.n2))
            <=> SamePages(others, c.second, c.n2)
      BY <2>3, <2>4, PagesCompared, Zenon
    <2>7. sys_check_LRU_lists(c.active, c.second, c.n1, c.n2)
            = Flag(SamePages(ours, c.active, c.n1) /\ SamePages(others, c.second, c.n2))
      BY <2>5, <2>6, Zenon DEF sys_check_LRU_lists, ours, others, Flag
    <2>8. Answer(c, out.ret)
            = Flag(SamePages(ours, c.active, c.n1) /\ SamePages(others, c.second, c.n2))
      BY <1>1 DEF Answer, ours, others
    <2>9. QED BY <2>2, <2>7, <2>8
  <1>2. CASE c.no = "calculate_pages_tobe_removed_ready_exit"
    <2> DEFINE percentage == percentage_of_WS_pages_to_be_removed[curenv]
               removed == [s \in Slots |-> Removed(percentage, WSSize[s])]
               share == [s \in Slots |-> RoundedUp(percentage, WSSize[s])]
               waiting == {s \in Slots : env_status[s] \in {"ENV_READY", "ENV_RUNNABLE"}}
                            \ {curenv}
               exited == {s \in Slots : env_status[s] = "ENV_EXIT"}
    <2>1. out \in Returns(calc_no_pages_tobe_removed_from_ready_exit_queues(c.memory))
      BY <1>2 DEF syscall
    <2>2. out.ret = (IF c.memory
                     THEN Total(removed, ToSet(env_ready_queue))
                          + Total(WSSize, ToSet(env_exit_queue))
                     ELSE 0) + removed[curenv]
      <3>1. out.ret = calc_no_pages_tobe_removed_from_ready_exit_queues(c.memory)
        BY <2>1 DEF Returns
      <3>2. QED BY <3>1, Zenon DEF calc_no_pages_tobe_removed_from_ready_exit_queues
    <2>3. Answer(c, out.ret) = (IF c.memory
                                THEN Total(share, waiting) + Total(WSSize, exited)
                                ELSE 0) + share[curenv]
      BY <1>2 DEF Answer
    <2>4. removed = share
      <3>1. percentage \in 0 .. 100 /\ \A s \in Slots : WSSize[s] \in Nat
        BY TrapsAssumption
      <3>2. \A s \in Slots : Removed(percentage, WSSize[s]) = RoundedUp(percentage, WSSize[s])
        BY <3>1, Percentages
      <3>3. QED BY <3>2
    <2>5. waiting = ToSet(env_ready_queue) /\ exited = ToSet(env_exit_queue)
      BY WaitingAndExited
    <2> HIDE DEF removed, share, waiting, exited
    <2>6. QED BY <2>2, <2>3, <2>4, <2>5
  <1>3. CASE c.no \notin {"check_LRU_lists", "calculate_pages_tobe_removed_ready_exit"}
    BY <1>3 DEF Answer
  <1>4. QED BY <1>1, <1>2, <1>3

\* What an environment finds in eax is due to it, whether it asked or not; to
\* one that is not in use nothing is due.
AnswersInv ==
    /\ kind \in DOMAIN Calls
    /\ due = [s \in Slots |-> due[s]]
    /\ \A s \in Slots : IF env_id[s] = 0 THEN due[s] = 0 ELSE Registers(s).eax = due[s]

\* The frames a step leaves, and the one that is popped, have what is due.
LEMMA PoppedAnswers ==
    ASSUME NEW tfs, \A s \in Slots : IsFrame(tfs[s]),
           curenv' \in Slots \cup {NULL}, NULL \notin Slots,
           env_tf' = Frames(tfs), env_pop_tf(Frames(tfs)),
           kind' \in DOMAIN Calls, due' = [s \in Slots |-> due'[s]],
           \A s \in Slots : IF env_id[s] = 0 \/ env_id'[s] = 0
                            THEN due'[s] = 0 ELSE tfs[s].eax = due'[s]
    PROVE  AnswersInv'
  <1>1. /\ \A s \in Slots : env_id[s] # 0 /\ env_id'[s] # 0 => env_tf'[s] = tfs[s]
        /\ curenv' # NULL => Saved(regs') = env_tf'[curenv']
    BY PoppedFrames
  <1>2. ASSUME NEW s \in Slots, env_id'[s] # 0 PROVE Registers(s)'.eax = due'[s]
    <2>1. Registers(s)' = env_tf'[s]
      <3>1. Registers(s)' = IF s = curenv' THEN Saved(regs') ELSE env_tf'[s]
        BY DEF Registers, Saved
      <3>2. QED BY <1>1, <3>1
    <2>2. CASE env_id[s] # 0
      BY <1>1, <1>2, <2>1, <2>2
    <2>3. CASE env_id[s] = 0
      <3>1. env_tf'[s] = NewFrame
        BY <1>2, <2>3 DEF Frames
      <3>2. env_tf'[s].eax = 0
        BY <3>1 DEF NewFrame
      <3>3. QED BY <2>1, <2>3, <3>2
    <2>4. QED BY <2>2, <2>3
  <1>3. QED BY <1>2 DEF AnswersInv

LEMMA InitAnswers == TrapsInit => AnswersInv
  <1> SUFFICES ASSUME TrapsInit PROVE AnswersInv
    OBVIOUS
  <1>1. env_id = [s \in Slots |-> 0] /\ due = [s \in Slots |-> 0] /\ kind \in DOMAIN Calls
    BY DEF TrapsInit, Init, env_init
  <1>2. QED BY <1>1 DEF AnswersInv

\* An entry that runs or is ready is in use.
AliveInUse ==
    \A s \in Slots : Alive(s) \/ s = curenv =>
      env_id[s] # 0 /\ s \notin ToSet(env_free_list)

LEMMA AliveHasId == SInv /\ IdInv /\ curenv \in Slots => AliveInUse
  <1> SUFFICES ASSUME SInv, IdInv, curenv \in Slots PROVE AliveInUse
    OBVIOUS
  <1>1. Alive(curenv)
    BY TableAssumption DEF SInv, PlacedNow, Placement, StatusTells, Alive, Slots
  <1>2. \A s \in Slots : Alive(s) => s \notin ToSet(env_free_list)
    BY WaitingAndExited
  <1>3. QED BY <1>1, <1>2, EntriesBelowGeneration DEF IdInv, AliveInUse

\* A new environment gets the id that its creator is due.
LEMMA NewIdIsDue ==
    ASSUME SInv, IdInv, NEW s \in Slots, Commit(s)
    PROVE  /\ env_id[s] = 0 /\ s \in ToSet(env_free_list)
           /\ env_id'[s] = 2 ^ ENVGENSHIFT + s
           /\ \A t \in Slots : t # s => env_id'[t] = env_id[t]
  <1>1. env_free_list \in Seq(Slots) /\ env_free_list # << >> /\ s = Head(env_free_list)
    BY DEF SInv, PlacedNow, Placement, QueueTypes, Commit
  <1>2. s \in ToSet(env_free_list)
    BY <1>1, HeadElements DEF SInv, PlacedNow, Placement, QueueTypes
  <1>3. env_id[s] = 0 /\ env_id \in [Slots -> Nat]
    BY <1>2 DEF IdInv
  <1>4. env_id' = [env_id EXCEPT ![s] = NewId(s)]
    BY DEF Commit
  <1>5. NewId(s) = IdOf(s)
    BY <1>3, FirstId
  <1>6. 2 ^ ENVGENSHIFT = 4096
    BY DEF ENVGENSHIFT
  <1>7. QED BY <1>2, <1>3, <1>4, <1>5, <1>6 DEF IdOf

\* A step of the prompt that runs no program keeps what waiting programs are due.
LEMMA PromptAnswers ==
    ASSUME AnswersInv, PromptChanges \/ PromptSets
    PROVE  AnswersInv'
  <1>1. curenv = NULL /\ NULL \notin Slots
    BY TableAssumption DEF PromptChanges, PromptSets, AtPrompt, Slots
  <1>2. CASE PromptChanges
    <2>1. /\ env_tf' = Frames(env_tf) /\ Due(due) /\ kind' = kind
          /\ curenv' = NULL
      BY <1>1, <1>2 DEF PromptChanges, sched_kill_all, command_kill_program,
         sched_kill_env, KillQueued, KillCurrent, KillUnknown, CreateEnv
    <2>2. ASSUME NEW s \in Slots
          PROVE  IF env_id'[s] = 0 THEN due'[s] = 0 ELSE Registers(s)'.eax = due'[s]
      <3>1. /\ Registers(s) = env_tf[s] /\ Registers(s)' = env_tf'[s]
            /\ due'[s] = IF env_id'[s] = 0 THEN 0 ELSE due[s]
        BY <1>1, <2>1 DEF Registers, Due
      <3>2. CASE env_id[s] # 0 /\ env_id'[s] # 0
        <4>1. env_tf'[s] = env_tf[s]
          BY <2>1, <3>2 DEF Frames
        <4>2. QED BY <3>1, <3>2, <4>1 DEF AnswersInv
      <3>3. CASE env_id[s] = 0 /\ env_id'[s] # 0
        <4>1. env_tf'[s] = NewFrame /\ NewFrame.eax = 0
          BY <2>1, <3>3 DEF Frames, NewFrame
        <4>2. QED BY <3>1, <3>3, <4>1 DEF AnswersInv
      <3>4. QED BY <3>1, <3>2, <3>3
    <2>3. due' = [s \in Slots |-> due'[s]]
      BY <2>1 DEF Due
    <2>4. QED BY <2>1, <2>2, <2>3 DEF AnswersInv
  <1>3. CASE PromptSets
    <2>1. UNCHANGED <<regs, env_tf, due, kind, env_id, curenv>>
      BY <1>3 DEF PromptSets, command_sch_RR, vars
    <2>2. QED BY <2>1 DEF AnswersInv, Registers, Saved
  <1>4. QED BY <1>2, <1>3

\* A call that returns leaves the answer that is due in its caller's frame.
LEMMA CallAnswers ==
    ASSUME TInv, TInv', AnswersInv, NEW c, NEW ret, NEW t, Running,
           Resumed(Answered(c, ret), t), curenv' = curenv, kind' = kind,
           due' = [s \in Slots |-> due'[s]], due'[curenv] = ret,
           \A s \in Slots : s # curenv =>
             due'[s] = IF env_id[s] = 0 \/ env_id'[s] = 0 THEN 0 ELSE due[s]
    PROVE  AnswersInv'
  <1> DEFINE tfs == Answered(c, ret)
  <1>1. /\ SInv /\ IdInv /\ FrameTypes /\ curenv \in Slots /\ NULL \notin Slots
        /\ (SInv /\ IdInv)'
    BY CurrentSlot, TableAssumption DEF TInv, EnvsInv, Running, Slots
  <1>2. env_id[curenv] # 0 /\ env_id'[curenv] # 0
    <2>1. (SInv /\ IdInv /\ curenv \in Slots => AliveInUse)'
      BY AliveHasId, PTL
    <2>2. QED BY <1>1, <2>1, AliveHasId DEF AliveInUse
  <1>3. /\ env_tf' = Frames(tfs) /\ env_pop_tf(Frames(tfs))
    BY DEF Resumed
  <1>4. /\ \A s \in Slots : IsFrame(tfs[s])
        /\ \A s \in Slots : s # curenv => tfs[s] = env_tf[s]
    BY <1>1, AnsweredFrames
  <1>5. tfs[curenv].eax = ret
    <2>1. trap = [s \in Slots |-> trap[s]]
      BY <1>1, SavedFrames
    <2>2. tfs[curenv] = [eip |-> c.no, eax |-> ret]
      BY <1>1, <2>1 DEF Answered
    <2>3. QED BY <2>2
  <1>6. ASSUME NEW s \in Slots
        PROVE  IF env_id[s] = 0 \/ env_id'[s] = 0
               THEN due'[s] = 0 ELSE tfs[s].eax = due'[s]
    <2>1. CASE s = curenv
      BY <1>2, <1>5, <2>1
    <2>2. CASE s # curenv
      <3>1. Registers(s) = env_tf[s]
        BY <2>2 DEF Registers
      <3>2. QED BY <1>4, <2>2, <3>1 DEF AnswersInv
    <2>3. QED BY <2>1, <2>2
  <1> HIDE DEF tfs
  <1>7. kind' \in DOMAIN Calls /\ curenv' \in Slots \cup {NULL}
    BY <1>1 DEF AnswersInv
  <1>8. QED BY <1>1, <1>3, <1>4, <1>6, <1>7, PoppedAnswers

\* A step that saves the frames and calls the scheduler keeps what is due.
LEMMA ChoiceAnswers ==
    ASSUME TInv, TInv', AnswersInv, NEW tfs, NEW ready, NEW cur,
           Scheduled(tfs, ready, cur), kind' = kind,
           \/ curenv = NULL /\ tfs = env_tf
           \/ Running /\ tfs = trap,
           Due(due) \/ UNCHANGED <<due, env_id>>
    PROVE  AnswersInv'
  <1>1. /\ SInv /\ FrameTypes /\ curenv' \in Slots \cup {NULL} /\ NULL \notin Slots
    <2>1. curenv' \in Slots \cup {NULL}
      BY DEF TInv, EnvsInv, SInv, PlacedNow, Placement
    <2>2. QED BY <2>1, TableAssumption DEF TInv, EnvsInv, Slots
  <1>2. env_tf' = Frames(tfs) /\ env_pop_tf(Frames(tfs))
    BY DEF Scheduled
  <1>3. \A s \in Slots : IsFrame(tfs[s]) /\ tfs[s] = Registers(s)
    <2>1. CASE curenv = NULL /\ tfs = env_tf
      BY <1>1, <2>1 DEF FrameTypes, Registers
    <2>2. CASE Running /\ tfs = trap
      <3>1. curenv \in Slots
        BY <1>1, <2>2, CurrentSlot DEF Running
      <3>2. QED BY <1>1, <2>2, <3>1, SavedFrames DEF Registers
    <2>3. QED BY <2>1, <2>2
  <1>4. due' = [s \in Slots |-> due'[s]]
    BY DEF Due, AnswersInv
  <1>5. ASSUME NEW s \in Slots
        PROVE  IF env_id[s] = 0 \/ env_id'[s] = 0
               THEN due'[s] = 0 ELSE tfs[s].eax = due'[s]
    <2>1. due'[s] = IF env_id'[s] = 0 THEN 0 ELSE due[s]
      BY DEF Due, AnswersInv
    <2>2. QED BY <1>3, <2>1 DEF AnswersInv
  <1>6. kind' \in DOMAIN Calls
    BY DEF AnswersInv
  <1>7. QED BY <1>1, <1>2, <1>3, <1>4, <1>5, <1>6, PoppedAnswers

\* What programs are due is kept by every step.
LEMMA NextAnswers ==
    ASSUME ArraysAsLong, TInv, TInv', AnswersInv, [TrapsNext]_allVars
    PROVE  AnswersInv'
  <1>1. /\ SInv /\ IdInv /\ FieldTypes /\ FrameTypes /\ UniqueIds
        /\ Running => curenv \in Slots /\ curenv # NULL
    <2>1. SInv /\ IdInv /\ FieldTypes /\ FrameTypes
      BY DEF TInv, EnvsInv
    <2>2. QED BY <2>1, IdFacts, CurrentSlot DEF Running
  <1>2. \A s \in Slots : env_id[s] = 0 => due[s] = 0
    BY DEF AnswersInv
  <1>3. CASE UNCHANGED allVars
    BY <1>3 DEF allVars, vars, trapVars, AnswersInv, Registers, Saved
  <1>4. CASE PromptRuns
    <2>1. curenv = NULL /\ Due(due) /\ kind' = kind
      BY <1>4 DEF PromptRuns, command_run_program, sched_run_all, AtPrompt
    <2>2. \E ready : Scheduled(env_tf, ready, NULL)
      BY <1>4 DEF PromptRuns
    <2>3. QED BY <2>1, <2>2, ChoiceAnswers
  <1>5. CASE PromptChanges \/ PromptSets
    BY <1>5, PromptAnswers
  <1>6. CASE IRQ0_Clock
    <2>1. /\ Running /\ Scheduled(trap, env_ready_queue, curenv)
          /\ kind' = kind /\ UNCHANGED <<due, env_id>>
      BY <1>6 DEF IRQ0_Clock, clock_interrupt_handler
    <2>2. QED BY <2>1, ChoiceAnswers
  <1>7. CASE Exits
    <2>1. /\ Running /\ Scheduled(trap, env_ready_queue, NULL)
          /\ kind' = kind /\ UNCHANGED <<due, env_id>>
      BY <1>7 DEF Exits, env_exit
    <2>2. QED BY <2>1, ChoiceAnswers
  <1>8. ASSUME NEW c, NEW ret, NEW t, Running, Resumed(Answered(c, ret), t),
               UNCHANGED <<curenv, env_id, kind>>, due' = [due EXCEPT ![curenv] = ret]
        PROVE  AnswersInv'
    <2>1. /\ due' = [s \in Slots |-> due'[s]] /\ due'[curenv] = ret
          /\ \A s \in Slots : s # curenv => due'[s] = due[s]
      BY <1>1, <1>8 DEF AnswersInv
    <2>2. QED BY <1>2, <1>8, <2>1, CallAnswers
  <1>9. ASSUME NEW c, CallReturns(c) PROVE AnswersInv'
    <2>1. PICK out \in syscall(c), left \in Left :
            /\ due' = [due EXCEPT ![curenv] = Answer(c, out.ret)]
            /\ UNCHANGED <<vars, quantum, kind>>
            /\ Resumed(Answered(c, out.ret), kclock_stop(left))
      BY <1>9 DEF CallReturns
    <2>2. Running /\ c \in Calls[kind][curenv]
      BY <1>9 DEF CallReturns, AtCall, UserMode
    <2>3. Answer(c, out.ret) = out.ret
      BY <1>1, <2>1, <2>2, AnswerIsPromised DEF AnswersInv
    <2>4. UNCHANGED <<curenv, env_id, kind>>
      BY <2>1 DEF vars
    <2>5. QED BY <1>8, <2>1, <2>2, <2>3, <2>4
  <1>10. ASSUME NEW c, CallSetsIF(c) \/ CallRuns(c) PROVE AnswersInv'
    <2>1. /\ Running /\ UNCHANGED <<curenv, env_id, kind>>
          /\ due' = [due EXCEPT ![curenv] = 0]
          /\ Resumed(Answered(c, 0), kclock_stop(timer.count))
      BY <1>10 DEF CallSetsIF, CallRuns, sys_disable_interrupt, sys_enable_interrupt,
         sys_run_env, AtCall, UserMode, vars
    <2>2. QED BY <1>8, <2>1
  <1>11. ASSUME NEW c, CallCreates(c) PROVE AnswersInv'
    <2>1. Running /\ UNCHANGED <<curenv, kind>>
      BY <1>11 DEF CallCreates, CreateEnv, AtCall, UserMode, vars
    <2>2. ASSUME NEW s \in Slots, CreateEnv(s),
                 Resumed(Answered(c, env_id'[s]), kclock_stop(timer.count)),
                 due' = [due EXCEPT ![curenv] = 2 ^ ENVGENSHIFT + s, ![s] = 0]
          PROVE  AnswersInv'
      <3>1. /\ env_id[s] = 0 /\ s \in ToSet(env_free_list)
            /\ env_id'[s] = 2 ^ ENVGENSHIFT + s
            /\ \A u \in Slots : u # s => env_id'[u] = env_id[u]
        BY <1>1, <2>2, NewIdIsDue DEF CreateEnv
      <3>2. s # curenv
        BY <1>1, <2>1, <3>1, AliveHasId DEF AliveInUse
      <3>3. /\ due' = [u \in Slots |-> due'[u]] /\ due'[curenv] = env_id'[s] /\ due'[s] = 0
            /\ \A u \in Slots : u # curenv /\ u # s => due'[u] = due[u]
        <4>1. due = [u \in Slots |-> due[u]]
          BY DEF AnswersInv
        <4>2. QED BY <1>1, <2>1, <2>2, <3>1, <3>2, <4>1
      <3>4. \A u \in Slots : u # curenv =>
              due'[u] = IF env_id[u] = 0 \/ env_id'[u] = 0 THEN 0 ELSE due[u]
        BY <1>2, <3>1, <3>3
      <3>5. QED BY <2>1, <2>2, <3>3, <3>4, CallAnswers
    <2>3. ASSUME UNCHANGED vars,
                 Resumed(Answered(c, E_ENV_CREATION_ERROR), kclock_stop(timer.count)),
                 due' = [due EXCEPT ![curenv] = E_ENV_CREATION_ERROR]
          PROVE  AnswersInv'
      <3>1. env_id' = env_id
        BY <2>3 DEF vars
      <3>2. QED BY <1>8, <2>1, <2>3, <3>1
    <2>4. QED BY <1>11, <2>2, <2>3 DEF CallCreates
  <1>12. ASSUME NEW c, CallFrees(c) PROVE AnswersInv'
    <2>1. Running /\ kind' = kind
      BY <1>12 DEF CallFrees, AtCall, UserMode
    <2>2. PICK id \in Ids :
            LET known == \E s \in Slots : env_id[s] = id /\ id # 0
            IN  /\ id # 0
                /\ IF ~known THEN UNCHANGED vars
                   ELSE sys_free_env(id) \/ sys_env_destroy(id)
                /\ IF known /\ id = env_id[curenv]
                   THEN Scheduled(trap, env_ready_queue, NULL) /\ Due(due)
                   ELSE \E ret : /\ Resumed(Answered(c, ret), kclock_stop(timer.count))
                                 /\ Due([due EXCEPT ![curenv] = ret])
      BY <1>12 DEF CallFrees
    <2> DEFINE known == \E s \in Slots : env_id[s] = id /\ id # 0
    <2>3. CASE known /\ id = env_id[curenv]
      <3>1. Scheduled(trap, env_ready_queue, NULL) /\ Due(due)
        BY <2>2, <2>3
      <3>2. QED BY <2>1, <3>1, ChoiceAnswers
    <2>4. CASE ~(known /\ id = env_id[curenv])
      <3>1. curenv' = curenv
        <4>1. CASE ~known
          BY <2>2, <4>1 DEF vars
        <4>2. CASE known
          BY <1>1, <2>1, <2>2, <2>4, <4>2, FreesWho
        <4>3. QED BY <4>1, <4>2
      <3>2. PICK ret : /\ Resumed(Answered(c, ret), kclock_stop(timer.count))
                       /\ Due([due EXCEPT ![curenv] = ret])
        BY <2>2, <2>4
      <3>3. env_id'[curenv] # 0
        <4>1. (SInv /\ IdInv /\ curenv \in Slots => AliveInUse)'
          BY AliveHasId, PTL
        <4>2. QED BY <1>1, <2>1, <3>1, <4>1 DEF AliveInUse, TInv, EnvsInv
      <3>4. /\ due' = [s \in Slots |-> due'[s]] /\ due'[curenv] = ret
            /\ \A s \in Slots : s # curenv =>
                 due'[s] = IF env_id'[s] = 0 THEN 0 ELSE due[s]
        <4>1. due = [s \in Slots |-> due[s]]
          BY DEF AnswersInv
        <4>2. QED BY <1>1, <2>1, <3>2, <3>3, <4>1 DEF Due
      <3>5. \A s \in Slots : s # curenv =>
              due'[s] = IF env_id[s] = 0 \/ env_id'[s] = 0 THEN 0 ELSE due[s]
        BY <1>2, <3>4
      <3>6. QED BY <2>1, <3>1, <3>2, <3>4, <3>5, CallAnswers
    <2>5. QED BY <2>3, <2>4
  <1>13. ASSUME NEW p, StoreFaults(p) PROVE AnswersInv'
    <2>1. /\ Running /\ UNCHANGED <<curenv, env_id, kind, due>>
          /\ \E left \in Left : \E tfs \in {[trap EXCEPT ![curenv].eip = "skipped"], trap} :
               Resumed(tfs, kclock_stop(left))
      <3>1. /\ Running /\ UNCHANGED <<curenv, env_id, kind, due>>
        BY <1>13 DEF StoreFaults, UserMode, vars
      <3>2. PICK left \in Left :
              IF kern.bypassInstrLength # 0
              THEN Resumed([trap EXCEPT ![curenv].eip = "skipped"], kclock_stop(left))
              ELSE Resumed(trap, kclock_stop(left))
        BY <1>13 DEF StoreFaults
      <3>3. \E tfs \in {[trap EXCEPT ![curenv].eip = "skipped"], trap} :
              Resumed(tfs, kclock_stop(left))
        BY <3>2
      <3>4. QED BY <3>1, <3>3
    <2>2. PICK tfs \in {[trap EXCEPT ![curenv].eip = "skipped"], trap} :
            env_tf' = Frames(tfs) /\ env_pop_tf(Frames(tfs))
      BY <2>1 DEF Resumed
    <2>3. /\ trap = [s \in Slots |-> trap[s]]
          /\ \A s \in Slots : IsFrame(trap[s]) /\ trap[s] = Registers(s)
      BY <1>1, <2>1, SavedFrames DEF Registers
    <2>4. ASSUME NEW s \in Slots PROVE IsFrame(tfs[s]) /\ tfs[s].eax = Registers(s).eax
      <3>1. CASE tfs = trap
        BY <2>3, <3>1
      <3>2. CASE tfs = [trap EXCEPT ![curenv].eip = "skipped"]
        <4>1. IsFrame(tfs[s])
          BY <1>1, <2>1, <3>2, AnsweredFrames
        <4>2. tfs[s] = trap[s] \/ tfs[s] = [trap[s] EXCEPT !.eip = "skipped"]
          BY <1>1, <2>1, <2>3, <3>2
        <4>3. trap[s] = [eip |-> trap[s].eip, eax |-> trap[s].eax]
          BY <2>3 DEF IsFrame
        <4>4. tfs[s].eax = trap[s].eax
          BY <4>2, <4>3
        <4>5. QED BY <2>3, <4>1, <4>4
      <3>3. QED BY <2>2, <3>1, <3>2
    <2>5. /\ curenv' \in Slots \cup {NULL} /\ NULL \notin Slots
          /\ kind' \in DOMAIN Calls /\ due' = [s \in Slots |-> due'[s]]
      BY <1>1, <2>1, TableAssumption DEF AnswersInv, Slots
    <2>6. \A s \in Slots : IF env_id[s] = 0 \/ env_id'[s] = 0
                           THEN due'[s] = 0 ELSE tfs[s].eax = due'[s]
      BY <2>1, <2>4 DEF AnswersInv
    <2>7. QED BY <2>2, <2>4, <2>5, <2>6, PoppedAnswers
  <1>14. CASE Uses
    <2>1. /\ Running /\ UNCHANGED <<curenv, env_id, env_tf, kind>>
          /\ regs' = [regs EXCEPT !.eip = "run", !.eax = 0]
          /\ due' = [due EXCEPT ![curenv] = 0]
      BY <1>14 DEF Uses, UserMode, vars
    <2>2. Saved(regs').eax = 0
      <3>1. regs = [eip |-> regs.eip, eax |-> regs.eax, intr |-> regs.intr]
        BY <1>1 DEF FrameTypes
      <3>2. regs'.eax = 0
        BY <2>1, <3>1
      <3>3. QED BY <3>2 DEF Saved
    <2>3. ASSUME NEW s \in Slots
          PROVE  IF env_id'[s] = 0 THEN due'[s] = 0 ELSE Registers(s)'.eax = due'[s]
      <3>1. due = [u \in Slots |-> due[u]]
        BY DEF AnswersInv
      <3>2. CASE s = curenv
        <4>1. due'[s] = 0
          BY <1>1, <2>1, <3>1, <3>2
        <4>2. Registers(s)' = Saved(regs')
          BY <2>1, <3>2 DEF Registers, Saved
        <4>3. QED BY <2>2, <4>1, <4>2
      <3>3. CASE s # curenv
        <4>1. due'[s] = due[s] /\ env_id'[s] = env_id[s]
          BY <2>1, <3>1, <3>3
        <4>2. Registers(s)' = Registers(s)
          BY <2>1, <3>3 DEF Registers
        <4>3. QED BY <4>1, <4>2 DEF AnswersInv
      <3>4. QED BY <3>2, <3>3
    <2>4. due' = [s \in Slots |-> due'[s]]
      BY <2>1 DEF AnswersInv
    <2>5. QED BY <2>1, <2>3, <2>4 DEF AnswersInv
  <1>15. QED
    BY <1>3, <1>4, <1>5, <1>6, <1>7, <1>9, <1>10, <1>11, <1>12, <1>13, <1>14
       DEF TrapsNext, UserRuns, CallPanics

\* A program that comes back from a system call finds the answer to its own call,
\* whoever has run since, and the handlers that compare the lists and count the
\* pages to remove compute what their stubs promise (trap.c:230,
\* syscall.c:489-534, utilities.c:35-80).  The memory to compare with must be as
\* long as the caller says: the handler reads on behind it.
THEOREM OwnAnswersCorrect ==
    ASSUME ArraysAsLong
    PROVE  TrapsSpec => []OwnAnswers
  <1>1. AnswersInv /\ TInv => OwnAnswers
    <2> SUFFICES ASSUME AnswersInv, TInv, NEW s \in Slots, Alive(s)
                 PROVE  Registers(s).eax = due[s]
      BY DEF OwnAnswers
    <2>1. s \notin ToSet(env_free_list)
      BY DEF TInv, EnvsInv, SInv, PlacedNow, Placement, StatusTells, Alive
    <2>2. env_id[s] # 0
      BY <2>1, EntriesBelowGeneration DEF TInv, EnvsInv, IdInv
    <2>3. QED BY <2>2 DEF AnswersInv
  <1>2. TInv /\ AnswersInv /\ [TrapsNext]_allVars => AnswersInv'
    BY NextTInv, NextAnswers
  <1>3. QED BY InitTInv, NextTInv, InitAnswers, <1>1, <1>2, PTL DEF TrapsSpec
=============================================================================

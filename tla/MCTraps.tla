------------------------------ MODULE MCTraps ------------------------------
(***************************************************************************)
(* Two environments, with the pages of their LRU lists (addresses in pages *)
(* of 4 bytes), and the system calls of five kinds of programs.            *)
(***************************************************************************)
EXTENDS Traps

MCActive == [s \in 0 .. 1 |-> IF s = 0 THEN <<8, 4>> ELSE <<12>>]
MCSecond == [s \in 0 .. 1 |-> IF s = 0 THEN <<16>> ELSE << >>]
MCWSSize == [s \in 0 .. 1 |-> 3 - s]
MCPercentage == [s \in 0 .. 1 |-> 50 - 40 * s]

Plain(names) == {[no |-> n] : n \in names}
Life == Plain({"create_env", "run_env"})

\* Test programs count what they find right.
Tests ==
    Plain({"rsttst", "inctst", "gettst"})
      \cup {[no |-> "chktst", n |-> n] : n \in 0 .. 1}
      \cup {[no |-> "testNum", n |-> 1, v1 |-> v, v2 |-> 2, op |-> op, inv |-> inv] :
              v \in 0 .. 1, op \in {"l", "g", "e", "b"}, inv \in BOOLEAN}

\* The lists they expect: memory at an address, and a size.
Lists == {<<9, 7, 0>>, <<12, 0, 0>>, <<16, 8, 0>>}
CheckLists ==
    {[no |-> "check_LRU_lists", active |-> a, second |-> b, n1 |-> n1, n2 |-> n2] :
       a \in Lists, b \in {<<16, 8, 0>>, << >>}, n1 \in 1 .. 3, n2 \in 0 .. 1}
      \cup {[no |-> "check_LRU_lists_free", content |-> a, n |-> n] : a \in Lists, n \in 0 .. 2}
      \cup {[no |-> "calculate_pages_tobe_removed_ready_exit", memory |-> m] : m \in BOOLEAN}

Answers ==
    {[no |-> n, answer |-> a] :
       n \in {"calc_req_frames", "calc_free_frames", "calc_modified_frames",
              "calc_notmod_frames", "pf_calc_allocated_pages", "cgetc"}, a \in {0, 97}}

\* The first program makes all calls of a kind, the other one some.
Two(first, second) == [s \in 0 .. 1 |-> IF s = 0 THEN first ELSE second]

MCCalls ==
    [asking |-> Two(Life \cup Answers
                      \cup Plain({"getenvid", "getenvindex", "getparentenvid",
                                  "get_virtual_time", "get_max_shares", "NSYSCALLS", "free_env",
                                  "env_destroy"}),
                    Life \cup Plain({"getenvid", "getparentenvid", "env_destroy"})),
     testing |-> Two(Tests \cup Plain({"freeMem", "allocate_page", "allocateMem",
                                       "scarce_memory", "clearFFL"}),
                    Plain({"inctst", "gettst"})),
     lists |-> Two(CheckLists, CheckLists),
     atomic |-> Two(Plain({"disableINTR", "enableINTR", "cputc", "moveMem",
                           "map_frame", "create_semaphore", "get_heap_strategy"}),
                    Plain({"disableINTR", "enableINTR"})
                      \cup {[no |-> "set_heap_strategy", strategy |-> k] : k \in 1 .. 2}),
     faults |-> Two(Plain({"rcr2", "cputs"})
                      \cup {[no |-> "bypassPageFault", length |-> n] : n \in {0, 3}},
                    Plain({"rcr2"}))]
=============================================================================

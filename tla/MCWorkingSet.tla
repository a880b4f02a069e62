---------------------------- MODULE MCWorkingSet ----------------------------
(***************************************************************************)
(* Instances of WorkingSet: a program of two pages whose code,             *)
(* stack and heap live in different page tables, as in the memory layout   *)
(* (code from 0x00800000, heap from 0x80000000, stack below 0xEEC00000).   *)
(***************************************************************************)
EXTENDS WorkingSet

CONSTANTS c1, c2, k1, k2, h1, tc, tk, th

SmallSegment == <<c1, c2>>
SmallTables == [p \in {c1, c2, k1, k2, h1} |->
                  IF p \in {c1, c2} THEN tc ELSE IF p = h1 THEN th ELSE tk]
=============================================================================

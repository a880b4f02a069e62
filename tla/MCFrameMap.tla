----------------------------- MODULE MCFrameMap -----------------------------
(***************************************************************************)
(* FrameMap on a memory of NFrames frames and tables of W entries. Page 9  *)
(* is the last of the first table and 10 the first of the second;          *)
(* the environment's two lists hold three pages, one less than it has.     *)
(***************************************************************************)
EXTENDS FrameMap, TLC

MCSegmentPages == <<2, 3, 4>>
MCPowerOn == {Zero}
EnvSymmetry == Permutations(Envs)
=============================================================================

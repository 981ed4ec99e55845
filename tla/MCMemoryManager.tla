-------------------------- MODULE MCMemoryManager --------------------------
(***************************************************************************)
(* MemoryManager for TLC.  The smallest capacity and the threshold stand   *)
(* in the ratio of the code (50, 100).  A capacity of ten is halved twice  *)
(* (10, 5, 2) before it falls below the threshold, and eleven points wrap  *)
(* a buffer of every one of these capacities.                              *)
(***************************************************************************)
EXTENDS MemoryManager
=============================================================================

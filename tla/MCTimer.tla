------------------------------ MODULE MCTimer ------------------------------
(***************************************************************************)
(* Timer with at most three callbacks and three nodes: calloc returns any  *)
(* node that is free, the one freed last included.                         *)
(***************************************************************************)
EXTENDS Timer, TLC

CONSTANTS a1, a2, a3, c1, c2, c3

Symmetry == Permutations(Addr) \cup Permutations(Callbacks)
============================================================================

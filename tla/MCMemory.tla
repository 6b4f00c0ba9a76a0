------------------------------ MODULE MCMemory ----------------------------
(* The pool of memory blocks for TLC.                                      *)
EXTENDS Memory, TLC

Symmetry == Permutations(Handles)
=============================================================================

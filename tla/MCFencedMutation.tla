-------------------------- MODULE MCFencedMutation --------------------------
(* Instances of FencedMutation for TLC. *)
EXTENDS FencedMutation, TLC

CONSTANTS d1, d2, p1, p2

ProcSymmetry == Permutations(Procs)
=============================================================================

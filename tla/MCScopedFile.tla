----------------------------- MODULE MCScopedFile -----------------------------
(* Instances of ScopedFile for TLC. *)
EXTENDS ScopedFile, TLC

CONSTANTS p1, p2

Everywhere == Points \ Waiting
ProcessSymmetry == Permutations(Processes)
=============================================================================

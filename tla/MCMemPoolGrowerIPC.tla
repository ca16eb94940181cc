-------------------------- MODULE MCMemPoolGrowerIPC --------------------------
(* Instances of MemPoolGrowerIPC for TLC. *)
EXTENDS MemPoolGrowerIPC, TLC
CONSTANTS p1, p2
Symmetry == Permutations(Callers)
=============================================================================

---------------------------- MODULE MCMemPoolIPC ----------------------------
(* Instances of MemPoolIPC for TLC. *)
EXTENDS MemPoolIPC, TLC
CONSTANTS p1, p2, p3
Symmetry == Permutations(Procs)
=============================================================================

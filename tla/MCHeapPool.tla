----------------------------- MODULE MCHeapPool -----------------------------
(* Instances of HeapPoolMemory for TLC. *)
EXTENDS HeapPoolMemory, TLC
CONSTANTS t1, t2
Symmetry == Permutations(Threads)

\* Two blocks, or pointers, blocks that are over-aligned or too large for size_t, and
\* two arrays of two.
MCRequests ==
  {[elements |-> 2, size |-> 2, align |-> 2],
   [elements |-> 2, size |-> 4, align |-> 4],
   [elements |-> 2, size |-> 18, align |-> 2],
   [elements |-> 4, size |-> 1, align |-> 1]}
=============================================================================

-------------------------- MODULE MCShmemAllocator --------------------------
(* A small instance of ShmemAllocator for TLC.                               *)
EXTENDS ShmemAllocator, TLC

MCWidth == [l \in 0 .. 2 |-> <<4, 2, 1>>[l + 1]]

Symmetry == Permutations(Proc)
=============================================================================

------------------------------- MODULE MCHeap -------------------------------
(* Heap on small instances: the addresses are interchangeable. *)
EXTENDS Heap, TLC

Symmetry == Permutations(Obj)
=============================================================================

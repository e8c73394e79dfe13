------------------------------ MODULE MCChunks ------------------------------
(* Chunks with fewer addresses than trees, so that addresses are reused. *)
EXTENDS Chunks, TLC

Symmetry == Permutations(Tree) \cup Permutations(Addr)
=============================================================================

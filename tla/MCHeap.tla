------------------------------ MODULE MCHeap ------------------------------
(* Heap for TLC. *)
EXTENDS Heap, TLC

(* Addresses differ in nothing but their identity. *)
Symmetry == Permutations(Addrs)
=============================================================================

------------------------------ MODULE MCDeque -------------------------------
(* A small instance of the work-stealing deque. *)
EXTENDS Deque, TLC

\* Items may be exchanged.
Symmetry == Permutations(Items)
=============================================================================

---------------------------- MODULE MCWaitQueue -----------------------------
(* Small instances of the wait queue. *)
EXTENDS WaitQueue, TLC

\* Tasks that differ in nothing may be exchanged.
Symmetry == Permutations(Nodes)
=============================================================================

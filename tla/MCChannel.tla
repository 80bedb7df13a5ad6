----------------------------- MODULE MCChannel ------------------------------
(* A small instance of the channel. *)
EXTENDS Channel, TLC

\* Senders may be exchanged.
Symmetry == Permutations(Senders)
=============================================================================

----------------------------- MODULE MCSpscRing -----------------------------
(* A small instance of the message ring. *)
EXTENDS SpscRing
=============================================================================

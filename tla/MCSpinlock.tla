----------------------------- MODULE MCSpinlock -----------------------------
(* Small instances of the ticket spinlock. *)
EXTENDS Spinlock
=============================================================================

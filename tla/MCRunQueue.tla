----------------------------- MODULE MCRunQueue -----------------------------
(* Small instances of the run queue. *)
EXTENDS RunQueue, TLC
=============================================================================

------------------------------ MODULE MCOneshot -----------------------------
(* A small instance of the oneshot channel. *)
EXTENDS Oneshot
=============================================================================

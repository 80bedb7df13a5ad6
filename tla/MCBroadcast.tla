---------------------------- MODULE MCBroadcast -----------------------------
(* A small instance of the broadcast channel. *)
EXTENDS Broadcast
=============================================================================

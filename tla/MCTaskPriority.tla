--------------------------- MODULE MCTaskPriority ---------------------------
(* A small instance of the priorities of a task, decayed a few times. *)
EXTENDS TaskPriority

Few == effective_priority > -4
=============================================================================

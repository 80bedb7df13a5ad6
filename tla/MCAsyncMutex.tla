---------------------------- MODULE MCAsyncMutex ----------------------------
(* Small instances of the async mutex. *)
EXTENDS AsyncMutex, TLC

CONSTANTS t1, t2, t3

Equal == [t \in Tasks |-> 0]
FirstIsUrgent == [t \in Tasks |-> IF t = t1 THEN 1 ELSE 0]

\* Tasks of one priority may be exchanged.
Symmetry == Permutations(Tasks)
=============================================================================

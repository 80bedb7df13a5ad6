----------------------------- MODULE MCExecutor -----------------------------
(* Small instances of the executors. *)
EXTENDS Executor, TLC

CONSTANTS c1, c2, a, b

\* Three quanta lower a's priority as far as it goes; b is done with its first.
Polls == (a :> 6) @@ (b :> 2)

AllCores == [t \in Tasks |-> Cores]
FirstCore == [t \in Tasks |-> {c1}]
=============================================================================

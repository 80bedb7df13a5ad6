---------------------------- MODULE MCHandleTable ---------------------------
(* A small instance of the handle tables and of the objects they refer to. *)
EXTENDS KernelObject, TLC

READ == "READ"
TwoTables == {1, 2}
Rights == {READ, DUPLICATE, TRANSFER}
NotRead == {{DUPLICATE, TRANSFER}}
NotTransfer == {{READ, DUPLICATE}}
Distinct == {p \in Tables \X Tables : p[1] # p[2]}
Same == {p \in Tables \X Tables : p[1] = p[2]}

\* Threads that transfer may be exchanged.
Symmetry == Permutations(Threads)

\* No guard and no property of the run looks at the last outcome.
NoOutcome == <<tab, lock, pc, call, live, dead, granted, wrapped, koVars>>
=============================================================================

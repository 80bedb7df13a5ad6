---------------------------- MODULE PriorityQueue ----------------------------
(***************************************************************************)
(* What a wait queue promises its users (wait_queue.rs:1-4, 54-55): a      *)
(* queue of waiters in descending priority, first come first served among  *)
(* equals, from which a waker takes the first waiter or all of them, and   *)
(* every waiter that is taken is woken later.                              *)
(***************************************************************************)
EXTENDS Sequences, SequencesExt

CONSTANTS Nodes, Priorities, Wakers

VARIABLES
  queue,  \* the waiters in wake order, each [node, prio]
  taken   \* the nodes each waker has taken and not yet woken

vars == <<queue, taken>>

Init ==
  /\ queue = <<>>
  /\ taken = [w \in Wakers |-> <<>>]

\* Behind every waiter of the same or a higher priority.
InsertOrdered(q, e) ==
  LET ahead == SelectSeq(q, LAMBDA x : x.prio >= e.prio)
      after == SelectSeq(q, LAMBDA x : x.prio < e.prio)
  IN  ahead \o <<e>> \o after

NodesOf(q) == [i \in DOMAIN q |-> q[i].node]

Insert(n, p) ==
  /\ n \notin Range(NodesOf(queue))
  /\ queue' = InsertOrdered(queue, [node |-> n, prio |-> p])
  /\ UNCHANGED taken

Leave(n) ==
  /\ n \in Range(NodesOf(queue))
  /\ queue' = SelectSeq(queue, LAMBDA x : x.node # n)
  /\ UNCHANGED taken

WakeOne(w) ==
  /\ queue # <<>> /\ taken[w] = <<>>
  /\ taken' = [taken EXCEPT ![w] = <<Head(queue).node>>]
  /\ queue' = Tail(queue)

WakeAll(w) ==
  /\ queue # <<>> /\ taken[w] = <<>>
  /\ taken' = [taken EXCEPT ![w] = NodesOf(queue)]
  /\ queue' = <<>>

\* The waker calls the wakers it took, in order.
Deliver(w) ==
  /\ taken[w] # <<>>
  /\ taken' = [taken EXCEPT ![w] = Tail(@)]
  /\ UNCHANGED queue

Next ==
  \/ \E n \in Nodes : Leave(n) \/ \E p \in Priorities : Insert(n, p)
  \/ \E w \in Wakers : WakeOne(w) \/ WakeAll(w) \/ Deliver(w)

Spec == Init /\ [][Next]_vars
=============================================================================

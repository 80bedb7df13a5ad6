------------------------------ MODULE WaitQueue ------------------------------
(***************************************************************************)
(* The intrusive wait queue of primitives/wait_queue.rs, pointer by        *)
(* pointer.  `lock` is the inner Spinlock, used as its contract promises:  *)
(* a critical section without a loop is one step, the sorting loop of      *)
(* enqueue() and the draining loop of wake_all() are one step per          *)
(* iteration with the lock held.  `len` is updated outside the lock.       *)
(***************************************************************************)
EXTENDS Integers, Sequences, FiniteSets, SequencesExt

CONSTANTS
  Nodes,       \* one WaitNode per waiting task
  Priorities,  \* the priorities tasks wait with
  OneWakers,   \* callers of wake_one()
  AllWakers,   \* callers of wake_all()
  WakeBatch,   \* capacity of the wakers vector, 64 in the source
  LenBits,     \* width of len: usize
  Null         \* the null pointer

Wakers == OneWakers \cup AllWakers
LEN == 2^LenBits

\* No task is its own waker.
ASSUME WaitQueueAssumption ==
  /\ Null \notin Nodes \cup Wakers /\ Nodes \cap Wakers = {}
  /\ Priorities \subseteq Int
  /\ WakeBatch \in Nat \ {0} /\ LenBits \in Nat \ {0}

ASSUME LenAssumption == LEN \in Nat \ {0}

VARIABLES
  lock,   \* the actor inside a looping critical section, or Null
  head,
  tail,
  node,   \* the WaitNodes
  len,
  pc,     \* where each task and each waker is
  batch,  \* waker / wakers: the nodes whose wakers a waker took out
  woken   \* the task was woken since it last parked

vars == <<lock, head, tail, node, len, pc, batch, woken>>

NewNode == [waker |-> FALSE, priority |-> 0, next |-> Null, prev |-> Null,
            linked |-> FALSE]

Init ==
  /\ lock = Null
  /\ head = Null /\ tail = Null
  /\ node = [n \in Nodes |-> NewNode]
  /\ len = 0
  /\ pc = [a \in Nodes \cup Wakers |-> "idle"]
  /\ batch = [w \in Wakers |-> <<>>]
  /\ woken = [n \in Nodes |-> FALSE]

Goto(a, l) == pc' = [pc EXCEPT ![a] = l]

Unlinked(x) == [x EXCEPT !.next = Null, !.prev = Null, !.linked = FALSE]

-----------------------------------------------------------------------------
(* enqueue(): set_waker and set_priority, then the critical section *)

\* The node is appended at the tail.
EnqueueLink(n, p) ==
  /\ pc[n] = "idle" /\ lock = Null
  /\ lock' = n
  /\ LET new  == [waker |-> TRUE, priority |-> p, next |-> Null,
                  prev |-> tail, linked |-> TRUE]
         nde1 == [node EXCEPT ![n] = new]
     IN  node' = IF tail = Null THEN nde1 ELSE [nde1 EXCEPT ![tail].next = n]
  /\ head' = IF tail = Null THEN n ELSE head
  /\ tail' = n
  /\ woken' = [woken EXCEPT ![n] = FALSE]
  /\ Goto(n, "sort")
  /\ UNCHANGED <<len, batch>>

\* Mutant: waiters of equal priority overtake each other.
MovesAheadOfEquals(n) ==
  /\ node[n].prev # Null
  /\ node[node[n].prev].priority <= node[n].priority

\* The condition of the insertion sort's loop.
MovesAhead(n) ==
  /\ node[n].prev # Null
  /\ node[node[n].prev].priority < node[n].priority

\* Mutant: the node that ends up behind the swapped pair keeps its prev.
SwapPointersNoBack(n, c) ==
  LET before == node[c].prev
      after  == node[n].next
      swapped == [node EXCEPT ![n].prev = before, ![n].next = c,
                              ![c].prev = n, ![c].next = after]
  IN  IF before = Null THEN swapped ELSE [swapped EXCEPT ![before].next = n]

\* n and its predecessor c swap places.
SwapPointers(n, c) ==
  LET before == node[c].prev
      after  == node[n].next
      swapped == [node EXCEPT ![n].prev = before, ![n].next = c,
                              ![c].prev = n, ![c].next = after]
      front   == IF before = Null THEN swapped
                 ELSE [swapped EXCEPT ![before].next = n]
  IN  IF after = Null THEN front ELSE [front EXCEPT ![after].prev = c]

\* One iteration of the insertion sort.
SortStep(n) ==
  /\ pc[n] = "sort" /\ MovesAhead(n)
  /\ LET c == node[n].prev IN
       /\ node' = SwapPointers(n, c)
       /\ head' = IF node[c].prev = Null THEN n ELSE head
       /\ tail' = IF node[n].next = Null THEN c ELSE tail
  /\ UNCHANGED <<lock, len, pc, batch, woken>>

\* drop(inner)
SortDone(n) ==
  /\ pc[n] = "sort" /\ ~MovesAhead(n)
  /\ lock' = Null
  /\ Goto(n, "count")
  /\ UNCHANGED <<head, tail, node, len, batch, woken>>

EnqueueCount(n) ==
  /\ pc[n] = "count"
  /\ len' = (len + 1) % LEN
  /\ Goto(n, "parked")
  /\ UNCHANGED <<lock, head, tail, node, batch, woken>>

-----------------------------------------------------------------------------
(* remove(): a task gives up its wait, or finds it was already dequeued *)

RemoveLinked(n) ==
  /\ pc[n] = "parked" /\ lock = Null /\ node[n].linked
  /\ LET p == node[n].prev
         x == node[n].next
         front == IF p = Null THEN node ELSE [node EXCEPT ![p].next = x]
         back  == IF x = Null THEN front ELSE [front EXCEPT ![x].prev = p]
     IN  /\ node' = [back EXCEPT ![n] = Unlinked(@)]
         /\ head' = IF p = Null THEN x ELSE head
         /\ tail' = IF x = Null THEN p ELSE tail
  /\ Goto(n, "uncount")
  /\ UNCHANGED <<lock, len, batch, woken>>

\* The early return.
RemoveUnlinked(n) ==
  /\ pc[n] = "parked" /\ lock = Null /\ ~node[n].linked
  /\ Goto(n, "idle")
  /\ UNCHANGED <<lock, head, tail, node, len, batch, woken>>

RemoveCount(n) ==
  /\ pc[n] = "uncount"
  /\ len' = (len - 1) % LEN
  /\ Goto(n, "idle")
  /\ UNCHANGED <<lock, head, tail, node, batch, woken>>

-----------------------------------------------------------------------------
(* wake_one() and wake_all() *)

\* The head node leaves the list and gives up its waker.
PopHead ==
  LET n == head
      x == node[head].next
  IN  /\ head' = x
      /\ tail' = IF x = Null THEN Null ELSE tail
      /\ node' = LET rest == IF x = Null THEN node
                             ELSE [node EXCEPT ![x].prev = Null]
                 IN  [rest EXCEPT ![n] = [Unlinked(@) EXCEPT !.waker = FALSE]]

\* Mutant: the vector refuses its last place.
PushWakerShort(ws, n) ==
  IF node[n].waker /\ Len(ws) + 1 < WakeBatch THEN Append(ws, n) ELSE ws

\* wakers.push: a waker beyond the capacity is returned and dropped.
PushWaker(ws, n) ==
  IF node[n].waker /\ Len(ws) < WakeBatch THEN Append(ws, n) ELSE ws

\* Nothing happens when the queue is empty.
WakeOnePop(w) ==
  /\ w \in OneWakers /\ pc[w] = "idle" /\ lock = Null /\ head # Null
  /\ PopHead
  /\ batch' = [batch EXCEPT ![w] = PushWaker(<<>>, head)]
  /\ Goto(w, "uncount")
  /\ UNCHANGED <<lock, len, woken>>

WakeOneCount(w) ==
  /\ pc[w] = "uncount"
  /\ len' = (len - 1) % LEN
  /\ Goto(w, "wake")
  /\ UNCHANGED <<lock, head, tail, node, batch, woken>>

WakeAllLock(w) ==
  /\ w \in AllWakers /\ pc[w] = "idle" /\ lock = Null
  /\ lock' = w
  /\ Goto(w, "drain")
  /\ UNCHANGED <<head, tail, node, len, batch, woken>>

DrainStep(w) ==
  /\ pc[w] = "drain" /\ head # Null
  /\ PopHead
  /\ batch' = [batch EXCEPT ![w] = PushWaker(@, head)]
  /\ UNCHANGED <<lock, len, pc, woken>>

DrainDone(w) ==
  /\ pc[w] = "drain" /\ head = Null
  /\ lock' = Null
  /\ Goto(w, "zero")
  /\ UNCHANGED <<head, tail, node, len, batch, woken>>

WakeAllZero(w) ==
  /\ pc[w] = "zero"
  /\ len' = 0
  /\ Goto(w, "wake")
  /\ UNCHANGED <<lock, head, tail, node, batch, woken>>

\* w.wake() on the next waker; the batch belongs to this call alone.
Wake(w) ==
  /\ pc[w] = "wake" /\ batch[w] # <<>>
  /\ woken' = [woken EXCEPT ![Head(batch[w])] = TRUE]
  /\ batch' = [batch EXCEPT ![w] = Tail(@)]
  /\ UNCHANGED <<lock, head, tail, node, len, pc>>

WakeDone(w) ==
  /\ pc[w] = "wake" /\ batch[w] = <<>>
  /\ Goto(w, "idle")
  /\ UNCHANGED <<lock, head, tail, node, len, batch, woken>>

-----------------------------------------------------------------------------
TaskStep(n) ==
  \/ \E p \in Priorities : EnqueueLink(n, p)
  \/ SortStep(n) \/ SortDone(n) \/ EnqueueCount(n)
  \/ RemoveLinked(n) \/ RemoveUnlinked(n) \/ RemoveCount(n)

WakerStep(w) ==
  \/ WakeOnePop(w) \/ WakeOneCount(w)
  \/ WakeAllLock(w) \/ DrainStep(w) \/ DrainDone(w) \/ WakeAllZero(w)
  \/ Wake(w) \/ WakeDone(w)

Next == (\E n \in Nodes : TaskStep(n)) \/ (\E w \in Wakers : WakerStep(w))

Spec == Init /\ [][Next]_vars

-----------------------------------------------------------------------------
(* Properties *)

TaskPCs == {"idle", "sort", "count", "parked", "uncount"}
WakerPCs == {"idle", "uncount", "drain", "zero", "wake"}

\* Pointers point to nodes, counters are within their width and batches
\* within the capacity of the vector.
TypeOK ==
  /\ lock \in Nodes \cup Wakers \cup {Null}
  /\ {head, tail} \subseteq Nodes \cup {Null}
  /\ node \in [Nodes -> [waker : BOOLEAN, priority : Priorities \cup {0},
                         next : Nodes \cup {Null}, prev : Nodes \cup {Null},
                         linked : BOOLEAN]]
  /\ len \in 0 .. LEN - 1
  /\ pc \in [Nodes \cup Wakers -> TaskPCs \cup WakerPCs]
  /\ \A n \in Nodes : pc[n] \in TaskPCs
  /\ \A w \in Wakers : pc[w] \in WakerPCs
  /\ batch \in [Wakers -> BoundedSeq(Nodes, WakeBatch)]
  /\ woken \in [Nodes -> BOOLEAN]

\* The list as the pointers give it: k steps from head.
Walk[k \in 0 .. Cardinality(Nodes)] ==
  IF k = 0 THEN head
  ELSE IF Walk[k - 1] = Null THEN Null ELSE node[Walk[k - 1]].next

Length == Cardinality({k \in DOMAIN Walk : Walk[k] # Null})

Contents ==
  [k \in 1 .. Length |-> [node |-> Walk[k - 1],
                          prio |-> node[Walk[k - 1]].priority]]

\* Whenever nobody is in a critical section, the doubly linked list is intact:
\* walking from head meets exactly the linked nodes, tail is the last of
\* them, prev undoes next, and priorities do not rise along the way.
WellFormed ==
  lock = Null =>
    LET q == Contents IN
    /\ {q[k].node : k \in DOMAIN q} = {n \in Nodes : node[n].linked}
    /\ IsInjective([k \in DOMAIN q |-> q[k].node])
    /\ tail = IF q = <<>> THEN Null ELSE Last(q).node
    /\ \A k \in DOMAIN q :
         /\ node[q[k].node].prev = IF k = 1 THEN Null ELSE q[k - 1].node
         /\ k > 1 => q[k - 1].prio >= q[k].prio

\* A task that parked cannot be forgotten: it is in the list, or a waker took
\* it out and will call its waker, or it has been woken.
NoWaiterForgotten ==
  \A n \in Nodes : pc[n] = "parked" =>
    \/ node[n].linked \/ woken[n]
    \/ \E w \in Wakers : n \in Range(batch[w])

-----------------------------------------------------------------------------
(* Refinement: inserting takes effect when enqueue() drops the lock,       *)
(* wake_all() when it gets it.                                             *)

Draining(w) == pc[w] = "drain"

AbstractQueue ==
  IF \E w \in Wakers : Draining(w) THEN <<>>
  ELSE SelectSeq(Contents, LAMBDA x : pc[x.node] # "sort")

AbstractTaken ==
  [w \in Wakers |->
     IF Draining(w)
     THEN batch[w] \o [k \in DOMAIN Contents |-> Contents[k].node]
     ELSE batch[w]]

Abstract ==
  INSTANCE PriorityQueue WITH queue <- AbstractQueue, taken <- AbstractTaken

\* The pointers implement the priority queue: every step of the code is a step
\* of it or changes nothing it shows.
ImplementsPriorityQueue == Abstract!Spec

-----------------------------------------------------------------------------
(* What the source's comments say and the code does not keep.  No run      *)
(* checks these; the README gives the counterexamples.                     *)

\* wait_queue.rs:229, "Returns the number of waiters": once every call that
\* touched the queue has returned, len() is the number of linked nodes.
LenExactWhenQuiescent ==
  (\A a \in Nodes \cup Wakers : pc[a] \in {"idle", "parked"}) =>
    len = Cardinality({n \in Nodes : node[n].linked})
=============================================================================

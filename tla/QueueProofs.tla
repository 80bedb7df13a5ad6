---------------------------- MODULE QueueProofs -----------------------------
(***************************************************************************)
(* Proofs about the wait queue, for every set of tasks, priorities and     *)
(* wakers; about the work-stealing deque, for every set of items and of    *)
(* thieves and every capacity; and about the broadcast channel, for every  *)
(* set of receivers.                                                       *)
(***************************************************************************)
EXTENDS WaitQueue, Deque, Broadcast, FiniteSetTheorems, WellFoundedInduction, TLAPS

-----------------------------------------------------------------------------
(* The wait queue.  The invariant exhibits the list that the pointers      *)
(* spell: the waiters in order, each once.                                 *)

\* The k-th node of a list, the null pointer beyond its ends.
Elem(q, k) == IF k \in 1 .. Len(q) THEN q[k] ELSE Null

Distinct(q) == \A i, j \in 1 .. Len(q) : q[i] = q[j] => i = j

\* The pointers h, t, nx and pv spell the list q of the nodes in `on`.
Links(q, h, t, nx, pv, on) ==
  /\ q \in Seq(Nodes) /\ Distinct(q)
  /\ on \subseteq Nodes /\ \A n \in Nodes : n \in on <=> \E i \in 1 .. Len(q) : q[i] = n
  /\ h = Elem(q, 1) /\ t = Elem(q, Len(q))
  /\ \A k \in 1 .. Len(q) : nx[q[k]] = Elem(q, k + 1) /\ pv[q[k]] = Elem(q, k - 1)

Nexts == [n \in Nodes |-> node[n].next]
Prevs == [n \in Nodes |-> node[n].prev]
Linked == {n \in Nodes : node[n].linked}

\* Only the node that is being inserted may be behind a lower priority.
Ordered(q) ==
  \A i, j \in 1 .. Len(q) :
    i < j => node[q[j]].priority <= node[q[i]].priority \/ pc[q[j]] = "sort"

IsList(q) == Links(q, head, tail, Nexts, Prevs, Linked) /\ Ordered(q)

Waiting(n) == pc[n] \in {"sort", "count", "parked"}

\* What a task or waker knows about its node, its batch and the lock.
ActorsSound ==
  /\ \A n \in Nodes :
       /\ pc[n] = "sort" <=> lock = n
       /\ node[n].linked => node[n].waker /\ Waiting(n)
       /\ pc[n] = "sort" => node[n].linked
  /\ \A w \in Wakers :
       /\ pc[w] = "drain" <=> lock = w
       /\ pc[w] = "idle" => batch[w] = <<>>
       /\ pc[w] = "drain" =>
            Distinct(batch[w]) /\ \A i \in 1 .. Len(batch[w]) : ~node[batch[w][i]].linked

WaitQueueInv == TypeOK /\ ActorsSound /\ \E q \in Seq(Nodes) : IsList(q)

\* A waiter that is not in the list has been woken, or will be.
Remembered(n) == node[n].linked \/ woken[n] \/ \E w \in Wakers : n \in Range(batch[w])

RememberedInv == \A n \in Nodes : Waiting(n) => Remembered(n)

-----------------------------------------------------------------------------
(* Types *)

\* The parts of the assumption, one by one.
LEMMA Distinctness ==
  Null \notin Nodes /\ Null \notin Wakers /\ \A w \in Wakers : w \notin Nodes
  BY WaitQueueAssumption

LEMMA PriorityInt == \A p \in Priorities \cup {0} : p \in Int
  BY WaitQueueAssumption

LEMMA BatchCap == WakeBatch \in Nat /\ WakeBatch > 0
  BY WaitQueueAssumption

LEMMA BoundedBatch ==
  \A s : s \in BoundedSeq(Nodes, WakeBatch) <=> s \in Seq(Nodes) /\ Len(s) <= WakeBatch
<1>1. ASSUME NEW s \in BoundedSeq(Nodes, WakeBatch)
      PROVE  s \in Seq(Nodes) /\ Len(s) <= WakeBatch
  <2>1. PICK m \in 0 .. WakeBatch : s \in [1 .. m -> Nodes]
    BY DEF BoundedSeq, SeqOf
  <2> QED
    BY <2>1, BatchCap
<1>2. ASSUME NEW s \in Seq(Nodes), Len(s) <= WakeBatch
      PROVE  s \in BoundedSeq(Nodes, WakeBatch)
  <2>1. Len(s) \in 0 .. WakeBatch /\ s \in [1 .. Len(s) -> Nodes]
    BY <1>2, BatchCap
  <2> QED
    BY <2>1 DEF BoundedSeq, SeqOf
<1> QED
  BY <1>1, <1>2

NodeType == [waker : BOOLEAN, priority : Priorities \cup {0},
             next : Nodes \cup {Null}, prev : Nodes \cup {Null}, linked : BOOLEAN]

\* What the types say of one node, and of one batch.
LEMMA WaitTypes ==
  ASSUME TypeOK
  PROVE  /\ node \in [Nodes -> NodeType] /\ batch \in [Wakers -> Seq(Nodes)]
         /\ \A n \in Nodes :
              /\ node[n].next \in Nodes \cup {Null} /\ node[n].prev \in Nodes \cup {Null}
              /\ node[n].priority \in Int
         /\ \A w \in Wakers : Len(batch[w]) \in Nat /\ Len(batch[w]) <= WakeBatch
<1>1. node \in [Nodes -> NodeType]
  BY DEF TypeOK, NodeType
<1>2. \A w \in Wakers : batch[w] \in Seq(Nodes) /\ Len(batch[w]) <= WakeBatch
  BY BoundedBatch DEF TypeOK
<1>3. \A w \in Wakers : Len(batch[w]) \in Nat
  BY <1>2
<1>4. batch \in [Wakers -> Seq(Nodes)]
  BY <1>2 DEF TypeOK
<1>5. \A n \in Nodes : /\ node[n].next \in Nodes \cup {Null}
                       /\ node[n].prev \in Nodes \cup {Null}
                       /\ node[n].priority \in Int
  <2> SUFFICES ASSUME NEW n \in Nodes
               PROVE  /\ node[n].next \in Nodes \cup {Null}
                      /\ node[n].prev \in Nodes \cup {Null}
                      /\ node[n].priority \in Int
    OBVIOUS
  <2>1. node[n] \in NodeType
    BY <1>1
  <2>2. node[n].priority \in Priorities \cup {0}
    BY <2>1 DEF NodeType
  <2>3. node[n].next \in Nodes \cup {Null} /\ node[n].prev \in Nodes \cup {Null}
    BY <2>1 DEF NodeType
  <2> QED
    BY <2>2, <2>3, PriorityInt
<1> QED
  BY <1>1, <1>2, <1>3, <1>4, <1>5

\* An actor moves; nothing else is said of the state.
LEMMA Moves ==
  ASSUME TypeOK, NEW a \in Nodes \cup Wakers, NEW l, Goto(a, l),
         a \in Nodes => l \in TaskPCs, a \in Wakers => l \in WakerPCs
  PROVE  /\ pc' \in [Nodes \cup Wakers -> TaskPCs \cup WakerPCs]
         /\ \A n \in Nodes : pc'[n] \in TaskPCs
         /\ \A w \in Wakers : pc'[w] \in WakerPCs
         /\ pc'[a] = l /\ \A b \in Nodes \cup Wakers : b # a => pc'[b] = pc[b]
  BY DEF TypeOK, Goto

LEMMA PushWakerType ==
  ASSUME NEW s \in BoundedSeq(Nodes, WakeBatch), NEW n \in Nodes
  PROVE  PushWaker(s, n) \in BoundedSeq(Nodes, WakeBatch)
<1>1. s \in Seq(Nodes) /\ Len(s) <= WakeBatch /\ Len(s) \in Nat
  BY BoundedBatch
<1>2. Append(s, n) \in Seq(Nodes) /\ Len(Append(s, n)) = Len(s) + 1
  BY <1>1
<1>3. Len(s) < WakeBatch => Append(s, n) \in BoundedSeq(Nodes, WakeBatch)
  <2>1. Len(s) < WakeBatch => Len(Append(s, n)) <= WakeBatch
    BY <1>1, <1>2, BatchCap
  <2> QED
    BY <1>2, <2>1, BoundedBatch
<1>4. \/ PushWaker(s, n) = Append(s, n) /\ Len(s) < WakeBatch
      \/ PushWaker(s, n) = s
  <2>1. CASE node[n].waker /\ Len(s) < WakeBatch
    BY <2>1 DEF PushWaker
  <2>2. CASE ~(node[n].waker /\ Len(s) < WakeBatch)
    BY <2>2 DEF PushWaker
  <2> QED
    BY <2>1, <2>2
<1> QED
  BY <1>3, <1>4

LEMMA SwapType ==
  ASSUME TypeOK, NEW n \in Nodes, NEW c \in Nodes
  PROVE  SwapPointers(n, c) \in [Nodes -> NodeType]
<1> DEFINE before == node[c].prev
           after == node[n].next
           swapped == [node EXCEPT ![n].prev = before, ![n].next = c,
                                   ![c].prev = n, ![c].next = after]
           front == IF before = Null THEN swapped
                    ELSE [swapped EXCEPT ![before].next = n]
<1>1. before \in Nodes \cup {Null} /\ after \in Nodes \cup {Null}
  BY WaitTypes
<1>2. SwapPointers(n, c) = IF after = Null THEN front ELSE [front EXCEPT ![after].prev = c]
  BY DEF SwapPointers
<1>3. node \in [Nodes -> NodeType]
  BY WaitTypes
<1> HIDE DEF before, after
<1>4. swapped \in [Nodes -> NodeType]
  <2> DEFINE half == [[node EXCEPT ![n].prev = before] EXCEPT ![n].next = c]
             more == [[half EXCEPT ![c].prev = n] EXCEPT ![c].next = after]
  <2>1. half \in [Nodes -> NodeType]
    BY <1>1, <1>3 DEF NodeType
  <2>2. swapped = more
    BY <1>3
  <2> HIDE DEF half, swapped
  <2>3. more \in [Nodes -> NodeType]
    BY <1>1, <2>1 DEF NodeType
  <2> QED
    BY <2>2, <2>3
<1> HIDE DEF swapped
<1>5. front \in [Nodes -> NodeType]
  BY <1>1, <1>4 DEF NodeType
<1> HIDE DEF front
<1> QED
  BY <1>1, <1>2, <1>5 DEF NodeType

LEMMA PopHeadType ==
  ASSUME TypeOK, head # Null, PopHead
  PROVE  /\ head \in Nodes /\ {head', tail'} \subseteq Nodes \cup {Null}
         /\ node' \in [Nodes -> NodeType]
<1>1. head \in Nodes /\ tail \in Nodes \cup {Null}
  BY DEF TypeOK
<1>2. node \in [Nodes -> NodeType]
  BY WaitTypes
<1> DEFINE x == node[head].next
           rest == IF x = Null THEN node ELSE [node EXCEPT ![x].prev = Null]
<1>3. x \in Nodes \cup {Null}
  BY <1>1, WaitTypes
<1>4. rest \in [Nodes -> NodeType]
  BY <1>2, <1>3 DEF NodeType
<1>5. /\ head' = x /\ tail' = IF x = Null THEN Null ELSE tail
      /\ node' = [rest EXCEPT ![head] = [Unlinked(@) EXCEPT !.waker = FALSE]]
  BY DEF PopHead
<1> HIDE DEF x, rest
<1>6. node' \in [Nodes -> NodeType]
  BY <1>1, <1>4, <1>5 DEF Unlinked, NodeType
<1> QED
  BY <1>1, <1>3, <1>5, <1>6

LEMMA TaskType ==
  ASSUME TypeOK, NEW n \in Nodes, TaskStep(n)
  PROVE  TypeOK'
<1>0. /\ n \notin Wakers /\ n \in Nodes \cup Wakers /\ n # Null
      /\ node \in [Nodes -> NodeType] /\ {head, tail} \subseteq Nodes \cup {Null}
      /\ node[n].next \in Nodes \cup {Null} /\ node[n].prev \in Nodes \cup {Null}
  BY Distinctness, WaitTypes DEF TypeOK
<1>1. ASSUME NEW p \in Priorities, EnqueueLink(n, p) PROVE TypeOK'
  <2> DEFINE new == [waker |-> TRUE, priority |-> p, next |-> Null,
                     prev |-> tail, linked |-> TRUE]
             nde1 == [node EXCEPT ![n] = new]
  <2>1. nde1 \in [Nodes -> NodeType]
    BY <1>0 DEF NodeType
  <2>2. node' = IF tail = Null THEN nde1 ELSE [nde1 EXCEPT ![tail].next = n]
    BY <1>1 DEF EnqueueLink
  <2> HIDE DEF nde1
  <2>3. node' \in [Nodes -> NodeType]
    BY <1>0, <2>1, <2>2 DEF NodeType
  <2>4. /\ lock' = n /\ head' \in Nodes \cup {Null} /\ tail' = n
        /\ woken' \in [Nodes -> BOOLEAN] /\ UNCHANGED <<len, batch>> /\ Goto(n, "sort")
    BY <1>0, <1>1 DEF EnqueueLink, TypeOK
  <2> QED
    BY <1>0, <2>3, <2>4, Moves DEF TypeOK, TaskPCs, NodeType
<1>2. CASE SortStep(n)
  <2>1. node[n].prev \in Nodes
    BY <1>0, <1>2 DEF SortStep, MovesAhead
  <2>2. node' \in [Nodes -> NodeType]
    BY <1>2, <2>1, SwapType DEF SortStep
  <2>3. {head', tail'} \subseteq Nodes \cup {Null}
    BY <1>0, <1>2, <2>1 DEF SortStep
  <2> QED
    BY <1>2, <2>2, <2>3 DEF SortStep, TypeOK, NodeType
<1>3. CASE SortDone(n)
  BY <1>0, <1>3, Moves DEF SortDone, TypeOK, TaskPCs
<1>4. CASE EnqueueCount(n)
  <2>1. len' \in 0 .. LEN - 1
    BY <1>4, LenAssumption DEF EnqueueCount, TypeOK
  <2> QED
    BY <1>0, <1>4, <2>1, Moves DEF EnqueueCount, TypeOK, TaskPCs
<1>5. CASE RemoveLinked(n)
  <2> DEFINE p == node[n].prev
             x == node[n].next
             front == IF p = Null THEN node ELSE [node EXCEPT ![p].next = x]
             back  == IF x = Null THEN front ELSE [front EXCEPT ![x].prev = p]
  <2>1. p \in Nodes \cup {Null} /\ x \in Nodes \cup {Null}
    BY <1>0
  <2>2. /\ node' = [back EXCEPT ![n] = Unlinked(@)]
        /\ head' = IF p = Null THEN x ELSE head
        /\ tail' = IF x = Null THEN p ELSE tail
        /\ Goto(n, "uncount") /\ UNCHANGED <<lock, len, batch, woken>>
    BY <1>5 DEF RemoveLinked
  <2> HIDE DEF p, x
  <2>3. front \in [Nodes -> NodeType]
    BY <1>0, <2>1 DEF NodeType
  <2> HIDE DEF front
  <2>4. back \in [Nodes -> NodeType]
    BY <2>1, <2>3 DEF NodeType
  <2> HIDE DEF back
  <2>5. node' \in [Nodes -> NodeType]
    BY <2>2, <2>4 DEF NodeType, Unlinked
  <2> QED
    BY <1>0, <2>1, <2>2, <2>5, Moves DEF TypeOK, TaskPCs, NodeType
<1>6. CASE RemoveUnlinked(n)
  BY <1>0, <1>6, Moves DEF RemoveUnlinked, TypeOK, TaskPCs
<1>7. CASE RemoveCount(n)
  <2>1. len' \in 0 .. LEN - 1
    BY <1>7, LenAssumption DEF RemoveCount, TypeOK
  <2> QED
    BY <1>0, <1>7, <2>1, Moves DEF RemoveCount, TypeOK, TaskPCs
<1> QED
  BY <1>1, <1>2, <1>3, <1>4, <1>5, <1>6, <1>7 DEF TaskStep

LEMMA WakerType ==
  ASSUME TypeOK, NEW w \in Wakers, WakerStep(w)
  PROVE  TypeOK'
<1>0. /\ w \notin Nodes /\ w \in Nodes \cup Wakers
      /\ batch[w] \in BoundedSeq(Nodes, WakeBatch)
      /\ <<>> \in BoundedSeq(Nodes, WakeBatch)
  <2>1. <<>> \in Seq(Nodes) /\ Len(<<>>) <= WakeBatch
    BY BatchCap
  <2> QED
    BY <2>1, Distinctness, BoundedBatch DEF TypeOK
<1>1. CASE WakeOnePop(w)
  <2>1. head # Null /\ PopHead /\ Goto(w, "uncount") /\ UNCHANGED <<lock, len, woken>>
        /\ batch' = [batch EXCEPT ![w] = PushWaker(<<>>, head)]
    BY <1>1 DEF WakeOnePop
  <2>2. head \in Nodes /\ {head', tail'} \subseteq Nodes \cup {Null}
        /\ node' \in [Nodes -> NodeType]
    BY <2>1, PopHeadType
  <2>3. PushWaker(<<>>, head) \in BoundedSeq(Nodes, WakeBatch)
    BY <1>0, <2>2, PushWakerType
  <2>4. batch' \in [Wakers -> BoundedSeq(Nodes, WakeBatch)]
    BY <2>1, <2>3 DEF TypeOK
  <2> QED
    BY <1>0, <2>1, <2>2, <2>4, Moves DEF TypeOK, WakerPCs, NodeType
<1>2. CASE WakeOneCount(w)
  <2>1. len' \in 0 .. LEN - 1
    BY <1>2, LenAssumption DEF WakeOneCount, TypeOK
  <2> QED
    BY <1>0, <1>2, <2>1, Moves DEF WakeOneCount, TypeOK, WakerPCs
<1>3. CASE WakeAllLock(w)
  BY <1>0, <1>3, Moves DEF WakeAllLock, TypeOK, WakerPCs
<1>4. CASE DrainStep(w)
  <2>1. head # Null /\ PopHead /\ UNCHANGED <<lock, len, pc, woken>>
        /\ batch' = [batch EXCEPT ![w] = PushWaker(@, head)]
    BY <1>4 DEF DrainStep
  <2>2. head \in Nodes /\ {head', tail'} \subseteq Nodes \cup {Null}
        /\ node' \in [Nodes -> NodeType]
    BY <2>1, PopHeadType
  <2>3. PushWaker(batch[w], head) \in BoundedSeq(Nodes, WakeBatch)
    BY <1>0, <2>2, PushWakerType
  <2>4. batch' \in [Wakers -> BoundedSeq(Nodes, WakeBatch)]
    BY <2>1, <2>3 DEF TypeOK
  <2> QED
    BY <2>1, <2>2, <2>4 DEF TypeOK, NodeType
<1>5. CASE DrainDone(w)
  BY <1>0, <1>5, Moves DEF DrainDone, TypeOK, WakerPCs
<1>6. CASE WakeAllZero(w)
  <2>1. len' \in 0 .. LEN - 1
    BY <1>6, LenAssumption DEF WakeAllZero
  <2> QED
    BY <1>0, <1>6, <2>1, Moves DEF WakeAllZero, TypeOK, WakerPCs
<1>7. CASE Wake(w)
  <2>1. Tail(batch[w]) \in BoundedSeq(Nodes, WakeBatch)
    <3>1. batch[w] \in Seq(Nodes) /\ batch[w] # <<>> /\ Len(batch[w]) <= WakeBatch
      BY <1>0, <1>7, BoundedBatch DEF Wake
    <3>2. Tail(batch[w]) \in Seq(Nodes) /\ Len(Tail(batch[w])) = Len(batch[w]) - 1
          /\ Len(batch[w]) \in Nat
      BY <3>1
    <3>3. Len(Tail(batch[w])) <= WakeBatch
      BY <3>1, <3>2, BatchCap
    <3> QED
      BY <3>2, <3>3, BoundedBatch
  <2>2. batch' \in [Wakers -> BoundedSeq(Nodes, WakeBatch)]
    BY <1>7, <2>1 DEF Wake, TypeOK
  <2>3. woken' \in [Nodes -> BOOLEAN]
    BY <1>7 DEF Wake, TypeOK
  <2> QED
    BY <1>7, <2>2, <2>3 DEF Wake, TypeOK
<1>8. CASE WakeDone(w)
  BY <1>0, <1>8, Moves DEF WakeDone, TypeOK, WakerPCs
<1> QED
  BY <1>1, <1>2, <1>3, <1>4, <1>5, <1>6, <1>7, <1>8 DEF WakerStep

-----------------------------------------------------------------------------
(* Lists and their pointers *)

LEMMA ElemIs ==
  ASSUME NEW q \in Seq(Nodes), NEW k \in Int
  PROVE  /\ Elem(q, k) = Null <=> k \notin 1 .. Len(q)
         /\ k \in 1 .. Len(q) => Elem(q, k) = q[k] /\ q[k] \in Nodes
  BY Distinctness DEF Elem

LEMMA FunctionSeq ==
  ASSUME NEW S, NEW n \in Nat, NEW f \in [1 .. n -> S]
  PROVE  f \in Seq(S) /\ Len(f) = n
  OBVIOUS

LEMMA AppendLinks ==
  ASSUME NEW q, NEW h, NEW t, NEW nx, NEW pv, NEW on, Links(q, h, t, nx, pv, on),
         NEW n \in Nodes \ on, NEW h2, NEW nx2, NEW pv2,
         nx2[n] = Null, pv2[n] = t,
         \A m \in on : pv2[m] = pv[m] /\ nx2[m] = IF m = t THEN n ELSE nx[m],
         h2 = IF t = Null THEN n ELSE h
  PROVE  Links(Append(q, n), h2, n, nx2, pv2, on \cup {n})
<1> DEFINE q2 == Append(q, n)
           L == Len(q)
<1>1. /\ q \in Seq(Nodes) /\ L \in Nat /\ q2 \in Seq(Nodes) /\ Len(q2) = L + 1
      /\ \A k \in 1 .. L : q2[k] = q[k] /\ q[k] \in Nodes
      /\ q2[L + 1] = n
  BY DEF Links
<1>2. \A k \in 1 .. L : q[k] \in on
  BY <1>1 DEF Links
<1>3. \A k \in 1 .. L : q[k] # n
  BY <1>2
<1> HIDE DEF q2, L
<1>4. \A k \in Int : Elem(q2, k) = IF k = L + 1 THEN n ELSE Elem(q, k)
  <2> SUFFICES ASSUME NEW k \in Int
               PROVE  Elem(q2, k) = IF k = L + 1 THEN n ELSE Elem(q, k)
    OBVIOUS
  <2>1. CASE k \in 1 .. L
    BY <1>1, <2>1 DEF Elem, L
  <2>2. CASE k = L + 1
    BY <1>1, <2>2 DEF Elem
  <2>3. CASE k \notin 1 .. L /\ k # L + 1
    BY <1>1, <2>3 DEF Elem, L
  <2> QED
    BY <2>1, <2>2, <2>3
<1>5. Distinct(q2)
  <2>1. \A i, j \in 1 .. L : q[i] = q[j] => i = j
    BY DEF Links, Distinct, L
  <2>2. \A i \in 1 .. L + 1 : i \in 1 .. L \/ i = L + 1
    BY <1>1
  <2> QED
    BY <1>1, <1>3, <2>1, <2>2 DEF Distinct
<1>6. ASSUME NEW m \in Nodes
      PROVE  m \in on \cup {n} <=> \E i \in 1 .. Len(q2) : q2[i] = m
  <2>1. m \in on <=> \E i \in 1 .. L : q[i] = m
    BY DEF Links, L
  <2>2. \A i \in 1 .. L + 1 : i \in 1 .. L \/ i = L + 1
    BY <1>1
  <2>3. L + 1 \in 1 .. L + 1 /\ \A i \in 1 .. L : i \in 1 .. L + 1
    BY <1>1
  <2> QED
    BY <1>1, <2>1, <2>2, <2>3
<1>7. t = Elem(q, L) /\ h = Elem(q, 1)
      /\ \A k \in 1 .. L : nx[q[k]] = Elem(q, k + 1) /\ pv[q[k]] = Elem(q, k - 1)
  BY DEF Links, L
<1>8. h2 = Elem(q2, 1)
  <2>1. CASE L = 0
    BY <1>1, <1>4, <1>7, <2>1, ElemIs DEF L
  <2>2. CASE L > 0
    <3>1. t # Null /\ 1 # L + 1
      BY <1>1, <1>7, <2>2, ElemIs DEF L
    <3> QED
      BY <1>4, <1>7, <3>1
  <2> QED
    BY <1>1, <2>1, <2>2
<1>9. n = Elem(q2, Len(q2))
  BY <1>1, <1>4
<1>10. ASSUME NEW k \in 1 .. Len(q2)
       PROVE  nx2[q2[k]] = Elem(q2, k + 1) /\ pv2[q2[k]] = Elem(q2, k - 1)
  <2>0. k \in Int /\ k + 1 \in Int /\ k - 1 \in Int /\ k - 1 # L + 1
    BY <1>1
  <2>1. CASE k = L + 1
    <3>1. Elem(q2, k + 1) = Null
      <4>1. k + 1 \notin 1 .. L /\ k + 1 # L + 1
        BY <1>1, <2>1
      <4> QED
        BY <1>1, <1>4, <2>0, <4>1, ElemIs DEF L
    <3>2. Elem(q2, k - 1) = t
      BY <1>1, <1>4, <1>7, <2>0, <2>1
    <3> QED
      BY <1>1, <2>1, <3>1, <3>2
  <2>2. CASE k = L /\ k \in 1 .. L
    <3>1. q[k] = t
      BY <1>1, <1>7, <2>2, ElemIs DEF L
    <3>2. q2[k] = q[k] /\ q[k] \in on /\ pv[q[k]] = Elem(q, k - 1)
      BY <1>1, <1>2, <1>7, <2>2
    <3>3. nx2[q[k]] = n /\ pv2[q[k]] = pv[q[k]]
      BY <3>1, <3>2
    <3>4. Elem(q2, k + 1) = n
      BY <1>4, <2>0, <2>2
    <3>5. Elem(q2, k - 1) = Elem(q, k - 1)
      BY <1>4, <2>0
    <3> QED
      BY <3>2, <3>3, <3>4, <3>5
  <2>3. CASE k \in 1 .. L /\ k # L
    <3>1. q[k] # t
      <4>1. t = q[L] /\ L \in 1 .. L
        BY <1>1, <1>7, <2>3, ElemIs DEF L
      <4>2. \A i, j \in 1 .. L : q[i] = q[j] => i = j
        BY DEF Links, Distinct, L
      <4> QED
        BY <2>3, <4>1, <4>2
    <3>2. k + 1 # L + 1
      BY <1>1, <2>0, <2>3
    <3>3. q2[k] = q[k] /\ q[k] \in on
          /\ nx[q[k]] = Elem(q, k + 1) /\ pv[q[k]] = Elem(q, k - 1)
      BY <1>1, <1>2, <1>7, <2>3
    <3>4. nx2[q[k]] = nx[q[k]] /\ pv2[q[k]] = pv[q[k]]
      BY <3>1, <3>3
    <3>5. Elem(q2, k + 1) = Elem(q, k + 1) /\ Elem(q2, k - 1) = Elem(q, k - 1)
      BY <1>4, <2>0, <3>2
    <3> QED
      BY <3>3, <3>4, <3>5
  <2> QED
    BY <1>1, <2>1, <2>2, <2>3
<1>11. on \cup {n} \subseteq Nodes
  BY DEF Links
<1> QED
  BY <1>1, <1>5, <1>6, <1>8, <1>9, <1>10, <1>11 DEF Links, q2

\* q without its k-th node, and with its k-th node one place further to the front.
Dropped(q, k) == [i \in 1 .. Len(q) - 1 |-> IF i < k THEN q[i] ELSE q[i + 1]]
Swapped(q, k) ==
  [i \in 1 .. Len(q) |-> IF i = k THEN q[k - 1] ELSE IF i = k - 1 THEN q[k] ELSE q[i]]

\* What joining p and x, the neighbours of a node, does to the pointers.
Joined(on, nx, pv, nx2, pv2, p, x) ==
  \A m \in on : /\ nx2[m] = IF m = p THEN x ELSE nx[m]
               /\ pv2[m] = IF m = x THEN p ELSE pv[m]

\* All that changes when the node at k is taken out.
Unlinks(q, k, h, t, nx, pv, on, h2, t2, nx2, pv2, p, x) ==
  /\ k \in 1 .. Len(q) /\ p = pv[q[k]] /\ x = nx[q[k]]
  /\ Joined(on \ {q[k]}, nx, pv, nx2, pv2, p, x)
  /\ h2 = IF p = Null THEN x ELSE h
  /\ t2 = IF x = Null THEN p ELSE t

LEMMA DropLinks ==
  ASSUME NEW q, NEW h, NEW t, NEW nx, NEW pv, NEW on, Links(q, h, t, nx, pv, on),
         NEW k, NEW h2, NEW t2, NEW nx2, NEW pv2, NEW p, NEW x,
         Unlinks(q, k, h, t, nx, pv, on, h2, t2, nx2, pv2, p, x)
  PROVE  Links(Dropped(q, k), h2, t2, nx2, pv2, on \ {q[k]})
<1> DEFINE q2 == Dropped(q, k)
           L == Len(q)
<1>0. /\ k \in 1 .. Len(q) /\ p = pv[q[k]] /\ x = nx[q[k]]
      /\ h2 = IF p = Null THEN x ELSE h
      /\ t2 = IF x = Null THEN p ELSE t
      /\ Joined(on \ {q[k]}, nx, pv, nx2, pv2, p, x)
  BY DEF Unlinks
<1>1. /\ q \in Seq(Nodes) /\ L \in Nat /\ k \in 1 .. L
      /\ \A i \in 1 .. L : q[i] \in Nodes
  BY <1>0 DEF Links
<1>2. \A i, j \in 1 .. L : q[i] = q[j] => i = j
  BY DEF Links, Distinct
<1>3. /\ q2 = [i \in 1 .. L - 1 |-> IF i < k THEN q[i] ELSE q[i + 1]]
      /\ L - 1 \in Nat
  BY <1>1 DEF Dropped
<1> HIDE DEF q2, L
<1>4. \A i \in 1 .. L - 1 : i \in 1 .. L /\ i + 1 \in 1 .. L
  BY <1>1
<1>5. q2 \in [1 .. L - 1 -> Nodes]
  BY <1>1, <1>3, <1>4
<1>6. q2 \in Seq(Nodes) /\ Len(q2) = L - 1
  BY <1>3, <1>5, FunctionSeq
<1>7. \A i \in 1 .. L - 1 : q2[i] = IF i < k THEN q[i] ELSE q[i + 1]
  BY <1>3
<1>8. Distinct(q2)
  <2> SUFFICES ASSUME NEW i \in 1 .. L - 1, NEW j \in 1 .. L - 1, q2[i] = q2[j]
               PROVE  i = j
    BY <1>6 DEF Distinct
  <2> DEFINE i2 == IF i < k THEN i ELSE i + 1
             j2 == IF j < k THEN j ELSE j + 1
  <2>1. i2 \in 1 .. L /\ j2 \in 1 .. L /\ q2[i] = q[i2] /\ q2[j] = q[j2]
    BY <1>4, <1>7
  <2>2. i2 = j2
    BY <1>2, <2>1
  <2> QED
    BY <1>1, <2>2
<1>9. ASSUME NEW m \in Nodes
      PROVE  m \in on \ {q[k]} <=> \E i \in 1 .. Len(q2) : q2[i] = m
  <2>1. m \in on <=> \E i \in 1 .. L : q[i] = m
    BY DEF Links, L
  <2>2. ASSUME m \in on \ {q[k]} PROVE \E i \in 1 .. L - 1 : q2[i] = m
    <3>1. PICK i \in 1 .. L : q[i] = m
      BY <2>1, <2>2
    <3>2. i # k
      BY <2>2, <3>1
    <3>3. CASE i < k
      <4>1. i \in 1 .. L - 1
        BY <1>1, <3>3
      <4> QED
        BY <1>7, <3>1, <3>3, <4>1
    <3>4. CASE i > k
      <4>1. i - 1 \in 1 .. L - 1 /\ ~(i - 1 < k) /\ (i - 1) + 1 = i
        BY <1>1, <3>4
      <4> QED
        BY <1>7, <3>1, <4>1
    <3> QED
      BY <1>1, <3>2, <3>3, <3>4
  <2>3. ASSUME NEW i \in 1 .. L - 1, q2[i] = m PROVE m \in on \ {q[k]}
    <3> DEFINE i2 == IF i < k THEN i ELSE i + 1
    <3>1. i2 \in 1 .. L /\ q[i2] = m /\ i2 # k
      BY <1>1, <1>4, <1>7, <2>3
    <3> QED
      BY <1>1, <1>2, <2>1, <3>1
  <2> QED
    BY <1>6, <2>2, <2>3
<1>10. /\ h = Elem(q, 1) /\ t = Elem(q, L) /\ p = Elem(q, k - 1) /\ x = Elem(q, k + 1)
       /\ \A i \in 1 .. L : nx[q[i]] = Elem(q, i + 1) /\ pv[q[i]] = Elem(q, i - 1)
  BY <1>0 DEF Links, L
<1>11. \A i \in Int : Elem(q2, i) = IF i < k THEN Elem(q, i) ELSE Elem(q, i + 1)
  <2> SUFFICES ASSUME NEW i \in Int
               PROVE  Elem(q2, i) = IF i < k THEN Elem(q, i) ELSE Elem(q, i + 1)
    OBVIOUS
  <2>1. CASE i \in 1 .. L - 1
    BY <1>4, <1>6, <1>7, <2>1 DEF Elem, L
  <2>2. CASE i < 1
    <3>1. i \notin 1 .. L - 1 /\ i \notin 1 .. L /\ i < k
      BY <1>1, <2>2
    <3> QED
      BY <1>6, <3>1 DEF Elem, L
  <2>3. CASE i > L - 1
    <3>1. i \notin 1 .. L - 1 /\ i + 1 \notin 1 .. L /\ ~(i < k)
      BY <1>1, <2>3
    <3> QED
      BY <1>6, <3>1 DEF Elem, L
  <2> QED
    BY <1>1, <2>1, <2>2, <2>3
<1>12. h2 = Elem(q2, 1)
  <2>1. CASE k = 1
    BY <1>0, <1>1, <1>10, <1>11, <2>1, ElemIs DEF L
  <2>2. CASE k > 1
    <3>1. p # Null
      BY <1>0, <1>1, <1>10, <2>2, ElemIs DEF L
    <3> QED
      BY <1>0, <1>10, <1>11, <2>2, <3>1
  <2> QED
    BY <1>1, <2>1, <2>2
<1>13. t2 = Elem(q2, Len(q2))
  <2>1. CASE k = L
    <3>1. x = Null /\ L - 1 < k /\ L - 1 \in Int
      BY <1>0, <1>1, <1>10, <2>1, ElemIs DEF L
    <3> QED
      BY <1>0, <1>6, <1>10, <1>11, <2>1, <3>1
  <2>2. CASE k < L
    <3>1. x # Null /\ ~(L - 1 < k) /\ L - 1 \in Int /\ (L - 1) + 1 = L
      BY <1>0, <1>1, <1>10, <2>2, ElemIs DEF L
    <3> QED
      BY <1>0, <1>6, <1>10, <1>11, <3>1
  <2> QED
    BY <1>1, <2>1, <2>2
<1>14. ASSUME NEW i \in 1 .. Len(q2)
       PROVE  nx2[q2[i]] = Elem(q2, i + 1) /\ pv2[q2[i]] = Elem(q2, i - 1)
  <2>0. i \in Int /\ i \in 1 .. L - 1 /\ i + 1 \in Int /\ i - 1 \in Int
    BY <1>1, <1>6
  <2> DEFINE i2 == IF i < k THEN i ELSE i + 1
  <2>1. i2 \in 1 .. L /\ q2[i] = q[i2] /\ i2 # k
    BY <1>1, <1>4, <1>7, <2>0
  <2>2. q[i2] \in on \ {q[k]}
    BY <1>1, <1>2, <2>1 DEF Links, L
  <2>3. /\ nx2[q[i2]] = IF q[i2] = p THEN x ELSE Elem(q, i2 + 1)
        /\ pv2[q[i2]] = IF q[i2] = x THEN p ELSE Elem(q, i2 - 1)
    BY <1>0, <1>10, <2>1, <2>2 DEF Joined
  <2>4. q[i2] = p <=> i2 = k - 1
    <3>1. CASE k = 1
      BY <1>1, <1>10, <2>1, <3>1, ElemIs, Distinctness DEF L
    <3>2. CASE k > 1
      <4>1. k - 1 \in 1 .. L /\ p = q[k - 1]
        BY <1>1, <1>10, <3>2, ElemIs DEF L
      <4> QED
        BY <1>2, <2>1, <4>1
    <3> QED
      BY <1>1, <3>1, <3>2
  <2>5. q[i2] = x <=> i2 = k + 1
    <3>1. CASE k = L
      BY <1>1, <1>10, <2>1, <3>1, ElemIs, Distinctness DEF L
    <3>2. CASE k < L
      <4>1. k + 1 \in 1 .. L /\ x = q[k + 1]
        BY <1>1, <1>10, <3>2, ElemIs DEF L
      <4> QED
        BY <1>2, <2>1, <4>1
    <3> QED
      BY <1>1, <3>1, <3>2
  <2>6. nx2[q2[i]] = Elem(q2, i + 1)
    <3>1. CASE i < k - 1
      <4>1. i2 = i /\ i2 # k - 1 /\ i + 1 < k
        BY <1>1, <2>0, <3>1
      <4>2. Elem(q2, i + 1) = Elem(q, i2 + 1)
        BY <1>11, <2>0, <4>1
      <4> QED
        BY <2>1, <2>3, <2>4, <4>1, <4>2
    <3>2. CASE i = k - 1
      <4>1. i + 1 = k /\ i < k /\ i2 = k - 1
        BY <1>1, <2>0, <3>2
      <4>2. Elem(q2, i + 1) = Elem(q, k + 1)
        BY <1>1, <1>11, <2>0, <4>1
      <4> QED
        BY <1>10, <2>1, <2>3, <2>4, <4>1, <4>2
    <3>3. CASE i >= k
      <4>1. i2 = i + 1 /\ i2 # k - 1 /\ ~(i + 1 < k) /\ i2 + 1 = (i + 1) + 1
        BY <1>1, <2>0, <3>3
      <4>2. Elem(q2, i + 1) = Elem(q, i2 + 1)
        BY <1>11, <2>0, <4>1
      <4> QED
        BY <2>1, <2>3, <2>4, <4>1, <4>2
    <3> QED
      BY <1>1, <2>0, <3>1, <3>2, <3>3
  <2>7. pv2[q2[i]] = Elem(q2, i - 1)
    <3>1. CASE i < k
      <4>1. i2 = i /\ i2 # k + 1 /\ i - 1 < k
        BY <1>1, <2>0, <3>1
      <4>2. Elem(q2, i - 1) = Elem(q, i2 - 1)
        BY <1>11, <2>0, <4>1
      <4> QED
        BY <2>1, <2>3, <2>5, <4>1, <4>2
    <3>2. CASE i = k
      <4>1. i - 1 < k /\ i2 = k + 1
        BY <1>1, <2>0, <3>2
      <4>2. Elem(q2, i - 1) = Elem(q, k - 1)
        BY <1>11, <2>0, <3>2, <4>1
      <4> QED
        BY <1>10, <2>1, <2>3, <2>5, <4>1, <4>2
    <3>3. CASE i > k
      <4>1. i2 = i + 1 /\ i2 # k + 1 /\ ~(i - 1 < k) /\ i2 - 1 = (i - 1) + 1
        BY <1>1, <2>0, <3>3
      <4>2. Elem(q2, i - 1) = Elem(q, i2 - 1)
        BY <1>11, <2>0, <4>1
      <4> QED
        BY <2>1, <2>3, <2>5, <4>1, <4>2
    <3> QED
      BY <1>1, <2>0, <3>1, <3>2, <3>3
  <2> QED
    BY <2>6, <2>7
<1>15. on \ {q[k]} \subseteq Nodes
  BY DEF Links
<1> QED
  BY <1>6, <1>8, <1>9, <1>12, <1>13, <1>14, <1>15 DEF Links, q2

\* What the swap of n and its predecessor c, between b and a, does to the pointers.
Relinked(on, nx, pv, nx2, pv2, n, c, b, a) ==
  \A m \in on :
    /\ nx2[m] = IF m = n THEN c ELSE IF m = c THEN a ELSE IF m = b THEN n ELSE nx[m]
    /\ pv2[m] = IF m = n THEN b ELSE IF m = c THEN n ELSE IF m = a THEN c ELSE pv[m]

\* All that changes when the node at k and its predecessor swap places.
Swaps(q, k, h, t, nx, pv, on, h2, t2, nx2, pv2, n, c, b, a) ==
  /\ k \in 2 .. Len(q) /\ n = q[k] /\ c = q[k - 1] /\ b = pv[c] /\ a = nx[n]
  /\ Relinked(on, nx, pv, nx2, pv2, n, c, b, a)
  /\ h2 = IF b = Null THEN n ELSE h
  /\ t2 = IF a = Null THEN c ELSE t

LEMMA SwapLinks ==
  ASSUME NEW q, NEW h, NEW t, NEW nx, NEW pv, NEW on, Links(q, h, t, nx, pv, on),
         NEW k, NEW h2, NEW t2, NEW nx2, NEW pv2, NEW n, NEW c, NEW b, NEW a,
         Swaps(q, k, h, t, nx, pv, on, h2, t2, nx2, pv2, n, c, b, a)
  PROVE  Links(Swapped(q, k), h2, t2, nx2, pv2, on)
<1> DEFINE q2 == Swapped(q, k)
           L == Len(q)
<1>0. /\ k \in 2 .. L /\ n = q[k] /\ c = q[k - 1] /\ b = pv[c] /\ a = nx[n]
      /\ Relinked(on, nx, pv, nx2, pv2, n, c, b, a)
      /\ h2 = IF b = Null THEN n ELSE h
      /\ t2 = IF a = Null THEN c ELSE t
  BY DEF Swaps
<1>1. /\ q \in Seq(Nodes) /\ L \in Nat /\ k \in 1 .. L /\ k - 1 \in 1 .. L /\ k \in Int
      /\ \A i \in 1 .. L : q[i] \in Nodes
  BY <1>0 DEF Links
<1>2. \A i, j \in 1 .. L : q[i] = q[j] => i = j
  BY <1>0 DEF Links, Distinct
<1>3. q2 = [i \in 1 .. L |-> IF i = k THEN c ELSE IF i = k - 1 THEN n ELSE q[i]]
  BY <1>0 DEF Swapped
<1>4. /\ h = Elem(q, 1) /\ t = Elem(q, L) /\ b = Elem(q, k - 2) /\ a = Elem(q, k + 1)
      /\ \A i \in 1 .. L : nx[q[i]] = Elem(q, i + 1) /\ pv[q[i]] = Elem(q, i - 1)
  <2>1. \A i \in 1 .. L : nx[q[i]] = Elem(q, i + 1) /\ pv[q[i]] = Elem(q, i - 1)
    BY <1>0 DEF Links, L
  <2>2. (k - 1) - 1 = k - 2
    BY <1>0, <1>1
  <2>3. pv[q[k - 1]] = Elem(q, k - 2)
    BY <1>0, <1>1, <2>1, <2>2
  <2> QED
    BY <1>0, <1>1, <2>1, <2>3 DEF Links, L
<1> HIDE DEF q2, L
<1>5. q2 \in [1 .. L -> Nodes]
  BY <1>0, <1>1, <1>3
<1>6. q2 \in Seq(Nodes) /\ Len(q2) = L
  BY <1>0, <1>1, <1>5, FunctionSeq
<1>7. \A i \in 1 .. L : q2[i] = IF i = k THEN c ELSE IF i = k - 1 THEN n ELSE q[i]
  BY <1>0, <1>3
<1>8. \A i \in 1 .. L : (q[i] = n <=> i = k) /\ (q[i] = c <=> i = k - 1)
  BY <1>0, <1>1, <1>2
<1>9. Distinct(q2)
  <2> SUFFICES ASSUME NEW i \in 1 .. L, NEW j \in 1 .. L, q2[i] = q2[j]
               PROVE  i = j
    BY <1>0, <1>6 DEF Distinct
  <2> DEFINE i2 == IF i = k THEN k - 1 ELSE IF i = k - 1 THEN k ELSE i
             j2 == IF j = k THEN k - 1 ELSE IF j = k - 1 THEN k ELSE j
  <2>1. i2 \in 1 .. L /\ j2 \in 1 .. L /\ q2[i] = q[i2] /\ q2[j] = q[j2]
    BY <1>0, <1>1, <1>7
  <2>2. i2 = j2
    <3> HIDE DEF i2, j2
    <3> QED
      BY <1>0, <1>2, <2>1
  <2> QED
    BY <1>0, <1>1, <2>2
<1>10. ASSUME NEW m \in Nodes
       PROVE  m \in on <=> \E i \in 1 .. Len(q2) : q2[i] = m
  <2>1. m \in on <=> \E i \in 1 .. L : q[i] = m
    BY <1>0 DEF Links, L
  <2>2. ASSUME NEW i \in 1 .. L PROVE (\E j \in 1 .. L : q2[j] = q[i])
                                      /\ (\E j \in 1 .. L : q[j] = q2[i])
    <3> DEFINE i2 == IF i = k THEN k - 1 ELSE IF i = k - 1 THEN k ELSE i
    <3>1. i2 \in 1 .. L /\ q2[i2] = q[i] /\ q[i2] = q2[i]
      BY <1>0, <1>1, <1>7
    <3> QED
      BY <1>0, <3>1
  <2>3. (\E i \in 1 .. L : q[i] = m) <=> \E i \in 1 .. L : q2[i] = m
    BY <1>0, <2>2
  <2> QED
    BY <1>0, <1>6, <2>1, <2>3
<1>11. ASSUME NEW i \in Int
       PROVE  Elem(q2, i) = IF i = k THEN c ELSE IF i = k - 1 THEN n ELSE Elem(q, i)
  <2>1. CASE i \in 1 .. L
    BY <1>0, <1>1, <1>6, <1>7, <2>1 DEF Elem, L
  <2>2. CASE i \notin 1 .. L
    <3>1. i # k /\ i # k - 1
      BY <1>0, <1>1, <2>2
    <3> QED
      BY <1>0, <1>6, <2>2, <3>1 DEF Elem, L
  <2> QED
    BY <1>0, <2>1, <2>2
<1>12. h2 = Elem(q2, 1)
  <2>1. CASE k = 2
    <3>1. b = Null
      BY <1>0, <1>1, <1>4, <2>1, ElemIs DEF L
    <3> QED
      BY <1>0, <1>1, <1>11, <2>1, <3>1
  <2>2. CASE k # 2
    <3>1. b # Null /\ 1 # k /\ 1 # k - 1
      BY <1>0, <1>1, <1>4, <2>2, ElemIs DEF L
    <3> QED
      BY <1>0, <1>4, <1>11, <3>1
  <2> QED
    BY <1>0, <2>1, <2>2
<1>13. t2 = Elem(q2, Len(q2))
  <2>1. CASE k = L
    <3>1. a = Null
      BY <1>0, <1>1, <1>4, <2>1, ElemIs DEF L
    <3> QED
      BY <1>0, <1>1, <1>6, <1>11, <2>1, <3>1
  <2>2. CASE k # L
    <3>1. a # Null /\ L # k /\ L # k - 1
      BY <1>0, <1>1, <1>4, <2>2, ElemIs DEF L
    <3> QED
      BY <1>0, <1>1, <1>4, <1>6, <1>11, <3>1
  <2> QED
    BY <1>0, <2>1, <2>2
<1>14. \A i \in 1 .. L : (q[i] = b <=> i = k - 2) /\ (q[i] = a <=> i = k + 1)
  <2> SUFFICES ASSUME NEW i \in 1 .. L
               PROVE  (q[i] = b <=> i = k - 2) /\ (q[i] = a <=> i = k + 1)
    OBVIOUS
  <2>1. q[i] = b <=> i = k - 2
    <3>1. CASE k = 2
      BY <1>0, <1>1, <1>4, <3>1, ElemIs, Distinctness DEF L
    <3>2. CASE k # 2
      <4>1. k - 2 \in 1 .. L /\ k - 2 \in Int
        BY <1>0, <1>1, <3>2
      <4>2. b = q[k - 2]
        BY <1>4, <4>1 DEF Elem, L
      <4> QED
        BY <1>0, <1>2, <4>1, <4>2
    <3> QED
      BY <1>0, <3>1, <3>2
  <2>2. q[i] = a <=> i = k + 1
    <3>1. CASE k = L
      BY <1>0, <1>1, <1>4, <3>1, ElemIs, Distinctness DEF L
    <3>2. CASE k # L
      <4>1. k + 1 \in 1 .. L /\ k + 1 \in Int
        BY <1>0, <1>1, <3>2
      <4>2. a = q[k + 1]
        BY <1>4, <4>1 DEF Elem, L
      <4> QED
        BY <1>0, <1>2, <4>1, <4>2
    <3> QED
      BY <1>0, <3>1, <3>2
  <2> QED
    BY <1>0, <2>1, <2>2
<1>15. n \in on /\ c \in on /\ n # c /\ \A i \in 1 .. L : q[i] \in on
  BY <1>0, <1>1, <1>8 DEF Links, L
<1>16. ASSUME NEW i \in 1 .. Len(q2)
       PROVE  nx2[q2[i]] = Elem(q2, i + 1) /\ pv2[q2[i]] = Elem(q2, i - 1)
  <2>0. i \in Int /\ i \in 1 .. L /\ i + 1 \in Int /\ i - 1 \in Int
    BY <1>0, <1>1, <1>6
  <2>1. CASE i = k
    <3>1. q2[i] = c /\ nx2[c] = a /\ pv2[c] = n
      BY <1>0, <1>7, <1>15, <2>0, <2>1 DEF Relinked
    <3>2. Elem(q2, i + 1) = a
      <4>1. i + 1 # k /\ i + 1 # k - 1
        BY <1>0, <1>1, <2>1
      <4> QED
        BY <1>0, <1>4, <1>11, <2>0, <2>1, <4>1
    <3>3. Elem(q2, i - 1) = n
      <4>1. i - 1 # k
        BY <1>0, <1>1, <2>1
      <4> QED
        BY <1>0, <1>11, <2>0, <2>1, <4>1
    <3> QED
      BY <1>0, <3>1, <3>2, <3>3
  <2>2. CASE i = k - 1
    <3>1. q2[i] = n /\ nx2[n] = c /\ pv2[n] = b
      BY <1>0, <1>1, <1>7, <1>15, <2>0, <2>2 DEF Relinked
    <3>2. Elem(q2, i + 1) = c
      <4>1. i + 1 = k
        BY <1>0, <1>1, <2>2
      <4> QED
        BY <1>0, <1>11, <2>0, <4>1
    <3>3. Elem(q2, i - 1) = b
      <4>1. i - 1 = k - 2 /\ i - 1 # k /\ i - 1 # k - 1
        BY <1>0, <1>1, <2>2
      <4> QED
        BY <1>0, <1>4, <1>11, <2>0, <4>1
    <3> QED
      BY <1>0, <3>1, <3>2, <3>3
  <2>3. CASE i # k /\ i # k - 1
    <3>1. q2[i] = q[i] /\ q[i] \in on /\ q[i] # n /\ q[i] # c
      BY <1>0, <1>7, <1>8, <1>15, <2>0, <2>3
    <3>2. /\ nx2[q[i]] = IF i = k - 2 THEN n ELSE Elem(q, i + 1)
          /\ pv2[q[i]] = IF i = k + 1 THEN c ELSE Elem(q, i - 1)
      BY <1>0, <1>4, <1>14, <2>0, <3>1 DEF Relinked
    <3>3. Elem(q2, i + 1) = IF i = k - 2 THEN n ELSE Elem(q, i + 1)
      <4>1. i + 1 # k /\ (i + 1 = k - 1 <=> i = k - 2)
        BY <1>0, <1>1, <2>0, <2>3
      <4> QED
        BY <1>0, <1>11, <2>0, <4>1
    <3>4. Elem(q2, i - 1) = IF i = k + 1 THEN c ELSE Elem(q, i - 1)
      <4>1. i - 1 # k - 1 /\ (i - 1 = k <=> i = k + 1)
        BY <1>0, <1>1, <2>0, <2>3
      <4> QED
        BY <1>0, <1>11, <2>0, <4>1
    <3> QED
      BY <1>0, <3>1, <3>2, <3>3, <3>4
  <2> QED
    BY <1>0, <2>1, <2>2, <2>3
<1>17. on \subseteq Nodes
  BY <1>0 DEF Links
<1> QED
  BY <1>0, <1>6, <1>9, <1>10, <1>12, <1>13, <1>16, <1>17 DEF Links, q2

-----------------------------------------------------------------------------
(* What the steps do to the nodes *)

\* The fields of a node, besides its pointers.
SameRest(m) ==
  /\ node'[m].priority = node[m].priority
  /\ node'[m].linked <=> node[m].linked
  /\ node'[m].waker <=> node[m].waker

LEMMA EnqueueFields ==
  ASSUME TypeOK, NEW n \in Nodes, NEW p \in Priorities, EnqueueLink(n, p), tail # n
  PROVE  /\ \A m \in Nodes : m # n =>
              /\ SameRest(m) /\ node'[m].prev = node[m].prev
              /\ node'[m].next = IF m = tail THEN n ELSE node[m].next
         /\ node'[n].next = Null /\ node'[n].prev = tail
         /\ node'[n].linked /\ node'[n].waker
<1> DEFINE new == [waker |-> TRUE, priority |-> p, next |-> Null,
                   prev |-> tail, linked |-> TRUE]
           nde1 == [node EXCEPT ![n] = new]
<1>1. node \in [Nodes -> NodeType] /\ tail \in Nodes \cup {Null}
  BY WaitTypes DEF TypeOK
<1>2. node' = IF tail = Null THEN nde1 ELSE [nde1 EXCEPT ![tail].next = n]
  BY DEF EnqueueLink
<1>3. /\ DOMAIN nde1 = Nodes /\ nde1[n] = new /\ \A m \in Nodes : m # n => nde1[m] = node[m]
  BY <1>1
<1> HIDE DEF nde1
<1>4. node'[n] = new
  BY <1>1, <1>2, <1>3
<1>5. ASSUME NEW m \in Nodes, m # n
      PROVE  node'[m] = IF m = tail THEN [node[m] EXCEPT !.next = n] ELSE node[m]
  BY <1>1, <1>2, <1>3, <1>5, Distinctness
<1>6. ASSUME NEW m \in Nodes, m # n
      PROVE  /\ SameRest(m) /\ node'[m].prev = node[m].prev
             /\ node'[m].next = IF m = tail THEN n ELSE node[m].next
  <2>1. node[m] \in NodeType
    BY <1>1
  <2>2. CASE m = tail
    BY <1>5, <1>6, <2>1, <2>2 DEF SameRest, NodeType
  <2>3. CASE m # tail
    BY <1>5, <1>6, <2>3 DEF SameRest
  <2> QED
    BY <2>2, <2>3
<1> QED
  BY <1>4, <1>6

LEMMA SwapFields ==
  ASSUME TypeOK, NEW n \in Nodes, NEW c \in Nodes, n # c,
         NEW b, NEW a, b = node[c].prev, a = node[n].next, b \notin {n, c}, a \notin {n, c},
         node' = SwapPointers(n, c)
  PROVE  /\ \A m \in Nodes : SameRest(m)
         /\ Relinked(Nodes, Nexts, Prevs, Nexts', Prevs', n, c, b, a)
<1> DEFINE swapped == [node EXCEPT ![n].prev = b, ![n].next = c,
                                   ![c].prev = n, ![c].next = a]
           front == IF b = Null THEN swapped ELSE [swapped EXCEPT ![b].next = n]
<1>1. /\ node \in [Nodes -> NodeType] /\ b \in Nodes \cup {Null} /\ a \in Nodes \cup {Null}
      /\ node' = IF a = Null THEN front ELSE [front EXCEPT ![a].prev = c]
  BY WaitTypes DEF SwapPointers
<1>2. /\ swapped[n] = [[node[n] EXCEPT !.prev = b] EXCEPT !.next = c]
      /\ swapped[c] = [[node[c] EXCEPT !.prev = n] EXCEPT !.next = a]
      /\ \A m \in Nodes : m # n /\ m # c => swapped[m] = node[m]
      /\ DOMAIN swapped = Nodes
  BY <1>1
<1> HIDE DEF swapped
<1>3. /\ DOMAIN front = Nodes
      /\ \A m \in Nodes : front[m] = IF m = b THEN [node[m] EXCEPT !.next = n] ELSE swapped[m]
  BY <1>1, <1>2, Distinctness
<1> HIDE DEF front
<1>4. \A m \in Nodes : node'[m] = IF m = a THEN [front[m] EXCEPT !.prev = c] ELSE front[m]
  BY <1>1, <1>3, Distinctness
<1>5. node'[n] = swapped[n] /\ node'[c] = swapped[c]
  BY <1>3, <1>4
<1>6. \A m \in Nodes : node[m] \in NodeType
  BY <1>1
<1>7. /\ node'[n].next = c /\ node'[n].prev = b /\ SameRest(n)
      /\ node'[c].next = a /\ node'[c].prev = n /\ SameRest(c)
  <2>1. node[n] \in NodeType /\ node[c] \in NodeType
    BY <1>6
  <2> QED
    BY <1>2, <1>5, <2>1 DEF SameRest, NodeType
<1>8. ASSUME NEW m \in Nodes, m # n, m # c
      PROVE  /\ SameRest(m)
             /\ node'[m].next = IF m = b THEN n ELSE node[m].next
             /\ node'[m].prev = IF m = a THEN c ELSE node[m].prev
  <2> DEFINE r == node[m]
             f == IF m = b THEN [r EXCEPT !.next = n] ELSE r
             g == IF m = a THEN [f EXCEPT !.prev = c] ELSE f
  <2>1. r \in NodeType
    BY <1>6
  <2>2. node'[m] = g
    BY <1>2, <1>3, <1>4, <1>8
  <2> HIDE DEF r
  <2>3. /\ g.priority = r.priority /\ g.linked = r.linked /\ g.waker = r.waker
        /\ g.next = IF m = b THEN n ELSE r.next
        /\ g.prev = IF m = a THEN c ELSE r.prev
    BY <2>1 DEF NodeType
  <2> HIDE DEF g
  <2> QED
    BY <2>2, <2>3 DEF SameRest, r
<1> QED
  BY <1>7, <1>8 DEF Relinked, Nexts, Prevs

\* n leaves the list: its neighbours p and x are joined.
Leaves(n, p, x) ==
  /\ ~node'[n].linked
  /\ \A m \in Nodes : m # n =>
       /\ SameRest(m)
       /\ node'[m].next = IF m = p THEN x ELSE node[m].next
       /\ node'[m].prev = IF m = x THEN p ELSE node[m].prev
  /\ node'[n].priority = node[n].priority
  /\ head' = IF p = Null THEN x ELSE head
  /\ tail' = IF x = Null THEN p ELSE tail

LEMMA RemoveLeaves ==
  ASSUME TypeOK, NEW n \in Nodes, RemoveLinked(n)
  PROVE  Leaves(n, node[n].prev, node[n].next)
<1> DEFINE p == node[n].prev
           x == node[n].next
           front == IF p = Null THEN node ELSE [node EXCEPT ![p].next = x]
           back == IF x = Null THEN front ELSE [front EXCEPT ![x].prev = p]
<1>1. /\ node \in [Nodes -> NodeType] /\ p \in Nodes \cup {Null} /\ x \in Nodes \cup {Null}
      /\ \A m \in Nodes : node[m] \in NodeType
  <2>1. node \in [Nodes -> NodeType] /\ p \in Nodes \cup {Null} /\ x \in Nodes \cup {Null}
    BY WaitTypes
  <2> QED
    BY <2>1
<1>2. /\ node' = [back EXCEPT ![n] = Unlinked(@)]
      /\ head' = IF p = Null THEN x ELSE head
      /\ tail' = IF x = Null THEN p ELSE tail
  BY DEF RemoveLinked
<1> HIDE DEF p, x
<1>3. /\ DOMAIN front = Nodes
      /\ \A m \in Nodes : front[m] = IF m = p THEN [node[m] EXCEPT !.next = x] ELSE node[m]
  BY <1>1, Distinctness
<1>4. /\ front \in [Nodes -> NodeType]
  BY <1>1, <1>3 DEF NodeType
<1> HIDE DEF front
<1>5. /\ DOMAIN back = Nodes /\ back \in [Nodes -> NodeType]
      /\ \A m \in Nodes : back[m] = IF m = x THEN [front[m] EXCEPT !.prev = p] ELSE front[m]
  <2>1. DOMAIN back = Nodes
        /\ \A m \in Nodes : back[m] = IF m = x THEN [front[m] EXCEPT !.prev = p] ELSE front[m]
    BY <1>1, <1>3, Distinctness
  <2>2. back \in [Nodes -> NodeType]
    BY <1>1, <1>4 DEF NodeType
  <2> QED
    BY <2>1, <2>2
<1> HIDE DEF back
<1>6. node'[n] = Unlinked(back[n]) /\ \A m \in Nodes : m # n => node'[m] = back[m]
  BY <1>2, <1>5
<1>7. ASSUME NEW m \in Nodes
      PROVE  /\ back[m].priority = node[m].priority
             /\ back[m].linked = node[m].linked /\ back[m].waker = node[m].waker
             /\ back[m].next = IF m = p THEN x ELSE node[m].next
             /\ back[m].prev = IF m = x THEN p ELSE node[m].prev
  <2> DEFINE r == node[m]
             f == IF m = p THEN [r EXCEPT !.next = x] ELSE r
             g == IF m = x THEN [f EXCEPT !.prev = p] ELSE f
  <2>1. r \in NodeType /\ back[m] = g
    BY <1>1, <1>3, <1>5
  <2> HIDE DEF r
  <2>2. /\ g.priority = r.priority /\ g.linked = r.linked /\ g.waker = r.waker
        /\ g.next = IF m = p THEN x ELSE r.next
        /\ g.prev = IF m = x THEN p ELSE r.prev
    BY <2>1 DEF NodeType
  <2> HIDE DEF g
  <2> QED
    BY <2>1, <2>2 DEF r
<1>8. ~node'[n].linked /\ node'[n].priority = node[n].priority
  <2>1. back[n] \in NodeType
    BY <1>5
  <2>2. Unlinked(back[n]).linked = FALSE /\ Unlinked(back[n]).priority = back[n].priority
    BY <2>1 DEF Unlinked, NodeType
  <2> QED
    BY <1>6, <1>7, <2>2
<1> QED
  BY <1>2, <1>6, <1>7, <1>8 DEF Leaves, SameRest, p, x

LEMMA PopLeaves ==
  ASSUME TypeOK, head # Null, PopHead, node[head].prev = Null
  PROVE  Leaves(head, node[head].prev, node[head].next)
<1> DEFINE n == head
           x == node[n].next
           rest == IF x = Null THEN node ELSE [node EXCEPT ![x].prev = Null]
<1>1. /\ n \in Nodes /\ node \in [Nodes -> NodeType] /\ x \in Nodes \cup {Null}
      /\ \A m \in Nodes : node[m] \in NodeType
  <2>1. n \in Nodes /\ node \in [Nodes -> NodeType]
    BY WaitTypes DEF TypeOK
  <2> QED
    BY <2>1, WaitTypes
<1>2. /\ node' = [rest EXCEPT ![n] = [Unlinked(@) EXCEPT !.waker = FALSE]]
      /\ head' = x /\ tail' = IF x = Null THEN Null ELSE tail
  BY DEF PopHead
<1> HIDE DEF x
<1>3. /\ DOMAIN rest = Nodes /\ rest \in [Nodes -> NodeType]
      /\ \A m \in Nodes : rest[m] = IF m = x THEN [node[m] EXCEPT !.prev = Null] ELSE node[m]
  <2>1. DOMAIN rest = Nodes
        /\ \A m \in Nodes : rest[m] = IF m = x THEN [node[m] EXCEPT !.prev = Null] ELSE node[m]
    BY <1>1, Distinctness
  <2>2. rest \in [Nodes -> NodeType]
    BY <1>1 DEF NodeType
  <2> QED
    BY <2>1, <2>2
<1> HIDE DEF rest
<1>4. /\ node'[n] = [Unlinked(rest[n]) EXCEPT !.waker = FALSE]
      /\ \A m \in Nodes : m # n => node'[m] = rest[m]
  BY <1>1, <1>2, <1>3
<1>5. ASSUME NEW m \in Nodes
      PROVE  /\ rest[m].priority = node[m].priority
             /\ rest[m].linked = node[m].linked /\ rest[m].waker = node[m].waker
             /\ rest[m].next = node[m].next
             /\ rest[m].prev = IF m = x THEN Null ELSE node[m].prev
  <2> DEFINE r == node[m]
             g == IF m = x THEN [r EXCEPT !.prev = Null] ELSE r
  <2>1. r \in NodeType /\ rest[m] = g
    BY <1>1, <1>3
  <2> HIDE DEF r
  <2>2. /\ g.priority = r.priority /\ g.linked = r.linked /\ g.waker = r.waker
        /\ g.next = r.next /\ g.prev = IF m = x THEN Null ELSE r.prev
    BY <2>1 DEF NodeType
  <2> HIDE DEF g
  <2> QED
    BY <2>1, <2>2 DEF r
<1>6. ~node'[n].linked /\ node'[n].priority = node[n].priority
  <2>1. rest[n] \in NodeType
    BY <1>1, <1>3
  <2> DEFINE u == Unlinked(rest[n])
  <2>2. u \in NodeType /\ u.linked = FALSE /\ u.priority = rest[n].priority
    BY <2>1 DEF Unlinked, NodeType
  <2> HIDE DEF u
  <2>3. [u EXCEPT !.waker = FALSE].linked = FALSE
        /\ [u EXCEPT !.waker = FALSE].priority = u.priority
    BY <2>2 DEF NodeType
  <2> QED
    BY <1>1, <1>4, <1>5, <2>2, <2>3 DEF u
<1> QED
  BY <1>1, <1>2, <1>4, <1>5, <1>6, Distinctness DEF Leaves, SameRest, n, x

-----------------------------------------------------------------------------
(* What the steps do to the list *)

\* The list of a state: its nodes are linked and point to their neighbours.
LEMMA ListFacts ==
  ASSUME NEW q, IsList(q)
  PROVE  /\ q \in Seq(Nodes) /\ Len(q) \in Nat /\ Distinct(q)
         /\ \A k \in 1 .. Len(q) :
              /\ q[k] \in Nodes /\ node[q[k]].linked
              /\ node[q[k]].next = Elem(q, k + 1) /\ node[q[k]].prev = Elem(q, k - 1)
         /\ \A n \in Nodes : node[n].linked => \E k \in 1 .. Len(q) : q[k] = n
         /\ head = Elem(q, 1) /\ tail = Elem(q, Len(q))
<1>1. q \in Seq(Nodes) /\ Distinct(q) /\ head = Elem(q, 1) /\ tail = Elem(q, Len(q))
  BY DEF IsList, Links
<1>2. \A k \in 1 .. Len(q) : q[k] \in Nodes
  BY <1>1
<1>3. \A n \in Nodes : node[n].linked <=> \E k \in 1 .. Len(q) : q[k] = n
  BY DEF IsList, Links, Linked
<1>4. \A k \in 1 .. Len(q) :
        node[q[k]].next = Elem(q, k + 1) /\ node[q[k]].prev = Elem(q, k - 1)
  BY <1>2 DEF IsList, Links, Nexts, Prevs
<1> QED
  BY <1>1, <1>2, <1>3, <1>4

\* Steps that do not touch the list.
LEMMA ListStays ==
  ASSUME NEW q, IsList(q), UNCHANGED <<head, tail, node>>,
         \A m \in Nodes : pc[m] = "sort" => pc'[m] = "sort"
  PROVE  IsList(q)'
<1>1. Nexts' = Nexts /\ Prevs' = Prevs /\ Linked' = Linked
  BY DEF Nexts, Prevs, Linked
<1>2. Ordered(q)'
  BY ListFacts DEF IsList, Ordered
<1> QED
  BY <1>1, <1>2 DEF IsList

LEMMA EnqueueList ==
  ASSUME TypeOK, NEW q, IsList(q), NEW n \in Nodes, ~node[n].linked,
         NEW p \in Priorities, EnqueueLink(n, p)
  PROVE  IsList(Append(q, n))'
<1>1. /\ q \in Seq(Nodes) /\ Len(q) \in Nat /\ tail = Elem(q, Len(q))
      /\ \A k \in 1 .. Len(q) : q[k] \in Nodes /\ node[q[k]].linked
  BY ListFacts
<1>2. tail # n
  BY <1>1, Distinctness DEF Elem
<1>3. /\ \A m \in Nodes : m # n =>
           /\ SameRest(m) /\ node'[m].prev = node[m].prev
           /\ node'[m].next = IF m = tail THEN n ELSE node[m].next
      /\ node'[n].next = Null /\ node'[n].prev = tail /\ node'[n].linked
  BY <1>2, EnqueueFields
<1>4. Linked' = Linked \cup {n} /\ n \in Nodes \ Linked
  BY <1>3 DEF Linked, SameRest
<1>5. /\ Nexts'[n] = Null /\ Prevs'[n] = tail
      /\ \A m \in Linked : /\ Prevs'[m] = Prevs[m]
                          /\ Nexts'[m] = IF m = tail THEN n ELSE Nexts[m]
  BY <1>3, <1>4 DEF Nexts, Prevs, Linked
<1>6. head' = (IF tail = Null THEN n ELSE head) /\ tail' = n
  BY DEF EnqueueLink
<1>7. Links(Append(q, n), head', n, Nexts', Prevs', Linked \cup {n})
  <2>1. Links(q, head, tail, Nexts, Prevs, Linked)
    BY DEF IsList
  <2> QED
    BY <1>4, <1>5, <1>6, <2>1, AppendLinks
<1>8. Ordered(Append(q, n))'
  <2> DEFINE q2 == Append(q, n)
             L == Len(q)
  <2>1. Len(q2) = L + 1 /\ q2[L + 1] = n /\ \A k \in 1 .. L : q2[k] = q[k]
    BY <1>1
  <2> HIDE DEF q2
  <2>2. \A m \in Nodes : m # n => node'[m].priority = node[m].priority /\ pc'[m] = pc[m]
    BY <1>3 DEF SameRest, EnqueueLink, Goto, TypeOK
  <2>3. pc'[n] = "sort"
    BY DEF EnqueueLink, Goto, TypeOK
  <2>4. \A k \in 1 .. L : q[k] \in Nodes /\ q[k] # n
    BY <1>1
  <2> SUFFICES ASSUME NEW i \in 1 .. L + 1, NEW j \in 1 .. L + 1, i < j
               PROVE  node'[q2[j]].priority <= node'[q2[i]].priority \/ pc'[q2[j]] = "sort"
    BY <2>1 DEF Ordered, q2
  <2>5. CASE j = L + 1
    BY <2>1, <2>3, <2>5
  <2>6. CASE j \in 1 .. L
    <3>1. i \in 1 .. L
      BY <1>1, <2>6
    <3>2. node[q[j]].priority <= node[q[i]].priority \/ pc[q[j]] = "sort"
      BY <2>6, <3>1 DEF IsList, Ordered
    <3> QED
      BY <2>1, <2>2, <2>4, <2>6, <3>1, <3>2
  <2> QED
    BY <1>1, <2>5, <2>6
<1> QED
  BY <1>4, <1>6, <1>7, <1>8 DEF IsList

\* A linked node leaves the list.
LEMMA LeaveList ==
  ASSUME TypeOK, NEW q, IsList(q), NEW n \in Nodes, node[n].linked,
         Leaves(n, node[n].prev, node[n].next),
         \A m \in Nodes : pc[m] = "sort" => pc'[m] = "sort"
  PROVE  \E q2 \in Seq(Nodes) : IsList(q2)'
<1>1. /\ q \in Seq(Nodes) /\ Len(q) \in Nat
      /\ \A k \in 1 .. Len(q) : q[k] \in Nodes
  BY ListFacts
<1>2. PICK k \in 1 .. Len(q) : q[k] = n
  BY ListFacts
<1> DEFINE q2 == Dropped(q, k)
           p == node[n].prev
           x == node[n].next
<1>3. /\ \A m \in Nodes : m # n =>
           /\ SameRest(m)
           /\ node'[m].next = IF m = p THEN x ELSE node[m].next
           /\ node'[m].prev = IF m = x THEN p ELSE node[m].prev
      /\ ~node'[n].linked /\ node'[n].priority = node[n].priority
      /\ head' = IF p = Null THEN x ELSE head
      /\ tail' = IF x = Null THEN p ELSE tail
  BY DEF Leaves
<1> HIDE DEF q2
<1>4. Linked' = Linked \ {n}
  BY <1>3 DEF Linked, SameRest
<1>5. /\ p = Prevs[q[k]] /\ x = Nexts[q[k]]
      /\ Joined(Linked \ {q[k]}, Nexts, Prevs, Nexts', Prevs', p, x)
  BY <1>2, <1>3 DEF Nexts, Prevs, Linked, Joined
<1> HIDE DEF p, x
<1>6. Links(q2, head', tail', Nexts', Prevs', Linked \ {q[k]})
  <2>1. Links(q, head, tail, Nexts, Prevs, Linked)
    BY DEF IsList
  <2>2. Unlinks(q, k, head, tail, Nexts, Prevs, Linked, head', tail', Nexts', Prevs', p, x)
    BY <1>3, <1>5 DEF Unlinks
  <2>3. Links(Dropped(q, k), head', tail', Nexts', Prevs', Linked \ {q[k]})
    BY <2>1, <2>2, DropLinks
  <2> QED
    BY <2>3 DEF q2
<1>7. q2 \in Seq(Nodes)
  BY <1>6 DEF Links
<1>8. Ordered(q2)'
  <2> DEFINE L == Len(q)
  <2>1. q2 = [i \in 1 .. L - 1 |-> IF i < k THEN q[i] ELSE q[i + 1]]
    BY DEF q2, Dropped
  <2>2. Len(q2) = L - 1
    <3>1. L - 1 \in Nat /\ \A i \in 1 .. L - 1 : i \in 1 .. L /\ i + 1 \in 1 .. L
      BY <1>1
    <3>2. q2 \in [1 .. L - 1 -> Nodes]
      BY <1>1, <2>1, <3>1
    <3> QED
      BY <3>1, <3>2, FunctionSeq
  <2>3. \A m \in Nodes : node'[m].priority = node[m].priority
    BY <1>3 DEF SameRest
  <2> SUFFICES ASSUME NEW i \in 1 .. L - 1, NEW j \in 1 .. L - 1, i < j
               PROVE  node'[q2[j]].priority <= node'[q2[i]].priority \/ pc'[q2[j]] = "sort"
    BY <2>2 DEF Ordered
  <2> DEFINE i2 == IF i < k THEN i ELSE i + 1
             j2 == IF j < k THEN j ELSE j + 1
  <2>4. i2 \in 1 .. L /\ j2 \in 1 .. L /\ i2 < j2 /\ q2[i] = q[i2] /\ q2[j] = q[j2]
    BY <1>1, <2>1
  <2> HIDE DEF i2, j2
  <2>5. node[q[j2]].priority <= node[q[i2]].priority \/ pc[q[j2]] = "sort"
    BY <2>4 DEF IsList, Ordered
  <2>6. q[i2] \in Nodes /\ q[j2] \in Nodes
    BY <1>1, <2>4
  <2> QED
    BY <2>3, <2>4, <2>5, <2>6
<1>9. IsList(q2)'
  BY <1>2, <1>4, <1>6, <1>8 DEF IsList
<1> QED
  BY <1>7, <1>9

\* One iteration of the sort moves n ahead of a node of lower priority.
LEMMA SortList ==
  ASSUME TypeOK, NEW q, IsList(q), NEW n \in Nodes, pc[n] = "sort", node[n].linked,
         SortStep(n)
  PROVE  /\ \E q2 \in Seq(Nodes) : IsList(q2)'
         /\ \A m \in Nodes : SameRest(m)
<1>1. /\ q \in Seq(Nodes) /\ Len(q) \in Nat /\ Distinct(q)
      /\ \A k \in 1 .. Len(q) :
           /\ q[k] \in Nodes /\ node[q[k]].linked
           /\ node[q[k]].next = Elem(q, k + 1) /\ node[q[k]].prev = Elem(q, k - 1)
  BY ListFacts
<1>2. PICK k \in 1 .. Len(q) : q[k] = n
  BY ListFacts
<1> DEFINE c == node[n].prev
           b == node[c].prev
           a == node[n].next
           q2 == Swapped(q, k)
<1>3. c # Null /\ node[c].priority < node[n].priority
  BY DEF SortStep, MovesAhead
<1>4. /\ node' = SwapPointers(n, c)
      /\ head' = IF b = Null THEN n ELSE head
      /\ tail' = IF a = Null THEN c ELSE tail
      /\ UNCHANGED pc
  BY DEF SortStep
<1>5. c = Elem(q, k - 1) /\ a = Elem(q, k + 1)
  BY <1>1, <1>2
<1>6. k \in 2 .. Len(q) /\ c = q[k - 1] /\ c \in Nodes /\ k - 1 \in 1 .. Len(q)
  BY <1>1, <1>3, <1>5, ElemIs
<1>7. b = Elem(q, k - 2)
  <2>1. (k - 1) - 1 = k - 2
    BY <1>6
  <2>2. node[q[k - 1]].prev = Elem(q, (k - 1) - 1)
    BY <1>1, <1>6
  <2> QED
    BY <1>6, <2>1, <2>2
<1> HIDE DEF c, b, a, q2
<1>8. \A i, j \in 1 .. Len(q) : q[i] = q[j] => i = j
  BY <1>1 DEF Distinct
<1>9. n # c /\ b \notin {n, c} /\ a \notin {n, c}
  <2>1. n # c
    BY <1>2, <1>6, <1>8
  <2>2. b \notin {n, c}
    <3>1. CASE k = 2
      BY <1>1, <1>6, <1>7, <3>1, ElemIs, Distinctness
    <3>2. CASE k # 2
      <4>1. k - 2 \in 1 .. Len(q) /\ b = q[k - 2] /\ k - 2 # k /\ k - 2 # k - 1
        BY <1>1, <1>6, <1>7, <3>2, ElemIs
      <4> QED
        BY <1>2, <1>6, <1>8, <4>1
    <3> QED
      BY <3>1, <3>2
  <2>3. a \notin {n, c}
    <3>1. CASE k = Len(q)
      BY <1>1, <1>5, <1>6, <3>1, ElemIs, Distinctness
    <3>2. CASE k # Len(q)
      <4>1. k + 1 \in 1 .. Len(q) /\ a = q[k + 1] /\ k + 1 # k /\ k + 1 # k - 1
        BY <1>1, <1>5, <3>2, ElemIs
      <4> QED
        BY <1>2, <1>6, <1>8, <4>1
    <3> QED
      BY <3>1, <3>2
  <2> QED
    BY <2>1, <2>2, <2>3
<1>10. /\ \A m \in Nodes : SameRest(m)
       /\ Relinked(Nodes, Nexts, Prevs, Nexts', Prevs', n, c, b, a)
  <2>1. b = node[c].prev /\ a = node[n].next
    BY DEF b, a
  <2> QED
    BY <1>4, <1>6, <1>9, <2>1, SwapFields
<1>11. Links(q2, head', tail', Nexts', Prevs', Linked)
  <2>1. Links(q, head, tail, Nexts, Prevs, Linked)
    BY DEF IsList
  <2>2. Relinked(Linked, Nexts, Prevs, Nexts', Prevs', n, c, b, a)
    BY <1>10 DEF Relinked, Linked
  <2>3. b = Prevs[c] /\ a = Nexts[n]
    BY <1>6 DEF b, a, Prevs, Nexts
  <2>4. Swaps(q, k, head, tail, Nexts, Prevs, Linked, head', tail', Nexts', Prevs', n, c, b, a)
    BY <1>2, <1>4, <1>6, <2>2, <2>3 DEF Swaps
  <2> QED
    BY <2>1, <2>4, SwapLinks DEF q2
<1>12. Linked' = Linked
  BY <1>10 DEF Linked, SameRest
<1>13. Ordered(q2)'
  <2> DEFINE L == Len(q)
  <2>1. q2 = [i \in 1 .. L |-> IF i = k THEN c ELSE IF i = k - 1 THEN n ELSE q[i]]
    BY <1>2, <1>6 DEF q2, Swapped
  <2>2. Len(q2) = L
    BY <1>1, <2>1
  <2>3. \A m \in Nodes : node'[m].priority = node[m].priority /\ pc'[m] = pc[m]
    BY <1>4, <1>10 DEF SameRest
  <2>4. ASSUME NEW i \in 1 .. L, NEW j \in 1 .. L, i < j
        PROVE  node[q[j]].priority <= node[q[i]].priority \/ pc[q[j]] = "sort"
    BY <2>4 DEF IsList, Ordered
  <2>5. /\ \A i \in 1 .. L : q2[i] = IF i = k THEN c ELSE IF i = k - 1 THEN n ELSE q[i]
        /\ \A i \in 1 .. L : q[i] \in Nodes /\ node[q[i]].priority \in Int
    BY <1>1, <2>1, WaitTypes
  <2> SUFFICES ASSUME NEW i \in 1 .. L, NEW j \in 1 .. L, i < j
               PROVE  node[q2[j]].priority <= node[q2[i]].priority \/ pc[q2[j]] = "sort"
    <3>1. \A i \in 1 .. L : q2[i] \in Nodes
      BY <1>6, <2>5
    <3> QED
      BY <2>2, <2>3, <3>1 DEF Ordered
  <2>6. CASE j = k - 1
    BY <1>6, <2>5, <2>6
  <2>7. CASE j = k /\ i = k - 1
    <3>1. q2[j] = c /\ q2[i] = n
      BY <1>6, <2>5, <2>7
    <3>2. node[c].priority \in Int /\ node[n].priority \in Int
      BY <1>6, WaitTypes
    <3> QED
      BY <1>3, <3>1, <3>2 DEF c
  <2>8. CASE j = k /\ i # k - 1
    <3>1. q2[j] = q[k - 1] /\ q2[i] = q[i] /\ i < k - 1
      BY <1>6, <2>5, <2>8
    <3>2. node[q[k - 1]].priority <= node[q[i]].priority \/ pc[q[k - 1]] = "sort"
      BY <1>6, <2>4, <3>1
    <3> QED
      BY <3>1, <3>2
  <2>9. CASE j # k /\ j # k - 1
    <3>1. PICK i2 \in 1 .. L : q2[i] = q[i2] /\ i2 < j /\ q2[j] = q[j]
      <4>1. CASE i = k
        <5>1. q2[i] = q[k - 1] /\ k - 1 < j /\ q2[j] = q[j]
          BY <1>6, <2>5, <2>9, <4>1
        <5> QED
          BY <1>6, <5>1
      <4>2. CASE i = k - 1
        <5>1. q2[i] = q[k] /\ k < j /\ q2[j] = q[j]
          BY <1>2, <1>6, <2>5, <2>9, <4>2
        <5> QED
          BY <1>6, <5>1
      <4>3. CASE i # k /\ i # k - 1
        BY <2>5, <2>9, <4>3
      <4> QED
        BY <4>1, <4>2, <4>3
    <3> QED
      BY <2>4, <3>1
  <2> QED
    BY <2>6, <2>7, <2>8, <2>9
<1>14. q2 \in Seq(Nodes)
  BY <1>11 DEF Links
<1>15. IsList(q2)'
  BY <1>11, <1>12, <1>13 DEF IsList
<1> QED
  BY <1>10, <1>14, <1>15

\* When the sort ends, n is behind no lower priority.
LEMMA SortedList ==
  ASSUME TypeOK, NEW q, IsList(q), NEW n \in Nodes, node[n].linked, SortDone(n),
         \A m \in Nodes : pc[m] = "sort" => m = n
  PROVE  IsList(q)'
<1>1. /\ q \in Seq(Nodes) /\ Len(q) \in Nat /\ Distinct(q)
      /\ \A k \in 1 .. Len(q) : q[k] \in Nodes /\ node[q[k]].prev = Elem(q, k - 1)
  BY ListFacts
<1>2. PICK k \in 1 .. Len(q) : q[k] = n
  BY ListFacts
<1>3. UNCHANGED <<head, tail, node>>
  BY DEF SortDone
<1>4. Nexts' = Nexts /\ Prevs' = Prevs /\ Linked' = Linked
  BY <1>3 DEF Nexts, Prevs, Linked
<1>5. Ordered(q)'
  <2> SUFFICES ASSUME NEW i \in 1 .. Len(q), NEW j \in 1 .. Len(q), i < j
               PROVE  node[q[j]].priority <= node[q[i]].priority
    BY <1>3 DEF Ordered
  <2>1. \A x, y \in 1 .. Len(q) :
          x < y => node[q[y]].priority <= node[q[x]].priority \/ pc[q[y]] = "sort"
    BY DEF IsList, Ordered
  <2>2. \A x \in 1 .. Len(q) : node[q[x]].priority \in Int
    BY <1>1, WaitTypes
  <2>3. \A x \in 1 .. Len(q) : pc[q[x]] = "sort" => x = k
    BY <1>1, <1>2 DEF Distinct
  <2>4. CASE j # k
    BY <2>1, <2>3, <2>4
  <2>5. CASE j = k
    <3>1. k - 1 \in 1 .. Len(q) /\ k \in 2 .. Len(q)
      BY <1>1, <2>5
    <3>2. node[n].prev = q[k - 1] /\ q[k - 1] # Null
      BY <1>1, <1>2, <3>1, ElemIs, Distinctness
    <3>3. ~(node[q[k - 1]].priority < node[n].priority)
      BY <3>2 DEF SortDone, MovesAhead
    <3>4. node[n].priority <= node[q[k - 1]].priority
      BY <1>2, <2>2, <3>1, <3>3
    <3>5. node[q[k - 1]].priority <= node[q[i]].priority
      <4>1. CASE i = k - 1
        BY <2>2, <4>1
      <4>2. CASE i # k - 1
        <5>1. i < k - 1 /\ k - 1 # k
          BY <2>5, <3>1, <4>2
        <5> QED
          BY <2>1, <2>3, <3>1, <5>1
      <4> QED
        BY <4>1, <4>2
    <3> QED
      BY <1>2, <2>2, <2>5, <3>1, <3>4, <3>5
  <2> QED
    BY <2>4, <2>5
<1> QED
  BY <1>3, <1>4, <1>5 DEF IsList

-----------------------------------------------------------------------------
(* The invariant *)

LEMMA WaitQueueInit ==
  ASSUME Init
  PROVE  WaitQueueInv /\ RememberedInv
<1>1. /\ lock = Null /\ head = Null /\ tail = Null /\ len = 0
      /\ node = [n \in Nodes |-> NewNode]
      /\ pc = [a \in Nodes \cup Wakers |-> "idle"]
      /\ batch = [w \in Wakers |-> <<>>] /\ woken = [n \in Nodes |-> FALSE]
  BY DEF Init
<1>2. TypeOK
  <2>1. NewNode \in NodeType
    BY DEF NewNode, NodeType
  <2>2. <<>> \in BoundedSeq(Nodes, WakeBatch)
    <3>1. <<>> \in Seq(Nodes) /\ Len(<<>>) <= WakeBatch
      BY BatchCap
    <3> QED
      BY <3>1, BoundedBatch
  <2>3. len \in 0 .. LEN - 1
    BY <1>1, LenAssumption
  <2> QED
    BY <1>1, <2>1, <2>2, <2>3 DEF TypeOK, TaskPCs, WakerPCs, NodeType
<1>3. ActorsSound /\ RememberedInv
  BY <1>1, Distinctness DEF ActorsSound, RememberedInv, Waiting, NewNode
<1>4. IsList(<<>>)
  <2> DEFINE q == <<>>
  <2>1. q \in Seq(Nodes) /\ Len(q) = 0 /\ 1 .. Len(q) = {}
    OBVIOUS
  <2>2. Linked = {}
    BY <1>1 DEF Linked, NewNode
  <2>3. Elem(q, 1) = Null /\ Elem(q, Len(q)) = Null
    BY <2>1 DEF Elem
  <2> HIDE DEF q
  <2>4. Links(q, head, tail, Nexts, Prevs, Linked) /\ Ordered(q)
    BY <1>1, <2>1, <2>2, <2>3 DEF Links, Distinct, Ordered
  <2> QED
    BY <2>4 DEF IsList, q
<1>5. <<>> \in Seq(Nodes)
  OBVIOUS
<1> QED
  BY <1>2, <1>3, <1>4, <1>5 DEF WaitQueueInv

\* What an actor knows, from what it knew: only its own node or batch changes.
LEMMA TaskInv ==
  ASSUME WaitQueueInv, NEW n \in Nodes, TaskStep(n)
  PROVE  ActorsSound' /\ \E q \in Seq(Nodes) : IsList(q)'
<1>0. /\ TypeOK /\ n \in Nodes \cup Wakers /\ n # Null
      /\ \A w \in Wakers : w # n /\ w \notin Nodes /\ w # Null
      /\ \A m \in Nodes : m # Null
  BY Distinctness DEF WaitQueueInv
<1>1. PICK q \in Seq(Nodes) : IsList(q)
  BY DEF WaitQueueInv
<1>2. /\ \A m \in Nodes :
           /\ pc[m] = "sort" <=> lock = m
           /\ node[m].linked => node[m].waker /\ Waiting(m)
           /\ pc[m] = "sort" => node[m].linked
      /\ \A w \in Wakers :
           /\ pc[w] = "drain" <=> lock = w
           /\ pc[w] = "idle" => batch[w] = <<>>
           /\ pc[w] = "drain" => Distinct(batch[w])
           /\ pc[w] = "drain" => \A i \in 1 .. Len(batch[w]) : ~node[batch[w][i]].linked
  BY DEF WaitQueueInv, ActorsSound
<1>3. \A w \in Wakers : \A i \in 1 .. Len(batch[w]) : batch[w][i] \in Nodes
  BY <1>0, WaitTypes
<1>4. ASSUME NEW l \in TaskPCs, Goto(n, l)
      PROVE  /\ pc'[n] = l /\ \A m \in Nodes : m # n => pc'[m] = pc[m]
             /\ \A w \in Wakers : pc'[w] = pc[w]
  BY <1>0, <1>4, Moves
<1>5. ASSUME NEW p \in Priorities, EnqueueLink(n, p)
      PROVE  ActorsSound' /\ \E q2 \in Seq(Nodes) : IsList(q2)'
  <2>1. /\ pc[n] = "idle" /\ lock = Null /\ lock' = n /\ Goto(n, "sort") /\ UNCHANGED batch
    BY <1>5 DEF EnqueueLink
  <2>2. ~node[n].linked
    BY <1>2, <2>1 DEF Waiting
  <2>3. IsList(Append(q, n))'
    BY <1>0, <1>1, <1>5, <2>2, EnqueueList
  <2>4. Append(q, n) \in Seq(Nodes)
    OBVIOUS
  <2>5. /\ pc'[n] = "sort" /\ \A m \in Nodes : m # n => pc'[m] = pc[m]
        /\ \A w \in Wakers : pc'[w] = pc[w]
    BY <1>4, <2>1 DEF TaskPCs
  <2>6. tail # n
    BY <1>0, <1>1, <2>2, ListFacts, ElemIs
  <2>7. /\ node'[n].linked /\ node'[n].waker
        /\ \A m \in Nodes : m # n => SameRest(m)
    BY <1>0, <1>5, <2>6, EnqueueFields
  <2>8. ActorsSound'
    BY <1>0, <1>2, <2>1, <2>5, <2>7 DEF ActorsSound, Waiting, SameRest
  <2> QED
    BY <2>3, <2>4, <2>8
<1>6. CASE SortStep(n)
  <2>1. pc[n] = "sort" /\ UNCHANGED <<lock, pc, batch>>
    BY <1>6 DEF SortStep
  <2>2. /\ \E q2 \in Seq(Nodes) : IsList(q2)'
        /\ \A m \in Nodes : SameRest(m)
    BY <1>0, <1>1, <1>2, <1>6, <2>1, SortList
  <2>3. ActorsSound'
    BY <1>0, <1>2, <1>3, <2>1, <2>2 DEF ActorsSound, Waiting, SameRest
  <2> QED
    BY <2>2, <2>3
<1>7. CASE SortDone(n)
  <2>1. pc[n] = "sort" /\ lock' = Null /\ Goto(n, "count") /\ UNCHANGED <<node, batch>>
    BY <1>7 DEF SortDone
  <2>2. IsList(q)'
    BY <1>0, <1>1, <1>2, <1>7, <2>1, SortedList
  <2>3. /\ pc'[n] = "count" /\ \A m \in Nodes : m # n => pc'[m] = pc[m]
        /\ \A w \in Wakers : pc'[w] = pc[w]
    BY <1>4, <2>1 DEF TaskPCs
  <2>4. ActorsSound'
    BY <1>0, <1>2, <2>1, <2>3 DEF ActorsSound, Waiting
  <2> QED
    BY <2>2, <2>4
<1>8. ASSUME NEW l \in TaskPCs \ {"sort"}, Goto(n, l), pc[n] # "sort",
             Waiting(n) => l \in {"count", "parked"} \/ ~node[n].linked,
             UNCHANGED <<lock, head, tail, node, batch>>
      PROVE  ActorsSound' /\ \E q2 \in Seq(Nodes) : IsList(q2)'
  <2>1. /\ pc'[n] = l /\ \A m \in Nodes : m # n => pc'[m] = pc[m]
        /\ \A w \in Wakers : pc'[w] = pc[w]
    BY <1>4, <1>8
  <2>2. IsList(q)'
    BY <1>1, <1>8, <2>1, ListStays
  <2>3. ActorsSound'
    BY <1>0, <1>2, <1>8, <2>1 DEF ActorsSound, Waiting
  <2> QED
    BY <2>2, <2>3
<1>9. CASE EnqueueCount(n)
  BY <1>8, <1>9 DEF EnqueueCount, TaskPCs
<1>10. CASE RemoveLinked(n)
  <2>1. /\ pc[n] = "parked" /\ lock = Null /\ node[n].linked
        /\ Goto(n, "uncount") /\ UNCHANGED <<lock, batch>>
    BY <1>10 DEF RemoveLinked
  <2>2. /\ pc'[n] = "uncount" /\ \A m \in Nodes : m # n => pc'[m] = pc[m]
        /\ \A w \in Wakers : pc'[w] = pc[w]
    BY <1>4, <2>1 DEF TaskPCs
  <2>3. Leaves(n, node[n].prev, node[n].next)
    BY <1>0, <1>10, RemoveLeaves
  <2>4. \A m \in Nodes : pc[m] = "sort" => pc'[m] = "sort"
    BY <2>1, <2>2
  <2>5. \E q2 \in Seq(Nodes) : IsList(q2)'
    BY <1>0, <1>1, <2>1, <2>3, <2>4, LeaveList
  <2>6. ~node'[n].linked /\ \A m \in Nodes : m # n => SameRest(m)
    BY <2>3 DEF Leaves
  <2>7. ActorsSound'
    BY <1>0, <1>2, <2>1, <2>2, <2>6 DEF ActorsSound, Waiting, SameRest
  <2> QED
    BY <2>5, <2>7
<1>11. CASE RemoveUnlinked(n)
  BY <1>8, <1>11 DEF RemoveUnlinked, TaskPCs
<1>12. CASE RemoveCount(n)
  BY <1>8, <1>12 DEF RemoveCount, TaskPCs, Waiting
<1> QED
  BY <1>5, <1>6, <1>7, <1>9, <1>10, <1>11, <1>12 DEF TaskStep

\* The head is linked, has a waker and leaves the list.
LEMMA PopList ==
  ASSUME WaitQueueInv, head # Null, PopHead,
         \A m \in Nodes : pc[m] = "sort" => pc'[m] = "sort"
  PROVE  /\ head \in Nodes /\ node[head].linked /\ node[head].waker /\ ~node'[head].linked
         /\ \A m \in Nodes : m # head => SameRest(m)
         /\ \E q \in Seq(Nodes) : IsList(q)'
<1>1. TypeOK
  BY DEF WaitQueueInv
<1>2. PICK q \in Seq(Nodes) : IsList(q)
  BY DEF WaitQueueInv
<1>3. Len(q) \in Nat /\ 1 \in Int /\ head = Elem(q, 1)
  BY <1>2, ListFacts
<1>4. 1 \in 1 .. Len(q) /\ head = q[1]
  BY <1>3, ElemIs
<1>5. head \in Nodes /\ node[head].linked /\ node[head].prev = Elem(q, 0)
  BY <1>2, <1>4, ListFacts
<1>6. node[head].prev = Null
  BY <1>3, <1>5, ElemIs
<1>7. Leaves(head, node[head].prev, node[head].next)
  BY <1>1, <1>6, PopLeaves
<1>8. \E q2 \in Seq(Nodes) : IsList(q2)'
  BY <1>1, <1>2, <1>5, <1>7, LeaveList
<1>9. node[head].waker
  BY <1>5 DEF WaitQueueInv, ActorsSound
<1> QED
  BY <1>5, <1>7, <1>8, <1>9 DEF Leaves

LEMMA PushWakerIs ==
  ASSUME NEW s \in Seq(Nodes), NEW n \in Nodes, Len(s) <= WakeBatch
  PROVE  \/ PushWaker(s, n) = s
         \/ /\ PushWaker(s, n) \in Seq(Nodes) /\ Len(PushWaker(s, n)) = Len(s) + 1
            /\ PushWaker(s, n)[Len(s) + 1] = n
            /\ \A i \in 1 .. Len(s) : PushWaker(s, n)[i] = s[i]
<1>1. CASE node[n].waker /\ Len(s) < WakeBatch
  <2>1. PushWaker(s, n) = Append(s, n)
    BY <1>1 DEF PushWaker
  <2> QED
    BY <2>1
<1>2. CASE ~(node[n].waker /\ Len(s) < WakeBatch)
  BY <1>2 DEF PushWaker
<1> QED
  BY <1>1, <1>2

LEMMA WakerInv ==
  ASSUME WaitQueueInv, NEW w \in Wakers, WakerStep(w)
  PROVE  ActorsSound' /\ \E q \in Seq(Nodes) : IsList(q)'
<1>0. /\ TypeOK /\ w \in Nodes \cup Wakers /\ w # Null /\ w \notin Nodes
      /\ \A m \in Nodes : m # w /\ m # Null
  BY Distinctness DEF WaitQueueInv
<1>1. PICK q \in Seq(Nodes) : IsList(q)
  BY DEF WaitQueueInv
<1>2. /\ \A m \in Nodes :
           /\ pc[m] = "sort" <=> lock = m
           /\ node[m].linked => node[m].waker /\ Waiting(m)
           /\ pc[m] = "sort" => node[m].linked
      /\ \A v \in Wakers :
           /\ pc[v] = "drain" <=> lock = v
           /\ pc[v] = "idle" => batch[v] = <<>>
           /\ pc[v] = "drain" => Distinct(batch[v])
           /\ pc[v] = "drain" => \A i \in 1 .. Len(batch[v]) : ~node[batch[v][i]].linked
  BY DEF WaitQueueInv, ActorsSound
<1>3. /\ \A v \in Wakers : \A i \in 1 .. Len(batch[v]) : batch[v][i] \in Nodes
      /\ batch \in [Wakers -> Seq(Nodes)]
      /\ \A v \in Wakers : Len(batch[v]) \in Nat /\ Len(batch[v]) <= WakeBatch
  BY <1>0, WaitTypes
<1>4. ASSUME NEW l \in WakerPCs, Goto(w, l)
      PROVE  /\ pc'[w] = l /\ \A m \in Nodes : pc'[m] = pc[m]
             /\ \A v \in Wakers : v # w => pc'[v] = pc[v]
  BY <1>0, <1>4, Moves
\* Steps that leave the nodes alone.
<1>5. ASSUME UNCHANGED <<head, tail, node>>, \A m \in Nodes : pc'[m] = pc[m]
      PROVE  \E q2 \in Seq(Nodes) : IsList(q2)'
  BY <1>1, <1>5, ListStays
<1>6. ASSUME NEW l \in WakerPCs \ {"drain", "idle"}, Goto(w, l), pc[w] # "drain",
             UNCHANGED <<lock, head, tail, node, batch>>
      PROVE  ActorsSound' /\ \E q2 \in Seq(Nodes) : IsList(q2)'
  <2>1. /\ pc'[w] = l /\ \A m \in Nodes : pc'[m] = pc[m]
        /\ \A v \in Wakers : v # w => pc'[v] = pc[v]
    BY <1>4, <1>6
  <2>2. ActorsSound'
    BY <1>0, <1>2, <1>6, <2>1 DEF ActorsSound, Waiting
  <2> QED
    BY <1>5, <1>6, <2>1, <2>2
<1>7. CASE WakeOnePop(w)
  <2>1. /\ pc[w] = "idle" /\ lock = Null /\ head # Null /\ PopHead
        /\ batch' = [batch EXCEPT ![w] = PushWaker(<<>>, head)]
        /\ Goto(w, "uncount") /\ lock' = lock
    BY <1>7 DEF WakeOnePop
  <2>2. /\ pc'[w] = "uncount" /\ \A m \in Nodes : pc'[m] = pc[m]
        /\ \A v \in Wakers : v # w => pc'[v] = pc[v]
    BY <1>4, <2>1 DEF WakerPCs
  <2>3. /\ head \in Nodes /\ ~node'[head].linked
        /\ \A m \in Nodes : m # head => SameRest(m)
        /\ \E q2 \in Seq(Nodes) : IsList(q2)'
    BY <2>1, <2>2, PopList
  <2>4. \A v \in Wakers : v # w => batch'[v] = batch[v]
    BY <1>3, <2>1
  <2>5. \A m \in Nodes :
          /\ pc'[m] = "sort" <=> lock' = m
          /\ node'[m].linked => node'[m].waker /\ Waiting(m)'
          /\ pc'[m] = "sort" => node'[m].linked
    BY <1>0, <1>2, <2>1, <2>2, <2>3 DEF Waiting, SameRest
  <2>6. \A v \in Wakers : pc'[v] # "drain" /\ lock' # v
                         /\ (pc'[v] = "idle" => v # w /\ batch'[v] = <<>>)
    BY <1>2, <2>1, <2>2, <2>4, Distinctness
  <2>7. ActorsSound'
    BY <2>5, <2>6 DEF ActorsSound
  <2> QED
    BY <2>3, <2>7
<1>8. CASE WakeOneCount(w)
  BY <1>6, <1>8 DEF WakeOneCount, WakerPCs
<1>9. CASE WakeAllLock(w)
  <2>1. /\ pc[w] = "idle" /\ lock = Null /\ lock' = w /\ Goto(w, "drain")
        /\ UNCHANGED <<head, tail, node, batch>>
    BY <1>9 DEF WakeAllLock
  <2>2. /\ pc'[w] = "drain" /\ \A m \in Nodes : pc'[m] = pc[m]
        /\ \A v \in Wakers : v # w => pc'[v] = pc[v]
    BY <1>4, <2>1 DEF WakerPCs
  <2>3. batch[w] = <<>> /\ Len(batch[w]) = 0
    BY <1>2, <2>1
  <2>4. Distinct(batch[w]) /\ \A i \in 1 .. Len(batch[w]) : ~node[batch[w][i]].linked
    BY <2>3 DEF Distinct
  <2>5. ActorsSound'
    <3>1. \A m \in Nodes :
            /\ pc'[m] = "sort" <=> lock' = m
            /\ node'[m].linked => node'[m].waker /\ Waiting(m)'
            /\ pc'[m] = "sort" => node'[m].linked
      BY <1>0, <1>2, <2>1, <2>2 DEF Waiting
    <3>2. \A v \in Wakers : v # w => pc'[v] # "drain" /\ lock' # v
                                     /\ (pc'[v] = "idle" => batch'[v] = <<>>)
      BY <1>2, <2>1, <2>2, Distinctness
    <3>3. /\ Distinct(batch[w])' /\ \A i \in 1 .. Len(batch'[w]) : ~node'[batch'[w][i]].linked
          /\ pc'[w] = "drain" /\ lock' = w
      BY <2>1, <2>2, <2>4 DEF Distinct
    <3> QED
      BY <3>1, <3>2, <3>3 DEF ActorsSound
  <2> QED
    BY <1>5, <2>1, <2>2, <2>5
<1>10. CASE DrainStep(w)
  <2> DEFINE s == batch[w]
             s2 == PushWaker(s, head)
  <2>1. /\ pc[w] = "drain" /\ head # Null /\ PopHead /\ UNCHANGED <<lock, pc>>
        /\ batch' = [batch EXCEPT ![w] = s2]
    BY <1>10 DEF DrainStep
  <2>2. /\ head \in Nodes /\ node[head].linked /\ ~node'[head].linked
        /\ \A m \in Nodes : m # head => SameRest(m)
        /\ \E q2 \in Seq(Nodes) : IsList(q2)'
    BY <2>1, PopList
  <2>3. batch'[w] = s2 /\ \A v \in Wakers : v # w => batch'[v] = batch[v]
    BY <1>3, <2>1
  <2>4. /\ s \in Seq(Nodes) /\ Len(s) \in Nat /\ Len(s) <= WakeBatch
        /\ \A i \in 1 .. Len(s) : s[i] \in Nodes
    BY <1>3
  <2>5. /\ Distinct(s) /\ \A i \in 1 .. Len(s) : ~node[s[i]].linked
    BY <1>2, <2>1
  <2>6. \/ s2 = s
        \/ /\ s2 \in Seq(Nodes) /\ Len(s2) = Len(s) + 1 /\ s2[Len(s) + 1] = head
           /\ \A i \in 1 .. Len(s) : s2[i] = s[i]
    BY <2>2, <2>4, PushWakerIs
  <2> HIDE DEF s, s2
  <2>7. \A i \in 1 .. Len(s) : s[i] # head /\ ~node'[s[i]].linked
    BY <2>2, <2>4, <2>5 DEF SameRest
  <2>8. Distinct(s2) /\ \A i \in 1 .. Len(s2) : ~node'[s2[i]].linked
    <3>1. CASE s2 = s
      BY <2>5, <2>7, <3>1
    <3>2. CASE s2 # s
      <4>1. /\ Len(s2) = Len(s) + 1 /\ s2[Len(s) + 1] = head
            /\ \A i \in 1 .. Len(s) : s2[i] = s[i]
        BY <2>6, <3>2
      <4>2. \A i \in 1 .. Len(s2) : i \in 1 .. Len(s) \/ i = Len(s) + 1
        BY <2>4, <4>1
      <4>3. \A i, j \in 1 .. Len(s) : s[i] = s[j] => i = j
        BY <2>5 DEF Distinct
      <4>4. Distinct(s2)
        BY <2>7, <4>1, <4>2, <4>3 DEF Distinct
      <4> QED
        BY <2>2, <2>7, <4>1, <4>2, <4>4
    <3> QED
      BY <3>1, <3>2
  <2>9. \A v \in Wakers : pc[v] = "drain" => v = w
    BY <1>2, <2>1
  <2>10. ActorsSound'
    BY <1>0, <1>2, <2>1, <2>2, <2>3, <2>8, <2>9 DEF ActorsSound, Waiting, SameRest
  <2> QED
    BY <2>2, <2>10
<1>11. CASE DrainDone(w)
  <2>1. pc[w] = "drain" /\ lock' = Null /\ Goto(w, "zero")
        /\ UNCHANGED <<head, tail, node, batch>>
    BY <1>11 DEF DrainDone
  <2>2. /\ pc'[w] = "zero" /\ \A m \in Nodes : pc'[m] = pc[m]
        /\ \A v \in Wakers : v # w => pc'[v] = pc[v]
    BY <1>4, <2>1 DEF WakerPCs
  <2>3. ActorsSound'
    BY <1>0, <1>2, <2>1, <2>2, Distinctness DEF ActorsSound, Waiting
  <2> QED
    BY <1>5, <2>1, <2>2, <2>3
<1>12. CASE WakeAllZero(w)
  BY <1>6, <1>12 DEF WakeAllZero, WakerPCs
<1>13. CASE Wake(w)
  <2>1. pc[w] = "wake" /\ batch' = [batch EXCEPT ![w] = Tail(@)]
        /\ UNCHANGED <<lock, head, tail, node, pc>>
    BY <1>13 DEF Wake
  <2>2. \A v \in Wakers : v # w => batch'[v] = batch[v]
    BY <1>3, <2>1
  <2>3. ActorsSound'
    BY <1>2, <2>1, <2>2 DEF ActorsSound, Waiting
  <2> QED
    BY <1>5, <2>1, <2>3
<1>14. CASE WakeDone(w)
  <2>1. pc[w] = "wake" /\ batch[w] = <<>> /\ Goto(w, "idle")
        /\ UNCHANGED <<lock, head, tail, node, batch>>
    BY <1>14 DEF WakeDone
  <2>2. /\ pc'[w] = "idle" /\ \A m \in Nodes : pc'[m] = pc[m]
        /\ \A v \in Wakers : v # w => pc'[v] = pc[v]
    BY <1>4, <2>1 DEF WakerPCs
  <2>3. ActorsSound'
    BY <1>0, <1>2, <2>1, <2>2 DEF ActorsSound, Waiting
  <2> QED
    BY <1>5, <2>1, <2>2, <2>3
<1> QED
  BY <1>7, <1>8, <1>9, <1>10, <1>11, <1>12, <1>13, <1>14 DEF WakerStep

LEMMA WaitQueueStep ==
  ASSUME WaitQueueInv, [Next]_vars
  PROVE  WaitQueueInv'
<1>0. TypeOK
  BY DEF WaitQueueInv
<1>1. ASSUME NEW n \in Nodes, TaskStep(n) PROVE WaitQueueInv'
  <2>1. TypeOK' /\ ActorsSound'
    BY <1>0, <1>1, TaskType, TaskInv
  <2>2. \E q \in Seq(Nodes) : IsList(q)'
    BY <1>1, TaskInv
  <2> QED
    BY <2>1, <2>2 DEF WaitQueueInv
<1>2. ASSUME NEW w \in Wakers, WakerStep(w) PROVE WaitQueueInv'
  <2>1. TypeOK' /\ ActorsSound'
    BY <1>0, <1>2, WakerType, WakerInv
  <2>2. \E q \in Seq(Nodes) : IsList(q)'
    BY <1>2, WakerInv
  <2> QED
    BY <2>1, <2>2 DEF WaitQueueInv
<1>3. CASE UNCHANGED vars
  <2>1. UNCHANGED <<lock, head, tail, node, len, pc, batch, woken>>
    BY <1>3 DEF vars
  <2>2. TypeOK'
    BY <1>0, <2>1 DEF TypeOK
  <2>3. ActorsSound'
    BY <2>1 DEF WaitQueueInv, ActorsSound, Waiting
  <2>4. \E q \in Seq(Nodes) : IsList(q)'
    BY <2>1, ListStays DEF WaitQueueInv
  <2> QED
    BY <2>2, <2>3, <2>4 DEF WaitQueueInv
<1> QED
  BY <1>1, <1>2, <1>3 DEF Next

\* The invariant holds of every behaviour of the queue.
THEOREM WaitQueueInvariance == Spec => []WaitQueueInv
<1>1. Init => WaitQueueInv
  BY WaitQueueInit
<1>2. WaitQueueInv /\ [Next]_vars => WaitQueueInv'
  BY WaitQueueStep
<1> QED
  BY <1>1, <1>2, PTL DEF Spec

\* Pointers point to nodes, and no call of wake_all() keeps more wakers than
\* its vector holds.
THEOREM WaitQueueTypeCorrect == Spec => []TypeOK
<1>1. WaitQueueInv => TypeOK
  BY DEF WaitQueueInv
<1> QED
  BY <1>1, WaitQueueInvariance, PTL

-----------------------------------------------------------------------------
(* No waiter is forgotten                                                  *)

\* The vector of a wake_all() call has a place for every waiter.
Room == IsFiniteSet(Nodes) /\ Cardinality(Nodes) <= WakeBatch

RoomInv == WaitQueueInv /\ RememberedInv /\ Room

\* Distinct nodes, not all of them, leave room.
LEMMA BatchRoom ==
  ASSUME Room, NEW s \in Seq(Nodes), Distinct(s), NEW h \in Nodes,
         \A i \in 1 .. Len(s) : s[i] # h
  PROVE  Len(s) < WakeBatch
<1> DEFINE T == Nodes \ {h}
<1>1. IsFiniteSet(T) /\ Cardinality(T) = Cardinality(Nodes) - 1 /\ Cardinality(Nodes) \in Nat
  BY FS_RemoveElement, FS_CardinalityType DEF Room
<1>2. Len(s) \in Nat /\ s \in [1 .. Len(s) -> T]
  OBVIOUS
<1>3. s \in Injection(1 .. Len(s), T)
  BY <1>2 DEF Distinct, Injection, IsInjective
<1>4. Cardinality(1 .. Len(s)) <= Cardinality(T)
  <2> HIDE DEF T
  <2> QED
    BY <1>1, <1>3, FS_Injection
<1>5. Cardinality(1 .. Len(s)) = Len(s)
  <2>1. 1 \in Int /\ Len(s) \in Int /\ (1 > Len(s) => Len(s) = 0)
        /\ (Len(s) - 1) + 1 = Len(s)
    BY <1>2
  <2>2. Cardinality(1 .. Len(s)) = IF 1 > Len(s) THEN 0 ELSE Len(s) - 1 + 1
    BY <2>1, FS_Interval
  <2> QED
    BY <2>1, <2>2
<1>6. Cardinality(Nodes) <= WakeBatch /\ WakeBatch \in Nat
  BY BatchCap DEF Room
<1> DEFINE ct == Cardinality(T)
           cn == Cardinality(Nodes)
           cl == Cardinality(1 .. Len(s))
<1>7. ct = cn - 1 /\ cn \in Nat /\ cl <= ct /\ cl = Len(s) /\ cn <= WakeBatch
  BY <1>1, <1>4, <1>5, <1>6
<1> HIDE DEF ct, cn, cl
<1> QED
  BY <1>2, <1>6, <1>7

LEMMA PushKeeps ==
  ASSUME NEW s \in Seq(Nodes), NEW n \in Nodes
  PROVE  /\ Range(s) \subseteq Range(PushWaker(s, n))
         /\ node[n].waker /\ Len(s) < WakeBatch => n \in Range(PushWaker(s, n))
<1>1. CASE node[n].waker /\ Len(s) < WakeBatch
  <2> DEFINE t == Append(s, n)
             L == Len(s)
  <2>1. PushWaker(s, n) = t
    BY <1>1 DEF PushWaker
  <2>2. /\ L \in Nat /\ DOMAIN s = 1 .. L /\ DOMAIN t = 1 .. L + 1 /\ t[L + 1] = n
        /\ \A i \in 1 .. L : t[i] = s[i]
    OBVIOUS
  <2> HIDE DEF t, L
  <2>3. L + 1 \in 1 .. L + 1 /\ \A i \in 1 .. L : i \in 1 .. L + 1
    BY <2>2
  <2> QED
    BY <2>1, <2>2, <2>3 DEF Range
<1>2. CASE ~(node[n].waker /\ Len(s) < WakeBatch)
  BY <1>2 DEF PushWaker
<1> QED
  BY <1>1, <1>2

LEMMA RememberedStep ==
  ASSUME RoomInv, [Next]_vars
  PROVE  RememberedInv'
<1>0. /\ TypeOK /\ WaitQueueInv /\ RememberedInv /\ Room
      /\ \A m \in Nodes : m # Null
  BY Distinctness DEF RoomInv, WaitQueueInv
<1>1. /\ batch \in [Wakers -> Seq(Nodes)]
      /\ \A w \in Wakers : Len(batch[w]) \in Nat
      /\ \A w \in Wakers : pc[w] = "idle" => batch[w] = <<>>
  BY <1>0, WaitTypes DEF WaitQueueInv, ActorsSound
\* It is enough to see what happens to the waiters one by one.
<1>2. ASSUME NEW n \in Nodes, TaskStep(n) PROVE RememberedInv'
  <2>0. batch' = batch /\ \A m \in Nodes : m # n => woken'[m] = woken[m] /\ pc'[m] = pc[m]
    BY <1>0, <1>2 DEF TaskStep, EnqueueLink, SortStep, SortDone, EnqueueCount, RemoveLinked,
                      RemoveUnlinked, RemoveCount, Goto, TypeOK
  <2>1. ASSUME \A m \in Nodes : m # n => SameRest(m),
               Waiting(n)' => Remembered(n)'
        PROVE  RememberedInv'
    BY <1>0, <2>0, <2>1 DEF RememberedInv, Remembered, Waiting, SameRest
  <2>2. ASSUME NEW p \in Priorities, EnqueueLink(n, p) PROVE RememberedInv'
    <3>1. ~node[n].linked
      BY <1>0, <2>2 DEF EnqueueLink, WaitQueueInv, ActorsSound, Waiting
    <3>2. tail # n
      BY <1>0, <3>1, ListFacts, ElemIs DEF WaitQueueInv
    <3>3. node'[n].linked /\ \A m \in Nodes : m # n => SameRest(m)
      BY <1>0, <2>2, <3>2, EnqueueFields
    <3> QED
      BY <2>1, <3>3 DEF Remembered
  <2>3. CASE SortStep(n)
    <3>1. pc[n] = "sort" /\ node[n].linked
      BY <2>3 DEF SortStep, RoomInv, WaitQueueInv, ActorsSound
    <3>2. \A m \in Nodes : SameRest(m)
      BY <1>0, <2>3, <3>1, SortList DEF WaitQueueInv
    <3>3. node'[n].linked
      BY <3>1, <3>2 DEF SameRest
    <3> QED
      BY <2>1, <3>2, <3>3 DEF Remembered
  <2>4. CASE SortDone(n) \/ EnqueueCount(n)
    <3>1. Waiting(n) /\ UNCHANGED <<node, woken>>
      BY <2>4 DEF SortDone, EnqueueCount, Waiting
    <3>2. Remembered(n)'
      BY <1>0, <2>0, <3>1 DEF RememberedInv, Remembered
    <3> QED
      BY <2>1, <3>1, <3>2 DEF SameRest
  <2>5. CASE RemoveLinked(n)
    <3>1. \A m \in Nodes : m # n => SameRest(m)
      BY <1>0, <2>5, RemoveLeaves DEF Leaves
    <3>2. pc'[n] = "uncount"
      BY <1>0, <2>5, Moves, Distinctness DEF RemoveLinked, TaskPCs
    <3> QED
      BY <2>1, <3>1, <3>2 DEF Waiting
  <2>6. CASE RemoveUnlinked(n) \/ RemoveCount(n)
    <3>1. Goto(n, "idle") /\ UNCHANGED node
      BY <2>6 DEF RemoveUnlinked, RemoveCount
    <3>2. pc'[n] = "idle"
      BY <1>0, <3>1, Moves, Distinctness DEF TaskPCs
    <3> QED
      BY <2>1, <3>1, <3>2 DEF Waiting, SameRest
  <2> QED
    BY <1>2, <2>2, <2>3, <2>4, <2>5, <2>6 DEF TaskStep
<1>3. ASSUME NEW w \in Wakers, WakerStep(w) PROVE RememberedInv'
  <2>0. \A m \in Nodes : pc'[m] = pc[m]
    BY <1>0, <1>3, Distinctness
       DEF WakerStep, WakeOnePop, WakeOneCount, WakeAllLock, DrainStep, DrainDone,
           WakeAllZero, Wake, WakeDone, Goto, TypeOK
  \* The head moves from the list to the batch of w.
  <2>1. ASSUME head # Null, PopHead, UNCHANGED woken,
               batch' = [batch EXCEPT ![w] = PushWaker(batch[w], head)],
               node[head].linked => Len(batch[w]) < WakeBatch
        PROVE  RememberedInv'
    <3>1. /\ head \in Nodes /\ node[head].linked /\ node[head].waker
          /\ \A m \in Nodes : m # head => SameRest(m)
      BY <1>0, <2>0, <2>1, PopList
    <3>2. Range(batch[w]) \subseteq Range(batch'[w]) /\ head \in Range(batch'[w])
      BY <1>1, <2>1, <3>1, PushKeeps
    <3>3. \A v \in Wakers : v # w => batch'[v] = batch[v]
      BY <1>1, <2>1
    <3> SUFFICES ASSUME NEW m \in Nodes, Waiting(m), m # head PROVE Remembered(m)'
      BY <2>0, <3>1, <3>2 DEF RememberedInv, Remembered, Waiting
    <3>4. node[m].linked \/ woken[m] \/ \E v \in Wakers : m \in Range(batch[v])
      BY <1>0 DEF RememberedInv, Remembered
    <3>5. \A v \in Wakers : m \in Range(batch[v]) => m \in Range(batch'[v])
      BY <3>2, <3>3
    <3> QED
      BY <2>1, <3>1, <3>4, <3>5 DEF Remembered, SameRest
  <2>2. CASE WakeOnePop(w)
    <3>1. batch[w] = <<>> /\ Len(batch[w]) = 0
      BY <1>1, <2>2 DEF WakeOnePop
    <3> QED
      BY <2>1, <2>2, <3>1, BatchCap DEF WakeOnePop
  <2>3. CASE DrainStep(w)
    <3>1. head # Null /\ head \in Nodes /\ pc[w] = "drain" /\ PopHead
      BY <1>0, <2>3 DEF DrainStep, TypeOK
    <3>2. Distinct(batch[w]) /\ \A i \in 1 .. Len(batch[w]) : ~node[batch[w][i]].linked
      BY <1>0, <3>1 DEF WaitQueueInv, ActorsSound
    <3>3. node[head].linked => Len(batch[w]) < WakeBatch
      BY <1>0, <1>1, <3>1, <3>2, BatchRoom
    <3> QED
      BY <2>1, <2>3, <3>3 DEF DrainStep
  <2>4. CASE Wake(w)
    <3> DEFINE s == batch[w]
    <3>1. /\ s \in Seq(Nodes) /\ s # <<>> /\ batch' = [batch EXCEPT ![w] = Tail(s)]
          /\ woken' = [woken EXCEPT ![Head(s)] = TRUE] /\ UNCHANGED node
      BY <1>1, <2>4 DEF Wake
    <3>2. batch'[w] = Tail(s) /\ \A v \in Wakers : v # w => batch'[v] = batch[v]
      BY <1>1, <3>1
    <3> HIDE DEF s
    <3>3. \A m \in Range(s) : m = Head(s) \/ m \in Range(Tail(s))
      <4> SUFFICES ASSUME NEW i \in 1 .. Len(s) PROVE s[i] = Head(s) \/ s[i] \in Range(Tail(s))
        BY <3>1 DEF Range
      <4>1. CASE i = 1
        BY <3>1, <4>1
      <4>2. CASE i # 1
        <5>1. i - 1 \in 1 .. Len(s) - 1 /\ i - 1 \in DOMAIN Tail(s)
          BY <3>1, <4>2
        <5>2. Tail(s)[i - 1] = s[i]
          BY <3>1, <4>2, <5>1
        <5> QED
          BY <5>1, <5>2 DEF Range
      <4> QED
        BY <4>1, <4>2
    <3>4. Head(s) \in Nodes
      BY <3>1
    <3>5. woken'[Head(s)] /\ \A m \in Nodes : woken[m] => woken'[m]
      BY <1>0, <3>1, <3>4 DEF TypeOK
    <3> SUFFICES ASSUME NEW m \in Nodes, Waiting(m) PROVE Remembered(m)'
      BY <2>0 DEF RememberedInv, Waiting
    <3>6. node[m].linked \/ woken[m] \/ \E v \in Wakers : m \in Range(batch[v])
      BY <1>0 DEF RememberedInv, Remembered
    <3>7. ASSUME NEW v \in Wakers, m \in Range(batch[v])
          PROVE  woken'[m] \/ m \in Range(batch'[v])
      BY <3>2, <3>3, <3>5, <3>7 DEF s
    <3> QED
      BY <3>1, <3>5, <3>6, <3>7 DEF Remembered
  <2>5. CASE WakeOneCount(w) \/ WakeAllLock(w) \/ DrainDone(w) \/ WakeAllZero(w) \/ WakeDone(w)
    <3>1. UNCHANGED <<node, woken, batch>>
      BY <2>5 DEF WakeOneCount, WakeAllLock, DrainDone, WakeAllZero, WakeDone
    <3> QED
      BY <1>0, <2>0, <3>1 DEF RememberedInv, Remembered, Waiting
  <2> QED
    BY <1>3, <2>2, <2>3, <2>4, <2>5 DEF WakerStep
<1>4. CASE UNCHANGED vars
  BY <1>0, <1>4 DEF vars, RememberedInv, Remembered, Waiting
<1> QED
  BY <1>2, <1>3, <1>4 DEF Next

\* A waiter that parked is in the list, has been woken, or is about to be: as
\* long as there are no more tasks than places in the vector of wake_all(),
\* which drops the waker it has no place for.
THEOREM NeverForgotten ==
  Spec /\ IsFiniteSet(Nodes) /\ Cardinality(Nodes) <= WakeBatch => []NoWaiterForgotten
<1>1. Init /\ IsFiniteSet(Nodes) /\ Cardinality(Nodes) <= WakeBatch => RoomInv
  BY WaitQueueInit DEF RoomInv, Room
<1>2. RoomInv /\ [Next]_vars => RoomInv'
  <2> SUFFICES ASSUME RoomInv, [Next]_vars PROVE RoomInv'
    OBVIOUS
  <2>1. WaitQueueInv' /\ RememberedInv'
    BY WaitQueueStep, RememberedStep DEF RoomInv
  <2> QED
    BY <2>1 DEF RoomInv, Room
<1>3. RoomInv => NoWaiterForgotten
  BY DEF RoomInv, RememberedInv, Remembered, Waiting, NoWaiterForgotten
<1> HIDE DEF RoomInv, Init, Next, vars, NoWaiterForgotten
<1> QED
  BY <1>1, <1>2, <1>3, PTL DEF Spec

-----------------------------------------------------------------------------
(* Walking the pointers from head meets the list.                          *)

\* A finite set of numbers has a least one.
LEMMA LeastOf ==
  ASSUME NEW S \in SUBSET Int, IsFiniteSet(S), S # {}
  PROVE  \E m \in S : \A x \in S : m <= x
<1> DEFINE Below(m) == {x \in S : x < m}
           T == {Below(m) : m \in S}
           R == StrictSubsetOrdering(S)
<1>1. IsWellFoundedOn(R, SUBSET S)
  BY FS_StrictSubsetOrderingWellFounded, FS_FiniteSubsetsOfFinite
<1>2. T \subseteq SUBSET S /\ T # {}
  OBVIOUS
<1>3. PICK A \in T : \A B \in T : ~(<<B, A>> \in R)
  <2> HIDE DEF R, T
  <2> QED
    BY <1>1, <1>2, WFMin
<1>4. PICK m \in S : A = Below(m)
  BY <1>3
<1>5. ASSUME NEW x \in S, x < m PROVE FALSE
  <2>1. Below(x) \subseteq Below(m) /\ x \in Below(m) /\ x \notin Below(x)
    <3>1. x \in Int /\ m \in Int /\ \A y \in S : y \in Int
      OBVIOUS
    <3>2. ~(x < x) /\ \A y \in S : y < x => y < m
      BY <1>5, <3>1
    <3> QED
      BY <1>5, <3>2
  <2>2. <<Below(x), Below(m)>> \in R
    BY <2>1 DEF StrictSubsetOrdering
  <2>3. Below(x) \in T
    BY <1>5
  <2> HIDE DEF Below, T, R
  <2> QED
    BY <1>3, <1>4, <2>2, <2>3
<1> QED
  BY <1>5

Steps == 0 .. Cardinality(Nodes)

\* What the walk meets, and the equation that defines Walk.
Met(q) == [k \in Steps |-> Elem(q, k + 1)]
Walks(f) ==
  f = [k \in Steps |-> IF k = 0 THEN head
                       ELSE IF f[k - 1] = Null THEN Null ELSE node[f[k - 1]].next]

LEMMA ListFits ==
  ASSUME IsFiniteSet(Nodes), NEW q \in Seq(Nodes), Distinct(q)
  PROVE  /\ Len(q) \in Nat /\ Cardinality(Nodes) \in Nat /\ Len(q) <= Cardinality(Nodes)
         /\ Cardinality(1 .. Len(q)) = Len(q) /\ Cardinality(0 .. Len(q) - 1) = Len(q)
<1>1. Len(q) \in Nat /\ q \in [1 .. Len(q) -> Nodes]
  OBVIOUS
<1>2. q \in Injection(1 .. Len(q), Nodes)
  BY <1>1 DEF Distinct, Injection, IsInjective
<1>3. Cardinality(1 .. Len(q)) <= Cardinality(Nodes)
  BY <1>2, FS_Injection
<1> DEFINE L == Len(q)
<1>4. L \in Nat
  BY <1>1
<1> HIDE DEF L
<1>5. Cardinality(1 .. L) = L
  <2>1. 1 \in Int /\ L \in Int /\ (1 > L => L = 0) /\ (L - 1) + 1 = L
    BY <1>4
  <2>2. Cardinality(1 .. L) = IF 1 > L THEN 0 ELSE L - 1 + 1
    BY <2>1, FS_Interval
  <2> QED
    BY <2>1, <2>2
<1>6. Cardinality(0 .. L - 1) = L
  <2>1. 0 \in Int /\ L - 1 \in Int /\ (0 > L - 1 => L = 0) /\ (L - 1) - 0 + 1 = L
    BY <1>4
  <2>2. Cardinality(0 .. L - 1) = IF 0 > L - 1 THEN 0 ELSE (L - 1) - 0 + 1
    BY <2>1, FS_Interval
  <2> QED
    BY <2>1, <2>2
<1>7. Cardinality(Nodes) \in Nat
  BY FS_CardinalityType
<1> QED
  BY <1>3, <1>4, <1>5, <1>6, <1>7 DEF L

LEMMA MetWalks ==
  ASSUME IsFiniteSet(Nodes), NEW q, IsList(q)
  PROVE  Walks(Met(q))
<1>1. /\ q \in Seq(Nodes) /\ Len(q) \in Nat /\ head = Elem(q, 1)
      /\ \A k \in 1 .. Len(q) : q[k] \in Nodes /\ node[q[k]].next = Elem(q, k + 1)
  BY ListFacts
<1>2. Cardinality(Nodes) \in Nat
  BY FS_CardinalityType
<1>3. ASSUME NEW k \in Steps
      PROVE  Met(q)[k] = IF k = 0 THEN head
                         ELSE IF Met(q)[k - 1] = Null THEN Null
                              ELSE node[Met(q)[k - 1]].next
  <2>1. k \in Int /\ Met(q)[k] = Elem(q, k + 1)
    BY <1>2 DEF Met, Steps
  <2>2. CASE k = 0
    BY <1>1, <2>1, <2>2
  <2>3. CASE k # 0
    <3>1. k - 1 \in Steps /\ (k - 1) + 1 = k
      BY <1>2, <2>3 DEF Steps
    <3>2. Met(q)[k - 1] = Elem(q, k)
      BY <3>1 DEF Met
    <3>3. CASE k \in 1 .. Len(q)
      <4>1. Elem(q, k) = q[k] /\ q[k] # Null
        BY <1>1, <3>3, Distinctness DEF Elem
      <4> QED
        BY <1>1, <2>1, <2>3, <3>2, <3>3, <4>1
    <3>4. CASE k \notin 1 .. Len(q)
      <4>1. k + 1 \notin 1 .. Len(q)
        BY <1>1, <1>2, <2>3, <3>4 DEF Steps
      <4> QED
        BY <2>1, <2>3, <3>2, <3>4, <4>1 DEF Elem
    <3> QED
      BY <3>3, <3>4
  <2> QED
    BY <2>2, <2>3
<1>4. Met(q) = [k \in Steps |-> Met(q)[k]]
  BY DEF Met
<1> QED
  BY <1>3, <1>4, Zenon DEF Walks

LEMMA WalkIsMet ==
  ASSUME IsFiniteSet(Nodes), NEW q, IsList(q)
  PROVE  Walk = Met(q)
<1>1. Walks(Met(q))
  BY MetWalks
<1>2. Walk = CHOOSE f : Walks(f)
  BY Zenon DEF Walk, Walks, Steps
<1>3. Walks(Walk)
  BY <1>1, <1>2, Zenon
<1> DEFINE W == Met(q)
           V == Walk
           D == {k \in Steps : V[k] # W[k]}
<1>4. /\ W = [k \in Steps |-> W[k]] /\ V = [k \in Steps |-> V[k]]
      /\ \A k \in Steps :
           /\ V[k] = IF k = 0 THEN head ELSE IF V[k - 1] = Null THEN Null ELSE node[V[k - 1]].next
           /\ W[k] = IF k = 0 THEN head ELSE IF W[k - 1] = Null THEN Null ELSE node[W[k - 1]].next
  <2>1. \A f : Walks(f) =>
          /\ f = [k \in Steps |-> f[k]]
          /\ \A k \in Steps :
               f[k] = IF k = 0 THEN head ELSE IF f[k - 1] = Null THEN Null ELSE node[f[k - 1]].next
    BY DEF Walks
  <2> QED
    BY <1>1, <1>3, <2>1
<1> HIDE DEF W, V
<1>5. Cardinality(Nodes) \in Nat
  BY FS_CardinalityType
<1>6. ASSUME D # {} PROVE FALSE
  <2>1. IsFiniteSet(Steps)
    BY <1>5, FS_Interval, 0 \in Int DEF Steps
  <2>2. IsFiniteSet(D) /\ D \in SUBSET Int
    <3>1. D \in SUBSET Steps /\ Steps \in SUBSET Int
      BY <1>5 DEF Steps
    <3> HIDE DEF D
    <3> QED
      BY <2>1, <3>1, FS_Subset
  <2>3. PICK m \in D : \A x \in D : m <= x
    <3> HIDE DEF D
    <3> QED
      BY <1>6, <2>2, LeastOf
  <2>4. m \in Steps /\ V[m] # W[m]
    BY <2>3
  <2>5. CASE m = 0
    BY <1>4, <2>4, <2>5
  <2>6. CASE m # 0
    <3>1. m - 1 \in Steps /\ m \in Int /\ ~(m <= m - 1)
      BY <1>5, <2>4, <2>6 DEF Steps
    <3>2. V[m - 1] = W[m - 1]
      BY <2>3, <3>1
    <3> QED
      BY <1>4, <2>4, <2>6, <3>2
  <2> QED
    BY <2>5, <2>6
<1>7. \A k \in Steps : V[k] = W[k]
  BY <1>6
<1>8. V = W
  BY <1>4, <1>7
<1> QED
  BY <1>8 DEF V, W

\* What the walk finds is the list.
LEMMA ContentsAre ==
  ASSUME IsFiniteSet(Nodes), NEW q, IsList(q)
  PROVE  /\ Length = Len(q)
         /\ Contents = [k \in 1 .. Len(q) |-> [node |-> q[k], prio |-> node[q[k]].priority]]
<1>1. q \in Seq(Nodes) /\ Len(q) \in Nat /\ Distinct(q)
  BY ListFacts
<1>2. /\ Len(q) <= Cardinality(Nodes) /\ Cardinality(Nodes) \in Nat
      /\ Cardinality(0 .. Len(q) - 1) = Len(q)
  BY <1>1, ListFits
<1>3. Walk = Met(q)
  BY WalkIsMet
<1> DEFINE L == Len(q)
           N == Cardinality(Nodes)
<1>4. {k \in DOMAIN Walk : Walk[k] # Null} = 0 .. L - 1
  <2>1. DOMAIN Walk = Steps /\ \A k \in Steps : Walk[k] = Elem(q, k + 1)
    BY <1>3 DEF Met
  <2>2. \A k \in Steps : Elem(q, k + 1) # Null <=> k + 1 \in 1 .. L
    <3>1. \A k \in Steps : k + 1 \in Int
      BY <1>2 DEF Steps
    <3> QED
      BY <1>1, <3>1, ElemIs
  <2>3. \A k \in Steps : k + 1 \in 1 .. L <=> k \in 0 .. L - 1
    BY <1>1, <1>2 DEF Steps
  <2>4. 0 .. L - 1 \subseteq Steps
    BY <1>1, <1>2 DEF Steps
  <2> HIDE DEF L
  <2> QED
    BY <2>1, <2>2, <2>3, <2>4
<1>5. Length = L
  BY <1>2, <1>4 DEF Length
<1>6. ASSUME NEW k \in 1 .. L PROVE Walk[k - 1] = q[k]
  <2>1. k - 1 \in Steps /\ (k - 1) + 1 = k
    BY <1>1, <1>2 DEF Steps
  <2>2. Walk[k - 1] = Elem(q, k)
    BY <1>3, <2>1 DEF Met
  <2> QED
    BY <2>2 DEF Elem
<1>7. Contents = [k \in 1 .. L |-> [node |-> q[k], prio |-> node[q[k]].priority]]
  BY <1>5, <1>6 DEF Contents
<1> QED
  BY <1>5, <1>7

LEMMA ListWellFormed ==
  ASSUME WaitQueueInv, IsFiniteSet(Nodes)
  PROVE  WellFormed
<1> SUFFICES ASSUME lock = Null
             PROVE  LET c == Contents IN
                    /\ {c[k].node : k \in DOMAIN c} = {n \in Nodes : node[n].linked}
                    /\ IsInjective([k \in DOMAIN c |-> c[k].node])
                    /\ tail = IF c = <<>> THEN Null ELSE Last(c).node
                    /\ \A k \in DOMAIN c :
                         /\ node[c[k].node].prev = IF k = 1 THEN Null ELSE c[k - 1].node
                         /\ k > 1 => c[k - 1].prio >= c[k].prio
  BY DEF WellFormed
<1>1. PICK q \in Seq(Nodes) : IsList(q)
  BY DEF WaitQueueInv
<1> DEFINE c == Contents
           L == Len(q)
<1>2. /\ L \in Nat /\ Distinct(q) /\ tail = Elem(q, L)
      /\ \A k \in 1 .. L : /\ q[k] \in Nodes /\ node[q[k]].linked
                           /\ node[q[k]].prev = Elem(q, k - 1)
      /\ \A n \in Nodes : node[n].linked => \E k \in 1 .. L : q[k] = n
  BY <1>1, ListFacts
<1>3. c = [k \in 1 .. L |-> [node |-> q[k], prio |-> node[q[k]].priority]]
  BY <1>1, ContentsAre
<1> HIDE DEF c, L
<1>4. /\ DOMAIN c = 1 .. L
      /\ \A k \in 1 .. L : c[k].node = q[k] /\ c[k].prio = node[q[k]].priority
  BY <1>3
<1>5. {c[k].node : k \in DOMAIN c} = {n \in Nodes : node[n].linked}
  <2>1. \A k \in DOMAIN c : c[k].node \in {n \in Nodes : node[n].linked}
    BY <1>2, <1>4
  <2>2. ASSUME NEW n \in Nodes, node[n].linked PROVE \E k \in DOMAIN c : c[k].node = n
    <3>1. PICK k \in 1 .. L : q[k] = n
      BY <1>2, <2>2
    <3>2. k \in DOMAIN c /\ c[k].node = n
      BY <1>4, <3>1
    <3> QED
      BY <3>2
  <2> QED
    BY <2>1, <2>2
<1>6. IsInjective([k \in DOMAIN c |-> c[k].node])
  BY <1>2, <1>4 DEF IsInjective, Distinct, L
<1>7. tail = IF c = <<>> THEN Null ELSE Last(c).node
  <2>1. c \in Seq([node : Nodes, prio : Int]) /\ Len(c) = L
    <3> DEFINE R == [node : Nodes, prio : Int]
               r(k) == [node |-> q[k], prio |-> node[q[k]].priority]
    <3>1. \A k \in 1 .. L : r(k) \in R
      BY <1>2, WaitTypes DEF WaitQueueInv
    <3>2. c = [k \in 1 .. L |-> r(k)]
      BY <1>3
    <3> HIDE DEF R, r
    <3>3. c \in [1 .. L -> R]
      BY <3>1, <3>2
    <3> QED
      BY <1>2, <3>3, FunctionSeq DEF R
  <2>2. CASE L = 0
    BY <1>2, <2>1, <2>2, ElemIs DEF Elem, L
  <2>3. CASE L > 0
    <3>1. L \in 1 .. L /\ c # <<>> /\ Last(c) = c[L]
      BY <1>2, <2>1, <2>3 DEF Last
    <3>2. tail = q[L]
      BY <1>2, <3>1 DEF Elem, L
    <3> QED
      BY <1>4, <3>1, <3>2
  <2> QED
    BY <1>2, <2>2, <2>3
<1>8. ASSUME NEW k \in 1 .. L
      PROVE  /\ node[c[k].node].prev = IF k = 1 THEN Null ELSE c[k - 1].node
             /\ k > 1 => c[k - 1].prio >= c[k].prio
  <2>1. node[c[k].node].prev = Elem(q, k - 1)
    BY <1>2, <1>4
  <2>2. CASE k = 1
    BY <1>2, <2>1, <2>2 DEF Elem, L
  <2>3. CASE k # 1
    <3>1. k - 1 \in 1 .. L /\ k - 1 < k
      BY <1>2, <2>3
    <3>2. Elem(q, k - 1) = q[k - 1]
      BY <3>1 DEF Elem, L
    <3>3. pc[q[k]] # "sort"
      BY <1>2, Distinctness DEF WaitQueueInv, ActorsSound
    <3>4. node[q[k]].priority <= node[q[k - 1]].priority
      BY <1>1, <3>1, <3>3 DEF IsList, Ordered, L
    <3>5. node[q[k]].priority \in Int /\ node[q[k - 1]].priority \in Int
      BY <1>2, <3>1, WaitTypes DEF WaitQueueInv
    <3> QED
      BY <1>4, <2>1, <2>3, <3>1, <3>2, <3>4, <3>5
  <2> QED
    BY <2>2, <2>3
<1> QED
  BY <1>4, <1>5, <1>6, <1>7, <1>8 DEF c

\* Between critical sections the doubly linked list is intact: the pointers of
\* any number of waiters, however enqueue(), remove() and the wakers cut and
\* joined them, spell one list in the order of the priorities.
THEOREM ListIntact == Spec /\ IsFiniteSet(Nodes) => []WellFormed
<1> DEFINE K == WaitQueueInv /\ IsFiniteSet(Nodes)
<1>1. Init /\ IsFiniteSet(Nodes) => K
  BY WaitQueueInit
<1>2. K /\ [Next]_vars => K'
  BY WaitQueueStep
<1>3. K => WellFormed
  BY ListWellFormed
<1> HIDE DEF K, Init, Next, vars, WellFormed
<1> QED
  BY <1>1, <1>2, <1>3, PTL DEF Spec

-----------------------------------------------------------------------------
(* The work-stealing deque.  Until one of the three races, the elements   *)
(* are the slots from top to Bound - 1, in which one that pop() has        *)
(* reserved but not taken still counts; a thief that has loaded the top    *)
(* of now covers only such slots, and has read what is in them.            *)

Bound == IF opc \in {"pop", "cas", "restore"} THEN bottom + 1 ELSE bottom

Pushing == opc \in {"grow", "replace", "put", "publish"}

\* What push() and pop() rely on between their accesses.
OwnerSound ==
  /\ opc # "idle" => ob = bottom
  /\ Pushing => ot <= top
  /\ opc = "grow" => ob - ot = cap
  /\ opc \in {"replace", "put", "publish"} => bottom - top < cap
  /\ opc = "publish" => get(ob) = oval
  /\ opc = "cas" => ot = ob /\ ot <= top /\ oval = get(ob)
  /\ opc = "restore" => top = ob + 1

Fits == top <= Bound /\ Bound - top <= cap

\* The elements are different items that nobody has taken.
Elements ==
  /\ \A i \in top .. Bound - 1 : get(i) \in pushed /\ taken[get(i)] = 0
  /\ \A i, j \in top .. Bound - 1 : get(i) = get(j) => i = j

\* An item being pushed is not an element yet.
Entering ==
  Pushing => /\ oval \in pushed /\ taken[oval] = 0
             /\ \A i \in top .. Bound - 1 : get(i) # oval

\* Every pushed item is taken, being pushed or an element.
Accounted ==
  /\ \A v \in Items : taken[v] \in {0, 1} /\ (v \notin pushed => taken[v] = 0)
  /\ \A v \in pushed :
       \/ taken[v] = 1
       \/ Pushing /\ v = oval
       \/ \E i \in top .. Bound - 1 : get(i) = v

\* A thief under way: as long as the top is the one it loaded, the elements it
\* covers are there, and what it has read is in them.
Stealing(s) == spc[s] \in {"read", "cas"}

StealerSound(s) ==
  /\ spc[s] # "idle" => st[s] <= top
  /\ ~Stealing(s) => out[s] = <<>>
  /\ Stealing(s) => sb[s] > st[s]
  /\ spc[s] = "read" => Len(out[s]) < Wanted(s)
  /\ spc[s] = "cas" => Len(out[s]) = Wanted(s)
  /\ Stealing(s) /\ top = st[s] =>
       /\ st[s] + Wanted(s) <= Bound
       /\ \A k \in 1 .. Len(out[s]) : out[s][k] = get(st[s] + k - 1)

Sound ==
  /\ OwnerSound /\ Fits /\ Elements /\ Entering /\ Accounted
  /\ \A s \in Stealers : StealerSound(s)

DequeInv == DequeTypeOK /\ (~raced => Sound)

-----------------------------------------------------------------------------
\* What the types say of one stealer and of the integers.
LEMMA DequeTypes ==
  ASSUME DequeTypeOK
  PROVE  /\ bottom \in Int /\ top \in Int /\ ob \in Int /\ ot \in Int
         /\ cap \in Nat \ {0} /\ gen \in Nat /\ Bound \in Int
         /\ \A i \in Int : get(i) \in Slots
         /\ \A s \in Stealers :
              /\ st[s] \in Int /\ sb[s] \in Int /\ out[s] \in Seq(Slots)
              /\ Len(out[s]) \in Nat /\ Wanted(s) \in Int
<1>1. /\ bottom \in Int /\ top \in Int /\ ob \in Int /\ ot \in Int
      /\ cap \in Nat \ {0} /\ gen \in Nat /\ Bound \in Int
  BY DEF DequeTypeOK, Bound
<1>2. \A i \in Int : get(i) \in Slots
  <2>1. \A i \in Int : i % cap \in 0 .. cap - 1
    BY <1>1
  <2> QED
    BY <2>1 DEF DequeTypeOK, get
<1>3. \A s \in Stealers : st[s] \in Int /\ sb[s] \in Int /\ out[s] \in Seq(Slots)
  BY DEF DequeTypeOK
<1>4. \A s \in Stealers : Len(out[s]) \in Nat
  BY <1>3
<1>5. \A s \in Stealers : Wanted(s) \in Int
  BY <1>3, DequeAssumption DEF Wanted
<1> QED
  BY <1>1, <1>2, <1>3, <1>4, <1>5

-----------------------------------------------------------------------------
(* Slots of the ring *)

LEMMA DivMod ==
  ASSUME NEW n \in Int, NEW m \in Nat \ {0}
  PROVE  n \div m \in Int /\ n % m \in 0 .. m - 1 /\ n = m * (n \div m) + (n % m)
  OBVIOUS

\* The only multiple of m strictly between -m and m is 0.
LEMMA SmallMultiple ==
  ASSUME NEW m \in Nat \ {0}, NEW k \in Int, -m < m * k, m * k < m
  PROVE  k = 0
<1>1. CASE k >= 1
  <2>1. m * k >= m
    BY <1>1
  <2> QED
    BY <2>1
<1>2. CASE k <= -1
  <2>1. m * k <= -m
    BY <1>2
  <2> QED
    BY <2>1
<1> QED
  BY <1>1, <1>2

\* Less than a round apart, two indices lead to different slots.
LEMMA Apart ==
  ASSUME NEW m \in Nat \ {0}, NEW i \in Int, NEW k \in Int, i < k + m, k < i + m,
         i % m = k % m
  PROVE  i = k
<1> DEFINE di == i \div m
           dk == k \div m
           r == i % m
<1>1. di \in Int /\ r \in Int /\ i = m * di + r
  BY DivMod
<1>2. dk \in Int /\ k = m * dk + r
  BY DivMod
<1> HIDE DEF di, dk, r
<1>3. m * (dk - di) = k - i
  BY <1>1, <1>2
<1>4. dk - di = 0
  BY <1>1, <1>2, <1>3, SmallMultiple
<1> QED
  BY <1>1, <1>2, <1>4

-----------------------------------------------------------------------------
(* Handing out *)

\* How often a sequence holds an item.
Times(vs, v) == Cardinality({i \in DOMAIN vs : vs[i] = v})

LEMMA TimesIn ==
  ASSUME NEW vs \in Seq(Slots), NEW v
  PROVE  /\ Times(vs, v) \in Nat
         /\ (\A i \in 1 .. Len(vs) : vs[i] # v) => Times(vs, v) = 0
         /\ \A k \in 1 .. Len(vs) :
              vs[k] = v /\ (\A i \in 1 .. Len(vs) : vs[i] = v => i = k) => Times(vs, v) = 1
<1> DEFINE H == {i \in DOMAIN vs : vs[i] = v}
<1>1. DOMAIN vs = 1 .. Len(vs) /\ Len(vs) \in Nat
  OBVIOUS
<1>2. IsFiniteSet(1 .. Len(vs))
  BY <1>1, FS_Interval
<1>3. IsFiniteSet(H)
  BY <1>1, <1>2, FS_Subset
<1>4. Cardinality(H) \in Nat
  BY <1>3, FS_CardinalityType
<1>5. (\A i \in 1 .. Len(vs) : vs[i] # v) => Cardinality(H) = 0
  <2>1. (\A i \in 1 .. Len(vs) : vs[i] # v) => H = {}
    BY <1>1
  <2> QED
    BY <2>1, FS_EmptySet
<1>6. ASSUME NEW k \in 1 .. Len(vs), vs[k] = v, \A i \in 1 .. Len(vs) : vs[i] = v => i = k
      PROVE  Cardinality(H) = 1
  <2>1. H = {k}
    BY <1>1, <1>6
  <2> QED
    BY <2>1, FS_Singleton
<1> QED
  BY <1>4, <1>5, <1>6 DEF Times

LEMMA HandOutTimes ==
  ASSUME DequeTypeOK, NEW vs \in Seq(Slots), HandOut(vs)
  PROVE  /\ \A v \in Items : taken'[v] = taken[v] + Times(vs, v)
         /\ taken' \in [Items -> Nat]
<1>1. \A v \in Items : taken[v] \in Nat
  BY DEF DequeTypeOK
<1>2. taken' = [v \in Items |-> taken[v] + Times(vs, v)]
  BY DEF HandOut, Times
<1>3. \A v \in Items : Times(vs, v) \in Nat
  BY TimesIn
<1>4. \A v \in Items : taken[v] + Times(vs, v) \in Nat
  BY <1>1, <1>3
<1> QED
  BY <1>2, <1>4

\* A top that moves up leaves fewer elements.
LEMMA Further ==
  \A b, t, u, c \in Int : b - t < c /\ u > t => b - u < c
  OBVIOUS

LEMMA OwnerType ==
  ASSUME DequeTypeOK, Owner
  PROVE  DequeTypeOK'
<1> USE DEF DequeTypeOK
<1>0. /\ bottom \in Int /\ top \in Int /\ ob \in Int /\ ot \in Int
      /\ cap \in Nat \ {0} /\ gen \in Nat /\ \A i \in Int : get(i) \in Slots
  BY DequeTypes
<1>1. ASSUME NEW v \in Items, PushLoad(v) PROVE DequeTypeOK'
  BY <1>0, <1>1 DEF PushLoad, stealer, Slots, DequeBuffers
<1>2. CASE Grow
  <2>1. /\ 2 * cap \in Nat \ {0} /\ gen + 1 \in Nat
        /\ UNCHANGED <<bottom, top, struct, ob, ot, oval, stealer, pushed, taken, raced>>
        /\ cap' = 2 * cap /\ gen' = gen + 1 /\ opc' = "replace"
    BY <1>0, <1>2 DEF Grow
  <2>2. buffer' \in [0 .. cap' - 1 -> Slots]
    <3>1. ASSUME NEW j, \E i \in ot .. ob - 1 : i % (2 * cap) = j
          PROVE  get(CHOOSE i \in ot .. ob - 1 : i % (2 * cap) = j) \in Slots
      <4>1. (CHOOSE i \in ot .. ob - 1 : i % (2 * cap) = j) \in ot .. ob - 1
        BY <3>1
      <4>2. (CHOOSE i \in ot .. ob - 1 : i % (2 * cap) = j) \in Int
        BY <1>0, <4>1
      <4> QED
        BY <1>0, <4>2
    <3> QED
      BY <1>2, <2>1, <3>1 DEF Grow, Slots
  <2>3. /\ struct' \in DequeBuffers'
        /\ sbuf' \in [Stealers -> DequeBuffers']
    <3>1. 0 .. gen \subseteq 0 .. gen' /\ 1 .. cap \subseteq 1 .. cap'
      BY <1>0, <2>1
    <3>2. DequeBuffers \subseteq DequeBuffers'
      BY <3>1 DEF DequeBuffers
    <3>3. struct' = struct /\ sbuf' = sbuf
      BY <2>1 DEF stealer
    <3> QED
      BY <3>2, <3>3
  <2> QED
    BY <1>0, <2>1, <2>2, <2>3 DEF stealer
<1>11. ASSUME NEW f \in Fields, Replace(f) PROVE DequeTypeOK'
  <2>1. new_buf \in DequeBuffers
    BY <1>0 DEF new_buf, DequeBuffers
  <2>2. struct' \in DequeBuffers
    <3>1. struct \in DequeBuffers /\ f \in {"data", "cap"}
      BY DEF Fields
    <3>2. struct' = [struct EXCEPT ![f] = new_buf[f]]
      BY <1>11 DEF Replace
    <3>3. [struct EXCEPT ![f] = new_buf[f]] \in DequeBuffers
      BY <2>1, <3>1 DEF DequeBuffers
    <3> QED
      BY <3>2, <3>3
  <2>3. opc' \in {"put", "replace"}
        /\ UNCHANGED <<bottom, top, buffer, cap, gen, ob, ot, oval, stealer, pushed, taken, raced>>
    BY <1>11 DEF Replace
  <2> QED
    BY <2>2, <2>3, SMTT(30) DEF stealer, DequeBuffers
<1>3. CASE Put
  BY <1>0, <1>3 DEF Put, stealer, DequeBuffers
<1>4. CASE Publish
  BY <1>0, <1>4 DEF Publish, OwnerReturns, stealer, Slots, DequeBuffers
<1>5. CASE PopDec
  BY <1>0, <1>5 DEF PopDec, stealer, DequeBuffers
<1>6. CASE PopMany
  <2>1. taken' \in [Items -> Nat]
    <3>1. <<get(ob)>> \in Seq(Slots)
      BY <1>0
    <3>2. HandOut(<<get(ob)>>)
      BY <1>6 DEF PopMany
    <3> QED
      BY <3>1, <3>2, HandOutTimes
  <2>2. raced' \in BOOLEAN
    BY <1>6, Zenon DEF PopMany
  <2>3. /\ UNCHANGED <<bottom, top, buffer, cap, gen, struct, stealer, pushed>>
        /\ opc' = "idle" /\ ob' = 0 /\ ot' = 0 /\ oval' = None
    BY <1>6 DEF PopMany, OwnerReturns
  <2> QED
    BY <2>1, <2>2, <2>3, SMTT(30) DEF stealer, Slots, DequeBuffers
<1>7. CASE PopLast
  BY <1>0, <1>7 DEF PopLast, stealer, DequeBuffers
<1>8. CASE PopEmpty
  BY <1>0, <1>8 DEF PopEmpty, stealer, DequeBuffers
<1>9. CASE PopCas
  <2>1. taken' \in [Items -> Nat] /\ top' \in Int
    <3>1. <<oval>> \in Seq(Slots) /\ ot + 1 \in Int
      BY <1>0
    <3>2. (HandOut(<<oval>>) \/ taken' = taken) /\ (top' = ot + 1 \/ top' = top)
      BY <1>9 DEF PopCas
    <3> QED
      BY <1>0, <3>1, <3>2, HandOutTimes
  <2> QED
    BY <1>0, <1>9, <2>1 DEF PopCas, stealer, DequeBuffers
<1>10. CASE PopRestore
  BY <1>0, <1>10 DEF PopRestore, OwnerReturns, stealer, Slots, DequeBuffers
<1> QED
  BY <1>1, <1>2, <1>3, <1>4, <1>5, <1>6, <1>7, <1>8, <1>9, <1>10, <1>11 DEF Owner

LEMMA StealType ==
  ASSUME DequeTypeOK, NEW s \in Stealers, Steal(s)
  PROVE  DequeTypeOK'
<1> USE DEF DequeTypeOK
<1>0. /\ bottom \in Int /\ top \in Int /\ \A i \in Int : get(i) \in Slots
      /\ st[s] \in Int /\ out[s] \in Seq(Slots) /\ Len(out[s]) \in Nat
      /\ cap \in Nat \ {0} /\ gen \in Nat
  BY DequeTypes
<1>7. NoBuffer \in DequeBuffers /\ UNCHANGED DequeBuffers
  <2>1. gen' = gen /\ cap' = cap
    BY DEF Steal, StealLoadTop, StealEmpty, StealLoadBottom, StealReload, StealRead, StealCas
  <2> QED
    BY <1>0, <2>1 DEF NoBuffer, DequeBuffers
<1>1. CASE StealLoadTop(s)
  BY <1>0, <1>1, <1>7 DEF StealLoadTop, owner
<1>2. CASE StealEmpty(s)
  BY <1>0, <1>2, <1>7 DEF StealEmpty, StealerReturns, owner
<1>3. CASE StealLoadBottom(s)
  BY <1>0, <1>3, <1>7 DEF StealLoadBottom, owner
<1>4. ASSUME NEW f \in Fields, StealReload(s, f) PROVE DequeTypeOK'
  <2>1. sbuf' \in [Stealers -> DequeBuffers]
    <3>1. /\ sbuf[s] \in DequeBuffers
          /\ struct \in DequeBuffers /\ f \in {"data", "cap"}
      BY DEF Fields
    <3>2. [sbuf[s] EXCEPT ![f] = struct[f]] \in DequeBuffers
      BY <3>1 DEF DequeBuffers
    <3>3. sbuf' = [sbuf EXCEPT ![s] = [sbuf[s] EXCEPT ![f] = struct[f]]]
      BY <1>4 DEF StealReload
    <3> QED
      BY <3>2, <3>3
  <2> QED
    BY <1>4, <2>1, <1>7 DEF StealReload, owner
<1>5. CASE StealRead(s)
  <2> DEFINE slot == (st[s] + Len(out[s])) % sbuf[s].cap
  <2>1. PICK val : /\ val \in IF sbuf[s].data = gen THEN {buffer[slot]} ELSE pushed \cup {None}
                   /\ out' = [out EXCEPT ![s] = Append(@, val)]
    BY <1>5 DEF StealRead
  <2>6. slot \in 0 .. cap - 1
    <3>1. sbuf[s].cap \in 1 .. cap /\ st[s] + Len(out[s]) \in Int
      BY <1>0 DEF DequeBuffers
    <3> QED
      BY <1>0, <3>1, SMTT(30)
  <2>2. val \in Slots
    BY <2>1, <2>6 DEF Slots
  <2>3. out' \in [Stealers -> Seq(Slots)]
    BY <1>0, <2>1, <2>2
  <2>4. raced' \in BOOLEAN
    BY <1>5, Zenon DEF StealRead
  <2>5. spc' \in [Stealers -> {"idle", "bottom", "read", "cas"}]
    BY <1>5 DEF StealRead
  <2> QED
    BY <1>5, <2>3, <2>4, <2>5, <1>7 DEF StealRead, owner
<1>6. CASE StealCas(s)
  <2>1. taken' \in [Items -> Nat] /\ top' \in Int
    BY <1>0, <1>6, HandOutTimes DEF StealCas
  <2> QED
    BY <1>0, <1>6, <2>1, <1>7, SMTT(30) DEF StealCas, StealerReturns, owner
<1> QED
  BY <1>1, <1>2, <1>3, <1>4, <1>5, <1>6 DEF Steal

LEMMA DequeInitInv == DequeInit => DequeInv
<1> SUFFICES ASSUME DequeInit PROVE DequeInv
  OBVIOUS
<1>1. DequeTypeOK
  <2>1. buffer \in [0 .. cap - 1 -> Slots] /\ oval \in Slots /\ cap \in Nat \ {0}
    BY DequeAssumption DEF DequeInit, Slots
  <2>2. /\ st \in [Stealers -> Int] /\ sb \in [Stealers -> Int]
        /\ sbuf \in [Stealers -> DequeBuffers]
        /\ struct \in DequeBuffers
        /\ out \in [Stealers -> Seq(Slots)] /\ taken \in [Items -> Nat]
        /\ spc \in [Stealers -> {"idle", "bottom", "read", "cas"}]
    BY DequeAssumption DEF DequeInit, NoBuffer, DequeBuffers
  <2>3. {bottom, top, ob, ot} \subseteq Int /\ gen \in Nat /\ opc = "idle"
        /\ pushed \subseteq Items
    BY DEF DequeInit
  <2>4. raced \in BOOLEAN
    BY DEF DequeInit
  <2> QED
    BY <2>1, <2>2, <2>3, <2>4 DEF DequeTypeOK
<1>2. Bound = 0 /\ top = 0 /\ bottom = 0
  BY DEF DequeInit, Bound
<1>3. OwnerSound /\ Fits /\ Elements /\ Entering /\ Accounted
  BY <1>2, DequeAssumption
     DEF DequeInit, OwnerSound, Pushing, Fits, Elements, Entering, Accounted
<1>4. \A s \in Stealers : StealerSound(s)
  BY DEF DequeInit, StealerSound, Stealing
<1> QED
  BY <1>1, <1>3, <1>4 DEF DequeInv, Sound

\* What the owner and the slots are, as long as no element is taken.
ContentsSound == OwnerSound /\ Fits /\ Elements /\ Entering /\ Accounted

LEMMA ContentsStay ==
  ASSUME ContentsSound, UNCHANGED <<bottom, top, buffer, cap, owner, pushed, taken>>
  PROVE  ContentsSound'
  BY DEF ContentsSound, OwnerSound, Fits, Elements, Entering, Accounted, Pushing, Bound,
         get, owner

\* A stealer that does not move, in a step that neither takes an element at the
\* top nor disturbs one that it covers.
LEMMA StealerStays ==
  ASSUME DequeTypeOK, DequeTypeOK', NEW s \in Stealers, StealerSound(s),
         spc'[s] = spc[s], sb'[s] = sb[s], st'[s] = st[s], out'[s] = out[s],
         top' >= top,
         top' = top => \A i \in top .. Bound - 1 :
                         Covers(s, i) => i < Bound' /\ get(i)' = get(i)
  PROVE  StealerSound(s)'
<1>1. /\ top \in Int /\ top' \in Int /\ st[s] \in Int /\ sb[s] \in Int
      /\ Bound \in Int /\ Len(out[s]) \in Nat /\ Wanted(s) \in Int
  <2>1. top' \in Int
    BY DEF DequeTypeOK
  <2> QED
    BY <2>1, DequeTypes
<1>2. Bound' \in Int
  <2>1. bottom' \in Int
    BY DEF DequeTypeOK
  <2> QED
    BY <2>1 DEF Bound
<1>3. Wanted(s)' = Wanted(s)
  BY DEF Wanted
<1>4. ASSUME Stealing(s), top' = st[s]
      PROVE  /\ st[s] + Wanted(s) <= Bound'
             /\ \A k \in 1 .. Len(out[s]) : out[s][k] = get(st[s] + k - 1)'
  <2>1. top = st[s] /\ top' = top
    BY <1>1, <1>4 DEF StealerSound, Stealing
  <2>2. /\ st[s] + Wanted(s) <= Bound
        /\ \A k \in 1 .. Len(out[s]) : out[s][k] = get(st[s] + k - 1)
        /\ Len(out[s]) <= Wanted(s) /\ Wanted(s) > 0
    <3>1. Len(out[s]) <= Wanted(s)
      BY <1>1, <1>4 DEF StealerSound, Stealing
    <3>2. sb[s] > st[s]
      BY <1>4 DEF StealerSound
    <3>3. Wanted(s) > 0
      BY <1>1, <3>2, DequeAssumption DEF Wanted
    <3> QED
      BY <1>4, <2>1, <3>1, <3>3 DEF StealerSound
  <2>3. \A i \in st[s] .. st[s] + Wanted(s) - 1 : i < Bound' /\ get(i)' = get(i)
    <3> SUFFICES ASSUME NEW i \in st[s] .. st[s] + Wanted(s) - 1
                 PROVE  i < Bound' /\ get(i)' = get(i)
      OBVIOUS
    <3>1. Covers(s, i)
      BY <1>4 DEF Covers, Stealing
    <3>2. i \in top .. Bound - 1
      BY <1>1, <2>1, <2>2
    <3> QED
      BY <2>1, <3>1, <3>2
  <2>4. st[s] + Wanted(s) - 1 < Bound'
    BY <1>1, <2>2, <2>3
  <2>5. ASSUME NEW k \in 1 .. Len(out[s]) PROVE out[s][k] = get(st[s] + k - 1)'
    <3>1. st[s] + k - 1 \in st[s] .. st[s] + Wanted(s) - 1
      BY <1>1, <2>2, SMTT(30)
    <3> QED
      BY <2>2, <2>3, <3>1
  <2> QED
    BY <1>1, <1>2, <2>4, <2>5, SMTT(30)
<1>5. spc[s] # "idle" => st[s] <= top'
  BY <1>1 DEF StealerSound
<1> QED
  BY <1>3, <1>4, <1>5 DEF StealerSound, Stealing

\* The steps of a steal before the compare-exchange change nothing shared.
LEMMA LookingSound ==
  ASSUME DequeInv, ~raced, DequeTypeOK', NEW s \in Stealers,
         StealLoadTop(s) \/ StealEmpty(s) \/ StealLoadBottom(s)
           \/ (\E f \in Fields : StealReload(s, f)) \/ (StealRead(s) /\ ~raced')
  PROVE  Sound'
<1>1. DequeTypeOK /\ ContentsSound /\ \A u \in Stealers : StealerSound(u)
  BY DEF DequeInv, Sound, ContentsSound
<1>2. UNCHANGED <<bottom, top, buffer, cap, owner, pushed, taken>>
  BY DEF StealLoadTop, StealEmpty, StealLoadBottom, StealReload, StealRead
<1>3. ContentsSound'
  BY <1>1, <1>2, ContentsStay
<1>4. ASSUME NEW u \in Stealers, u # s PROVE StealerSound(u)'
  <2>1. spc'[u] = spc[u] /\ sb'[u] = sb[u] /\ st'[u] = st[u] /\ out'[u] = out[u]
    BY <1>1, <1>4 DEF StealLoadTop, StealEmpty, StealLoadBottom, StealReload,
       StealRead, StealerReturns, DequeTypeOK
  <2>2. Bound' = Bound /\ top' >= top /\ \A i \in Int : get(i)' = get(i)
    BY <1>1, <1>2, DequeTypes DEF Bound, get, owner
  <2> QED
    BY <1>1, <2>1, <2>2, DequeTypes, StealerStays
<1>5. StealerSound(s)'
  <2>0. /\ StealerSound(s) /\ st[s] \in Int /\ sb[s] \in Int /\ top \in Int /\ bottom \in Int
        /\ Len(out[s]) \in Nat /\ out[s] \in Seq(Slots) /\ Bound \in Int
        /\ Wanted(s) \in Int
    BY <1>1, DequeTypes
  <2>1. CASE StealLoadTop(s)
    <3>1. spc'[s] = "bottom" /\ st'[s] = top /\ out'[s] = <<>> /\ top' = top
      BY <1>1, <2>1 DEF StealLoadTop, DequeTypeOK, StealerSound, Stealing
    <3> QED
      BY <2>0, <3>1 DEF StealerSound, Stealing
  <2>2. CASE StealEmpty(s)
    <3>1. spc'[s] = "idle" /\ out'[s] = <<>>
      BY <1>1, <2>2 DEF StealEmpty, StealerReturns, DequeTypeOK
    <3> QED
      BY <3>1 DEF StealerSound, Stealing
  <2>3. CASE StealLoadBottom(s)
    <3>1. /\ spc'[s] = "read" /\ st'[s] = st[s] /\ out'[s] = <<>> /\ sb'[s] = bottom
          /\ bottom > st[s] /\ top' = top /\ st[s] <= top /\ Bound' = Bound
      BY <1>1, <1>2, <2>3
         DEF StealLoadBottom, DequeTypeOK, StealerSound, Stealing, Bound, owner
    <3>2. Wanted(s)' \in 1 .. bottom - st[s]
      BY <2>0, <3>1, DequeAssumption DEF Wanted
    <3>3. bottom <= Bound
      BY <2>0 DEF Bound
    <3>4. st[s] + Wanted(s)' <= Bound' /\ Wanted(s)' > 0
      BY <2>0, <3>1, <3>2, <3>3
    <3> QED
      BY <3>1, <3>4 DEF StealerSound, Stealing
  <2>4. CASE \E f \in Fields : StealReload(s, f)
    <3>1. /\ spc' = spc /\ st' = st /\ out' = out /\ sb' = sb /\ top' = top /\ Bound' = Bound
          /\ \A i \in Int : get(i)' = get(i)
      BY <1>1, <1>2, <2>4 DEF StealReload, Bound, owner, get
    <3>2. Wanted(s)' = Wanted(s)
      BY <3>1 DEF Wanted
    <3>3. \A k \in 1 .. Len(out[s]) : get(st[s] + k - 1)' = get(st[s] + k - 1)
      BY <2>0, <3>1
    <3> QED
      BY <2>0, <3>1, <3>2, <3>3 DEF StealerSound, Stealing
  <2>5. CASE StealRead(s) /\ ~raced'
    <3> DEFINE n == Len(out[s])
               x == get(st[s] + n)
    <3>1. /\ sbuf[s].data = gen /\ spc[s] = "read"
          /\ (st[s] + n) % sbuf[s].cap = (st[s] + n) % cap
      BY <2>5 DEF StealRead
    <3>2. /\ out'[s] = Append(out[s], x)
          /\ spc'[s] = (IF n + 1 = Wanted(s) THEN "cas" ELSE "read")
          /\ st'[s] = st[s] /\ sb'[s] = sb[s] /\ top' = top /\ Bound' = Bound
          /\ \A i \in Int : get(i)' = get(i)
      BY <1>1, <1>2, <2>5, <3>1 DEF StealRead, DequeTypeOK, Bound, owner, get
    <3>3. Wanted(s)' = Wanted(s)
      BY <3>2 DEF Wanted
    <3>4. /\ n < Wanted(s) /\ st[s] <= top /\ sb[s] > st[s]
          /\ top = st[s] => /\ st[s] + Wanted(s) <= Bound
                            /\ \A k \in 1 .. n : out[s][k] = get(st[s] + k - 1)
      BY <2>0, <3>1 DEF StealerSound, Stealing
    <3>5. x \in Slots
      BY <1>1, <2>0, DequeTypes
    <3> HIDE DEF x
    <3>6. /\ Len(out'[s]) = n + 1 /\ out'[s][n + 1] = x
          /\ \A k \in 1 .. n : out'[s][k] = out[s][k]
      BY <2>0, <3>2, <3>5
    <3>7. top = st[s] => \A k \in 1 .. n + 1 : out'[s][k] = get(st[s] + k - 1)
      <4>1. x = get(st[s] + (n + 1) - 1)
        <5>1. st[s] + (n + 1) - 1 = st[s] + n
          BY <2>0
        <5> QED
          BY <5>1 DEF x
      <4> SUFFICES ASSUME top = st[s], NEW k \in 1 .. n + 1
                   PROVE  out'[s][k] = get(st[s] + k - 1)
        OBVIOUS
      <4>2. CASE k = n + 1
        BY <3>6, <4>1, <4>2
      <4>3. CASE k \in 1 .. n
        BY <3>4, <3>6, <4>3
      <4> QED
        BY <2>0, <4>2, <4>3, SMTT(30)
    <3>8. \A k \in 1 .. n + 1 : get(st[s] + k - 1)' = get(st[s] + k - 1)
      BY <2>0, <3>2
    <3>9. CASE n + 1 = Wanted(s)
      BY <2>0, <3>2, <3>3, <3>4, <3>6, <3>7, <3>8, <3>9 DEF StealerSound, Stealing
    <3>10. CASE n + 1 # Wanted(s)
      BY <2>0, <3>2, <3>3, <3>4, <3>6, <3>7, <3>8, <3>10, SMTT(30) DEF StealerSound, Stealing
    <3> QED
      BY <3>9, <3>10
  <2> QED
    BY <2>1, <2>2, <2>3, <2>4, <2>5
<1> QED
  BY <1>3, <1>4, <1>5 DEF Sound, ContentsSound

\* The compare-exchange of a steal takes all that was read, or nothing.
LEMMA StealCasSound ==
  ASSUME DequeInv, ~raced, DequeTypeOK', NEW s \in Stealers, StealCas(s)
  PROVE  Sound'
<1>1. DequeTypeOK /\ ContentsSound /\ \A u \in Stealers : StealerSound(u)
  BY DEF DequeInv, Sound, ContentsSound
<1>2. /\ UNCHANGED <<bottom, buffer, cap, owner, pushed>>
      /\ spc[s] = "cas" /\ spc'[s] = "idle" /\ out'[s] = <<>>
      /\ \A u \in Stealers : u # s => spc'[u] = spc[u] /\ sb'[u] = sb[u] /\ st'[u] = st[u]
                                       /\ out'[u] = out[u]
  BY <1>1 DEF StealCas, StealerReturns, DequeTypeOK
<1>3. StealerSound(s)'
  BY <1>2 DEF StealerSound, Stealing
<1>4. /\ Bound' = Bound /\ Bound \in Int /\ \A i \in Int : get(i)' = get(i)
      /\ top \in Int /\ bottom \in Int /\ ob \in Int
  BY <1>1, <1>2, DequeTypes DEF Bound, get, owner
<1>5. CASE top # st[s]
  <2>1. UNCHANGED <<top, taken>>
    BY <1>5 DEF StealCas
  <2>2. ContentsSound'
    BY <1>1, <1>2, <2>1, ContentsStay
  <2>3. \A u \in Stealers : u # s => StealerSound(u)'
    BY <1>1, <1>2, <1>4, <2>1, StealerStays
  <2> QED
    BY <1>3, <2>2, <2>3 DEF Sound, ContentsSound
<1>6. CASE top = st[s]
  <2> DEFINE vs == out[s]
             n == Len(vs)
  <2>1. /\ top' = top + n /\ HandOut(vs) /\ n \in Nat /\ n > 0 /\ vs \in Seq(Slots)
        /\ top + n <= Bound
        /\ \A k \in 1 .. n : vs[k] = get(top + k - 1)
    <3>1. /\ Len(out[s]) = Wanted(s) /\ sb[s] > st[s]
          /\ st[s] + Wanted(s) <= Bound
          /\ \A k \in 1 .. Len(out[s]) : out[s][k] = get(st[s] + k - 1)
      BY <1>1, <1>2, <1>6 DEF StealerSound, Stealing
    <3>2. Wanted(s) > 0
      BY <1>1, <3>1, DequeTypes, DequeAssumption DEF Wanted
    <3> QED
      BY <1>1, <1>6, <3>1, <3>2, DequeTypes DEF StealCas
  <2> HIDE DEF vs, n
  <2>2. /\ \A v \in Items : taken'[v] = taken[v] + Times(vs, v)
        /\ taken' \in [Items -> Nat]
    BY <1>1, <2>1, HandOutTimes
  <2>3. n = Len(vs)
    BY DEF n
  <2>4. ASSUME NEW v, \A i \in top .. top + n - 1 : get(i) # v
        PROVE  Times(vs, v) = 0
    <3>1. \A k \in 1 .. Len(vs) : vs[k] # v
      <4> SUFFICES ASSUME NEW k \in 1 .. n PROVE vs[k] # v
        BY <2>3
      <4>1. top + k - 1 \in top .. top + n - 1
        BY <1>4, <2>1
      <4> QED
        BY <2>1, <2>4, <4>1
    <3> QED
      BY <2>1, <3>1, TimesIn
  <2>5. ASSUME NEW v, NEW j \in top .. top + n - 1, get(j) = v
        PROVE  Times(vs, v) = 1
    <3>1. PICK k \in 1 .. Len(vs) : top + k - 1 = j
      <4>1. j - top + 1 \in 1 .. n /\ top + (j - top + 1) - 1 = j
        BY <1>4, <2>1
      <4> QED
        BY <2>3, <4>1
    <3>2. vs[k] = v
      BY <2>1, <2>3, <2>5, <3>1
    <3>3. \A i \in 1 .. Len(vs) : vs[i] = v => i = k
      <4> SUFFICES ASSUME NEW i \in 1 .. n, vs[i] = v PROVE i = k
        BY <2>3
      <4>1. top + i - 1 \in top .. Bound - 1 /\ j \in top .. Bound - 1
        BY <1>4, <2>1
      <4>2. get(top + i - 1) = v
        BY <2>1
      <4>3. top + i - 1 = j
        BY <1>1, <2>5, <4>1, <4>2 DEF ContentsSound, Elements
      <4> QED
        BY <1>4, <2>1, <3>1, <4>3
    <3> QED
      BY <2>1, <3>2, <3>3, TimesIn
  <2>6. OwnerSound'
    <3>1. OwnerSound /\ Fits
      BY <1>1 DEF ContentsSound
    <3>2. opc # "restore"
      <4> SUFFICES ASSUME opc = "restore" PROVE FALSE
        OBVIOUS
      <4>1. top = ob + 1 /\ Bound = bottom + 1 /\ ob = bottom
        BY <3>1 DEF OwnerSound, Bound
      <4> QED
        BY <1>4, <2>1, <4>1
    <3>3. top' > top /\ top' \in Int /\ ot \in Int /\ cap \in Int
      BY <1>1, <1>4, <2>1, DequeTypes
    <3>4. UNCHANGED <<opc, ob, ot, oval, bottom, cap>>
      BY <1>2 DEF owner
    <3>5. get(ob)' = get(ob)
      BY <1>4, <3>4
    <3> QED
      <4>1. Pushing' = Pushing
        BY <3>4 DEF Pushing
      <4>2. /\ opc' # "idle" => ob' = bottom'
            /\ Pushing' => ot' <= top'
            /\ opc' = "grow" => ob' - ot' = cap'
            /\ opc' \in {"replace", "put", "publish"} => bottom' - top' < cap'
            /\ opc' # "restore"
        <5>1. Pushing => ot <= top'
          BY <1>4, <3>1, <3>3 DEF OwnerSound
        <5>2. opc \in {"replace", "put", "publish"} => bottom - top' < cap
          <6>1. opc \in {"replace", "put", "publish"} => bottom - top < cap
            BY <3>1 DEF OwnerSound
          <6> QED
            BY <1>4, <3>3, <6>1, Further
        <5> QED
          BY <3>1, <3>2, <3>4, <4>1, <5>1, <5>2 DEF OwnerSound
      <4>3. /\ opc' = "publish" => get(ob)' = oval'
            /\ opc' = "cas" => ot' = ob' /\ ot' <= top' /\ oval' = get(ob)'
        BY <1>4, <3>1, <3>3, <3>4, <3>5 DEF OwnerSound
      <4> QED
        BY <4>2, <4>3 DEF OwnerSound
  <2>7. Fits'
    BY <1>1, <1>2, <1>4, <2>1, DequeTypes DEF ContentsSound, Fits
  <2>8. Elements'
    <3>1. ASSUME NEW i \in top' .. Bound' - 1
          PROVE  i \in top .. Bound - 1 /\ get(i)' = get(i)
                 /\ get(i) \in pushed /\ taken[get(i)] = 0
                 /\ \A j \in top .. top + n - 1 : get(j) # get(i)
      <4>1. i \in top .. Bound - 1 /\ get(i)' = get(i)
        BY <1>4, <2>1
      <4>2. ASSUME NEW j \in top .. top + n - 1 PROVE get(j) # get(i)
        <5>1. j \in top .. Bound - 1 /\ j # i
          BY <1>4, <2>1
        <5> QED
          BY <1>1, <4>1, <5>1 DEF ContentsSound, Elements
      <4> QED
        BY <1>1, <4>1, <4>2 DEF ContentsSound, Elements
    <3>2. ASSUME NEW i \in top' .. Bound' - 1 PROVE get(i) \in pushed' /\ taken'[get(i)] = 0
      <4>1. Times(vs, get(i)) = 0
        BY <2>4, <3>1
      <4>2. get(i) \in pushed /\ taken[get(i)] = 0
        BY <3>1
      <4>3. get(i) \in Items /\ pushed' = pushed
        BY <1>1, <1>2, <4>2 DEF DequeTypeOK
      <4> QED
        BY <2>2, <4>1, <4>2, <4>3
    <3>3. \A i, j \in top' .. Bound' - 1 : get(i) = get(j) => i = j
      BY <1>1, <3>1 DEF ContentsSound, Elements
    <3> QED
      BY <3>1, <3>2, <3>3 DEF Elements
  <2>9. Entering'
    <3> SUFFICES ASSUME Pushing
                 PROVE  /\ oval \in pushed /\ taken'[oval] = 0
                        /\ \A i \in top' .. Bound' - 1 : get(i)' # oval
      BY <1>2 DEF Entering, Pushing, owner
    <3>1. oval \in pushed /\ taken[oval] = 0 /\ \A i \in top .. Bound - 1 : get(i) # oval
      BY <1>1 DEF ContentsSound, Entering
    <3>2. Times(vs, oval) = 0
      <4>1. \A i \in top .. top + n - 1 : i \in top .. Bound - 1
        BY <1>4, <2>1
      <4> QED
        BY <2>4, <3>1, <4>1
    <3>3. oval \in Items
      BY <1>1, <3>1 DEF DequeTypeOK
    <3>4. \A i \in top' .. Bound' - 1 : i \in top .. Bound - 1
      BY <1>4, <2>1
    <3> QED
      BY <1>4, <2>2, <3>1, <3>2, <3>3, <3>4
  <2>10. Accounted'
    <3>1. ASSUME NEW v \in Items
          PROVE  \/ Times(vs, v) = 0
                 \/ Times(vs, v) = 1 /\ taken[v] = 0 /\ v \in pushed
      <4>1. CASE \A i \in top .. top + n - 1 : get(i) # v
        BY <2>4, <4>1
      <4>2. CASE \E i \in top .. top + n - 1 : get(i) = v
        <5>1. PICK i \in top .. top + n - 1 : get(i) = v
          BY <4>2
        <5>2. i \in top .. Bound - 1
          BY <1>4, <2>1
        <5>3. taken[v] = 0 /\ v \in pushed
          BY <1>1, <5>1, <5>2 DEF ContentsSound, Elements
        <5> QED
          BY <2>5, <5>1, <5>3
      <4> QED
        BY <4>1, <4>2
    <3>2. \A v \in Items : taken[v] \in {0, 1} /\ (v \notin pushed => taken[v] = 0)
      BY <1>1 DEF ContentsSound, Accounted
    <3>3. \A v \in Items : taken'[v] \in {0, 1} /\ (v \notin pushed => taken'[v] = 0)
      BY <2>2, <3>1, <3>2
    <3>4. ASSUME NEW v \in pushed, taken'[v] # 1, ~(Pushing /\ v = oval)
          PROVE  \E i \in top' .. Bound' - 1 : get(i)' = v
      <4>1. v \in Items
        BY <1>1 DEF DequeTypeOK
      <4>2. taken[v] = 0 /\ Times(vs, v) = 0
        BY <2>2, <3>1, <3>2, <3>4, <4>1
      <4>3. PICK i \in top .. Bound - 1 : get(i) = v
        BY <1>1, <3>4, <4>2 DEF ContentsSound, Accounted
      <4>4. i \notin top .. top + n - 1
        BY <2>5, <4>2, <4>3
      <4>5. i \in top' .. Bound' - 1 /\ get(i)' = v
        BY <1>4, <2>1, <4>3, <4>4
      <4> QED
        BY <4>5
    <3>5. Pushing' = Pushing /\ oval' = oval /\ pushed' = pushed
      BY <1>2 DEF Pushing, owner
    <3> QED
      BY <3>3, <3>4, <3>5 DEF Accounted
  <2>11. \A u \in Stealers : u # s => StealerSound(u)'
    <3> SUFFICES ASSUME NEW u \in Stealers, u # s PROVE StealerSound(u)'
      OBVIOUS
    <3>1. top' >= top /\ top' # top
      BY <1>4, <2>1
    <3>2. spc'[u] = spc[u] /\ sb'[u] = sb[u] /\ st'[u] = st[u] /\ out'[u] = out[u]
      BY <1>2
    <3> QED
      BY <1>1, <3>1, <3>2, StealerStays
  <2> QED
    BY <1>3, <2>6, <2>7, <2>8, <2>9, <2>10, <2>11 DEF Sound
<1> QED
  BY <1>5, <1>6

-----------------------------------------------------------------------------
(* The owner's steps *)

\* The stealers' side when no stealer moves.
LEMMA StealersStay ==
  ASSUME DequeTypeOK, DequeTypeOK', \A s \in Stealers : StealerSound(s),
         UNCHANGED stealer, top' >= top,
         top' = top => \A i \in top .. Bound - 1 :
                         /\ i < Bound' \/ \A s \in Stealers : ~Covers(s, i)
                         /\ get(i)' = get(i)
  PROVE  \A s \in Stealers : StealerSound(s)'
<1> SUFFICES ASSUME NEW s \in Stealers PROVE StealerSound(s)'
  OBVIOUS
<1>1. spc'[s] = spc[s] /\ sb'[s] = sb[s] /\ st'[s] = st[s] /\ out'[s] = out[s]
  BY DEF stealer
<1> QED
  BY <1>1, StealerStays

\* A step of pop() that takes nothing and changes no slot.
LEMMA PopSteps ==
  ASSUME DequeInv, ~raced, DequeTypeOK', OwnerSound', Bound' = Bound, ~Pushing, ~Pushing',
         UNCHANGED <<top, buffer, cap, pushed, taken, stealer>>
  PROVE  Sound'
<1>1. DequeTypeOK /\ Sound
  BY DEF DequeInv
<1>2. \A i \in Int : get(i)' = get(i)
  BY DEF get
<1>3. Bound \in Int /\ top \in Int
  BY <1>1, DequeTypes
<1>4. \A i \in top .. Bound - 1 : i \in Int
  BY <1>3
<1>5. Fits' /\ Elements' /\ Entering' /\ Accounted'
  BY <1>1, <1>2, <1>4 DEF Sound, Fits, Elements, Entering, Accounted
<1>6. \A s \in Stealers : StealerSound(s)'
  <2>1. top' >= top /\ \A i \in top .. Bound - 1 : i < Bound' /\ get(i)' = get(i)
    BY <1>2, <1>3
  <2> QED
    BY <1>1, <2>1, StealersStay DEF Sound
<1> QED
  BY <1>5, <1>6 DEF Sound

LEMMA PushLoadSound ==
  ASSUME DequeInv, ~raced, DequeTypeOK', NEW v \in Items, PushLoad(v)
  PROVE  Sound'
<1>1. DequeTypeOK /\ Sound
  BY DEF DequeInv
<1>2. /\ opc = "idle" /\ opc' \in {"grow", "put"} /\ v \notin pushed
      /\ ob' = bottom /\ ot' = top /\ oval' = v /\ pushed' = pushed \cup {v}
      /\ UNCHANGED <<bottom, top, buffer, cap, stealer, taken>>
  BY DEF PushLoad
<1>3. bottom \in Int /\ top \in Int /\ cap \in Nat \ {0} /\ Bound \in Int
  BY <1>1, DequeTypes
<1>4. Bound' = Bound /\ Bound = bottom /\ \A i \in Int : get(i)' = get(i)
  BY <1>2 DEF Bound, get
<1>5. OwnerSound'
  <2>1. opc' = "grow" => ob' - ot' = cap'
    BY <1>1, <1>2, <1>3, <1>4 DEF PushLoad, Sound, Fits
  <2>2. opc' = "put" => bottom' - top' < cap'
    BY <1>2, <1>3 DEF PushLoad
  <2>3. ot' <= top'
    BY <1>2, <1>3
  <2> QED
    BY <1>2, <2>1, <2>2, <2>3 DEF OwnerSound, Pushing
<1>6. \A i \in top .. Bound - 1 : i \in Int /\ get(i)' = get(i)
  BY <1>3, <1>4
<1>7. Fits' /\ Elements'
  BY <1>1, <1>2, <1>4, <1>6 DEF Sound, Fits, Elements
<1>8. Entering'
  <2>1. taken[v] = 0
    BY <1>1, <1>2 DEF Sound, Accounted
  <2>2. \A i \in top .. Bound - 1 : get(i) # v
    BY <1>1, <1>2 DEF Sound, Elements
  <2> QED
    BY <1>2, <1>4, <1>6, <2>1, <2>2 DEF Entering
<1>9. Accounted'
  <2>1. ~Pushing /\ Pushing'
    BY <1>2 DEF Pushing
  <2>2. \A x \in Items : taken[x] \in {0, 1} /\ (x \notin pushed => taken[x] = 0)
    BY <1>1 DEF Sound, Accounted
  <2>3. \A x \in pushed : taken[x] = 1 \/ \E i \in top .. Bound - 1 : get(i) = x
    BY <1>1, <2>1 DEF Sound, Accounted
  <2> QED
    BY <1>2, <1>4, <1>6, <2>1, <2>2, <2>3 DEF Accounted
<1>10. \A s \in Stealers : StealerSound(s)'
  <2>1. top' >= top /\ \A i \in top .. Bound - 1 : i < Bound' /\ get(i)' = get(i)
    BY <1>2, <1>3, <1>4
  <2> QED
    BY <1>1, <1>2, <2>1, StealersStay DEF Sound
<1> QED
  BY <1>5, <1>7, <1>8, <1>9, <1>10 DEF Sound

\* A step of push() that leaves the elements where they are.
LEMMA PushSteps ==
  ASSUME DequeInv, ~raced, DequeTypeOK', Pushing, Pushing', OwnerSound', cap' >= cap,
         UNCHANGED <<bottom, top, oval, pushed, taken, stealer>>,
         \A i \in top .. Bound - 1 : get(i)' = get(i)
  PROVE  Sound'
<1>1. DequeTypeOK /\ Sound
  BY DEF DequeInv
<1>2. Bound' = Bound /\ Bound = bottom
  BY DEF Bound, Pushing
<1>3. bottom \in Int /\ top \in Int /\ cap \in Nat \ {0} /\ cap' \in Nat \ {0}
  <2>1. cap' \in Nat \ {0}
    BY DEF DequeTypeOK
  <2> QED
    BY <1>1, <2>1, DequeTypes
<1>4. Fits'
  BY <1>1, <1>2, <1>3 DEF Sound, Fits
<1>5. Elements' /\ Entering' /\ Accounted'
  BY <1>1, <1>2 DEF Sound, Elements, Entering, Accounted
<1>6. \A s \in Stealers : StealerSound(s)'
  <2>1. top' >= top /\ \A i \in top .. Bound - 1 : i < Bound' /\ get(i)' = get(i)
    BY <1>2, <1>3
  <2> QED
    BY <1>1, <2>1, StealersStay DEF Sound
<1> QED
  BY <1>4, <1>5, <1>6 DEF Sound

\* The copy of grow() holds each element where its index leads.
LEMMA GrowSound ==
  ASSUME DequeInv, ~raced, DequeTypeOK', Grow
  PROVE  Sound'
<1>1. DequeTypeOK /\ Sound
  BY DEF DequeInv
<1>2. /\ opc = "grow" /\ opc' = "replace" /\ cap' = 2 * cap
      /\ UNCHANGED <<bottom, top, ob, ot, oval, stealer, pushed, taken>>
  BY DEF Grow
<1>3. /\ bottom \in Int /\ top \in Int /\ ob \in Int /\ ot \in Int /\ cap \in Nat \ {0}
      /\ Bound \in Int
  BY <1>1, DequeTypes
<1>4. ob = bottom /\ Bound = bottom /\ ot <= top /\ ob - ot = cap /\ Bound - top <= cap
  BY <1>1, <1>2 DEF Sound, OwnerSound, Fits, Pushing, Bound
<1>5. OwnerSound'
  <2>1. bottom' - top' < cap'
    BY <1>2, <1>3, <1>4
  <2> QED
    BY <1>2, <1>4, <2>1 DEF OwnerSound, Pushing
<1>6. ASSUME NEW i \in top .. Bound - 1 PROVE get(i)' = get(i)
  <2> DEFINE j == i % (2 * cap)
             k == CHOOSE k \in ot .. ob - 1 : k % (2 * cap) = j
  <2>1. i \in ot .. ob - 1 /\ 2 * cap \in Nat \ {0}
    BY <1>3, <1>4
  <2>2. k \in ot .. ob - 1 /\ k % (2 * cap) = j
    BY <2>1
  <2>3. j \in 0 .. 2 * cap - 1
    BY <1>3, <2>1
  <2>4. get(i)' = get(k)
    <3>1. get(i)' = buffer'[j]
      BY <1>2 DEF get
    <3>2. buffer'[j] = get(CHOOSE m \in ot .. ob - 1 : m % (2 * cap) = j)
      BY <2>1, <2>3 DEF Grow
    <3> QED
      BY <3>1, <3>2
  <2>5. k = i
    <3> HIDE DEF k
    <3>1. k \in Int /\ i \in Int /\ i < k + 2 * cap /\ k < i + 2 * cap
      BY <1>3, <1>4, <2>1, <2>2
    <3>2. k % (2 * cap) = i % (2 * cap)
      BY <2>2
    <3> QED
      BY <2>1, <3>1, <3>2, Apart
  <2> QED
    BY <2>4, <2>5
<1> QED
  <2>1. Pushing /\ Pushing' /\ cap' >= cap
    BY <1>2, <1>3 DEF Pushing
  <2> QED
    BY <1>2, <1>5, <1>6, <2>1, PushSteps

\* Overwriting the DequeBuffer moves no element.
LEMMA ReplaceSound ==
  ASSUME DequeInv, ~raced, DequeTypeOK', NEW f \in Fields, Replace(f)
  PROVE  Sound'
<1>1. DequeTypeOK /\ Sound
  BY DEF DequeInv
<1>2. /\ opc = "replace" /\ opc' \in {"replace", "put"}
      /\ UNCHANGED <<bottom, top, buffer, cap, ob, ot, oval, stealer, pushed, taken>>
  BY DEF Replace
<1>3. OwnerSound'
  BY <1>1, <1>2 DEF Sound, OwnerSound, Pushing
<1>4. \A i \in top .. Bound - 1 : get(i)' = get(i)
  BY <1>2 DEF get
<1>5. Pushing /\ Pushing' /\ cap' >= cap
  BY <1>1, <1>2, DequeTypes DEF Pushing
<1> QED
  BY <1>2, <1>3, <1>4, <1>5, PushSteps

\* The new item goes to a slot that no element is in.
LEMMA PutSound ==
  ASSUME DequeInv, ~raced, DequeTypeOK', Put
  PROVE  Sound'
<1>1. DequeTypeOK /\ Sound
  BY DEF DequeInv
<1>2. /\ opc = "put" /\ opc' = "publish" /\ buffer' = [buffer EXCEPT ![ob % cap] = oval]
      /\ UNCHANGED <<bottom, top, cap, ob, ot, oval, stealer, pushed, taken>>
  BY DEF Put
<1>3. /\ bottom \in Int /\ top \in Int /\ ob \in Int /\ cap \in Nat \ {0}
      /\ Bound \in Int /\ buffer \in [0 .. cap - 1 -> Slots]
  BY <1>1, DequeTypes DEF DequeTypeOK
<1>4. ob = bottom /\ Bound = bottom /\ bottom - top < cap /\ ot <= top
  BY <1>1, <1>2 DEF Sound, OwnerSound, Pushing, Bound
<1>5. \A i \in Int : i % cap \in 0 .. cap - 1
  BY <1>3
<1>6. OwnerSound'
  <2>1. get(ob)' = oval
    BY <1>2, <1>3, <1>5 DEF get
  <2> QED
    BY <1>2, <1>4, <2>1 DEF OwnerSound, Pushing
<1>7. ASSUME NEW i \in top .. Bound - 1 PROVE get(i)' = get(i)
  <2>1. i \in Int /\ i < ob /\ ob < i + cap
    BY <1>3, <1>4
  <2>2. i % cap # ob % cap
    <3>1. i < ob + cap /\ i # ob
      BY <1>3, <2>1
    <3> QED
      BY <1>3, <2>1, <3>1, Apart
  <2> QED
    BY <1>2, <1>3, <1>5, <2>1, <2>2 DEF get
<1> QED
  <2>1. Pushing /\ Pushing' /\ cap' >= cap
    BY <1>2, <1>3 DEF Pushing
  <2> QED
    BY <1>2, <1>6, <1>7, <2>1, PushSteps

LEMMA PublishSound ==
  ASSUME DequeInv, ~raced, DequeTypeOK', Publish
  PROVE  Sound'
<1>1. DequeTypeOK /\ Sound
  BY DEF DequeInv
<1>2. /\ opc = "publish" /\ opc' = "idle" /\ bottom' = ob + 1
      /\ UNCHANGED <<top, buffer, cap, stealer, pushed, taken>>
  BY DEF Publish, OwnerReturns
<1>3. /\ bottom \in Int /\ top \in Int /\ cap \in Nat \ {0} /\ Bound \in Int
      /\ \A i \in Int : get(i)' = get(i)
  BY <1>1, <1>2, DequeTypes DEF get
<1>4. /\ ob = bottom /\ Bound = bottom /\ Bound' = bottom + 1
      /\ bottom - top < cap /\ top <= bottom /\ get(bottom) = oval
  BY <1>1, <1>2 DEF Sound, OwnerSound, Fits, Pushing, Bound
<1>5. ~Pushing' /\ Pushing
  BY <1>2 DEF Pushing
<1>6. OwnerSound' /\ Entering'
  BY <1>2, <1>5 DEF OwnerSound, Entering, Pushing
<1>7. Fits'
  BY <1>2, <1>3, <1>4 DEF Fits
<1>8. \A i \in top .. Bound' - 1 : i \in Int /\ (i \in top .. Bound - 1 \/ i = bottom)
  BY <1>3, <1>4
<1>9. oval \in pushed /\ taken[oval] = 0 /\ \A i \in top .. Bound - 1 : get(i) # oval
  BY <1>1, <1>5 DEF Sound, Entering
<1>10. Elements'
  <2>1. \A i \in top .. Bound' - 1 : get(i) \in pushed /\ taken[get(i)] = 0
    BY <1>1, <1>4, <1>8, <1>9 DEF Sound, Elements
  <2>2. \A i, j \in top .. Bound' - 1 : get(i) = get(j) => i = j
    BY <1>1, <1>4, <1>8, <1>9 DEF Sound, Elements
  <2>3. \A i \in top .. Bound' - 1 : get(i)' = get(i)
    BY <1>3, <1>8
  <2> QED
    BY <1>2, <2>1, <2>2, <2>3 DEF Elements
<1>11. Accounted'
  <2>1. ASSUME NEW v \in pushed, taken[v] # 1 PROVE \E i \in top .. Bound' - 1 : get(i)' = v
    <3>1. v = oval \/ \E i \in top .. Bound - 1 : get(i) = v
      BY <1>1, <2>1 DEF Sound, Accounted
    <3>2. CASE v = oval
      <4>1. bottom \in top .. Bound' - 1
        BY <1>3, <1>4
      <4> QED
        BY <1>3, <1>4, <3>2, <4>1
    <3>3. CASE \E i \in top .. Bound - 1 : get(i) = v
      <4>1. PICK i \in top .. Bound - 1 : get(i) = v
        BY <3>3
      <4>2. i \in top .. Bound' - 1 /\ i \in Int
        BY <1>3, <1>4
      <4> QED
        BY <1>3, <4>1, <4>2
    <3> QED
      BY <3>1, <3>2, <3>3
  <2>2. \A v \in Items : taken[v] \in {0, 1} /\ (v \notin pushed => taken[v] = 0)
    BY <1>1 DEF Sound, Accounted
  <2> QED
    BY <1>2, <2>1, <2>2 DEF Accounted
<1>12. \A s \in Stealers : StealerSound(s)'
  <2>1. top' >= top /\ \A i \in top .. Bound - 1 : i < Bound' /\ get(i)' = get(i)
    BY <1>2, <1>3, <1>4
  <2> QED
    BY <1>1, <1>2, <2>1, StealersStay DEF Sound
<1> QED
  BY <1>6, <1>7, <1>10, <1>11, <1>12 DEF Sound

\* pop() that takes nothing, in this step.
LEMMA PopQuiet ==
  ASSUME DequeInv, ~raced, DequeTypeOK',
         PopDec \/ PopLast \/ PopEmpty \/ PopRestore \/ (PopCas /\ top # ot)
  PROVE  Sound'
<1>1. DequeTypeOK /\ Sound
  BY DEF DequeInv
<1>2. UNCHANGED <<top, buffer, cap, pushed, taken, stealer>>
  BY DEF PopDec, PopLast, PopEmpty, PopRestore, PopCas
<1>3. /\ bottom \in Int /\ top \in Int /\ ob \in Int /\ ot \in Int /\ Bound \in Int
      /\ \A i \in Int : get(i)' = get(i)
  BY <1>1, <1>2, DequeTypes DEF get
<1>4. OwnerSound /\ Fits
  BY <1>1 DEF Sound
<1>5. CASE PopDec
  <2>1. OwnerSound' /\ ~Pushing /\ ~Pushing'
    BY <1>5 DEF PopDec, OwnerSound, Pushing
  <2>2. Bound' = Bound
    BY <1>3, <1>5 DEF PopDec, Bound
  <2> QED
    BY <1>2, <2>1, <2>2, PopSteps
<1>6. CASE PopLast
  <2>1. opc = "pop" /\ opc' = "cas" /\ top = ob /\ UNCHANGED <<bottom, ob>>
        /\ ot' = top /\ oval' = get(ob)
    BY <1>6 DEF PopLast
  <2>2. OwnerSound' /\ ~Pushing /\ ~Pushing'
    BY <1>2, <1>3, <1>4, <2>1 DEF OwnerSound, Pushing
  <2>3. Bound' = Bound
    BY <2>1 DEF Bound
  <2> QED
    BY <1>2, <2>2, <2>3, PopSteps
<1>7. CASE PopEmpty
  <2>1. opc = "pop" /\ opc' = "restore" /\ top > ob /\ UNCHANGED <<bottom, ob>>
    BY <1>7 DEF PopEmpty
  <2>2. top = ob + 1
    BY <1>3, <1>4, <2>1 DEF OwnerSound, Fits, Bound
  <2>3. OwnerSound' /\ ~Pushing /\ ~Pushing'
    BY <1>2, <1>4, <2>1, <2>2 DEF OwnerSound, Pushing
  <2>4. Bound' = Bound
    BY <2>1 DEF Bound
  <2> QED
    BY <1>2, <2>3, <2>4, PopSteps
<1>8. CASE PopRestore
  <2>1. opc = "restore" /\ opc' = "idle" /\ bottom' = ob + 1
    BY <1>8 DEF PopRestore, OwnerReturns
  <2>2. OwnerSound' /\ ~Pushing /\ ~Pushing'
    BY <2>1 DEF OwnerSound, Pushing
  <2>3. Bound' = Bound
    BY <1>4, <2>1 DEF Bound, OwnerSound
  <2> QED
    BY <1>2, <2>2, <2>3, PopSteps
<1>9. CASE PopCas /\ top # ot
  <2>1. opc = "cas" /\ opc' = "restore" /\ UNCHANGED <<bottom, ob>>
    BY <1>9 DEF PopCas
  <2>2. top = ob + 1
    BY <1>3, <1>4, <1>9, <2>1 DEF OwnerSound, Fits, Bound
  <2>3. OwnerSound' /\ ~Pushing /\ ~Pushing'
    BY <1>2, <1>4, <2>1, <2>2 DEF OwnerSound, Pushing
  <2>4. Bound' = Bound
    BY <2>1 DEF Bound
  <2> QED
    BY <1>2, <2>3, <2>4, PopSteps
<1> QED
  BY <1>5, <1>6, <1>7, <1>8, <1>9

\* Handing out one item.
LEMMA HandOutOne ==
  ASSUME DequeTypeOK, NEW x \in Items, HandOut(<<x>>)
  PROVE  /\ taken' \in [Items -> Nat] /\ taken'[x] = taken[x] + 1
         /\ \A v \in Items : v # x => taken'[v] = taken[v]
<1>1. <<x>> \in Seq(Slots) /\ Len(<<x>>) = 1 /\ <<x>>[1] = x
  BY DEF Slots
<1>2. taken' \in [Items -> Nat] /\ \A v \in Items : taken'[v] = taken[v] + Times(<<x>>, v)
  BY <1>1, HandOutTimes
<1>3. Times(<<x>>, x) = 1
  <2>1. 1 \in 1 .. Len(<<x>>) /\ \A i \in 1 .. Len(<<x>>) : <<x>>[i] = x => i = 1
    BY <1>1
  <2> QED
    BY <1>1, <2>1, TimesIn
<1>4. \A v \in Items : v # x => Times(<<x>>, v) = 0
  <2> SUFFICES ASSUME NEW v \in Items, v # x PROVE Times(<<x>>, v) = 0
    OBVIOUS
  <2>1. \A i \in 1 .. Len(<<x>>) : <<x>>[i] # v
    BY <1>1
  <2> QED
    BY <1>1, <2>1, TimesIn
<1>5. \A v \in Items : taken[v] \in Nat
  BY DEF DequeTypeOK
<1> QED
  BY <1>2, <1>3, <1>4, <1>5

\* pop() that takes the element at ob, at one end or the other.
LEMMA PopTakes ==
  ASSUME DequeInv, ~raced, DequeTypeOK', opc \in {"pop", "cas"}, ~Pushing',
         top <= ob, HandOut(<<get(ob)>>), UNCHANGED <<buffer, cap, pushed, stealer>>,
         OwnerSound',
         \/ top' = top /\ Bound' = ob /\ \A s \in Stealers : ~Covers(s, ob)
         \/ top' = ob + 1 /\ Bound' = Bound /\ top = ob
  PROVE  Sound'
<1>1. DequeTypeOK /\ Sound
  BY DEF DequeInv
<1>2. /\ bottom \in Int /\ top \in Int /\ ob \in Int /\ Bound \in Int /\ cap \in Nat \ {0}
      /\ \A i \in Int : get(i)' = get(i)
  BY <1>1, DequeTypes DEF get
<1>3. Bound = ob + 1 /\ Bound - top <= cap /\ ~Pushing
  BY <1>1 DEF Sound, OwnerSound, Fits, Pushing, Bound
<1>4. ob \in top .. Bound - 1
  BY <1>2, <1>3
<1>5. /\ \A i \in top' .. Bound' - 1 : i \in top .. Bound - 1 /\ i # ob /\ i \in Int
      /\ \A i \in top .. Bound - 1 : i # ob => i \in top' .. Bound' - 1
  BY <1>2, <1>3
<1> DEFINE x == get(ob)
<1>6. /\ x \in pushed /\ x \in Items /\ taken[x] = 0
      /\ \A i \in top .. Bound - 1 : get(i) = x => i = ob
  BY <1>1, <1>4 DEF Sound, Elements, DequeTypeOK
<1>7. /\ taken'[x] = 1
      /\ \A v \in Items : v # x => taken'[v] = taken[v]
  BY <1>1, <1>6, HandOutOne
<1> HIDE DEF x
<1>8. Fits'
  BY <1>2, <1>3 DEF Fits
<1>9. Elements'
  <2>1. ASSUME NEW i \in top' .. Bound' - 1
        PROVE  get(i)' = get(i) /\ get(i) \in pushed /\ taken'[get(i)] = 0
    <3>1. i \in top .. Bound - 1 /\ i # ob /\ get(i)' = get(i)
      BY <1>2, <1>5
    <3>2. get(i) # x /\ get(i) \in pushed /\ taken[get(i)] = 0 /\ get(i) \in Items
      BY <1>1, <1>6, <3>1 DEF Sound, Elements, DequeTypeOK
    <3> QED
      BY <1>7, <3>1, <3>2
  <2>2. \A i, j \in top' .. Bound' - 1 : get(i) = get(j) => i = j
    BY <1>1, <1>5 DEF Sound, Elements
  <2> QED
    BY <2>1, <2>2 DEF Elements
<1>10. Entering'
  BY DEF Entering
<1>11. Accounted'
  <2>1. \A v \in Items : taken[v] \in {0, 1} /\ (v \notin pushed => taken[v] = 0)
    BY <1>1 DEF Sound, Accounted
  <2>2. \A v \in Items : taken'[v] \in {0, 1} /\ (v \notin pushed => taken'[v] = 0)
    BY <1>6, <1>7, <2>1
  <2>3. ASSUME NEW v \in pushed, taken'[v] # 1 PROVE \E i \in top' .. Bound' - 1 : get(i)' = v
    <3>1. v \in Items /\ v # x /\ taken[v] # 1
      BY <1>1, <1>7, <2>3 DEF DequeTypeOK
    <3>2. PICK i \in top .. Bound - 1 : get(i) = v
      BY <1>1, <1>3, <3>1 DEF Sound, Accounted
    <3>3. i # ob
      BY <3>1, <3>2 DEF x
    <3>4. i \in top' .. Bound' - 1 /\ get(i)' = v
      BY <1>2, <1>5, <3>2, <3>3
    <3> QED
      BY <3>4
  <2> QED
    BY <2>2, <2>3 DEF Accounted
<1>12. \A s \in Stealers : StealerSound(s)'
  <2>1. top' >= top
    BY <1>2
  <2>2. ASSUME top' = top, NEW i \in top .. Bound - 1
        PROVE  /\ i < Bound' \/ \A s \in Stealers : ~Covers(s, i)
               /\ get(i)' = get(i)
    <3>1. Bound' = ob /\ \A s \in Stealers : ~Covers(s, ob)
      BY <1>2, <2>2
    <3>2. i = ob \/ i < ob
      BY <1>2, <1>3
    <3> QED
      BY <1>2, <3>1, <3>2
  <2> QED
    BY <1>1, <2>1, <2>2, StealersStay DEF Sound
<1> QED
  BY <1>8, <1>9, <1>10, <1>11, <1>12 DEF Sound

LEMMA PopManySound ==
  ASSUME DequeInv, ~raced, DequeTypeOK', PopMany, ~raced'
  PROVE  Sound'
<1>1. DequeTypeOK /\ Sound
  BY DEF DequeInv
<1>2. bottom \in Int /\ top \in Int /\ ob \in Int
  BY <1>1, DequeTypes
<1>3. /\ opc = "pop" /\ opc' = "idle" /\ top < ob /\ HandOut(<<get(ob)>>)
      /\ UNCHANGED <<bottom, top, buffer, cap, pushed, stealer>>
      /\ \A s \in Stealers : ~Covers(s, ob)
  BY DEF PopMany, OwnerReturns
<1>4. Bound' = ob /\ ~Pushing' /\ OwnerSound'
  BY <1>1, <1>3 DEF Bound, Pushing, Sound, OwnerSound
<1> QED
  BY <1>2, <1>3, <1>4, PopTakes

LEMMA PopCasSound ==
  ASSUME DequeInv, ~raced, DequeTypeOK', PopCas, top = ot
  PROVE  Sound'
<1>1. DequeTypeOK /\ Sound
  BY DEF DequeInv
<1>2. bottom \in Int /\ top \in Int /\ ob \in Int
  BY <1>1, DequeTypes
<1>3. /\ opc = "cas" /\ opc' = "restore" /\ top' = ot + 1 /\ HandOut(<<oval>>)
      /\ UNCHANGED <<bottom, buffer, cap, pushed, stealer, ob>>
  BY DEF PopCas
<1>4. ot = ob /\ oval = get(ob) /\ ob = bottom
  BY <1>1, <1>3 DEF Sound, OwnerSound
<1>5. Bound' = Bound /\ ~Pushing' /\ OwnerSound'
  BY <1>3, <1>4 DEF Bound, Pushing, OwnerSound
<1> QED
  BY <1>2, <1>3, <1>4, <1>5, PopTakes

-----------------------------------------------------------------------------
LEMMA DequeStep == DequeInv /\ [DequeNext]_dequeVars => DequeInv'
<1> SUFFICES ASSUME DequeInv, [DequeNext]_dequeVars PROVE DequeInv'
  OBVIOUS
<1>1. ASSUME Owner PROVE DequeInv'
  <2>1. DequeTypeOK'
    BY <1>1, OwnerType DEF DequeInv
  <2>2. ASSUME ~raced' PROVE ~raced
    BY <1>1, <2>2 DEF Owner, PushLoad, Grow, Replace, Put, Publish, PopDec, PopMany, PopLast,
       PopEmpty, PopCas, PopRestore
  <2>3. ASSUME ~raced' PROVE Sound'
    BY <1>1, <2>1, <2>2, <2>3, PushLoadSound, GrowSound, ReplaceSound, PutSound, PublishSound, PopQuiet,
       PopManySound, PopCasSound DEF Owner
  <2> QED
    BY <2>1, <2>3 DEF DequeInv
<1>2. ASSUME NEW s \in Stealers, Steal(s) PROVE DequeInv'
  <2>1. DequeTypeOK'
    BY <1>2, StealType DEF DequeInv
  <2>2. ASSUME ~raced' PROVE ~raced
    BY <1>2, <2>2 DEF Steal, StealLoadTop, StealEmpty, StealLoadBottom, StealReload,
       StealRead, StealCas
  <2>3. ASSUME ~raced' PROVE Sound'
    BY <1>2, <2>1, <2>2, <2>3, LookingSound, StealCasSound DEF Steal
  <2> QED
    BY <2>1, <2>3 DEF DequeInv
<1>3. CASE UNCHANGED dequeVars
  <2> USE <1>3 DEF dequeVars, owner, stealer
  <2>1. DequeTypeOK'
    BY DEF DequeInv, DequeTypeOK, DequeBuffers, Slots
  <2>2. ~raced => Sound'
    BY DEF DequeInv, Sound, OwnerSound, Pushing, get, Fits, Bound, Elements, Entering,
       Accounted, StealerSound, Stealing, Wanted
  <2> QED
    BY <2>1, <2>2 DEF DequeInv
<1> QED
  BY <1>1, <1>2, <1>3 DEF DequeNext

\* The inductive invariant of push, pop, steal and steal_batch.
THEOREM DequeInvariance == DequeSpec => []DequeInv
  BY DequeInitInv, DequeStep, PTL DEF DequeSpec

\* Slots and locals of the deque hold what their types say.
THEOREM DequeTypeCorrect == DequeSpec => []DequeTypeOK
<1>1. DequeInv => DequeTypeOK
  BY DEF DequeInv
<1> QED
  BY <1>1, DequeInvariance, PTL

\* stealer.rs:123: until one of the three races, the owner and the stealers never
\* take the same item.
THEOREM NeverTakenTwice == DequeSpec => []TakenOnceUntilRaced
<1>1. DequeInv => TakenOnceUntilRaced
  <2> SUFFICES ASSUME DequeInv, ~raced, NEW v \in Items PROVE taken[v] <= 1
    BY DEF TakenOnceUntilRaced, TakenOnce
  <2>1. taken[v] \in {0, 1}
    BY DEF DequeInv, Sound, Accounted
  <2> QED
    BY <2>1
<1> QED
  BY <1>1, DequeInvariance, PTL

\* Until one of the three races, what was pushed and not taken is in the deque,
\* once, whenever no call is under way.
THEOREM NothingLost == DequeSpec => []NothingLostUntilRaced
<1>1. DequeInv => NothingLostUntilRaced
  <2> SUFFICES ASSUME DequeInv, ~raced, opc = "idle"
               PROVE  /\ {get(i) : i \in top .. bottom - 1} = {v \in pushed : taken[v] = 0}
                      /\ \A i, j \in top .. bottom - 1 : get(i) = get(j) => i = j
    BY DEF NothingLostUntilRaced
  <2>1. Bound = bottom /\ ~Pushing
    BY DEF Bound, Pushing
  <2>2. /\ \A i \in top .. bottom - 1 : get(i) \in pushed /\ taken[get(i)] = 0
        /\ \A i, j \in top .. bottom - 1 : get(i) = get(j) => i = j
    BY <2>1 DEF DequeInv, Sound, Elements
  <2>3. \A v \in pushed : taken[v] = 1 \/ \E i \in top .. bottom - 1 : get(i) = v
    BY <2>1 DEF DequeInv, Sound, Accounted
  <2> QED
    BY <2>2, <2>3
<1> QED
  BY <1>1, DequeInvariance, PTL

-----------------------------------------------------------------------------
(* The broadcast channel.  Two inductive invariants: the count is one less *)
(* than the holders until the allocation goes; and, as long as no send and *)
(* no drop of the sender has overtaken a receiver, every receiver is at    *)
(* most one value behind, and none once the sender is gone.                *)

\* One reference is not counted, so whoever leaves one other holder behind frees.
Counted ==
  /\ shared.refcount = Cardinality(Holders) - 1
  /\ shared.freed <=> shared.refcount = 0
  /\ shared.refcount >= 0

Announcing == sender \in {"write", "bump"}

\* What the sender has written, and what it announces.
SenderSound ==
  /\ sender \in {"closewake", "release", "gone"} <=> shared.generation = Closed
  /\ Announcing => shared.generation < MaxSends
  /\ sender = "bump" => shared.value = shared.generation + 1
  /\ ~Announcing /\ shared.generation # Closed => shared.value = shared.generation

Fresh(r) == rcv[r].pc \in {"none", "counted"} => rcv[r].got = <<>>

\* What has been received is what was sent since the subscription.
Complete(r) ==
  /\ rcv[r].first <= rcv[r].seen
  /\ rcv[r].got = [i \in 1 .. rcv[r].seen - rcv[r].first |-> rcv[r].first + i]

\* A receiver is at most one value behind, and not at all while the next is written
\* or once the channel is closed, unless it subscribed after that.
InStep(r) ==
  /\ shared.generation # Closed =>
       /\ rcv[r].seen \in shared.generation - 1 .. shared.generation
       /\ Announcing => rcv[r].seen = shared.generation
  /\ shared.generation = Closed => rcv[r].first = Closed \/ rcv[r].seen = shared.value

\* A receiver about to clone takes the one value it has not seen.
Cloning(r) == At(r, "clone") \/ (At(r, "remove") /\ rcv[r].gen # Closed)

ClonesNext(r) ==
  Cloning(r) =>
    /\ rcv[r].gen = rcv[r].seen + 1 /\ rcv[r].gen # Closed
    /\ shared.value = rcv[r].gen /\ shared.generation = rcv[r].gen

KeepsUp(r) == Active(r) => Complete(r) /\ InStep(r) /\ ClonesNext(r)

BroadcastInv ==
  /\ BroadcastTypeOK /\ SenderSound
  /\ \A r \in Receivers : Fresh(r)
  /\ ~overtaken => \A r \in Receivers : KeepsUp(r)

Allocation ==
  [refcount : Int, freed : BOOLEAN, generation : Generation, value : Generation,
   waiters : SUBSET Receivers]

LEMMA ClosedIsLast ==
  /\ MaxSends \in Nat /\ Closed \in Nat /\ Closed = MaxSends + 1
  /\ Generation = 0 .. Closed /\ 0 \in Generation
  BY BroadcastAssumption DEF Closed, Generation

\* What the types say of one receiver and of the allocation.
LEMMA TypesOf ==
  ASSUME BroadcastTypeOK, NEW r \in Receivers
  PROVE  /\ rcv[r] \in Receiver /\ shared \in Allocation
         /\ rcv[r].seen \in Int /\ rcv[r].gen \in Int /\ rcv[r].first \in Int
         /\ rcv[r].seen <= Closed /\ rcv[r].gen <= Closed /\ rcv[r].gen >= 0
         /\ shared.generation \in 0 .. Closed /\ shared.value \in Int
         /\ rcv[r].got \in Seq(Generation)
  BY ClosedIsLast DEF BroadcastTypeOK, Receiver, Allocation

\* A receiver that does not move in a step that announces nothing.
LEMMA OtherStays ==
  ASSUME BroadcastInv, NEW u \in Receivers,
         rcv'[u].pc = rcv[u].pc, rcv'[u].seen = rcv[u].seen, rcv'[u].gen = rcv[u].gen,
         rcv'[u].first = rcv[u].first, rcv'[u].got = rcv[u].got,
         shared'.generation = shared.generation, shared'.value = shared.value,
         Announcing' => Announcing
  PROVE  Fresh(u)' /\ (~overtaken => KeepsUp(u)')
  BY DEF BroadcastInv, Fresh, KeepsUp, Active, Complete, InStep, Announcing,
         ClonesNext, Cloning, At

\* A step of one receiver that the generation, the value and the sender do not notice.
LEMMA OneReceiver ==
  ASSUME BroadcastInv, NEW r \in Receivers,
         shared' \in Allocation,
         shared'.generation = shared.generation, shared'.value = shared.value,
         sender' = sender, overtaken' = overtaken,
         rcv' \in [Receivers -> Receiver],
         \A u \in Receivers : u # r => rcv'[u] = rcv[u],
         Fresh(r)', ~overtaken => KeepsUp(r)'
  PROVE  BroadcastInv'
<1>1. BroadcastTypeOK'
  BY DEF BroadcastInv, BroadcastTypeOK, Allocation
<1>2. SenderSound'
  BY DEF BroadcastInv, SenderSound, Announcing
<1>3. ASSUME NEW u \in Receivers, u # r PROVE Fresh(u)' /\ (~overtaken => KeepsUp(u)')
  BY <1>3, OtherStays DEF Announcing
<1> QED
  BY <1>1, <1>2, <1>3 DEF BroadcastInv

\* A step that leaves what a receiver has seen and received alone and does not
\* bring it to a clone keeps it up with the sender.
LEMMA SeenStays ==
  ASSUME NEW r \in Receivers, KeepsUp(r), Active(r),
         shared'.generation = shared.generation, shared'.value = shared.value,
         sender' = sender,
         rcv'[r].seen = rcv[r].seen, rcv'[r].first = rcv[r].first,
         rcv'[r].got = rcv[r].got,
         ~Cloning(r)'
  PROVE  KeepsUp(r)'
  BY DEF KeepsUp, Complete, InStep, Announcing, ClonesNext

LEMMA ReleaseFields ==
  ASSUME shared \in Allocation, Release
  PROVE  /\ shared' \in Allocation /\ shared'.generation = shared.generation
         /\ shared'.value = shared.value /\ shared'.refcount = shared.refcount - 1
         /\ shared'.freed <=> shared.refcount = 1
<1>1. PICK f \in BOOLEAN : f = (shared.refcount = 1)
  BY Zenon
<1>2. shared' = [shared EXCEPT !.refcount = @ - 1, !.freed = f]
  BY <1>1, Zenon DEF Release
<1>3. /\ shared' \in Allocation /\ shared'.generation = shared.generation
      /\ shared'.value = shared.value /\ shared'.refcount = shared.refcount - 1
      /\ shared'.freed = f
  <2>1. PICK n \in Int : n = shared.refcount - 1
    BY DEF Allocation
  <2>2. shared' = [shared EXCEPT !.refcount = n, !.freed = f]
    BY <1>2, <2>1, Zenon
  <2> QED
    BY <2>1, <2>2 DEF Allocation
<1> QED
  BY <1>1, <1>3, Zenon

LEMMA BroadcastInitInv == BroadcastInit => BroadcastInv
<1> SUFFICES ASSUME BroadcastInit PROVE BroadcastInv
  OBVIOUS
<1>1. shared \in Allocation
  BY ClosedIsLast DEF BroadcastInit, Allocation, Undefined
<1>2. \A l \in {"idle", "none"} : NewReceiver(l) \in Receiver
  BY ClosedIsLast DEF NewReceiver, Receiver
<1>3. \A r \in Receivers : rcv[r] = NewReceiver("idle") \/ rcv[r] = NewReceiver("none")
  BY DEF BroadcastInit
<1>4. rcv \in [Receivers -> Receiver]
  BY <1>2, <1>3 DEF BroadcastInit
<1>5. SenderSound
  BY ClosedIsLast DEF BroadcastInit, SenderSound, Announcing, Undefined
<1>6. ASSUME NEW r \in Receivers PROVE Fresh(r) /\ KeepsUp(r)
  <2>1. /\ rcv[r].seen = 0 /\ rcv[r].first = 0 /\ rcv[r].got = <<>>
        /\ ~Cloning(r) /\ shared.generation = 0
    BY <1>3 DEF NewReceiver, Cloning, At, BroadcastInit
  <2>2. Complete(r)
    BY <2>1 DEF Complete
  <2> QED
    BY <2>1, <2>2 DEF Fresh, KeepsUp, InStep, ClonesNext
<1> QED
  BY <1>1, <1>4, <1>5, <1>6 DEF BroadcastInit, BroadcastInv, BroadcastTypeOK, Allocation

\* One of the two looks at the generation.
LEMMA LookKeeps ==
  ASSUME BroadcastInv, NEW r \in Receivers, Active(r),
         NEW closed, NEW news, NEW none,
         Look(r, closed, news, none),
         closed \in {"futuredrop", "remove"}, news \in {"clone", "remove"},
         none \in {"park", "pending"}
  PROVE  BroadcastInv'
<1>1. PICK l : /\ rcv' = [rcv EXCEPT ![r].gen = shared.generation, ![r].pc = l]
               /\ \/ l = closed /\ shared.generation = Closed
                  \/ l = news /\ shared.generation # Closed /\ News(r)
                  \/ l = none
  BY DEF Look
<1>2. UNCHANGED <<shared, sender, overtaken>>
  BY DEF Look
<1>3. /\ rcv[r] \in Receiver /\ shared \in Allocation /\ shared.generation \in Generation
      /\ rcv \in [Receivers -> Receiver]
  BY TypesOf DEF BroadcastInv, BroadcastTypeOK, Allocation
<1>4. l \in {"futuredrop", "remove", "clone", "park", "pending"}
  BY <1>1
<1>5. /\ rcv'[r].pc = l /\ rcv'[r].gen = shared.generation
      /\ rcv'[r].seen = rcv[r].seen /\ rcv'[r].first = rcv[r].first
      /\ rcv'[r].got = rcv[r].got
  BY <1>1, <1>3 DEF Receiver
<1>6. rcv' \in [Receivers -> Receiver] /\ \A u \in Receivers : u # r => rcv'[u] = rcv[u]
  BY <1>1, <1>3, <1>4 DEF Receiver
<1>7. Fresh(r)'
  BY <1>4, <1>5 DEF Fresh
<1>8. ASSUME ~overtaken PROVE KeepsUp(r)'
  <2>1. KeepsUp(r) /\ SenderSound
    BY <1>8 DEF BroadcastInv
  <2>2. CASE Cloning(r)'
    <3>1. shared.generation # Closed /\ News(r)
      BY <1>1, <1>5, <2>2 DEF Cloning, At
    <3>2. /\ rcv[r].seen \in shared.generation - 1 .. shared.generation
          /\ Announcing => rcv[r].seen = shared.generation
          /\ Complete(r)
      BY <2>1, <3>1 DEF KeepsUp, InStep
    <3>3. /\ rcv[r].seen \in Int /\ shared.generation \in Int
          /\ shared.generation > rcv[r].seen
      BY <3>1, TypesOf, ClosedIsLast DEF News, BroadcastInv
    <3>4. ~Announcing /\ rcv[r].seen + 1 = shared.generation
      BY <3>2, <3>3
    <3>5. shared.value = shared.generation
      BY <2>1, <3>1, <3>4 DEF SenderSound
    <3>6. ClonesNext(r)'
      BY <1>2, <1>5, <3>1, <3>4, <3>5 DEF ClonesNext
    <3>7. Complete(r)'
      BY <1>5, <3>2 DEF Complete
    <3>8. InStep(r)'
      BY <1>2, <1>5, <3>1, <3>2, <3>4 DEF InStep, Announcing
    <3> QED
      BY <3>6, <3>7, <3>8 DEF KeepsUp
  <2>3. CASE ~Cloning(r)'
    BY <1>2, <1>5, <2>1, <2>3, SeenStays
  <2> QED
    BY <2>2, <2>3
<1> QED
  BY <1>2, <1>3, <1>6, <1>7, <1>8, OneReceiver

\* A receiver is linked or unlinked, or moves on, without a look at the channel.
LEMMA MoveKeeps ==
  ASSUME BroadcastInv, NEW r \in Receivers, Active(r),
         shared' \in Allocation,
         shared'.generation = shared.generation, shared'.value = shared.value,
         UNCHANGED <<sender, overtaken>>,
         rcv' \in [Receivers -> Receiver],
         \A u \in Receivers : u # r => rcv'[u] = rcv[u],
         rcv'[r].seen = rcv[r].seen, rcv'[r].first = rcv[r].first,
         rcv'[r].got = rcv[r].got,
         rcv'[r].pc \notin {"none", "counted", "remove", "clone"}
  PROVE  BroadcastInv'
<1>1. Fresh(r)' /\ ~Cloning(r)'
  BY DEF Fresh, Cloning, At
<1>2. ~overtaken => KeepsUp(r)'
  BY <1>1, SeenStays DEF BroadcastInv
<1> QED
  BY <1>1, <1>2, OneReceiver

LEMMA GoKeeps ==
  ASSUME BroadcastInv, NEW r \in Receivers, Active(r),
         NEW l \in {"dropped", "load", "pending", "futuredrop", "idle", "subscribe"},
         Go(r, l),
         shared' \in Allocation,
         shared'.generation = shared.generation, shared'.value = shared.value,
         UNCHANGED <<sender, overtaken>>
  PROVE  BroadcastInv'
<1>1. rcv[r] \in Receiver /\ rcv \in [Receivers -> Receiver]
  BY TypesOf DEF BroadcastInv, BroadcastTypeOK
<1>2. /\ rcv' \in [Receivers -> Receiver]
      /\ \A u \in Receivers : u # r => rcv'[u] = rcv[u]
      /\ rcv'[r].seen = rcv[r].seen /\ rcv'[r].first = rcv[r].first
      /\ rcv'[r].got = rcv[r].got /\ rcv'[r].pc = l
  BY <1>1 DEF Go, Receiver
<1> QED
  BY <1>2, MoveKeeps

\* WaitQueue::remove() in RemoveNode and in FutureDrop.
LEMMA UnlinkKeeps ==
  ASSUME BroadcastInv, NEW r \in Receivers, Active(r),
         NEW l \in {"futuredrop", "idle", "clone"}, Unlink(r, l), l = "clone" => Cloning(r)
  PROVE  BroadcastInv'
<1>1. /\ rcv[r] \in Receiver /\ rcv \in [Receivers -> Receiver]
      /\ shared \in Allocation /\ 0 \in Generation
  BY TypesOf, ClosedIsLast DEF BroadcastInv, BroadcastTypeOK
<1>2. /\ shared' \in Allocation
      /\ shared'.generation = shared.generation /\ shared'.value = shared.value
      /\ UNCHANGED <<sender, overtaken>>
  BY <1>1 DEF Unlink, Allocation
<1>3. PICK g \in Generation :
        /\ rcv' = [rcv EXCEPT ![r].pc = l, ![r].registered = FALSE, ![r].woken = FALSE,
                              ![r].stale = FALSE, ![r].gen = g]
        /\ l = "clone" => g = rcv[r].gen
  BY <1>1 DEF Unlink, Receiver
<1>4. /\ rcv' \in [Receivers -> Receiver]
      /\ \A u \in Receivers : u # r => rcv'[u] = rcv[u]
      /\ rcv'[r].seen = rcv[r].seen /\ rcv'[r].first = rcv[r].first
      /\ rcv'[r].got = rcv[r].got /\ rcv'[r].pc = l /\ rcv'[r].gen = g
  BY <1>1, <1>3 DEF Receiver
<1>5. CASE l = "clone"
  <2>1. Fresh(r)'
    BY <1>4, <1>5 DEF Fresh
  <2>2. ASSUME ~overtaken PROVE KeepsUp(r)'
    <3>1. KeepsUp(r)
      BY <2>2 DEF BroadcastInv
    <3> QED
      BY <1>2, <1>3, <1>4, <1>5, <3>1
         DEF KeepsUp, Complete, InStep, Announcing, ClonesNext
  <2> QED
    BY <1>2, <1>4, <2>1, <2>2, OneReceiver
<1>6. CASE l # "clone"
  BY <1>2, <1>4, <1>6, MoveKeeps
<1> QED
  BY <1>5, <1>6

\* One more value at the end of what a receiver has.
LEMMA OneMore ==
  ASSUME NEW f \in Int, NEW k \in Nat, NEW g, g = [i \in 1 .. k |-> f + i]
  PROVE  Append(g, f + k + 1) = [i \in 1 .. k + 1 |-> f + i]
<1> DEFINE h == [i \in 1 .. k + 1 |-> f + i]
<1>1. g \in Seq(Int) /\ Len(g) = k
  OBVIOUS
<1>2. h \in Seq(Int) /\ Len(h) = k + 1
  OBVIOUS
<1>3. Append(g, f + k + 1) \in Seq(Int) /\ Len(Append(g, f + k + 1)) = k + 1
  BY <1>1
<1>4. \A i \in 1 .. k + 1 : Append(g, f + k + 1)[i] = h[i]
  BY <1>1
<1> QED
  BY <1>2, <1>3, <1>4

LEMMA CloneKeeps ==
  ASSUME BroadcastInv, NEW r \in Receivers, Clone(r)
  PROVE  BroadcastInv'
<1>1. /\ rcv[r] \in Receiver /\ rcv \in [Receivers -> Receiver]
      /\ shared \in Allocation /\ shared.value \in Generation
  BY TypesOf DEF BroadcastInv, BroadcastTypeOK, Allocation
<1>2. /\ At(r, "clone")
      /\ rcv' = [rcv EXCEPT ![r].pc = "futuredrop", ![r].seen = rcv[r].gen,
                            ![r].got = Append(@, shared.value)]
      /\ UNCHANGED <<shared, sender, overtaken>>
  BY DEF Clone
<1>3. Append(rcv[r].got, shared.value) \in Seq(Generation)
  BY <1>1 DEF Receiver
<1>4. /\ rcv' \in [Receivers -> Receiver]
      /\ \A u \in Receivers : u # r => rcv'[u] = rcv[u]
      /\ rcv'[r].seen = rcv[r].gen /\ rcv'[r].first = rcv[r].first
      /\ rcv'[r].got = Append(rcv[r].got, shared.value) /\ rcv'[r].pc = "futuredrop"
  BY <1>1, <1>2, <1>3 DEF Receiver
<1>5. Fresh(r)' /\ ~Cloning(r)'
  BY <1>4 DEF Fresh, Cloning, At
<1>6. ASSUME ~overtaken PROVE KeepsUp(r)'
  <2>1. KeepsUp(r) /\ Active(r) /\ Cloning(r)
    BY <1>2, <1>6 DEF BroadcastInv, Cloning, At, Active
  <2>2. /\ rcv[r].gen = rcv[r].seen + 1 /\ rcv[r].gen # Closed /\ shared.value = rcv[r].gen
        /\ rcv[r].gen = shared.generation /\ Complete(r) /\ InStep(r)
    BY <2>1 DEF KeepsUp, ClonesNext
  <2>3. rcv[r].seen \in Int /\ rcv[r].first \in Int /\ shared.generation \in Int
    BY TypesOf, ClosedIsLast DEF BroadcastInv
  <2>4. Complete(r)'
    <3> DEFINE f == rcv[r].first
               k == rcv[r].seen - rcv[r].first
    <3>1. f \in Int /\ k \in Nat /\ rcv[r].got = [i \in 1 .. k |-> f + i]
      BY <2>2, <2>3 DEF Complete
    <3>2. shared.value = f + k + 1 /\ rcv'[r].seen - rcv'[r].first = k + 1
      BY <1>4, <2>2, <2>3
    <3>3. rcv'[r].first = f
      BY <1>4
    <3> HIDE DEF f, k
    <3>4. rcv'[r].got = [i \in 1 .. k + 1 |-> f + i]
      BY <1>4, <3>1, <3>2, OneMore
    <3>5. rcv'[r].first <= rcv'[r].seen
      BY <1>4, <2>2, <2>3 DEF Complete
    <3> QED
      BY <3>2, <3>3, <3>4, <3>5 DEF Complete
  <2>5. InStep(r)'
    BY <1>2, <1>4, <2>2, <2>3 DEF InStep, Announcing
  <2> QED
    BY <1>5, <2>4, <2>5 DEF KeepsUp, ClonesNext
<1> QED
  BY <1>1, <1>2, <1>4, <1>5, <1>6, OneReceiver

LEMMA ParkKeeps ==
  ASSUME BroadcastInv, NEW r \in Receivers, Park(r)
  PROVE  BroadcastInv'
<1>1. /\ rcv[r] \in Receiver /\ rcv \in [Receivers -> Receiver]
      /\ shared \in Allocation
  BY TypesOf DEF BroadcastInv, BroadcastTypeOK
<1>2. /\ shared' \in Allocation /\ UNCHANGED <<sender, overtaken>>
      /\ shared'.generation = shared.generation /\ shared'.value = shared.value
  BY <1>1 DEF Park, Allocation
<1>3. /\ rcv' \in [Receivers -> Receiver]
      /\ \A u \in Receivers : u # r => rcv'[u] = rcv[u]
      /\ rcv'[r].seen = rcv[r].seen /\ rcv'[r].first = rcv[r].first
      /\ rcv'[r].got = rcv[r].got /\ rcv'[r].pc = "recheck" /\ Active(r)
  BY <1>1 DEF Park, Receiver, At, Active
<1> QED
  BY <1>2, <1>3, MoveKeeps

\* A subscription that is counted but has not loaded the generation.
LEMMA SubscribeKeeps ==
  ASSUME BroadcastInv, NEW q \in Receivers, NEW r \in Receivers, Subscribe(q, r)
  PROVE  BroadcastInv'
<1>1. /\ rcv[r] \in Receiver /\ rcv[q] \in Receiver /\ rcv \in [Receivers -> Receiver]
      /\ shared \in Allocation
  BY TypesOf DEF BroadcastInv, BroadcastTypeOK
<1>2. /\ shared' \in Allocation /\ UNCHANGED <<sender, overtaken>>
      /\ shared'.generation = shared.generation /\ shared'.value = shared.value
  BY <1>1 DEF Subscribe, Allocation
<1>3. /\ rcv[q].pc = "idle" /\ rcv[r].pc = "none" /\ q # r
      /\ rcv' = [rcv EXCEPT ![q].pc = "subscribe", ![r].pc = "counted"]
  BY DEF Subscribe, At
<1>4. /\ rcv' \in [Receivers -> Receiver]
      /\ \A u \in Receivers : u # q /\ u # r => rcv'[u] = rcv[u]
      /\ rcv'[q].seen = rcv[q].seen /\ rcv'[q].first = rcv[q].first
      /\ rcv'[q].got = rcv[q].got /\ rcv'[q].pc = "subscribe"
      /\ rcv'[r].got = rcv[r].got /\ rcv'[r].pc = "counted"
  BY <1>1, <1>3 DEF Receiver
<1>5. BroadcastTypeOK' /\ SenderSound'
  BY <1>2, <1>4 DEF BroadcastInv, BroadcastTypeOK, Allocation, SenderSound, Announcing
<1>6. Fresh(r)' /\ Fresh(q)' /\ ~Active(r)' /\ ~Cloning(q)'
  BY <1>3, <1>4 DEF BroadcastInv, Fresh, Active, Cloning, At
<1>7. ~overtaken => KeepsUp(q)' /\ KeepsUp(r)'
  <2> SUFFICES ASSUME ~overtaken PROVE KeepsUp(q)'
    BY <1>6 DEF KeepsUp
  <2>1. Active(q) /\ KeepsUp(q)
    BY <1>3 DEF Active, BroadcastInv
  <2> QED
    BY <1>2, <1>4, <1>6, <2>1, SeenStays
<1>8. ASSUME NEW u \in Receivers, u # q, u # r
      PROVE  Fresh(u)' /\ (~overtaken => KeepsUp(u)')
  BY <1>2, <1>4, <1>8, OtherStays DEF Announcing
<1> QED
  BY <1>2, <1>5, <1>6, <1>7, <1>8 DEF BroadcastInv

\* The new receiver starts at the generation of now, with nothing received.
LEMMA SubscribeLoadKeeps ==
  ASSUME BroadcastInv, NEW q \in Receivers, NEW r \in Receivers, SubscribeLoad(q, r)
  PROVE  BroadcastInv'
<1>1. /\ rcv[r] \in Receiver /\ rcv[q] \in Receiver /\ rcv \in [Receivers -> Receiver]
      /\ shared \in Allocation /\ shared.generation \in Generation
      /\ shared.generation \in Int
  BY TypesOf, ClosedIsLast DEF BroadcastInv, BroadcastTypeOK, Allocation
<1>2. /\ UNCHANGED <<shared, sender, overtaken>>
      /\ rcv[q].pc = "subscribe" /\ rcv[r].pc = "counted" /\ q # r
      /\ rcv' = [rcv EXCEPT ![q].pc = "idle", ![r].pc = "idle",
                            ![r].seen = shared.generation, ![r].first = shared.generation]
  BY DEF SubscribeLoad, At
<1>3. /\ rcv' \in [Receivers -> Receiver]
      /\ \A u \in Receivers : u # q /\ u # r => rcv'[u] = rcv[u]
      /\ rcv'[q].seen = rcv[q].seen /\ rcv'[q].first = rcv[q].first
      /\ rcv'[q].got = rcv[q].got /\ rcv'[q].pc = "idle"
      /\ rcv'[r].seen = shared.generation /\ rcv'[r].first = shared.generation
      /\ rcv'[r].got = rcv[r].got /\ rcv'[r].pc = "idle"
  BY <1>1, <1>2 DEF Receiver
<1>4. BroadcastTypeOK' /\ SenderSound'
  BY <1>2, <1>3 DEF BroadcastInv, BroadcastTypeOK, SenderSound, Announcing
<1>5. Fresh(r)' /\ Fresh(q)' /\ ~Cloning(r)' /\ ~Cloning(q)'
  BY <1>3 DEF Fresh, Cloning, At
<1>6. ~overtaken => KeepsUp(q)'
  <2>1. ~overtaken => Active(q) /\ KeepsUp(q)
    BY <1>2 DEF Active, BroadcastInv, At
  <2> QED
    BY <1>2, <1>3, <1>5, <2>1, SeenStays
<1>7. KeepsUp(r)'
  <2>1. rcv'[r].got = <<>>
    BY <1>2, <1>3 DEF BroadcastInv, Fresh
  <2>2. Complete(r)'
    BY <1>1, <1>3, <2>1 DEF Complete
  <2>3. InStep(r)'
    BY <1>1, <1>2, <1>3 DEF InStep
  <2> QED
    BY <1>5, <2>2, <2>3 DEF KeepsUp, ClonesNext
<1>8. ASSUME NEW u \in Receivers, u # q, u # r
      PROVE  Fresh(u)' /\ (~overtaken => KeepsUp(u)')
  BY <1>2, <1>3, <1>8, OtherStays DEF Announcing
<1> QED
  BY <1>2, <1>4, <1>5, <1>6, <1>7, <1>8 DEF BroadcastInv

\* A step of the sender leaves the receivers' types and what they received alone.
LEMMA SenderKeeps ==
  ASSUME BroadcastInv, SendBegin \/ SendWrite \/ SendBump \/ SenderDrop \/ SenderRelease
  PROVE  BroadcastInv'
<1>1. /\ shared \in Allocation /\ shared.generation \in 0 .. Closed
      /\ rcv \in [Receivers -> Receiver] /\ overtaken \in BOOLEAN
      /\ shared.refcount \in Int
  BY ClosedIsLast DEF BroadcastInv, BroadcastTypeOK, Allocation
<1>2. SenderSound /\ \A r \in Receivers : Fresh(r)
  BY DEF BroadcastInv
<1>3. rcv' = rcv /\ \A r \in Receivers : Fresh(r)'
  BY <1>2 DEF SendBegin, SendWrite, SendBump, SenderDrop, SenderRelease, Fresh
<1>9. Overtake => /\ overtaken' \in BOOLEAN
                  /\ ~overtaken' => /\ ~overtaken
                                    /\ \A r \in Receivers : Active(r) => ~News(r)
  BY Zenon DEF Overtake
<1>4. CASE SendBegin
  <2>1. /\ sender = "idle" /\ sender' = "write" /\ shared.generation < MaxSends
        /\ shared' = [shared EXCEPT !.value = Undefined]
    BY <1>4 DEF SendBegin
  <2>2. BroadcastTypeOK'
    <3>1. overtaken' \in BOOLEAN
      BY <1>4, <1>9 DEF SendBegin
    <3> QED
      BY <1>1, <1>3, <2>1, <3>1, ClosedIsLast DEF BroadcastTypeOK, Allocation, Undefined
  <2>3. SenderSound'
    BY <1>1, <1>2, <2>1, ClosedIsLast DEF SenderSound, Announcing, Allocation
  <2>4. ASSUME ~overtaken', NEW r \in Receivers PROVE KeepsUp(r)'
    <3>1. ~overtaken /\ (Active(r) => ~News(r))
      BY <1>4, <1>9, <2>4 DEF SendBegin
    <3> SUFFICES ASSUME Active(r) PROVE Complete(r)' /\ InStep(r)' /\ ClonesNext(r)'
      BY <1>3 DEF KeepsUp, Active, At
    <3>2. /\ Complete(r) /\ InStep(r) /\ ClonesNext(r)
          /\ rcv[r].seen \in Int /\ rcv[r].seen >= shared.generation
          /\ shared.generation # Closed
      BY <1>1, <2>1, <3>1, TypesOf, ClosedIsLast DEF BroadcastInv, KeepsUp, News
    <3>3. rcv[r].seen = shared.generation /\ ~Cloning(r)
      BY <1>1, <3>2, ClosedIsLast DEF InStep, ClonesNext
    <3>4. shared'.generation = shared.generation
      BY <1>1, <2>1 DEF Allocation
    <3> QED
      BY <1>1, <1>3, <3>2, <3>3, <3>4, ClosedIsLast
         DEF Complete, InStep, ClonesNext, Cloning, At
  <2> QED
    BY <1>3, <2>2, <2>3, <2>4 DEF BroadcastInv
<1>5. CASE SendWrite
  <2>1. /\ sender = "write" /\ sender' = "bump" /\ overtaken' = overtaken
        /\ shared' = [shared EXCEPT !.value = shared.generation + 1]
    BY <1>5 DEF SendWrite
  <2>2. shared.generation < MaxSends
    BY <1>2, <2>1 DEF SenderSound, Announcing
  <2>3. /\ shared' \in Allocation /\ shared'.generation = shared.generation
        /\ shared'.value = shared.generation + 1
    BY <1>1, <2>1, <2>2, ClosedIsLast DEF Allocation
  <2>4. BroadcastTypeOK' /\ SenderSound'
    BY <1>1, <1>2, <1>3, <2>1, <2>2, <2>3
       DEF BroadcastTypeOK, SenderSound, Announcing, Allocation
  <2>5. ASSUME ~overtaken, NEW r \in Receivers PROVE KeepsUp(r)'
    <3> SUFFICES ASSUME Active(r) PROVE Complete(r)' /\ InStep(r)' /\ ClonesNext(r)'
      BY <1>3 DEF KeepsUp, Active, At
    <3>1. Complete(r) /\ InStep(r) /\ ClonesNext(r) /\ shared.generation # Closed
      BY <1>1, <2>2, <2>5, ClosedIsLast DEF BroadcastInv, KeepsUp
    <3>2. rcv[r].seen = shared.generation /\ ~Cloning(r)
      BY <1>1, <2>1, <3>1, ClosedIsLast DEF InStep, ClonesNext, Announcing
    <3> QED
      BY <1>1, <1>3, <2>3, <3>1, <3>2, ClosedIsLast
         DEF Complete, InStep, ClonesNext, Cloning, At
  <2> QED
    BY <1>3, <2>1, <2>4, <2>5 DEF BroadcastInv
<1>6. CASE SendBump
  <2>1. /\ sender = "bump" /\ sender' = "wake" /\ overtaken' = overtaken
        /\ shared' = [shared EXCEPT !.generation = @ + 1]
    BY <1>6 DEF SendBump
  <2>2. shared.generation < MaxSends /\ shared.value = shared.generation + 1
    BY <1>2, <2>1 DEF SenderSound, Announcing
  <2>3. /\ shared' \in Allocation /\ shared'.generation = shared.generation + 1
        /\ shared'.value = shared.generation + 1
    BY <1>1, <2>1, <2>2, ClosedIsLast DEF Allocation
  <2>4. BroadcastTypeOK' /\ SenderSound'
    BY <1>1, <1>2, <1>3, <2>1, <2>2, <2>3, ClosedIsLast
       DEF BroadcastTypeOK, SenderSound, Announcing, Allocation
  <2>5. ASSUME ~overtaken, NEW r \in Receivers PROVE KeepsUp(r)'
    <3> SUFFICES ASSUME Active(r) PROVE Complete(r)' /\ InStep(r)' /\ ClonesNext(r)'
      BY <1>3 DEF KeepsUp, Active, At
    <3>1. Complete(r) /\ InStep(r) /\ ClonesNext(r) /\ shared.generation # Closed
      BY <1>1, <2>2, <2>5, ClosedIsLast DEF BroadcastInv, KeepsUp
    <3>2. rcv[r].seen = shared.generation /\ ~Cloning(r)
      BY <1>1, <2>1, <3>1, ClosedIsLast DEF InStep, ClonesNext, Announcing
    <3>3. shared'.generation # Closed /\ rcv'[r].seen = shared'.generation - 1
      BY <1>1, <1>3, <2>2, <2>3, <3>2, ClosedIsLast
    <3>4. InStep(r)'
      BY <1>1, <2>1, <2>3, <3>3 DEF InStep, Announcing
    <3> QED
      BY <1>3, <3>1, <3>2, <3>4 DEF Complete, ClonesNext, Cloning, At
  <2> QED
    BY <1>3, <2>1, <2>4, <2>5 DEF BroadcastInv
<1>7. CASE SenderDrop
  <2>1. /\ sender = "idle" /\ sender' = "closewake" /\ Overtake
        /\ shared' = [shared EXCEPT !.generation = Closed]
    BY <1>7 DEF SenderDrop
  <2>2. /\ shared' \in Allocation /\ shared'.generation = Closed
        /\ shared'.value = shared.value
    BY <1>1, <2>1, ClosedIsLast DEF Allocation
  <2>3. BroadcastTypeOK' /\ SenderSound'
    BY <1>1, <1>3, <1>9, <2>1, <2>2 DEF BroadcastTypeOK, SenderSound, Announcing, Allocation
  <2>4. shared.generation # Closed /\ shared.value = shared.generation
    BY <1>2, <2>1 DEF SenderSound, Announcing
  <2>5. ASSUME ~overtaken', NEW r \in Receivers PROVE KeepsUp(r)'
    <3> SUFFICES ASSUME Active(r) PROVE Complete(r)' /\ InStep(r)' /\ ClonesNext(r)'
      BY <1>3 DEF KeepsUp, Active, At
    <3>1. /\ Complete(r) /\ InStep(r) /\ ClonesNext(r) /\ ~News(r)
      BY <1>9, <2>1, <2>5 DEF BroadcastInv, KeepsUp
    <3>2. rcv[r].seen \in Int /\ ~(shared.generation > rcv[r].seen)
      BY <3>1, TypesOf DEF BroadcastInv, News
    <3>3. rcv[r].seen = shared.value /\ ~Cloning(r)
      BY <1>1, <2>4, <3>1, <3>2, ClosedIsLast DEF InStep, ClonesNext
    <3> QED
      BY <1>3, <2>2, <3>1, <3>3 DEF Complete, InStep, ClonesNext, Cloning, At
  <2> QED
    BY <1>3, <2>3, <2>5 DEF BroadcastInv
<1>8. CASE SenderRelease
  <2>1. /\ sender = "release" /\ sender' = "gone" /\ overtaken' = overtaken
        /\ shared' \in Allocation /\ shared'.generation = shared.generation
        /\ shared'.value = shared.value /\ shared.generation = Closed
    BY <1>1, <1>2, <1>8, ReleaseFields DEF SenderRelease, SenderSound
  <2>2. BroadcastTypeOK' /\ SenderSound'
    BY <1>1, <1>3, <2>1 DEF BroadcastTypeOK, SenderSound, Announcing, Allocation
  <2>3. ASSUME ~overtaken, NEW r \in Receivers PROVE KeepsUp(r)'
    BY <1>3, <2>1, <2>3 DEF BroadcastInv, KeepsUp, Active, Complete, InStep, ClonesNext,
                            Cloning, At
  <2> QED
    BY <1>3, <2>1, <2>2, <2>3 DEF BroadcastInv
<1> QED
  BY <1>4, <1>5, <1>6, <1>7, <1>8

\* Waking changes nothing but the flags of the woken receivers.
LEMMA WakeAllKeeps ==
  ASSUME BroadcastInv, WakeAll
  PROVE  BroadcastInv'
<1>1. /\ shared \in Allocation /\ rcv \in [Receivers -> Receiver]
      /\ sender \in {"wake", "closewake"}
      /\ sender' = IF sender = "wake" THEN "idle" ELSE "release"
      /\ shared' = [shared EXCEPT !.waiters = {}] /\ overtaken' = overtaken
      /\ rcv' = [r \in Receivers |->
                   IF r \in shared.waiters
                   THEN [rcv[r] EXCEPT !.woken = TRUE, !.stale = ~News(r)] ELSE rcv[r]]
  BY DEF BroadcastInv, BroadcastTypeOK, Allocation, WakeAll
<1>2. /\ shared' \in Allocation /\ shared'.generation = shared.generation
      /\ shared'.value = shared.value
  BY <1>1 DEF Allocation
<1>3. ASSUME NEW r \in Receivers
      PROVE  /\ rcv'[r] \in Receiver
             /\ rcv'[r].pc = rcv[r].pc /\ rcv'[r].seen = rcv[r].seen
             /\ rcv'[r].gen = rcv[r].gen
             /\ rcv'[r].first = rcv[r].first /\ rcv'[r].got = rcv[r].got
  <2>1. rcv[r] \in Receiver
    BY <1>1
  <2>2. PICK n \in BOOLEAN : n = ~News(r)
    BY Zenon
  <2>3. rcv'[r] = IF r \in shared.waiters
                  THEN [rcv[r] EXCEPT !.woken = TRUE, !.stale = n] ELSE rcv[r]
    BY <1>1, <2>2, Zenon
  <2> QED
    BY <2>1, <2>3 DEF Receiver
<1>4. BroadcastTypeOK'
  <2>1. rcv' \in [Receivers -> Receiver]
    BY <1>1, <1>3
  <2> QED
    BY <1>1, <1>2, <2>1 DEF BroadcastInv, BroadcastTypeOK, Allocation
<1>5. SenderSound'
  BY <1>1, <1>2 DEF BroadcastInv, SenderSound, Announcing
<1>6. ASSUME NEW r \in Receivers PROVE Fresh(r)' /\ (~overtaken => KeepsUp(r)')
  BY <1>1, <1>2, <1>3, OtherStays DEF Announcing
<1> QED
  BY <1>1, <1>4, <1>5, <1>6 DEF BroadcastInv

LEMMA BroadcastStep == BroadcastInv /\ [BroadcastNext]_broadcastVars => BroadcastInv'
<1> SUFFICES ASSUME BroadcastInv, [BroadcastNext]_broadcastVars PROVE BroadcastInv'
  OBVIOUS
<1>1. CASE UNCHANGED broadcastVars
  BY <1>1 DEF broadcastVars, BroadcastInv, BroadcastTypeOK, SenderSound, Fresh, KeepsUp,
              Active, Complete, InStep, Announcing, ClonesNext, Cloning, At
<1>2. CASE SenderStep
  BY <1>2, SenderKeeps, WakeAllKeeps DEF SenderStep
<1>3. ASSUME NEW r \in Receivers, PollStep(r) PROVE BroadcastInv'
  <2>1. CASE PollLoad(r)
    BY <2>1, LookKeeps DEF PollLoad, Active, At
  <2>2. CASE Recheck(r)
    BY <2>2, LookKeeps DEF Recheck, Active, At
  <2>3. CASE RemoveNode(r)
    <3>1. Active(r) /\ At(r, "remove")
      BY <2>3 DEF RemoveNode, Active, At
    <3>2. CASE rcv[r].gen = Closed
      BY <2>3, <3>1, <3>2, UnlinkKeeps DEF RemoveNode
    <3>3. CASE rcv[r].gen # Closed
      BY <2>3, <3>1, <3>3, UnlinkKeeps DEF RemoveNode, Cloning
    <3> QED
      BY <3>2, <3>3
  <2>4. CASE FutureDrop(r)
    BY <2>4, UnlinkKeeps DEF FutureDrop, Active, At
  <2> QED
    BY <1>3, <2>1, <2>2, <2>3, <2>4, ParkKeeps, CloneKeeps DEF PollStep
<1>4. ASSUME NEW r \in Receivers, ReceiverDrop(r) \/ Recv(r) \/ Repoll(r) \/ Cancel(r)
      PROVE  BroadcastInv'
  <2>1. shared \in Allocation /\ rcv \in [Receivers -> Receiver] /\ rcv[r] \in Receiver
    BY TypesOf DEF BroadcastInv, BroadcastTypeOK
  <2>2. CASE ReceiverDrop(r)
    BY <2>1, <2>2, ReleaseFields, GoKeeps DEF ReceiverDrop, Active, At
  <2>3. CASE Recv(r)
    BY <2>1, <2>3, GoKeeps DEF Recv, Active, At
  <2>4. CASE Cancel(r)
    BY <2>1, <2>4, GoKeeps DEF Cancel, Active, At
  <2>5. CASE Repoll(r)
    <3>1. /\ rcv' \in [Receivers -> Receiver]
          /\ \A u \in Receivers : u # r => rcv'[u] = rcv[u]
          /\ rcv'[r].seen = rcv[r].seen /\ rcv'[r].first = rcv[r].first
          /\ rcv'[r].got = rcv[r].got /\ rcv'[r].pc = "load"
      BY <2>1, <2>5 DEF Repoll, Receiver
    <3> QED
      BY <2>1, <2>5, <3>1, MoveKeeps DEF Repoll, Active, At
  <2> QED
    BY <1>4, <2>2, <2>3, <2>4, <2>5
<1>5. CASE Choice
  BY <1>4, <1>5, SenderKeeps, SubscribeKeeps, SubscribeLoadKeeps DEF Choice
<1> QED
  BY <1>1, <1>2, <1>3, <1>5 DEF BroadcastNext

\* The allocation, the sender and the receivers keep their types.
THEOREM BroadcastTypeCorrect == BroadcastSpec => []BroadcastTypeOK
<1>1. BroadcastInv => BroadcastTypeOK
  BY DEF BroadcastInv
<1> QED
  BY <1>1, BroadcastInitInv, BroadcastStep, PTL DEF BroadcastSpec

\* broadcast.rs:4-5: until a send or the sender's drop overtakes a receiver, each has
\* every value since its subscription once, in order and whole, but perhaps the last
\* one, which then is still announced and in place.
THEOREM EveryValueReceived == BroadcastSpec => []EveryValueUntilOvertaken
<1>1. BroadcastInv => EveryValueUntilOvertaken
  <2> SUFFICES ASSUME BroadcastInv, ~overtaken, NEW r \in Receivers, Active(r)
               PROVE  /\ Complete(r)
                      /\ rcv[r].seen < Announced =>
                           /\ rcv[r].seen + 1 = Announced
                           /\ shared.generation = Announced /\ shared.value = Announced
    BY DEF EveryValueUntilOvertaken, Complete
  <2>1. Complete(r) /\ InStep(r) /\ SenderSound
    BY DEF BroadcastInv, KeepsUp
  <2>2. /\ rcv[r].seen \in Int /\ shared.generation \in Int
        /\ shared.value \in Int /\ shared.value <= Closed
    BY TypesOf, ClosedIsLast DEF BroadcastInv, BroadcastTypeOK
  <2>3. CASE shared.generation = Closed
    BY <2>1, <2>2, <2>3, ClosedIsLast DEF Complete, InStep, Announced
  <2>4. CASE shared.generation # Closed
    BY <2>1, <2>2, <2>4 DEF InStep, SenderSound, Announced
  <2> QED
    BY <2>1, <2>3, <2>4
<1> QED
  BY <1>1, BroadcastInitInv, BroadcastStep, PTL DEF BroadcastSpec

-----------------------------------------------------------------------------
\* The holders are finitely many.
LEMMA HoldersFinite == IsFiniteSet(Receivers) => IsFiniteSet(Holders)
<1> SUFFICES ASSUME IsFiniteSet(Receivers) PROVE IsFiniteSet(Holders)
  OBVIOUS
<1> DEFINE S == (Receivers \cup {"sender"}) \X ({0} \cup {1})
<1>1. IsFiniteSet({"sender"}) /\ IsFiniteSet({0}) /\ IsFiniteSet({1})
  BY FS_Singleton
<1>2. IsFiniteSet(Receivers \cup {"sender"}) /\ IsFiniteSet({0} \cup {1})
  BY <1>1, FS_Union
<1>3. IsFiniteSet(S)
  BY <1>2, FS_Product
<1>4. Holders \subseteq S
  BY DEF Holders
<1> QED
  BY <1>3, <1>4, FS_Subset

CountedInv == BroadcastInv /\ IsFiniteSet(Receivers) /\ Counted

\* Nobody comes or goes.
LEMMA CountStays ==
  ASSUME Counted, Holders' = Holders, shared'.refcount = shared.refcount,
         shared'.freed = shared.freed
  PROVE  Counted'
  BY Zenon DEF Counted

\* A holder that goes gives up the reference that is counted for it.
LEMMA HolderLeaves ==
  ASSUME CountedInv, ~shared.freed, Release, NEW x \in Holders, Holders' = Holders \ {x}
  PROVE  Counted'
<1>1. IsFiniteSet(Holders) /\ shared \in Allocation
  BY HoldersFinite, TypesOf DEF CountedInv, BroadcastInv, BroadcastTypeOK, Allocation
<1> PICK n \in Nat : n = Cardinality(Holders)
  BY <1>1, FS_CardinalityType
<1>2. Cardinality(Holders \ {x}) = n - 1
  BY <1>1, FS_RemoveElement
<1>3. Cardinality(Holders') = n - 1
  BY <1>2
<1>4. /\ shared.refcount = n - 1 /\ shared.refcount # 0 /\ shared.refcount >= 0
      /\ shared.refcount \in Int
  BY <1>1 DEF CountedInv, Counted, Allocation
<1>5. shared'.refcount = shared.refcount - 1 /\ (shared'.freed <=> shared.refcount = 1)
  BY <1>1, ReleaseFields
<1>6. shared'.refcount = Cardinality(Holders') - 1 /\ shared'.refcount >= 0
  BY <1>3, <1>4, <1>5
<1>7. shared'.freed <=> shared'.refcount = 0
  <2>1. shared.refcount = 1 <=> shared'.refcount = 0
    BY <1>4, <1>5
  <2> QED
    BY <1>5, <2>1, Zenon
<1> QED
  BY <1>6, <1>7, Zenon DEF Counted

\* subscribe() counts the receiver it is about to make.
LEMMA HolderComes ==
  ASSUME CountedInv, NEW x, x \notin Holders, Holders' = Holders \cup {x},
         shared'.refcount = shared.refcount + 1, shared'.freed = shared.freed,
         ~shared.freed
  PROVE  Counted'
<1>1. IsFiniteSet(Holders) /\ shared.refcount \in Int
  BY HoldersFinite DEF CountedInv, BroadcastInv, BroadcastTypeOK
<1> PICK n \in Nat : n = Cardinality(Holders)
  BY <1>1, FS_CardinalityType
<1>2. Cardinality(Holders \cup {x}) = n + 1
  BY <1>1, FS_AddElement
<1>3. Cardinality(Holders') = n + 1
  BY <1>2
<1>4. shared.refcount = n - 1 /\ shared.refcount >= 0
  BY DEF CountedInv, Counted
<1>5. /\ shared'.refcount = Cardinality(Holders') - 1 /\ shared'.refcount >= 0
      /\ shared'.refcount # 0
  BY <1>1, <1>3, <1>4
<1>6. ~shared'.freed
  BY Zenon
<1> QED
  BY <1>5, <1>6, Zenon DEF Counted

\* Members: holders among the receivers.
Members == {r \in Receivers : ~At(r, "none") /\ ~At(r, "dropped")}

LEMMA MembersHold ==
  ASSUME sender' = "gone" <=> sender = "gone"
  PROVE  /\ Members' = Members => Holders' = Holders
         /\ \A r \in Members : Members' = Members \ {r} =>
              <<r, 1>> \in Holders /\ Holders' = Holders \ {<<r, 1>>}
         /\ \A r \in Receivers : r \notin Members /\ Members' = Members \cup {r} =>
              <<r, 1>> \notin Holders /\ Holders' = Holders \cup {<<r, 1>>}
<1> DEFINE E == (IF sender = "gone" THEN {} ELSE {"sender"}) \X {0}
<1>1. Holders = E \cup Members \X {1}
  BY DEF Holders, Members
<1>2. Holders' = E \cup Members' \X {1}
  BY DEF Holders, Members
<1>3. \A x \in E : x[2] = 0
  OBVIOUS
<1>4. \A r : <<r, 1>> \notin E
  BY <1>3
<1> HIDE DEF E
<1>5. /\ Members' = Members => Holders' = Holders
  BY <1>1, <1>2
<1>6. \A r \in Members : Members' = Members \ {r} =>
              <<r, 1>> \in Holders /\ Holders' = Holders \ {<<r, 1>>}
  <2> SUFFICES ASSUME NEW r \in Members, Members' = Members \ {r}
               PROVE  <<r, 1>> \in Holders /\ Holders' = Holders \ {<<r, 1>>}
    OBVIOUS
  <2>1. (Members \ {r}) \X {1} = (Members \X {1}) \ {<<r, 1>>}
    OBVIOUS
  <2> QED
    BY <1>1, <1>2, <1>4, <2>1
<1>7. \A r \in Receivers : r \notin Members /\ Members' = Members \cup {r} =>
              <<r, 1>> \notin Holders /\ Holders' = Holders \cup {<<r, 1>>}
  <2> SUFFICES ASSUME NEW r \in Receivers, r \notin Members, Members' = Members \cup {r}
               PROVE  <<r, 1>> \notin Holders /\ Holders' = Holders \cup {<<r, 1>>}
    OBVIOUS
  <2>1. /\ (Members \cup {r}) \X {1} = (Members \X {1}) \cup {<<r, 1>>}
        /\ <<r, 1>> \notin Members \X {1}
    OBVIOUS
  <2> QED
    BY <1>1, <1>2, <1>4, <2>1
<1> QED
  BY <1>5, <1>6, <1>7

\* A step of one receiver that neither joins nor leaves.
LEMMA MemberStays ==
  ASSUME BroadcastTypeOK, BroadcastTypeOK', NEW r \in Receivers,
         \A u \in Receivers : u # r => rcv'[u].pc = rcv[u].pc,
         r \in Members, rcv'[r].pc \notin {"none", "dropped"}
  PROVE  Members' = Members
  BY DEF Members, At

LEMMA PollCounts ==
  ASSUME CountedInv, BroadcastTypeOK', NEW r \in Receivers,
         PollStep(r) \/ Recv(r) \/ Repoll(r) \/ Cancel(r)
  PROVE  Counted'
<1>1. /\ BroadcastTypeOK /\ Counted /\ rcv \in [Receivers -> Receiver]
      /\ rcv[r] \in Receiver /\ shared \in Allocation
  BY TypesOf DEF CountedInv, BroadcastInv, BroadcastTypeOK
<1>2. /\ shared'.refcount = shared.refcount /\ shared'.freed = shared.freed
      /\ sender' = sender
  BY <1>1 DEF PollStep, PollLoad, Park, Recheck, RemoveNode, Clone, FutureDrop, Recv, Repoll,
              Cancel, Look, Unlink, Go, Allocation
<1>3. rcv[r].pc \notin {"none", "dropped"} /\ r \in Members
  BY DEF PollStep, PollLoad, Park, Recheck, RemoveNode, Clone, FutureDrop, Recv, Repoll,
         Cancel, At, Members
<1>4. /\ \A u \in Receivers : u # r => rcv'[u].pc = rcv[u].pc
      /\ rcv'[r].pc \notin {"none", "dropped"}
  <2>1. CASE PollLoad(r) \/ Recheck(r)
    <3>1. PICK l : /\ rcv' = [rcv EXCEPT ![r].gen = shared.generation, ![r].pc = l]
                   /\ l \in {"futuredrop", "clone", "park", "remove", "pending"}
      BY <2>1 DEF PollLoad, Recheck, Look
    <3> QED
      BY <1>1, <3>1 DEF Receiver
  <2>2. CASE RemoveNode(r) \/ FutureDrop(r)
    <3>1. PICK l \in {"futuredrop", "clone", "idle"} : Unlink(r, l)
      BY <2>2 DEF RemoveNode, FutureDrop
    <3> QED
      BY <1>1, <3>1 DEF Unlink, Receiver
  <2>3. CASE Park(r)
    BY <1>1, <2>3 DEF Park, Receiver
  <2>4. CASE Clone(r)
    BY <1>1, <2>4 DEF Clone, Receiver
  <2>5. CASE Recv(r) \/ Cancel(r)
    BY <1>1, <2>5 DEF Recv, Cancel, Go, Receiver
  <2>6. CASE Repoll(r)
    BY <1>1, <2>6 DEF Repoll, Receiver
  <2> QED
    BY <2>1, <2>2, <2>3, <2>4, <2>5, <2>6 DEF PollStep
<1>5. Members' = Members
  BY <1>1, <1>3, <1>4, MemberStays
<1>6. Holders' = Holders
  BY <1>2, <1>5, MembersHold
<1> QED
  BY <1>1, <1>2, <1>6, CountStays

LEMMA SenderCounts ==
  ASSUME CountedInv,
         SendBegin \/ SenderDrop \/ SenderStep
  PROVE  Counted'
<1>1. Counted /\ shared \in Allocation /\ rcv \in [Receivers -> Receiver]
  BY DEF CountedInv, BroadcastInv, BroadcastTypeOK, Allocation
<1>2. CASE SendBegin \/ SenderDrop \/ SendWrite \/ SendBump \/ WakeAll
  <2>1. /\ shared'.refcount = shared.refcount /\ shared'.freed = shared.freed
        /\ sender' # "gone" /\ sender # "gone"
    BY <1>1, <1>2 DEF SendBegin, SenderDrop, SendWrite, SendBump, WakeAll, Allocation
  <2>2. \A u \in Receivers : rcv'[u].pc = rcv[u].pc
    <3>1. CASE WakeAll
      BY <1>1, <3>1 DEF WakeAll, Receiver
    <3> QED
      BY <1>2, <3>1 DEF SendBegin, SenderDrop, SendWrite, SendBump
  <2>3. Members' = Members
    BY <2>2 DEF Members, At
  <2> QED
    BY <1>1, <2>1, <2>3, MembersHold, CountStays
<1>3. CASE SenderRelease /\ ~shared.freed
  <2>1. sender = "release" /\ sender' = "gone" /\ rcv' = rcv /\ Release
    BY <1>3 DEF SenderRelease
  <2> DEFINE M == {r \in Receivers : ~At(r, "none") /\ ~At(r, "dropped")} \X {1}
  <2>2. Holders = {"sender"} \X {0} \cup M
    BY <2>1 DEF Holders
  <2>3. Holders' = {} \X {0} \cup M
    BY <2>1 DEF Holders, At
  <2>4. <<"sender", 0>> \notin M
    OBVIOUS
  <2> HIDE DEF M
  <2>5. /\ <<"sender", 0>> \in Holders
        /\ Holders' = Holders \ {<<"sender", 0>>}
    BY <2>2, <2>3, <2>4
  <2> QED
    BY <1>3, <2>1, <2>5, HolderLeaves
<1> QED
  BY <1>2, <1>3 DEF SenderStep

LEMMA ChoiceCounts ==
  ASSUME CountedInv, ~shared.freed, NEW q \in Receivers, NEW r \in Receivers,
         ReceiverDrop(r) \/ Subscribe(q, r) \/ SubscribeLoad(q, r)
  PROVE  Counted'
<1>1. /\ Counted /\ shared \in Allocation /\ rcv \in [Receivers -> Receiver]
      /\ rcv[q] \in Receiver /\ rcv[r] \in Receiver
  BY TypesOf DEF CountedInv, BroadcastInv, BroadcastTypeOK
<1>2. CASE ReceiverDrop(r)
  <2>1. /\ rcv[r].pc = "idle" /\ rcv'[r].pc = "dropped" /\ Release /\ sender' = sender
        /\ \A u \in Receivers : u # r => rcv'[u].pc = rcv[u].pc
    BY <1>1, <1>2 DEF ReceiverDrop, Go, At, Receiver
  <2>2. r \in Members /\ Members' = Members \ {r}
    BY <2>1 DEF Members, At
  <2>3. <<r, 1>> \in Holders /\ Holders' = Holders \ {<<r, 1>>}
    BY <2>1, <2>2, MembersHold
  <2> QED
    BY <2>1, <2>3, HolderLeaves
<1>3. CASE Subscribe(q, r)
  <2>1. /\ rcv[r].pc = "none" /\ rcv[q].pc = "idle" /\ q # r
        /\ rcv' = [rcv EXCEPT ![q].pc = "subscribe", ![r].pc = "counted"]
        /\ sender' = sender
    BY <1>3 DEF Subscribe, At
  <2>2. /\ rcv'[r].pc = "counted" /\ rcv'[q].pc = "subscribe"
        /\ \A u \in Receivers : u # r /\ u # q => rcv'[u].pc = rcv[u].pc
    BY <1>1, <2>1 DEF Receiver
  <2>3. r \notin Members /\ Members' = Members \cup {r}
    BY <2>1, <2>2 DEF Members, At
  <2>4. <<r, 1>> \notin Holders /\ Holders' = Holders \cup {<<r, 1>>}
    BY <2>1, <2>3, MembersHold
  <2>5. shared'.refcount = shared.refcount + 1 /\ shared'.freed = shared.freed
    BY <1>1, <1>3 DEF Subscribe, Allocation
  <2> QED
    BY <2>4, <2>5, HolderComes
<1>4. CASE SubscribeLoad(q, r)
  <2>1. /\ rcv[r].pc = "counted" /\ rcv[q].pc = "subscribe" /\ q # r
        /\ rcv' = [rcv EXCEPT ![q].pc = "idle", ![r].pc = "idle",
                              ![r].seen = shared.generation, ![r].first = shared.generation]
        /\ sender' = sender /\ shared' = shared
    BY <1>4 DEF SubscribeLoad, At
  <2>2. /\ rcv'[r].pc = "idle" /\ rcv'[q].pc = "idle"
        /\ \A u \in Receivers : u # r /\ u # q => rcv'[u].pc = rcv[u].pc
    BY <1>1, <2>1 DEF Receiver
  <2>3. Members' = Members
    BY <2>1, <2>2 DEF Members, At
  <2> QED
    BY <1>1, <2>1, <2>3, MembersHold, CountStays
<1> QED
  BY <1>2, <1>3, <1>4

LEMMA CountedStep == CountedInv /\ [BroadcastNext]_broadcastVars => CountedInv'
<1> SUFFICES ASSUME CountedInv, [BroadcastNext]_broadcastVars PROVE CountedInv'
  OBVIOUS
<1>1. BroadcastInv' /\ BroadcastTypeOK'
  BY BroadcastStep DEF CountedInv, BroadcastInv
<1>2. CASE UNCHANGED broadcastVars
  BY <1>1, <1>2 DEF broadcastVars, CountedInv, Counted, Holders, At
<1>3. CASE BroadcastNext
  BY <1>1, <1>3, PollCounts, SenderCounts, ChoiceCounts
     DEF BroadcastNext, Choice, CountedInv
<1> QED
  BY <1>2, <1>3

LEMMA CountedInitInv == BroadcastInit /\ IsFiniteSet(Receivers) => CountedInv
<1> SUFFICES ASSUME BroadcastInit, IsFiniteSet(Receivers) PROVE Counted
  BY BroadcastInitInv DEF CountedInv
<1>1. First \in Receivers
  BY BroadcastAssumption
<1>2. {r \in Receivers : ~At(r, "none") /\ ~At(r, "dropped")} = {First}
  BY <1>1 DEF BroadcastInit, At, NewReceiver
<1>3. Holders = {<<"sender", 0>>} \cup {<<First, 1>>}
  BY <1>2 DEF BroadcastInit, Holders
<1>4. IsFiniteSet({<<"sender", 0>>}) /\ Cardinality({<<"sender", 0>>}) = 1
  BY FS_Singleton
<1>5. Cardinality(Holders) = 2
  <2> DEFINE S == {<<"sender", 0>>}
             y == <<First, 1>>
  <2>1. y \notin S
    OBVIOUS
  <2>2. IsFiniteSet(S) /\ Cardinality(S) = 1 /\ Holders = S \cup {y}
    BY <1>3, <1>4
  <2> HIDE DEF S, y
  <2>3. Cardinality(S \cup {y}) = Cardinality(S) + 1
    BY <2>1, <2>2, FS_AddElement
  <2> QED
    BY <2>2, <2>3
<1> QED
  BY <1>5 DEF BroadcastInit, Counted

\* broadcast.rs:116, 132-141: over any order of subscriptions and drops the
\* allocation goes only when at most one holder is left.
THEOREM AliveForAllOthers ==
  BroadcastSpec /\ IsFiniteSet(Receivers) => []AliveForAllButOne
<1>1. CountedInv => AliveForAllButOne
  <2> SUFFICES ASSUME CountedInv, shared.freed PROVE Cardinality(Holders) <= 1
    BY DEF AliveForAllButOne
  <2>1. IsFiniteSet(Holders)
    BY HoldersFinite DEF CountedInv
  <2>2. Cardinality(Holders) \in Nat
    BY <2>1, FS_CardinalityType
  <2>3. shared.refcount = 0 /\ shared.refcount = Cardinality(Holders) - 1
    BY DEF CountedInv, Counted
  <2> QED
    BY <2>2, <2>3
<1> QED
  BY <1>1, CountedInitInv, CountedStep, PTL DEF BroadcastSpec
=============================================================================

------------------------------ MODULE SpscRing ------------------------------
(***************************************************************************)
(* The single-producer single-consumer message ring of ipc/ring_buffer.rs. *)
(* Producer and consumer run concurrently; each atomic access is a step.   *)
(* A message is its ordinal: the n-th message accepted is the number n.    *)
(***************************************************************************)
EXTENDS Integers

CONSTANTS
  Capacity,   \* a power of 2
  Positions,  \* number of values of head and tail, 2^64 in the source
  MaxSends    \* bound on the messages sent

\* A power-of-2 capacity divides the range of usize, and Layout::array rejects
\* a slot array as large as the address space.
ASSUME SpscRingAssumption ==
  /\ Capacity \in Nat \ {0} /\ Positions \in Nat /\ MaxSends \in Nat
  /\ Capacity < Positions /\ Positions % Capacity = 0

VARIABLES
  head,    \* next write position
  tail,    \* next read position
  slots,   \* occupied flag and message of every slot; 0 is None
  pc,      \* where the two ends are
  pos,     \* the position each end works on
  out,     \* the message try_recv() took out, None otherwise
  sent,    \* history: completed sends
  rcvd,    \* history: completed receives
  phase    \* "live", "draining" (in drop()) or "freed"

vars == <<head, tail, slots, pc, pos, out, sent, rcvd, phase>>

Producer == "producer"
Consumer == "consumer"
Ends == {Producer, Consumer}
None == 0
Idx(p) == p % Capacity      \* p & (capacity - 1)
Indices == 0 .. Capacity - 1
Position == 0 .. Positions - 1
Used(h, t) == (h - t) % Positions

Init ==
  /\ head = 0 /\ tail = 0
  /\ slots = [i \in Indices |-> [occupied |-> 0, message |-> None]]
  /\ pc = [e \in Ends |-> "idle"]
  /\ pos = [e \in Ends |-> 0]
  /\ out = None
  /\ sent = 0 /\ rcvd = 0
  /\ phase = "live"

Goto(e, l) == pc' = [pc EXCEPT ![e] = l]

-----------------------------------------------------------------------------
(* try_send() *)

SendLoadHead ==
  /\ pc[Producer] = "idle" /\ phase = "live" /\ sent < MaxSends
  /\ pos' = [pos EXCEPT ![Producer] = head]
  /\ Goto(Producer, "tail")
  /\ UNCHANGED <<head, tail, slots, out, sent, rcvd, phase>>

\* Mutant: one slot too many.
AvailableOneMore(h, t) == Capacity + 1 - Used(h, t)

Available(h, t) == Capacity - Used(h, t)

\* Err(Full) when nothing is available.
SendLoadTail ==
  /\ pc[Producer] = "tail"
  /\ Goto(Producer, IF Available(pos[Producer], tail) = 0 THEN "idle" ELSE "write")
  /\ UNCHANGED <<head, tail, slots, pos, out, sent, rcvd, phase>>

SendWrite ==
  /\ pc[Producer] = "write"
  /\ slots' = [slots EXCEPT ![Idx(pos[Producer])].message = sent + 1]
  /\ Goto(Producer, "mark")
  /\ UNCHANGED <<head, tail, pos, out, sent, rcvd, phase>>

\* Mutant: the head is published before the slot is marked.
SendMarkLate ==
  /\ pc[Producer] = "mark"
  /\ head' = (pos[Producer] + 1) % Positions
  /\ sent' = sent + 1
  /\ Goto(Producer, "publish")
  /\ UNCHANGED <<tail, slots, pos, out, rcvd, phase>>

SendMark ==
  /\ pc[Producer] = "mark"
  /\ slots' = [slots EXCEPT ![Idx(pos[Producer])].occupied = 1]
  /\ Goto(Producer, "publish")
  /\ UNCHANGED <<head, tail, pos, out, sent, rcvd, phase>>

SendPublish ==
  /\ pc[Producer] = "publish"
  /\ head' = (pos[Producer] + 1) % Positions
  /\ sent' = sent + 1
  /\ Goto(Producer, "idle")
  /\ UNCHANGED <<tail, slots, pos, out, rcvd, phase>>

-----------------------------------------------------------------------------
(* try_recv(); drop() calls it until it returns None *)

RecvLoadTail ==
  /\ pc[Consumer] = "idle" /\ phase # "freed"
  /\ pos' = [pos EXCEPT ![Consumer] = tail]
  /\ Goto(Consumer, "head")
  /\ UNCHANGED <<head, tail, slots, out, sent, rcvd, phase>>

\* None when the ring is empty; drop() then frees the slots.
RecvLoadHead ==
  /\ pc[Consumer] = "head"
  /\ Goto(Consumer, IF pos[Consumer] = head THEN "idle" ELSE "spin")
  /\ phase' = IF phase = "draining" /\ pos[Consumer] = head
              THEN "freed" ELSE phase
  /\ UNCHANGED <<head, tail, slots, pos, out, sent, rcvd>>

RecvSpin ==
  /\ pc[Consumer] = "spin" /\ slots[Idx(pos[Consumer])].occupied # 0
  /\ Goto(Consumer, "take")
  /\ UNCHANGED <<head, tail, slots, pos, out, sent, rcvd, phase>>

RecvTake ==
  /\ pc[Consumer] = "take"
  /\ out' = slots[Idx(pos[Consumer])].message
  /\ slots' = [slots EXCEPT ![Idx(pos[Consumer])].message = None]
  /\ Goto(Consumer, "unmark")
  /\ UNCHANGED <<head, tail, pos, sent, rcvd, phase>>

RecvUnmark ==
  /\ pc[Consumer] = "unmark"
  /\ slots' = [slots EXCEPT ![Idx(pos[Consumer])].occupied = 0]
  /\ Goto(Consumer, "publish")
  /\ UNCHANGED <<head, tail, pos, out, sent, rcvd, phase>>

RecvPublish ==
  /\ pc[Consumer] = "publish"
  /\ tail' = (pos[Consumer] + 1) % Positions
  /\ rcvd' = rcvd + 1
  /\ out' = None
  /\ Goto(Consumer, "idle")
  /\ UNCHANGED <<head, slots, pos, sent, phase>>

-----------------------------------------------------------------------------
(* len() and is_empty(), called by one of the two ends *)

LenLoadHead(e) ==
  /\ pc[e] = "idle" /\ phase = "live"
  /\ pos' = [pos EXCEPT ![e] = head]
  /\ Goto(e, "len")
  /\ UNCHANGED <<head, tail, slots, out, sent, rcvd, phase>>

LenLoadTail(e) ==
  /\ pc[e] = "len"
  /\ Goto(e, "idle")
  /\ UNCHANGED <<head, tail, slots, pos, out, sent, rcvd, phase>>

\* drop() has exclusive access: both ends are done.
Drop ==
  /\ phase = "live" /\ \A e \in Ends : pc[e] = "idle"
  /\ phase' = "draining"
  /\ UNCHANGED <<head, tail, slots, pc, pos, out, sent, rcvd>>

-----------------------------------------------------------------------------
Send == SendLoadHead \/ SendLoadTail \/ SendWrite \/ SendMark \/ SendPublish

Recv ==
  \/ RecvLoadTail \/ RecvLoadHead \/ RecvSpin \/ RecvTake \/ RecvUnmark
  \/ RecvPublish

Length(e) == LenLoadHead(e) \/ LenLoadTail(e)

Next == Send \/ Recv \/ (\E e \in Ends : Length(e)) \/ Drop

Spec == Init /\ [][Next]_vars

-----------------------------------------------------------------------------
(* Properties *)

\* Positions keep their width and slots hold messages.
TypeOK ==
  /\ head \in Position /\ tail \in Position
  /\ slots \in [Indices -> [occupied : {0, 1}, message : Nat]]
  /\ pc \in [Ends -> {"idle", "tail", "write", "mark", "publish", "head",
                      "spin", "take", "unmark", "len"}]
  /\ pc[Producer] \in {"idle", "tail", "write", "mark", "publish", "len"}
  /\ pc[Consumer] \in {"idle", "head", "spin", "take", "unmark", "publish", "len"}
  /\ pos \in [Ends -> Position]
  /\ out \in Nat
  /\ sent \in Nat /\ rcvd \in Nat
  /\ phase \in {"live", "draining", "freed"}

\* try_recv() returns the messages in the order in which try_send() accepted
\* them, each once and none skipped: the message taken out for the n-th
\* receive is message n, across any number of wraps of the positions.
InOrder == pc[Consumer] \in {"unmark", "publish"} => out = rcvd + 1

\* ring_buffer.rs:37, "They never write to the same slot simultaneously".
NeverSameSlot ==
  pc[Producer] \in {"write", "mark"} /\ pc[Consumer] \in {"take", "unmark"} =>
    Idx(pos[Producer]) # Idx(pos[Consumer])

\* ring_buffer.rs:91, "Non-blocking, always lock-free": the wait for the
\* occupied flag never waits, because the flag is set before the head moves
\* and the consumer has cleared it before the producer can reuse the slot.
NeverWaits ==
  pc[Consumer] = "spin" => slots[Idx(pos[Consumer])].occupied = 1

\* len() as called by either end stays within the capacity: head - tail does
\* not underflow although the two are loaded one after the other.
LenInRange == \A e \in Ends : pc[e] = "len" => Used(pos[e], tail) <= Capacity

\* drop() leaves no message behind in the memory it frees.
FreedIsDrained == phase = "freed" => \A i \in Indices : slots[i].message = None

=============================================================================

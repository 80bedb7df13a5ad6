------------------------------ MODULE Channel -------------------------------
(***************************************************************************)
(* The bounded async channel of primitives/channel.rs: any number of       *)
(* senders, one receiver, a ring of slots, three shared counters and two   *)
(* wait queues.  Each atomic access is a step.  No waiter sets a priority, *)
(* so a wait queue is a FIFO sequence, and its calls are single steps (see *)
(* WaitQueue).  `closed` is never set by the code, so its tests are left   *)
(* out.  A future that returned Pending is polled again once woken.        *)
(***************************************************************************)
EXTENDS Integers, Sequences, SequencesExt

CONSTANTS
  Senders,
  Receiver,
  Capacity,
  Positions,  \* number of values of send_pos and recv_pos
  MaxSends    \* bound on the messages of one sender

ASSUME ChannelAssumption ==
  /\ Receiver \notin Senders
  /\ Capacity \in Nat \ {0} /\ Positions \in Nat \ {0} /\ MaxSends \in Nat
  /\ Positions % Capacity = 0

VARIABLES
  slots,         \* VecSlot: value and occupied flag; values outlive reads
  send_pos,
  recv_pos,
  len,
  send_waiters,
  recv_waiters,
  pc,
  future,        \* the current call is send()/recv(), not try_send()/try_recv()
  registered,    \* the flag of the current future
  pos,           \* the position claimed by the current call
  woken,         \* the task was woken since its last poll began
  value,         \* the value the receiver read
  sent,          \* history: messages each sender sent
  rcvd,          \* history: messages received from each sender
  crowded        \* history: two senders were past the test of len at once

vars == <<slots, send_pos, recv_pos, len, send_waiters, recv_waiters, pc, future,
          registered, pos, woken, value, sent, rcvd, crowded>>

ring == <<slots, send_pos, recv_pos, len>>
queues == <<send_waiters, recv_waiters>>
history == <<value, sent, rcvd>>

Tasks == Senders \cup {Receiver}
Garbage == <<Receiver, 0>>   \* what an uninitialised slot reads as
Message(s) == <<s, sent[s] + 1>>
Idx(p) == p % Capacity
Free == [value |-> Garbage, occupied |-> FALSE]

Init ==
  /\ slots = [i \in 0 .. Capacity - 1 |-> Free]
  /\ send_pos = 0 /\ recv_pos = 0 /\ len = 0
  /\ send_waiters = <<>> /\ recv_waiters = <<>>
  /\ pc = [t \in Tasks |-> "idle"]
  /\ future = [t \in Tasks |-> FALSE]
  /\ registered = [t \in Tasks |-> FALSE]
  /\ pos = [t \in Tasks |-> 0]
  /\ woken = [t \in Tasks |-> FALSE]
  /\ value = Garbage
  /\ sent = [s \in Senders |-> 0] /\ rcvd = [s \in Senders |-> 0]
  /\ crowded = FALSE

Goto(t, l) == pc' = [pc EXCEPT ![t] = l]
Register(t, r) == registered' = [registered EXCEPT ![t] = r]

\* WaitQueue::remove(): nothing if a wake has unlinked the node, which is in
\* the queue at most once.
Without(q, t) ==
  LET i == CHOOSE j \in 1 .. Len(q) : q[j] = t IN
  IF ~Contains(q, t) THEN q
  ELSE [j \in 1 .. Len(q) - 1 |-> IF j < i THEN q[j] ELSE q[j + 1]]

\* WaitQueue::wake_one(): unlinks the first waiter and wakes its task.
WakeOne(q) ==
  woken' = IF q = <<>> THEN woken ELSE [woken EXCEPT ![Head(q)] = TRUE]

Rest(q) == IF q = <<>> THEN q ELSE Tail(q)

-----------------------------------------------------------------------------
(* Any call or poll begins *)

Begin(t, f) ==
  /\ pc[t] = "idle"
  /\ t \in Senders => sent[t] < MaxSends
  /\ future' = [future EXCEPT ![t] = f]
  /\ Goto(t, "check")
  /\ UNCHANGED <<ring, queues, registered, pos, woken, history, crowded>>

Repoll(t) ==
  /\ pc[t] = "parked" /\ woken[t]
  /\ woken' = [woken EXCEPT ![t] = FALSE]
  /\ Goto(t, "check")
  /\ UNCHANGED <<ring, queues, future, registered, pos, history, crowded>>

-----------------------------------------------------------------------------
(* try_send() and SendFuture::poll() *)

\* Mutant: off by one.
HasRoomLoose == len <= Capacity

HasRoom == len < Capacity

\* Two senders that both pass the test before either has counted its message.
InFlight(s) == pc[s] \in {"claim", "write", "count"}

SendCheck(s) ==
  /\ pc[s] = "check"
  /\ Goto(s, IF HasRoom THEN "claim" ELSE IF future[s] THEN "park" ELSE "idle")
  /\ crowded' = (crowded \/ (HasRoom /\ \E u \in Senders : InFlight(u)))
  /\ UNCHANGED <<ring, queues, future, registered, pos, woken, history>>

SendClaim(s) ==
  /\ pc[s] = "claim"
  /\ pos' = [pos EXCEPT ![s] = send_pos]
  /\ send_pos' = (send_pos + 1) % Positions
  /\ Goto(s, "write")
  /\ UNCHANGED <<slots, recv_pos, len, queues, future, registered, woken, history, crowded>>

\* Mutant: len announces the message before it is written.
SendWriteLate(s) ==
  /\ pc[s] = "write"
  /\ len' = len + 1
  /\ Goto(s, "count")
  /\ UNCHANGED <<slots, send_pos, recv_pos, queues, future, registered, pos,
                 woken, history, crowded>>

SendWrite(s) ==
  /\ pc[s] = "write"
  /\ slots' = [slots EXCEPT ![Idx(pos[s])] =
                              [value |-> Message(s), occupied |-> TRUE]]
  /\ sent' = [sent EXCEPT ![s] = @ + 1]
  /\ Goto(s, "count")
  /\ UNCHANGED <<send_pos, recv_pos, len, queues, future, registered, pos, woken,
                 value, rcvd, crowded>>

SendCount(s) ==
  /\ pc[s] = "count"
  /\ len' = len + 1
  /\ Goto(s, "wake")
  /\ UNCHANGED <<slots, send_pos, recv_pos, queues, future, registered, pos,
                 woken, history, crowded>>

SendWake(s) ==
  /\ pc[s] = "wake"
  /\ WakeOne(recv_waiters)
  /\ recv_waiters' = Rest(recv_waiters)
  /\ Goto(s, IF registered[s] THEN "unregister" ELSE "idle")
  /\ UNCHANGED <<ring, send_waiters, future, registered, pos, history, crowded>>

\* Mutant: the dropped future's node stays linked.
SendUnregisterLeaves(s) ==
  /\ pc[s] \in {"unregister", "parked"}
  /\ Register(s, FALSE)
  /\ Goto(s, "idle")
  /\ woken' = [woken EXCEPT ![s] = FALSE]
  /\ UNCHANGED <<ring, queues, future, pos, history, crowded>>

\* The end of a poll that was parked before, or SendFuture::drop().
SendUnregister(s) ==
  /\ pc[s] \in {"unregister", "parked"}
  /\ send_waiters' = Without(send_waiters, s)
  /\ Register(s, FALSE)
  /\ Goto(s, "idle")
  /\ woken' = [woken EXCEPT ![s] = FALSE]
  /\ UNCHANGED <<ring, recv_waiters, future, pos, history, crowded>>

\* A future that is registered is not enqueued again.
SendPark(s) ==
  /\ pc[s] = "park"
  /\ send_waiters' = IF registered[s] THEN send_waiters
                     ELSE Append(send_waiters, s)
  /\ Register(s, TRUE)
  /\ Goto(s, "parked")
  /\ UNCHANGED <<ring, recv_waiters, future, pos, woken, history, crowded>>

-----------------------------------------------------------------------------
(* try_recv() and RecvFuture::poll() *)

RecvCheck ==
  /\ pc[Receiver] = "check"
  /\ Goto(Receiver, IF len > 0 THEN "claim"
                    ELSE IF future[Receiver] THEN "park" ELSE "idle")
  /\ UNCHANGED <<ring, queues, future, registered, pos, woken, history, crowded>>

RecvClaim ==
  /\ pc[Receiver] = "claim"
  /\ pos' = [pos EXCEPT ![Receiver] = recv_pos]
  /\ recv_pos' = (recv_pos + 1) % Positions
  /\ Goto(Receiver, "read")
  /\ UNCHANGED <<slots, send_pos, len, queues, future, registered, woken, history, crowded>>

\* The value is copied out; the bits stay in the slot.
RecvRead ==
  /\ pc[Receiver] = "read"
  /\ value' = slots[Idx(pos[Receiver])].value
  /\ slots' = [slots EXCEPT ![Idx(pos[Receiver])].occupied = FALSE]
  /\ Goto(Receiver, "uncount")
  /\ UNCHANGED <<send_pos, recv_pos, len, queues, future, registered, pos, woken,
                 sent, rcvd, crowded>>

\* The value belongs to the caller from here on.
RecvUncount ==
  /\ pc[Receiver] = "uncount"
  /\ len' = len - 1
  /\ rcvd' = IF value[1] \in Senders THEN [rcvd EXCEPT ![value[1]] = @ + 1] ELSE rcvd
  /\ value' = Garbage
  /\ Goto(Receiver, "wake")
  /\ UNCHANGED <<slots, send_pos, recv_pos, queues, future, registered, pos,
                 woken, sent, crowded>>

RecvWake ==
  /\ pc[Receiver] = "wake"
  /\ WakeOne(send_waiters)
  /\ send_waiters' = Rest(send_waiters)
  /\ Goto(Receiver, IF registered[Receiver] THEN "unregister" ELSE "idle")
  /\ UNCHANGED <<ring, recv_waiters, future, registered, pos, history, crowded>>

\* The end of a poll that was parked before, or RecvFuture::drop().
RecvUnregister ==
  /\ pc[Receiver] \in {"unregister", "parked"}
  /\ recv_waiters' = Without(recv_waiters, Receiver)
  /\ Register(Receiver, FALSE)
  /\ Goto(Receiver, "idle")
  /\ woken' = [woken EXCEPT ![Receiver] = FALSE]
  /\ UNCHANGED <<ring, send_waiters, future, pos, history, crowded>>

RecvPark ==
  /\ pc[Receiver] = "park"
  /\ recv_waiters' = IF registered[Receiver] THEN recv_waiters
                     ELSE Append(recv_waiters, Receiver)
  /\ Register(Receiver, TRUE)
  /\ Goto(Receiver, "recheck")
  /\ UNCHANGED <<ring, send_waiters, future, pos, woken, history, crowded>>

\* Mutant: no second look at len.
RecvRecheckNever ==
  /\ pc[Receiver] = "recheck"
  /\ Goto(Receiver, "parked")
  /\ UNCHANGED <<ring, queues, registered, future, pos, woken, history, crowded>>

\* A value that arrived before the registration is taken at once.
RecvRecheck ==
  /\ pc[Receiver] = "recheck"
  /\ Goto(Receiver, IF len > 0 THEN "unlink" ELSE "parked")
  /\ UNCHANGED <<ring, queues, registered, future, pos, woken, history, crowded>>

RecvUnlink ==
  /\ pc[Receiver] = "unlink"
  /\ recv_waiters' = Without(recv_waiters, Receiver)
  /\ Register(Receiver, FALSE)
  /\ Goto(Receiver, "claim")
  /\ UNCHANGED <<ring, send_waiters, future, pos, woken, history, crowded>>

-----------------------------------------------------------------------------
Send(s) ==
  \/ SendCheck(s) \/ SendClaim(s) \/ SendWrite(s) \/ SendCount(s)
  \/ SendWake(s) \/ SendUnregister(s) \/ SendPark(s)

Recv ==
  \/ RecvCheck \/ RecvClaim \/ RecvRead \/ RecvUncount \/ RecvWake
  \/ RecvUnregister \/ RecvPark \/ RecvRecheck \/ RecvUnlink

Next ==
  \/ \E t \in Tasks : Repoll(t) \/ \E f \in BOOLEAN : Begin(t, f)
  \/ \E s \in Senders : Send(s)
  \/ Recv

Spec == Init /\ [][Next]_vars

-----------------------------------------------------------------------------
(* Properties *)

Values == Tasks \X (0 .. MaxSends)

\* Slots hold messages or garbage, queues hold tasks, counters their ranges.
TypeOK ==
  /\ slots \in [0 .. Capacity - 1 -> [value : Values, occupied : BOOLEAN]]
  /\ send_pos \in 0 .. Positions - 1 /\ recv_pos \in 0 .. Positions - 1
  /\ len \in Nat
  /\ send_waiters \in Seq(Senders) /\ recv_waiters \in Seq({Receiver})
  /\ pc \in [Tasks -> {"idle", "check", "claim", "write", "count", "wake", "park",
                       "parked", "recheck", "unlink", "read", "uncount",
                       "unregister"}]
  /\ future \in [Tasks -> BOOLEAN] /\ registered \in [Tasks -> BOOLEAN]
  /\ pos \in [Tasks -> 0 .. Positions - 1]
  /\ woken \in [Tasks -> BOOLEAN]
  /\ value \in Values
  /\ sent \in [Senders -> 0 .. MaxSends] /\ rcvd \in [Senders -> Nat]
  /\ crowded \in BOOLEAN

\* channel.rs:142, "we claimed a unique slot via atomic increment, guaranteed
\* free": a slot about to be written holds no unread message.
WritesFreeSlot ==
  \A s \in Senders : pc[s] = "write" => ~slots[Idx(pos[s])].occupied

\* The n-th value received from a sender is the n-th value it sent.
InOrder ==
  pc[Receiver] = "uncount" =>
    /\ value[1] \in Senders
    /\ value[2] = rcvd[value[1]] + 1

\* As long as no sender passed the test of len while another one was between
\* that test and its own count, no unread message is overwritten.
WritesFreeSlotUntilCrowded == ~crowded => WritesFreeSlot

\* As long as no such crowding happened, the receiver gets every sender's
\* messages, each once and in the order they were sent, over wrap-around,
\* parking, cancellation and both kinds of calls.
InOrderUntilCrowded == ~crowded => InOrder

\* A parked receiver that is still in its wait queue is not forgotten: while
\* there is a message some sender has yet to call wake_one().
LinkedReceiverIsWoken ==
  pc[Receiver] = "parked" /\ recv_waiters # <<>> /\ len > 0 =>
    woken[Receiver] \/ \E s \in Senders : pc[s] = "wake"

\* A wait-queue node is linked only while its future exists and knows of it.
LinkedIsRegistered ==
  \A t \in Tasks : Contains(send_waiters \o recv_waiters, t) => registered[t]

-----------------------------------------------------------------------------
(* What the source's comments say and the code does not keep.  No run      *)
(* checks these; the README gives the counterexamples.                     *)

\* channel.rs:273, "slot was written by producer": a slot about to be read
\* holds an unread message.
ReadsWrittenSlot == pc[Receiver] = "read" => slots[Idx(pos[Receiver])].occupied

\* channel.rs:3, "recv() parks if empty": a parked receiver has nothing to
\* receive, unless a wake is on its way.
ParkedReceiverIsWoken ==
  pc[Receiver] = "parked" /\ len > 0 =>
    woken[Receiver] \/ \E s \in Senders : pc[s] = "wake"

\* channel.rs:115, "Returns a future that parks if the channel is full": a
\* parked sender has no room, unless a wake is on its way.
ParkedSenderIsWoken ==
  \A s \in Senders : pc[s] = "parked" /\ HasRoom =>
    \/ \E u \in Senders : woken[u]
    \/ pc[Receiver] = "wake"
=============================================================================

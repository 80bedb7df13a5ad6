--------------------------- MODULE ChannelProofs ---------------------------
(***************************************************************************)
(* Proofs about the bounded channel, for any senders, capacity and number  *)
(* of positions.  Three invariants: ChannelInv, which holds always, for    *)
(* the types and the two wait queues; OneInFlight and Ring, which hold     *)
(* until two senders crowd.  Ring counts the messages written and read     *)
(* with numbers that do not wrap, unlike send_pos and recv_pos; the unread *)
(* messages are those from the one to the other.                           *)
(***************************************************************************)
EXTENDS Channel, TLAPS

SenderPCs == {"idle", "check", "claim", "write", "count", "wake", "park",
              "parked", "unregister"}
ReceiverPCs == {"idle", "check", "claim", "read", "uncount", "wake", "park",
                "recheck", "unlink", "parked", "unregister"}

\* Each side is in its own code, a sender has a message left until it has
\* written it, and the receiver goes on to a message only if one is counted.
Places ==
  /\ \A s \in Senders : /\ pc[s] \in SenderPCs
                        /\ pc[s] \in {"check", "claim", "write", "park", "parked"}
                             => sent[s] < MaxSends
  /\ pc[Receiver] \in ReceiverPCs
  /\ pc[Receiver] \in {"claim", "read", "uncount", "unlink"} => len > 0

NobodyTwice(q) == \A i, j \in 1 .. Len(q) : q[i] = q[j] => i = j

\* A task is in a wait queue once, and only if it is registered.
Linked ==
  /\ \A i \in 1 .. Len(send_waiters) : registered[send_waiters[i]]
  /\ NobodyTwice(send_waiters)
  /\ recv_waiters # <<>> => registered[Receiver] /\ Len(recv_waiters) = 1

ChannelInv == TypeOK /\ Places /\ Linked /\ LinkedReceiverIsWoken

-----------------------------------------------------------------------------
\* Without crowding, one sender at a time is past the test of len.
OneInFlight ==
  /\ \A s, u \in Senders : InFlight(s) /\ InFlight(u) => s = u
  /\ \A s \in Senders : pc[s] \in {"claim", "write"} => len < Capacity

Writing == \E s \in Senders : pc[s] = "write"
Counting == \E s \in Senders : pc[s] = "count"
Cell(n) == n % Capacity
Posn(n) == n % Positions
Slot(n) == slots[Cell(n)]

\* w messages were written and r of them read; the positions are ahead of them
\* while one is being written or read.
Positioned(w, r) ==
  /\ r <= w /\ w - r <= Capacity
  /\ send_pos = IF Writing THEN Posn(w + 1) ELSE Posn(w)
  /\ \A s \in Senders : pc[s] = "write" => pos[s] = Posn(w)
  /\ recv_pos = IF pc[Receiver] = "read" THEN Posn(r + 1) ELSE Posn(r)
  /\ pc[Receiver] = "read" => pos[Receiver] = Posn(r)

\* len lags behind both.
Counted(w, r) ==
  w - r + (IF pc[Receiver] = "uncount" THEN 1 ELSE 0)
    = len + (IF Counting THEN 1 ELSE 0)

\* The slots between the two hold the unread messages.
Occupied(w, r) ==
  /\ \A n \in r .. w - 1 : Slot(n).occupied
  /\ \A n \in w .. r + Capacity - 1 : ~Slot(n).occupied

\* What the receiver got from s, with the value it is about to return.
Got(s) ==
  rcvd[s] + (IF pc[Receiver] = "uncount" /\ value[1] = s THEN 1 ELSE 0)

\* The unread messages of each sender are its last ones, in order.
Ordered(w, r) ==
  /\ \A s \in Senders : Got(s) <= sent[s]
  /\ \A n \in r .. w - 1 :
       /\ Slot(n).value[1] \in Senders
       /\ \A s \in Senders :
            Slot(n).value[1] = s => Got(s) < Slot(n).value[2] /\ Slot(n).value[2] <= sent[s]
  /\ \A s \in Senders, k \in 1 .. MaxSends :
       Got(s) < k /\ k <= sent[s] => \E n \in r .. w - 1 : Slot(n).value = <<s, k>>
  /\ \A n, m \in r .. w - 1 :
       n < m /\ Slot(n).value[1] = Slot(m).value[1] => Slot(n).value[2] < Slot(m).value[2]

RingOf(w, r) == Positioned(w, r) /\ Counted(w, r) /\ Occupied(w, r) /\ Ordered(w, r)

Ring == \E w, r \in Nat : RingOf(w, r)

RingInv == ~crowded => OneInFlight /\ Ring /\ InOrder
-----------------------------------------------------------------------------
(* The two wait queues *)

\* remove(): what is left of a queue that holds nobody twice.
LEMMA WithoutFacts ==
  ASSUME NEW S, NEW q \in Seq(S), NEW t, NobodyTwice(q)
  PROVE  /\ Without(q, t) \in Seq(S)
         /\ \A i \in 1 .. Len(Without(q, t)) :
              /\ Without(q, t)[i] # t
              /\ \E j \in 1 .. Len(q) : Without(q, t)[i] = q[j]
         /\ NobodyTwice(Without(q, t))
<1> USE DEF NobodyTwice
<1> DEFINE p == CHOOSE j \in 1 .. Len(q) : q[j] = t
           r == [j \in 1 .. Len(q) - 1 |-> IF j < p THEN q[j] ELSE q[j + 1]]
<1>1. CASE ~Contains(q, t)
  <2>1. Without(q, t) = q
    BY <1>1 DEF Without
  <2>2. \A i \in 1 .. Len(q) : q[i] # t
    BY <1>1 DEF Contains
  <2> QED
    BY <2>1, <2>2
<1>2. CASE Contains(q, t)
  <2>1. Without(q, t) = r
    BY <1>2 DEF Without
  <2>2. p \in 1 .. Len(q) /\ q[p] = t
    BY <1>2 DEF Contains
  <2> HIDE DEF p
  <2>3. Len(q) \in Nat /\ Len(q) - 1 \in Nat
    BY <2>2
  <2>4. \A j \in 1 .. Len(q) - 1 : r[j] \in S
    BY <2>2
  <2>5. r \in Seq(S) /\ Len(r) = Len(q) - 1
    BY <2>3, <2>4
  <2>6. \A i \in 1 .. Len(r) : r[i] # t /\ \E j \in 1 .. Len(q) : r[i] = q[j]
    BY <2>2, <2>5
  <2>7. \A i, j \in 1 .. Len(r) : r[i] = r[j] => i = j
    BY <2>2, <2>5
  <2> HIDE DEF r
  <2> QED
    BY <2>1, <2>5, <2>6, <2>7
<1> QED
  BY <1>1, <1>2

\* The receiver's queue without the receiver.
LEMMA WithoutReceiver ==
  ASSUME TypeOK, Linked
  PROVE  Without(recv_waiters, Receiver) = <<>>
<1> DEFINE q == Without(recv_waiters, Receiver)
<1>1. NobodyTwice(recv_waiters)
  BY DEF TypeOK, Linked, NobodyTwice
<1>2. /\ q \in Seq({Receiver})
      /\ \A i \in 1 .. Len(q) : q[i] # Receiver
  BY <1>1, WithoutFacts DEF TypeOK
<1> HIDE DEF q
<1>3. \A i \in 1 .. Len(q) : q[i] \in {Receiver}
  BY <1>2
<1>4. Len(q) = 0
  BY <1>2, <1>3
<1> QED
  BY <1>2, <1>4 DEF q

\* Waking takes the first waiter.
LEMMA RestFacts ==
  ASSUME NEW S, NEW q \in Seq(S)
  PROVE  /\ Rest(q) \in Seq(S)
         /\ Len(Rest(q)) = IF q = <<>> THEN 0 ELSE Len(q) - 1
         /\ \A i \in 1 .. Len(Rest(q)) : i + 1 \in 1 .. Len(q) /\ Rest(q)[i] = q[i + 1]
<1>1. CASE q = <<>>
  BY <1>1 DEF Rest
<1>2. CASE q # <<>>
  <2>1. Rest(q) = Tail(q)
    BY <1>2 DEF Rest
  <2> QED
    BY <1>2, <2>1
<1> QED
  BY <1>1, <1>2

\* The receiver's queue after a wake.
LEMMA RestReceiver ==
  ASSUME TypeOK, Linked
  PROVE  Rest(recv_waiters) = <<>>
<1>1. recv_waiters \in Seq({Receiver})
  BY DEF TypeOK
<1>2. Len(recv_waiters) = 1 \/ recv_waiters = <<>>
  BY DEF Linked
<1>3. Len(Rest(recv_waiters)) = 0 /\ Rest(recv_waiters) \in Seq({Receiver})
  BY <1>1, <1>2, RestFacts
<1> QED
  BY <1>3

\* Who waits in the senders' queue.
LEMMA WaitingSenders ==
  ASSUME TypeOK
  PROVE  /\ Len(send_waiters) \in Nat
         /\ \A i \in 1 .. Len(send_waiters) : send_waiters[i] \in Senders
<1>1. send_waiters \in Seq(Senders)
  BY DEF TypeOK
<1> QED
  BY <1>1

\* Only its woken flag changes for the task that is woken.
LEMMA WakeOneType ==
  ASSUME TypeOK, NEW q, q \in Seq(Senders) \/ q \in Seq({Receiver}), WakeOne(q)
  PROVE  /\ woken' \in [Tasks -> BOOLEAN]
         /\ \A t \in Tasks : woken[t] => woken'[t]
<1>1. CASE q = <<>>
  BY <1>1 DEF WakeOne, TypeOK
<1>2. CASE q # <<>>
  <2>1. woken' = [woken EXCEPT ![Head(q)] = TRUE]
    BY <1>2 DEF WakeOne
  <2> QED
    BY <2>1 DEF TypeOK
<1> QED
  BY <1>1, <1>2

LEMMA ChannelInit == Init => ChannelInv
<1> SUFFICES ASSUME Init PROVE ChannelInv
  OBVIOUS
<1> USE ChannelAssumption DEF Init
<1>1. Garbage \in Values
  BY DEF Garbage, Values, Tasks
<1>2. TypeOK
  <2>1. slots \in [0 .. Capacity - 1 -> [value : Values, occupied : BOOLEAN]]
    BY <1>1 DEF Free
  <2>2. 0 \in 0 .. Positions - 1 /\ 0 \in 0 .. MaxSends
    OBVIOUS
  <2>3. /\ pc \in [Tasks -> {"idle"}] /\ pos \in [Tasks -> 0 .. Positions - 1]
        /\ sent \in [Senders -> 0 .. MaxSends] /\ rcvd \in [Senders -> Nat]
    BY <2>2
  <2>4. /\ future \in [Tasks -> BOOLEAN] /\ registered \in [Tasks -> BOOLEAN]
        /\ woken \in [Tasks -> BOOLEAN]
    BY Zenon
  <2>5. send_waiters \in Seq(Senders) /\ recv_waiters \in Seq({Receiver})
    OBVIOUS
  <2> QED
    BY <1>1, <2>1, <2>2, <2>3, <2>4, <2>5 DEF TypeOK
<1>3. Places
  BY DEF Places, SenderPCs, ReceiverPCs, Tasks
<1>4. Linked /\ LinkedReceiverIsWoken
  BY DEF Linked, NobodyTwice, LinkedReceiverIsWoken
<1> QED
  BY <1>2, <1>3, <1>4 DEF ChannelInv

LEMMA TypeStep ==
  ASSUME TypeOK, Places, Linked, [Next]_vars
  PROVE  TypeOK'
<1> USE ChannelAssumption DEF Goto, Register, ring, queues, history, Tasks
<1>1. CASE UNCHANGED vars
  BY <1>1 DEF vars, TypeOK
<1>2. ASSUME NEW t \in Tasks, Repoll(t) \/ \E f \in BOOLEAN : Begin(t, f)
      PROVE  TypeOK'
  <2>1. CASE Repoll(t)
    BY <2>1 DEF Repoll, TypeOK
  <2>2. ASSUME NEW f \in BOOLEAN, Begin(t, f) PROVE TypeOK'
    <3>1. future' \in [Tasks -> BOOLEAN]
      BY <2>2 DEF Begin, TypeOK
    <3> QED
      BY <2>2, <3>1 DEF Begin, TypeOK
  <2> QED
    BY <1>2, <2>1, <2>2
<1>3. ASSUME NEW s \in Senders, SendCheck(s) PROVE TypeOK'
  <2>1. crowded' \in BOOLEAN
    BY <1>3, Zenon DEF SendCheck
  <2> QED
    BY <1>3, <2>1 DEF SendCheck, TypeOK
<1>4. ASSUME NEW s \in Senders, SendClaim(s) PROVE TypeOK'
  BY <1>4 DEF SendClaim, TypeOK
<1>5. ASSUME NEW s \in Senders, SendWrite(s) PROVE TypeOK'
  <2>1. Message(s) \in Values /\ sent[s] + 1 \in 0 .. MaxSends
    BY <1>5 DEF SendWrite, Message, Values, TypeOK, Places
  <2> QED
    BY <1>5, <2>1 DEF SendWrite, TypeOK
<1>6. ASSUME NEW s \in Senders, SendCount(s) PROVE TypeOK'
  BY <1>6 DEF SendCount, TypeOK
<1>7. ASSUME NEW s \in Senders, SendWake(s) PROVE TypeOK'
  <2>1. woken' \in [Tasks -> BOOLEAN] /\ recv_waiters' \in Seq({Receiver})
    BY <1>7, WakeOneType, RestFacts DEF SendWake, TypeOK
  <2> QED
    BY <1>7, <2>1 DEF SendWake, TypeOK
<1>8. ASSUME NEW s \in Senders, SendUnregister(s) PROVE TypeOK'
  <2>1. send_waiters' \in Seq(Senders)
    BY <1>8, WithoutFacts DEF SendUnregister, TypeOK, Linked
  <2> QED
    BY <1>8, <2>1 DEF SendUnregister, TypeOK
<1>9. ASSUME NEW s \in Senders, SendPark(s) PROVE TypeOK'
  <2>1. send_waiters' \in Seq(Senders)
    BY <1>9 DEF SendPark, TypeOK
  <2> QED
    BY <1>9, <2>1 DEF SendPark, TypeOK
<1>10. CASE RecvCheck \/ RecvRecheck
  BY <1>10 DEF RecvCheck, RecvRecheck, TypeOK
<1>11. CASE RecvClaim
  BY <1>11 DEF RecvClaim, TypeOK
<1>12. CASE RecvRead
  <2>1. Idx(pos[Receiver]) \in 0 .. Capacity - 1
    BY DEF Idx, TypeOK
  <2> QED
    BY <1>12, <2>1, ZenonT(30) DEF RecvRead, TypeOK
<1>13. CASE RecvUncount
  <2>1. len' \in Nat
    BY <1>13 DEF RecvUncount, TypeOK, Places
  <2>2. Garbage \in Values
    BY DEF Garbage, Values, TypeOK
  <2>3. rcvd' \in [Senders -> Nat]
    BY <1>13, SMTT(30) DEF RecvUncount, TypeOK
  <2> QED
    BY <1>13, <2>1, <2>2, <2>3 DEF RecvUncount, TypeOK
<1>14. CASE RecvWake
  <2>1. woken' \in [Tasks -> BOOLEAN] /\ send_waiters' \in Seq(Senders)
    BY <1>14, WakeOneType, RestFacts DEF RecvWake, TypeOK
  <2> QED
    BY <1>14, <2>1 DEF RecvWake, TypeOK
<1>15. CASE RecvUnregister \/ RecvUnlink
  <2>1. recv_waiters' = <<>>
    BY <1>15, WithoutReceiver DEF RecvUnregister, RecvUnlink
  <2>2. CASE RecvUnregister
    BY <2>1, <2>2 DEF RecvUnregister, TypeOK
  <2>3. CASE RecvUnlink
    BY <2>1, <2>3 DEF RecvUnlink, TypeOK
  <2> QED
    BY <1>15, <2>2, <2>3
<1>16. CASE RecvPark
  <2>1. recv_waiters' \in Seq({Receiver})
    BY <1>16 DEF RecvPark, TypeOK
  <2> QED
    BY <1>16, <2>1 DEF RecvPark, TypeOK
<1> QED
  BY <1>1, <1>2, <1>3, <1>4, <1>5, <1>6, <1>7, <1>8, <1>9, <1>10, <1>11,
     <1>12, <1>13, <1>14, <1>15, <1>16 DEF Next, Send, Recv
LEMMA PlacesStep ==
  ASSUME TypeOK, Places, [Next]_vars
  PROVE  Places'
<1> USE ChannelAssumption DEF Goto, Register, ring, queues, history, Tasks, TypeOK,
                              Places, SenderPCs, ReceiverPCs
<1>1. CASE UNCHANGED vars
  BY <1>1 DEF vars
<1>2. ASSUME NEW t \in Tasks, Repoll(t) PROVE Places'
  BY <1>2 DEF Repoll
<1>3. ASSUME NEW t \in Tasks, NEW f \in BOOLEAN, Begin(t, f) PROVE Places'
  BY <1>3 DEF Begin
<1>4. ASSUME NEW s \in Senders, SendCheck(s) \/ SendClaim(s) PROVE Places'
  BY <1>4 DEF SendCheck, SendClaim
<1>5. ASSUME NEW s \in Senders, SendWrite(s) \/ SendCount(s) PROVE Places'
  <2>1. CASE SendWrite(s)
    BY <2>1 DEF SendWrite
  <2>2. CASE SendCount(s)
    BY <2>2 DEF SendCount
  <2> QED
    BY <1>5, <2>1, <2>2
<1>6. ASSUME NEW s \in Senders, SendWake(s) \/ SendUnregister(s) \/ SendPark(s)
      PROVE Places'
  <2>1. CASE SendWake(s)
    BY <2>1 DEF SendWake
  <2>2. CASE SendUnregister(s)
    BY <2>2 DEF SendUnregister
  <2>3. CASE SendPark(s)
    BY <2>3 DEF SendPark
  <2> QED
    BY <1>6, <2>1, <2>2, <2>3
<1>7. CASE RecvCheck \/ RecvClaim \/ RecvRead
  BY <1>7 DEF RecvCheck, RecvClaim, RecvRead
<1>8. CASE RecvUncount \/ RecvWake \/ RecvUnregister
  <2>1. CASE RecvUncount
    BY <2>1 DEF RecvUncount
  <2>2. CASE RecvWake
    BY <2>2 DEF RecvWake
  <2>3. CASE RecvUnregister
    BY <2>3 DEF RecvUnregister
  <2> QED
    BY <1>8, <2>1, <2>2, <2>3
<1>9. CASE RecvPark \/ RecvRecheck \/ RecvUnlink
  BY <1>9 DEF RecvPark, RecvRecheck, RecvUnlink
<1> QED
  BY <1>1, <1>2, <1>3, <1>4, <1>5, <1>6, <1>7, <1>8, <1>9 DEF Next, Send, Recv

LEMMA LinkedStep ==
  ASSUME TypeOK, Linked, [Next]_vars
  PROVE  Linked'
<1> USE ChannelAssumption DEF Goto, Register, ring, queues, history, Tasks
<1>1. CASE UNCHANGED <<queues, registered>>
  BY <1>1 DEF Linked
<1>2. ASSUME NEW s \in Senders, SendWake(s) PROVE Linked'
  <2>1. recv_waiters' = <<>>
    BY <1>2, RestReceiver DEF SendWake
  <2> QED
    BY <1>2, <2>1 DEF SendWake, Linked
<1>3. ASSUME NEW s \in Senders, SendUnregister(s) PROVE Linked'
  <2>1. /\ send_waiters' \in Seq(Senders)
        /\ \A i \in 1 .. Len(send_waiters') :
             /\ send_waiters'[i] # s
             /\ \E j \in 1 .. Len(send_waiters) : send_waiters'[i] = send_waiters[j]
        /\ NobodyTwice(send_waiters')
    <3>1. NobodyTwice(send_waiters)
      BY DEF Linked
    <3>2. send_waiters \in Seq(Senders) /\ send_waiters' = Without(send_waiters, s)
      BY <1>3 DEF SendUnregister, TypeOK
    <3> QED
      BY <3>1, <3>2, WithoutFacts
  <2>2. recv_waiters' = recv_waiters /\ registered'[Receiver] = registered[Receiver]
    BY <1>3 DEF SendUnregister, TypeOK
  <2>3. \A u \in Senders : u # s => registered'[u] = registered[u]
    BY <1>3 DEF SendUnregister, TypeOK
  <2>4. \A i \in 1 .. Len(send_waiters') : registered'[send_waiters'[i]]
    <3> SUFFICES ASSUME NEW i \in 1 .. Len(send_waiters')
                 PROVE  registered'[send_waiters'[i]]
      OBVIOUS
    <3>1. PICK j \in 1 .. Len(send_waiters) : send_waiters'[i] = send_waiters[j]
      BY <2>1
    <3>2. send_waiters'[i] # s /\ send_waiters[j] \in Senders
      BY <2>1, WaitingSenders
    <3> QED
      BY <2>3, <3>1, <3>2 DEF Linked
  <2> QED
    BY <2>1, <2>2, <2>4 DEF Linked
<1>4. ASSUME NEW s \in Senders, SendPark(s) PROVE Linked'
  <2>1. recv_waiters' = recv_waiters /\ registered'[Receiver] = registered[Receiver]
    BY <1>4 DEF SendPark, TypeOK
  <2>2. registered'[s] /\ \A u \in Senders : registered[u] => registered'[u]
    BY <1>4 DEF SendPark, TypeOK
  <2>3. CASE registered[s]
    <3>1. send_waiters' = send_waiters
      BY <1>4, <2>3 DEF SendPark
    <3> QED
      BY <2>1, <2>2, <3>1, WaitingSenders DEF Linked
  <2>4. CASE ~registered[s]
    <3>1. /\ send_waiters' = Append(send_waiters, s)
          /\ Len(send_waiters') = Len(send_waiters) + 1
          /\ send_waiters'[Len(send_waiters) + 1] = s
          /\ \A i \in 1 .. Len(send_waiters) : send_waiters'[i] = send_waiters[i]
      BY <1>4, <2>4 DEF SendPark, TypeOK
    <3>2. \A i \in 1 .. Len(send_waiters) : send_waiters[i] # s /\ send_waiters[i] \in Senders
      BY <2>4, WaitingSenders DEF Linked
    <3>3. Len(send_waiters) \in Nat
      BY WaitingSenders
    <3> QED
      BY <2>1, <2>2, <3>1, <3>2, <3>3 DEF Linked, NobodyTwice
  <2> QED
    BY <2>3, <2>4
<1>5. CASE RecvWake
  <2>1. /\ send_waiters' \in Seq(Senders)
        /\ \A i \in 1 .. Len(send_waiters') :
             i + 1 \in 1 .. Len(send_waiters) /\ send_waiters'[i] = send_waiters[i + 1]
    BY <1>5, RestFacts, ZenonT(30) DEF RecvWake, TypeOK
  <2> QED
    BY <1>5, <2>1 DEF RecvWake, Linked, NobodyTwice
<1>6. CASE RecvUnregister \/ RecvUnlink
  <2>1. recv_waiters' = <<>> /\ send_waiters' = send_waiters
    BY <1>6, WithoutReceiver DEF RecvUnregister, RecvUnlink
  <2>2. \A u \in Senders : registered'[u] = registered[u]
    BY <1>6 DEF RecvUnregister, RecvUnlink, TypeOK
  <2> QED
    BY <2>1, <2>2, WaitingSenders DEF Linked
<1>7. CASE RecvPark
  <2>1. send_waiters' = send_waiters /\ registered'[Receiver]
    BY <1>7 DEF RecvPark, TypeOK
  <2>2. \A u \in Senders : registered'[u] = registered[u]
    BY <1>7 DEF RecvPark, TypeOK
  <2>3. recv_waiters' # <<>> => Len(recv_waiters') = 1
    BY <1>7 DEF RecvPark, TypeOK, Linked
  <2> QED
    BY <2>1, <2>2, <2>3, WaitingSenders DEF Linked
<1>8. ASSUME NEW t \in Tasks, Repoll(t) \/ \E f \in BOOLEAN : Begin(t, f)
      PROVE  UNCHANGED <<queues, registered>>
  BY <1>8 DEF Repoll, Begin
<1>9. ASSUME NEW s \in Senders,
             SendCheck(s) \/ SendClaim(s) \/ SendWrite(s) \/ SendCount(s)
      PROVE  UNCHANGED <<queues, registered>>
  BY <1>9 DEF SendCheck, SendClaim, SendWrite, SendCount
<1>10. ASSUME RecvCheck \/ RecvClaim \/ RecvRead \/ RecvUncount \/ RecvRecheck
       PROVE  UNCHANGED <<queues, registered>>
  BY <1>10 DEF RecvCheck, RecvClaim, RecvRead, RecvUncount, RecvRecheck
<1>11. UNCHANGED vars => UNCHANGED <<queues, registered>>
  BY DEF vars
<1> QED
  BY <1>1, <1>2, <1>3, <1>4, <1>5, <1>6, <1>7, <1>8, <1>9, <1>10, <1>11
     DEF Next, Send, Recv

\* A sender that has counted its message wakes the receiver, which looked at
\* len before it parked.
LEMMA WokenStep ==
  ASSUME TypeOK, Linked, Places, LinkedReceiverIsWoken, [Next]_vars
  PROVE  LinkedReceiverIsWoken'
<1> USE ChannelAssumption DEF Goto, Register, ring, queues, history, Tasks, TypeOK,
                              LinkedReceiverIsWoken
<1>1. CASE UNCHANGED vars
  BY <1>1 DEF vars
<1>2. ASSUME NEW t \in Tasks, Repoll(t) PROVE LinkedReceiverIsWoken'
  BY <1>2 DEF Repoll
<1>3. ASSUME NEW t \in Tasks, NEW f \in BOOLEAN, Begin(t, f)
      PROVE  LinkedReceiverIsWoken'
  BY <1>3 DEF Begin
<1>4. ASSUME NEW s \in Senders, SendCheck(s) \/ SendClaim(s) \/ SendWrite(s)
      PROVE  LinkedReceiverIsWoken'
  BY <1>4 DEF SendCheck, SendClaim, SendWrite
<1>5. ASSUME NEW s \in Senders, SendCount(s) PROVE LinkedReceiverIsWoken'
  <2>1. pc'[s] = "wake"
    BY <1>5 DEF SendCount
  <2> QED
    BY <2>1
<1>6. ASSUME NEW s \in Senders, SendWake(s) PROVE LinkedReceiverIsWoken'
  <2>1. recv_waiters' = <<>>
    BY <1>6, RestReceiver DEF SendWake
  <2> QED
    BY <2>1
<1>7. ASSUME NEW s \in Senders, SendUnregister(s) \/ SendPark(s)
      PROVE  LinkedReceiverIsWoken'
  BY <1>7 DEF SendUnregister, SendPark
<1>8. CASE RecvCheck \/ RecvClaim \/ RecvRead \/ RecvUncount
  BY <1>8 DEF RecvCheck, RecvClaim, RecvRead, RecvUncount
<1>9. CASE RecvWake \/ RecvUnregister \/ RecvPark \/ RecvUnlink
  BY <1>9 DEF RecvWake, RecvUnregister, RecvPark, RecvUnlink
<1>10. CASE RecvRecheck
  BY <1>10 DEF RecvRecheck
<1> QED
  BY <1>1, <1>2, <1>3, <1>4, <1>5, <1>6, <1>7, <1>8, <1>9, <1>10
     DEF Next, Send, Recv

LEMMA ChannelStep == ChannelInv /\ [Next]_vars => ChannelInv'
  BY TypeStep, PlacesStep, LinkedStep, WokenStep DEF ChannelInv

LEMMA ChannelInvariance == Spec => []ChannelInv
  BY ChannelInit, ChannelStep, PTL DEF Spec

\* Slots, counters, queues and tasks of a channel keep their types; len, which
\* several tasks change without a lock, never falls below zero.
THEOREM ChannelTypeCorrect == Spec => []TypeOK
<1>1. ChannelInv => TypeOK
  BY DEF ChannelInv
<1> QED
  BY <1>1, ChannelInvariance, PTL

\* A linked receiver is woken for a message that len counts.
THEOREM LinkedReceiverWoken == Spec => []LinkedReceiverIsWoken
<1>1. ChannelInv => LinkedReceiverIsWoken
  BY DEF ChannelInv
<1> QED
  BY <1>1, ChannelInvariance, PTL

\* The node of a dropped or finished future is in no wait queue.
THEOREM LinkedRegistered == Spec => []LinkedIsRegistered
<1>1. ChannelInv => LinkedIsRegistered
  <2> SUFFICES ASSUME ChannelInv, NEW t \in Tasks,
                      Contains(send_waiters \o recv_waiters, t)
               PROVE  registered[t]
    BY DEF LinkedIsRegistered
  <2>1. /\ send_waiters \in Seq(Senders) /\ recv_waiters \in Seq({Receiver})
        /\ Linked
    BY DEF ChannelInv, TypeOK
  <2>2. PICK i \in 1 .. Len(send_waiters \o recv_waiters) :
          (send_waiters \o recv_waiters)[i] = t
    BY DEF Contains
  <2>3. CASE i \in 1 .. Len(send_waiters)
    BY <2>1, <2>2, <2>3 DEF Linked
  <2>4. CASE i \notin 1 .. Len(send_waiters)
    <3>1. /\ i - Len(send_waiters) \in 1 .. Len(recv_waiters)
          /\ t = recv_waiters[i - Len(send_waiters)]
      BY <2>1, <2>2, <2>4
    <3> QED
      BY <2>1, <3>1 DEF Linked
  <2> QED
    BY <2>3, <2>4
<1> QED
  BY <1>1, ChannelInvariance, PTL
-----------------------------------------------------------------------------
(* Positions and slots *)

LEMMA DivMod ==
  ASSUME NEW n \in Int, NEW m \in Nat \ {0}
  PROVE  /\ n \div m \in Int /\ n % m \in 0 .. m - 1
         /\ n = m * (n \div m) + (n % m)
  OBVIOUS

\* The only multiple of m strictly between -m and m is 0.
LEMMA SmallMultiple ==
  ASSUME NEW m \in Nat \ {0}, NEW k \in Int, -m < m * k, m * k < m
  PROVE  k = 0
<1>1. CASE k >= 1
  <2>1. m * k >= m
    BY <1>1
  <2> QED
    BY <2>1
<1>2. CASE k <= -1
  <2>1. m * k <= -m
    BY <1>2
  <2> QED
    BY <2>1
<1> QED
  BY <1>1, <1>2

\* A decomposition with a small remainder is the division.
LEMMA ModUnique ==
  ASSUME NEW m \in Nat \ {0}, NEW n \in Int, NEW q \in Int, NEW r \in 0 .. m - 1,
         n = m * q + r
  PROVE  n % m = r
<1> DEFINE d == n \div m
           e == n % m
<1>1. d \in Int /\ e \in 0 .. m - 1 /\ n = m * d + e
  BY DivMod
<1> HIDE DEF d, e
<1>2. m * (d - q) = r - e
  BY <1>1
<1>3. d - q = 0
  BY <1>1, <1>2, SmallMultiple
<1>4. r = e
  BY <1>1, <1>2, <1>3
<1> QED
  BY <1>4 DEF e

\* A position, although it wraps, leads to the slot of the number it stands for.
LEMMA IdxOf == \A n \in Nat : Idx(Posn(n)) = Cell(n)
<1> SUFFICES ASSUME NEW n \in Nat PROVE Idx(n % Positions) = n % Capacity
  BY DEF Posn, Cell
<1> USE ChannelAssumption
<1> DEFINE k == Positions \div Capacity
           d == n \div Positions
           p == n % Positions
           e == p \div Capacity
           r == p % Capacity
<1>1. k \in Int /\ Positions = Capacity * k
  BY DivMod
<1>2. d \in Int /\ p \in Int /\ n = Positions * d + p
  BY DivMod
<1>3. e \in Int /\ r \in 0 .. Capacity - 1 /\ p = Capacity * e + r
  BY <1>2, DivMod
<1> HIDE DEF k, d, p, e, r
<1> DEFINE q == k * d + e
<1>4. n = Capacity * q + r
  BY <1>1, <1>2, <1>3
<1>5. q \in Int /\ n \in Int /\ Capacity \in Nat \ {0}
  BY <1>1, <1>2, <1>3
<1> HIDE DEF q
<1>6. n % Capacity = r
  BY <1>3, <1>4, <1>5, ModUnique, Zenon
<1> QED
  BY <1>6 DEF Idx, p, r

\* fetch_add(1) on a position.
LEMMA Successor ==
  \A n \in Nat : (Posn(n) + 1) % Positions = Posn(n + 1)
<1> SUFFICES ASSUME NEW n \in Nat
             PROVE  ((n % Positions) + 1) % Positions = (n + 1) % Positions
  BY DEF Posn
<1> USE ChannelAssumption
<1> DEFINE d == n \div Positions
           p == n % Positions
           e == (p + 1) \div Positions
           r == (p + 1) % Positions
<1>1. d \in Int /\ p \in Int /\ n = Positions * d + p
  BY DivMod
<1>2. e \in Int /\ r \in 0 .. Positions - 1 /\ p + 1 = Positions * e + r
  BY <1>1, DivMod
<1> HIDE DEF d, p, e, r
<1> DEFINE q == d + e
<1>3. /\ n + 1 = Positions * q + r
      /\ q \in Int /\ n + 1 \in Int /\ Positions \in Nat \ {0}
  BY <1>1, <1>2
<1> HIDE DEF q
<1>4. (n + 1) % Positions = r
  BY <1>2, <1>3, ModUnique, Zenon
<1> QED
  BY <1>4 DEF p, r

\* Less than a round apart, two numbers have different slots ...
LEMMA Apart ==
  \A a, b \in Nat : a < b /\ b < a + Capacity => Cell(a) # Cell(b)
<1> SUFFICES ASSUME NEW a \in Nat, NEW b \in Nat, a < b, b < a + Capacity,
                    a % Capacity = b % Capacity
             PROVE  FALSE
  BY DEF Cell
<1> USE ChannelAssumption
<1> DEFINE da == a \div Capacity
           db == b \div Capacity
           r == a % Capacity
<1>1. da \in Int /\ r \in Int /\ a = Capacity * da + r
  BY DivMod
<1>2. db \in Int /\ b = Capacity * db + r
  BY DivMod
<1> HIDE DEF da, db, r
<1>3. Capacity * (db - da) = b - a
  BY <1>1, <1>2
<1>4. db - da = 0
  BY <1>1, <1>2, <1>3, SmallMultiple
<1> QED
  BY <1>1, <1>2, <1>4

\* ... and a round apart the same.
LEMMA Round ==
  \A n \in Nat : Cell(n + Capacity) = Cell(n)
<1> SUFFICES ASSUME NEW n \in Nat PROVE (n + Capacity) % Capacity = n % Capacity
  BY DEF Cell
<1> USE ChannelAssumption
<1> DEFINE d == n \div Capacity
           r == n % Capacity
<1>1. d \in Int /\ r \in 0 .. Capacity - 1 /\ n = Capacity * d + r
  BY DivMod
<1> HIDE DEF d, r
<1> DEFINE q == d + 1
<1>2. n + Capacity = Capacity * q + r /\ q \in Int /\ n + Capacity \in Int
  BY <1>1
<1> HIDE DEF q
<1>3. (n + Capacity) % Capacity = r
  BY <1>1, <1>2, ModUnique, Zenon
<1> QED
  BY <1>3 DEF r

LEMMA CellRange == \A n \in Nat : Cell(n) \in 0 .. Capacity - 1
  BY ChannelAssumption DEF Cell

-----------------------------------------------------------------------------
(* The ring, until two senders crowd *)

LEMMA OneInFlightStep ==
  ASSUME TypeOK, Places, OneInFlight, [Next]_vars, ~crowded'
  PROVE  OneInFlight'
<1> USE ChannelAssumption DEF Goto, Register, ring, queues, history, Tasks, TypeOK,
                              OneInFlight, InFlight
<1>1. CASE UNCHANGED vars
  BY <1>1 DEF vars
<1>2. ASSUME NEW t \in Tasks, Repoll(t) PROVE OneInFlight'
  BY <1>2 DEF Repoll
<1>3. ASSUME NEW t \in Tasks, NEW f \in BOOLEAN, Begin(t, f) PROVE OneInFlight'
  BY <1>3 DEF Begin
<1>4. ASSUME NEW s \in Senders, SendCheck(s) PROVE OneInFlight'
  <2>1. CASE HasRoom
    <3>1. \A u \in Senders : pc[u] \notin {"claim", "write", "count"}
      BY <1>4, <2>1 DEF SendCheck
    <3>2. len' < Capacity
      BY <1>4, <2>1 DEF SendCheck, HasRoom
    <3> QED
      BY <1>4, <3>1, <3>2 DEF SendCheck
  <2>2. CASE ~HasRoom
    BY <1>4, <2>2 DEF SendCheck
  <2> QED
    BY <2>1, <2>2
<1>5. ASSUME NEW s \in Senders, SendClaim(s) \/ SendWrite(s) PROVE OneInFlight'
  BY <1>5 DEF SendClaim, SendWrite
<1>6. ASSUME NEW s \in Senders, SendCount(s) PROVE OneInFlight'
  BY <1>6 DEF SendCount
<1>7. ASSUME NEW s \in Senders, SendWake(s) \/ SendUnregister(s) \/ SendPark(s)
      PROVE  OneInFlight'
  <2>1. CASE SendWake(s)
    BY <2>1 DEF SendWake
  <2>2. CASE SendUnregister(s)
    BY <2>2 DEF SendUnregister
  <2>3. CASE SendPark(s)
    BY <2>3 DEF SendPark
  <2> QED
    BY <1>7, <2>1, <2>2, <2>3
<1>8. CASE RecvCheck \/ RecvClaim \/ RecvRead
  <2>1. CASE RecvCheck
    BY <2>1 DEF RecvCheck
  <2>2. CASE RecvClaim
    BY <2>2 DEF RecvClaim
  <2>3. CASE RecvRead
    BY <2>3 DEF RecvRead
  <2> QED
    BY <1>8, <2>1, <2>2, <2>3
<1>9. CASE RecvUncount \/ RecvWake \/ RecvUnregister
  <2>1. CASE RecvUncount
    <3>1. len' = len - 1 /\ \A u \in Senders : pc'[u] = pc[u]
      BY <2>1 DEF RecvUncount
    <3>2. len \in Nat /\ Capacity \in Nat
      OBVIOUS
    <3>3. \A u, v \in Senders : InFlight(u)' /\ InFlight(v)' => u = v
      BY <3>1 DEF InFlight
    <3>4. \A u \in Senders : pc'[u] \in {"claim", "write"} => len' < Capacity
      BY <3>1, <3>2
    <3> QED
      BY <3>3, <3>4
  <2>2. CASE RecvWake
    BY <2>2 DEF RecvWake
  <2>3. CASE RecvUnregister
    BY <2>3 DEF RecvUnregister
  <2> QED
    BY <1>9, <2>1, <2>2, <2>3
<1>10. CASE RecvPark \/ RecvRecheck \/ RecvUnlink
  <2>1. CASE RecvPark
    BY <2>1 DEF RecvPark
  <2>2. CASE RecvRecheck
    BY <2>2 DEF RecvRecheck
  <2>3. CASE RecvUnlink
    BY <2>3 DEF RecvUnlink
  <2> QED
    BY <1>10, <2>1, <2>2, <2>3
<1> QED
  BY <1>1, <1>2, <1>3, <1>4, <1>5, <1>6, <1>7, <1>8, <1>9, <1>10
     DEF Next, Send, Recv

\* A step that moves no message and no position.
Still ==
  /\ UNCHANGED <<ring, pos, history>>
  /\ \A s \in Senders : /\ pc'[s] = "write" <=> pc[s] = "write"
                        /\ pc'[s] = "count" <=> pc[s] = "count"
  /\ pc'[Receiver] = "read" <=> pc[Receiver] = "read"
  /\ pc'[Receiver] = "uncount" <=> pc[Receiver] = "uncount"

LEMMA StillRing ==
  ASSUME Still, NEW w \in Nat, NEW r \in Nat, RingOf(w, r), InOrder
  PROVE  RingOf(w, r)' /\ InOrder'
<1>1. /\ (Writing <=> Writing') /\ (Counting <=> Counting')
      /\ \A s \in Senders : Got(s)' = Got(s)
      /\ \A n \in Nat : Slot(n)' = Slot(n)
  BY DEF Still, Writing, Counting, Got, Slot, ring, history
<1>2. Positioned(w, r)'
  BY <1>1 DEF RingOf, Positioned, Still, ring
<1>3. Counted(w, r)'
  BY <1>1 DEF RingOf, Counted, Still, ring
<1>4. Occupied(w, r)'
  BY <1>1 DEF RingOf, Occupied, Still, ring, Slot
<1>5. Ordered(w, r)'
  BY <1>1 DEF RingOf, Ordered, Still, ring, history, Got, Slot
<1>6. InOrder'
  BY DEF InOrder, Still, history
<1> QED
  BY <1>2, <1>3, <1>4, <1>5, <1>6 DEF RingOf

LEMMA StillSteps ==
  ASSUME TypeOK, [Next]_vars,
         \A s \in Senders : ~SendClaim(s) /\ ~SendWrite(s) /\ ~SendCount(s),
         ~RecvClaim, ~RecvRead, ~RecvUncount
  PROVE  Still
<1> USE ChannelAssumption DEF Goto, Register, ring, queues, history, Tasks, TypeOK,
                              Still
<1>1. CASE UNCHANGED vars
  BY <1>1 DEF vars
<1>2. ASSUME NEW t \in Tasks, Repoll(t) PROVE Still
  BY <1>2 DEF Repoll
<1>3. ASSUME NEW t \in Tasks, NEW f \in BOOLEAN, Begin(t, f) PROVE Still
  BY <1>3 DEF Begin
<1>4. ASSUME NEW s \in Senders, SendCheck(s) \/ SendWake(s) PROVE Still
  <2>1. CASE SendCheck(s)
    BY <2>1 DEF SendCheck
  <2>2. CASE SendWake(s)
    BY <2>2 DEF SendWake
  <2> QED
    BY <1>4, <2>1, <2>2
<1>5. ASSUME NEW s \in Senders, SendUnregister(s) \/ SendPark(s) PROVE Still
  BY <1>5 DEF SendUnregister, SendPark
<1>6. CASE RecvCheck \/ RecvWake \/ RecvUnregister
  BY <1>6 DEF RecvCheck, RecvWake, RecvUnregister
<1>7. CASE RecvPark \/ RecvRecheck \/ RecvUnlink
  BY <1>7 DEF RecvPark, RecvRecheck, RecvUnlink
<1> QED
  BY <1>1, <1>2, <1>3, <1>4, <1>5, <1>6, <1>7 DEF Next, Send, Recv
\* The senders' steps on the ring.
LEMMA ClaimRing ==
  ASSUME TypeOK, OneInFlight, NEW w \in Nat, NEW r \in Nat, RingOf(w, r), InOrder,
         NEW s \in Senders, SendClaim(s)
  PROVE  RingOf(w, r)' /\ InOrder'
<1> USE DEF Goto, Tasks, TypeOK
<1>1. \A u \in Senders : InFlight(u) => u = s
  BY DEF SendClaim, OneInFlight, InFlight
<1>2. ~Writing /\ Writing' /\ ~Counting /\ ~Counting'
  BY <1>1 DEF SendClaim, Writing, Counting, InFlight
<1>3. pc'[Receiver] = pc[Receiver]
  BY ChannelAssumption DEF SendClaim
<1>4. Positioned(w, r)'
  <2>1. send_pos = Posn(w) /\ send_pos' = Posn(w + 1)
    BY <1>2, Successor DEF SendClaim, RingOf, Positioned
  <2>2. pos'[s] = Posn(w) /\ pos'[Receiver] = pos[Receiver]
    BY <2>1, ChannelAssumption DEF SendClaim
  <2>3. \A u \in Senders : pc'[u] = "write" => u = s
    BY <1>1 DEF SendClaim, InFlight
  <2>4. recv_pos' = recv_pos
    BY DEF SendClaim
  <2> QED
    BY <1>2, <1>3, <2>1, <2>2, <2>3, <2>4 DEF RingOf, Positioned, Posn
<1>5. Counted(w, r)'
  BY <1>2, <1>3 DEF SendClaim, RingOf, Counted
<1>6. \A n \in Nat : Slot(n)' = Slot(n)
  BY DEF SendClaim, Slot
<1>7. Occupied(w, r)'
  BY <1>6 DEF SendClaim, RingOf, Occupied, Slot
<1>8. \A u \in Senders : Got(u)' = Got(u)
  BY <1>3 DEF SendClaim, Got, history
<1>9. Ordered(w, r)'
  BY <1>3 DEF SendClaim, RingOf, Ordered, Slot, Got, history
<1>10. InOrder'
  BY <1>3 DEF InOrder, SendClaim, history
<1> QED
  BY <1>4, <1>5, <1>7, <1>9, <1>10 DEF RingOf

LEMMA CountRing ==
  ASSUME TypeOK, OneInFlight, NEW w \in Nat, NEW r \in Nat, RingOf(w, r), InOrder,
         NEW s \in Senders, SendCount(s)
  PROVE  RingOf(w, r)' /\ InOrder'
<1> USE DEF Goto, Tasks, TypeOK
<1>1. \A u \in Senders : InFlight(u) => u = s
  BY DEF SendCount, OneInFlight, InFlight
<1>2. ~Writing /\ ~Writing' /\ Counting /\ ~Counting'
  BY <1>1 DEF SendCount, Writing, Counting, InFlight
<1>3. pc'[Receiver] = pc[Receiver]
  BY ChannelAssumption DEF SendCount
<1>4. Positioned(w, r)'
  <2>1. send_pos' = send_pos /\ recv_pos' = recv_pos /\ pos' = pos
    BY DEF SendCount
  <2>2. \A u \in Senders : pc'[u] # "write"
    BY <1>2 DEF Writing
  <2> QED
    BY <1>2, <1>3, <2>1, <2>2 DEF RingOf, Positioned
<1>5. Counted(w, r)'
  BY <1>2, <1>3 DEF SendCount, RingOf, Counted
<1>6. Occupied(w, r)'
  BY DEF SendCount, RingOf, Occupied, Slot
<1>7. Ordered(w, r)'
  BY <1>3 DEF SendCount, RingOf, Ordered, Slot, Got, history
<1>8. InOrder'
  BY <1>3 DEF InOrder, SendCount, history
<1> QED
  BY <1>4, <1>5, <1>6, <1>7, <1>8 DEF RingOf

\* The slot that a sender writes.
LEMMA WrittenSlot ==
  ASSUME TypeOK, OneInFlight, NEW w \in Nat, NEW r \in Nat, RingOf(w, r),
         NEW s \in Senders, pc[s] = "write"
  PROVE  /\ \A u \in Senders : InFlight(u) => u = s
         /\ Writing /\ ~Counting
         /\ w - r < Capacity
         /\ Idx(pos[s]) = Cell(w) /\ ~Slot(w).occupied
<1>1. \A u \in Senders : InFlight(u) => u = s
  BY DEF OneInFlight, InFlight
<1>2. Writing /\ ~Counting
  BY <1>1 DEF Writing, Counting, InFlight
<1>3. w - r < Capacity
  <2>1. len < Capacity /\ len \in Nat
    BY DEF OneInFlight, TypeOK
  <2> QED
    BY <1>2, <2>1, ChannelAssumption DEF RingOf, Counted
<1>4. Idx(pos[s]) = Cell(w)
  BY IdxOf DEF RingOf, Positioned
<1>5. w \in w .. r + Capacity - 1
  BY <1>3, ChannelAssumption
<1>6. ~Slot(w).occupied
  BY <1>5 DEF RingOf, Occupied
<1> QED
  BY <1>1, <1>2, <1>3, <1>4, <1>6

\* What a slot holds.
LEMMA SlotValue ==
  ASSUME TypeOK, NEW n \in Nat
  PROVE  /\ Slot(n) \in [value : Values, occupied : BOOLEAN]
         /\ Slot(n).value = <<Slot(n).value[1], Slot(n).value[2]>>
         /\ Slot(n).value[1] \in Tasks /\ Slot(n).value[2] \in 0 .. MaxSends
<1>1. Slot(n) \in [value : Values, occupied : BOOLEAN]
  BY CellRange DEF TypeOK, Slot
<1>2. Slot(n).value \in Tasks \X (0 .. MaxSends)
  BY <1>1 DEF Values
<1> QED
  BY <1>1, <1>2

LEMMA WriteRing ==
  ASSUME TypeOK, OneInFlight, NEW w \in Nat, NEW r \in Nat, RingOf(w, r), InOrder,
         NEW s \in Senders, SendWrite(s)
  PROVE  RingOf(w + 1, r)' /\ InOrder'
<1>1. /\ \A u \in Senders : InFlight(u) => u = s
      /\ Writing /\ ~Counting /\ w - r < Capacity
      /\ Idx(pos[s]) = Cell(w)
  BY WrittenSlot DEF SendWrite
<1>2. /\ pc' = [pc EXCEPT ![s] = "count"]
      /\ slots' = [slots EXCEPT ![Cell(w)] = [value |-> Message(s), occupied |-> TRUE]]
      /\ sent' = [sent EXCEPT ![s] = @ + 1]
      /\ UNCHANGED <<send_pos, recv_pos, len, pos, value, rcvd>>
  BY <1>1 DEF SendWrite, Goto
<1>3. r <= w
  BY DEF RingOf, Positioned
<1>4. ~Writing' /\ Counting' /\ pc'[Receiver] = pc[Receiver]
  BY <1>1, <1>2, ChannelAssumption DEF Writing, Counting, InFlight, TypeOK, Tasks
<1>5. Positioned(w + 1, r)'
  <2>1. \A u \in Senders : pc'[u] # "write"
    BY <1>4 DEF Writing
  <2> QED
    BY <1>1, <1>2, <1>3, <1>4, <2>1, ChannelAssumption DEF RingOf, Positioned
<1>6. Counted(w + 1, r)'
  BY <1>1, <1>2, <1>4, SMTT(30) DEF RingOf, Counted, TypeOK
<1>7. Slot(w)' = [value |-> Message(s), occupied |-> TRUE]
  BY <1>2, CellRange DEF Slot, Cell, TypeOK
<1>8. \A n \in r .. r + Capacity - 1 : n # w => Slot(n)' = Slot(n)
  <2> SUFFICES ASSUME NEW n \in r .. r + Capacity - 1, n # w
               PROVE  Slot(n)' = Slot(n)
    OBVIOUS
  <2>1. n \in Nat /\ Cell(n) # Cell(w)
    BY <1>1, <1>3, Apart, ChannelAssumption
  <2> QED
    BY <1>2, <2>1, CellRange DEF Slot, Cell, TypeOK
<1>9. Occupied(w + 1, r)'
  <2>1. \A n \in r .. (w + 1) - 1 : Slot(n)'.occupied
    <3> SUFFICES ASSUME NEW n \in r .. (w + 1) - 1 PROVE Slot(n)'.occupied
      OBVIOUS
    <3>1. CASE n = w
      BY <1>7, <3>1
    <3>2. CASE n # w
      <4>1. n \in r .. w - 1 /\ n \in r .. r + Capacity - 1
        BY <1>1, <1>3, <3>2, ChannelAssumption
      <4> QED
        BY <1>8, <3>2, <4>1 DEF RingOf, Occupied
    <3> QED
      BY <3>1, <3>2
  <2>2. \A n \in w + 1 .. r + Capacity - 1 : ~Slot(n)'.occupied
    <3> SUFFICES ASSUME NEW n \in w + 1 .. r + Capacity - 1 PROVE ~Slot(n)'.occupied
      OBVIOUS
    <3>1. n \in w .. r + Capacity - 1 /\ n \in r .. r + Capacity - 1 /\ n # w
      BY <1>3, ChannelAssumption
    <3> QED
      BY <1>8, <3>1 DEF RingOf, Occupied
  <2> QED
    BY <2>1, <2>2 DEF Occupied, Slot
<1>10. Ordered(w + 1, r)'
  <2>1. \A u \in Senders : Got(u)' = Got(u) /\ Got(u) \in Nat
    BY <1>2, <1>4 DEF Got, TypeOK
  <2>2. \A n \in r .. w - 1 : Slot(n)' = Slot(n)
    BY <1>1, <1>3, <1>8, ChannelAssumption
  <2>3. Slot(w)'.value = <<s, sent[s] + 1>>
    BY <1>7 DEF Message
  <2>4. /\ sent'[s] = sent[s] + 1 /\ sent[s] \in Nat
        /\ \A u \in Senders : u # s => sent'[u] = sent[u]
    BY <1>2 DEF TypeOK
  <2>5. \A n \in r .. (w + 1) - 1 : n # w => n \in r .. w - 1
    OBVIOUS
  <2>6. Slot(w)'.value[1] = s /\ Slot(w)'.value[2] = sent[s] + 1
    BY <2>3
  <2>7. \A u \in Senders : Got(u)' <= sent'[u]
    <3>1. \A u \in Senders : Got(u) <= sent[u] /\ sent[u] \in Nat
      BY DEF RingOf, Ordered, TypeOK
    <3> QED
      BY <2>1, <2>4, <3>1
  <2>8. ASSUME NEW n \in r .. (w + 1) - 1
        PROVE  /\ Slot(n)'.value[1] \in Senders
               /\ \A u \in Senders : Slot(n)'.value[1] = u =>
                    Got(u)' < Slot(n)'.value[2] /\ Slot(n)'.value[2] <= sent'[u]
    <3>1. CASE n = w
      BY <2>1, <2>4, <2>6, <3>1 DEF RingOf, Ordered
    <3>2. CASE n # w
      <4>1. n \in r .. w - 1 /\ Slot(n)' = Slot(n)
        BY <2>2, <2>5, <3>2
      <4>2. PICK u \in Senders, k \in 0 .. MaxSends :
              u = Slot(n).value[1] /\ k = Slot(n).value[2]
        BY <4>1, SlotValue DEF RingOf, Ordered
      <4>3. Got(u) < k /\ k <= sent[u]
        BY <4>1, <4>2 DEF RingOf, Ordered
      <4>4. sent[u] \in Nat /\ sent[u] <= sent'[u] /\ sent'[u] \in Nat
        <5>1. sent[u] \in Nat
          BY ChannelAssumption DEF TypeOK
        <5>2. sent'[u] = sent[u] \/ sent'[u] = sent[u] + 1
          BY <2>4
        <5> QED
          BY <5>1, <5>2
      <4>5. Got(u)' < k /\ k <= sent'[u] /\ k \in Nat
        BY <2>1, <4>2, <4>3, <4>4
      <4> QED
        BY <4>1, <4>2, <4>5
    <3> QED
      BY <3>1, <3>2
  <2>9. \A u \in Senders, k \in 1 .. MaxSends :
          Got(u)' < k /\ k <= sent'[u] =>
            \E n \in r .. (w + 1) - 1 : Slot(n)'.value = <<u, k>>
    <3> SUFFICES ASSUME NEW u \in Senders, NEW k \in 1 .. MaxSends,
                        Got(u)' < k, k <= sent'[u]
                 PROVE  \E n \in r .. (w + 1) - 1 : Slot(n)'.value = <<u, k>>
      OBVIOUS
    <3>1. CASE u = s /\ k = sent[s] + 1
      BY <1>3, <2>3, <3>1
    <3>2. CASE ~(u = s /\ k = sent[s] + 1)
      <4>1. Got(u) < k /\ k <= sent[u]
        BY <2>1, <2>4, <3>2
      <4>2. PICK n \in r .. w - 1 : Slot(n).value = <<u, k>>
        BY <4>1 DEF RingOf, Ordered
      <4> QED
        BY <2>2, <4>2
    <3> QED
      BY <3>1, <3>2
  <2>10. \A n, m \in r .. (w + 1) - 1 :
           n < m /\ Slot(n)'.value[1] = Slot(m)'.value[1]
             => Slot(n)'.value[2] < Slot(m)'.value[2]
    <3> SUFFICES ASSUME NEW n \in r .. (w + 1) - 1, NEW m \in r .. (w + 1) - 1,
                        n < m, Slot(n)'.value[1] = Slot(m)'.value[1]
                 PROVE  Slot(n)'.value[2] < Slot(m)'.value[2]
      OBVIOUS
    <3>1. n \in r .. w - 1 /\ Slot(n)' = Slot(n)
      BY <2>2
    <3>2. PICK u \in Senders, k \in 0 .. MaxSends :
            u = Slot(n).value[1] /\ k = Slot(n).value[2]
      BY <3>1, SlotValue DEF RingOf, Ordered
    <3>3. k <= sent[u]
      BY <3>1, <3>2 DEF RingOf, Ordered
    <3>4. CASE m = w
      BY <2>4, <2>6, <3>1, <3>2, <3>3, <3>4
    <3>5. CASE m # w
      <4>1. m \in r .. w - 1 /\ Slot(m)' = Slot(m)
        BY <2>2, <2>5, <3>5
      <4> QED
        BY <3>1, <4>1 DEF RingOf, Ordered
    <3> QED
      BY <3>4, <3>5
  <2> QED
    BY <2>7, <2>8, <2>9, <2>10 DEF Ordered, Slot, Got
<1>11. InOrder'
  BY <1>2, <1>4 DEF InOrder
<1> QED
  BY <1>5, <1>6, <1>9, <1>10, <1>11 DEF RingOf
\* The receiver's steps on the ring.
LEMMA RecvClaimRing ==
  ASSUME TypeOK, NEW w \in Nat, NEW r \in Nat, RingOf(w, r), InOrder, RecvClaim
  PROVE  RingOf(w, r)' /\ InOrder'
<1>1. /\ pc[Receiver] = "claim" /\ pc' = [pc EXCEPT ![Receiver] = "read"]
      /\ pos' = [pos EXCEPT ![Receiver] = recv_pos]
      /\ recv_pos' = (recv_pos + 1) % Positions
      /\ UNCHANGED <<slots, send_pos, len, value, sent, rcvd>>
  BY DEF RecvClaim, Goto, history
<1>2. /\ \A s \in Senders : pc'[s] = pc[s] /\ pos'[s] = pos[s]
      /\ pc'[Receiver] = "read" /\ pos'[Receiver] = recv_pos
  BY <1>1, ChannelAssumption DEF TypeOK, Tasks
<1>3. (Writing' <=> Writing) /\ (Counting' <=> Counting)
  BY <1>2 DEF Writing, Counting
<1>4. Positioned(w, r)'
  <2>1. recv_pos = Posn(r) /\ recv_pos' = Posn(r + 1)
    BY <1>1, Successor DEF RingOf, Positioned
  <2> QED
    BY <1>1, <1>2, <1>3, <2>1 DEF RingOf, Positioned, Posn
<1>5. Counted(w, r)'
  BY <1>1, <1>2, <1>3 DEF RingOf, Counted
<1>6. Occupied(w, r)'
  BY <1>1 DEF RingOf, Occupied, Slot
<1>7. Ordered(w, r)'
  BY <1>1, <1>2 DEF RingOf, Ordered, Slot, Got
<1>8. InOrder'
  BY <1>1, <1>2 DEF InOrder
<1> QED
  BY <1>4, <1>5, <1>6, <1>7, <1>8 DEF RingOf

LEMMA ReadRing ==
  ASSUME TypeOK, Places, NEW w \in Nat, NEW r \in Nat, RingOf(w, r), InOrder,
         RecvRead
  PROVE  RingOf(w, r + 1)' /\ InOrder'
<1>1. /\ pc[Receiver] = "read" /\ pc' = [pc EXCEPT ![Receiver] = "uncount"]
      /\ value' = slots[Idx(pos[Receiver])].value
      /\ slots' = [slots EXCEPT ![Idx(pos[Receiver])].occupied = FALSE]
      /\ UNCHANGED <<send_pos, recv_pos, len, pos, sent, rcvd>>
  BY DEF RecvRead, Goto
<1>2. Idx(pos[Receiver]) = Cell(r)
  BY <1>1, IdxOf DEF RingOf, Positioned
<1>3. /\ \A s \in Senders : pc'[s] = pc[s]
      /\ pc'[Receiver] = "uncount"
  BY <1>1, ChannelAssumption DEF TypeOK, Tasks
<1>4. (Writing' <=> Writing) /\ (Counting' <=> Counting)
  BY <1>3 DEF Writing, Counting
<1>5. r + 1 <= w
  <2>1. len > 0 /\ len \in Nat
    BY <1>1 DEF Places, TypeOK
  <2> QED
    BY <1>1, <2>1 DEF RingOf, Counted
<1>6. /\ \A n \in Nat : Slot(n)'.value = Slot(n).value
      /\ \A n \in Nat : Cell(n) # Cell(r) => Slot(n)' = Slot(n)
      /\ \A n \in Nat : Cell(n) = Cell(r) => ~Slot(n)'.occupied
  BY <1>1, <1>2, CellRange DEF Slot, Cell, TypeOK
<1>7. Positioned(w, r + 1)'
  BY <1>1, <1>3, <1>4, <1>5, ChannelAssumption DEF RingOf, Positioned
<1>8. Counted(w, r + 1)'
  BY <1>1, <1>3, <1>4 DEF RingOf, Counted, TypeOK
<1>9. w - r <= Capacity
  BY DEF RingOf, Positioned
<1>10. Occupied(w, r + 1)'
  <2>1. ASSUME NEW n \in r + 1 .. w - 1 PROVE Slot(n)'.occupied
    <3>1. n \in r .. w - 1 /\ n \in Nat /\ r < n /\ n < r + Capacity
      BY <1>9, ChannelAssumption
    <3>2. Slot(n)' = Slot(n)
      BY <1>6, <3>1, Apart
    <3> QED
      BY <3>1, <3>2 DEF RingOf, Occupied
  <2>2. ASSUME NEW n \in w .. (r + 1) + Capacity - 1 PROVE ~Slot(n)'.occupied
    <3>1. CASE n = r + Capacity
      BY <1>6, <3>1, Round, ChannelAssumption
    <3>2. CASE n # r + Capacity
      <4>1. n \in w .. r + Capacity - 1 /\ n \in Nat /\ r < n /\ n < r + Capacity
        BY <1>5, <3>2, ChannelAssumption
      <4>2. Slot(n)' = Slot(n)
        BY <1>6, <4>1, Apart
      <4> QED
        BY <4>1, <4>2 DEF RingOf, Occupied
    <3> QED
      BY <3>1, <3>2
  <2> QED
    BY <2>1, <2>2 DEF Occupied, Slot
<1>11. PICK s \in Senders, k \in 0 .. MaxSends : Slot(r).value = <<s, k>>
  <2>1. r \in r .. w - 1
    BY <1>5
  <2>2. Slot(r).value[1] \in Senders
    BY <2>1 DEF RingOf, Ordered
  <2> QED
    BY <2>2, SlotValue
<1>12. rcvd[s] < k /\ k <= sent[s] /\ rcvd[s] \in Nat /\ sent[s] \in 0 .. MaxSends
  <2>1. r \in r .. w - 1 /\ Slot(r).value[1] = s /\ Slot(r).value[2] = k
    BY <1>5, <1>11
  <2>2. Got(s) < k /\ k <= sent[s]
    BY <2>1 DEF RingOf, Ordered
  <2>3. Got(s) = rcvd[s]
    BY <1>1 DEF Got, TypeOK
  <2> QED
    BY <2>2, <2>3 DEF TypeOK
\* A smaller number would be further behind.
<1>13. k = rcvd[s] + 1
  <2>0. k \in Nat /\ MaxSends \in Nat /\ k <= MaxSends
    BY ChannelAssumption
  <2> SUFFICES ASSUME rcvd[s] + 1 < k PROVE FALSE
    BY <1>12, <2>0
  <2>1. rcvd[s] + 1 \in 1 .. MaxSends /\ rcvd[s] + 1 <= sent[s]
    BY <1>12, <2>0
  <2>2. Got(s) = rcvd[s]
    BY <1>1 DEF Got, TypeOK
  <2>3. PICK n \in r .. w - 1 : Slot(n).value = <<s, rcvd[s] + 1>>
    <3>1. PICK j \in 1 .. MaxSends : j = rcvd[s] + 1
      BY <2>1
    <3>2. Got(s) < j /\ j <= sent[s]
      BY <1>12, <2>1, <2>2, <3>1
    <3>3. \E n \in r .. w - 1 : Slot(n).value = <<s, j>>
      BY <3>2 DEF RingOf, Ordered
    <3> QED
      BY <3>1, <3>3
  <2>4. r \in r .. w - 1 /\ Slot(r).value[1] = s /\ Slot(r).value[2] = k
    BY <1>5, <1>11
  <2>5. n # r
    BY <1>12, <2>3, <2>4
  <2>6. r < n /\ Slot(n).value[1] = s /\ Slot(n).value[2] = rcvd[s] + 1
    BY <2>3, <2>5
  <2>7. k < rcvd[s] + 1
    BY <2>4, <2>6 DEF RingOf, Ordered
  <2> QED
    BY <1>12, <2>7
<1>14. /\ value' = <<s, k>>
       /\ Got(s)' = rcvd[s] + 1
       /\ \A u \in Senders : u # s => Got(u)' = Got(u)
       /\ \A u \in Senders : Got(u) = rcvd[u] /\ Got(u) \in Nat
  BY <1>1, <1>2, <1>3, <1>11 DEF Got, Slot, TypeOK
<1>15. InOrder'
  BY <1>1, <1>13, <1>14 DEF InOrder
<1>16. Ordered(w, r + 1)'
  <2>1. \A u \in Senders : Got(u)' <= sent'[u]
    <3>1. \A u \in Senders : Got(u) <= sent[u]
      BY DEF RingOf, Ordered
    <3> QED
      BY <1>1, <1>12, <1>13, <1>14, <3>1
  <2>2. \A n \in r + 1 .. w - 1 : n \in r .. w - 1 /\ n \in Nat /\ r < n
    BY <1>5
  <2>3. ASSUME NEW n \in r + 1 .. w - 1
        PROVE  /\ Slot(n)'.value[1] \in Senders
               /\ \A u \in Senders : Slot(n)'.value[1] = u =>
                    Got(u)' < Slot(n)'.value[2] /\ Slot(n)'.value[2] <= sent'[u]
    <3>1. n \in r .. w - 1 /\ n \in Nat /\ r < n /\ Slot(n)'.value = Slot(n).value
      BY <1>6, <2>2
    <3>2. PICK u \in Senders, m \in 0 .. MaxSends :
            Slot(n).value[1] = u /\ Slot(n).value[2] = m
      BY <3>1, SlotValue DEF RingOf, Ordered
    <3>3. Got(u) < m /\ m <= sent[u]
      BY <3>1, <3>2 DEF RingOf, Ordered
    <3>4. CASE u # s
      BY <1>1, <1>14, <3>1, <3>2, <3>3, <3>4
    <3>5. CASE u = s
      <4>1. r \in r .. w - 1 /\ Slot(r).value[1] = s /\ Slot(r).value[2] = k
        BY <1>5, <1>11
      <4>2. k < m
        BY <3>1, <3>2, <3>5, <4>1 DEF RingOf, Ordered
      <4> QED
        BY <1>1, <1>13, <1>14, <3>1, <3>2, <3>3, <3>5, <4>2
    <3> QED
      BY <3>4, <3>5
  <2>4. ASSUME NEW u \in Senders, NEW m \in 1 .. MaxSends, Got(u)' < m, m <= sent'[u]
        PROVE  \E n \in r + 1 .. w - 1 : Slot(n)'.value = <<u, m>>
    <3>1. Got(u) < m /\ m <= sent[u] /\ ~(u = s /\ m = k)
      BY <1>1, <1>13, <1>14, <2>4
    <3>2. PICK n \in r .. w - 1 : Slot(n).value = <<u, m>>
      BY <3>1 DEF RingOf, Ordered
    <3>3. n # r
      BY <1>11, <3>1, <3>2
    <3>4. n \in r + 1 .. w - 1 /\ n \in Nat
      BY <3>3
    <3> QED
      BY <1>6, <3>2, <3>4
  <2>5. ASSUME NEW n \in r + 1 .. w - 1, NEW m \in r + 1 .. w - 1,
               n < m, Slot(n)'.value[1] = Slot(m)'.value[1]
        PROVE  Slot(n)'.value[2] < Slot(m)'.value[2]
    <3>1. n \in r .. w - 1 /\ m \in r .. w - 1 /\ n \in Nat /\ m \in Nat
      BY <2>2
    <3>2. Slot(n)'.value = Slot(n).value /\ Slot(m)'.value = Slot(m).value
      BY <1>6, <3>1
    <3> QED
      BY <2>5, <3>1, <3>2 DEF RingOf, Ordered
  <2> QED
    BY <2>1, <2>3, <2>4, <2>5 DEF Ordered, Slot, Got
<1> QED
  BY <1>7, <1>8, <1>10, <1>15, <1>16 DEF RingOf

LEMMA UncountRing ==
  ASSUME TypeOK, NEW w \in Nat, NEW r \in Nat, RingOf(w, r), InOrder, RecvUncount
  PROVE  RingOf(w, r)' /\ InOrder'
<1>1. /\ pc[Receiver] = "uncount" /\ pc' = [pc EXCEPT ![Receiver] = "wake"]
      /\ len' = len - 1
      /\ UNCHANGED <<slots, send_pos, recv_pos, pos, sent>>
  BY DEF RecvUncount, Goto
<1>2. PICK s \in Senders : value[1] = s /\ rcvd' = [rcvd EXCEPT ![s] = @ + 1]
  BY <1>1 DEF InOrder, RecvUncount
<1>3. /\ \A u \in Senders : pc'[u] = pc[u]
      /\ pc'[Receiver] = "wake"
  BY <1>1, ChannelAssumption DEF TypeOK, Tasks
<1>4. (Writing' <=> Writing) /\ (Counting' <=> Counting)
  BY <1>3 DEF Writing, Counting
<1>5. \A u \in Senders : Got(u)' = Got(u)
  BY <1>1, <1>2, <1>3 DEF Got, TypeOK
<1>6. Positioned(w, r)'
  BY <1>1, <1>3, <1>4 DEF RingOf, Positioned
<1>7. Counted(w, r)'
  BY <1>1, <1>3, <1>4 DEF RingOf, Counted, TypeOK
<1>8. \A n \in Nat : Slot(n)' = Slot(n)
  BY <1>1 DEF Slot
<1>9. Occupied(w, r)'
  BY <1>1 DEF RingOf, Occupied, Slot
<1>10. Ordered(w, r)'
  <2>1. slots' = slots /\ sent' = sent
    BY <1>1
  <2> QED
    BY <1>5, <2>1 DEF RingOf, Ordered, Slot
<1>11. InOrder'
  BY <1>3 DEF InOrder
<1> QED
  BY <1>6, <1>7, <1>9, <1>10, <1>11 DEF RingOf

-----------------------------------------------------------------------------
LEMMA RingInit == Init => RingInv
<1> SUFFICES ASSUME Init PROVE RingInv
  OBVIOUS
<1> USE ChannelAssumption DEF Init, Tasks
<1>1. OneInFlight /\ InOrder
  BY DEF OneInFlight, InFlight, InOrder
<1>2. RingOf(0, 0)
  <2>1. Posn(0) = 0
    BY DEF Posn
  <2>2. ~Writing /\ ~Counting
    BY DEF Writing, Counting
  <2>3. Positioned(0, 0)
    BY <2>1, <2>2 DEF Positioned
  <2>4. Counted(0, 0)
    BY <2>2 DEF Counted
  <2>5. Occupied(0, 0)
    BY CellRange DEF Occupied, Slot, Free
  <2>6. Ordered(0, 0)
    BY DEF Ordered, Got
  <2> QED
    BY <2>3, <2>4, <2>5, <2>6 DEF RingOf
<1> QED
  BY <1>1, <1>2 DEF RingInv, Ring

LEMMA CrowdedStays ==
  ASSUME TypeOK, [Next]_vars, ~crowded'
  PROVE  ~crowded
<1>1. \A s \in Senders : SendCheck(s) => ~crowded
  BY DEF SendCheck
<1>2. UNCHANGED vars => crowded' = crowded
  BY DEF vars
<1>3. \A t \in Tasks : Repoll(t) \/ (\E f \in BOOLEAN : Begin(t, f))
        => crowded' = crowded
  BY DEF Repoll, Begin
<1>4. \A s \in Senders : SendClaim(s) \/ SendWrite(s) \/ SendCount(s) \/ SendWake(s)
                         \/ SendUnregister(s) \/ SendPark(s) => crowded' = crowded
  BY DEF SendClaim, SendWrite, SendCount, SendWake, SendUnregister, SendPark
<1>5. Recv => crowded' = crowded
  BY DEF Recv, RecvCheck, RecvClaim, RecvRead, RecvUncount, RecvWake,
         RecvUnregister, RecvPark, RecvRecheck, RecvUnlink
<1> QED
  BY <1>1, <1>2, <1>3, <1>4, <1>5 DEF Next, Send

LEMMA RingStep == ChannelInv /\ RingInv /\ [Next]_vars => RingInv'
<1> SUFFICES ASSUME ChannelInv, RingInv, [Next]_vars, ~crowded'
             PROVE  (OneInFlight /\ Ring /\ InOrder)'
  BY DEF RingInv
<1>1. TypeOK /\ Places /\ ~crowded /\ OneInFlight /\ Ring /\ InOrder
  BY CrowdedStays DEF ChannelInv, RingInv
<1>2. PICK w \in Nat, r \in Nat : RingOf(w, r)
  BY <1>1 DEF Ring
<1>3. OneInFlight'
  BY <1>1, OneInFlightStep
<1>4. ASSUME NEW s \in Senders, SendClaim(s) \/ SendWrite(s) \/ SendCount(s)
      PROVE  Ring' /\ InOrder'
  BY <1>1, <1>2, <1>4, ClaimRing, WriteRing, CountRing DEF Ring
<1>5. CASE RecvClaim \/ RecvRead \/ RecvUncount
  BY <1>1, <1>2, <1>5, <1>3, RecvClaimRing, ReadRing, UncountRing DEF Ring
<1>6. CASE ~(\E s \in Senders : SendClaim(s) \/ SendWrite(s) \/ SendCount(s))
           /\ ~RecvClaim /\ ~RecvRead /\ ~RecvUncount
  <2>1. Still
    BY <1>1, <1>6, StillSteps
  <2> QED
    BY <1>1, <1>2, <1>3, <2>1, StillRing DEF Ring
<1> QED
  BY <1>3, <1>4, <1>5, <1>6

LEMMA RingInvariance == Spec => []RingInv
  BY ChannelInvariance, RingInit, RingStep, PTL DEF Spec

\* Until two senders are past the test of len at once, the slot a sender claims
\* is free.
THEOREM WritesFreeSlots == Spec => []WritesFreeSlotUntilCrowded
<1>1. ChannelInv /\ RingInv => WritesFreeSlotUntilCrowded
  <2> SUFFICES ASSUME ChannelInv, RingInv, ~crowded, NEW s \in Senders,
                      pc[s] = "write"
               PROVE  ~slots[Idx(pos[s])].occupied
    BY DEF WritesFreeSlotUntilCrowded, WritesFreeSlot
  <2>1. TypeOK /\ OneInFlight /\ Ring
    BY DEF ChannelInv, RingInv
  <2>2. PICK w \in Nat, r \in Nat : RingOf(w, r)
    BY <2>1 DEF Ring
  <2>3. Idx(pos[s]) = Cell(w) /\ ~Slot(w).occupied
    BY <2>1, <2>2, WrittenSlot
  <2> QED
    BY <2>3 DEF Slot
<1> QED
  BY <1>1, ChannelInvariance, RingInvariance, PTL

\* And the receiver gets the messages of each sender once and in order.
THEOREM ReceivedInOrder == Spec => []InOrderUntilCrowded
<1>1. RingInv => InOrderUntilCrowded
  BY DEF RingInv, InOrderUntilCrowded
<1> QED
  BY <1>1, RingInvariance, PTL
=============================================================================

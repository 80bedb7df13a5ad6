--------------------------- MODULE SpscRingProofs ---------------------------
(***************************************************************************)
(* Proofs about the message ring for every capacity, every width of the    *)
(* positions that the capacity divides, and any number of messages.  Inv   *)
(* counts messages instead of positions: messages rcvd + 1 .. sent are in  *)
(* the ring, message n + 1 in slot Cell(n).                                *)
(***************************************************************************)
EXTENDS SpscRing, TLAPS

Cell(n) == n % Capacity   \* the slot of the message after n others
Posn(n) == n % Positions  \* its position

Taking == pc[Consumer] \in {"spin", "take", "unmark", "publish"}
Taken == pc[Consumer] \in {"unmark", "publish"}
Writing == pc[Producer] \in {"write", "mark", "publish"}
Written == pc[Producer] \in {"mark", "publish"}

\* The positions count the messages, and the ring never overflows.
Counters ==
  /\ head = Posn(sent) /\ tail = Posn(rcvd)
  /\ rcvd <= sent /\ sent <= rcvd + Capacity

\* What each end knows of the position it works on.
Locals ==
  /\ pc[Producer] # "idle" => pos[Producer] = head
  /\ Writing => sent < rcvd + Capacity
  /\ Taking \/ pc[Consumer] = "head" => pos[Consumer] = tail
  /\ Taking => rcvd < sent
  /\ pc[Consumer] = "len" => \E n \in rcvd .. sent : pos[Consumer] = Posn(n)

\* The messages between the two ends are in their slots, marked.
Contents ==
  /\ \A n \in rcvd .. sent - 1 :
       /\ n # rcvd \/ ~Taken => slots[Cell(n)].message = n + 1
       /\ n # rcvd \/ pc[Consumer] # "publish" => slots[Cell(n)].occupied = 1
  /\ Written => slots[Cell(sent)].message = sent + 1
  /\ pc[Producer] = "publish" => slots[Cell(sent)].occupied = 1
  /\ InOrder

\* Nothing else is in a slot.
NoStray ==
  \A i \in Indices : LET m == slots[i].message IN m # None =>
    /\ rcvd < m /\ m <= sent + 1 /\ i = Cell(m - 1)
    /\ m = sent + 1 => Written
    /\ m = rcvd + 1 => ~Taken

\* drop() runs after the producer's last call and frees an empty ring.
Dropping ==
  /\ phase # "live" => pc[Producer] = "idle"
  /\ phase = "freed" => sent = rcvd /\ pc[Consumer] = "idle"

Inv == TypeOK /\ Counters /\ Locals /\ Contents /\ NoStray /\ Dropping

-----------------------------------------------------------------------------
(* Arithmetic *)

LEMMA DivMod ==
  ASSUME NEW n \in Int, NEW m \in Nat \ {0}
  PROVE  /\ n \div m \in Int /\ n % m \in 0 .. m - 1
         /\ n = m * (n \div m) + (n % m)
  OBVIOUS

\* The only multiple of m strictly between -m and m is 0.
LEMMA SmallMultiple ==
  ASSUME NEW m \in Nat \ {0}, NEW k \in Int, -m < m * k, m * k < m
  PROVE  k = 0
<1>1. CASE k >= 1
  <2>1. m * k >= m
    BY <1>1
  <2> QED
    BY <2>1
<1>2. CASE k <= -1
  <2>1. m * k <= -m
    BY <1>2
  <2> QED
    BY <2>1
<1> QED
  BY <1>1, <1>2

\* A decomposition with a small remainder is the division.
LEMMA ModUnique ==
  ASSUME NEW m \in Nat \ {0}, NEW n \in Int, NEW q \in Int, NEW r \in 0 .. m - 1,
         n = m * q + r
  PROVE  n % m = r
<1> DEFINE d == n \div m
           e == n % m
<1>1. d \in Int /\ e \in 0 .. m - 1 /\ n = m * d + e
  BY DivMod
<1> HIDE DEF d, e
<1>2. m * (d - q) = r - e
  BY <1>1
<1>3. d - q = 0
  BY <1>1, <1>2, SmallMultiple
<1>4. r = e
  BY <1>1, <1>2, <1>3
<1> QED
  BY <1>4 DEF e

\* Positions that count the same messages have the same slot.
LEMMA IdxOf == \A n \in Nat : Idx(Posn(n)) = Cell(n)
<1> SUFFICES ASSUME NEW n \in Nat PROVE Idx(n % Positions) = n % Capacity
  BY DEF Posn, Cell
<1> USE SpscRingAssumption
<1> DEFINE k == Positions \div Capacity
           d == n \div Positions
           p == n % Positions
           e == p \div Capacity
           r == p % Capacity
<1>1. k \in Int /\ Positions = Capacity * k
  BY DivMod
<1>2. d \in Int /\ p \in Int /\ n = Positions * d + p
  BY DivMod
<1>3. e \in Int /\ r \in 0 .. Capacity - 1 /\ p = Capacity * e + r
  BY <1>2, DivMod
<1> HIDE DEF k, d, p, e, r
<1> DEFINE q == k * d + e
<1>4. n = Capacity * q + r
  BY <1>1, <1>2, <1>3
<1>5. q \in Int /\ n \in Int /\ Capacity \in Nat \ {0}
  BY <1>1, <1>2, <1>3
<1> HIDE DEF q
<1>6. n % Capacity = r
  BY <1>3, <1>4, <1>5, ModUnique, Zenon
<1> QED
  BY <1>6 DEF Idx, p, r

\* The successor of a position.
LEMMA Successor ==
  \A n \in Nat : (Posn(n) + 1) % Positions = Posn(n + 1)
<1> SUFFICES ASSUME NEW n \in Nat
             PROVE  ((n % Positions) + 1) % Positions = (n + 1) % Positions
  BY DEF Posn
<1> USE SpscRingAssumption
<1> DEFINE d == n \div Positions
           p == n % Positions
           e == (p + 1) \div Positions
           r == (p + 1) % Positions
<1>1. d \in Int /\ p \in Int /\ n = Positions * d + p
  BY DivMod
<1>2. e \in Int /\ r \in 0 .. Positions - 1 /\ p + 1 = Positions * e + r
  BY <1>1, DivMod
<1> HIDE DEF d, p, e, r
<1> DEFINE q == d + e
<1>3. /\ n + 1 = Positions * q + r
      /\ q \in Int /\ n + 1 \in Int /\ Positions \in Nat \ {0}
  BY <1>1, <1>2
<1> HIDE DEF q
<1>4. (n + 1) % Positions = r
  BY <1>2, <1>3, ModUnique, Zenon
<1> QED
  BY <1>4 DEF p, r

\* head - tail in the width of the positions is the number of messages.
LEMMA UsedIs ==
  \A a, b \in Nat : b <= a /\ a <= b + Capacity
                    => Used(Posn(a), Posn(b)) = a - b
<1> SUFFICES ASSUME NEW a \in Nat, NEW b \in Nat, b <= a, a <= b + Capacity
             PROVE  Used(a % Positions, b % Positions) = a - b
  BY DEF Posn
<1> USE SpscRingAssumption
<1> DEFINE da == a \div Positions
           db == b \div Positions
           pa == a % Positions
           pb == b % Positions
<1>1. da \in Int /\ pa \in Int /\ a = Positions * da + pa
  BY DivMod
<1>2. db \in Int /\ pb \in Int /\ b = Positions * db + pb
  BY DivMod
<1> HIDE DEF da, db, pa, pb
<1> DEFINE q == db - da
<1>3. /\ pa - pb = Positions * q + (a - b)
      /\ q \in Int /\ pa - pb \in Int /\ Positions \in Nat \ {0}
  BY <1>1, <1>2
<1>4. a - b \in 0 .. Positions - 1
  OBVIOUS
<1> HIDE DEF q
<1>5. (pa - pb) % Positions = a - b
  BY <1>3, <1>4, ModUnique, Zenon
<1> QED
  BY <1>5 DEF Used, pa, pb

\* Messages less than a capacity apart have different slots.
LEMMA Apart ==
  \A a, b \in Nat : a < b /\ b < a + Capacity => Cell(a) # Cell(b)
<1> SUFFICES ASSUME NEW a \in Nat, NEW b \in Nat, a < b, b < a + Capacity,
                    a % Capacity = b % Capacity
             PROVE  FALSE
  BY DEF Cell
<1> USE SpscRingAssumption
<1> DEFINE da == a \div Capacity
           db == b \div Capacity
           r == a % Capacity
<1>1. da \in Int /\ r \in Int /\ a = Capacity * da + r
  BY DivMod
<1>2. db \in Int /\ b = Capacity * db + r
  BY DivMod
<1> HIDE DEF da, db, r
<1>3. Capacity * (db - da) = b - a
  BY <1>1, <1>2
<1>4. db - da = 0
  BY <1>1, <1>2, <1>3, SmallMultiple
<1> QED
  BY <1>1, <1>2, <1>4

LEMMA Ranges ==
  \A n \in Nat : Posn(n) \in Position /\ Cell(n) \in Indices
  BY DivMod, SpscRingAssumption DEF Position, Indices, Posn, Cell

-----------------------------------------------------------------------------
LEMMA InitInv == Init => Inv
<1> SUFFICES ASSUME Init PROVE Inv
  OBVIOUS
<1> USE SpscRingAssumption DEF Init
<1>1. Posn(0) = 0 /\ 0 \in Position
  BY DEF Posn, Position
<1>2. TypeOK
  BY <1>1 DEF TypeOK, Ends, Producer, Consumer, None
<1>3. \A e \in Ends : pc[e] = "idle"
  OBVIOUS
<1>4. pc[Producer] = "idle" /\ pc[Consumer] = "idle"
  BY <1>3 DEF Ends
<1> QED
  BY <1>1, <1>2, <1>4 DEF Inv, Counters, Locals, Contents, NoStray, Dropping,
     Taking, Taken, Writing, Written, InOrder

\* Both ends' slots, as message counts.
LEMMA OwnSlot ==
  ASSUME Inv
  PROVE  /\ Idx(head) = Cell(sent) /\ Idx(tail) = Cell(rcvd)
         /\ Cell(sent) \in Indices /\ Cell(rcvd) \in Indices
         /\ sent \in Nat /\ rcvd \in Nat
         /\ \A n \in rcvd + 1 .. sent - 1 : Cell(n) # Cell(rcvd)
         /\ sent < rcvd + Capacity =>
               \A n \in rcvd .. sent - 1 : Cell(n) # Cell(sent)
  BY IdxOf, Ranges, Apart, SpscRingAssumption DEF Inv, Counters, TypeOK

LEMMA SendStep == Inv /\ Send => Inv'
<1> SUFFICES ASSUME Inv, Send PROVE Inv'
  OBVIOUS
<1> USE SpscRingAssumption
    DEF Inv, TypeOK, Ends, Producer, Consumer, None, Goto, Counters, Locals,
        Contents, NoStray, Dropping, Taking, Taken, Writing, Written, InOrder
<1>1. CASE SendLoadHead
  BY <1>1 DEF SendLoadHead
<1>2. CASE SendLoadTail
  <2>1. Used(head, tail) = sent - rcvd
    BY UsedIs
  <2> QED
    BY <1>2, <2>1 DEF SendLoadTail, Available
<1>3. CASE SendWrite
  <2>1. slots' = [slots EXCEPT ![Cell(sent)].message = sent + 1]
    BY <1>3, OwnSlot DEF SendWrite
  <2> QED
    BY <1>3, <2>1, OwnSlot DEF SendWrite
<1>4. CASE SendMark
  <2>1. slots' = [slots EXCEPT ![Cell(sent)].occupied = 1]
    BY <1>4, OwnSlot DEF SendMark
  <2> QED
    BY <1>4, <2>1, OwnSlot DEF SendMark
<1>5. CASE SendPublish
  <2>1. head' = Posn(sent + 1) /\ head' \in Position
    BY <1>5, Successor, Ranges DEF SendPublish
  <2> QED
    BY <1>5, <2>1, OwnSlot DEF SendPublish
<1> QED
  BY <1>1, <1>2, <1>3, <1>4, <1>5 DEF Send

LEMMA RecvStep == Inv /\ Recv => Inv'
<1> SUFFICES ASSUME Inv, Recv PROVE Inv'
  OBVIOUS
<1> USE SpscRingAssumption
    DEF Inv, TypeOK, Ends, Producer, Consumer, None, Goto, Counters, Locals,
        Contents, NoStray, Dropping, Taking, Taken, Writing, Written, InOrder
<1>1. CASE RecvLoadTail
  BY <1>1 DEF RecvLoadTail
<1>2. CASE RecvLoadHead
  <2>1. tail = head => sent = rcvd
    <3>1. Used(head, tail) = sent - rcvd /\ Used(head, head) = sent - sent
      BY UsedIs
    <3> QED
      BY <3>1
  <2> QED
    BY <1>2, <2>1 DEF RecvLoadHead
<1>3. CASE RecvSpin
  BY <1>3 DEF RecvSpin
<1>4. CASE RecvTake
  <2>1. /\ slots' = [slots EXCEPT ![Cell(rcvd)].message = None]
        /\ out' = rcvd + 1
    <3>1. rcvd \in rcvd .. sent - 1 /\ ~Taken
      BY <1>4 DEF RecvTake
    <3>2. slots[Cell(rcvd)].message = rcvd + 1
      BY <3>1
    <3> QED
      BY <1>4, <3>2, OwnSlot DEF RecvTake
  <2> QED
    BY <1>4, <2>1, OwnSlot, SMTT(30) DEF RecvTake
<1>5. CASE RecvUnmark
  <2>1. slots' = [slots EXCEPT ![Cell(rcvd)].occupied = 0]
    BY <1>5, OwnSlot DEF RecvUnmark
  <2>2. TypeOK' /\ Counters' /\ Locals' /\ Dropping'
    BY <1>5, <2>1, OwnSlot DEF RecvUnmark
  <2>3. \A i \in Indices :
          /\ slots'[i].message = slots[i].message
          /\ i # Cell(rcvd) => slots'[i] = slots[i]
    BY <2>1, OwnSlot
  <2>4. \A n \in rcvd .. sent - 1 : Cell(n) \in Indices
    BY Ranges
  <2>5. Contents'
    <3>1. /\ rcvd' = rcvd /\ sent' = sent /\ out' = out
          /\ pc[Consumer] = "unmark" /\ pc'[Consumer] = "publish"
          /\ pc'[Producer] = pc[Producer]
      BY <1>5 DEF RecvUnmark
    <3>2. ASSUME NEW n \in rcvd .. sent - 1, n # rcvd
          PROVE  /\ slots'[Cell(n)].message = n + 1
                 /\ slots'[Cell(n)].occupied = 1
      BY <2>3, <2>4, <3>1, <3>2, OwnSlot
    <3>3. Writing => Cell(sent) # Cell(rcvd)
      <4>1. rcvd \in rcvd .. sent - 1
        BY <3>1
      <4> QED
        BY <4>1, OwnSlot
    <3> QED
      BY <2>3, <3>1, <3>2, <3>3, OwnSlot
  <2>6. NoStray'
    BY <1>5, <2>3 DEF RecvUnmark
  <2> QED
    BY <2>2, <2>5, <2>6
<1>6. CASE RecvPublish
  <2>1. tail' = Posn(rcvd + 1) /\ tail' \in Position
    BY <1>6, Successor, Ranges DEF RecvPublish
  <2> QED
    BY <1>6, <2>1, OwnSlot DEF RecvPublish
<1> QED
  BY <1>1, <1>2, <1>3, <1>4, <1>5, <1>6 DEF Recv

LEMMA OtherStep == Inv /\ ((\E e \in Ends : Length(e)) \/ Drop) => Inv'
<1> SUFFICES ASSUME Inv, (\E e \in Ends : Length(e)) \/ Drop PROVE Inv'
  OBVIOUS
<1> USE SpscRingAssumption
    DEF Inv, TypeOK, Ends, Producer, Consumer, None, Goto, Counters, Locals,
        Contents, NoStray, Dropping, Taking, Taken, Writing, Written, InOrder
<1>1. ASSUME NEW e \in Ends, LenLoadHead(e) PROVE Inv'
  BY <1>1 DEF LenLoadHead
<1>2. ASSUME NEW e \in Ends, LenLoadTail(e) PROVE Inv'
  BY <1>2 DEF LenLoadTail
<1>3. CASE Drop
  BY <1>3 DEF Drop
<1> QED
  BY <1>1, <1>2, <1>3 DEF Length

\* Every step preserves the invariant.
LEMMA NextStep == Inv /\ [Next]_vars => Inv'
<1>1. Inv /\ UNCHANGED vars => Inv'
  BY DEF vars, Inv, TypeOK, Counters, Locals, Contents, NoStray, Dropping,
     Taking, Taken, Writing, Written, InOrder
<1> QED
  BY <1>1, SendStep, RecvStep, OtherStep DEF Next

-----------------------------------------------------------------------------
\* The inductive invariant holds in every reachable state.
THEOREM Invariance == Spec => []Inv
  BY InitInv, NextStep, PTL DEF Spec

\* Positions, slots and locals keep their types.
THEOREM TypeCorrect == Spec => []TypeOK
<1>1. Inv => TypeOK
  BY DEF Inv
<1> QED
  BY <1>1, Invariance, PTL

\* The n-th message received is the n-th message sent, whatever the capacity
\* and however often the positions wrap.
THEOREM Fifo == Spec => []InOrder
<1>1. Inv => InOrder
  BY DEF Inv, Contents
<1> QED
  BY <1>1, Invariance, PTL

\* The two ends never touch the same slot at the same time.
THEOREM SlotExclusion == Spec => []NeverSameSlot
<1>1. ASSUME Inv PROVE NeverSameSlot
  <2>1. SUFFICES ASSUME pc[Producer] \in {"write", "mark"},
                        pc[Consumer] \in {"take", "unmark"}
                 PROVE  Idx(head) # Idx(tail) /\ pos[Producer] = head
                        /\ pos[Consumer] = tail
    BY DEF NeverSameSlot
  <2>2. sent < rcvd + Capacity /\ rcvd \in rcvd .. sent - 1
    BY <1>1, <2>1 DEF Inv, Locals, Writing, Taking, TypeOK
  <2>3. Cell(rcvd) # Cell(sent)
    BY <1>1, <2>2, OwnSlot
  <2> QED
    BY <1>1, <2>1, <2>3, OwnSlot DEF Inv, Locals, Taking
<1> QED
  BY <1>1, Invariance, PTL

\* try_recv() never waits for the occupied flag.
THEOREM LockFree == Spec => []NeverWaits
<1>1. ASSUME Inv PROVE NeverWaits
  <2>1. SUFFICES ASSUME pc[Consumer] = "spin"
                 PROVE  slots[Idx(pos[Consumer])].occupied = 1
    BY DEF NeverWaits
  <2>2. rcvd \in rcvd .. sent - 1 /\ pos[Consumer] = tail
    BY <1>1, <2>1 DEF Inv, Locals, Taking, TypeOK
  <2>3. slots[Cell(rcvd)].occupied = 1
    BY <1>1, <2>1, <2>2 DEF Inv, Contents
  <2> QED
    BY <1>1, <2>2, <2>3, OwnSlot
<1> QED
  BY <1>1, Invariance, PTL

\* len() does not underflow for either end.
THEOREM LenBounded == Spec => []LenInRange
<1>1. ASSUME Inv, NEW e \in Ends, pc[e] = "len"
      PROVE  Used(pos[e], tail) <= Capacity
  <2>1. PICK n \in rcvd .. sent : pos[e] = Posn(n)
    BY <1>1 DEF Inv, Counters, Locals, TypeOK, Ends
  <2>2. Used(Posn(n), Posn(rcvd)) = n - rcvd
    BY <1>1, UsedIs, SpscRingAssumption DEF Inv, Counters, TypeOK
  <2> QED
    BY <1>1, <2>1, <2>2, SpscRingAssumption DEF Inv, Counters, TypeOK
<1>2. Inv => LenInRange
  BY <1>1 DEF LenInRange
<1> QED
  BY <1>2, Invariance, PTL

\* drop() frees no slot that holds a message.
THEOREM DrainedBeforeFreed == Spec => []FreedIsDrained
<1>1. Inv => FreedIsDrained
  BY DEF Inv, TypeOK, NoStray, Dropping, FreedIsDrained, Written
<1> QED
  BY <1>1, Invariance, PTL
=============================================================================

----------------------------- MODULE SyncProofs -----------------------------
(***************************************************************************)
(* Proofs about the parts that stand alone: the ticket spinlock for every  *)
(* set of threads and every ticket width, the run queue for every set of   *)
(* tasks, producers and priorities, the oneshot channel, and the futex     *)
(* table for every set of waiters, setters and words.  Each has its own    *)
(* variables and its own inductive invariant.                              *)
(***************************************************************************)
EXTENDS Spinlock, RunQueue, Oneshot, Futex, TLAPS

-----------------------------------------------------------------------------
(* The ticket spinlock.  Inv is the inductive invariant: in the working    *)
(* regime the tickets in use are the interval [serving, next), one thread  *)
(* each, and the lowest of them is the holder's.                           *)

\* The served ticket is never ahead of the next one, and spinning threads
\* have pairwise different tickets between the two.
TicketsInUse ==
  /\ serving <= next
  /\ \A t \in Threads :
       pc[t] = "spin" => serving <= ticket[t] /\ ticket[t] < next
  /\ \A t, u \in Threads :
       pc[t] = "spin" /\ pc[u] = "spin" /\ ticket[t] = ticket[u] => t = u

\* The holder uses up the served ticket: every spinning thread has a later one.
HolderIsServed ==
  \A t \in Threads : Holds(t) =>
    /\ serving < next
    /\ \A u \in Threads : pc[u] = "spin" => serving < ticket[u]

\* Nothing changed the word since a releasing guard loaded it.
DropSeesWord == \A t \in Threads : pc[t] = "drop" => old[t] = LockWord

WorkingRegime ==
  TicketsInUse /\ HolderIsServed /\ DropSeesWord /\ MutualExclusion

Inv == TypeOK /\ (~tainted => WorkingRegime)

-----------------------------------------------------------------------------
\* A half of the word that does not overflow is not changed by the mask.
LEMMA NoWrap == \A n \in Nat, m \in Nat : n < m => n % m = n
  OBVIOUS

\* fetch_add keeps both halves within their width.
LEMMA PlusOneType == \A w \in Word : PlusOne(w) \in Word
  BY TicketsAssumption DEF Word, PlusOne

LEMMA InitInv == Init => Inv
<1> SUFFICES ASSUME Init PROVE Inv
  OBVIOUS
<1>1. ZeroWord \in Word /\ LockWord \in Word
  BY TicketsAssumption DEF Init, ZeroWord, LockWord, Word
<1>2. TypeOK
  <2>1. pc \in [Threads -> {"idle", "spin", "guard", "cas", "drop"}]
    BY DEF Init
  <2>2. ticket \in [Threads -> 0 .. TICKETS - 1]
    BY TicketsAssumption DEF Init
  <2>3. old \in [Threads -> Word]
    BY <1>1 DEF Init
  <2> QED
    BY <1>1, <2>1, <2>2, <2>3 DEF Init, TypeOK
<1>3. WorkingRegime
  BY DEF Init, WorkingRegime, TicketsInUse, HolderIsServed, DropSeesWord,
     MutualExclusion, Holds
<1> QED
  BY <1>2, <1>3 DEF Inv

\* Every step keeps the types, working regime or not.
LEMMA TypeStep == TypeOK /\ [Next]_vars => TypeOK'
<1> SUFFICES ASSUME TypeOK, [Next]_vars PROVE TypeOK'
  OBVIOUS
<1> USE TicketsAssumption DEF TypeOK
<1>1. CASE UNCHANGED vars
  BY <1>1 DEF vars, LockWord, Word
<1>2. ASSUME NEW t \in Threads, FetchTicket(t) PROVE TypeOK'
  <2>1. PlusOne(LockWord) \in Word
    BY PlusOneType
  <2>2. LockWord' \in Word
    BY <1>2, <2>1 DEF FetchTicket, SetWord, LockWord, Word
  <2> QED
    BY <1>2, <2>2 DEF FetchTicket, Goto, LockWord, Word, Taints
<1>3. ASSUME NEW t \in Threads, WaitForTicket(t) PROVE TypeOK'
  BY <1>3 DEF WaitForTicket, Goto, Forget, LockWord, Word
<1>4. ASSUME NEW t \in Threads, TryLockLoad(t) PROVE TypeOK'
  BY <1>4 DEF TryLockLoad, Goto, LockWord, Word
<1>5. ASSUME NEW t \in Threads, TryLockClaim(t) PROVE TypeOK'
  BY <1>5 DEF TryLockClaim, Goto, Forget, SetWord, ZeroWord, LockWord, Word
<1>6. ASSUME NEW t \in Threads, TryLockFail(t) PROVE TypeOK'
  BY <1>6 DEF TryLockFail, Goto, Forget, ZeroWord, LockWord, Word
<1>7. ASSUME NEW t \in Threads, DropLoad(t) PROVE TypeOK'
  BY <1>7 DEF DropLoad, Goto, LockWord, Word
<1>8. ASSUME NEW t \in Threads, DropStore(t) PROVE TypeOK'
  BY <1>8 DEF DropStore, Goto, Forget, SetWord, ZeroWord, LockWord, Word
<1> QED
  BY <1>1, <1>2, <1>3, <1>4, <1>5, <1>6, <1>7, <1>8 DEF Next, Step

\* A step that does not leave the working regime preserves it.
LEMMA RegimeStep ==
  TypeOK /\ WorkingRegime /\ [Next]_vars /\ ~tainted' => WorkingRegime'
<1> SUFFICES ASSUME TypeOK, WorkingRegime, [Next]_vars, ~tainted'
             PROVE  WorkingRegime'
  OBVIOUS
<1> USE TicketsAssumption
    DEF TypeOK, WorkingRegime, TicketsInUse, HolderIsServed, DropSeesWord,
        MutualExclusion, Holds, LockWord, Word
<1>1. CASE UNCHANGED vars
  BY <1>1 DEF vars
\* Nobody is between its load and its store, and next does not carry.
<1>2. ASSUME NEW t \in Threads, FetchTicket(t) PROVE WorkingRegime'
  <2>1. next' = next + 1 /\ serving' = serving
    BY <1>2 DEF FetchTicket, SetWord, PlusOne, Taints
  <2>2. \A u \in Threads : pc[u] # "drop"
    BY <1>2 DEF FetchTicket, Taints
  <2> QED
    BY <1>2, <2>1, <2>2 DEF FetchTicket, Goto
<1>3. ASSUME NEW t \in Threads, WaitForTicket(t) PROVE WorkingRegime'
  <2>1. serving = ticket[t] /\ pc[t] = "spin"
    BY <1>3 DEF WaitForTicket
  \* A holder would have every spinning ticket above the served one.
  <2>2. \A u \in Threads : ~Holds(u)
    BY <2>1
  <2>3. \A u \in Threads : u # t /\ pc[u] = "spin" => serving < ticket[u]
    BY <2>1
  <2> QED
    BY <1>3, <2>1, <2>2, <2>3 DEF WaitForTicket, Goto, Forget
<1>4. ASSUME NEW t \in Threads, TryLockLoad(t) PROVE WorkingRegime'
  BY <1>4 DEF TryLockLoad, Goto
<1>5. ASSUME NEW t \in Threads, TryLockClaim(t) PROVE WorkingRegime'
  BY <1>5 DEF TryLockClaim
<1>6. ASSUME NEW t \in Threads, TryLockFail(t) PROVE WorkingRegime'
  BY <1>6 DEF TryLockFail, Goto, Forget
<1>7. ASSUME NEW t \in Threads, DropLoad(t) PROVE WorkingRegime'
  BY <1>7 DEF DropLoad, Goto
\* The holder's served ticket is below next, so serving + 1 does not wrap.
<1>8. ASSUME NEW t \in Threads, DropStore(t) PROVE WorkingRegime'
  <2>1. next' = next /\ serving' = serving + 1
    <3>1. old[t] = LockWord /\ serving + 1 < TICKETS
      BY <1>8 DEF DropStore
    <3>2. (serving + 1) % TICKETS = serving + 1
      BY <3>1, NoWrap
    <3> QED
      BY <1>8, <3>1, <3>2 DEF DropStore, SetWord
  <2> QED
    BY <1>8, <2>1 DEF DropStore, Goto, Forget
<1> QED
  BY <1>1, <1>2, <1>3, <1>4, <1>5, <1>6, <1>7, <1>8 DEF Next, Step

\* Once left, the working regime is left for good.
LEMMA TaintedStays == TypeOK /\ [Next]_vars /\ tainted => tainted'
  BY DEF Next, Step, vars, FetchTicket, WaitForTicket, TryLockLoad,
     TryLockClaim, TryLockFail, DropLoad, DropStore, TypeOK

LEMMA InvStep == Inv /\ [Next]_vars => Inv'
  BY TypeStep, RegimeStep, TaintedStays DEF Inv

-----------------------------------------------------------------------------
\* Inv holds in every reachable state.
THEOREM Invariance == Spec => []Inv
  BY InitInv, InvStep, PTL DEF Spec

\* The two halves of the lock word never leave their width, for every width.
THEOREM TypeCorrect == Spec => []TypeOK
<1>1. Inv => TypeOK
  BY DEF Inv
<1> QED
  BY <1>1, Invariance, PTL

\* At most one live guard as long as no ticket was taken in a release window,
\* none carried out of its half and no try_lock() succeeded.
THEOREM MutexInRegime == Spec => []MutexUntilTainted
<1>1. Inv => MutexUntilTainted
  BY DEF Inv, WorkingRegime, MutexUntilTainted
<1> QED
  BY <1>1, Invariance, PTL

\* In the working regime threads get the lock in the order of their tickets.
THEOREM FifoInRegime == Spec => FifoUntilTainted
<1> DEFINE Fifo == \A t, u \in Threads :
             ~tainted /\ pc[t] = "spin" /\ pc'[t] = "guard" /\ pc[u] = "spin"
               => ticket[t] <= ticket[u]
<1>1. ASSUME Inv, [Next]_vars PROVE [Fifo]_vars
  <2>1. CASE UNCHANGED vars
    BY <2>1 DEF vars
  <2>2. ASSUME NEW t \in Threads, NEW u \in Threads, NEW v \in Threads,
               Step(v), ~tainted, pc[t] = "spin", pc'[t] = "guard",
               pc[u] = "spin"
        PROVE  ticket[t] <= ticket[u]
    <3>1. serving = ticket[t]
      BY <1>1, <2>2 DEF Inv, TypeOK, Step, FetchTicket, WaitForTicket,
         TryLockLoad, TryLockClaim, TryLockFail, DropLoad, DropStore, Goto
    <3> QED
      BY <1>1, <2>2, <3>1 DEF Inv, WorkingRegime, TicketsInUse
  <2> QED
    BY <1>1, <2>1, <2>2 DEF Next
<1> QED
  BY <1>1, Invariance, PTL DEF Spec, FifoUntilTainted

-----------------------------------------------------------------------------
(* The run queue, for every set of tasks, producers and priorities: the    *)
(* two recorded races are the only ways in which the occupancy bitmap can  *)
(* go wrong.                                                               *)

\* A producer about to set a bit sets it for a level that has a task.
PendingIsNonEmpty == \A l \in Levels : BitPending(l) => ~Empty(l)

\* The level whose bit the executor is about to clear is still empty.
ClearingIsEmpty == \A l \in Levels : ClearPending(l) => Empty(l)

BitIsNeeded == \A l \in occupancy : ~Empty(l) \/ Emptying(l)

Exact == NonEmptyHasBit /\ BitIsNeeded /\ PendingIsNonEmpty /\ ClearingIsEmpty

RunQueueInv == RunQueueTypeOK /\ (~raced => Exact)

-----------------------------------------------------------------------------
\* Every priority has a level between 0 and 31.
LEMMA LevelRange == \A p \in Int : priority_to_level(p) \in 0 .. 31
  BY DEF priority_to_level, Clamp

LEMMA LenRange == \A k \in Int : k % LEN \in 0 .. LEN - 1
  BY LenAssumption

\* A list that a pop empties had one task.
LEMMA TailEmpty ==
  ASSUME NEW S, NEW s \in Seq(S), s # <<>>, Tail(s) = <<>>
  PROVE  Len(s) = 1
<1>1. Len(Tail(s)) = Len(s) - 1
  OBVIOUS
<1>2. Len(<<>>) = 0
  OBVIOUS
<1>3. Len(Tail(s)) = 0
  BY <1>2, Zenon
<1> QED
  BY <1>1, <1>3

LEMMA RunQueueInitInv == RunQueueInit => RunQueueInv
<1> SUFFICES ASSUME RunQueueInit PROVE RunQueueInv
  OBVIOUS
<1>1. levels \in [Levels -> Seq(Tasks)]
  BY DEF RunQueueInit
<1>2. /\ qpc \in [Actors -> {"idle", "or", "count", "load", "pop", "check",
                            "clear", "uncount"}]
      /\ lvl \in [Actors -> Levels \cup {0}]
      /\ \A a \in Actors : qpc[a] = "idle"
  BY DEF RunQueueInit
<1>3. /\ \A p \in Producers : qpc[p] = "idle"
      /\ qpc[Executor] = "idle"
  BY <1>2 DEF Actors
<1>4. len \in 0 .. LEN - 1
  BY LenAssumption DEF RunQueueInit
<1>5. RunQueueTypeOK
  <2>1. occupancy \subseteq Levels /\ got \subseteq Tasks /\ raced \in BOOLEAN
    BY DEF RunQueueInit
  <2> QED
    BY <1>1, <1>2, <1>3, <1>4, <2>1 DEF RunQueueTypeOK
<1>6. Exact
  BY <1>2 DEF RunQueueInit, Exact, NonEmptyHasBit, BitIsNeeded, PendingIsNonEmpty,
     ClearingIsEmpty, BitPending, ClearPending, Empty, Actors
<1> QED
  BY <1>5, <1>6 DEF RunQueueInv

LEMMA RunQueueTypeStep == RunQueueTypeOK /\ [RunQueueNext]_runQueueVars => RunQueueTypeOK'
<1> SUFFICES ASSUME RunQueueTypeOK, [RunQueueNext]_runQueueVars PROVE RunQueueTypeOK'
  OBVIOUS
<1> USE ExecutorAssumption DEF RunQueueTypeOK, QueueGoto, Actors
<1>1. CASE UNCHANGED runQueueVars
  BY <1>1 DEF runQueueVars
<1>2. ASSUME NEW p \in Producers, NEW t \in Tasks, NEW prio \in Priorities,
             Push(p, t, prio)
      PROVE  RunQueueTypeOK'
  <2> DEFINE l == priority_to_level(prio)
  <2>1. l \in Levels
    BY DEF Levels
  <2>2. levels' = [levels EXCEPT ![l] = Append(@, t)]
    BY <1>2 DEF Push
  <2>3. levels' \in [Levels -> Seq(Tasks)]
    BY <2>1, <2>2
  <2>4. lvl' = [lvl EXCEPT ![p] = l] /\ raced' \in BOOLEAN
    BY <1>2 DEF Push, ClearPending
  <2>5. /\ qpc' = [qpc EXCEPT ![p] = "or"]
        /\ UNCHANGED <<occupancy, len, got>>
    BY <1>2 DEF Push
  <2> HIDE DEF l
  <2> QED
    BY <2>1, <2>3, <2>4, <2>5
<1>3. ASSUME NEW p \in Producers, SetBit(p) PROVE RunQueueTypeOK'
  BY <1>3 DEF SetBit
<1>4. ASSUME NEW p \in Producers, CountIn(p) PROVE RunQueueTypeOK'
  <2>1. len' \in 0 .. LEN - 1
    BY <1>4, LenRange, LenAssumption DEF CountIn
  <2> QED
    BY <1>4, <2>1 DEF CountIn
<1>5. ASSUME LoadBitmap PROVE RunQueueTypeOK'
  BY <1>5 DEF LoadBitmap
<1>6. ASSUME Pop PROVE RunQueueTypeOK'
  <2> DEFINE l == lvl[Executor]
  <2>1. l \in Levels /\ levels[l] # <<>>
    BY <1>6 DEF Pop, Empty
  <2>2. /\ got' = {Head(levels[l])}
        /\ levels' = [levels EXCEPT ![l] = Tail(@)]
        /\ raced' \in BOOLEAN
    BY <1>6 DEF Pop, LateBit
  <2>3. got' \subseteq Tasks /\ levels' \in [Levels -> Seq(Tasks)]
    BY <2>1, <2>2
  <2>4. qpc' = [qpc EXCEPT ![Executor] = "check"] /\ UNCHANGED <<occupancy, len, lvl>>
    BY <1>6 DEF Pop
  <2> QED
    BY <2>1, <2>2, <2>3, <2>4
<1>7. ASSUME PopNone PROVE RunQueueTypeOK'
  BY <1>7 DEF PopNone
<1>8. ASSUME CheckEmpty PROVE RunQueueTypeOK'
  BY <1>8 DEF CheckEmpty
<1>9. ASSUME ClearBit PROVE RunQueueTypeOK'
  BY <1>9 DEF ClearBit
<1>10. ASSUME CountOut PROVE RunQueueTypeOK'
  <2>1. len' \in 0 .. LEN - 1
    BY <1>10, LenRange, LenAssumption DEF CountOut
  <2> QED
    BY <1>10, <2>1 DEF CountOut
<1> QED
  BY <1>1, <1>2, <1>3, <1>4, <1>5, <1>6, <1>7, <1>8, <1>9, <1>10
     DEF RunQueueNext, Enqueue, Dequeue

\* A step that does not race keeps the bitmap exact.
LEMMA ExactStep == RunQueueTypeOK /\ Exact /\ [RunQueueNext]_runQueueVars /\ ~raced' => Exact'
<1> SUFFICES ASSUME RunQueueTypeOK, Exact, [RunQueueNext]_runQueueVars, ~raced' PROVE Exact'
  OBVIOUS
<1> USE ExecutorAssumption
    DEF RunQueueTypeOK, QueueGoto, Actors, Exact, NonEmptyHasBit, BitIsNeeded,
        PendingIsNonEmpty, ClearingIsEmpty, BitPending, ClearPending,
        Emptying, Empty
<1>1. CASE UNCHANGED runQueueVars
  BY <1>1 DEF runQueueVars
<1>2. ASSUME NEW p \in Producers, NEW t \in Tasks, NEW prio \in Priorities,
             Push(p, t, prio)
      PROVE  Exact'
  <2> DEFINE l == priority_to_level(prio)
  <2>1. l \in Levels
    BY DEF Levels
  <2>2. /\ levels' = [levels EXCEPT ![l] = Append(@, t)]
        /\ lvl' = [lvl EXCEPT ![p] = l]
        /\ qpc' = [qpc EXCEPT ![p] = "or"]
        /\ occupancy' = occupancy
        /\ ~ClearPending(l)
        /\ qpc[p] = "idle"
    BY <1>2 DEF Push
  <2>3. levels'[l] # <<>> /\ \A k \in Levels : k # l => levels'[k] = levels[k]
    BY <2>1, <2>2
  <2> HIDE DEF l
  <2> QED
    BY <2>1, <2>2, <2>3
<1>3. ASSUME NEW p \in Producers, SetBit(p) PROVE Exact'
  BY <1>3 DEF SetBit
<1>4. ASSUME NEW p \in Producers, CountIn(p) PROVE Exact'
  BY <1>4 DEF CountIn
<1>5. ASSUME LoadBitmap PROVE Exact'
  BY <1>5 DEF LoadBitmap
<1>6. ASSUME Pop PROVE Exact'
  <2> DEFINE l == lvl[Executor]
  <2>1. l \in Levels /\ levels[l] # <<>> /\ levels[l] \in Seq(Tasks)
    BY <1>6 DEF Pop
  <2>2. /\ levels' = [levels EXCEPT ![l] = Tail(@)]
        /\ qpc' = [qpc EXCEPT ![Executor] = "check"]
        /\ UNCHANGED <<occupancy, lvl>>
        /\ ~LateBit(l)
        /\ qpc[Executor] = "pop"
    BY <1>6 DEF Pop
  <2>3. levels'[l] = <<>> => Len(levels[l]) = 1
    <3>1. levels'[l] = Tail(levels[l])
      BY <2>1, <2>2
    <3> QED
      BY <2>1, <3>1, TailEmpty
  <2>4. levels'[l] = <<>> => ~BitPending(l)
    BY <2>2, <2>3 DEF LateBit
  <2>5. \A k \in Levels : k # l => levels'[k] = levels[k]
    BY <2>1, <2>2
  <2> QED
    BY <2>1, <2>2, <2>4, <2>5
<1>7. ASSUME PopNone PROVE Exact'
  BY <1>7 DEF PopNone
<1>8. ASSUME CheckEmpty PROVE Exact'
  BY <1>8 DEF CheckEmpty
<1>9. ASSUME ClearBit PROVE Exact'
  BY <1>9 DEF ClearBit
<1>10. ASSUME CountOut PROVE Exact'
  BY <1>10 DEF CountOut
<1> QED
  BY <1>1, <1>2, <1>3, <1>4, <1>5, <1>6, <1>7, <1>8, <1>9, <1>10
     DEF RunQueueNext, Enqueue, Dequeue

\* A race is remembered.
LEMMA RacedStays == RunQueueTypeOK /\ [RunQueueNext]_runQueueVars /\ raced => raced'
  BY DEF RunQueueTypeOK, runQueueVars, RunQueueNext, Enqueue, Dequeue, Push, SetBit, CountIn,
     LoadBitmap, Pop, PopNone, CheckEmpty, ClearBit, CountOut

-----------------------------------------------------------------------------
\* The inductive invariant holds in every reachable state.
THEOREM RunQueueInvariance == RunQueueSpec => []RunQueueInv
<1>1. RunQueueInv /\ [RunQueueNext]_runQueueVars => RunQueueInv'
  BY RunQueueTypeStep, ExactStep, RacedStays DEF RunQueueInv
<1> QED
  BY <1>1, RunQueueInitInv, PTL DEF RunQueueSpec

\* Lists, bits and counters keep their types.
THEOREM RunQueueTypeCorrect == RunQueueSpec => []RunQueueTypeOK
<1>1. RunQueueInv => RunQueueTypeOK
  BY DEF RunQueueInv
<1> QED
  BY <1>1, RunQueueInvariance, PTL

\* The bitmap is exact as long as no push fell between the emptiness test and
\* the clearing of its level's bit and no level was emptied before a
\* producer's fetch_or, for any number of tasks, producers and levels.
THEOREM OccupancyExact == RunQueueSpec => []OccupancyUntilRaced
<1>1. RunQueueInv => OccupancyUntilRaced
  BY DEF RunQueueInv, Exact, BitIsNeeded, OccupancyUntilRaced
<1> QED
  BY <1>1, RunQueueInvariance, PTL

-----------------------------------------------------------------------------
(* The oneshot channel.  The sender's place decides which states the       *)
(* channel may be in, and the receiver's which of those it has acted on.   *)

One(there) == IF there THEN 1 ELSE 0

\* Each side has one reference until it is gone.
OneshotCounted ==
  /\ refcount = One(~SenderGone) + One(rpc # "gone")
  /\ freed <=> refcount = 0

\* The state follows the sender's progress; "ready" and "close" have seen the
\* receiver parked.
SenderSound ==
  /\ spc \in {"fresh", "load", "cas", "close_quietly"} => state \in {"EMPTY", "WAITING"}
  /\ spc \in {"ready", "close"} => state = "WAITING"
  /\ spc \in {"send_wake", "sent", "sent_gone"} => state \in {"READY", "CONSUMED"}
  /\ spc \in {"close_wake", "closed", "closed_gone"} => state = "CLOSED"
  /\ spc \in {"load", "cas", "ready"} => value
  /\ spc # "unreachable"

\* The receiver consumes only what is ready, and takes the value afterwards.
ReceiverSound ==
  /\ state = "CONSUMED" => rpc \in {"take", "resolved", "gone"}
  /\ rpc = "consume" => state = "READY"
  /\ rpc = "take" => state = "CONSUMED"
  /\ state = "READY" \/ rpc = "take" => value
  /\ recvd = "value" => state = "CONSUMED"
  /\ recvd = "closed" => state = "CLOSED"
  /\ rpc # "unreachable"

OneshotInv == OneshotTypeOK /\ OneshotCounted /\ SenderSound /\ ReceiverSound

LEMMA OneshotInitInv == OneshotInit => OneshotInv
<1> SUFFICES ASSUME OneshotInit PROVE OneshotInv
  OBVIOUS
<1>1. OneshotTypeOK
  <2>1. {value, recv_waker, freed, registered, woken, toNobody} \subseteq BOOLEAN
    BY Zenon DEF OneshotInit
  <2> QED
    BY <2>1 DEF OneshotInit, OneshotTypeOK, SenderPCs, ReceiverPCs
<1>2. OneshotCounted
  <2>1. ~SenderGone /\ rpc # "gone"
    BY DEF OneshotInit, SenderGone
  <2> QED
    BY <2>1 DEF OneshotInit, OneshotCounted, One
<1>3. SenderSound /\ ReceiverSound
  BY DEF OneshotInit, SenderSound, ReceiverSound
<1> QED
  BY <1>1, <1>2, <1>3 DEF OneshotInv

\* Steps of the sender that keep its reference.
LEMMA SenderKeeps ==
  ASSUME OneshotInv,
         \/ SendStore \/ SendLoad \/ SendCas \/ SendReady \/ SendWake
         \/ SenderDropLoad \/ SenderClose \/ SenderCloseWake \/ SenderCloseQuietly
  PROVE  OneshotInv'
<1> USE DEF OneshotInv, OneshotTypeOK, OneshotCounted, SenderSound, ReceiverSound,
            SenderGone, One, SenderPCs, ReceiverPCs, shared, receiver
<1>1. CASE SendStore
  BY <1>1 DEF SendStore
<1>2. CASE SendLoad
  BY <1>2 DEF SendLoad
<1>3. CASE SendCas
  BY <1>3 DEF SendCas
<1>4. CASE SendReady
  BY <1>4 DEF SendReady
<1>5. CASE SendWake
  BY <1>5 DEF SendWake, TakeWaker
<1>6. CASE SenderDropLoad
  BY <1>6 DEF SenderDropLoad
<1>7. CASE SenderClose
  BY <1>7 DEF SenderClose
<1>8. CASE SenderCloseWake
  BY <1>8 DEF SenderCloseWake, TakeWaker
<1>9. CASE SenderCloseQuietly
  BY <1>9 DEF SenderCloseQuietly
<1> QED
  BY <1>1, <1>2, <1>3, <1>4, <1>5, <1>6, <1>7, <1>8, <1>9

\* Steps of a poll.
LEMMA PollKeeps ==
  ASSUME OneshotInv, PollStep
  PROVE  OneshotInv'
<1> USE DEF OneshotInv, OneshotTypeOK, OneshotCounted, SenderSound, ReceiverSound,
            SenderGone, One, SenderPCs, ReceiverPCs, shared, Sender
<1>1. CASE Poll
  BY <1>1, ZenonT(30) DEF Poll
<1>2. CASE PollLoad
  BY <1>2 DEF PollLoad
<1>3. CASE SetWaker
  BY <1>3 DEF SetWaker
<1>4. CASE ParkCas
  BY <1>4 DEF ParkCas
<1>5. CASE Recheck
  BY <1>5 DEF Recheck
<1>6. CASE Consume
  BY <1>6 DEF Consume
<1>7. CASE TakeValue
  BY <1>7 DEF TakeValue
<1> QED
  BY <1>1, <1>2, <1>3, <1>4, <1>5, <1>6, <1>7 DEF PollStep

\* A reference goes, and the last one frees.
LEMMA ReferenceGoes ==
  ASSUME OneshotTypeOK, OneshotCounted, Release, refcount >= 1
  PROVE  /\ refcount' = refcount - 1 /\ refcount' \in 0 .. 2
         /\ freed' \in BOOLEAN
         /\ freed' <=> refcount' = 0
<1>1. /\ freed' = (freed \/ refcount = 1)
      /\ freed' \in BOOLEAN
  BY Zenon DEF Release
<1>2. refcount' = refcount - 1 /\ refcount' \in 0 .. 2
  BY DEF Release, OneshotTypeOK
<1>3. ~freed
  BY DEF OneshotCounted, OneshotTypeOK
<1>4. freed' <=> refcount = 1
  BY <1>1, <1>3, Zenon
<1> QED
  BY <1>1, <1>2, <1>4 DEF OneshotTypeOK

\* The ends of both sides.
LEMMA ReleaseKeeps ==
  ASSUME OneshotInv, SenderRelease \/ ReceiverDrop
  PROVE  OneshotInv'
<1> USE DEF OneshotInv
<1>1. CASE SenderRelease
  <2>1. ~SenderGone /\ SenderGone' /\ rpc' = rpc
    BY <1>1 DEF SenderRelease, SenderGone, receiver
  <2>2. refcount >= 1
    BY <2>1 DEF OneshotCounted, One
  <2>3. /\ refcount' = refcount - 1 /\ refcount' \in 0 .. 2
        /\ freed' \in BOOLEAN
        /\ freed' <=> refcount' = 0
    BY <1>1, <2>2, ReferenceGoes DEF SenderRelease
  <2>4. OneshotCounted'
    BY <2>1, <2>3 DEF OneshotCounted, One
  <2>5. OneshotTypeOK'
    BY <1>1, <2>3 DEF SenderRelease, OneshotTypeOK, receiver, SenderPCs, ReceiverPCs
  <2>6. SenderSound' /\ ReceiverSound'
    BY <1>1 DEF SenderRelease, SenderSound, ReceiverSound, receiver
  <2> QED
    BY <2>4, <2>5, <2>6
<1>2. CASE ReceiverDrop
  <2>1. rpc # "gone" /\ rpc' = "gone" /\ (SenderGone' <=> SenderGone)
    BY <1>2 DEF ReceiverDrop, SenderGone, Sender
  <2>2. refcount >= 1
    BY <2>1 DEF OneshotCounted, One
  <2>3. /\ refcount' = refcount - 1 /\ refcount' \in 0 .. 2
        /\ freed' \in BOOLEAN
        /\ freed' <=> refcount' = 0
    BY <1>2, <2>2, ReferenceGoes DEF ReceiverDrop
  <2>4. OneshotCounted'
    BY <2>1, <2>3 DEF OneshotCounted, One
  <2>5. OneshotTypeOK'
    BY <1>2, <2>3 DEF ReceiverDrop, OneshotTypeOK, Sender, SenderPCs, ReceiverPCs
  <2>6. SenderSound' /\ ReceiverSound'
    BY <1>2 DEF ReceiverDrop, SenderSound, ReceiverSound, Sender
  <2> QED
    BY <2>4, <2>5, <2>6
<1> QED
  BY <1>1, <1>2

LEMMA OneshotStep == OneshotInv /\ [OneshotNext]_oneshotVars => OneshotInv'
<1> SUFFICES ASSUME OneshotInv, [OneshotNext]_oneshotVars PROVE OneshotInv'
  OBVIOUS
<1>1. CASE UNCHANGED oneshotVars
  BY <1>1 DEF oneshotVars, OneshotInv, OneshotTypeOK, OneshotCounted, SenderSound,
              ReceiverSound, SenderGone
<1>2. CASE OneshotNext
  BY <1>2, SenderKeeps, PollKeeps, ReleaseKeeps DEF OneshotNext, SenderStep
<1> QED
  BY <1>1, <1>2

\* State, counters and references of a oneshot channel keep their ranges.
THEOREM OneshotTypeCorrect == OneshotSpec => []OneshotTypeOK
<1>1. OneshotInv => OneshotTypeOK
  BY DEF OneshotInv
<1> QED
  BY <1>1, OneshotInitInv, OneshotStep, PTL DEF OneshotSpec

\* oneshot.rs:58: the allocation lives exactly as long as one of its holders.
THEOREM FreedExactly == OneshotSpec => []FreedWhenUnused
<1>1. OneshotInv => FreedWhenUnused
  BY DEF OneshotInv, OneshotCounted, FreedWhenUnused, One, SenderGone
<1> QED
  BY <1>1, OneshotInitInv, OneshotStep, PTL DEF OneshotSpec

\* No interleaving of send(), drop and polls reaches an unreachable! arm.
THEOREM UnreachableArms == OneshotSpec => []NoUnreachable
<1>1. OneshotInv => NoUnreachable
  BY DEF OneshotInv, SenderSound, ReceiverSound, NoUnreachable
<1> QED
  BY <1>1, OneshotInitInv, OneshotStep, PTL DEF OneshotSpec

\* A receiver resolves to the value only if it was sent and to Closed only if
\* the sender was dropped.
THEOREM ResolvesTruly == OneshotSpec => []ResolvedTruly
<1>1. OneshotInv => ResolvedTruly
  BY DEF OneshotInv, OneshotTypeOK, SenderSound, ReceiverSound, ResolvedTruly, SenderPCs
<1> QED
  BY <1>1, OneshotInitInv, OneshotStep, PTL DEF OneshotSpec

-----------------------------------------------------------------------------
(* The futex table.  FutexInv says of every bucket what LinkedNodesLive    *)
(* says of all; the property is inductive with the types.                  *)

NobodyTwice(q) == \A i, j \in 1 .. Len(q) : q[i] = q[j] => i = j

\* The waiters that the queue of bucket b may hold.
Live(b) ==
  {w \in Waiters : BucketOf(w) = b /\ At(w, "pending") /\ wait[w].registered}

QueueSound(b) ==
  LET q == bucket[b].queue IN
  NobodyTwice(q) /\ \A i \in 1 .. Len(q) : q[i] \in Live(b)

FutexInv == FutexTypeOK /\ \A b \in Buckets : QueueSound(b)

\* One field of one bucket changes.
LEMMA BucketUpdate ==
  ASSUME FutexTypeOK, NEW c \in Buckets
  PROVE  /\ \A q \in Seq(Waiters) : [bucket EXCEPT ![c].queue = q]
              \in [Buckets -> [holder : Setters \cup {Free}, queue : Seq(Waiters)]]
         /\ \A h \in Setters \cup {Free} :
              /\ [bucket EXCEPT ![c].holder = h]
                   \in [Buckets -> [holder : Setters \cup {Free}, queue : Seq(Waiters)]]
              /\ \A b \in Buckets : [bucket EXCEPT ![c].holder = h][b].queue = bucket[b].queue
<1> DEFINE H == Setters \cup {Free}
           Q == Seq(Waiters)
<1>1. bucket \in [Buckets -> [holder : H, queue : Q]]
  BY DEF FutexTypeOK
<1>2. /\ \A q \in Q : [bucket EXCEPT ![c].queue = q] \in [Buckets -> [holder : H, queue : Q]]
      /\ \A h \in H :
           /\ [bucket EXCEPT ![c].holder = h] \in [Buckets -> [holder : H, queue : Q]]
           /\ \A b \in Buckets : [bucket EXCEPT ![c].holder = h][b].queue = bucket[b].queue
  <2> HIDE DEF H, Q
  <2> QED
    BY <1>1
<1> QED
  BY <1>2

\* The queue of a bucket.
LEMMA QueueOf ==
  ASSUME FutexTypeOK, NEW b \in Buckets
  PROVE  /\ bucket[b].queue \in Seq(Waiters)
         /\ Len(bucket[b].queue) \in Nat
         /\ \A i \in 1 .. Len(bucket[b].queue) : bucket[b].queue[i] \in Waiters
<1>1. bucket[b].queue \in Seq(Waiters)
  BY DEF FutexTypeOK
<1> QED
  BY <1>1

LEMMA BucketOfWaiter ==
  /\ \A w \in Waiters : BucketOf(w) \in Buckets
  /\ \A a \in Addrs : Bucket[a] \in Buckets
  BY FutexAssumption DEF BucketOf, Buckets

\* remove(): what is left of a queue that holds nobody twice.
LEMMA WithoutFacts ==
  ASSUME NEW q \in Seq(Waiters), NEW w, NobodyTwice(q)
  PROVE  /\ Without(q, w) \in Seq(Waiters)
         /\ \A i \in 1 .. Len(Without(q, w)) :
              /\ Without(q, w)[i] # w
              /\ \E j \in 1 .. Len(q) : Without(q, w)[i] = q[j]
         /\ NobodyTwice(Without(q, w))
<1> USE DEF NobodyTwice
<1> DEFINE p == CHOOSE j \in DOMAIN q : q[j] = w
           r == [j \in 1 .. Len(q) - 1 |-> IF j < p THEN q[j] ELSE q[j + 1]]
<1>0. DOMAIN q = 1 .. Len(q)
  OBVIOUS
<1>1. CASE w \notin ToSet(q)
  <2>1. Without(q, w) = q
    BY <1>1 DEF Without
  <2>2. \A i \in 1 .. Len(q) : q[i] # w
    BY <1>0, <1>1 DEF ToSet
  <2> QED
    BY <2>1, <2>2
<1>2. CASE w \in ToSet(q)
  <2>1. Without(q, w) = r
    BY <1>2 DEF Without
  <2>2. p \in 1 .. Len(q) /\ q[p] = w
    BY <1>0, <1>2 DEF ToSet
  <2> HIDE DEF p
  <2>3. Len(q) \in Nat /\ Len(q) - 1 \in Nat
    BY <2>2
  <2>4. \A j \in 1 .. Len(q) - 1 : r[j] \in Waiters
    BY <2>2
  <2>5. r \in Seq(Waiters) /\ Len(r) = Len(q) - 1
    BY <2>3, <2>4
  <2>6. \A i \in 1 .. Len(r) : r[i] # w /\ \E j \in 1 .. Len(q) : r[i] = q[j]
    BY <2>2, <2>5
  <2>7. \A i, j \in 1 .. Len(r) : r[i] = r[j] => i = j
    BY <2>2, <2>5
  <2> HIDE DEF r
  <2> QED
    BY <2>1, <2>5, <2>6, <2>7
<1> QED
  BY <1>1, <1>2

LEMMA FutexInitInv == FutexInit => FutexInv
<1> SUFFICES ASSUME FutexInit PROVE FutexInv
  OBVIOUS
<1>1. bucket \in [Buckets -> [holder : Setters \cup {Free}, queue : Seq(Waiters)]]
  BY DEF FutexInit
<1>2. wait \in [Waiters -> [pc : {"user", "poll", "pending", "done"},
                            registered : BOOLEAN, woken : BOOLEAN]]
  BY DEF FutexInit
<1>3. set \in [Setters -> [pc : {"idle", "lock", "loop"}, addr : Addrs, woken : 0 .. Count]]
  <2>1. (CHOOSE a \in Addrs : TRUE) \in Addrs /\ 0 \in 0 .. Count
    BY FutexAssumption
  <2> QED
    BY <2>1 DEF FutexInit
<1>4. FutexTypeOK
  BY <1>1, <1>2, <1>3 DEF FutexInit, FutexTypeOK
<1>5. \A b \in Buckets : QueueSound(b)
  BY DEF FutexInit, QueueSound, NobodyTwice
<1> QED
  BY <1>4, <1>5 DEF FutexInv

\* A queue that does not change stays sound if its waiters go on waiting.
LEMMA QueueStays ==
  ASSUME FutexTypeOK, NEW b \in Buckets, QueueSound(b),
         bucket'[b].queue = bucket[b].queue,
         Live(b) \subseteq Live(b)'
  PROVE  QueueSound(b)'
  BY QueueOf DEF QueueSound, NobodyTwice

\* No bucket changes, and nobody stops waiting.
LEMMA BucketsStay ==
  ASSUME FutexInv,
         \A b \in Buckets : bucket'[b].queue = bucket[b].queue,
         \A b \in Buckets : Live(b) \subseteq Live(b)'
  PROVE  \A b \in Buckets : QueueSound(b)'
  BY QueueStays DEF FutexInv

LEMMA RegisterStep ==
  ASSUME FutexInv, NEW w \in Waiters, Register(w)
  PROVE  FutexInv'
<1> DEFINE c == BucketOf(w)
           q == bucket[c].queue
<1>1. c \in Buckets /\ q \in Seq(Waiters) /\ Len(q) \in Nat
  BY BucketOfWaiter, QueueOf DEF FutexInv
<1>2. /\ bucket' = [bucket EXCEPT ![c].queue = Append(q, w)]
      /\ wait' = [wait EXCEPT ![w].pc = "pending", ![w].registered = TRUE]
      /\ At(w, "poll")
  BY DEF Register
<1>3. FutexTypeOK'
  <2>1. bucket' \in [Buckets -> [holder : Setters \cup {Free}, queue : Seq(Waiters)]]
    <3>1. Append(q, w) \in Seq(Waiters)
      BY <1>1
    <3> QED
      BY <1>1, <1>2, <3>1, BucketUpdate DEF FutexInv, FutexTypeOK
  <2>2. wait' \in [Waiters -> [pc : {"user", "poll", "pending", "done"},
                               registered : BOOLEAN, woken : BOOLEAN]]
    BY <1>2, ZenonT(30) DEF FutexInv, FutexTypeOK
  <2>3. late' \subseteq Waiters
    BY DEF Register, FutexInv, FutexTypeOK
  <2> QED
    BY <2>1, <2>2, <2>3 DEF Register, FutexInv, FutexTypeOK
<1>4. /\ w \in Live(c)'
      /\ \A b \in Buckets : Live(b) \subseteq Live(b)'
  BY <1>2 DEF Live, At, FutexInv, FutexTypeOK
<1>5. \A i \in 1 .. Len(q) : q[i] # w
  BY <1>1, <1>2 DEF FutexInv, QueueSound, Live, At
<1>6. QueueSound(c)'
  <2>1. bucket'[c].queue = Append(q, w)
    BY <1>1, <1>2 DEF FutexInv, FutexTypeOK
  <2>2. QueueSound(c)
    BY <1>1 DEF FutexInv
  <2> DEFINE p == Append(q, w)
  <2>3. /\ Len(p) = Len(q) + 1 /\ p[Len(q) + 1] = w
        /\ \A i \in 1 .. Len(q) : p[i] = q[i] /\ q[i] \in Waiters
    BY <1>1
  <2> HIDE DEF p
  <2>4. NobodyTwice(q) /\ \A i \in 1 .. Len(q) : q[i] \in Live(c)
    BY <2>2 DEF QueueSound
  <2> HIDE DEF q, c
  <2>5. NobodyTwice(p)
    BY <1>1, <1>5, <2>3, <2>4 DEF NobodyTwice
  <2>6. \A i \in 1 .. Len(p) : p[i] \in Live(c)'
    BY <1>1, <1>4, <2>3, <2>4
  <2>7. bucket'[c].queue = p
    BY <2>1 DEF p
  <2>8. c' = c
    BY DEF c, BucketOf
  <2> QED
    BY <2>5, <2>6, <2>7, <2>8 DEF QueueSound
<1>7. \A b \in Buckets : b # c => QueueSound(b)'
  <2> SUFFICES ASSUME NEW b \in Buckets, b # c PROVE QueueSound(b)'
    OBVIOUS
  <2>1. bucket'[b].queue = bucket[b].queue
    BY <1>1, <1>2 DEF FutexInv, FutexTypeOK
  <2> QED
    BY <1>4, <2>1, QueueStays DEF FutexInv
<1> QED
  BY <1>3, <1>6, <1>7 DEF FutexInv

LEMMA DropStep ==
  ASSUME FutexInv, NEW w \in Waiters, Drop(w)
  PROVE  FutexInv'
<1> PICK c \in Buckets : c = BucketOf(w)
  BY BucketOfWaiter
<1> DEFINE q == bucket[c].queue
           p == Without(q, w)
<1>1. /\ q \in Seq(Waiters) /\ Len(q) \in Nat
      /\ NobodyTwice(q) /\ \A i \in 1 .. Len(q) : q[i] \in Live(c)
      /\ \A i \in 1 .. Len(q) : q[i] \in Waiters
  BY QueueOf DEF FutexInv, QueueSound
<1>2. /\ bucket' = [bucket EXCEPT ![c].queue = p]
      /\ wait' = [wait EXCEPT ![w] = [pc |-> "done", registered |-> FALSE, woken |-> FALSE]]
  BY DEF Drop
<1>3. /\ p \in Seq(Waiters) /\ NobodyTwice(p)
      /\ \A i \in 1 .. Len(p) : p[i] # w /\ \E j \in 1 .. Len(q) : p[i] = q[j]
  <2> HIDE DEF q
  <2> QED
    BY <1>1, WithoutFacts
<1> HIDE DEF q, p
<1>4. FutexTypeOK'
  <2>1. bucket' \in [Buckets -> [holder : Setters \cup {Free}, queue : Seq(Waiters)]]
    BY <1>2, <1>3, BucketUpdate DEF FutexInv, FutexTypeOK
  <2>2. wait' \in [Waiters -> [pc : {"user", "poll", "pending", "done"},
                               registered : BOOLEAN, woken : BOOLEAN]]
    BY <1>2 DEF FutexInv, FutexTypeOK
  <2> QED
    BY <2>1, <2>2 DEF Drop, FutexInv, FutexTypeOK
<1>5. \A b \in Buckets : Live(b) \ {w} \subseteq Live(b)'
  BY <1>2 DEF Live, At, FutexInv, FutexTypeOK
<1>6. QueueSound(c)'
  <2>1. bucket'[c].queue = p
    BY <1>2 DEF FutexInv, FutexTypeOK
  <2>2. \A i \in 1 .. Len(p) : p[i] \in Live(c)'
    BY <1>1, <1>3, <1>5
  <2> QED
    BY <1>3, <2>1, <2>2 DEF QueueSound
<1>7. \A b \in Buckets : b # c => QueueSound(b)'
  <2> SUFFICES ASSUME NEW b \in Buckets, b # c PROVE QueueSound(b)'
    OBVIOUS
  <2>1. bucket'[b].queue = bucket[b].queue /\ QueueSound(b)
    BY <1>2 DEF FutexInv, FutexTypeOK
  <2>2. Live(b) \subseteq Live(b)'
    BY <1>5 DEF Live
  <2> QED
    BY <2>1, <2>2, QueueStays DEF FutexInv
<1> QED
  BY <1>4, <1>6, <1>7 DEF FutexInv

LEMMA WakeOneStep ==
  ASSUME FutexInv, NEW s \in Setters, WakeOne(s)
  PROVE  FutexInv'
<1> PICK c \in Buckets : c = Target(s)
  BY BucketOfWaiter DEF Target, FutexInv, FutexTypeOK
<1> DEFINE q == bucket[c].queue
           p == Tail(q)
<1>1. /\ q \in Seq(Waiters) /\ Len(q) \in Nat
      /\ NobodyTwice(q) /\ \A i \in 1 .. Len(q) : q[i] \in Live(c)
      /\ \A i \in 1 .. Len(q) : q[i] \in Waiters
  BY QueueOf DEF FutexInv, QueueSound
<1>2. /\ q # <<>> /\ set[s].woken < Count
      /\ bucket' = [bucket EXCEPT ![c].queue = p]
      /\ wait' = [wait EXCEPT ![Head(q)].woken = TRUE]
      /\ set' = [set EXCEPT ![s].woken = @ + 1]
  BY DEF WakeOne, More
<1>3. /\ p \in Seq(Waiters) /\ Len(p) = Len(q) - 1 /\ Head(q) \in Waiters
      /\ \A i \in 1 .. Len(p) : i + 1 \in 1 .. Len(q) /\ p[i] = q[i + 1]
  BY <1>1, <1>2
<1> HIDE DEF q, p
<1>4. FutexTypeOK'
  <2>1. bucket' \in [Buckets -> [holder : Setters \cup {Free}, queue : Seq(Waiters)]]
    BY <1>2, <1>3, BucketUpdate DEF FutexInv, FutexTypeOK
  <2>2. wait' \in [Waiters -> [pc : {"user", "poll", "pending", "done"},
                               registered : BOOLEAN, woken : BOOLEAN]]
    BY <1>2, <1>3, ZenonT(30) DEF FutexInv, FutexTypeOK
  <2>3. set' \in [Setters -> [pc : {"idle", "lock", "loop"}, addr : Addrs, woken : 0 .. Count]]
    <3>1. set[s].woken + 1 \in 0 .. Count
      BY <1>2, FutexAssumption DEF FutexInv, FutexTypeOK
    <3> QED
      BY <1>2, <3>1 DEF FutexInv, FutexTypeOK
  <2>4. misdirected' \in BOOLEAN
    BY Zenon DEF WakeOne
  <2> QED
    BY <2>1, <2>2, <2>3, <2>4 DEF WakeOne, FutexInv, FutexTypeOK
<1>5. \A b \in Buckets : Live(b) \subseteq Live(b)'
  BY <1>2 DEF Live, At, FutexInv, FutexTypeOK
<1>6. QueueSound(c)'
  <2>1. bucket'[c].queue = p
    BY <1>2 DEF FutexInv, FutexTypeOK
  <2>2. \A i \in 1 .. Len(p) : p[i] \in Live(c)'
    BY <1>1, <1>3, <1>5
  <2>3. NobodyTwice(p)
    <3> SUFFICES ASSUME NEW i \in 1 .. Len(p), NEW j \in 1 .. Len(p), p[i] = p[j]
                 PROVE  i = j
      BY DEF NobodyTwice
    <3>1. i + 1 \in 1 .. Len(q) /\ j + 1 \in 1 .. Len(q) /\ q[i + 1] = q[j + 1]
      BY <1>3
    <3>2. i + 1 = j + 1
      BY <1>1, <3>1 DEF NobodyTwice
    <3> QED
      BY <3>2
  <2> QED
    BY <2>1, <2>2, <2>3 DEF QueueSound
<1>7. \A b \in Buckets : b # c => QueueSound(b)'
  <2> SUFFICES ASSUME NEW b \in Buckets, b # c PROVE QueueSound(b)'
    OBVIOUS
  <2>1. bucket'[b].queue = bucket[b].queue /\ QueueSound(b)
    BY <1>2 DEF FutexInv, FutexTypeOK
  <2> QED
    BY <1>5, <2>1, QueueStays DEF FutexInv
<1> QED
  BY <1>4, <1>6, <1>7 DEF FutexInv

\* A poll resolves a future only when it is not linked.
LEMMA RepollStep ==
  ASSUME FutexInv, NEW w \in Waiters, Repoll(w)
  PROVE  FutexInv'
<1> PICK c \in Buckets : c = BucketOf(w)
  BY BucketOfWaiter
<1>1. /\ bucket' = bucket
      /\ wait' = [wait EXCEPT ![w].woken = FALSE,
                              ![w].pc = IF is_linked(w) THEN "pending" ELSE "user",
                              ![w].registered = is_linked(w)]
  BY DEF Repoll
<1>2. is_linked(w) \in BOOLEAN
  BY DEF is_linked
<1>3. FutexTypeOK'
  <2>1. wait' \in [Waiters -> [pc : {"user", "poll", "pending", "done"},
                               registered : BOOLEAN, woken : BOOLEAN]]
    <3>1. CASE is_linked(w)
      <4>1. is_linked(w) = TRUE
        BY <1>2, <3>1
      <4>2. wait' = [wait EXCEPT ![w].woken = FALSE, ![w].pc = "pending",
                                 ![w].registered = TRUE]
        BY <1>1, <4>1, Zenon
      <4> QED
        BY <4>2, ZenonT(30) DEF FutexInv, FutexTypeOK
    <3>2. CASE ~is_linked(w)
      <4>1. is_linked(w) = FALSE
        BY <1>2, <3>2
      <4>2. wait' = [wait EXCEPT ![w].woken = FALSE, ![w].pc = "user",
                                 ![w].registered = FALSE]
        BY <1>1, <4>1, Zenon
      <4> QED
        BY <4>2, ZenonT(30) DEF FutexInv, FutexTypeOK
    <3> QED
      BY <3>1, <3>2
  <2> QED
    BY <2>1 DEF Repoll, FutexInv, FutexTypeOK
<1>4. \A b \in Buckets : Live(b) \ {w} \subseteq Live(b)'
  BY <1>1 DEF Live, At, FutexInv, FutexTypeOK
<1>5. is_linked(w) /\ w \in Live(c) => w \in Live(c)'
  BY <1>1 DEF Live, At, FutexInv, FutexTypeOK
<1>6. \A b \in Buckets : QueueSound(b)'
  <2> SUFFICES ASSUME NEW b \in Buckets PROVE QueueSound(b)'
    OBVIOUS
  <2> DEFINE q == bucket[b].queue
  <2>1. /\ NobodyTwice(q) /\ q \in Seq(Waiters)
        /\ \A i \in 1 .. Len(q) : q[i] \in Live(b) /\ q[i] \in Waiters
    BY QueueOf DEF FutexInv, QueueSound
  <2>2. ASSUME NEW i \in 1 .. Len(q) PROVE q[i] \in Live(b)'
    <3>1. CASE q[i] # w
      BY <1>4, <2>1, <3>1
    <3>2. CASE q[i] = w
      <4>1. b = c
        BY <2>1, <3>2 DEF Live
      <4>2. is_linked(w)
        BY <2>1, <3>2, <4>1 DEF is_linked, ToSet
      <4> QED
        BY <1>5, <2>1, <3>2, <4>1, <4>2
    <3> QED
      BY <3>1, <3>2
  <2> QED
    BY <1>1, <2>1, <2>2 DEF QueueSound
<1> QED
  BY <1>3, <1>6 DEF FutexInv

LEMMA FutexStep == FutexInv /\ [FutexNext]_futexVars => FutexInv'
<1> SUFFICES ASSUME FutexInv, [FutexNext]_futexVars PROVE FutexInv'
  OBVIOUS
<1>1. CASE UNCHANGED futexVars
  BY <1>1 DEF futexVars, FutexInv, FutexTypeOK, QueueSound, Live, At
<1>2. ASSUME NEW w \in Waiters, Test(w) PROVE FutexInv'
  <2>1. FutexTypeOK'
    BY <1>2 DEF Test, FutexInv, FutexTypeOK
  <2>2. \A b \in Buckets : Live(b) \subseteq Live(b)'
    BY <1>2 DEF Test, Live, At, FutexInv, FutexTypeOK
  <2> QED
    BY <1>2, <2>1, <2>2, BucketsStay DEF Test, FutexInv
<1>3. ASSUME NEW s \in Setters, NEW a \in Addrs, Change(s, a) PROVE FutexInv'
  <2>1. FutexTypeOK'
    BY <1>3, ZenonT(30) DEF Change, FutexInv, FutexTypeOK
  <2>2. \A b \in Buckets : Live(b) \subseteq Live(b)'
    BY <1>3 DEF Change, Live, At
  <2> QED
    BY <1>3, <2>1, <2>2, BucketsStay DEF Change, FutexInv
<1>4. ASSUME NEW s \in Setters, WakeLock(s) \/ WakeDone(s) PROVE FutexInv'
  <2>1. Target(s) \in Buckets
    BY BucketOfWaiter DEF Target, FutexInv, FutexTypeOK
  <2>2. \E h \in Setters \cup {Free} : bucket' = [bucket EXCEPT ![Target(s)].holder = h]
    BY <1>4 DEF WakeLock, WakeDone
  <2>3. /\ bucket' \in [Buckets -> [holder : Setters \cup {Free}, queue : Seq(Waiters)]]
        /\ \A b \in Buckets : bucket'[b].queue = bucket[b].queue
    <3>1. FutexTypeOK
      BY DEF FutexInv
    <3> QED
      BY <2>1, <2>2, <3>1, BucketUpdate
  <2>4. set' \in [Setters -> [pc : {"idle", "lock", "loop"}, addr : Addrs, woken : 0 .. Count]]
    <3>1. 0 \in 0 .. Count
      BY FutexAssumption
    <3>2. CASE WakeLock(s)
      BY <3>1, <3>2, ZenonT(30) DEF WakeLock, FutexInv, FutexTypeOK
    <3>3. CASE WakeDone(s)
      BY <3>3 DEF WakeDone, FutexInv, FutexTypeOK
    <3> QED
      BY <1>4, <3>2, <3>3
  <2>5. UNCHANGED <<word, wait, late, misdirected>>
    BY <1>4 DEF WakeLock, WakeDone
  <2>6. FutexTypeOK'
    BY <2>3, <2>4, <2>5 DEF FutexInv, FutexTypeOK
  <2>7. \A b \in Buckets : Live(b) \subseteq Live(b)'
    BY <2>5 DEF Live, At
  <2> QED
    BY <2>3, <2>6, <2>7, BucketsStay DEF FutexInv
<1> QED
  BY <1>1, <1>2, <1>3, <1>4, RegisterStep, RepollStep, DropStep, WakeOneStep
     DEF FutexNext, Call

LEMMA FutexInvariance == FutexSpec => []FutexInv
  BY FutexInitInv, FutexStep, PTL DEF FutexSpec

\* Words, buckets, waiters and setters keep their types.
THEOREM FutexTypeCorrect == FutexSpec => []FutexTypeOK
<1>1. FutexInv => FutexTypeOK
  BY DEF FutexInv
<1> QED
  BY <1>1, FutexInvariance, PTL

\* futex.rs:151 and 181: wake() and drop meet only nodes of living futures.
THEOREM FutexNodesLive == FutexSpec => []LinkedNodesLive
<1>1. FutexInv => LinkedNodesLive
  <2> SUFFICES ASSUME FutexInv, NEW b \in Buckets
               PROVE  /\ IsInjective(bucket[b].queue)
                      /\ \A w \in ToSet(bucket[b].queue) :
                           BucketOf(w) = b /\ At(w, "pending") /\ wait[w].registered
    BY DEF LinkedNodesLive
  <2>1. bucket[b].queue \in Seq(Waiters) /\ QueueSound(b)
    BY QueueOf DEF FutexInv
  <2>2. DOMAIN bucket[b].queue = 1 .. Len(bucket[b].queue)
    BY <2>1
  <2> QED
    BY <2>1, <2>2 DEF QueueSound, NobodyTwice, Live, IsInjective, ToSet
<1> QED
  BY <1>1, FutexInvariance, PTL
=============================================================================

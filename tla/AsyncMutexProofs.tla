-------------------------- MODULE AsyncMutexProofs --------------------------
(***************************************************************************)
(* Proofs about the async mutex for every set of tasks.  Two inductive     *)
(* invariants: Owned, for mutual exclusion, which survives the             *)
(* unconditional store of a late registration because that store never     *)
(* writes UNLOCKED; and Registration, for the lifetime of the wait nodes,  *)
(* which ties the list to the futures' `registered` flags.                 *)
(***************************************************************************)
EXTENDS AsyncMutex, TLAPS, FiniteSetTheorems

\* A linked node belongs to a future that is enqueueing it or knows, by its
\* registered flag, that it has to remove it.
Registration ==
  \A i \in 1 .. Len(queue) :
    LET t == queue[i] IN
    \/ pc[t] = "count"
    \/ pc[t] \in {"poll", "retry", "pending", "done"} /\ registered[t]

NoNodeTwice ==
  \A i, j \in 1 .. Len(queue) : queue[i] = queue[j] => i = j

Inv == TypeOK /\ MutualExclusion /\ Registration /\ NoNodeTwice

-----------------------------------------------------------------------------
\* Counters stay within their width.
LEMMA LenRange == \A k \in Int : k % LEN \in 0 .. LEN - 1
  BY LenAssumption

\* remove(): the list without its i-th node has the other nodes, in order.
LEMMA WithoutFacts ==
  ASSUME NEW q \in Seq(Tasks), NEW i \in 1 .. Len(q)
  PROVE  /\ Without(q, i) \in Seq(Tasks)
         /\ Len(Without(q, i)) = Len(q) - 1
         /\ \A j \in 1 .. Len(q) - 1 :
              Without(q, i)[j] = IF j < i THEN q[j] ELSE q[j + 1]
<1>1. Len(q) - 1 \in Nat
  OBVIOUS
<1>2. \A j \in 1 .. Len(q) - 1 : (IF j < i THEN q[j] ELSE q[j + 1]) \in Tasks
  OBVIOUS
<1> QED
  BY <1>1, <1>2 DEF Without

LEMMA InitInv == Init => Inv
<1> SUFFICES ASSUME Init PROVE Inv
  OBVIOUS
<1>1. TypeOK
  <2>1. pc \in [Tasks -> PCs] /\ queue \in Seq(Tasks)
    BY DEF Init, PCs
  <2>2. registered \in [Tasks -> BOOLEAN] /\ woken \in [Tasks -> BOOLEAN]
    BY DEF Init
  <2>3. popped \in [Tasks -> SUBSET Tasks]
    BY DEF Init
  <2> QED
    BY <2>1, <2>2, <2>3, LenAssumption DEF Init, TypeOK
<1>2. MutualExclusion
  BY DEF Init, MutualExclusion, Holds
<1>3. Registration /\ NoNodeTwice
  BY DEF Init, Registration, NoNodeTwice
<1> QED
  BY <1>1, <1>2, <1>3 DEF Inv

LEMMA TypeStep == TypeOK /\ [Next]_vars => TypeOK'
<1> SUFFICES ASSUME TypeOK, [Next]_vars PROVE TypeOK'
  OBVIOUS
<1> USE DEF TypeOK, PCs, Goto
<1>1. CASE UNCHANGED vars
  BY <1>1 DEF vars
<1>2. ASSUME NEW t \in Tasks, TryLock(t) PROVE TypeOK'
  BY <1>2 DEF TryLock
<1>3. ASSUME NEW t \in Tasks, Lock(t) PROVE TypeOK'
  BY <1>3 DEF Lock
<1>4. ASSUME NEW t \in Tasks, Repoll(t) PROVE TypeOK'
  BY <1>4 DEF Repoll
<1>5. ASSUME NEW t \in Tasks, PollFast(t) PROVE TypeOK'
  BY <1>5 DEF PollFast
<1>6. ASSUME NEW t \in Tasks, PollSlow(t) PROVE TypeOK'
  BY <1>6 DEF PollSlow
<1>7. ASSUME NEW t \in Tasks, Mark(t) PROVE TypeOK'
  BY <1>7 DEF Mark
<1>8. ASSUME NEW t \in Tasks, EnqueueLink(t) PROVE TypeOK'
  BY <1>8 DEF EnqueueLink
<1>9. ASSUME NEW t \in Tasks, EnqueueCount(t) PROVE TypeOK'
  <2>1. len' \in 0 .. LEN - 1
    BY <1>9, LenRange, LenAssumption DEF EnqueueCount
  <2> QED
    BY <1>9, <2>1 DEF EnqueueCount, waiter_priority
<1>10. ASSUME NEW t \in Tasks, Retry(t) PROVE TypeOK'
  BY <1>10 DEF Retry
<1>11. ASSUME NEW t \in Tasks, Pend(t) PROVE TypeOK'
  BY <1>11 DEF Pend
<1>12. ASSUME NEW t \in Tasks, RemoveLinked(t) PROVE TypeOK'
  <2>1. queue' \in Seq(Tasks)
    BY <1>12, WithoutFacts DEF RemoveLinked
  <2> QED
    BY <1>12, <2>1 DEF RemoveLinked
<1>13. ASSUME NEW t \in Tasks, RemoveCount(t) PROVE TypeOK'
  <2>1. len' \in 0 .. LEN - 1
    BY <1>13, LenRange, LenAssumption DEF RemoveCount
  <2> QED
    BY <1>13, <2>1 DEF RemoveCount
<1>14. ASSUME NEW t \in Tasks, FutureDropped(t) PROVE TypeOK'
  BY <1>14 DEF FutureDropped, After
<1>15. ASSUME NEW t \in Tasks, UnlockRead(t) PROVE TypeOK'
  BY <1>15 DEF UnlockRead
<1>16. ASSUME NEW t \in Tasks, UnlockSwap(t) PROVE TypeOK'
  BY <1>16 DEF UnlockSwap
<1>17. ASSUME NEW t \in Tasks, UnlockStore(t) PROVE TypeOK'
  BY <1>17 DEF UnlockStore
<1>18. ASSUME NEW t \in Tasks, WakeOneEmpty(t) PROVE TypeOK'
  BY <1>18 DEF WakeOneEmpty
<1>19. ASSUME NEW t \in Tasks, WakeOnePop(t) PROVE TypeOK'
  BY <1>19 DEF WakeOnePop
<1>20. ASSUME NEW t \in Tasks, WakeOneCount(t) PROVE TypeOK'
  <2>1. len' \in 0 .. LEN - 1
    BY <1>20, LenRange, LenAssumption DEF WakeOneCount
  <2> QED
    BY <1>20, <2>1 DEF WakeOneCount
<1>21. ASSUME NEW t \in Tasks, WakeCall(t) PROVE TypeOK'
  BY <1>21 DEF WakeCall
<1> QED
  BY <1>1, <1>2, <1>3, <1>4, <1>5, <1>6, <1>7, <1>8, <1>9, <1>10, <1>11,
     <1>12, <1>13, <1>14, <1>15, <1>16, <1>17, <1>18, <1>19, <1>20, <1>21
     DEF Next, Step

\* A step takes the lock only from UNLOCKED, and only the owner's own step
\* stores UNLOCKED; every other store writes a locked value.
LEMMA MutexStep ==
  TypeOK /\ MutualExclusion /\ [Next]_vars => MutualExclusion'
<1> SUFFICES ASSUME TypeOK, MutualExclusion, [Next]_vars
             PROVE  MutualExclusion'
  OBVIOUS
<1> USE DEF TypeOK, PCs, Goto, MutualExclusion, Holds, UNLOCKED,
            LOCKED_NO_WAITERS, LOCKED_HAS_WAITERS
<1>1. CASE UNCHANGED vars
  BY <1>1 DEF vars
<1>2. ASSUME NEW t \in Tasks, TryLock(t) \/ PollFast(t) \/ Retry(t)
      PROVE  MutualExclusion'
  BY <1>2 DEF TryLock, PollFast, Retry
<1>3. ASSUME NEW t \in Tasks,
             \/ Lock(t) \/ Repoll(t) \/ PollSlow(t) \/ Mark(t)
             \/ EnqueueLink(t) \/ EnqueueCount(t) \/ Pend(t)
      PROVE  MutualExclusion'
  BY <1>3 DEF Lock, Repoll, PollSlow, Mark, EnqueueLink, EnqueueCount, Pend
<1>4. ASSUME NEW t \in Tasks,
             RemoveLinked(t) \/ RemoveCount(t) \/ FutureDropped(t)
      PROVE  MutualExclusion'
  BY <1>4 DEF RemoveLinked, RemoveCount, FutureDropped, After
<1>5. ASSUME NEW t \in Tasks,
             UnlockRead(t) \/ UnlockSwap(t) \/ UnlockStore(t)
      PROVE  MutualExclusion'
  BY <1>5 DEF UnlockRead, UnlockSwap, UnlockStore
<1>6. ASSUME NEW t \in Tasks,
             \/ WakeOneEmpty(t) \/ WakeOnePop(t) \/ WakeOneCount(t)
             \/ WakeCall(t)
      PROVE  MutualExclusion'
  BY <1>6 DEF WakeOneEmpty, WakeOnePop, WakeOneCount, WakeCall
<1> QED
  BY <1>1, <1>2, <1>3, <1>4, <1>5, <1>6 DEF Next, Step

\* The steps that leave the list alone.
QuietStep(t) ==
  \/ TryLock(t) \/ Lock(t) \/ Repoll(t) \/ PollFast(t) \/ PollSlow(t)
  \/ Mark(t) \/ EnqueueCount(t) \/ Retry(t) \/ Pend(t)
  \/ RemoveCount(t) \/ FutureDropped(t)
  \/ UnlockRead(t) \/ UnlockSwap(t) \/ UnlockStore(t)
  \/ WakeOneEmpty(t) \/ WakeOneCount(t) \/ WakeCall(t)

\* The list changes in three places; each keeps it free of duplicates and of
\* nodes whose future no longer knows about them.
LEMMA ListStep ==
  TypeOK /\ Registration /\ NoNodeTwice /\ [Next]_vars
    => Registration' /\ NoNodeTwice'
<1> SUFFICES ASSUME TypeOK, Registration, NoNodeTwice, [Next]_vars
             PROVE  Registration' /\ NoNodeTwice'
  OBVIOUS
<1>1. CASE UNCHANGED vars
  BY <1>1 DEF vars, Registration, NoNodeTwice
<1>2. ASSUME NEW t \in Tasks, EnqueueLink(t)
      PROVE  Registration' /\ NoNodeTwice'
  <2>1. \A i \in 1 .. Len(queue) : queue[i] # t
    BY <1>2 DEF Registration, EnqueueLink
  <2>2. /\ Len(queue') = Len(queue) + 1
        /\ \A i \in 1 .. Len(queue) : queue'[i] = queue[i]
        /\ queue'[Len(queue) + 1] = t
    BY <1>2 DEF EnqueueLink, TypeOK
  <2>3. Registration'
    BY <1>2, <2>1, <2>2 DEF Registration, EnqueueLink, Goto, TypeOK
  <2>4. NoNodeTwice'
    BY <2>1, <2>2 DEF NoNodeTwice, TypeOK
  <2> QED
    BY <2>3, <2>4
<1>3. ASSUME NEW t \in Tasks, RemoveLinked(t)
      PROVE  Registration' /\ NoNodeTwice'
  <2>1. PICK i \in 1 .. Len(queue) :
          queue[i] = t /\ queue' = Without(queue, i)
    BY <1>3 DEF RemoveLinked
  <2>2. /\ Len(queue') = Len(queue) - 1
        /\ \A j \in 1 .. Len(queue) - 1 :
             queue'[j] = IF j < i THEN queue[j] ELSE queue[j + 1]
    BY <2>1, WithoutFacts DEF TypeOK
  <2>3. \A j \in 1 .. Len(queue') : queue'[j] # t
    BY <2>1, <2>2 DEF NoNodeTwice, TypeOK
  <2>4. \A j \in 1 .. Len(queue') :
          \E k \in 1 .. Len(queue) : queue'[j] = queue[k]
    BY <2>2 DEF TypeOK
  <2>5. Registration'
    BY <1>3, <2>3, <2>4 DEF Registration, RemoveLinked, Goto, TypeOK
  <2>6. ASSUME NEW j \in 1 .. Len(queue'), NEW k \in 1 .. Len(queue'),
               queue'[j] = queue'[k]
        PROVE  j = k
    <3> DEFINE jj == IF j < i THEN j ELSE j + 1
               kk == IF k < i THEN k ELSE k + 1
    <3>1. jj \in 1 .. Len(queue) /\ kk \in 1 .. Len(queue)
      BY <2>2 DEF TypeOK
    <3>2. queue[jj] = queue[kk]
      BY <2>2, <2>6 DEF TypeOK
    <3>3. jj = kk
      BY <3>1, <3>2 DEF NoNodeTwice
    <3> QED
      BY <2>2, <3>3 DEF TypeOK
  <2>7. NoNodeTwice'
    BY <2>6 DEF NoNodeTwice
  <2> QED
    BY <2>5, <2>7
<1>4. ASSUME NEW t \in Tasks, WakeOnePop(t)
      PROVE  Registration' /\ NoNodeTwice'
  <2>1. /\ Len(queue') = Len(queue) - 1
        /\ \A j \in 1 .. Len(queue') : queue'[j] = queue[j + 1]
    BY <1>4 DEF WakeOnePop, TypeOK
  <2>2. \A j \in 1 .. Len(queue') : j + 1 \in 1 .. Len(queue)
    BY <2>1 DEF TypeOK
  <2>3. Registration'
    BY <1>4, <2>1, <2>2 DEF Registration, WakeOnePop, Goto, TypeOK
  <2>4. NoNodeTwice'
    BY <2>1, <2>2 DEF NoNodeTwice, TypeOK
  <2> QED
    BY <2>3, <2>4
<1>5. ASSUME NEW t \in Tasks, QuietStep(t)
      PROVE  Registration' /\ NoNodeTwice'
  <2>1. queue' = queue
    BY <1>5 DEF QuietStep, TryLock, Lock, Repoll, PollFast, PollSlow, Mark,
       EnqueueCount, Retry, Pend, RemoveCount, FutureDropped, UnlockRead,
       UnlockSwap, UnlockStore, WakeOneEmpty, WakeOneCount, WakeCall
  <2>2. ASSUME NEW i \in 1 .. Len(queue)
        PROVE  \/ pc'[queue[i]] = "count"
               \/ /\ pc'[queue[i]] \in {"poll", "retry", "pending", "done"}
                  /\ registered'[queue[i]]
    <3> DEFINE u == queue[i]
    <3>1. u \in Tasks /\ Linked(u)
      BY <2>2 DEF TypeOK, Linked
    <3>2. \/ pc[u] = "count"
          \/ pc[u] \in {"poll", "retry", "pending", "done"} /\ registered[u]
      BY DEF Registration
    <3>3. CASE u # t
      BY <1>5, <3>1, <3>2, <3>3 DEF TypeOK, Goto, QuietStep, TryLock, Lock,
         Repoll, PollFast, PollSlow, Mark, EnqueueCount, Retry, Pend,
         RemoveCount, FutureDropped, UnlockRead, UnlockSwap, UnlockStore,
         WakeOneEmpty, WakeOneCount, WakeCall
    <3>4. CASE u = t
      BY <1>5, <3>1, <3>2, <3>4 DEF TypeOK, Goto, QuietStep, TryLock, Lock,
         Repoll, PollFast, PollSlow, Mark, EnqueueCount, Retry, Pend,
         RemoveCount, FutureDropped, UnlockRead, UnlockSwap, UnlockStore,
         WakeOneEmpty, WakeOneCount, WakeCall
    <3> QED
      BY <3>3, <3>4
  <2>3. Registration'
    BY <2>1, <2>2 DEF Registration
  <2>4. NoNodeTwice'
    BY <2>1 DEF NoNodeTwice
  <2> QED
    BY <2>3, <2>4
<1> QED
  BY <1>1, <1>2, <1>3, <1>4, <1>5 DEF Next, Step, QuietStep

-----------------------------------------------------------------------------
\* The inductive invariant holds in every reachable state.
THEOREM Invariance == Spec => []Inv
<1>1. Inv /\ [Next]_vars => Inv'
  BY TypeStep, MutexStep, ListStep DEF Inv
<1> QED
  BY <1>1, InitInv, PTL DEF Spec

\* The lock word keeps to its three values and counters to their width.
THEOREM TypeCorrect == Spec => []TypeOK
<1>1. Inv => TypeOK
  BY DEF Inv
<1> QED
  BY <1>1, Invariance, PTL

\* One owner at most, and no unlock of an unlocked mutex, for any number of
\* tasks that lock, try, park, cancel and unlock in any interleaving.
THEOREM Mutex == Spec => []MutualExclusion
<1>1. Inv => MutualExclusion
  BY DEF Inv
<1> QED
  BY <1>1, Invariance, PTL

\* No linked node belongs to a dropped future and none is linked twice: a
\* wake-up never follows a dangling pointer.
THEOREM NodesLive == Spec => []LinkedNodesLive
<1>1. Inv => LinkedNodesLive
  BY DEF Inv, Registration, NoNodeTwice, LinkedNodesLive, FutureAlive
<1> QED
  BY <1>1, Invariance, PTL

\* Only the owner's own step unlocks.
THEOREM OwnerUnlocks == Spec => OnlyOwnerUnlocks
<1> DEFINE A == state # UNLOCKED /\ state' = UNLOCKED
                  => \E t \in Tasks : Holds(t) /\ ~Holds(t)'
<1>1. ASSUME Inv, [Next]_vars PROVE [A]_vars
  <2>1. CASE UNCHANGED vars
    BY <2>1
  <2>2. ASSUME NEW t \in Tasks, Step(t), state # UNLOCKED, state' = UNLOCKED
        PROVE  Holds(t) /\ ~Holds(t)'
    <3>1. UnlockSwap(t) \/ UnlockStore(t)
      BY <2>2 DEF Step, TryLock, Lock, Repoll, PollFast, PollSlow, Mark,
         EnqueueLink, EnqueueCount, Retry, Pend, RemoveLinked, RemoveCount,
         FutureDropped, UnlockRead, WakeOneEmpty, WakeOnePop, WakeOneCount,
         WakeCall, UNLOCKED, LOCKED_NO_WAITERS, LOCKED_HAS_WAITERS
    <3> QED
      BY <1>1, <3>1 DEF Inv, TypeOK, UnlockSwap, UnlockStore, Goto, Holds
  <2> QED
    BY <1>1, <2>1, <2>2 DEF Next
<1> QED
  BY <1>1, Invariance, PTL DEF Spec, OnlyOwnerUnlocks

-----------------------------------------------------------------------------
(* len: enqueue(), remove() and wake_one() count after they have let go of *)
(* the list, so what holds throughout is that len lags behind the list by  *)
(* the calls that have yet to count, modulo the width of usize.            *)

Counting == {t \in Tasks : pc[t] = "count"}
Uncounting == {t \in Tasks : pc[t] \in {"done_count", "drop_count", "wake_count"}}

Lag == Len(queue) - Cardinality(Counting) + Cardinality(Uncounting)

LenLags == \E k \in Int : len + k * LEN = Lag

\* fetch_add and fetch_sub wrap around at most once.
LEMMA LenWraps ==
  ASSUME NEW n \in 0 .. LEN - 1
  PROVE  /\ (n + 1) % LEN = IF n + 1 = LEN THEN 0 ELSE n + 1
         /\ (n - 1) % LEN = IF n = 0 THEN LEN - 1 ELSE n - 1
  BY LenAssumption

LEMMA LagType ==
  ASSUME TypeOK, IsFiniteSet(Tasks)
  PROVE  /\ IsFiniteSet(Counting) /\ IsFiniteSet(Uncounting)
         /\ Cardinality(Counting) \in Nat /\ Cardinality(Uncounting) \in Nat
         /\ Lag \in Int
<1>1. Counting \subseteq Tasks /\ Uncounting \subseteq Tasks
  BY DEF Counting, Uncounting
<1>2. IsFiniteSet(Counting) /\ IsFiniteSet(Uncounting)
  BY <1>1, FS_Subset
<1>3. Cardinality(Counting) \in Nat /\ Cardinality(Uncounting) \in Nat
  BY <1>2, FS_CardinalityType
<1> QED
  BY <1>2, <1>3 DEF Lag, TypeOK

\* A call that has nothing to count, before or after its step.
LEMMA UncountedStep ==
  ASSUME TypeOK, LenLags, NEW t \in Tasks, NEW l \in PCs, Goto(t, l),
         l \notin {"count", "done_count", "drop_count", "wake_count"},
         pc[t] \notin {"count", "done_count", "drop_count", "wake_count"},
         UNCHANGED <<len, queue>>
  PROVE  LenLags'
<1>1. Counting' = Counting /\ Uncounting' = Uncounting
  BY DEF TypeOK, Goto, Counting, Uncounting
<1> QED
  BY <1>1 DEF LenLags, Lag

LEMMA LinkLags ==
  ASSUME TypeOK, IsFiniteSet(Tasks), LenLags, NEW t \in Tasks, EnqueueLink(t)
  PROVE  LenLags'
<1>1. Counting' = Counting \cup {t} /\ t \notin Counting /\ Uncounting' = Uncounting
  BY DEF TypeOK, EnqueueLink, Goto, Counting, Uncounting
<1>2. Cardinality(Counting') = Cardinality(Counting) + 1
  BY <1>1, LagType, FS_AddElement
<1>3. Len(queue') = Len(queue) + 1 /\ len' = len /\ Len(queue) \in Nat
  BY DEF TypeOK, EnqueueLink
<1>4. Lag' = Lag
  BY <1>1, <1>2, <1>3, LagType DEF Lag
<1> QED
  BY <1>3, <1>4 DEF LenLags

LEMMA CountLags ==
  ASSUME TypeOK, IsFiniteSet(Tasks), LenLags, NEW t \in Tasks, EnqueueCount(t)
  PROVE  LenLags'
<1>1. Counting' = Counting \ {t} /\ t \in Counting /\ Uncounting' = Uncounting
  BY DEF TypeOK, EnqueueCount, Goto, Counting, Uncounting
<1>2. Cardinality(Counting') = Cardinality(Counting) - 1
  BY <1>1, LagType, FS_RemoveElement
<1>3. queue' = queue /\ len' = IF len + 1 = LEN THEN 0 ELSE len + 1
  BY LenWraps DEF TypeOK, EnqueueCount
<1>4. Lag' = Lag + 1
  BY <1>1, <1>2, <1>3, LagType DEF Lag, TypeOK
<1>5. PICK k \in Int : len + k * LEN = Lag
  BY DEF LenLags
<1>6. CASE len + 1 = LEN
  <2>1. len' + (k + 1) * LEN = Lag'
    BY <1>3, <1>4, <1>5, <1>6, LagType, LenAssumption DEF TypeOK
  <2> QED
    BY <2>1 DEF LenLags
<1>7. CASE len + 1 # LEN
  <2>1. len' + k * LEN = Lag'
    BY <1>3, <1>4, <1>5, <1>7, LagType, LenAssumption DEF TypeOK
  <2> QED
    BY <2>1 DEF LenLags
<1> QED
  BY <1>6, <1>7

\* remove() and wake_one(): a node has left the list.
LEMMA UnlinkLags ==
  ASSUME TypeOK, IsFiniteSet(Tasks), LenLags, NEW t \in Tasks,
         RemoveLinked(t) \/ WakeOnePop(t)
  PROVE  LenLags'
<1>1. Uncounting' = Uncounting \cup {t} /\ t \notin Uncounting /\ Counting' = Counting
  BY DEF TypeOK, RemoveLinked, WakeOnePop, Goto, Counting, Uncounting
<1>2. Cardinality(Uncounting') = Cardinality(Uncounting) + 1
  BY <1>1, LagType, FS_AddElement
<1>3. Len(queue') = Len(queue) - 1 /\ len' = len
  <2>1. CASE RemoveLinked(t)
    BY <2>1, WithoutFacts DEF RemoveLinked, TypeOK
  <2>2. CASE WakeOnePop(t)
    BY <2>2 DEF WakeOnePop, TypeOK
  <2> QED
    BY <2>1, <2>2
<1>4. Lag' = Lag
  BY <1>1, <1>2, <1>3, LagType DEF Lag, TypeOK
<1> QED
  BY <1>3, <1>4 DEF LenLags

LEMMA UncountLags ==
  ASSUME TypeOK, IsFiniteSet(Tasks), LenLags, NEW t \in Tasks,
         RemoveCount(t) \/ WakeOneCount(t)
  PROVE  LenLags'
<1>1. Uncounting' = Uncounting \ {t} /\ t \in Uncounting /\ Counting' = Counting
  BY DEF TypeOK, RemoveCount, WakeOneCount, Goto, Counting, Uncounting
<1>2. Cardinality(Uncounting') = Cardinality(Uncounting) - 1
  BY <1>1, LagType, FS_RemoveElement
<1>3. queue' = queue /\ len' = IF len = 0 THEN LEN - 1 ELSE len - 1
  BY LenWraps DEF TypeOK, RemoveCount, WakeOneCount
<1>4. Lag' = Lag - 1
  BY <1>1, <1>2, <1>3, LagType DEF Lag, TypeOK
<1>5. PICK k \in Int : len + k * LEN = Lag
  BY DEF LenLags
<1>6. CASE len = 0
  <2>1. len' + (k - 1) * LEN = Lag'
    BY <1>3, <1>4, <1>5, <1>6, LagType, LenAssumption DEF TypeOK
  <2> QED
    BY <2>1 DEF LenLags
<1>7. CASE len # 0
  <2>1. len' + k * LEN = Lag'
    BY <1>3, <1>4, <1>5, <1>7, LagType, LenAssumption DEF TypeOK
  <2> QED
    BY <2>1 DEF LenLags
<1> QED
  BY <1>6, <1>7

LEMMA LagStep ==
  TypeOK /\ IsFiniteSet(Tasks) /\ LenLags /\ [Next]_vars => LenLags'
<1> SUFFICES ASSUME TypeOK, IsFiniteSet(Tasks), LenLags, [Next]_vars
             PROVE  LenLags'
  OBVIOUS
<1>1. CASE UNCHANGED vars
  BY <1>1 DEF vars, LenLags, Lag, Counting, Uncounting
<1>2. ASSUME NEW t \in Tasks, Step(t) PROVE LenLags'
  <2> DEFINE quiet == PCs \ {"count", "done_count", "drop_count", "wake_count"}
  <2>1. CASE EnqueueLink(t) \/ EnqueueCount(t)
    BY <2>1, LinkLags, CountLags
  <2>2. CASE RemoveLinked(t) \/ WakeOnePop(t) \/ RemoveCount(t) \/ WakeOneCount(t)
    BY <2>2, UnlinkLags, UncountLags
  <2>3. CASE ~(EnqueueLink(t) \/ EnqueueCount(t) \/ RemoveLinked(t) \/ WakeOnePop(t)
               \/ RemoveCount(t) \/ WakeOneCount(t))
    <3>1. /\ pc[t] \in quiet
          /\ \E l \in quiet : Goto(t, l)
          /\ UNCHANGED <<len, queue>>
      BY <1>2, <2>3 DEF Step, TryLock, Lock, Repoll, PollFast, PollSlow, Mark, Retry,
         Pend, FutureDropped, After, UnlockRead, UnlockSwap, UnlockStore,
         WakeOneEmpty, WakeCall, PCs, TypeOK
    <3> QED
      BY <3>1, UncountedStep
  <2> QED
    BY <2>1, <2>2, <2>3
<1> QED
  BY <1>1, <1>2 DEF Next

\* Every node in the list is another task's.
LEMMA QueueFits ==
  ASSUME Inv, IsFiniteSet(Tasks)
  PROVE  Len(queue) <= Cardinality(Tasks)
<1>1. queue \in Injection(1 .. Len(queue), Tasks)
  BY DEF Inv, TypeOK, NoNodeTwice, Injection, IsInjective
<1>2. Len(queue) \in Nat
  BY DEF Inv, TypeOK
<1>3. Cardinality(1 .. Len(queue)) = IF 1 > Len(queue) THEN 0 ELSE Len(queue) - 1 + 1
  BY ONLY <1>2, FS_Interval, 1 \in Int
<1>4. Cardinality(1 .. Len(queue)) = Len(queue)
  BY <1>2, <1>3
<1> QED
  BY <1>1, <1>4, FS_Injection

\* Between calls len is the number of linked nodes, although it is changed
\* apart from the list and may even wrap below zero in between: unlock_inner()
\* is not misled.  There are fewer tasks than usize has values.
THEOREM LenExact ==
  Spec /\ IsFiniteSet(Tasks) /\ Cardinality(Tasks) < LEN => []LenExactWhenQuiescent
<1> DEFINE few == IsFiniteSet(Tasks) /\ Cardinality(Tasks) < LEN
           J == Inv /\ few /\ LenLags
<1>1. ASSUME Init, IsFiniteSet(Tasks) PROVE LenLags
  <2>1. Counting = {} /\ Uncounting = {}
    BY <1>1 DEF Init, Counting, Uncounting
  <2>2. Cardinality(Counting) = 0 /\ Cardinality(Uncounting) = 0
    BY <2>1, FS_EmptySet
  <2>3. len + 0 * LEN = Lag
    BY <1>1, <2>2, LenAssumption DEF Init, Lag
  <2> QED
    BY <2>3 DEF LenLags
<1>2. ASSUME Inv, few, LenLags, Quiescent PROVE len = Len(queue)
  <2>1. Counting = {} /\ Uncounting = {}
    BY <1>2 DEF Quiescent, Counting, Uncounting
  <2>2. Lag = Len(queue)
    BY <1>2, <2>1, FS_EmptySet DEF Lag, Inv, TypeOK
  <2>3. PICK k \in Int : len + k * LEN = Len(queue)
    BY <1>2, <2>2 DEF LenLags
  <2>4. Len(queue) \in 0 .. LEN - 1 /\ len \in 0 .. LEN - 1
    BY <1>2, QueueFits, FS_CardinalityType, LenAssumption DEF Inv, TypeOK
  <2>5. LEN \in Nat /\ LEN > 0
    BY LenAssumption
  <2>6. ~(k >= 1)
    <3> SUFFICES ASSUME k >= 1 PROVE FALSE
      OBVIOUS
    <3>1. k * LEN >= LEN
      BY <2>5
    <3> QED
      BY <2>3, <2>4, <2>5, <3>1
  <2>7. ~(k <= -1)
    <3> SUFFICES ASSUME k <= -1 PROVE FALSE
      OBVIOUS
    <3>1. k * LEN <= -LEN
      BY <2>5
    <3> QED
      BY <2>3, <2>4, <2>5, <3>1
  <2>8. k = 0
    BY <2>6, <2>7
  <2> QED
    BY <2>3, <2>4, <2>5, <2>8
<1>3. J => LenExactWhenQuiescent
  BY <1>2 DEF LenExactWhenQuiescent
<1>4. Init /\ few => J
  BY <1>1, InitInv
<1>5. J /\ [Next]_vars => J'
  <2>1. Inv /\ [Next]_vars => Inv'
    BY TypeStep, MutexStep, ListStep DEF Inv
  <2> QED
    BY <2>1, LagStep DEF Inv
<1> HIDE DEF J
<1> QED
  BY <1>3, <1>4, <1>5, PTL DEF Spec
=============================================================================

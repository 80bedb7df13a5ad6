----------------------------- MODULE AsyncMutex -----------------------------
(***************************************************************************)
(* The async mutex of primitives/async_mutex.rs: lock() futures that are   *)
(* polled, parked and cancelled, guards that unlock, and try_lock(), one   *)
(* action per access to shared memory.  `queue` is the wait queue in its   *)
(* proved order (WaitQueue implements PriorityQueue; every wait node here  *)
(* has priority 0, so it is first come first served); its length counter   *)
(* `len` is updated apart from the list, as in wait_queue.rs.              *)
(***************************************************************************)
EXTENDS Integers, Sequences, FiniteSets

CONSTANTS
  Tasks,     \* tasks that use the mutex, at most one future or guard each
  Priority,  \* the tasks' scheduling priorities
  Spurious,  \* does the executor poll a parked task that was not woken?
  LenBits    \* width of the wait queue's len: usize

ASSUME AsyncMutexAssumption ==
  /\ Priority \in [Tasks -> Int]
  /\ Spurious \in BOOLEAN
  /\ LenBits \in Nat

UNLOCKED == 0
LOCKED_NO_WAITERS == 1
LOCKED_HAS_WAITERS == 2

LEN == 2^LenBits

ASSUME LenAssumption == LEN \in Nat \ {0}

VARIABLES
  state,            \* the lock word
  queue,            \* waiters: the linked wait nodes, by task
  len,              \* waiters.len
  holder_priority,
  registered,       \* MutexLockFuture::registered
  woken,            \* the task's waker was called since its last poll
  pc,               \* where each task is
  popped            \* wake_one(): the task whose waker was taken (a set)

vars == <<state, queue, len, holder_priority, registered, woken, pc, popped>>

Init ==
  /\ state = UNLOCKED
  /\ queue = <<>>
  /\ len = 0
  /\ holder_priority = 0
  /\ registered = [t \in Tasks |-> FALSE]
  /\ woken = [t \in Tasks |-> FALSE]
  /\ pc = [t \in Tasks |-> "idle"]
  /\ popped = [t \in Tasks |-> {}]

Goto(t, l) == pc' = [pc EXCEPT ![t] = l]

\* Is the node of t linked?
Linked(t) == \E i \in 1 .. Len(queue) : queue[i] = t

\* The list without its i-th node.
Without(q, i) ==
  [j \in 1 .. Len(q) - 1 |-> IF j < i THEN q[j] ELSE q[j + 1]]

-----------------------------------------------------------------------------
(* try_lock() and the first part of poll() *)

\* A failed try_lock() changes nothing.
TryLock(t) ==
  /\ pc[t] = "idle" /\ state = UNLOCKED
  /\ state' = LOCKED_NO_WAITERS
  /\ Goto(t, "guard")
  /\ UNCHANGED <<queue, len, holder_priority, registered, woken, popped>>

\* lock(): a new future, about to be polled.
Lock(t) ==
  /\ pc[t] = "idle"
  /\ Goto(t, "poll")
  /\ UNCHANGED <<state, queue, len, holder_priority, registered, woken, popped>>

\* The executor polls the pending future again.
Repoll(t) ==
  /\ pc[t] = "pending"
  /\ woken[t] \/ Spurious
  /\ woken' = [woken EXCEPT ![t] = FALSE]
  /\ Goto(t, "poll")
  /\ UNCHANGED <<state, queue, len, holder_priority, registered, popped>>

\* The fast path; await then drops the future ("done").
PollFast(t) ==
  /\ pc[t] = "poll" /\ state = UNLOCKED
  /\ state' = LOCKED_NO_WAITERS
  /\ Goto(t, "done")
  /\ UNCHANGED <<queue, len, holder_priority, registered, woken, popped>>

PollSlow(t) ==
  /\ pc[t] = "poll" /\ state # UNLOCKED
  /\ Goto(t, IF registered[t] THEN "retry" ELSE "mark")
  /\ UNCHANGED <<state, queue, len, holder_priority, registered, woken, popped>>

-----------------------------------------------------------------------------
(* Registration *)

\* An unconditional store.
Mark(t) ==
  /\ pc[t] = "mark"
  /\ state' = LOCKED_HAS_WAITERS
  /\ Goto(t, "link")
  /\ UNCHANGED <<queue, len, holder_priority, registered, woken, popped>>

\* waiters.enqueue up to the release of its lock
EnqueueLink(t) ==
  /\ pc[t] = "link"
  /\ queue' = Append(queue, t)
  /\ Goto(t, "count")
  /\ UNCHANGED <<state, len, holder_priority, registered, woken, popped>>

\* wait_node.priority(), never set to anything else
waiter_priority == 0

\* The end of enqueue(), and apply_priority_inheritance().
EnqueueCount(t) ==
  /\ pc[t] = "count"
  /\ len' = (len + 1) % LEN
  /\ registered' = [registered EXCEPT ![t] = TRUE]
  /\ holder_priority' = IF holder_priority >= waiter_priority
                        THEN holder_priority ELSE waiter_priority
  /\ Goto(t, "retry")
  /\ UNCHANGED <<state, queue, woken, popped>>

\* Mutant: the second attempt takes the lock whatever its state.
RetryUnchecked(t) ==
  /\ pc[t] = "retry"
  /\ state' = LOCKED_HAS_WAITERS
  /\ Goto(t, "done")
  /\ UNCHANGED <<queue, len, holder_priority, registered, woken, popped>>

\* The second attempt; its remove() is the same as the drop's below.
Retry(t) ==
  /\ pc[t] = "retry" /\ state = UNLOCKED
  /\ state' = LOCKED_HAS_WAITERS
  /\ Goto(t, "done")
  /\ UNCHANGED <<queue, len, holder_priority, registered, woken, popped>>

Pend(t) ==
  /\ pc[t] = "retry" /\ state # UNLOCKED
  /\ Goto(t, "pending")
  /\ UNCHANGED <<state, queue, len, holder_priority, registered, woken, popped>>

-----------------------------------------------------------------------------
(* The end of the future: completed ("done") or cancelled while pending.   *)
(* If it is registered it calls remove(), which unlinks the node and then  *)
(* decrements len, or returns early.                                       *)

After(t) == IF pc[t] = "done" THEN "guard" ELSE "idle"

\* Mutant: remove() finds the node but leaves it in the list.
RemoveNothing(t) ==
  /\ pc[t] \in {"done", "pending"}
  /\ registered[t] /\ Linked(t)
  /\ UNCHANGED queue
  /\ registered' = [registered EXCEPT ![t] = FALSE]
  /\ woken' = [woken EXCEPT ![t] = FALSE]
  /\ Goto(t, IF pc[t] = "done" THEN "done_count" ELSE "drop_count")
  /\ UNCHANGED <<state, len, holder_priority, popped>>

RemoveLinked(t) ==
  /\ pc[t] \in {"done", "pending"}
  /\ registered[t] /\ Linked(t)
  /\ \E i \in 1 .. Len(queue) : queue[i] = t /\ queue' = Without(queue, i)
  /\ registered' = [registered EXCEPT ![t] = FALSE]
  /\ woken' = [woken EXCEPT ![t] = FALSE]
  /\ Goto(t, IF pc[t] = "done" THEN "done_count" ELSE "drop_count")
  /\ UNCHANGED <<state, len, holder_priority, popped>>

\* Mutant: the node is unlinked and len stays as it was.
RemoveNoCount(t) ==
  /\ pc[t] \in {"done_count", "drop_count"}
  /\ Goto(t, IF pc[t] = "done_count" THEN "guard" ELSE "idle")
  /\ UNCHANGED <<state, queue, len, holder_priority, registered, woken, popped>>

RemoveCount(t) ==
  /\ pc[t] \in {"done_count", "drop_count"}
  /\ len' = (len - 1) % LEN
  /\ Goto(t, IF pc[t] = "done_count" THEN "guard" ELSE "idle")
  /\ UNCHANGED <<state, queue, holder_priority, registered, woken, popped>>

\* Not registered, or a waker has already unlinked the node.
FutureDropped(t) ==
  /\ pc[t] \in {"done", "pending"}
  /\ ~(registered[t] /\ Linked(t))
  /\ registered' = [registered EXCEPT ![t] = FALSE]
  /\ woken' = [woken EXCEPT ![t] = FALSE]
  /\ Goto(t, After(t))
  /\ UNCHANGED <<state, queue, len, holder_priority, popped>>

-----------------------------------------------------------------------------
(* MutexGuard::drop, unlock_inner() *)

UnlockRead(t) ==
  /\ pc[t] = "guard"
  /\ holder_priority' = 0
  /\ Goto(t, IF len = 0 THEN "swap" ELSE "store")
  /\ UNCHANGED <<state, queue, len, registered, woken, popped>>

UnlockSwap(t) ==
  /\ pc[t] = "swap"
  /\ state' = UNLOCKED
  /\ Goto(t, "idle")
  /\ UNCHANGED <<queue, len, holder_priority, registered, woken, popped>>

UnlockStore(t) ==
  /\ pc[t] = "store"
  /\ state' = UNLOCKED
  /\ Goto(t, "wake_one")
  /\ UNCHANGED <<queue, len, holder_priority, registered, woken, popped>>

WakeOneEmpty(t) ==
  /\ pc[t] = "wake_one" /\ queue = <<>>
  /\ Goto(t, "idle")
  /\ UNCHANGED <<state, queue, len, holder_priority, registered, woken, popped>>

WakeOnePop(t) ==
  /\ pc[t] = "wake_one" /\ queue # <<>>
  /\ popped' = [popped EXCEPT ![t] = {Head(queue)}]
  /\ queue' = Tail(queue)
  /\ Goto(t, "wake_count")
  /\ UNCHANGED <<state, len, holder_priority, registered, woken>>

WakeOneCount(t) ==
  /\ pc[t] = "wake_count"
  /\ len' = (len - 1) % LEN
  /\ Goto(t, "wake")
  /\ UNCHANGED <<state, queue, holder_priority, registered, woken, popped>>

\* w.wake(); a task without a parked future ignores it.
WakeCall(t) ==
  /\ pc[t] = "wake"
  /\ woken' = [u \in Tasks |->
                 woken[u] \/ (u \in popped[t] /\ pc[u] \notin {"idle", "guard"})]
  /\ popped' = [popped EXCEPT ![t] = {}]
  /\ Goto(t, "idle")
  /\ UNCHANGED <<state, queue, len, holder_priority, registered>>

-----------------------------------------------------------------------------
Step(t) ==
  \/ TryLock(t) \/ Lock(t) \/ Repoll(t) \/ PollFast(t) \/ PollSlow(t)
  \/ Mark(t) \/ EnqueueLink(t) \/ EnqueueCount(t) \/ Retry(t) \/ Pend(t)
  \/ RemoveLinked(t) \/ RemoveCount(t) \/ FutureDropped(t)
  \/ UnlockRead(t) \/ UnlockSwap(t) \/ UnlockStore(t)
  \/ WakeOneEmpty(t) \/ WakeOnePop(t) \/ WakeOneCount(t) \/ WakeCall(t)

Next == \E t \in Tasks : Step(t)

Spec == Init /\ [][Next]_vars

-----------------------------------------------------------------------------
(* Properties *)

PCs == {"idle", "poll", "mark", "link", "count", "retry", "pending", "done",
        "done_count", "drop_count", "guard", "swap", "store", "wake_one",
        "wake_count", "wake"}

\* The lock word has one of its three values, counters keep their width.
TypeOK ==
  /\ state \in {UNLOCKED, LOCKED_NO_WAITERS, LOCKED_HAS_WAITERS}
  /\ queue \in Seq(Tasks)
  /\ len \in 0 .. LEN - 1
  /\ holder_priority \in Int
  /\ registered \in [Tasks -> BOOLEAN]
  /\ woken \in [Tasks -> BOOLEAN]
  /\ pc \in [Tasks -> PCs]
  /\ popped \in [Tasks -> SUBSET Tasks]

\* t owns the data: it won the lock word and has not stored UNLOCKED yet.
Holds(t) == pc[t] \in {"done", "done_count", "guard", "swap", "store"}

\* async_mutex.rs:29, "provides its own mutual exclusion": one owner at most,
\* and a guard never unlocks an unlocked mutex (the debug_assert_ne of
\* unlock_inner), although a late registration may overwrite the lock word.
MutualExclusion ==
  /\ \A t, u \in Tasks : Holds(t) /\ Holds(u) => t = u
  /\ \A t \in Tasks : Holds(t) => state # UNLOCKED

\* The task's future has been created and not dropped.
FutureAlive(t) ==
  pc[t] \in {"poll", "mark", "link", "count", "retry", "pending", "done"}

\* wait_queue.rs:14 and 83, a node stays valid while it is linked: the node of
\* a future that was dropped (completed or cancelled, at any point of a
\* concurrent wake) is not in the list, and no node is there twice.
LinkedNodesLive ==
  /\ \A i \in 1 .. Len(queue) : FutureAlive(queue[i])
  /\ \A i, j \in 1 .. Len(queue) : queue[i] = queue[j] => i = j

\* No task is inside poll(), drop or unlock.
Quiescent == \A t \in Tasks : pc[t] \in {"idle", "pending", "guard"}

\* unlock_inner() decides by len whether to wake: between calls it counts the
\* linked nodes exactly.
LenExactWhenQuiescent == Quiescent => len = Len(queue)

\* Only a step of the owner makes a locked mutex unlocked.
OnlyOwnerUnlocks ==
  [][state # UNLOCKED /\ state' = UNLOCKED
       => \E t \in Tasks : Holds(t) /\ ~Holds(t)']_vars

\* async_mutex.rs:3, lock() "parks the task until the holder releases": a
\* locked mutex has a holder.
LockedMeansOwned ==
  Quiescent /\ state # UNLOCKED => \E t \in Tasks : Holds(t)

-----------------------------------------------------------------------------
(* What the source's comments say and the code does not keep.  No run      *)
(* checks these; the README gives the counterexamples.                     *)

\* async_mutex.rs:3, the same promise for the wake-up: nobody stays parked,
\* without a wake-up on its way, on a mutex that is free.
NoneParkedOnFreeMutex ==
  Quiescent /\ state = UNLOCKED
    => \A t \in Tasks : pc[t] = "pending" => woken[t]

\* async_mutex.rs:1, "Async mutex with priority inheritance": a holder runs at
\* least at the priority of every task parked behind it.
HolderInheritsPriority ==
  Quiescent => \A t, u \in Tasks :
    Holds(t) /\ pc[u] = "pending" /\ Priority[u] > Priority[t]
      => holder_priority >= Priority[u]
=============================================================================

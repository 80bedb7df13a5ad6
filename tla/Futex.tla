-------------------------------- MODULE Futex -------------------------------
(***************************************************************************)
(* The futex table of primitives/futex.rs with the userspace it is for:    *)
(* waiters that read a word and wait while it is unchanged, and setters    *)
(* that change it and wake.  A bucket is its lock and its queue; nodes all *)
(* have priority 0, so the queue is a FIFO sequence used by its contract   *)
(* (see WaitQueue).  The timeout and the expected value are stored in the  *)
(* future and never looked at; a wait ends only by a wake-up or a drop.    *)
(* A future that returned Pending may be polled at any time and is polled  *)
(* once woken.                                                             *)
(***************************************************************************)
EXTENDS Integers, Sequences, SequencesExt

CONSTANTS
  Waiters,
  Setters,
  Addrs,
  Bucket,   \* [Addrs -> buckets]: bucket_for(), two addresses may share one
  WordOf,   \* [Waiters -> Addrs]: the word each waiter waits for
  Count,    \* the count passed to wake(), enough for all waiters of a word
  Free      \* the holder of a bucket that is not locked

ASSUME FutexAssumption ==
  /\ Addrs # {} /\ DOMAIN Bucket = Addrs /\ WordOf \in [Waiters -> Addrs]
  /\ Count \in Nat /\ Free \notin Waiters \cup Setters

VARIABLES
  word,        \* the words, in userspace: changed or not
  bucket,      \* holder of _lock and the queue of each bucket
  wait,        \* each waiter and its future
  set,         \* each setter and its call of wake()
  late,        \* history: waiters linked after their word had changed
  misdirected  \* history: a wake-up went to a waiter of another word

futexVars == <<word, bucket, wait, set, late, misdirected>>

Buckets == {Bucket[a] : a \in Addrs}
BucketOf(w) == Bucket[WordOf[w]]

FutexInit ==
  /\ word = [a \in Addrs |-> "old"]
  /\ bucket = [b \in Buckets |-> [holder |-> Free, queue |-> <<>>]]
  /\ wait = [w \in Waiters |-> [pc |-> "user", registered |-> FALSE, woken |-> FALSE]]
  /\ set = [s \in Setters |-> [pc |-> "idle", addr |-> CHOOSE a \in Addrs : TRUE,
                               woken |-> 0]]
  /\ late = {} /\ misdirected = FALSE

At(w, l) == wait[w].pc = l
is_linked(w) == w \in ToSet(bucket[BucketOf(w)].queue)
Unlocked(b) == bucket[b].holder = Free

-----------------------------------------------------------------------------
(* Waiters: userspace tests the word and calls wait() *)

Test(w) ==
  /\ At(w, "user")
  /\ wait' = [wait EXCEPT ![w].pc = IF word[WordOf[w]] = "old" THEN "poll" ELSE "done"]
  /\ UNCHANGED <<word, bucket, set, late, misdirected>>

\* The first poll links the node, whatever the word is by now.
Register(w) ==
  /\ At(w, "poll") /\ ~wait[w].registered
  /\ Unlocked(BucketOf(w))
  /\ bucket' = [bucket EXCEPT ![BucketOf(w)].queue = Append(@, w)]
  /\ wait' = [wait EXCEPT ![w].pc = "pending", ![w].registered = TRUE]
  /\ late' = IF word[WordOf[w]] = "old" THEN late ELSE late \cup {w}
  /\ UNCHANGED <<word, set, misdirected>>

\* Later ones look, without the lock, whether it is linked.  If not, the
\* future is Ready(Woken) and its drop does nothing.
Repoll(w) ==
  /\ At(w, "pending")
  /\ wait' = [wait EXCEPT ![w].woken = FALSE,
                          ![w].pc = IF is_linked(w) THEN "pending" ELSE "user",
                          ![w].registered = is_linked(w)]
  /\ UNCHANGED <<word, bucket, set, late, misdirected>>

\* WaitQueue::remove(): nothing if a wake has unlinked the node, which is in
\* the queue at most once.
Without(q, w) ==
  LET i == CHOOSE j \in DOMAIN q : q[j] = w IN
  IF w \notin ToSet(q) THEN q
  ELSE [j \in 1 .. Len(q) - 1 |-> IF j < i THEN q[j] ELSE q[j + 1]]

\* Mutant: the drop only tries the lock.
DropTries(w) ==
  /\ At(w, "pending")
  /\ bucket' = [bucket EXCEPT ![BucketOf(w)].queue =
                  IF Unlocked(BucketOf(w)) THEN Without(@, w) ELSE @]
  /\ wait' = [wait EXCEPT ![w] = [pc |-> "done", registered |-> FALSE, woken |-> FALSE]]
  /\ UNCHANGED <<word, set, late, misdirected>>

\* The task gives up: FutexWaitFuture::drop().
Drop(w) ==
  /\ At(w, "pending") /\ Unlocked(BucketOf(w))
  /\ bucket' = [bucket EXCEPT ![BucketOf(w)].queue = Without(@, w)]
  /\ wait' = [wait EXCEPT ![w] = [pc |-> "done", registered |-> FALSE, woken |-> FALSE]]
  /\ UNCHANGED <<word, set, late, misdirected>>

-----------------------------------------------------------------------------
(* Setters: userspace changes a word and calls wake() *)

Change(s, a) ==
  /\ set[s].pc = "idle" /\ word[a] = "old"
  /\ word' = [word EXCEPT ![a] = "new"]
  /\ set' = [set EXCEPT ![s].pc = "lock", ![s].addr = a]
  /\ UNCHANGED <<bucket, wait, late, misdirected>>

Target(s) == Bucket[set[s].addr]

WakeLock(s) ==
  /\ set[s].pc = "lock" /\ Unlocked(Target(s))
  /\ bucket' = [bucket EXCEPT ![Target(s)].holder = s]
  /\ set' = [set EXCEPT ![s].pc = "loop", ![s].woken = 0]
  /\ UNCHANGED <<word, wait, late, misdirected>>

\* Mutant: the loop stops one short.
MoreShort(s) == set[s].woken + 1 < Count /\ bucket[Target(s)].queue # <<>>

More(s) == set[s].woken < Count /\ bucket[Target(s)].queue # <<>>

\* wake_one() unlinks the first waiter of the bucket and wakes it.
WakeOne(s) ==
  LET w == Head(bucket[Target(s)].queue) IN
  /\ set[s].pc = "loop" /\ More(s)
  /\ bucket' = [bucket EXCEPT ![Target(s)].queue = Tail(@)]
  /\ wait' = [wait EXCEPT ![w].woken = TRUE]
  /\ set' = [set EXCEPT ![s].woken = @ + 1]
  /\ misdirected' = (misdirected \/ WordOf[w] # set[s].addr)
  /\ UNCHANGED <<word, late>>

WakeDone(s) ==
  /\ set[s].pc = "loop" /\ ~More(s)
  /\ bucket' = [bucket EXCEPT ![Target(s)].holder = Free]
  /\ set' = [set EXCEPT ![s].pc = "idle"]
  /\ UNCHANGED <<word, wait, late, misdirected>>

-----------------------------------------------------------------------------
Call(s) == WakeLock(s) \/ WakeOne(s) \/ WakeDone(s)

FutexNext ==
  \/ \E w \in Waiters : Test(w) \/ Register(w) \/ Repoll(w) \/ Drop(w)
  \/ \E s \in Setters : Call(s) \/ \E a \in Addrs : Change(s, a)

\* A setter that changed a word goes on to wake, a woken future is polled.
FutexFairness ==
  /\ \A s \in Setters : WF_futexVars(Call(s))
  /\ \A w \in Waiters : WF_futexVars(Test(w)) /\ WF_futexVars(wait[w].woken /\ Repoll(w))

FutexSpec == FutexInit /\ [][FutexNext]_futexVars /\ FutexFairness

-----------------------------------------------------------------------------
(* Properties *)

\* Words, buckets, waiters and setters have their types.
FutexTypeOK ==
  /\ word \in [Addrs -> {"old", "new"}]
  /\ bucket \in [Buckets -> [holder : Setters \cup {Free}, queue : Seq(Waiters)]]
  /\ wait \in [Waiters -> [pc : {"user", "poll", "pending", "done"},
                           registered : BOOLEAN, woken : BOOLEAN]]
  /\ set \in [Setters -> [pc : {"idle", "lock", "loop"}, addr : Addrs, woken : 0 .. Count]]
  /\ late \subseteq Waiters /\ misdirected \in BOOLEAN

\* futex.rs:151 and 181, "wait_node lives in this future" and "is still valid":
\* a linked node belongs to a living future, in the bucket of its word, once;
\* no wake() follows a node that a cancelled or resolved wait has freed.
LinkedNodesLive ==
  \A b \in Buckets :
    /\ IsInjective(bucket[b].queue)
    /\ \A w \in ToSet(bucket[b].queue) :
         BucketOf(w) = b /\ At(w, "pending") /\ wait[w].registered

\* futex.rs:5, "Foundation for userspace mutexes, condvars, and semaphores": a
\* waiter whose word changes does not sleep on, unless it was linked after the
\* change or a waiter of another word took a wake-up.
ChangeIsNoticedUntilMisdirected ==
  \A w \in Waiters :
    At(w, "pending") /\ word[WordOf[w]] = "new" ~>
      ~At(w, "pending") \/ w \in late \/ misdirected

-----------------------------------------------------------------------------
(* What the source's comments say and the code does not keep.  No run      *)
(* checks these; the README gives the counterexamples.                     *)

\* futex.rs:3, "compare-and-sleep on a memory word".
ComparesWord == late = {}

\* futex.rs:105, "Wake up to `count` tasks waiting on the futex at `addr`".
WakesOwnWaiters == ~misdirected
=============================================================================

------------------------------ MODULE RunQueue ------------------------------
(***************************************************************************)
(* The per-core multilevel run queue of task/run_queue.rs.  Wakers and     *)
(* interrupt handlers enqueue from any core; only the core's executor      *)
(* dequeues (drain_run_queue).  A level is a FIFO list behind its own      *)
(* spinlock, so one push, pop or emptiness test is one step; the occupancy *)
(* bitmap and len are separate atomics.                                    *)
(***************************************************************************)
EXTENDS Integers, Sequences, FiniteSets

CONSTANTS
  Tasks,      \* TCBs that may be enqueued
  Producers,  \* callers of enqueue_task()
  Priorities, \* effective priorities the tasks have
  LenBits     \* width of len, 32 in the source

ASSUME RunQueueAssumption == Priorities \subseteq Int /\ LenBits \in Nat

LEN == 2^LenBits

ASSUME LenAssumption == LEN \in Nat \ {0}

Clamp(p) == IF p < -16 THEN -16 ELSE IF p > 15 THEN 15 ELSE p

\* Priorities are clamped into -16 .. 15; levels are 0 .. 31.
priority_to_level(p) == Clamp(p) + 16

Levels == {priority_to_level(p) : p \in Priorities}

VARIABLES
  levels,     \* the LevelQueues
  occupancy,  \* the set bits
  len,
  qpc,         \* where each producer and the executor are
  lvl,        \* `level` in each producer's enqueue() and in dequeue()
  got,        \* dequeue(): the task popped (a set of at most one)
  raced       \* history: one of the two races below has happened

runQueueVars == <<levels, occupancy, len, qpc, lvl, got, raced>>

Executor == "executor"

ASSUME ExecutorAssumption == Executor \notin Producers

Actors == Producers \cup {Executor}

RunQueueInit ==
  /\ levels = [l \in Levels |-> <<>>]
  /\ occupancy = {}
  /\ len = 0
  /\ qpc = [a \in Actors |-> "idle"]
  /\ lvl = [a \in Actors |-> 0]
  /\ got = {}
  /\ raced = FALSE

QueueGoto(a, l) == qpc' = [qpc EXCEPT ![a] = l]

Empty(l) == levels[l] = <<>>

Queued(t) ==
  t \in got \/ \E l \in Levels : \E i \in 1 .. Len(levels[l]) : levels[l][i] = t

-----------------------------------------------------------------------------
(* enqueue() *)

\* The executor found the level empty and has not cleared its bit yet: a task
\* pushed now loses its bit.
ClearPending(l) == qpc[Executor] = "clear" /\ lvl[Executor] = l

\* A task is enqueued once until it is dequeued: its TCB has one link.
Push(p, t, prio) ==
  /\ qpc[p] = "idle" /\ ~Queued(t)
  /\ LET l == priority_to_level(prio) IN
       /\ levels' = [levels EXCEPT ![l] = Append(@, t)]
       /\ lvl' = [lvl EXCEPT ![p] = l]
       /\ raced' = (raced \/ ClearPending(l))
  /\ QueueGoto(p, "or")
  /\ UNCHANGED <<occupancy, len, got>>

\* Mutant: the bit is stored over the bitmap instead of or-ed into it.
SetBitStored(p) ==
  /\ qpc[p] = "or"
  /\ occupancy' = {lvl[p]}
  /\ QueueGoto(p, "count")
  /\ UNCHANGED <<levels, len, lvl, got, raced>>

SetBit(p) ==
  /\ qpc[p] = "or"
  /\ occupancy' = occupancy \cup {lvl[p]}
  /\ QueueGoto(p, "count")
  /\ UNCHANGED <<levels, len, lvl, got, raced>>

CountIn(p) ==
  /\ qpc[p] = "count" /\ p \in Producers
  /\ len' = (len + 1) % LEN
  /\ QueueGoto(p, "idle")
  /\ UNCHANGED <<levels, occupancy, lvl, got, raced>>

-----------------------------------------------------------------------------
(* dequeue(); it returns None at once when the bitmap is zero *)

LoadBitmap ==
  /\ qpc[Executor] \in {"idle", "load"} /\ occupancy # {}
  /\ \E l \in occupancy :
       /\ \A k \in occupancy : k <= l
       /\ lvl' = [lvl EXCEPT ![Executor] = l]
  /\ QueueGoto(Executor, "pop")
  /\ UNCHANGED <<levels, occupancy, len, got, raced>>

\* The popped task was the level's last and some producer has yet to set the
\* level's bit: it will set it for an empty level.
LateBit(l) ==
  /\ Len(levels[l]) = 1
  /\ \E p \in Producers : qpc[p] = "or" /\ lvl[p] = l

Pop ==
  /\ qpc[Executor] = "pop" /\ ~Empty(lvl[Executor])
  /\ LET l == lvl[Executor] IN
       /\ got' = {Head(levels[l])}
       /\ levels' = [levels EXCEPT ![l] = Tail(@)]
       /\ raced' = (raced \/ LateBit(l))
  /\ QueueGoto(Executor, "check")
  /\ UNCHANGED <<occupancy, len, lvl>>

\* The recursive call starts with a new load of the bitmap.  It is not zero:
\* only the executor clears bits, and it left this one set.
PopNone ==
  /\ qpc[Executor] = "pop" /\ Empty(lvl[Executor])
  /\ QueueGoto(Executor, "load")
  /\ UNCHANGED <<levels, occupancy, len, lvl, got, raced>>

CheckEmpty ==
  /\ qpc[Executor] = "check"
  /\ QueueGoto(Executor, IF Empty(lvl[Executor]) THEN "clear" ELSE "uncount")
  /\ UNCHANGED <<levels, occupancy, len, lvl, got, raced>>

\* Mutant: the bit of an emptied level is left set.
ClearBitNever ==
  /\ qpc[Executor] = "clear"
  /\ QueueGoto(Executor, "uncount")
  /\ UNCHANGED <<levels, occupancy, len, lvl, got, raced>>

ClearBit ==
  /\ qpc[Executor] = "clear"
  /\ occupancy' = occupancy \ {lvl[Executor]}
  /\ QueueGoto(Executor, "uncount")
  /\ UNCHANGED <<levels, len, lvl, got, raced>>

\* The task is returned to the executor.
CountOut ==
  /\ qpc[Executor] = "uncount"
  /\ len' = (len - 1) % LEN
  /\ got' = {}
  /\ QueueGoto(Executor, "idle")
  /\ UNCHANGED <<levels, occupancy, lvl, raced>>

-----------------------------------------------------------------------------
Enqueue(p) ==
  \/ \E t \in Tasks, prio \in Priorities : Push(p, t, prio)
  \/ SetBit(p) \/ CountIn(p)

Dequeue ==
  LoadBitmap \/ Pop \/ PopNone \/ CheckEmpty \/ ClearBit \/ CountOut

RunQueueNext == (\E p \in Producers : Enqueue(p)) \/ Dequeue

RunQueueSpec == RunQueueInit /\ [][RunQueueNext]_runQueueVars

\* A started enqueue() or dequeue() runs on: neither waits for anything but
\* short critical sections, and the executor's loop calls dequeue() again.
RunQueueFairness ==
  /\ WF_runQueueVars(Dequeue)
  /\ \A p \in Producers : WF_runQueueVars(SetBit(p) \/ CountIn(p))

RunQueueFairSpec == RunQueueSpec /\ RunQueueFairness

-----------------------------------------------------------------------------
(* Properties *)

\* Lists hold tasks, bits belong to levels in use, len keeps its width.
RunQueueTypeOK ==
  /\ levels \in [Levels -> Seq(Tasks)]
  /\ occupancy \subseteq Levels
  /\ len \in 0 .. LEN - 1
  /\ qpc \in [Actors -> {"idle", "or", "count", "load", "pop", "check", "clear",
                      "uncount"}]
  /\ \A p \in Producers : qpc[p] \in {"idle", "or", "count"}
  /\ qpc[Executor] \in {"idle", "load", "pop", "check", "clear", "uncount"}
  /\ lvl \in [Actors -> Levels \cup {0}]
  /\ \A a \in Actors : qpc[a] \notin {"idle", "count"} => lvl[a] \in Levels
  /\ got \subseteq Tasks
  /\ raced \in BOOLEAN

\* Producers that have pushed to level l and not yet set its bit.
BitPending(l) == \E p \in Producers : qpc[p] = "or" /\ lvl[p] = l

\* The executor is between taking level l's last task and clearing its bit.
Emptying(l) == qpc[Executor] \in {"check", "clear"} /\ lvl[Executor] = l

\* run_queue.rs:25, "bit N set if level N is non-empty", whenever no call on
\* that level is in progress.
NonEmptyHasBit ==
  \A l \in Levels : ~Empty(l) /\ ~BitPending(l) => l \in occupancy

\* Apart from the two races the bitmap is exact: a non-empty level has its bit
\* or a producer about to set it, and a set bit stands for a task or for a
\* level that the executor is about to clear.
OccupancyUntilRaced ==
  ~raced => /\ NonEmptyHasBit
            /\ \A l \in occupancy : ~Empty(l) \/ Emptying(l)

\* Apart from the two races a dequeue() returns.
DequeueTerminatesUntilRaced ==
  qpc[Executor] = "pop" ~> (qpc[Executor] = "idle" \/ raced)

\* Apart from the two races a queue with a task on any of its levels never
\* looks empty to the executor for good: it dequeues something.
WorkIsFoundUntilRaced ==
  \A l \in Levels : ~Empty(l) ~> (qpc[Executor] = "check" \/ raced)

-----------------------------------------------------------------------------
(* What the source's comments say and the code does not keep.  No run      *)
(* checks these; the README gives the counterexamples.                     *)

\* run_queue.rs:134, "Race: level was drained ... Retry": a dequeue() that
\* started returns.
DequeueTerminates == qpc[Executor] = "pop" ~> qpc[Executor] = "idle"

\* run_queue.rs:150, "Priority 0 maps to level 15 (neutral)": when all tasks
\* have priority 0, only level 15 is ever used.
NeutralIsLevel15 ==
  Priorities = {0} => \A l \in Levels : ~Empty(l) => l = 15
=============================================================================

------------------------------ MODULE Executor ------------------------------
(***************************************************************************)
(* The per-core executors of task/executor.rs with the task control blocks *)
(* they share: draining the run queue, popping and stealing, polling until *)
(* the quantum is used up, halting when idle, and wake().  A run queue is  *)
(* a set, as the order in which it is drained decides nothing here.  Of a  *)
(* deque, push and pop are one step each; a batch steal has its loads, its *)
(* compare-exchange and its pushes, so that it races with the owner as in  *)
(* module Deque, which has all the accesses.  A future needs a number of   *)
(* polls and may park itself, which no code in the repository does but the *)
(* executor provides for.                                                  *)
(***************************************************************************)
EXTENDS Integers, Sequences, FiniteSets, SequencesExt

CONSTANTS
  Cores,
  Tasks,
  default_quantum,  \* 10 in bootstrap_executor
  BatchMax,         \* size of try_steal's batch, 64 in the source
  MIN_CAPACITY,     \* of a deque, 64 in the source
  DecayPeriod,      \* quanta per decay step, 4 in the source
  MaxDecay,         \* how far priority decays below base, 8 in the source
  PollsNeeded,      \* polls after which each future is ready
  Parks,            \* may a future park itself?
  Affinity          \* the cores each task's affinity mask allows

ASSUME ExecutorAssumption ==
  /\ default_quantum \in Nat \ {0} /\ BatchMax \in Nat \ {0}
  /\ MIN_CAPACITY \in Nat \ {0} /\ "none" \notin Tasks
  /\ DecayPeriod \in Nat \ {0} /\ MaxDecay \in Nat
  /\ PollsNeeded \in [Tasks -> Nat] /\ Parks \in BOOLEAN
  /\ Affinity \in [Tasks -> SUBSET Cores]

NoCore == "none"  \* u32::MAX
NoTask == "none"

VARIABLES
  state,               \* AtomicTaskState
  current_core,
  quantum_remaining,
  decay_counter,       \* modulo DecayPeriod, which is all that is looked at
  effective_priority,  \* relative to base_priority
  left,                \* polls the future still needs
  spawned,             \* which tasks were handed to an executor
  run_queue,           \* per core
  worker,              \* per core: the deque from top to bottom - 1
  behind,              \* per core: how far bottom has fallen behind top
  cap,                 \* per core: the deque's capacity
  victim, view, loot,  \* per core: a steal under way, see below
  pc, cur,             \* per core: where it is, and the task it polls
  parked,              \* history: the tasks whose future has parked them
  raced                \* history: one of the two races below has happened

tcb == <<state, current_core, quantum_remaining, decay_counter,
         effective_priority, left>>
theft == <<victim, view, loot>>
deque == <<worker, behind, cap>>
queues == <<run_queue, deque, theft, raced>>
vars == <<tcb, spawned, queues, pc, cur, parked>>

Init ==
  /\ state = [t \in Tasks |-> "Created"]
  /\ current_core = [t \in Tasks |-> NoCore]
  /\ quantum_remaining = [t \in Tasks |-> 0]
  /\ decay_counter = [t \in Tasks |-> 0]
  /\ effective_priority = [t \in Tasks |-> 0]
  /\ left = PollsNeeded
  /\ spawned = {}
  /\ run_queue = [c \in Cores |-> {}]
  /\ worker = [c \in Cores |-> <<>>] /\ behind = [c \in Cores |-> 0]
  /\ cap = [c \in Cores |-> MIN_CAPACITY]
  /\ victim = [c \in Cores |-> NoCore] /\ view = [c \in Cores |-> "stale"]
  /\ loot = [c \in Cores |-> <<>>]
  /\ pc = [c \in Cores |-> "drain"]
  /\ cur = [c \in Cores |-> NoTask]
  /\ parked = {} /\ raced = FALSE

Goto(c, l) == pc' = [pc EXCEPT ![c] = l]
Set(f, t, v) == [f EXCEPT ![t] = v]

-----------------------------------------------------------------------------
(* The task's side: wake() and being handed to a core *)

\* TaskControlBlock::wake; a no-op in every other state.
Wake(t) ==
  /\ state[t] \in {"Created", "Blocked"}
  /\ state' = Set(state, t, "Ready")
  /\ UNCHANGED <<current_core, quantum_remaining, decay_counter,
                 effective_priority, left, spawned, queues, pc, cur, parked>>

\* A handler on core c enqueues a new task that was made Ready.  The interrupt
\* ends a halt.
EnqueueTask(c, t) ==
  /\ t \notin spawned /\ state[t] = "Ready"
  /\ spawned' = spawned \cup {t}
  /\ run_queue' = [run_queue EXCEPT ![c] = @ \cup {t}]
  /\ pc' = IF pc[c] = "halted" THEN Set(pc, c, "drain") ELSE pc
  /\ UNCHANGED <<tcb, deque, theft, raced, cur, parked>>

\* Any other interrupt.
Interrupt(c) ==
  /\ pc[c] = "halted"
  /\ Goto(c, "drain")
  /\ UNCHANGED <<tcb, spawned, queues, cur, parked>>

-----------------------------------------------------------------------------
(* The deques of stealer.rs.  A thief's view of its victim is "fresh" while *)
(* top is the one it loaded, "torn" if the buffer was replaced meanwhile,   *)
(* and "stale" once top has moved, as then its compare-exchange fails.      *)

\* d has read a batch from c's deque that it may still get.
Robs(d, c) == pc[d] = "cas" /\ victim[d] = c /\ view[d] # "stale"

TopMoves(c) == view' = [d \in Cores |-> IF victim[d] = c THEN "stale" ELSE view[d]]

\* Worker::push.  What is pushed below top is out of reach: pop() and the
\* thieves find the deque empty, until bottom has caught up.  A push onto a full
\* deque makes it grow and frees the slots that a thief may be reading (the
\* first race).
Push(c, t) ==
  /\ IF behind[c] > 0
     THEN behind' = [behind EXCEPT ![c] = @ - 1] /\ UNCHANGED worker
     ELSE worker' = [worker EXCEPT ![c] = Append(@, t)] /\ UNCHANGED behind
  /\ IF Len(worker[c]) >= cap[c]
     THEN /\ cap' = [cap EXCEPT ![c] = 2 * @]
          /\ view' = [d \in Cores |-> IF Robs(d, c) THEN "torn" ELSE view[d]]
          /\ raced' = (raced \/ \E d \in Cores : Robs(d, c))
     ELSE UNCHANGED <<cap, view, raced>>

-----------------------------------------------------------------------------
(* run(): drain_run_queue, pop, try_steal, idle_enter *)

Drain(c, t) ==
  /\ pc[c] = "drain" /\ t \in run_queue[c]
  /\ run_queue' = [run_queue EXCEPT ![c] = @ \ {t}]
  /\ Push(c, t)
  /\ UNCHANGED <<tcb, spawned, victim, loot, pc, cur, parked>>

DrainDone(c) ==
  /\ pc[c] = "drain" /\ run_queue[c] = {}
  /\ Goto(c, "pop")
  /\ UNCHANGED <<tcb, spawned, queues, cur, parked>>

\* The last element moves top.  Any other is taken without looking at top
\* again, even if a batch that covers it is under way (the second race).
Pop(c) ==
  /\ pc[c] = "pop" /\ worker[c] # <<>>
  /\ cur' = Set(cur, c, Last(worker[c]))
  /\ worker' = Set(worker, c, Front(worker[c]))
  /\ IF Len(worker[c]) = 1
     THEN TopMoves(c) /\ UNCHANGED raced
     ELSE /\ raced' = (raced \/ \E d \in Cores : Robs(d, c) /\ Len(loot[d]) >= Len(worker[c]))
          /\ UNCHANGED view
  /\ Goto(c, "claim")
  /\ UNCHANGED <<tcb, spawned, run_queue, behind, cap, victim, loot, parked>>

PopEmpty(c) ==
  /\ pc[c] = "pop" /\ worker[c] = <<>>
  /\ Goto(c, "steal")
  /\ UNCHANGED <<tcb, spawned, queues, cur, parked>>

\* try_steal() and Stealer::steal_batch: the load of top ...
StealTop(c, v) ==
  /\ pc[c] = "steal" /\ v # c
  /\ victim' = Set(victim, c, v) /\ view' = Set(view, c, "fresh")
  /\ Goto(c, "bottom")
  /\ UNCHANGED <<tcb, spawned, run_queue, deque, loot, raced, cur, parked>>

\* ... the load of bottom, and the slots as they are then ...
StealBottom(c) ==
  /\ pc[c] = "bottom" /\ view[c] = "fresh"
  /\ LET w == worker[victim[c]]
     IN  /\ w # <<>>
         /\ loot' = [loot EXCEPT ![c] =
                       SubSeq(w, 1, IF Len(w) < BatchMax THEN Len(w) ELSE BatchMax)]
  /\ Goto(c, "cas")
  /\ UNCHANGED <<tcb, spawned, run_queue, deque, victim, view, raced, cur, parked>>

\* ... of which the k-th is read later, after another task was put there, or
\* when the slots are freed and may hold any task that was queued, or none.
StealLate(c, k) ==
  /\ pc[c] = "cas" /\ k \in DOMAIN loot[c]
  /\ \/ /\ view[c] = "fresh" /\ k <= Len(worker[victim[c]])
        /\ loot' = [loot EXCEPT ![c][k] = worker[victim[c]][k]]
     \/ /\ view[c] = "torn"
        /\ \E t \in spawned \cup {NoTask} : loot' = [loot EXCEPT ![c][k] = t]
  /\ UNCHANGED <<tcb, spawned, run_queue, deque, victim, view, raced, pc, cur, parked>>

\* Mutant: top does not move, so the stolen tasks also stay with the victim.
StealCopies(c) ==
  /\ pc[c] = "cas" /\ view[c] # "stale"
  /\ TopMoves(victim[c])
  /\ victim' = Set(victim, c, NoCore)
  /\ Goto(c, "loot")
  /\ UNCHANGED <<tcb, spawned, run_queue, deque, loot, raced, cur, parked>>

\* The compare-exchange of top.  It does not see that the owner has taken
\* elements of the batch; then bottom falls behind top.
StealCas(c) ==
  /\ pc[c] = "cas" /\ view[c] # "stale"
  /\ LET v == victim[c]
         n == Len(loot[c])
     IN  /\ worker' = [worker EXCEPT ![v] = SubSeq(@, n + 1, Len(@))]
         /\ behind' = [behind EXCEPT ![v] =
                         IF n > Len(worker[v]) THEN @ + n - Len(worker[v]) ELSE @]
         /\ TopMoves(v)
  /\ victim' = Set(victim, c, NoCore)
  /\ Goto(c, "loot")
  /\ UNCHANGED <<tcb, spawned, run_queue, cap, loot, raced, cur, parked>>

\* The stolen tasks are pushed in the order they were read, but for nulls.
StealPush(c) ==
  /\ pc[c] = "loot"
  /\ IF Head(loot[c]) = NoTask
     THEN UNCHANGED <<deque, view, raced>>
     ELSE Push(c, Head(loot[c]))
  /\ loot' = Set(loot, c, Tail(loot[c]))
  /\ Goto(c, IF Len(loot[c]) = 1 THEN "drain" ELSE "loot")
  /\ UNCHANGED <<tcb, spawned, run_queue, victim, cur, parked>>

\* No other core; contention, as top has moved; or a victim that is empty or has
\* pop()'s bottom, one below its only element.
NothingToSteal(c) ==
  \/ pc[c] = "steal" /\ Cores = {c}
  \/ pc[c] \in {"bottom", "cas"} /\ view[c] = "stale"
  \/ /\ pc[c] = "bottom"
     /\ Len(worker[victim[c]]) <= IF pc[victim[c]] = "pop" THEN 1 ELSE 0

StealNothing(c) ==
  /\ NothingToSteal(c)
  /\ victim' = Set(victim, c, NoCore) /\ view' = Set(view, c, "stale")
  /\ loot' = Set(loot, c, <<>>)
  /\ Goto(c, "idle")
  /\ UNCHANGED <<tcb, spawned, run_queue, deque, raced, cur, parked>>

\* idle_enter: sti; hlt
Halt(c) ==
  /\ pc[c] = "idle"
  /\ Goto(c, "halted")
  /\ UNCHANGED <<tcb, spawned, queues, cur, parked>>

-----------------------------------------------------------------------------
(* poll_task() *)

\* Ready -> Running, or the task is skipped.
Claim(c) ==
  /\ pc[c] = "claim"
  /\ LET t == cur[c] IN
     IF state[t] = "Ready"
     THEN /\ state' = Set(state, t, "Running")
          /\ current_core' = Set(current_core, t, c)
          /\ quantum_remaining' = Set(quantum_remaining, t, default_quantum)
          /\ Goto(c, "poll")
          /\ UNCHANGED cur
     ELSE /\ cur' = Set(cur, c, NoTask)
          /\ Goto(c, "drain")
          /\ UNCHANGED <<state, current_core, quantum_remaining>>
  /\ UNCHANGED <<decay_counter, effective_priority, left, spawned, queues, parked>>

\* The future parks its task during a poll that returns Pending.
Park(c) ==
  /\ Parks /\ pc[c] = "poll" /\ state[cur[c]] = "Running" /\ left[cur[c]] > 0
  /\ state' = Set(state, cur[c], "Blocked")
  /\ parked' = parked \cup {cur[c]}
  /\ UNCHANGED <<current_core, quantum_remaining, decay_counter,
                 effective_priority, left, spawned, queues, pc, cur>>

PollPending(c) ==
  /\ pc[c] = "poll" /\ left[cur[c]] > 0
  /\ left' = Set(left, cur[c], left[cur[c]] - 1)
  /\ quantum_remaining' = Set(quantum_remaining, cur[c], quantum_remaining[cur[c]] - 1)
  /\ Goto(c, IF quantum_remaining[cur[c]] - 1 <= 0 THEN "expired" ELSE "poll")
  /\ UNCHANGED <<state, current_core, decay_counter, effective_priority,
                 spawned, queues, cur, parked>>

\* Running -> Dying -> Dead; a panic ("expect") if the task is not Running.
PollReady(c) ==
  /\ pc[c] = "poll" /\ left[cur[c]] = 0
  /\ IF state[cur[c]] = "Running"
     THEN /\ state' = Set(state, cur[c], "Dead")
          /\ current_core' = Set(current_core, cur[c], NoCore)
          /\ cur' = Set(cur, c, NoTask)
          /\ Goto(c, "drain")
     ELSE Goto(c, "panic") /\ UNCHANGED <<state, current_core, cur>>
  /\ UNCHANGED <<quantum_remaining, decay_counter, effective_priority, left,
                 spawned, queues, parked>>

\* The quantum is used up: a Running task is made Ready and will be pushed; one
\* that is not Running is left to its wake-up.
MarkReady(t) == state' = IF state[t] = "Running" THEN Set(state, t, "Ready") ELSE state


\* Mutant: the loop goes on polling the task it has given back.
RequeueNoReturn(c) ==
  /\ pc[c] = "requeue"
  /\ current_core' = Set(current_core, cur[c], NoCore)
  /\ Push(c, cur[c])
  /\ Goto(c, "poll")
  /\ UNCHANGED <<state, quantum_remaining, decay_counter, effective_priority, left,
                 spawned, run_queue, victim, loot, cur, parked>>

Expire(c) ==
  /\ pc[c] = "expired"
  /\ MarkReady(cur[c])
  /\ IF state[cur[c]] = "Running"
     THEN Goto(c, "requeue") /\ UNCHANGED current_core
     ELSE /\ current_core' = Set(current_core, cur[c], NoCore)
          /\ Goto(c, "decay")
  /\ UNCHANGED <<quantum_remaining, decay_counter, effective_priority, left,
                 spawned, queues, cur, parked>>

\* A core that has found the task elsewhere may have claimed it by now.
Requeue(c) ==
  /\ pc[c] = "requeue"
  /\ current_core' = Set(current_core, cur[c], NoCore)
  /\ Push(c, cur[c])
  /\ Goto(c, "decay")
  /\ UNCHANGED <<state, quantum_remaining, decay_counter, effective_priority, left,
                 spawned, run_queue, victim, loot, cur, parked>>

-----------------------------------------------------------------------------
(* Priority decay, after the push: the task may already run elsewhere *)

PollReturns(c) == cur' = Set(cur, c, NoTask) /\ Goto(c, "drain")

\* Only every DecayPeriod-th expired quantum goes on to lower the priority.
DecayCount(c) ==
  /\ pc[c] = "decay"
  /\ LET n == (decay_counter[cur[c]] + 1) % DecayPeriod IN
       /\ decay_counter' = Set(decay_counter, cur[c], n)
       /\ IF n = 0 THEN Goto(c, "floor") /\ UNCHANGED cur ELSE PollReturns(c)
  /\ UNCHANGED <<state, current_core, quantum_remaining, effective_priority,
                 left, spawned, queues, parked>>

\* Mutant: the floor itself is lowered once more.
DecayFloorLoose(c) ==
  /\ pc[c] = "floor"
  /\ IF effective_priority[cur[c]] >= -MaxDecay
     THEN Goto(c, "lower") /\ UNCHANGED cur ELSE PollReturns(c)
  /\ UNCHANGED <<tcb, spawned, queues, parked>>

\* The loads of effective_priority and base_priority, and their comparison.
DecayFloor(c) ==
  /\ pc[c] = "floor"
  /\ IF effective_priority[cur[c]] > -MaxDecay
     THEN Goto(c, "lower") /\ UNCHANGED cur ELSE PollReturns(c)
  /\ UNCHANGED <<tcb, spawned, queues, parked>>

DecayLower(c) ==
  /\ pc[c] = "lower"
  /\ effective_priority' = Set(effective_priority, cur[c], effective_priority[cur[c]] - 1)
  /\ PollReturns(c)
  /\ UNCHANGED <<state, current_core, quantum_remaining, decay_counter, left,
                 spawned, queues, parked>>

-----------------------------------------------------------------------------
Environment ==
  \/ \E t \in Tasks : Wake(t)
  \/ \E c \in Cores : Interrupt(c) \/ \E t \in Tasks : EnqueueTask(c, t)

Run(c) ==
  \/ DrainDone(c) \/ \E t \in Tasks : Drain(c, t)
  \/ Pop(c) \/ PopEmpty(c)
  \/ (\E v \in Cores : StealTop(c, v)) \/ StealBottom(c)
  \/ (\E k \in 1 .. BatchMax : StealLate(c, k))
  \/ StealCas(c) \/ StealPush(c) \/ StealNothing(c)
  \/ Halt(c) \/ Claim(c) \/ Park(c) \/ PollPending(c) \/ PollReady(c)
  \/ Expire(c) \/ Requeue(c)
  \/ DecayCount(c) \/ DecayFloor(c) \/ DecayLower(c)

Next == Environment \/ \E c \in Cores : Run(c)

Spec == Init /\ [][Next]_vars

\* A core executes its loop, and a halted core is interrupted again (the
\* comment of idle_enter: "resumes on next interrupt").
Fairness == \A c \in Cores : WF_vars(Run(c)) /\ WF_vars(Interrupt(c))

FairSpec == Spec /\ Fairness

-----------------------------------------------------------------------------
(* Properties *)

PollPCs == {"poll", "expired"}

\* Tasks are in known states, deques and run queues hold tasks, and a batch is
\* never longer than BatchMax.
TypeOK ==
  /\ state \in [Tasks -> {"Created", "Ready", "Running", "Blocked", "Dead"}]
  /\ current_core \in [Tasks -> Cores \cup {NoCore}]
  /\ quantum_remaining \in [Tasks -> Int]
  /\ decay_counter \in [Tasks -> 0 .. DecayPeriod - 1]
  /\ effective_priority \in [Tasks -> Int]
  /\ left \in [Tasks -> Nat] /\ \A t \in Tasks : left[t] <= PollsNeeded[t]
  /\ spawned \subseteq Tasks /\ parked \subseteq Tasks
  /\ run_queue \in [Cores -> SUBSET Tasks]
  /\ worker \in [Cores -> Seq(Tasks)] /\ behind \in [Cores -> Nat]
  /\ cap \in [Cores -> Nat \ {0}]
  /\ victim \in [Cores -> Cores \cup {NoCore}]
  /\ view \in [Cores -> {"fresh", "torn", "stale"}]
  /\ loot \in [Cores -> Seq(Tasks \cup {NoTask})]
  /\ \A c \in Cores : Len(loot[c]) <= BatchMax
  /\ raced \in BOOLEAN
  /\ pc \in [Cores -> {"drain", "pop", "steal", "bottom", "cas", "loot", "idle", "halted", "claim",
                       "requeue", "decay", "floor", "lower", "panic"} \cup PollPCs]
  /\ cur \in [Cores -> Tasks \cup {NoTask}]

\* executor.rs:101, "we have exclusive access to its future": no two cores are
\* ever polling one task, although tasks are stolen, requeued, woken and may
\* park while they are polled, as long as no steal raced with its victim.  A
\* task that such a race has duplicated is still polled by one core at a time,
\* unless it parks while it is polled.
ExclusivePollUntilRaced ==
  \A c, d \in Cores :
    pc[c] \in PollPCs /\ pc[d] \in PollPCs /\ cur[c] = cur[d] =>
      c = d \/ (raced /\ cur[c] \in parked)

\* The places from which an executor will come to poll t.
Places(t) ==
  {<<c, "queue", 0>> : c \in {c \in Cores : t \in run_queue[c]}}
    \cup {<<c, "poll", 0>> :
            c \in {c \in Cores : cur[c] = t /\ pc[c] \in {"claim", "requeue"} \cup PollPCs}}
    \cup (UNION {{<<c, "deque", i>> : i \in {i \in DOMAIN worker[c] : worker[c][i] = t}} :
                    c \in Cores})
    \cup (UNION {{<<c, "loot", i>> : i \in {i \in DOMAIN loot[c] : loot[c][i] = t}} :
                    c \in {c \in Cores : pc[c] = "loot"}})

\* As long as no steal raced with its victim, a task that has never parked
\* itself is neither lost nor duplicated when it is Ready, whatever other tasks
\* do.
NoTaskLostUntilRaced ==
  ~raced => \A t \in spawned \ parked : state[t] = "Ready" => Cardinality(Places(t)) = 1

\* executor.rs:136-139 compares the priority with its floor and lowers it in
\* separate steps, after the push, when the task may already run and be decayed
\* on another core.  Every other core may push it one below the floor, and no
\* further: LowestPriority is where decay stops.
LowestPriority == -MaxDecay - (Cardinality(Cores) - 1)
DecayBounded == \A t \in Tasks : effective_priority[t] >= LowestPriority

\* Tasks are stolen back and forth for ever, always before their new core
\* pops them.
EndlessStealing == \E c \in Cores : []<><<StealCas(c)>>_vars


-----------------------------------------------------------------------------
(* What the source's comments say and the code does not keep.  No run      *)
(* checks these; the README gives the counterexamples.                     *)

\* executor.rs:101, "task is RUNNING": a core that polls a task has it Running
\* on that core.
PolledIsRunning ==
  \A c \in Cores : pc[c] \in PollPCs =>
    state[cur[c]] = "Running" /\ current_core[cur[c]] = c

\* executor.rs:101, "we have exclusive access to its future", without the
\* condition.
ExclusivePoll ==
  \A c, d \in Cores :
    pc[c] \in PollPCs /\ pc[d] \in PollPCs /\ cur[c] = cur[d] => c = d

\* executor.rs:129 and 236, a task "gets enqueued" when it becomes Ready: it is
\* in exactly one queue, or on its way from one into poll_task().
NoTaskLost ==
  \A t \in spawned : state[t] = "Ready" => Cardinality(Places(t)) = 1

\* stealer.rs:89, "Push to the bottom": what is pushed can be popped.
NothingBehind == \A c \in Cores : behind[c] = 0

\* executor.rs:2, a core "enters a low-power state when there's nothing to do":
\* a halted core has no task of its own.
HaltedHasNoWork ==
  \A c \in Cores : pc[c] = "halted" => run_queue[c] = {} /\ worker[c] = <<>>

\* task_control_block.rs:33, "Bit N set means the task may run on core N".
RunsWhereAllowed ==
  \A t \in Tasks : current_core[t] # NoCore => current_core[t] \in Affinity[t]
=============================================================================

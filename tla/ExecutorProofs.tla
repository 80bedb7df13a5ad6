---------------------------- MODULE ExecutorProofs --------------------------
(***************************************************************************)
(* Proofs about the executors for any number of cores and tasks.  What     *)
(* holds whatever the thieves do is that a task that has never parked      *)
(* itself is Running exactly while one core polls it.  As long as no steal *)
(* has raced with its victim, a batch that can still be had is the oldest  *)
(* part of the victim's deque, so that a task is in at most one place from *)
(* which it can come to be polled.                                         *)
(***************************************************************************)
EXTENDS Executor, TLAPS, FiniteSetTheorems, SequenceTheorems

HoldPCs == {"claim", "requeue"} \cup PollPCs

Polled(t, c) == cur[c] = t /\ pc[c] \in PollPCs

Pushed(t, c, i) == i \in DOMAIN worker[c] /\ worker[c][i] = t

\* t is in the i-th place of kind k at core c, see Places.
At(t, c, k, i) ==
  \/ k = "queue" /\ i = 0 /\ t \in run_queue[c]
  \/ k = "poll" /\ i = 0 /\ cur[c] = t /\ pc[c] \in HoldPCs
  \/ k = "deque" /\ Pushed(t, c, i)
  \/ k = "loot" /\ pc[c] = "loot" /\ i \in DOMAIN loot[c] /\ loot[c][i] = t

Placed(t) == \E c \in Cores : \E k, i : At(t, c, k, i)

\* The task is not in two places.
Alone(t) ==
  \A c, d \in Cores : \A k, l, i, j :
    At(t, c, k, i) /\ At(t, d, l, j) => c = d /\ k = l /\ i = j

\* Only a task that was handed to an executor is in a place, and before it
\* parks itself it is in one unless it is Dead.
PlaceSound(t) ==
  /\ Alone(t)
  /\ Placed(t) => t \in spawned
  /\ t \in spawned \ parked /\ state[t] \in {"Ready", "Running"} => Placed(t)

Once == \A t \in Tasks : PlaceSound(t)

\* Whatever the thieves do: a task is Running while it is polled, until it has
\* parked itself.
PollSound(t) ==
  /\ state[t] = "Created" => t \notin spawned
  /\ t \notin parked =>
       /\ state[t] # "Blocked"
       /\ state[t] = "Running" <=> \E c \in Cores : Polled(t, c)
       /\ \A c, d \in Cores : Polled(t, c) /\ Polled(t, d) => c = d

PollsSound == \A t \in Tasks : PollSound(t)

\* A core that handles a task has one, and one that steals has a victim.
CoreSound(c) ==
  /\ pc[c] \in {"decay", "floor", "lower"} \cup HoldPCs => cur[c] \in Tasks
  /\ pc[c] \in {"bottom", "cas"} => victim[c] \in Cores \ {c}
  /\ pc[c] \in {"cas", "loot"} => loot[c] # <<>>

CoresSound == \A c \in Cores : CoreSound(c)

\* What a thief may still get is the oldest part of its victim's deque.
ThiefSound(c) ==
  /\ behind[c] = 0 /\ view[c] # "torn"
  /\ pc[c] = "cas" /\ view[c] = "fresh" =>
       /\ Len(loot[c]) <= Len(worker[victim[c]])
       /\ \A i \in 1 .. Len(loot[c]) : loot[c][i] = worker[victim[c]][i]

ThievesSound == \A c \in Cores : ThiefSound(c)

ExecInv ==
  /\ TypeOK /\ CoresSound /\ PollsSound
  /\ ~raced => ThievesSound /\ Once

-----------------------------------------------------------------------------
(* Steps that move no task *)

SameState(t) ==
  /\ state'[t] = state[t]
  /\ t \in spawned' <=> t \in spawned
  /\ t \in parked' <=> t \in parked

\* The task stays where it is.
Stays(t) == \A c \in Cores : \A k, i : At(t, c, k, i)' <=> At(t, c, k, i)

LEMMA StaysStep ==
  ASSUME NEW t, Stays(t)
  PROVE  /\ Alone(t) => Alone(t)'
         /\ Placed(t)' <=> Placed(t)
         /\ PlaceSound(t) /\ SameState(t) => PlaceSound(t)'
<1>1. Alone(t) => Alone(t)'
  BY DEF Stays, Alone
<1>2. Placed(t)' <=> Placed(t)
  BY DEF Stays, Placed
<1> QED
  BY <1>1, <1>2 DEF PlaceSound, SameState

LEMMA PollStays ==
  ASSUME NEW t, PollSound(t), SameState(t),
         \A c \in Cores : Polled(t, c)' <=> Polled(t, c)
  PROVE  PollSound(t)'
BY DEF PollSound, SameState

\* A step of core c from where it has no task to where it has none, or to where
\* it lowers the priority of one, and which leaves the queues alone.
Quiet(c) ==
  /\ pc[c] \notin HoldPCs \cup {"loot"} /\ pc'[c] \notin HoldPCs \cup {"loot"}
  /\ \A d \in Cores : d # c => pc'[d] = pc[d] /\ cur'[d] = cur[d] /\ loot'[d] = loot[d]
  /\ UNCHANGED <<state, spawned, run_queue, worker, parked>>

LEMMA QuietStep ==
  ASSUME PollsSound, NEW c \in Cores, Quiet(c)
  PROVE  PollsSound' /\ (Once => Once')
<1>1. ASSUME NEW t \in Tasks PROVE Stays(t) /\ SameState(t)
  BY DEF Quiet, Stays, At, Pushed, SameState
<1>2. ASSUME NEW t \in Tasks, NEW d \in Cores PROVE Polled(t, d)' <=> Polled(t, d)
  BY DEF Quiet, Polled, HoldPCs
<1>3. PollsSound'
  BY <1>1, <1>2, PollStays DEF PollsSound
<1>4. Once => Once'
  BY <1>1, StaysStep DEF Once
<1> QED
  BY <1>3, <1>4

\* Nor does a step disturb a thief that leaves deques and batches alone.
LEMMA ThievesStay ==
  ASSUME ThievesSound, UNCHANGED <<worker, behind, victim, view, loot>>,
         \A c \in Cores : pc'[c] = "cas" => pc[c] = "cas"
  PROVE  ThievesSound'
BY DEF ThievesSound, ThiefSound

\* Draining ends, a pop finds nothing, a core halts or is interrupted.
LEMMA LoopStep ==
  ASSUME ExecInv, NEW c \in Cores,
         DrainDone(c) \/ PopEmpty(c) \/ Halt(c) \/ Interrupt(c)
  PROVE  ExecInv'
<1>1. PICK l \in {"drain", "pop", "steal", "halted"} :
        /\ pc' = [pc EXCEPT ![c] = l]
        /\ pc[c] \in {"drain", "pop", "idle", "halted"}
        /\ UNCHANGED <<tcb, spawned, queues, cur, parked>>
  BY DEF DrainDone, PopEmpty, Halt, Interrupt, Goto
<1>2. UNCHANGED <<state, current_core, quantum_remaining, decay_counter,
                  effective_priority, left, spawned, run_queue, worker, behind,
                  cap, victim, view, loot, raced, cur, parked>>
  BY <1>1 DEF tcb, queues, deque, theft
<1>3. TypeOK /\ CoresSound /\ PollsSound /\ (~raced => ThievesSound /\ Once)
  BY DEF ExecInv
<1>4. pc'[c] = l /\ \A d \in Cores : d # c => pc'[d] = pc[d]
  BY <1>1, <1>3 DEF TypeOK
<1>5. TypeOK'
  BY <1>1, <1>2, <1>3 DEF TypeOK
<1>6. CoresSound'
  BY <1>2, <1>3, <1>4 DEF CoresSound, CoreSound, HoldPCs, PollPCs
<1>7. Quiet(c)
  BY <1>1, <1>2, <1>4 DEF Quiet, HoldPCs, PollPCs
<1>8. ~raced' => ThievesSound'
  BY <1>2, <1>3, <1>4, ThievesStay
<1> QED
  BY <1>2, <1>3, <1>5, <1>6, <1>7, <1>8, QuietStep DEF ExecInv

\* The three steps of decay change the counter and the priority.
LEMMA DecayStep ==
  ASSUME ExecInv, NEW c \in Cores, DecayCount(c) \/ DecayFloor(c) \/ DecayLower(c)
  PROVE  ExecInv'
<1>1. /\ pc[c] \in {"decay", "floor", "lower"}
      /\ \/ pc' = [pc EXCEPT ![c] = "drain"] /\ cur' = [cur EXCEPT ![c] = NoTask]
         \/ pc' = [pc EXCEPT ![c] = "floor"] /\ cur' = cur
         \/ pc' = [pc EXCEPT ![c] = "lower"] /\ cur' = cur
      /\ UNCHANGED <<state, current_core, quantum_remaining, left, spawned,
                     queues, parked>>
  BY DEF DecayCount, DecayFloor, DecayLower, PollReturns, Goto, Set, tcb
<1>2. UNCHANGED <<run_queue, worker, behind, cap, victim, view, loot, raced>>
  BY <1>1 DEF queues, deque, theft
<1>3. /\ TypeOK /\ CoresSound /\ PollsSound /\ (~raced => ThievesSound /\ Once)
      /\ cur[c] \in Tasks
  BY <1>1 DEF ExecInv, CoresSound, CoreSound
<1>4. /\ decay_counter' \in [Tasks -> 0 .. DecayPeriod - 1]
      /\ effective_priority' \in [Tasks -> Int]
  <2>1. /\ decay_counter \in [Tasks -> 0 .. DecayPeriod - 1]
        /\ effective_priority \in [Tasks -> Int]
    BY <1>3 DEF TypeOK
  <2>2. CASE DecayCount(c)
    <3> DEFINE n == (decay_counter[cur[c]] + 1) % DecayPeriod
    <3>1. n \in 0 .. DecayPeriod - 1
      BY <1>3, <2>1, ExecutorAssumption
    <3>2. /\ decay_counter' = [decay_counter EXCEPT ![cur[c]] = n]
          /\ effective_priority' = effective_priority
      BY <2>2 DEF DecayCount, Set
    <3> QED
      BY <2>1, <3>1, <3>2
  <2>3. CASE DecayFloor(c)
    BY <2>1, <2>3 DEF DecayFloor, tcb
  <2>4. CASE DecayLower(c)
    BY <1>3, <2>1, <2>4 DEF DecayLower, Set
  <2> QED
    BY <1>1, <2>2, <2>3, <2>4
<1>5. /\ pc'[c] \in {"drain", "floor", "lower"} /\ (pc'[c] # "drain" => cur'[c] = cur[c])
      /\ \A d \in Cores : d # c => pc'[d] = pc[d] /\ cur'[d] = cur[d]
  BY <1>1, <1>3 DEF TypeOK
<1>6. TypeOK'
  BY <1>1, <1>2, <1>3, <1>4 DEF TypeOK
<1>7. CoresSound'
  BY <1>2, <1>3, <1>5 DEF CoresSound, CoreSound, HoldPCs, PollPCs
<1>8. Quiet(c)
  BY <1>1, <1>2, <1>5 DEF Quiet, HoldPCs, PollPCs
<1>9. ~raced' => ThievesSound'
  BY <1>2, <1>3, <1>5, ThievesStay
<1> QED
  BY <1>2, <1>3, <1>6, <1>7, <1>8, <1>9, QuietStep DEF ExecInv

\* A thief picks its victim or gives up.
LEMMA StealTopStep ==
  ASSUME ExecInv, NEW c \in Cores, NEW v \in Cores, StealTop(c, v)
  PROVE  ExecInv'
<1>1. /\ pc[c] = "steal" /\ v # c
      /\ pc' = [pc EXCEPT ![c] = "bottom"]
      /\ victim' = [victim EXCEPT ![c] = v] /\ view' = [view EXCEPT ![c] = "fresh"]
      /\ UNCHANGED <<state, current_core, quantum_remaining, decay_counter,
                     effective_priority, left, spawned, run_queue, worker,
                     behind, cap, loot, raced, cur, parked>>
  BY DEF StealTop, Goto, Set, tcb, deque
<1>2. TypeOK /\ CoresSound /\ PollsSound /\ (~raced => ThievesSound /\ Once)
  BY DEF ExecInv
<1>3. /\ pc'[c] = "bottom" /\ victim'[c] = v /\ view'[c] = "fresh"
      /\ \A d \in Cores : d # c =>
           pc'[d] = pc[d] /\ victim'[d] = victim[d] /\ view'[d] = view[d]
  BY <1>1, <1>2 DEF TypeOK
<1>4. TypeOK'
  BY <1>1, <1>2 DEF TypeOK
<1>5. CoresSound'
  BY <1>1, <1>2, <1>3 DEF CoresSound, CoreSound, HoldPCs, PollPCs
<1>6. Quiet(c)
  BY <1>1, <1>3 DEF Quiet, HoldPCs, PollPCs
<1>7. ~raced' => ThievesSound'
  BY <1>1, <1>2, <1>3 DEF ThievesSound, ThiefSound
<1> QED
  BY <1>1, <1>2, <1>4, <1>5, <1>6, <1>7, QuietStep DEF ExecInv

LEMMA StealNothingStep ==
  ASSUME ExecInv, NEW c \in Cores, StealNothing(c)
  PROVE  ExecInv'
<1>1. /\ pc[c] \in {"steal", "bottom", "cas"}
      /\ pc' = [pc EXCEPT ![c] = "idle"]
      /\ victim' = [victim EXCEPT ![c] = NoCore] /\ view' = [view EXCEPT ![c] = "stale"]
      /\ loot' = [loot EXCEPT ![c] = <<>>]
      /\ UNCHANGED <<state, current_core, quantum_remaining, decay_counter,
                     effective_priority, left, spawned, run_queue, worker,
                     behind, cap, raced, cur, parked>>
  BY DEF StealNothing, NothingToSteal, Goto, Set, tcb, deque
<1>2. TypeOK /\ CoresSound /\ PollsSound /\ (~raced => ThievesSound /\ Once)
  BY DEF ExecInv
<1>3. /\ pc'[c] = "idle" /\ view'[c] = "stale"
      /\ \A d \in Cores : d # c => /\ pc'[d] = pc[d] /\ victim'[d] = victim[d]
                                   /\ view'[d] = view[d] /\ loot'[d] = loot[d]
  BY <1>1, <1>2 DEF TypeOK
<1>4. TypeOK'
  <2>1. <<>> \in Seq(Tasks \cup {NoTask}) /\ Len(<<>>) <= BatchMax
    BY ExecutorAssumption
  <2>2. /\ loot' \in [Cores -> Seq(Tasks \cup {NoTask})]
        /\ \A d \in Cores : Len(loot'[d]) <= BatchMax
    BY <1>1, <1>2, <2>1 DEF TypeOK
  <2> QED
    BY <1>1, <1>2, <2>2 DEF TypeOK
<1>5. CoresSound'
  BY <1>1, <1>2, <1>3 DEF CoresSound, CoreSound, HoldPCs, PollPCs
<1>6. Quiet(c)
  BY <1>1, <1>3 DEF Quiet, HoldPCs, PollPCs
<1>7. ~raced' => ThievesSound'
  BY <1>1, <1>2, <1>3 DEF ThievesSound, ThiefSound
<1> QED
  BY <1>1, <1>2, <1>4, <1>5, <1>6, <1>7, QuietStep DEF ExecInv

\* A thief reads its batch, and one of its slots again.
LEMMA StealBottomStep ==
  ASSUME ExecInv, NEW c \in Cores, StealBottom(c)
  PROVE  ExecInv'
<1> DEFINE v == victim[c]
           n == IF Len(worker[v]) < BatchMax THEN Len(worker[v]) ELSE BatchMax
           s == SubSeq(worker[v], 1, n)
<1>1. /\ pc[c] = "bottom" /\ worker[v] # <<>>
      /\ pc' = [pc EXCEPT ![c] = "cas"]
      /\ loot' = [loot EXCEPT ![c] = s]
      /\ UNCHANGED <<state, current_core, quantum_remaining, decay_counter,
                     effective_priority, left, spawned, run_queue, worker,
                     behind, cap, victim, view, raced, cur, parked>>
  BY DEF StealBottom, Goto, tcb, deque
<1>2. /\ TypeOK /\ CoresSound /\ PollsSound /\ (~raced => ThievesSound /\ Once)
      /\ v \in Cores \ {c}
  BY <1>1 DEF ExecInv, CoresSound, CoreSound
<1>3. worker[v] \in Seq(Tasks) /\ n \in Nat \ {0} /\ n <= Len(worker[v]) /\ n <= BatchMax
  <2>1. worker[v] \in Seq(Tasks)
    BY <1>2 DEF TypeOK
  <2>2. Len(worker[v]) \in Nat \ {0}
    BY <1>1, <2>1
  <2> QED
    BY <2>1, <2>2, ExecutorAssumption
<1> HIDE DEF n
<1>4. s \in Seq(Tasks) /\ Len(s) = n /\ \A i \in 1 .. n : s[i] = worker[v][i]
  <2>1. \A i \in 1 .. n : worker[v][i] \in Tasks
    BY <1>3
  <2> QED
    BY <1>3, <2>1, SubSeqProperties
<1>5. s \in Seq(Tasks \cup {NoTask}) /\ s # <<>>
  BY <1>3, <1>4
<1> HIDE DEF s
<1>6. /\ pc'[c] = "cas" /\ loot'[c] = s
      /\ \A d \in Cores : d # c => pc'[d] = pc[d] /\ loot'[d] = loot[d]
  BY <1>1, <1>2 DEF TypeOK
<1>7. TypeOK'
  <2>1. /\ loot' \in [Cores -> Seq(Tasks \cup {NoTask})]
        /\ \A d \in Cores : Len(loot'[d]) <= BatchMax
    BY <1>1, <1>2, <1>3, <1>4, <1>5 DEF TypeOK
  <2> QED
    BY <1>1, <1>2, <2>1 DEF TypeOK
<1>8. CoresSound'
  BY <1>1, <1>2, <1>5, <1>6 DEF CoresSound, CoreSound, HoldPCs, PollPCs
<1>9. Quiet(c)
  BY <1>1, <1>6 DEF Quiet, HoldPCs, PollPCs
<1>10. ~raced' => ThievesSound'
  BY <1>1, <1>2, <1>3, <1>4, <1>6 DEF ThievesSound, ThiefSound
<1> QED
  BY <1>1, <1>2, <1>7, <1>8, <1>9, <1>10, QuietStep DEF ExecInv

LEMMA StealLateStep ==
  ASSUME ExecInv, NEW c \in Cores, NEW k, StealLate(c, k)
  PROVE  ExecInv'
<1> DEFINE v == victim[c]
<1>1. /\ pc[c] = "cas" /\ k \in DOMAIN loot[c]
      /\ UNCHANGED <<state, current_core, quantum_remaining, decay_counter,
                     effective_priority, left, spawned, run_queue, worker,
                     behind, cap, victim, view, raced, pc, cur, parked>>
  BY DEF StealLate, tcb, deque
<1>2. /\ TypeOK /\ CoresSound /\ PollsSound /\ (~raced => ThievesSound /\ Once)
      /\ v \in Cores \ {c}
  BY <1>1 DEF ExecInv, CoresSound, CoreSound
<1>3. PICK t \in Tasks \cup {NoTask} :
        /\ loot' = [loot EXCEPT ![c][k] = t]
        /\ view[c] # "torn" => k \in 1 .. Len(worker[v]) /\ t = worker[v][k]
  <2>1. k \in 1 .. Len(loot[c])
    BY <1>1, <1>2 DEF TypeOK
  <2>2. CASE view[c] = "torn"
    BY <1>2, <2>2 DEF StealLate, TypeOK
  <2>3. CASE view[c] # "torn"
    <3>1. k <= Len(worker[v]) /\ loot' = [loot EXCEPT ![c][k] = worker[v][k]]
      BY <2>3 DEF StealLate
    <3>2. worker[v] \in Seq(Tasks)
      BY <1>2 DEF TypeOK
    <3>3. k \in 1 .. Len(worker[v]) /\ worker[v][k] \in Tasks
      BY <2>1, <3>1, <3>2
    <3> QED
      BY <3>1, <3>3
  <2> QED
    BY <2>2, <2>3
<1> DEFINE s == [loot[c] EXCEPT ![k] = t]
<1>4. /\ s \in Seq(Tasks \cup {NoTask}) /\ Len(s) = Len(loot[c])
      /\ \A i \in 1 .. Len(s) : s[i] = IF i = k THEN t ELSE loot[c][i]
  <2>1. loot[c] \in Seq(Tasks \cup {NoTask})
    BY <1>2 DEF TypeOK
  <2>2. k \in 1 .. Len(loot[c])
    BY <1>1, <2>1
  <2> QED
    BY <2>1, <2>2, ExceptSeq, SMTT(30)
<1>5. loot' = [loot EXCEPT ![c] = s]
  BY <1>3
<1> HIDE DEF s
<1>6. loot'[c] = s /\ \A d \in Cores : d # c => loot'[d] = loot[d]
  BY <1>2, <1>5 DEF TypeOK
<1>7. TypeOK'
  <2>1. /\ loot' \in [Cores -> Seq(Tasks \cup {NoTask})]
        /\ \A d \in Cores : Len(loot'[d]) <= BatchMax
    BY <1>2, <1>4, <1>5 DEF TypeOK
  <2> QED
    BY <1>1, <1>2, <2>1 DEF TypeOK
<1>8. CoresSound'
  <2>1. s # <<>>
    <3>1. Len(s) # 0
      BY <1>1, <1>2, <1>4 DEF TypeOK
    <3> QED
      BY <3>1
  <2> QED
    BY <1>1, <1>2, <1>6, <2>1 DEF CoresSound, CoreSound
<1>9. Quiet(c)
  BY <1>1, <1>6 DEF Quiet, HoldPCs, PollPCs
<1>10. ~raced' => ThievesSound'
  BY <1>1, <1>2, <1>3, <1>4, <1>6 DEF ThievesSound, ThiefSound
<1> QED
  BY <1>1, <1>2, <1>7, <1>8, <1>9, <1>10, QuietStep DEF ExecInv

-----------------------------------------------------------------------------
(* Steps that change the state of one task and move none *)

\* A step that concerns one task is sound when it is for that task.
LEMMA OneTaskStep ==
  ASSUME Once, NEW t \in Tasks, PlaceSound(t)',
         \A u \in Tasks : u # t => Stays(u) /\ SameState(u)
  PROVE  Once'
BY StaysStep DEF Once

LEMMA OnePollStep ==
  ASSUME PollsSound, NEW t \in Tasks, PollSound(t)',
         \A u \in Tasks : u # t =>
           SameState(u) /\ \A c \in Cores : Polled(u, c)' <=> Polled(u, c)
  PROVE  PollsSound'
BY PollStays DEF PollsSound

\* A core that polls or decays does so with a task.
LEMMA CurrentTask ==
  ASSUME ExecInv, NEW c \in Cores,
         pc[c] \in {"claim", "poll", "expired", "requeue", "decay", "floor", "lower"}
  PROVE  \E t \in Tasks : t = cur[c]
BY DEF ExecInv, CoresSound, CoreSound, HoldPCs, PollPCs

LEMMA WakeStep ==
  ASSUME ExecInv, NEW t \in Tasks, Wake(t)
  PROVE  ExecInv'
<1>1. /\ state[t] \in {"Created", "Blocked"}
      /\ state' = [state EXCEPT ![t] = "Ready"]
      /\ UNCHANGED <<current_core, quantum_remaining, decay_counter,
                     effective_priority, left, spawned, run_queue, worker,
                     behind, cap, victim, view, loot, raced, pc, cur, parked>>
  BY DEF Wake, Set, queues, deque, theft
<1>2. TypeOK /\ CoresSound /\ PollsSound /\ (~raced => ThievesSound /\ Once)
  BY DEF ExecInv
<1>3. TypeOK'
  BY <1>1, <1>2 DEF TypeOK
<1>4. CoresSound'
  BY <1>1, <1>2 DEF CoresSound, CoreSound
<1>5. \A u \in Tasks : /\ Stays(u) /\ (u # t => SameState(u))
                       /\ \A c \in Cores : Polled(u, c)' <=> Polled(u, c)
  BY <1>1, <1>2 DEF TypeOK, Stays, SameState, At, Pushed, Polled
<1>6. PollSound(t) /\ state'[t] = "Ready"
  BY <1>1, <1>2 DEF TypeOK, PollsSound
<1>7. PollSound(t)'
  BY <1>1, <1>5, <1>6 DEF PollSound
<1>8. ~raced' => Once'
  <2>1. ASSUME PlaceSound(t) PROVE PlaceSound(t)'
    <3>1. t \notin parked => t \notin spawned
      BY <1>1, <1>6 DEF PollSound
    <3> QED
      BY <1>1, <1>5, <2>1, <3>1, StaysStep DEF PlaceSound
  <2> QED
    BY <1>1, <1>2, <1>5, <2>1, OneTaskStep DEF Once
<1>9. ~raced' => ThievesSound'
  BY <1>1, <1>2, ThievesStay
<1> QED
  BY <1>2, <1>3, <1>4, <1>5, <1>7, <1>8, <1>9, OnePollStep DEF ExecInv

LEMMA ParkStep ==
  ASSUME ExecInv, NEW c \in Cores, Park(c)
  PROVE  ExecInv'
<1>1. PICK t \in Tasks : t = cur[c]
  BY CurrentTask DEF Park
<1>2. /\ state' = [state EXCEPT ![t] = "Blocked"]
      /\ parked' = parked \cup {t}
      /\ UNCHANGED <<current_core, quantum_remaining, decay_counter,
                     effective_priority, left, spawned, run_queue, worker,
                     behind, cap, victim, view, loot, raced, pc, cur>>
  BY <1>1 DEF Park, Set, queues, deque, theft
<1>3. TypeOK /\ CoresSound /\ PollsSound /\ (~raced => ThievesSound /\ Once)
  BY DEF ExecInv
<1>4. TypeOK'
  BY <1>2, <1>3 DEF TypeOK
<1>5. CoresSound'
  BY <1>2, <1>3 DEF CoresSound, CoreSound
<1>6. \A u \in Tasks : /\ Stays(u) /\ (u # t => SameState(u))
                       /\ \A d \in Cores : Polled(u, d)' <=> Polled(u, d)
  BY <1>2, <1>3 DEF TypeOK, Stays, SameState, At, Pushed, Polled
<1>7. state'[t] = "Blocked" /\ t \in parked'
  BY <1>2, <1>3 DEF TypeOK
<1>8. PollSound(t)'
  BY <1>7 DEF PollSound
<1>9. ~raced' => Once'
  <2>1. ASSUME PlaceSound(t) PROVE PlaceSound(t)'
    BY <1>2, <1>6, <1>7, <2>1, StaysStep DEF PlaceSound
  <2> QED
    BY <1>2, <1>3, <1>6, <2>1, OneTaskStep DEF Once
<1>10. ~raced' => ThievesSound'
  BY <1>2, <1>3, ThievesStay
<1> QED
  BY <1>3, <1>4, <1>5, <1>6, <1>8, <1>9, <1>10, OnePollStep DEF ExecInv

LEMMA PollPendingStep ==
  ASSUME ExecInv, NEW c \in Cores, PollPending(c)
  PROVE  ExecInv'
<1> DEFINE q == quantum_remaining[cur[c]] - 1
           l == IF q <= 0 THEN "expired" ELSE "poll"
<1>1. PICK t \in Tasks : t = cur[c]
  BY CurrentTask DEF PollPending
<1>2. /\ pc[c] = "poll" /\ left[t] > 0
      /\ left' = [left EXCEPT ![t] = left[t] - 1]
      /\ quantum_remaining' = [quantum_remaining EXCEPT ![t] = q]
      /\ pc' = [pc EXCEPT ![c] = l]
      /\ UNCHANGED <<state, current_core, decay_counter, effective_priority,
                     spawned, run_queue, worker, behind, cap, victim, view,
                     loot, raced, cur, parked>>
  BY <1>1 DEF PollPending, Set, Goto, queues, deque, theft
<1>3. TypeOK /\ CoresSound /\ PollsSound /\ (~raced => ThievesSound /\ Once)
  BY DEF ExecInv
<1>4. /\ q \in Int /\ l \in PollPCs
      /\ left[t] - 1 \in Nat /\ left[t] - 1 <= PollsNeeded[t]
  <2>1. quantum_remaining[t] \in Int
    BY <1>3 DEF TypeOK
  <2>2. left[t] \in Nat /\ left[t] <= PollsNeeded[t] /\ PollsNeeded[t] \in Nat
    BY <1>3, ExecutorAssumption DEF TypeOK
  <2> QED
    BY <1>1, <1>2, <2>1, <2>2 DEF PollPCs
<1> HIDE DEF q, l
<1>5. TypeOK'
  <2>1. left' \in [Tasks -> Nat] /\ \A u \in Tasks : left'[u] <= PollsNeeded[u]
    BY <1>2, <1>3, <1>4 DEF TypeOK
  <2> QED
    BY <1>2, <1>3, <1>4, <2>1 DEF TypeOK
<1>6. pc'[c] = l /\ \A d \in Cores : d # c => pc'[d] = pc[d]
  BY <1>2, <1>3 DEF TypeOK
<1>7. CoresSound'
  BY <1>2, <1>3, <1>4, <1>6 DEF CoresSound, CoreSound, HoldPCs, PollPCs
<1>8. \A u \in Tasks : /\ Stays(u) /\ SameState(u)
                       /\ \A d \in Cores : Polled(u, d)' <=> Polled(u, d)
  BY <1>2, <1>4, <1>6 DEF Stays, SameState, At, Pushed, Polled, HoldPCs, PollPCs
<1>9. PollsSound' /\ (~raced' => Once')
  BY <1>2, <1>3, <1>8, StaysStep, PollStays DEF PollsSound, Once
<1>10. ~raced' => ThievesSound'
  BY <1>2, <1>3, <1>4, <1>6, ThievesStay DEF PollPCs
<1> QED
  BY <1>5, <1>7, <1>9, <1>10 DEF ExecInv

-----------------------------------------------------------------------------
(* Polling *)

\* A task leaves its place for good, or for another one.
LEMMA LeaveStep ==
  ASSUME NEW t, Alone(t), NEW c \in Cores, NEW k, NEW i, At(t, c, k, i),
         \A d \in Cores : \A l, j :
           At(t, d, l, j)' => At(t, d, l, j) /\ ~(d = c /\ l = k /\ j = i),
         t \in parked' \/ state'[t] \notin {"Ready", "Running"}
  PROVE  PlaceSound(t)'
<1>1. \A d \in Cores : \A l, j : ~At(t, d, l, j)'
  BY DEF Alone
<1> QED
  BY <1>1 DEF PlaceSound, Alone, Placed

LEMMA MoveStep ==
  ASSUME NEW t, PlaceSound(t), t \in spawned => t \in spawned',
         NEW c \in Cores, NEW k, NEW i, At(t, c, k, i),
         NEW e \in Cores, NEW m, NEW n, At(t, e, m, n)',
         \A d \in Cores : \A l, j :
           At(t, d, l, j)' => \/ At(t, d, l, j) /\ ~(d = c /\ l = k /\ j = i)
                              \/ d = e /\ l = m /\ j = n
  PROVE  PlaceSound(t)'
<1>1. \A d \in Cores : \A l, j : At(t, d, l, j)' => d = e /\ l = m /\ j = n
  BY DEF PlaceSound, Alone
<1>2. Placed(t) /\ Placed(t)'
  BY DEF Placed
<1> QED
  BY <1>1, <1>2 DEF PlaceSound, Alone

LEMMA ClaimStep ==
  ASSUME ExecInv, NEW c \in Cores, Claim(c)
  PROVE  ExecInv'
<1>1. PICK t \in Tasks : t = cur[c]
  BY CurrentTask DEF Claim
<1>2. /\ TypeOK /\ CoresSound /\ PollsSound /\ (~raced => ThievesSound /\ Once)
      /\ pc[c] = "claim" /\ PollSound(t)
      /\ UNCHANGED <<decay_counter, effective_priority, left, spawned, run_queue,
                     worker, behind, cap, victim, view, loot, raced, parked>>
  BY DEF ExecInv, PollsSound, Claim, queues, deque, theft
<1>3. At(t, c, "poll", 0) /\ ~Polled(t, c)
  BY <1>1, <1>2 DEF At, Polled, HoldPCs, PollPCs
<1>4. CASE state[t] = "Ready"
  <2>1. /\ state' = [state EXCEPT ![t] = "Running"]
        /\ current_core' = [current_core EXCEPT ![t] = c]
        /\ quantum_remaining' = [quantum_remaining EXCEPT ![t] = default_quantum]
        /\ pc' = [pc EXCEPT ![c] = "poll"] /\ cur' = cur
    BY <1>1, <1>4 DEF Claim, Set, Goto
  <2>2. /\ pc'[c] = "poll" /\ state'[t] = "Running"
        /\ \A d \in Cores : d # c => pc'[d] = pc[d]
        /\ \A u \in Tasks : u # t => state'[u] = state[u]
    BY <1>2, <2>1 DEF TypeOK
  <2>3. TypeOK'
    <3>1. pc' \in [Cores -> {"drain", "pop", "steal", "bottom", "cas", "loot", "idle",
                             "halted", "claim", "requeue", "decay", "floor", "lower",
                             "panic"} \cup PollPCs]
      BY <1>2, <2>1 DEF TypeOK, PollPCs
    <3>2. quantum_remaining' \in [Tasks -> Int]
      BY <1>2, <2>1, ExecutorAssumption DEF TypeOK
    <3> QED
      BY <1>2, <2>1, <3>1, <3>2 DEF TypeOK
  <2>4. CoresSound'
    BY <1>1, <1>2, <2>1, <2>2 DEF CoresSound, CoreSound, HoldPCs, PollPCs
  <2>5. \A u \in Tasks : /\ Stays(u) /\ (u # t => SameState(u))
                         /\ \A d \in Cores : Polled(u, d)' <=> Polled(u, d) \/ (u = t /\ d = c)
    BY <1>1, <1>2, <2>1, <2>2 DEF Stays, SameState, At, Pushed, Polled, HoldPCs, PollPCs
  <2>6. PollSound(t)'
    BY <1>2, <1>4, <2>2, <2>5 DEF PollSound
  <2>7. PollsSound'
    BY <1>2, <2>5, <2>6, OnePollStep
  <2>8. ~raced' => Once'
    <3>1. ASSUME PlaceSound(t) PROVE PlaceSound(t)'
      BY <1>2, <1>4, <2>5, <3>1, StaysStep DEF PlaceSound
    <3> QED
      BY <1>2, <2>5, <3>1, OneTaskStep DEF Once
  <2>9. ~raced' => ThievesSound'
    BY <1>2, <2>2, ThievesStay
  <2> QED
    BY <2>3, <2>4, <2>7, <2>8, <2>9 DEF ExecInv
<1>5. CASE state[t] # "Ready"
  <2>1. /\ UNCHANGED <<state, current_core, quantum_remaining>>
        /\ pc' = [pc EXCEPT ![c] = "drain"] /\ cur' = [cur EXCEPT ![c] = NoTask]
    BY <1>1, <1>5 DEF Claim, Set, Goto
  <2>2. /\ pc'[c] = "drain"
        /\ \A d \in Cores : d # c => pc'[d] = pc[d] /\ cur'[d] = cur[d]
    BY <1>2, <2>1 DEF TypeOK
  <2>3. TypeOK'
    BY <1>2, <2>1 DEF TypeOK
  <2>4. CoresSound'
    BY <1>2, <2>2 DEF CoresSound, CoreSound, HoldPCs, PollPCs
  <2>5. \A u \in Tasks :
          /\ u # t => Stays(u)
          /\ SameState(u)
          /\ \A d \in Cores : Polled(u, d)' <=> Polled(u, d)
    BY <1>1, <1>2, <2>1, <2>2 DEF Stays, SameState, At, Pushed, Polled, HoldPCs, PollPCs
  <2>6. PollsSound'
    BY <1>2, <2>5, PollStays DEF PollsSound
  <2>7. ~raced' => Once'
    <3>1. ASSUME PlaceSound(t) PROVE PlaceSound(t)'
      <4>1. \A d \in Cores : \A l, j :
              At(t, d, l, j)' => At(t, d, l, j) /\ ~(d = c /\ l = "poll" /\ j = 0)
        BY <1>2, <2>2 DEF At, Pushed, HoldPCs, PollPCs
      <4>2. \A d \in Cores : ~Polled(t, d)
        <5>1. \A d \in Cores : Polled(t, d) => At(t, d, "poll", 0)
          BY DEF Polled, At, HoldPCs
        <5> QED
          BY <1>3, <3>1, <5>1 DEF PlaceSound, Alone
      <4>3. t \in parked' \/ state'[t] \notin {"Ready", "Running"}
        BY <1>2, <1>5, <2>1, <4>2 DEF PollSound
      <4> QED
        BY <1>3, <3>1, <4>1, <4>3, LeaveStep DEF PlaceSound
    <3> QED
      BY <1>2, <2>5, <3>1, OneTaskStep DEF Once
  <2>8. ~raced' => ThievesSound'
    BY <1>2, <2>2, ThievesStay
  <2> QED
    BY <2>3, <2>4, <2>6, <2>7, <2>8 DEF ExecInv
<1> QED
  BY <1>4, <1>5

\* A future that is ready ends its task, or the core panics; either way the
\* task is nowhere.
LEMMA PollReadyStep ==
  ASSUME ExecInv, NEW c \in Cores, PollReady(c)
  PROVE  ExecInv'
<1>1. PICK t \in Tasks : t = cur[c]
  BY CurrentTask DEF PollReady
<1>2. /\ TypeOK /\ CoresSound /\ PollsSound /\ (~raced => ThievesSound /\ Once)
      /\ pc[c] = "poll" /\ PollSound(t)
      /\ UNCHANGED <<quantum_remaining, decay_counter, effective_priority, left,
                     spawned, run_queue, worker, behind, cap, victim, view, loot,
                     raced, parked>>
      /\ \/ /\ state' = [state EXCEPT ![t] = "Dead"]
            /\ current_core' = [current_core EXCEPT ![t] = NoCore]
            /\ cur' = [cur EXCEPT ![c] = NoTask]
            /\ pc' = [pc EXCEPT ![c] = "drain"]
         \/ /\ state[t] # "Running" /\ pc' = [pc EXCEPT ![c] = "panic"]
            /\ UNCHANGED <<state, current_core, cur>>
  BY <1>1 DEF ExecInv, PollsSound, PollReady, Set, Goto, queues, deque, theft
<1>3. At(t, c, "poll", 0) /\ Polled(t, c)
  BY <1>1, <1>2 DEF At, Polled, HoldPCs, PollPCs
<1>4. /\ pc'[c] \in {"drain", "panic"}
      /\ \A d \in Cores : d # c => pc'[d] = pc[d] /\ cur'[d] = cur[d]
      /\ \A u \in Tasks : u # t => state'[u] = state[u]
      /\ t \in parked \/ state'[t] = "Dead"
      /\ state'[t] # "Dead" => state'[t] = state[t]
  BY <1>2, <1>3 DEF TypeOK, PollSound
<1>5. TypeOK'
  BY <1>2 DEF TypeOK
<1>6. CoresSound'
  BY <1>2, <1>4 DEF CoresSound, CoreSound, HoldPCs, PollPCs
<1>7. \A u \in Tasks : u # t =>
        /\ Stays(u) /\ SameState(u)
        /\ \A d \in Cores : Polled(u, d)' <=> Polled(u, d)
  BY <1>1, <1>2, <1>4 DEF Stays, SameState, At, Pushed, Polled, HoldPCs, PollPCs
<1>8. PollSound(t)'
  <2>1. \A d \in Cores : Polled(t, d)' <=> Polled(t, d) /\ d # c
    BY <1>4 DEF Polled, PollPCs
  <2> QED
    BY <1>2, <1>3, <1>4, <2>1 DEF PollSound
<1>9. PollsSound'
  BY <1>2, <1>7, <1>8, OnePollStep
<1>10. ~raced' => Once'
  <2>1. ASSUME PlaceSound(t) PROVE PlaceSound(t)'
    <3>1. \A d \in Cores : \A l, j :
            At(t, d, l, j)' => At(t, d, l, j) /\ ~(d = c /\ l = "poll" /\ j = 0)
      BY <1>2, <1>4 DEF At, Pushed, HoldPCs, PollPCs
    <3> QED
      BY <1>2, <1>3, <1>4, <2>1, <3>1, LeaveStep DEF PlaceSound
  <2> QED
    BY <1>2, <1>7, <2>1, OneTaskStep DEF Once
<1>11. ~raced' => ThievesSound'
  BY <1>2, <1>4, ThievesStay
<1> QED
  BY <1>2, <1>5, <1>6, <1>9, <1>10, <1>11 DEF ExecInv

\* The quantum is used up: a Running task is about to be pushed, any other one
\* is nowhere.
LEMMA ExpireStep ==
  ASSUME ExecInv, NEW c \in Cores, Expire(c)
  PROVE  ExecInv'
<1>1. PICK t \in Tasks : t = cur[c]
  BY CurrentTask DEF Expire
<1>2. /\ TypeOK /\ CoresSound /\ PollsSound /\ (~raced => ThievesSound /\ Once)
      /\ pc[c] = "expired" /\ PollSound(t)
      /\ UNCHANGED <<quantum_remaining, decay_counter, effective_priority, left,
                     spawned, run_queue, worker, behind, cap, victim, view, loot,
                     raced, cur, parked>>
      /\ \/ /\ state[t] = "Running" /\ state' = [state EXCEPT ![t] = "Ready"]
            /\ pc' = [pc EXCEPT ![c] = "requeue"] /\ current_core' = current_core
         \/ /\ state[t] # "Running" /\ state' = state
            /\ pc' = [pc EXCEPT ![c] = "decay"]
            /\ current_core' = [current_core EXCEPT ![t] = NoCore]
  BY <1>1 DEF ExecInv, PollsSound, Expire, MarkReady, Set, Goto, queues, deque, theft
<1>3. At(t, c, "poll", 0) /\ Polled(t, c)
  BY <1>1, <1>2 DEF At, Polled, HoldPCs, PollPCs
<1>4. /\ \/ pc'[c] = "requeue" /\ state'[t] = "Ready" /\ state[t] = "Running"
         \/ pc'[c] = "decay" /\ state'[t] = state[t] /\ state[t] # "Running"
      /\ \A d \in Cores : d # c => pc'[d] = pc[d]
      /\ \A u \in Tasks : u # t => state'[u] = state[u]
  BY <1>2 DEF TypeOK
<1>5. TypeOK'
  BY <1>2 DEF TypeOK
<1>6. CoresSound'
  BY <1>1, <1>2, <1>4 DEF CoresSound, CoreSound, HoldPCs, PollPCs
<1>7. \A u \in Tasks : u # t =>
        /\ Stays(u) /\ SameState(u)
        /\ \A d \in Cores : Polled(u, d)' <=> Polled(u, d)
  BY <1>1, <1>2, <1>4 DEF Stays, SameState, At, Pushed, Polled, HoldPCs, PollPCs
<1>8. PollSound(t)'
  <2>1. \A d \in Cores : Polled(t, d)' <=> Polled(t, d) /\ d # c
    BY <1>2, <1>4 DEF Polled, PollPCs
  <2> QED
    BY <1>2, <1>3, <1>4, <2>1 DEF PollSound
<1>9. PollsSound'
  BY <1>2, <1>7, <1>8, OnePollStep
<1>10. ~raced' => Once'
  <2>1. ASSUME PlaceSound(t), state[t] = "Running" PROVE PlaceSound(t)'
    <3>1. Stays(t)
      BY <1>2, <1>4, <2>1 DEF Stays, At, Pushed, HoldPCs, PollPCs
    <3>2. Placed(t)
      BY <1>3 DEF Placed
    <3> QED
      BY <1>2, <2>1, <3>1, <3>2, StaysStep DEF PlaceSound
  <2>2. ASSUME PlaceSound(t), state[t] # "Running" PROVE PlaceSound(t)'
    <3>1. \A d \in Cores : \A l, j :
            At(t, d, l, j)' => At(t, d, l, j) /\ ~(d = c /\ l = "poll" /\ j = 0)
      BY <1>2, <1>4, <2>2 DEF At, Pushed, HoldPCs, PollPCs
    <3>2. t \in parked'
      BY <1>2, <1>3, <2>2 DEF PollSound
    <3> QED
      BY <1>3, <2>2, <3>1, <3>2, LeaveStep DEF PlaceSound
  <2> QED
    BY <1>2, <1>7, <2>1, <2>2, OneTaskStep DEF Once
<1>11. ~raced' => ThievesSound'
  BY <1>2, <1>4, ThievesStay
<1> QED
  BY <1>2, <1>5, <1>6, <1>9, <1>10, <1>11 DEF ExecInv

-----------------------------------------------------------------------------
(* Queues and deques *)

LEMMA EnqueueStep ==
  ASSUME ExecInv, NEW c \in Cores, NEW t \in Tasks, EnqueueTask(c, t)
  PROVE  ExecInv'
<1>1. /\ t \notin spawned /\ state[t] = "Ready"
      /\ spawned' = spawned \cup {t}
      /\ run_queue' = [run_queue EXCEPT ![c] = @ \cup {t}]
      /\ pc' = IF pc[c] = "halted" THEN [pc EXCEPT ![c] = "drain"] ELSE pc
      /\ UNCHANGED <<state, current_core, quantum_remaining, decay_counter,
                     effective_priority, left, worker, behind, cap, victim,
                     view, loot, raced, cur, parked>>
  BY DEF EnqueueTask, Set, tcb, deque, theft
<1>2. /\ TypeOK /\ CoresSound /\ PollsSound /\ (~raced => ThievesSound /\ Once)
      /\ PollSound(t)
  BY DEF ExecInv, PollsSound
<1>3. \A d \in Cores : pc'[d] = pc[d] \/ (pc[d] = "halted" /\ pc'[d] = "drain")
  BY <1>1, <1>2 DEF TypeOK
<1>4. TypeOK'
  BY <1>1, <1>2 DEF TypeOK
<1>5. CoresSound'
  BY <1>1, <1>2, <1>3 DEF CoresSound, CoreSound, HoldPCs, PollPCs
<1>6. \A u \in Tasks :
        /\ u # t => Stays(u) /\ SameState(u)
        /\ \A d \in Cores : Polled(u, d)' <=> Polled(u, d)
        /\ \A d \in Cores : \A k, i : At(u, d, k, i)' <=>
             At(u, d, k, i) \/ (u = t /\ d = c /\ k = "queue" /\ i = 0)
  <2>1. \A u \in Tasks, d \in Cores : u \in run_queue'[d] <=> u \in run_queue[d] \/ (u = t /\ d = c)
    BY <1>1, <1>2 DEF TypeOK
  <2>2. \A u \in Tasks : u # t => SameState(u)
    BY <1>1 DEF SameState
  <2>3. \A u \in Tasks, d \in Cores : Polled(u, d)' <=> Polled(u, d)
    BY <1>1, <1>3 DEF Polled, PollPCs
  <2>4. \A u \in Tasks, d \in Cores : \A k, i : At(u, d, k, i)' <=>
          At(u, d, k, i) \/ (u = t /\ d = c /\ k = "queue" /\ i = 0)
    BY <1>1, <1>3, <2>1 DEF At, Pushed, HoldPCs, PollPCs
  <2> QED
    BY <2>2, <2>3, <2>4 DEF Stays
<1>7. PollSound(t)'
  BY <1>1, <1>2, <1>6 DEF PollSound
<1>8. PollsSound'
  BY <1>2, <1>6, <1>7, OnePollStep
<1>9. ~raced' => Once'
  <2>1. ASSUME PlaceSound(t) PROVE PlaceSound(t)'
    <3>1. ~Placed(t)
      BY <1>1, <2>1 DEF PlaceSound
    <3>2. Placed(t)' /\ Alone(t)'
      BY <1>6, <3>1 DEF Placed, Alone
    <3> QED
      BY <1>1, <3>2 DEF PlaceSound
  <2> QED
    BY <1>1, <1>2, <1>6, <2>1, OneTaskStep DEF Once
<1>10. ~raced' => ThievesSound'
  BY <1>1, <1>2, <1>3, ThievesStay
<1> QED
  BY <1>1, <1>2, <1>4, <1>5, <1>8, <1>9, <1>10 DEF ExecInv

\* What push() does to a deque, and what it does unless a thief is robbed of its
\* buffer or bottom is behind top.
LEMMA PushTypes ==
  ASSUME TypeOK, NEW c \in Cores, NEW t \in Tasks, Push(c, t)
  PROVE  /\ worker' \in [Cores -> Seq(Tasks)] /\ behind' \in [Cores -> Nat]
         /\ cap' \in [Cores -> Nat \ {0}] /\ view' \in [Cores -> {"fresh", "torn", "stale"}]
         /\ raced' \in BOOLEAN /\ (raced => raced')
<1>1. /\ worker' \in [Cores -> Seq(Tasks)] /\ behind' \in [Cores -> Nat]
  <2>1. CASE behind[c] > 0
    <3>1. behind[c] - 1 \in Nat
      BY <2>1 DEF TypeOK
    <3>2. behind' = [behind EXCEPT ![c] = behind[c] - 1] /\ worker' = worker
      BY <2>1 DEF Push
    <3> QED
      BY <3>1, <3>2 DEF TypeOK
  <2>2. CASE ~(behind[c] > 0)
    <3>1. Append(worker[c], t) \in Seq(Tasks)
      BY DEF TypeOK
    <3>2. worker' = [worker EXCEPT ![c] = Append(worker[c], t)] /\ behind' = behind
      BY <2>2 DEF Push
    <3> QED
      BY <3>1, <3>2 DEF TypeOK
  <2> QED
    BY <2>1, <2>2
<1>2. /\ cap' \in [Cores -> Nat \ {0}] /\ view' \in [Cores -> {"fresh", "torn", "stale"}]
  <2>1. CASE Len(worker[c]) >= cap[c]
    <3>1. 2 * cap[c] \in Nat \ {0}
      BY DEF TypeOK
    <3>2. /\ cap' = [cap EXCEPT ![c] = 2 * cap[c]]
          /\ view' = [d \in Cores |-> IF Robs(d, c) THEN "torn" ELSE view[d]]
      BY <2>1 DEF Push
    <3> QED
      BY <3>1, <3>2 DEF TypeOK
  <2>2. CASE ~(Len(worker[c]) >= cap[c])
    BY <2>2 DEF Push, TypeOK
  <2> QED
    BY <2>1, <2>2
<1>3. raced' \in BOOLEAN /\ (raced => raced')
  BY DEF Push, TypeOK
<1> QED
  BY <1>1, <1>2, <1>3

LEMMA PushSafe ==
  ASSUME TypeOK, ThievesSound, NEW c \in Cores, NEW t \in Tasks, Push(c, t), ~raced'
  PROVE  /\ worker' = [worker EXCEPT ![c] = Append(worker[c], t)]
         /\ behind' = behind /\ \A d \in Cores : view'[d] = view[d]
<1>1. behind[c] = 0
  BY DEF ThievesSound, ThiefSound
<1>2. /\ worker' = [worker EXCEPT ![c] = Append(worker[c], t)]
      /\ behind' = behind
  BY <1>1 DEF Push
<1>3. \A d \in Cores : view'[d] = view[d]
  BY DEF Push
<1> QED
  BY <1>2, <1>3

\* A batch that can be had stays the oldest part of a deque that grows.
LEMMA AppendThieves ==
  ASSUME TypeOK, CoresSound, ThievesSound, NEW c \in Cores, NEW t \in Tasks,
         worker' = [worker EXCEPT ![c] = Append(worker[c], t)],
         behind' = behind, victim' = victim, \A d \in Cores : view'[d] = view[d],
         \A d \in Cores : pc'[d] = "cas" => pc[d] = "cas" /\ loot'[d] = loot[d]
  PROVE  ThievesSound'
<1> SUFFICES ASSUME NEW d \in Cores PROVE ThiefSound(d)'
  BY DEF ThievesSound
<1>1. ThiefSound(d) /\ behind'[d] = 0 /\ view'[d] # "torn"
  BY DEF ThievesSound, ThiefSound
<1>2. ASSUME pc'[d] = "cas", view'[d] = "fresh"
      PROVE  /\ Len(loot'[d]) <= Len(worker'[victim'[d]])
             /\ \A i \in 1 .. Len(loot'[d]) : loot'[d][i] = worker'[victim'[d]][i]
  <2> DEFINE v == victim[d]
  <2>1. /\ v \in Cores /\ worker[v] \in Seq(Tasks) /\ Len(loot[d]) \in Nat
        /\ loot'[d] = loot[d] /\ victim'[d] = v
        /\ Len(loot[d]) <= Len(worker[v])
        /\ \A i \in 1 .. Len(loot[d]) : loot[d][i] = worker[v][i]
    <3>1. pc[d] = "cas" /\ loot'[d] = loot[d] /\ victim'[d] = v /\ view[d] = "fresh"
      BY <1>2
    <3>2. v \in Cores
      BY <3>1 DEF CoresSound, CoreSound
    <3>3. worker[v] \in Seq(Tasks) /\ Len(loot[d]) \in Nat
      BY <3>2 DEF TypeOK
    <3> QED
      BY <1>1, <3>1, <3>2, <3>3 DEF ThiefSound
  <2>2. worker'[v] = IF v = c THEN Append(worker[v], t) ELSE worker[v]
    BY <2>1 DEF TypeOK
  <2>3. /\ Len(worker[v]) <= Len(worker'[v])
        /\ \A i \in 1 .. Len(worker[v]) : worker'[v][i] = worker[v][i]
    BY <2>1, <2>2
  <2> HIDE DEF v
  <2>4. Len(worker[v]) \in Nat /\ Len(worker'[v]) \in Nat
    BY <2>1, <2>2
  <2> QED
    BY <2>1, <2>3, <2>4
<1> QED
  BY <1>1, <1>2 DEF ThiefSound

\* Only the pushed task is in the new place.
LEMMA AppendPlaces ==
  ASSUME TypeOK, NEW c \in Cores, NEW t \in Tasks,
         worker' = [worker EXCEPT ![c] = Append(worker[c], t)],
         NEW u \in Tasks, NEW d \in Cores, NEW i
  PROVE  Pushed(u, d, i)' <=> Pushed(u, d, i) \/ (u = t /\ d = c /\ i = Len(worker[c]) + 1)
<1>1. worker[c] \in Seq(Tasks) /\ Len(worker[c]) \in Nat
  BY DEF TypeOK
<1>2. /\ worker'[c] = Append(worker[c], t)
      /\ \A e \in Cores : e # c => worker'[e] = worker[e]
  BY DEF TypeOK
<1>3. /\ DOMAIN worker[c] = 1 .. Len(worker[c])
      /\ DOMAIN worker'[c] = 1 .. Len(worker[c]) + 1
      /\ worker'[c][Len(worker[c]) + 1] = t
      /\ \A j \in 1 .. Len(worker[c]) : worker'[c][j] = worker[c][j]
  BY <1>1, <1>2
<1> QED
  BY <1>1, <1>2, <1>3 DEF Pushed

LEMMA DrainStep ==
  ASSUME ExecInv, NEW c \in Cores, NEW t \in Tasks, Drain(c, t)
  PROVE  ExecInv'
<1>0. PICK n : n = Len(worker[c]) + 1
  OBVIOUS
<1>1. /\ pc[c] = "drain" /\ t \in run_queue[c]
      /\ run_queue' = [run_queue EXCEPT ![c] = @ \ {t}]
      /\ Push(c, t)
      /\ UNCHANGED <<state, current_core, quantum_remaining, decay_counter,
                     effective_priority, left, spawned, victim, loot, pc, cur, parked>>
  BY DEF Drain, tcb
<1>2. TypeOK /\ CoresSound /\ PollsSound /\ (~raced => ThievesSound /\ Once)
  BY DEF ExecInv
<1>3. TypeOK' /\ (raced => raced')
  BY <1>1, <1>2, PushTypes DEF TypeOK
<1>4. CoresSound'
  BY <1>1, <1>2 DEF CoresSound, CoreSound
<1>5. \A u \in Tasks : SameState(u) /\ \A d \in Cores : Polled(u, d)' <=> Polled(u, d)
  BY <1>1 DEF SameState, Polled
<1>6. PollsSound'
  BY <1>2, <1>5, PollStays DEF PollsSound
<1>7. ASSUME ~raced' PROVE ThievesSound' /\ Once'
  <2>1. /\ ThievesSound /\ Once
        /\ worker' = [worker EXCEPT ![c] = Append(worker[c], t)]
        /\ behind' = behind /\ \A d \in Cores : view'[d] = view[d]
    BY <1>1, <1>2, <1>3, <1>7, PushSafe
  <2>2. ThievesSound'
    BY <1>1, <1>2, <2>1, AppendThieves
  <2>3. \A u \in Tasks, d \in Cores : u \in run_queue'[d] <=> u \in run_queue[d] /\ ~(u = t /\ d = c)
    BY <1>1, <1>2 DEF TypeOK
  <2>4. \A u \in Tasks, d \in Cores : \A k, i : At(u, d, k, i)' <=>
          \/ At(u, d, k, i) /\ ~(u = t /\ d = c /\ k = "queue" /\ i = 0)
          \/ u = t /\ d = c /\ k = "deque" /\ i = n
    <3>1. \A u \in Tasks, d \in Cores : \A i :
            Pushed(u, d, i)' <=> Pushed(u, d, i) \/ (u = t /\ d = c /\ i = n)
      BY <1>0, <1>2, <2>1, AppendPlaces
    <3> QED
      BY <1>1, <2>3, <3>1 DEF At
  <2>5. At(t, c, "queue", 0) /\ At(t, c, "deque", n)'
    <3>1. At(t, c, "queue", 0)
      BY <1>1 DEF At
    <3> QED
      BY <2>4, <3>1
  <2>6. PlaceSound(t)'
    <3>1. PlaceSound(t)
      BY <2>1 DEF Once
    <3> QED
      BY <1>1, <2>4, <2>5, <3>1, MoveStep
  <2>7. \A u \in Tasks : u # t => Stays(u)
    BY <2>4 DEF Stays
  <2> QED
    BY <1>5, <2>1, <2>2, <2>6, <2>7, OneTaskStep
<1> QED
  BY <1>3, <1>4, <1>6, <1>7 DEF ExecInv

LEMMA RequeueStep ==
  ASSUME ExecInv, NEW c \in Cores, Requeue(c)
  PROVE  ExecInv'
<1>0. PICK n : n = Len(worker[c]) + 1
  OBVIOUS
<1>1. PICK t \in Tasks : t = cur[c]
  BY CurrentTask DEF Requeue
<1>2. /\ pc[c] = "requeue" /\ pc' = [pc EXCEPT ![c] = "decay"]
      /\ current_core' = [current_core EXCEPT ![t] = NoCore]
      /\ Push(c, t)
      /\ UNCHANGED <<state, quantum_remaining, decay_counter, effective_priority,
                     left, spawned, run_queue, victim, loot, cur, parked>>
  BY <1>1 DEF Requeue, Set, Goto
<1>3. TypeOK /\ CoresSound /\ PollsSound /\ (~raced => ThievesSound /\ Once)
  BY DEF ExecInv
<1>4. pc'[c] = "decay" /\ \A d \in Cores : d # c => pc'[d] = pc[d]
  BY <1>2, <1>3 DEF TypeOK
<1>5. TypeOK' /\ (raced => raced')
  BY <1>2, <1>3, PushTypes DEF TypeOK
<1>6. CoresSound'
  BY <1>1, <1>2, <1>3, <1>4 DEF CoresSound, CoreSound, HoldPCs, PollPCs
<1>7. \A u \in Tasks : SameState(u) /\ \A d \in Cores : Polled(u, d)' <=> Polled(u, d)
  BY <1>2, <1>4 DEF SameState, Polled, PollPCs
<1>8. PollsSound'
  BY <1>3, <1>7, PollStays DEF PollsSound
<1>9. ASSUME ~raced' PROVE ThievesSound' /\ Once'
  <2>1. /\ ThievesSound /\ Once
        /\ worker' = [worker EXCEPT ![c] = Append(worker[c], t)]
        /\ behind' = behind /\ \A d \in Cores : view'[d] = view[d]
    BY <1>2, <1>3, <1>5, <1>9, PushSafe
  <2>2. ThievesSound'
    BY <1>2, <1>3, <1>4, <2>1, AppendThieves
  <2>3. \A u \in Tasks, d \in Cores : \A k, i : At(u, d, k, i)' <=>
          \/ At(u, d, k, i) /\ ~(u = t /\ d = c /\ k = "poll" /\ i = 0)
          \/ u = t /\ d = c /\ k = "deque" /\ i = n
    <3>1. \A u \in Tasks, d \in Cores : \A i :
            Pushed(u, d, i)' <=> Pushed(u, d, i) \/ (u = t /\ d = c /\ i = n)
      BY <1>0, <1>3, <2>1, AppendPlaces
    <3>2. \A u \in Tasks, d \in Cores :
            cur'[d] = u /\ pc'[d] \in HoldPCs <=>
              cur[d] = u /\ pc[d] \in HoldPCs /\ ~(u = t /\ d = c)
      BY <1>1, <1>2, <1>4 DEF HoldPCs, PollPCs
    <3>3. \A d \in Cores : pc'[d] = "loot" <=> pc[d] = "loot"
      BY <1>2, <1>4
    <3> QED
      BY <1>2, <3>1, <3>2, <3>3 DEF At
  <2>4. At(t, c, "poll", 0) /\ At(t, c, "deque", n)'
    <3>1. At(t, c, "poll", 0)
      BY <1>1, <1>2 DEF At, HoldPCs
    <3> QED
      BY <2>3, <3>1
  <2>5. PlaceSound(t)'
    <3>1. PlaceSound(t)
      BY <2>1 DEF Once
    <3> QED
      BY <1>2, <2>3, <2>4, <3>1, MoveStep
  <2>6. \A u \in Tasks : u # t => Stays(u)
    BY <2>3 DEF Stays
  <2> QED
    BY <1>7, <2>1, <2>2, <2>5, <2>6, OneTaskStep
<1> QED
  BY <1>5, <1>6, <1>8, <1>9 DEF ExecInv

LEMMA PopStep ==
  ASSUME ExecInv, NEW c \in Cores, Pop(c)
  PROVE  ExecInv'
<1>1. TypeOK /\ CoresSound /\ PollsSound /\ (~raced => ThievesSound /\ Once)
  BY DEF ExecInv
<1>2. PICK n \in Nat \ {0} :
        n = Len(worker[c]) /\ worker[c] \in Seq(Tasks) /\ worker[c][n] \in Tasks
  <2>1. worker[c] \in Seq(Tasks) /\ worker[c] # <<>>
    BY <1>1 DEF Pop, TypeOK
  <2> QED
    BY <2>1
<1>3. PICK t \in Tasks : t = worker[c][n]
  BY <1>2
<1>4. PICK s \in Seq(Tasks) :
        /\ worker' = [worker EXCEPT ![c] = s]
        /\ Len(s) = n - 1 /\ \A i \in 1 .. n - 1 : s[i] = worker[c][i]
  <2>1. \A i \in 1 .. n - 1 : worker[c][i] \in Tasks
    BY <1>2
  <2>2. /\ SubSeq(worker[c], 1, n - 1) \in Seq(Tasks)
        /\ Len(SubSeq(worker[c], 1, n - 1)) = n - 1
        /\ \A i \in 1 .. n - 1 : SubSeq(worker[c], 1, n - 1)[i] = worker[c][i]
    BY <1>2, <2>1, SubSeqProperties
  <2>3. worker' = [worker EXCEPT ![c] = SubSeq(worker[c], 1, n - 1)]
    BY <1>2 DEF Pop, Set, Front
  <2> QED
    BY <2>2, <2>3
<1>5. /\ pc[c] = "pop" /\ pc' = [pc EXCEPT ![c] = "claim"]
      /\ cur' = [cur EXCEPT ![c] = t]
      /\ \/ n = 1 /\ view' = [d \in Cores |-> IF victim[d] = c THEN "stale" ELSE view[d]]
            /\ raced' = raced
         \/ /\ raced' = (raced \/ \E d \in Cores : Robs(d, c) /\ Len(loot[d]) >= n)
            /\ view' = view
      /\ UNCHANGED <<state, current_core, quantum_remaining, decay_counter,
                     effective_priority, left, spawned, run_queue, behind, cap,
                     victim, loot, parked>>
  BY <1>2, <1>3 DEF Pop, Set, Goto, Last, TopMoves, tcb
<1>6. /\ pc'[c] = "claim" /\ cur'[c] = t /\ worker'[c] = s
      /\ \A d \in Cores : d # c => /\ pc'[d] = pc[d] /\ cur'[d] = cur[d]
                                   /\ worker'[d] = worker[d]
  BY <1>1, <1>4, <1>5 DEF TypeOK
<1>7. TypeOK' /\ (raced => raced')
  <2>1. worker' \in [Cores -> Seq(Tasks)]
    BY <1>1, <1>4 DEF TypeOK
  <2>2. /\ view' \in [Cores -> {"fresh", "torn", "stale"}]
        /\ raced' \in BOOLEAN /\ (raced => raced')
    BY <1>1, <1>5 DEF TypeOK
  <2> QED
    BY <1>1, <1>5, <2>1, <2>2 DEF TypeOK
<1>8. CoresSound'
  BY <1>1, <1>5, <1>6 DEF CoresSound, CoreSound, HoldPCs, PollPCs
<1>9. \A u \in Tasks : SameState(u) /\ \A d \in Cores : Polled(u, d)' <=> Polled(u, d)
  BY <1>5, <1>6 DEF SameState, Polled, PollPCs
<1>10. PollsSound'
  BY <1>1, <1>9, PollStays DEF PollsSound
<1>11. \A u \in Tasks, d \in Cores : \A i :
         Pushed(u, d, i)' <=> Pushed(u, d, i) /\ ~(d = c /\ i = n)
  <2>1. \A u \in Tasks : \A i : Pushed(u, c, i)' <=> Pushed(u, c, i) /\ i # n
    <3>1. DOMAIN worker[c] = 1 .. n /\ DOMAIN s = 1 .. n - 1
      BY <1>2, <1>4
    <3>2. \A i : i \in 1 .. n - 1 <=> i \in 1 .. n /\ i # n
      BY <1>2
    <3> QED
      BY <1>4, <1>6, <3>1, <3>2 DEF Pushed
  <2> QED
    BY <1>6, <2>1 DEF Pushed
<1>12. \A u \in Tasks : Pushed(u, c, n) <=> u = t
  <2>1. n \in DOMAIN worker[c]
    BY <1>2
  <2> QED
    BY <1>3, <2>1 DEF Pushed
<1>13. \A u \in Tasks, d \in Cores : \A k, i : At(u, d, k, i)' <=>
         \/ At(u, d, k, i) /\ ~(u = t /\ d = c /\ k = "deque" /\ i = n)
         \/ u = t /\ d = c /\ k = "poll" /\ i = 0
  <2>1. \A u \in Tasks, d \in Cores :
          cur'[d] = u /\ pc'[d] \in HoldPCs <=>
            (cur[d] = u /\ pc[d] \in HoldPCs) \/ (u = t /\ d = c)
    BY <1>5, <1>6 DEF HoldPCs, PollPCs
  <2>2. \A d \in Cores : pc'[d] = "loot" <=> pc[d] = "loot"
    BY <1>5, <1>6
  <2> QED
    BY <1>5, <1>11, <1>12, <2>1, <2>2 DEF At
<1>14. ~raced' => Once'
  <2>1. At(t, c, "deque", n) /\ At(t, c, "poll", 0)'
    <3>1. At(t, c, "deque", n)
      BY <1>12 DEF At
    <3> QED
      BY <1>13, <3>1
  <2>2. ASSUME PlaceSound(t) PROVE PlaceSound(t)'
    BY <1>5, <1>13, <2>1, <2>2, MoveStep
  <2>3. \A u \in Tasks : u # t => Stays(u)
    BY <1>13 DEF Stays
  <2> QED
    BY <1>1, <1>7, <1>9, <2>2, <2>3, OneTaskStep DEF Once
<1>15. ASSUME ~raced' PROVE ThievesSound'
  <2> SUFFICES ASSUME NEW d \in Cores PROVE ThiefSound(d)'
    BY DEF ThievesSound
  <2>1. ThiefSound(d)
    BY <1>1, <1>7, <1>15 DEF ThievesSound
  <2>2. behind'[d] = 0 /\ view'[d] # "torn" /\ (view'[d] = "fresh" => view[d] = "fresh")
    BY <1>5, <2>1 DEF ThiefSound
  <2>3. ASSUME pc'[d] = "cas", view'[d] = "fresh"
        PROVE  /\ Len(loot'[d]) <= Len(worker'[victim'[d]])
               /\ \A i \in 1 .. Len(loot'[d]) : loot'[d][i] = worker'[victim'[d]][i]
    <3>1. /\ pc[d] = "cas" /\ view[d] = "fresh" /\ victim[d] \in Cores
          /\ loot' = loot /\ victim' = victim /\ Len(loot[d]) \in Nat
      BY <1>1, <1>5, <1>6, <2>2, <2>3 DEF CoresSound, CoreSound, TypeOK
    <3>2. CASE victim[d] # c
      BY <1>6, <2>1, <3>1, <3>2 DEF ThiefSound
    <3>3. CASE victim[d] = c
      <4>1. Len(loot[d]) < n
        <5>1. ~(Len(loot[d]) >= n)
          BY <1>5, <1>15, <2>3, <3>1, <3>3 DEF Robs
        <5> QED
          BY <1>2, <3>1, <5>1
      <4>2. \A i \in 1 .. Len(loot[d]) : loot[d][i] = worker[c][i]
        BY <2>1, <3>1, <3>3 DEF ThiefSound
      <4>3. \A i \in 1 .. Len(loot[d]) : i \in 1 .. n - 1
        BY <1>2, <3>1, <4>1
      <4> QED
        BY <1>2, <1>4, <1>6, <3>1, <3>3, <4>1, <4>2, <4>3
    <3> QED
      BY <3>2, <3>3
  <2> QED
    BY <2>2, <2>3 DEF ThiefSound
<1> QED
  BY <1>7, <1>8, <1>10, <1>14, <1>15 DEF ExecInv

-----------------------------------------------------------------------------
(* A steal moves the oldest tasks of one deque to the end of another *)

\* Places may be renamed.
LEMMA RenameStep ==
  ASSUME Once, \A u \in Tasks : SameState(u) /\ Alone(u)' /\ (Placed(u)' <=> Placed(u))
  PROVE  Once'
BY DEF Once, PlaceSound, SameState

\* A compare-exchange that succeeds moves top, whatever the batch holds.
LEMMA StealCasTypes ==
  ASSUME ExecInv, NEW c \in Cores, StealCas(c)
  PROVE  TypeOK' /\ CoresSound' /\ PollsSound' /\ \A u \in Tasks : SameState(u)
<1> DEFINE v == victim[c]
           n == Len(loot[c])
<1>1. /\ pc[c] = "cas"
      /\ worker' = [worker EXCEPT ![v] = SubSeq(worker[v], n + 1, Len(worker[v]))]
      /\ behind' = [behind EXCEPT ![v] =
                      IF n > Len(worker[v]) THEN behind[v] + n - Len(worker[v])
                                            ELSE behind[v]]
      /\ view' = [d \in Cores |-> IF victim[d] = v THEN "stale" ELSE view[d]]
      /\ victim' = [victim EXCEPT ![c] = NoCore]
      /\ pc' = [pc EXCEPT ![c] = "loot"]
      /\ UNCHANGED <<state, current_core, quantum_remaining, decay_counter,
                     effective_priority, left, spawned, run_queue, cap, loot,
                     raced, cur, parked>>
  BY DEF StealCas, TopMoves, Set, Goto, tcb
<1>2. TypeOK /\ CoresSound /\ PollsSound
  BY DEF ExecInv
<1>3. /\ v \in Cores /\ n \in Nat /\ worker[v] \in Seq(Tasks)
      /\ Len(worker[v]) \in Nat /\ behind[v] \in Nat
  <2>1. v \in Cores /\ loot[c] \in Seq(Tasks \cup {NoTask})
    BY <1>1, <1>2 DEF CoresSound, CoreSound, TypeOK
  <2> QED
    BY <1>2, <2>1 DEF TypeOK
<1> HIDE DEF v, n
<1>4. worker' \in [Cores -> Seq(Tasks)]
  <2>1. \A i \in n + 1 .. Len(worker[v]) : worker[v][i] \in Tasks
    BY <1>3
  <2>2. SubSeq(worker[v], n + 1, Len(worker[v])) \in Seq(Tasks)
    BY <1>3, <2>1, SubSeqProperties
  <2> QED
    BY <1>1, <1>2, <2>2 DEF TypeOK
<1>5. behind' \in [Cores -> Nat]
  <2> DEFINE b == IF n > Len(worker[v]) THEN behind[v] + n - Len(worker[v]) ELSE behind[v]
  <2>1. b \in Nat
    BY <1>3
  <2>2. behind' = [behind EXCEPT ![v] = b] /\ behind \in [Cores -> Nat]
    BY <1>1, <1>2 DEF TypeOK
  <2> HIDE DEF b
  <2> QED
    BY <2>1, <2>2
<1>6. view' \in [Cores -> {"fresh", "torn", "stale"}]
  BY <1>1, <1>2 DEF TypeOK
<1>7. TypeOK'
  BY <1>1, <1>2, <1>4, <1>5, <1>6 DEF TypeOK
<1>8. pc'[c] = "loot" /\ \A d \in Cores : d # c => pc'[d] = pc[d] /\ victim'[d] = victim[d]
  BY <1>1, <1>2 DEF TypeOK
<1>9. CoresSound'
  BY <1>1, <1>2, <1>8 DEF CoresSound, CoreSound, HoldPCs, PollPCs
<1>10. \A u \in Tasks : SameState(u) /\ \A d \in Cores : Polled(u, d)' <=> Polled(u, d)
  BY <1>1, <1>8 DEF SameState, Polled, PollPCs
<1>11. PollsSound'
  BY <1>2, <1>10, PollStays DEF PollsSound
<1> QED
  BY <1>7, <1>9, <1>10, <1>11

LEMMA StealCasStep ==
  ASSUME ExecInv, NEW c \in Cores, StealCas(c)
  PROVE  ExecInv'
<1>1. /\ TypeOK /\ CoresSound /\ PollsSound /\ (~raced => ThievesSound /\ Once)
      /\ TypeOK' /\ CoresSound' /\ PollsSound' /\ \A u \in Tasks : SameState(u)
  BY StealCasTypes DEF ExecInv
<1>2. pc[c] = "cas" /\ view[c] # "stale" /\ raced' = raced
  BY DEF StealCas
<1> SUFFICES ASSUME ~raced, ThievesSound, Once PROVE ThievesSound' /\ Once'
  BY <1>1, <1>2 DEF ExecInv
<1>3. PICK v \in Cores : v = victim[c] /\ v # c
  BY <1>1, <1>2 DEF CoresSound, CoreSound
<1>4. PICK W \in Seq(Tasks) : W = worker[v]
  BY <1>1 DEF TypeOK
<1>5. PICK n \in Nat : n = Len(loot[c]) /\ n <= Len(W) /\ \A i \in 1 .. n : loot[c][i] = W[i]
  <2>1. view[c] = "fresh" /\ Len(loot[c]) \in Nat
    BY <1>1, <1>2 DEF TypeOK, ThievesSound, ThiefSound
  <2> QED
    BY <1>2, <1>3, <1>4, <2>1 DEF ThievesSound, ThiefSound
<1>6. PICK s \in Seq(Tasks) :
        /\ worker' = [worker EXCEPT ![v] = s]
        /\ Len(s) = Len(W) - n /\ \A i \in 1 .. Len(W) - n : s[i] = W[n + i]
  <2>1. \A i \in n + 1 .. Len(W) : W[i] \in Tasks
    BY <1>4, <1>5
  <2>2. Len(W) \in Nat /\ n + 1 \in 1 .. Len(W) + 1
    BY <1>4, <1>5
  <2>3. /\ SubSeq(W, n + 1, Len(W)) \in Seq(Tasks)
        /\ Len(SubSeq(W, n + 1, Len(W))) = Len(W) - n
        /\ \A i \in 1 .. Len(W) - n : SubSeq(W, n + 1, Len(W))[i] = W[n + i]
    <3>1. PICK m \in Int : m = n + 1
      BY <1>5
    <3>2. PICK o \in Int : o = Len(W)
      BY <2>2
    <3>3. /\ SubSeq(W, m, o) \in Seq(Tasks)
          /\ Len(SubSeq(W, m, o)) = IF m <= o THEN o - m + 1 ELSE 0
          /\ \A i \in 1 .. o - m + 1 : SubSeq(W, m, o)[i] = W[m + i - 1]
      <4>1. \A i \in m .. o : W[i] \in Tasks
        BY <2>1, <3>1, <3>2
      <4> QED
        BY <4>1, SubSeqProperties
    <3>4. o - m + 1 = Len(W) - n /\ (m <= o <=> Len(W) - n > 0) /\ Len(W) - n >= 0
      BY <1>5, <2>2, <3>1, <3>2
    <3>5. \A i \in 1 .. Len(W) - n : m + i - 1 = n + i
      BY <1>5, <2>2, <3>1
    <3> QED
      BY <2>2, <3>1, <3>2, <3>3, <3>4, <3>5
  <2>4. worker' = [worker EXCEPT ![v] = SubSeq(W, n + 1, Len(W))]
    BY <1>3, <1>4, <1>5 DEF StealCas
  <2> QED
    BY <2>3, <2>4
<1>7. /\ behind' = behind
      /\ view' = [d \in Cores |-> IF victim[d] = v THEN "stale" ELSE view[d]]
      /\ victim' = [victim EXCEPT ![c] = NoCore] /\ pc' = [pc EXCEPT ![c] = "loot"]
      /\ UNCHANGED <<spawned, run_queue, loot, cur, parked>>
  <2>1. ~(Len(loot[c]) > Len(worker[v]))
    BY <1>4, <1>5
  <2>2. behind' = [behind EXCEPT ![v] = behind[v]]
    BY <1>3, <2>1 DEF StealCas
  <2> QED
    BY <1>1, <1>3, <2>2 DEF StealCas, TopMoves, Set, Goto, TypeOK
<1>8. /\ worker'[v] = s /\ pc'[c] = "loot"
      /\ \A d \in Cores : d # v => worker'[d] = worker[d]
      /\ \A d \in Cores : d # c => pc'[d] = pc[d] /\ victim'[d] = victim[d]
  BY <1>1, <1>6, <1>7 DEF TypeOK
<1>9. ThievesSound'
  BY <1>1, <1>2, <1>7, <1>8 DEF ThievesSound, ThiefSound, CoresSound, CoreSound
<1>10. \A u \in Tasks : \A i :
         /\ Pushed(u, v, i)' <=> i \in 1 .. Len(W) - n /\ W[n + i] = u
         /\ Pushed(u, v, i) <=> i \in 1 .. Len(W) /\ W[i] = u
  <2>1. DOMAIN s = 1 .. Len(s) /\ DOMAIN W = 1 .. Len(W)
    BY <1>4, <1>6
  <2> QED
    BY <1>4, <1>6, <1>8, <2>1, SMTT(30) DEF Pushed
<1>11. \A u \in Tasks, d \in Cores : \A i : d # v => (Pushed(u, d, i)' <=> Pushed(u, d, i))
  BY <1>8 DEF Pushed
<1>12. DOMAIN loot[c] = 1 .. n
  BY <1>1, <1>5 DEF TypeOK
<1>13. \A u \in Tasks, d \in Cores : \A k, i : At(u, d, k, i)' <=>
         IF d = v /\ k = "deque" THEN i \in 1 .. Len(W) - n /\ W[n + i] = u
         ELSE IF d = c /\ k = "loot" THEN i \in 1 .. n /\ W[i] = u
         ELSE At(u, d, k, i)
  <2>1. \A u \in Tasks, d \in Cores :
          cur'[d] = u /\ pc'[d] \in HoldPCs <=> cur[d] = u /\ pc[d] \in HoldPCs
    BY <1>2, <1>7, <1>8 DEF HoldPCs, PollPCs
  <2>2. \A d \in Cores : pc'[d] = "loot" <=> pc[d] = "loot" \/ d = c
    BY <1>8
  <2>3. \A u \in Tasks : \A i :
          i \in DOMAIN loot'[c] /\ loot'[c][i] = u <=> i \in 1 .. n /\ W[i] = u
    BY <1>5, <1>7, <1>12
  <2> SUFFICES ASSUME NEW u \in Tasks, NEW d \in Cores, NEW k, NEW i
               PROVE  At(u, d, k, i)' <=>
                        IF d = v /\ k = "deque" THEN i \in 1 .. Len(W) - n /\ W[n + i] = u
                        ELSE IF d = c /\ k = "loot" THEN i \in 1 .. n /\ W[i] = u
                        ELSE At(u, d, k, i)
    OBVIOUS
  <2>4. CASE k = "deque"
    BY <1>10, <1>11, <2>4 DEF At
  <2>5. CASE k = "loot"
    BY <1>7, <2>2, <2>3, <2>5 DEF At
  <2>6. CASE k \notin {"deque", "loot"}
    BY <1>7, <2>1, <2>6 DEF At
  <2> QED
    BY <2>4, <2>5, <2>6
<1>14. \A u \in Tasks, d \in Cores : \A k, i : At(u, d, k, i) =>
         IF d = v /\ k = "deque" THEN i \in 1 .. Len(W) /\ W[i] = u
         ELSE ~(d = c /\ k = "loot")
  BY <1>2, <1>10 DEF At
<1>15. \A u \in Tasks : \A i \in 1 .. Len(W) : W[i] = u => At(u, v, "deque", i)
  BY <1>10 DEF At
<1>16. \A i \in 1 .. Len(W) - n : n + i \in 1 .. Len(W) /\ n + i \notin 1 .. n
  BY <1>4, <1>5
<1>17. \A i \in 1 .. n : i \in 1 .. Len(W)
  BY <1>4, <1>5
<1>18. ASSUME NEW u \in Tasks PROVE Alone(u)'
  <2>1. Alone(u)
    BY DEF Once, PlaceSound
  <2>2. \A i, j \in 1 .. Len(W) : W[i] = u /\ W[j] = u => i = j
    BY <1>15, <2>1 DEF Alone
  <2>3. \A i \in 1 .. Len(W) : W[i] = u =>
          \A d \in Cores : \A k, j : At(u, d, k, j) => d = v /\ k = "deque"
    BY <1>15, <2>1 DEF Alone
  <2>4. \A i, j \in 1 .. Len(W) - n : n + i = n + j => i = j
    BY <1>4, <1>5
  <2> SUFFICES ASSUME NEW d \in Cores, NEW e \in Cores, NEW k, NEW l, NEW i, NEW j,
                      At(u, d, k, i)', At(u, e, l, j)'
               PROVE  d = e /\ k = l /\ i = j
    BY DEF Alone
  <2>5. \A f \in Cores : \A m, o : At(u, f, m, o)' =>
          \/ f = v /\ m = "deque" /\ o \in 1 .. Len(W) - n /\ W[n + o] = u
          \/ f = c /\ m = "loot" /\ o \in 1 .. n /\ W[o] = u
          \/ At(u, f, m, o) /\ ~(f = v /\ m = "deque")
    BY <1>13
  <2>6. CASE d = v /\ k = "deque" /\ i \in 1 .. Len(W) - n /\ W[n + i] = u
    <3>1. n + i \in 1 .. Len(W) /\ n + i \notin 1 .. n
      BY <1>16, <2>6
    <3>2. CASE e = v /\ l = "deque" /\ j \in 1 .. Len(W) - n /\ W[n + j] = u
      BY <1>16, <2>2, <2>4, <2>6, <3>1, <3>2
    <3>3. ~(e = c /\ l = "loot" /\ j \in 1 .. n /\ W[j] = u)
      BY <1>17, <2>2, <2>6, <3>1
    <3> QED
      BY <2>3, <2>5, <2>6, <3>1, <3>2, <3>3
  <2>7. CASE d = c /\ k = "loot" /\ i \in 1 .. n /\ W[i] = u
    <3>1. i \in 1 .. Len(W)
      BY <1>17, <2>7
    <3>2. CASE e = c /\ l = "loot" /\ j \in 1 .. n /\ W[j] = u
      BY <1>17, <2>2, <2>7, <3>1, <3>2
    <3>3. ~(e = v /\ l = "deque" /\ j \in 1 .. Len(W) - n /\ W[n + j] = u)
      BY <1>16, <2>2, <2>7, <3>1
    <3> QED
      BY <2>3, <2>5, <2>7, <3>1, <3>2, <3>3
  <2>8. CASE At(u, d, k, i) /\ ~(d = v /\ k = "deque")
    <3>1. At(u, e, l, j) /\ ~(e = v /\ l = "deque")
      BY <1>16, <1>17, <2>3, <2>5, <2>8
    <3> QED
      BY <2>1, <2>8, <3>1 DEF Alone
  <2> QED
    BY <2>5, <2>6, <2>7, <2>8
<1>19. ASSUME NEW u \in Tasks PROVE Placed(u)' <=> Placed(u)
  <2>1. ASSUME NEW d \in Cores, NEW k, NEW i, At(u, d, k, i) PROVE Placed(u)'
    <3>1. CASE d = v /\ k = "deque"
      <4>1. i \in 1 .. Len(W) /\ W[i] = u
        BY <1>14, <2>1, <3>1
      <4>2. CASE i <= n
        <5>1. At(u, c, "loot", i)'
          BY <1>3, <1>5, <1>13, <4>1, <4>2
        <5> QED
          BY <5>1 DEF Placed
      <4>3. CASE ~(i <= n)
        <5>1. i - n \in 1 .. Len(W) - n /\ n + (i - n) = i
          BY <1>4, <1>5, <4>1, <4>3
        <5>2. \E j : At(u, v, "deque", j)'
          BY <1>13, <4>1, <5>1
        <5> QED
          BY <5>2 DEF Placed
      <4> QED
        BY <4>2, <4>3
    <3>2. CASE ~(d = v /\ k = "deque")
      <4>1. At(u, d, k, i)'
        BY <1>13, <1>14, <2>1, <3>2
      <4> QED
        BY <4>1 DEF Placed
    <3> QED
      BY <3>1, <3>2
  <2>2. ASSUME NEW d \in Cores, NEW k, NEW i, At(u, d, k, i)' PROVE Placed(u)
    <3>1. At(u, d, k, i) \/ \E j \in 1 .. Len(W) : W[j] = u
      BY <1>13, <1>16, <1>17, <2>2
    <3> QED
      BY <1>15, <3>1 DEF Placed
  <2>3. Placed(u) => Placed(u)'
    BY <2>1 DEF Placed
  <2>4. Placed(u)' => Placed(u)
    BY <2>2 DEF Placed
  <2> QED
    BY <2>3, <2>4
<1> QED
  BY <1>1, <1>9, <1>18, <1>19, RenameStep

\* The thief pushes its batch from the front.
LEMMA StealPushStep ==
  ASSUME ExecInv, NEW c \in Cores, StealPush(c)
  PROVE  ExecInv'
<1>1. TypeOK /\ CoresSound /\ PollsSound /\ (~raced => ThievesSound /\ Once)
  BY DEF ExecInv
<1>2. PICK l \in Seq(Tasks \cup {NoTask}) : l = loot[c] /\ l # <<>>
  BY <1>1 DEF StealPush, TypeOK, CoresSound, CoreSound
<1>3. PICK L \in Nat \ {0} : L = Len(l) /\ L <= BatchMax /\ DOMAIN l = 1 .. L
  <2>1. Len(l) \in Nat \ {0} /\ Len(l) <= BatchMax
    BY <1>1, <1>2 DEF TypeOK
  <2> QED
    BY <1>2, <2>1
<1>4. PICK h \in Tasks \cup {NoTask} : h = Head(l) /\ h = l[1]
  BY <1>2
<1>5. PICK r \in Seq(Tasks \cup {NoTask}) :
        r = Tail(l) /\ DOMAIN r = 1 .. L - 1 /\ Len(r) = L - 1 /\ \A i \in 1 .. L - 1 : r[i] = l[i + 1]
  <2>1. /\ Tail(l) \in Seq(Tasks \cup {NoTask}) /\ Len(Tail(l)) = L - 1
        /\ \A i \in 1 .. L - 1 : Tail(l)[i] = l[i + 1]
    BY <1>2, <1>3, HeadTailProperties
  <2>2. DOMAIN Tail(l) = 1 .. L - 1
    BY <2>1
  <2> QED
    BY <2>1, <2>2
<1>6. /\ pc[c] = "loot" /\ loot' = [loot EXCEPT ![c] = r]
      /\ pc' = [pc EXCEPT ![c] = IF L = 1 THEN "drain" ELSE "loot"]
      /\ \/ h = NoTask /\ UNCHANGED <<worker, behind, cap, view, raced>>
         \/ h \in Tasks /\ Push(c, h)
      /\ UNCHANGED <<state, current_core, quantum_remaining, decay_counter,
                     effective_priority, left, spawned, run_queue, victim, cur, parked>>
  BY <1>2, <1>3, <1>4, <1>5 DEF StealPush, Set, Goto, deque, tcb
<1>7. /\ pc'[c] \in {"drain", "loot"} /\ (pc'[c] = "loot" <=> L # 1) /\ loot'[c] = r
      /\ \A d \in Cores : d # c => pc'[d] = pc[d] /\ loot'[d] = loot[d]
  BY <1>1, <1>6 DEF TypeOK
<1>8. TypeOK' /\ (raced => raced')
  <2>1. /\ loot' \in [Cores -> Seq(Tasks \cup {NoTask})]
        /\ \A d \in Cores : Len(loot'[d]) <= BatchMax
    <3>1. Len(r) <= BatchMax
      BY <1>3, <1>5, ExecutorAssumption
    <3> QED
      BY <1>1, <1>5, <1>6, <3>1 DEF TypeOK
  <2>2. /\ worker' \in [Cores -> Seq(Tasks)] /\ behind' \in [Cores -> Nat]
        /\ cap' \in [Cores -> Nat \ {0}] /\ view' \in [Cores -> {"fresh", "torn", "stale"}]
        /\ raced' \in BOOLEAN /\ (raced => raced')
    <3>1. CASE h = NoTask /\ UNCHANGED <<worker, behind, cap, view, raced>>
      BY <1>1, <3>1 DEF TypeOK
    <3>2. CASE h \in Tasks /\ Push(c, h)
      BY <1>1, <3>2, PushTypes
    <3> QED
      BY <1>6, <3>1, <3>2
  <2> QED
    BY <1>1, <1>6, <2>1, <2>2 DEF TypeOK
<1>9. CoresSound'
  <2>1. L # 1 => r # <<>>
    <3>1. Len(<<>>) = 0
      OBVIOUS
    <3>2. L # 1 => Len(r) # 0
      BY <1>3, <1>5
    <3> QED
      BY <3>1, <3>2
  <2> QED
    BY <1>1, <1>6, <1>7, <2>1 DEF CoresSound, CoreSound, HoldPCs, PollPCs
<1>10. \A u \in Tasks : SameState(u) /\ \A d \in Cores : Polled(u, d)' <=> Polled(u, d)
  BY <1>6, <1>7 DEF SameState, Polled, PollPCs
<1>11. PollsSound'
  BY <1>1, <1>10, PollStays DEF PollsSound
<1> SUFFICES ASSUME ~raced' PROVE ThievesSound' /\ Once'
  BY <1>8, <1>9, <1>11 DEF ExecInv
<1>12. ThievesSound /\ Once
  BY <1>1, <1>8
<1>13. /\ behind' = behind /\ \A d \in Cores : view'[d] = view[d]
       /\ \/ h = NoTask /\ worker' = worker
          \/ h \in Tasks /\ worker' = [worker EXCEPT ![c] = Append(worker[c], h)]
  <2>1. CASE h = NoTask /\ UNCHANGED <<worker, behind, cap, view, raced>>
    BY <2>1
  <2>2. CASE h \in Tasks /\ Push(c, h)
    BY <1>1, <1>12, <2>2, PushSafe
  <2> QED
    BY <1>6, <2>1, <2>2
<1>14. ThievesSound'
  <2>1. \A d \in Cores : pc'[d] = "cas" => pc[d] = "cas" /\ loot'[d] = loot[d]
    BY <1>7
  <2>2. CASE h \in Tasks /\ worker' = [worker EXCEPT ![c] = Append(worker[c], h)]
    <3>1. victim' = victim
      BY <1>6
    <3> QED
      BY <1>1, <1>12, <1>13, <2>1, <2>2, <3>1, AppendThieves
  <2>3. CASE worker' = worker
    BY <1>6, <1>12, <1>13, <2>1, <2>3 DEF ThievesSound, ThiefSound
  <2> QED
    BY <1>13, <2>2, <2>3
<1>15. PICK n : n = Len(worker[c]) + 1 /\ n \notin DOMAIN worker[c]
  <2>1. worker[c] \in Seq(Tasks)
    BY <1>1 DEF TypeOK
  <2>2. Len(worker[c]) + 1 \notin DOMAIN worker[c]
    BY <2>1
  <2> QED
    BY <2>2
<1>16. \A u \in Tasks, d \in Cores : \A i :
         Pushed(u, d, i)' <=> Pushed(u, d, i) \/ (u = h /\ d = c /\ i = n)
  <2>1. CASE h = NoTask /\ worker' = worker
    BY <2>1, ExecutorAssumption DEF Pushed, NoTask
  <2>2. CASE h \in Tasks /\ worker' = [worker EXCEPT ![c] = Append(worker[c], h)]
    <3> SUFFICES ASSUME NEW u \in Tasks, NEW d \in Cores, NEW i
                 PROVE  Pushed(u, d, i)' <=> Pushed(u, d, i) \/ (u = h /\ d = c /\ i = n)
      OBVIOUS
    <3>1. Pushed(u, d, i)' <=> Pushed(u, d, i) \/ (u = h /\ d = c /\ i = Len(worker[c]) + 1)
      BY <1>1, <2>2, AppendPlaces
    <3> QED
      BY <1>15, <3>1
  <2> QED
    BY <1>13, <2>1, <2>2
<1>17. \A u \in Tasks : \A i :
         /\ At(u, c, "loot", i) <=> i \in 1 .. L /\ l[i] = u
         /\ At(u, c, "loot", i)' <=> i \in 1 .. L - 1 /\ l[i + 1] = u
  <2>1. L = 1 => 1 .. L - 1 = {}
    BY <1>3
  <2> QED
    BY <1>2, <1>3, <1>5, <1>6, <1>7, <2>1 DEF At
<1>18. \A u \in Tasks, d \in Cores : \A k, i : ~(d = c /\ k = "loot") =>
         (At(u, d, k, i)' <=> \/ At(u, d, k, i)
                              \/ u = h /\ d = c /\ k = "deque" /\ i = n)
  <2>1. \A u \in Tasks, d \in Cores :
          cur'[d] = u /\ pc'[d] \in HoldPCs <=> cur[d] = u /\ pc[d] \in HoldPCs
    BY <1>6, <1>7 DEF HoldPCs, PollPCs
  <2> QED
    BY <1>6, <1>7, <1>16, <2>1 DEF At
<1>19. \A u \in Tasks : \A i :
         /\ i \in 1 .. L /\ l[i] = u => At(u, c, "loot", i)
         /\ ~Pushed(u, c, n)
  BY <1>15, <1>17 DEF Pushed
<1>20. /\ 1 \in 1 .. L
       /\ \A i \in 1 .. L - 1 : i + 1 \in 1 .. L /\ i + 1 # 1
       /\ \A i \in 1 .. L : i # 1 => \E j \in 1 .. L - 1 : j + 1 = i
       /\ \A i, j \in 1 .. L - 1 : i + 1 = j + 1 => i = j
  <2>1. \A i \in 1 .. L : i # 1 => i - 1 \in 1 .. L - 1 /\ (i - 1) + 1 = i
    BY <1>3
  <2>2. /\ 1 \in 1 .. L
        /\ \A i \in 1 .. L - 1 : i + 1 \in 1 .. L /\ i + 1 # 1
        /\ \A i, j \in 1 .. L - 1 : i + 1 = j + 1 => i = j
    BY <1>3
  <2> QED
    BY <2>1, <2>2
<1>21. ASSUME NEW u \in Tasks PROVE Alone(u)'
  <2>1. Alone(u)
    BY <1>12 DEF Once, PlaceSound
  <2>2. \A i, j \in 1 .. L : l[i] = u /\ l[j] = u => i = j
    BY <1>19, <2>1 DEF Alone
  <2>3. \A i \in 1 .. L : l[i] = u =>
          \A d \in Cores : \A k, j : At(u, d, k, j) => d = c /\ k = "loot"
    BY <1>19, <2>1 DEF Alone
  <2>4. \A f \in Cores : \A m, o : At(u, f, m, o)' =>
          \/ f = c /\ m = "loot" /\ o \in 1 .. L - 1 /\ l[o + 1] = u
          \/ f = c /\ m = "deque" /\ o = n /\ l[1] = u
          \/ At(u, f, m, o) /\ ~(f = c /\ m = "loot")
    BY <1>4, <1>17, <1>18
  <2> SUFFICES ASSUME NEW d \in Cores, NEW e \in Cores, NEW k, NEW m, NEW i, NEW j,
                      At(u, d, k, i)', At(u, e, m, j)'
               PROVE  d = e /\ k = m /\ i = j
    BY DEF Alone
  <2>5. CASE d = c /\ k = "loot" /\ i \in 1 .. L - 1 /\ l[i + 1] = u
    <3>1. i + 1 \in 1 .. L /\ i + 1 # 1
      BY <1>20, <2>5
    <3>2. CASE e = c /\ m = "loot" /\ j \in 1 .. L - 1 /\ l[j + 1] = u
      BY <1>20, <2>2, <2>5, <3>1, <3>2
    <3>3. l[1] # u
      BY <1>20, <2>2, <2>5, <3>1
    <3> QED
      BY <2>3, <2>4, <2>5, <3>1, <3>2, <3>3
  <2>6. CASE d = c /\ k = "deque" /\ i = n /\ l[1] = u
    <3>1. ~(e = c /\ m = "loot" /\ j \in 1 .. L - 1 /\ l[j + 1] = u)
      BY <1>20, <2>2, <2>6
    <3> QED
      BY <1>20, <2>3, <2>4, <2>6, <3>1
  <2>7. CASE At(u, d, k, i) /\ ~(d = c /\ k = "loot")
    <3>1. At(u, e, m, j) /\ ~(e = c /\ m = "loot")
      BY <1>20, <2>3, <2>4, <2>7
    <3> QED
      BY <2>1, <2>7, <3>1 DEF Alone
  <2> QED
    BY <2>4, <2>5, <2>6, <2>7
<1>22. ASSUME NEW u \in Tasks PROVE Placed(u)' <=> Placed(u)
  <2>1. ASSUME NEW d \in Cores, NEW k, NEW i, At(u, d, k, i) PROVE Placed(u)'
    <3>1. CASE d = c /\ k = "loot"
      <4>1. i \in 1 .. L /\ l[i] = u
        BY <1>17, <2>1, <3>1
      <4>2. CASE i = 1
        <5>1. At(u, c, "deque", n)'
          BY <1>4, <1>18, <4>1, <4>2
        <5> QED
          BY <5>1 DEF Placed
      <4>3. CASE i # 1
        <5>1. \E j : At(u, c, "loot", j)'
          BY <1>17, <1>20, <4>1, <4>3
        <5> QED
          BY <5>1 DEF Placed
      <4> QED
        BY <4>2, <4>3
    <3>2. CASE ~(d = c /\ k = "loot")
      <4>1. At(u, d, k, i)'
        BY <1>18, <2>1, <3>2
      <4> QED
        BY <4>1 DEF Placed
    <3> QED
      BY <3>1, <3>2
  <2>2. ASSUME NEW d \in Cores, NEW k, NEW i, At(u, d, k, i)' PROVE Placed(u)
    <3>1. At(u, d, k, i) \/ \E j \in 1 .. L : l[j] = u
      BY <1>4, <1>17, <1>18, <1>20, <2>2
    <3> QED
      BY <1>19, <3>1 DEF Placed
  <2>3. Placed(u) => Placed(u)'
    BY <2>1 DEF Placed
  <2>4. Placed(u)' => Placed(u)
    BY <2>2 DEF Placed
  <2> QED
    BY <2>3, <2>4
<1> QED
  BY <1>10, <1>12, <1>14, <1>21, <1>22, RenameStep

-----------------------------------------------------------------------------
(* The invariant *)

LEMMA ExecInit == Init => ExecInv
<1> SUFFICES ASSUME Init PROVE ExecInv
  OBVIOUS
<1>1. TypeOK
  <2>1. <<>> \in Seq(Tasks) /\ <<>> \in Seq(Tasks \cup {NoTask}) /\ Len(<<>>) <= BatchMax
    BY ExecutorAssumption
  <2>2. /\ worker \in [Cores -> Seq(Tasks)] /\ loot \in [Cores -> Seq(Tasks \cup {NoTask})]
        /\ \A c \in Cores : Len(loot[c]) <= BatchMax
    BY <2>1 DEF Init
  <2>3. left \in [Tasks -> Nat] /\ \A t \in Tasks : left[t] <= PollsNeeded[t]
    BY ExecutorAssumption DEF Init
  <2>4. decay_counter \in [Tasks -> 0 .. DecayPeriod - 1]
    BY ExecutorAssumption DEF Init
  <2>5. /\ behind \in [Cores -> Nat] /\ cap \in [Cores -> Nat \ {0}]
        /\ quantum_remaining \in [Tasks -> Int] /\ effective_priority \in [Tasks -> Int]
    BY ExecutorAssumption DEF Init
  <2> QED
    BY <2>2, <2>3, <2>4, <2>5 DEF Init, TypeOK
<1>2. CoresSound
  BY DEF Init, CoresSound, CoreSound, HoldPCs, PollPCs
<1>3. ThievesSound
  BY DEF Init, ThievesSound, ThiefSound
<1>4. \A t \in Tasks : ~Placed(t)
  BY DEF Init, Placed, At, Pushed, HoldPCs, PollPCs
<1>5. Once
  <2>1. \A t \in Tasks : Alone(t)
    BY <1>4 DEF Placed, Alone
  <2> QED
    BY <1>4, <2>1 DEF Once, PlaceSound, Init
<1>6. PollsSound
  BY DEF PollsSound, PollSound, Polled, Init, PollPCs
<1> QED
  BY <1>1, <1>2, <1>3, <1>5, <1>6 DEF ExecInv

LEMMA ExecStep == ExecInv /\ [Next]_vars => ExecInv'
<1> SUFFICES ASSUME ExecInv, [Next]_vars PROVE ExecInv'
  OBVIOUS
<1>1. CASE UNCHANGED vars
  <2>1. UNCHANGED <<state, current_core, quantum_remaining, decay_counter,
                    effective_priority, left, spawned, run_queue, worker, behind,
                    cap, victim, view, loot, raced, pc, cur, parked>>
    BY <1>1 DEF vars, tcb, queues, deque, theft
  <2>2. TypeOK /\ CoresSound /\ PollsSound /\ (~raced => ThievesSound /\ Once)
    BY DEF ExecInv
  <2>3. TypeOK' /\ CoresSound'
    BY <2>1, <2>2 DEF TypeOK, CoresSound, CoreSound
  <2>4. \A t \in Tasks : /\ Stays(t) /\ SameState(t)
                         /\ \A c \in Cores : Polled(t, c)' <=> Polled(t, c)
    BY <2>1 DEF Stays, SameState, At, Pushed, Polled
  <2>5. PollsSound' /\ (~raced' => Once')
    BY <2>1, <2>2, <2>4, StaysStep, PollStays DEF PollsSound, Once
  <2>6. ~raced' => ThievesSound'
    BY <2>1, <2>2, ThievesStay
  <2> QED
    BY <2>3, <2>5, <2>6 DEF ExecInv
<1>2. CASE Environment
  BY <1>2, WakeStep, LoopStep, EnqueueStep DEF Environment
<1>3. ASSUME NEW c \in Cores, Run(c) PROVE ExecInv'
  <2>1. CASE DrainDone(c) \/ PopEmpty(c) \/ Halt(c)
    BY <2>1, LoopStep
  <2>2. CASE \/ \E v \in Cores : StealTop(c, v)
             \/ StealBottom(c) \/ StealCas(c) \/ StealPush(c) \/ StealNothing(c)
             \/ \E k \in 1 .. BatchMax : StealLate(c, k)
    BY <2>2, StealTopStep, StealBottomStep, StealLateStep, StealCasStep,
       StealPushStep, StealNothingStep
  <2>3. CASE (\E t \in Tasks : Drain(c, t)) \/ Pop(c) \/ Requeue(c)
    BY <2>3, DrainStep, PopStep, RequeueStep
  <2>4. CASE Claim(c) \/ Park(c) \/ PollPending(c) \/ PollReady(c) \/ Expire(c)
    BY <2>4, ClaimStep, ParkStep, PollPendingStep, PollReadyStep, ExpireStep
  <2>5. CASE DecayCount(c) \/ DecayFloor(c) \/ DecayLower(c)
    BY <2>5, DecayStep
  <2> QED
    BY <1>3, <2>1, <2>2, <2>3, <2>4, <2>5 DEF Run
<1> QED
  BY <1>1, <1>2, <1>3 DEF Next

-----------------------------------------------------------------------------
\* Tasks, queues, batches and cores keep their types.
THEOREM ExecutorTypeCorrect == Spec => []TypeOK
<1>1. ExecInv => TypeOK
  BY DEF ExecInv
<1> QED
  BY <1>1, ExecInit, ExecStep, PTL DEF Spec

\* executor.rs:101, "we have exclusive access to its future": whatever number
\* of cores steal, requeue, park and wake any number of tasks, until a steal
\* has raced with its victim, and after that for the tasks that do not park
\* themselves.
THEOREM PollsExclusive == Spec => []ExclusivePollUntilRaced
<1>1. ASSUME ExecInv, NEW c \in Cores, NEW d \in Cores,
             pc[c] \in PollPCs, pc[d] \in PollPCs, cur[c] = cur[d],
             ~(raced /\ cur[c] \in parked)
      PROVE  c = d
  <2>1. PICK t \in Tasks : t = cur[c]
    BY <1>1, CurrentTask DEF PollPCs
  <2>2. Polled(t, c) /\ Polled(t, d)
    BY <1>1, <2>1 DEF Polled
  <2>3. CASE t \notin parked
    BY <1>1, <2>2, <2>3 DEF ExecInv, PollsSound, PollSound
  <2>4. CASE ~raced
    <3>1. At(t, c, "poll", 0) /\ At(t, d, "poll", 0)
      BY <2>2 DEF At, Polled, HoldPCs
    <3> QED
      BY <1>1, <2>4, <3>1 DEF ExecInv, Once, PlaceSound, Alone
  <2> QED
    BY <1>1, <2>1, <2>3, <2>4
<1>2. ExecInv => ExclusivePollUntilRaced
  BY <1>1 DEF ExclusivePollUntilRaced
<1> QED
  BY <1>2, ExecInit, ExecStep, PTL DEF Spec

\* A place from which a task comes to be polled, as Places names it.
LEMMA PlacesOf ==
  ASSUME NEW t, NEW p
  PROVE  p \in Places(t) <=> \E c \in Cores : \E k, i : At(t, c, k, i) /\ p = <<c, k, i>>
<1> DEFINE Q == {<<c, "queue", 0>> : c \in {c \in Cores : t \in run_queue[c]}}
           H == {<<c, "poll", 0>> : c \in {c \in Cores : cur[c] = t /\ pc[c] \in {"claim", "requeue"} \cup PollPCs}}
           W(c) == {<<c, "deque", i>> : i \in {i \in DOMAIN worker[c] : worker[c][i] = t}}
           D == UNION {W(c) : c \in Cores}
           B(c) == {<<c, "loot", i>> : i \in {i \in DOMAIN loot[c] : loot[c][i] = t}}
           T == UNION {B(c) : c \in {c \in Cores : pc[c] = "loot"}}
<1>1. Places(t) = Q \cup H \cup D \cup T
  BY DEF Places
<1>2. p \in Q <=> \E c \in Cores : t \in run_queue[c] /\ p = <<c, "queue", 0>>
  OBVIOUS
<1>3. p \in H <=> \E c \in Cores : cur[c] = t /\ pc[c] \in HoldPCs /\ p = <<c, "poll", 0>>
  BY DEF HoldPCs
<1>4. p \in D <=> \E c \in Cores : \E i : Pushed(t, c, i) /\ p = <<c, "deque", i>>
  <2>1. \A c : p \in W(c) <=> \E i : Pushed(t, c, i) /\ p = <<c, "deque", i>>
    BY DEF Pushed
  <2>2. p \in D <=> \E c \in Cores : p \in W(c)
    <3> HIDE DEF W
    <3> QED
      OBVIOUS
  <2> QED
    BY <2>1, <2>2
<1>5. p \in T <=> \E c \in Cores : \E i :
                    /\ pc[c] = "loot" /\ i \in DOMAIN loot[c] /\ loot[c][i] = t
                    /\ p = <<c, "loot", i>>
  <2>1. \A c : p \in B(c) <=>
          \E i : i \in DOMAIN loot[c] /\ loot[c][i] = t /\ p = <<c, "loot", i>>
    OBVIOUS
  <2>2. p \in T <=> \E c \in Cores : pc[c] = "loot" /\ p \in B(c)
    <3> HIDE DEF B
    <3> QED
      OBVIOUS
  <2> QED
    BY <2>1, <2>2
<1> HIDE DEF Q, H, D, T
<1> QED
  BY <1>1, <1>2, <1>3, <1>4, <1>5 DEF At

\* As long as no steal raced with its victim, a task that has never parked
\* itself is in exactly one place when it is Ready, however cores drain, steal,
\* claim and requeue.
THEOREM NoTaskIsLost == Spec => []NoTaskLostUntilRaced
<1>1. ASSUME ExecInv, ~raced, NEW t \in spawned \ parked, state[t] = "Ready"
      PROVE  Cardinality(Places(t)) = 1
  <2>1. PlaceSound(t)
    BY <1>1 DEF ExecInv, TypeOK, Once
  <2>2. Placed(t)
    BY <1>1, <2>1 DEF PlaceSound
  <2>3. PICK p : p \in Places(t)
    <3>1. PICK c \in Cores : \E k, i : At(t, c, k, i)
      BY <2>2 DEF Placed
    <3>2. PICK k, i : At(t, c, k, i)
      BY <3>1
    <3>3. <<c, k, i>> \in Places(t)
      BY <3>2, PlacesOf
    <3> QED
      BY <3>3
  <2>4. ASSUME NEW q \in Places(t), NEW r \in Places(t) PROVE q = r
    BY <2>1, PlacesOf DEF PlaceSound, Alone
  <2>5. Places(t) = {p}
    BY <2>3, <2>4
  <2> QED
    BY <2>5, FS_Singleton
<1>2. ExecInv => NoTaskLostUntilRaced
  BY <1>1 DEF NoTaskLostUntilRaced
<1> QED
  BY <1>2, ExecInit, ExecStep, PTL DEF Spec

-----------------------------------------------------------------------------
(* Decay *)

\* The cores that found t above its floor and have not lowered it yet.
Lowering(t) == {c \in Cores : pc[c] = "lower" /\ cur[c] = t}

\* However many cores are about to lower a priority, there is room for all.
DecayRoom ==
  \A t \in Tasks :
    effective_priority[t] - Cardinality(Lowering(t)) >= LowestPriority

DecayInv == ExecInv /\ DecayRoom /\ Cores # {} /\ IsFiniteSet(Cores)

LEMMA LoweringFinite ==
  ASSUME IsFiniteSet(Cores), NEW t
  PROVE  /\ IsFiniteSet(Lowering(t)) /\ Cardinality(Lowering(t)) \in Nat
         /\ Cardinality(Cores) \in Nat
         /\ Cardinality(Lowering(t)) <= Cardinality(Cores)
         /\ Lowering(t)' \subseteq Cores
         /\ IsFiniteSet(Lowering(t)') /\ Cardinality(Lowering(t)') \in Nat
         /\ Cardinality(Lowering(t)') <= Cardinality(Cores)
<1>1. Lowering(t) \in SUBSET Cores /\ Lowering(t)' \in SUBSET Cores
  BY DEF Lowering
<1> QED
  BY <1>1, FS_Subset, FS_CardinalityType

LEMMA DecayInit == Init /\ Cores # {} /\ IsFiniteSet(Cores) => DecayInv
<1> SUFFICES ASSUME Init, Cores # {}, IsFiniteSet(Cores) PROVE DecayRoom
  BY ExecInit DEF DecayInv
<1>1. Cardinality(Cores) \in Nat /\ Cardinality(Cores) # 0
  BY FS_CardinalityType, FS_EmptySet
<1>2. ASSUME NEW t \in Tasks PROVE Cardinality(Lowering(t)) = 0
  <2>1. Lowering(t) = {}
    BY DEF Init, Lowering
  <2> QED
    BY <2>1, FS_EmptySet
<1> QED
  BY <1>1, <1>2, ExecutorAssumption DEF DecayRoom, Init, LowestPriority

\* Only the steps of decay change a priority or who is about to lower it.
LEMMA OthersKeepDecay ==
  ASSUME ExecInv, [Next]_vars,
         ~\E c \in Cores : DecayFloor(c) \/ DecayLower(c)
  PROVE  UNCHANGED effective_priority /\ \A t : Lowering(t)' = Lowering(t)
<1> SUFFICES /\ UNCHANGED effective_priority
             /\ \A c \in Cores : /\ pc'[c] = "lower" <=> pc[c] = "lower"
                                 /\ pc[c] = "lower" => cur'[c] = cur[c]
  BY DEF Lowering
<1>1. pc \in [Cores -> {"drain", "pop", "steal", "bottom", "cas", "loot", "idle",
                    "halted", "claim", "requeue", "decay", "floor", "lower",
                    "panic"} \cup PollPCs]
      /\ cur \in [Cores -> Tasks \cup {NoTask}]
  BY DEF ExecInv, TypeOK
<1>2. CASE UNCHANGED vars
  BY <1>2 DEF vars, tcb
<1>3. CASE Environment
  BY <1>1, <1>3 DEF Environment, Wake, Interrupt, EnqueueTask, Goto, Set, tcb
<1>4. ASSUME NEW c \in Cores, Run(c)
      PROVE  /\ UNCHANGED effective_priority
             /\ \A d \in Cores : /\ pc'[d] = "lower" <=> pc[d] = "lower"
                                 /\ pc[d] = "lower" => cur'[d] = cur[d]
  <2>1. CASE DrainDone(c) \/ PopEmpty(c) \/ StealNothing(c) \/ Halt(c)
    BY <1>1, <2>1 DEF DrainDone, PopEmpty, StealNothing, NothingToSteal, Halt, Goto, tcb
  <2>2. CASE Pop(c)
    BY <1>1, <2>2 DEF Pop, Goto, Set, tcb
  <2>3. CASE \/ \E v \in Cores : StealTop(c, v)
             \/ StealBottom(c) \/ \E k \in 1 .. BatchMax : StealLate(c, k)
    BY <1>1, <2>3 DEF StealTop, StealBottom, StealLate, Goto, tcb
  <2>4. CASE \E t \in Tasks : Drain(c, t)
    BY <1>1, <2>4 DEF Drain, tcb
  <2>5. CASE Claim(c)
    BY <1>1, <2>5 DEF Claim, Goto, Set
  <2>6. CASE Park(c)
    BY <2>6 DEF Park
  <2>7. CASE PollPending(c)
    BY <1>1, <2>7 DEF PollPending, Goto, PollPCs
  <2>8. CASE PollReady(c)
    BY <1>1, <2>8 DEF PollReady, Goto, Set
  <2>9. CASE Expire(c) \/ Requeue(c)
    BY <1>1, <2>9 DEF Expire, Requeue, Goto
  <2>10. CASE DecayCount(c)
    BY <1>1, <2>10 DEF DecayCount, Goto, Set, PollReturns
  <2>11. CASE StealCas(c) \/ StealPush(c)
    BY <1>1, <2>11 DEF StealCas, StealPush, Goto, Set, tcb
  <2> QED
    BY <1>4, <2>1, <2>2, <2>3, <2>4, <2>5, <2>6, <2>7, <2>8, <2>9, <2>10, <2>11 DEF Run
<1> QED
  BY <1>2, <1>3, <1>4 DEF Next

LEMMA DecayRoomStep ==
  ASSUME DecayInv, [Next]_vars
  PROVE  DecayRoom'
<1>1. /\ pc \in [Cores -> {"drain", "pop", "steal", "bottom", "cas", "loot", "idle",
                    "halted", "claim", "requeue", "decay", "floor", "lower",
                    "panic"} \cup PollPCs]
      /\ cur \in [Cores -> Tasks \cup {NoTask}]
      /\ effective_priority \in [Tasks -> Int]
      /\ ExecInv /\ DecayRoom /\ IsFiniteSet(Cores) /\ MaxDecay \in Nat
  BY ExecutorAssumption DEF DecayInv, ExecInv, TypeOK
<1>2. ASSUME NEW c \in Cores, DecayFloor(c) PROVE DecayRoom'
  <2>1. PICK t \in Tasks : t = cur[c]
    BY <1>1, <1>2, CurrentTask DEF DecayFloor
  <2>2. effective_priority' = effective_priority /\ pc[c] = "floor"
    BY <1>2 DEF DecayFloor, tcb
  <2>3. CASE effective_priority[t] > -MaxDecay
    <3>1. pc' = [pc EXCEPT ![c] = "lower"] /\ cur' = cur
      BY <1>2, <2>1, <2>3 DEF DecayFloor, Goto
    <3>2. \A u : u # t => Lowering(u)' = Lowering(u)
      BY <1>1, <2>1, <2>2, <3>1 DEF Lowering
    <3>3. effective_priority[t] - Cardinality(Lowering(t)') >= LowestPriority
      BY <1>1, <2>3, LoweringFinite DEF LowestPriority
    <3> QED
      BY <1>1, <2>2, <3>2, <3>3 DEF DecayRoom, LowestPriority
  <2>4. CASE ~(effective_priority[t] > -MaxDecay)
    <3>1. pc' = [pc EXCEPT ![c] = "drain"] /\ cur' = [cur EXCEPT ![c] = NoTask]
      BY <1>2, <2>1, <2>4 DEF DecayFloor, PollReturns, Goto, Set
    <3>2. \A u : Lowering(u)' = Lowering(u)
      BY <1>1, <2>2, <3>1 DEF Lowering
    <3> QED
      BY <1>1, <2>2, <3>2 DEF DecayRoom, LowestPriority
  <2> QED
    BY <2>3, <2>4
<1>3. ASSUME NEW c \in Cores, DecayLower(c) PROVE DecayRoom'
  <2>1. PICK t \in Tasks : t = cur[c]
    BY <1>1, <1>3, CurrentTask DEF DecayLower
  <2>2. /\ pc[c] = "lower" /\ pc' = [pc EXCEPT ![c] = "drain"]
        /\ cur' = [cur EXCEPT ![c] = NoTask]
        /\ effective_priority' =
             [effective_priority EXCEPT ![t] = effective_priority[t] - 1]
    BY <1>3, <2>1 DEF DecayLower, PollReturns, Goto, Set
  <2>3. \A u : u # t => Lowering(u)' = Lowering(u)
    BY <1>1, <2>1, <2>2 DEF Lowering
  <2>4. c \in Lowering(t) /\ Lowering(t)' = Lowering(t) \ {c}
    BY <1>1, <2>1, <2>2 DEF Lowering
  <2>5. Cardinality(Lowering(t)') = Cardinality(Lowering(t)) - 1
    BY <1>1, <2>4, LoweringFinite, FS_RemoveElement
  <2>6. effective_priority[t] - Cardinality(Lowering(t)) >= LowestPriority
    BY <1>1 DEF DecayRoom
  <2>7. effective_priority'[t] - Cardinality(Lowering(t)') >= LowestPriority
    BY <1>1, <2>2, <2>5, <2>6, LoweringFinite
  <2> QED
    BY <1>1, <2>2, <2>3, <2>7 DEF DecayRoom, LowestPriority
<1>4. CASE ~\E c \in Cores : DecayFloor(c) \/ DecayLower(c)
  BY <1>1, <1>4, OthersKeepDecay DEF DecayRoom, LowestPriority
<1> QED
  BY <1>2, <1>3, <1>4

\* Decay stops at most one below the floor for every other core.
THEOREM DecayIsBounded ==
  Spec /\ Cores # {} /\ IsFiniteSet(Cores) => []DecayBounded
<1>1. ASSUME DecayInv, NEW t \in Tasks
      PROVE  effective_priority[t] >= LowestPriority
  <2>1. /\ effective_priority[t] \in Int /\ MaxDecay \in Nat
        /\ effective_priority[t] - Cardinality(Lowering(t)) >= LowestPriority
    BY <1>1, ExecutorAssumption DEF DecayInv, DecayRoom, ExecInv, TypeOK
  <2>2. Cardinality(Lowering(t)) \in Nat /\ Cardinality(Cores) \in Nat
    BY <1>1, LoweringFinite DEF DecayInv
  <2> QED
    BY <2>1, <2>2 DEF LowestPriority
<1>2. DecayInv => DecayBounded
  BY <1>1 DEF DecayBounded
<1>3. DecayInv /\ [Next]_vars => DecayInv'
  BY ExecStep, DecayRoomStep DEF DecayInv
<1> DEFINE Inputs == Cores # {} /\ IsFiniteSet(Cores)
<1>4. Init /\ Inputs => DecayInv
  BY DecayInit
<1> HIDE DEF Inputs
<1>5. Spec /\ Inputs => []DecayBounded
  BY <1>2, <1>3, <1>4, PTL DEF Spec
<1> QED
  BY <1>5 DEF Inputs
=============================================================================

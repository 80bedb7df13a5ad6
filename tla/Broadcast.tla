----------------------------- MODULE Broadcast ------------------------------
(***************************************************************************)
(* The broadcast channel of primitives/broadcast.rs: one sender, receivers *)
(* that subscribe through one another, a generation that announces values, *)
(* a wait queue and a reference count.  Each access to shared memory is a  *)
(* step; the wait queue is used by its contract (see WaitQueue), and since *)
(* it is only ever emptied as a whole it is a set.  A future that returned *)
(* Pending may be polled at any time and is polled once woken.             *)
(* Whatever touches the allocation after it was freed is undefined, so a   *)
(* behaviour ends there.                                                   *)
(***************************************************************************)
EXTENDS Integers, Sequences, FiniteSets

CONSTANTS
  Receivers,
  First,      \* the receiver that broadcast() returns
  MaxSends    \* bound on the number of sends

ASSUME BroadcastAssumption == First \in Receivers /\ MaxSends \in Nat

VARIABLES
  shared,    \* BroadcastShared
  sender,    \* program counter of the sender
  rcv,       \* Receiver, the future it is in, and its history
  overtaken  \* history: a send or the drop began before every receiver had the last value

broadcastVars == <<shared, sender, rcv, overtaken>>

Closed == MaxSends + 1   \* u64::MAX
Undefined == 0           \* what a value that is being written reads as

\* seen, gen: last_seen and the generation loaded last; first: last_seen at
\* the subscription; got: the values received; stale: see WakeAll.
NewReceiver(l) ==
  [pc |-> l, seen |-> 0, gen |-> 0, registered |-> FALSE, woken |-> FALSE,
   first |-> 0, got |-> <<>>, stale |-> FALSE]

BroadcastInit ==
  /\ shared = [refcount |-> 1, freed |-> FALSE, generation |-> 0,
               value |-> Undefined, waiters |-> {}]
  /\ sender = "idle"
  /\ rcv = [r \in Receivers |-> NewReceiver(IF r = First THEN "idle" ELSE "none")]
  /\ overtaken = FALSE

Active(r) == rcv[r].pc \notin {"none", "counted", "dropped"}

News(r) == shared.generation > rcv[r].seen

At(r, l) == rcv[r].pc = l
Go(r, l) == rcv' = [rcv EXCEPT ![r].pc = l]

\* fetch_sub; whoever saw 1 frees the allocation.
Release == shared' = [shared EXCEPT !.refcount = @ - 1, !.freed = shared.refcount = 1]

\* What the sender is about to do takes the last value from whoever lacks it.
Overtake == overtaken' = (overtaken \/ \E r \in Receivers : Active(r) /\ News(r))

-----------------------------------------------------------------------------
(* Sender::send() and drop *)

SendBegin ==
  /\ sender = "idle" /\ shared.generation < MaxSends
  /\ sender' = "write"
  /\ shared' = [shared EXCEPT !.value = Undefined]
  /\ Overtake
  /\ UNCHANGED rcv

SendWrite ==
  /\ sender = "write"
  /\ sender' = "bump"
  /\ shared' = [shared EXCEPT !.value = shared.generation + 1]
  /\ UNCHANGED <<rcv, overtaken>>

SendBump ==
  /\ sender = "bump"
  /\ sender' = "wake"
  /\ shared' = [shared EXCEPT !.generation = @ + 1]
  /\ UNCHANGED <<rcv, overtaken>>

\* A receiver that is unlinked although it has seen everything is stale: its
\* flag stays set, so it is not linked again while its future lives.
WakeAll ==
  /\ sender \in {"wake", "closewake"}
  /\ sender' = IF sender = "wake" THEN "idle" ELSE "release"
  /\ shared' = [shared EXCEPT !.waiters = {}]
  /\ rcv' = [r \in Receivers |->
               IF r \in shared.waiters
               THEN [rcv[r] EXCEPT !.woken = TRUE, !.stale = ~News(r)] ELSE rcv[r]]
  /\ UNCHANGED overtaken

SenderDrop ==
  /\ sender = "idle"
  /\ sender' = "closewake"
  /\ shared' = [shared EXCEPT !.generation = Closed]
  /\ Overtake
  /\ UNCHANGED rcv

SenderRelease ==
  /\ sender = "release"
  /\ sender' = "gone"
  /\ Release
  /\ UNCHANGED <<rcv, overtaken>>

-----------------------------------------------------------------------------
(* Receiver::subscribe() and drop *)

\* Mutant: the new holder is not counted.
SubscribeUncounted(q, r) ==
  /\ At(q, "idle") /\ At(r, "none")
  /\ rcv' = [rcv EXCEPT ![q].pc = "subscribe", ![r].pc = "counted"]
  /\ UNCHANGED <<shared, sender, overtaken>>

Subscribe(q, r) ==
  /\ At(q, "idle") /\ At(r, "none")
  /\ shared' = [shared EXCEPT !.refcount = @ + 1]
  /\ rcv' = [rcv EXCEPT ![q].pc = "subscribe", ![r].pc = "counted"]
  /\ UNCHANGED <<sender, overtaken>>

\* Mutant: the new receiver starts at generation 0.
SubscribeAtZero(q, r) ==
  /\ At(q, "subscribe") /\ At(r, "counted")
  /\ rcv' = [rcv EXCEPT ![q].pc = "idle", ![r].pc = "idle",
                        ![r].first = shared.generation]
  /\ UNCHANGED <<shared, sender, overtaken>>

SubscribeLoad(q, r) ==
  /\ At(q, "subscribe") /\ At(r, "counted")
  /\ rcv' = [rcv EXCEPT ![q].pc = "idle", ![r].pc = "idle",
                        ![r].seen = shared.generation, ![r].first = shared.generation]
  /\ UNCHANGED <<shared, sender, overtaken>>

ReceiverDrop(r) ==
  /\ At(r, "idle")
  /\ Go(r, "dropped")
  /\ Release
  /\ UNCHANGED <<sender, overtaken>>

-----------------------------------------------------------------------------
(* BroadcastRecvFuture::poll() and drop *)

Recv(r) == At(r, "idle") /\ Go(r, "load") /\ UNCHANGED <<shared, sender, overtaken>>

Repoll(r) ==
  /\ At(r, "pending")
  /\ rcv' = [rcv EXCEPT ![r].pc = "load", ![r].woken = FALSE]
  /\ UNCHANGED <<shared, sender, overtaken>>

\* One of the two looks at the generation, and where it leads.
Look(r, closed, news, none) ==
  /\ rcv' = [rcv EXCEPT ![r].gen = shared.generation,
       ![r].pc = CASE shared.generation = Closed -> closed
                   [] shared.generation # Closed /\ News(r) -> news
                   [] OTHER -> none]
  /\ UNCHANGED <<shared, sender, overtaken>>

PollLoad(r) == At(r, "load") /\ Look(r, "futuredrop", "clone", "park")

\* Only a future that is not registered is linked.
Park(r) ==
  /\ At(r, "park")
  /\ shared' = [shared EXCEPT !.waiters = IF rcv[r].registered THEN @ ELSE @ \cup {r}]
  /\ rcv' = [rcv EXCEPT ![r].pc = "recheck", ![r].registered = TRUE]
  /\ UNCHANGED <<sender, overtaken>>

\* Mutant: no second look.
RecheckNever(r) ==
  At(r, "recheck") /\ Go(r, "pending") /\ UNCHANGED <<shared, sender, overtaken>>

Recheck(r) == At(r, "recheck") /\ Look(r, "remove", "remove", "pending")

Unlink(r, l) ==
  /\ shared' = [shared EXCEPT !.waiters = IF rcv[r].registered THEN @ \ {r} ELSE @]
  /\ rcv' = [rcv EXCEPT ![r].pc = l, ![r].registered = FALSE, ![r].woken = FALSE,
                        ![r].stale = FALSE, ![r].gen = IF l = "clone" THEN @ ELSE 0]
  /\ UNCHANGED <<sender, overtaken>>

RemoveNode(r) ==
  At(r, "remove") /\ Unlink(r, IF rcv[r].gen = Closed THEN "futuredrop" ELSE "clone")

Clone(r) ==
  /\ At(r, "clone")
  /\ rcv' = [rcv EXCEPT ![r].pc = "futuredrop", ![r].seen = rcv[r].gen,
                        ![r].got = Append(@, shared.value)]
  /\ UNCHANGED <<shared, sender, overtaken>>

Cancel(r) == At(r, "pending") /\ Go(r, "futuredrop") /\ UNCHANGED <<shared, sender, overtaken>>

\* The future resolved or was cancelled.
FutureDrop(r) == At(r, "futuredrop") /\ Unlink(r, "idle")

-----------------------------------------------------------------------------
SenderStep == ~shared.freed /\ (SendWrite \/ SendBump \/ WakeAll \/ SenderRelease)

PollStep(r) ==
  /\ ~shared.freed
  /\ PollLoad(r) \/ Park(r) \/ Recheck(r) \/ RemoveNode(r) \/ Clone(r) \/ FutureDrop(r)

\* What the holders do of their own accord, and spurious polls.
Choice ==
  /\ ~shared.freed
  /\ \/ SendBegin \/ SenderDrop
     \/ \E r \in Receivers : ReceiverDrop(r) \/ Recv(r) \/ Repoll(r) \/ Cancel(r)
     \/ \E q, r \in Receivers : Subscribe(q, r) \/ SubscribeLoad(q, r)

BroadcastNext == SenderStep \/ (\E r \in Receivers : PollStep(r)) \/ Choice

\* A call that started goes on, and a woken future is polled.
BroadcastFairness ==
  /\ WF_broadcastVars(SenderStep)
  /\ \A r \in Receivers :
       WF_broadcastVars(PollStep(r) \/ (rcv[r].woken /\ ~shared.freed /\ Repoll(r)))

BroadcastSpec == BroadcastInit /\ [][BroadcastNext]_broadcastVars /\ BroadcastFairness

-----------------------------------------------------------------------------
(* Properties *)

Generation == 0 .. Closed

Receiver ==
  [pc : {"none", "counted", "dropped", "idle", "subscribe", "load", "park",
         "recheck", "remove", "clone", "pending", "futuredrop"},
   seen : Generation, gen : Generation, registered : BOOLEAN, woken : BOOLEAN,
   first : Generation, got : Seq(Generation), stale : BOOLEAN]

\* The shared allocation, the sender and the receivers have their types.
BroadcastTypeOK ==
  /\ shared \in [refcount : Int, freed : BOOLEAN, generation : Generation,
                 value : Generation, waiters : SUBSET Receivers]
  /\ sender \in {"idle", "write", "bump", "wake", "closewake", "release", "gone"}
  /\ rcv \in [Receivers -> Receiver]
  /\ overtaken \in BOOLEAN

Holders ==
  (IF sender = "gone" THEN {} ELSE {"sender"}) \X {0}
    \cup {r \in Receivers : ~At(r, "none") /\ ~At(r, "dropped")} \X {1}

\* The reference count starts at 1 for two holders, and broadcast.rs:116 counts
\* every further one: the allocation lives while two holders are left, over
\* any order of subscriptions and drops, though not for the last one.
AliveForAllButOne == shared.freed => Cardinality(Holders) <= 1

\* The last value announced; the closing generation hides its number.
Announced == IF shared.generation = Closed THEN shared.value ELSE shared.generation

\* broadcast.rs:4-5, "Uses a generation counter so receivers can tell when a new
\* value has arrived": each receiver has every value sent since it subscribed,
\* once, in order and whole, but perhaps the last one, which it can then still
\* get; until a send or the sender's drop begins before all have the last one.
EveryValueUntilOvertaken ==
  overtaken \/ \A r \in Receivers : Active(r) =>
    /\ rcv[r].got = [i \in 1 .. rcv[r].seen - rcv[r].first |-> rcv[r].first + i]
    /\ rcv[r].seen < Announced =>
         rcv[r].seen + 1 = Announced /\ shared.generation = Announced /\ shared.value = Announced

\* broadcast.rs:3, "Each send() wakes all parked receivers": a receiver that is
\* parked on news is polled, unless a wake-up for older news has unlinked it.
NewsArrivesUntilStale ==
  \A r \in Receivers :
    At(r, "pending") /\ News(r) ~> ~At(r, "pending") \/ rcv[r].stale \/ shared.freed

-----------------------------------------------------------------------------
(* What the source's comments say and the code does not keep.  No run      *)
(* checks these; the README gives the counterexamples.                     *)

\* broadcast.rs:59, "ptr is valid for the lifetime of all ref-counted holders".
AliveForAll == shared.freed => Holders = {}

\* broadcast.rs:69, "No reader until generation bumps": nobody clones a value
\* that is being written.
ReadsWhole == \A r \in Receivers : Undefined \notin {rcv[r].got[i] : i \in DOMAIN rcv[r].got}

\* broadcast.rs:3, "with the same value": whoever is told that the channel is
\* closed (broadcast.rs:155) has the last value.
ClosedHasAll ==
  \A r \in Receivers : At(r, "futuredrop") /\ rcv[r].gen = Closed => rcv[r].seen >= Announced

\* broadcast.rs:3, without the exception for a receiver that is stale.
ParkedReceiverIsWoken ==
  \A r \in Receivers : At(r, "pending") /\ News(r) ~> ~At(r, "pending") \/ shared.freed
=============================================================================

------------------------------ MODULE Spinlock ------------------------------
(***************************************************************************)
(* The ticket spinlock of primitives/spinlock.rs, one action per atomic    *)
(* access to the lock word.  The AtomicU32 `state` is kept as its two      *)
(* halves: `next` (low half, next ticket) and `serving` (high half).  The  *)
(* real halves are 16 bits wide; TicketBits is the width here.             *)
(***************************************************************************)
EXTENDS Integers

CONSTANTS
  Lockers,     \* threads that call lock()
  TryLockers,  \* threads that call try_lock()
  TicketBits   \* TICKET_BITS, 16 in the source

ASSUME TicketBitsAssumption == TicketBits \in Nat \ {0}

Threads == Lockers \cup TryLockers

\* TICKET_MASK + 1: each half of the word counts modulo TICKETS.
TICKETS == 2^TicketBits

ASSUME TicketsAssumption == TICKETS \in Nat /\ TICKETS > 1

VARIABLES
  next,     \* low half of the lock word: next ticket to hand out
  serving,  \* high half of the lock word: ticket being served
  pc,       \* where each thread is
  ticket,   \* ticket: the local of lock()
  old,      \* the word loaded by try_lock() or by the guard's drop()
  tainted   \* history: the lock left its working regime (see Taints)

vars == <<next, serving, pc, ticket, old, tainted>>

Word == [next : 0 .. TICKETS - 1, serving : 0 .. TICKETS - 1]

LockWord == [next |-> next, serving |-> serving]

SetWord(w) == next' = w.next /\ serving' = w.serving

\* fetch_add(1) on the whole u32: an overflow of the low half carries into
\* the high half, which itself wraps.
PlusOne(w) ==
  IF w.next = TICKETS - 1
  THEN [next |-> 0, serving |-> (w.serving + 1) % TICKETS]
  ELSE [w EXCEPT !.next = @ + 1]

ZeroWord == [next |-> 0, serving |-> 0]

\* Locals go back to zero at their last use, so that dead values do not tell
\* states apart.
Forget(local, t, zero) == [local EXCEPT ![t] = zero]

Goto(t, l) == pc' = [pc EXCEPT ![t] = l]

Init ==
  /\ next = 0
  /\ serving = 0
  /\ pc = [t \in Threads |-> "idle"]
  /\ ticket = [t \in Threads |-> 0]
  /\ old = [t \in Threads |-> ZeroWord]
  /\ tainted = FALSE

-----------------------------------------------------------------------------
(* lock() *)

\* A ticket taken now loses the lock its order: a releasing guard has already
\* loaded the word and will store it back without this increment, or the
\* increment carries into the serving half.
Taints == next = TICKETS - 1 \/ \E u \in Threads : pc[u] = "drop"

\* fetch_ticket
FetchTicket(t) ==
  /\ t \in Lockers /\ pc[t] = "idle"
  /\ ticket' = [ticket EXCEPT ![t] = next]
  /\ SetWord(PlusOne(LockWord))
  /\ tainted' = (tainted \/ Taints)
  /\ Goto(t, "spin")
  /\ UNCHANGED old

\* Mutant: the spin loop leaves without looking at the serving half.
WaitForTicketUnchecked(t) ==
  /\ pc[t] = "spin"
  /\ Goto(t, "guard")
  /\ ticket' = Forget(ticket, t, 0)
  /\ UNCHANGED <<next, serving, old, tainted>>

\* Mutant: the spin loop also lets the ticket after the served one through.
WaitForTicketLoose(t) ==
  /\ pc[t] = "spin"
  /\ ticket[t] \in {serving, serving + 1}
  /\ Goto(t, "guard")
  /\ ticket' = Forget(ticket, t, 0)
  /\ UNCHANGED <<next, serving, old, tainted>>

\* wait_for_ticket: the iterations that do not match only burn time.
WaitForTicket(t) ==
  /\ pc[t] = "spin"
  /\ serving = ticket[t]
  /\ Goto(t, "guard")
  /\ ticket' = Forget(ticket, t, 0)
  /\ UNCHANGED <<next, serving, old, tainted>>

-----------------------------------------------------------------------------
(* try_lock() *)

\* The load, and the early return when the halves differ.
TryLockLoad(t) ==
  /\ t \in TryLockers /\ pc[t] = "idle"
  /\ next = serving
  /\ old' = [old EXCEPT ![t] = LockWord]
  /\ Goto(t, "cas")
  /\ UNCHANGED <<next, serving, ticket, tainted>>

\* compare_exchange_weak advances both halves.
TryLockClaim(t) ==
  /\ pc[t] = "cas"
  /\ LockWord = old[t]
  /\ SetWord([next    |-> (old[t].next + 1) % TICKETS,
              serving |-> (old[t].serving + 1) % TICKETS])
  /\ tainted' = TRUE
  /\ Goto(t, "guard")
  /\ old' = Forget(old, t, ZeroWord)
  /\ UNCHANGED ticket

\* The weak exchange may fail whether or not the word has changed.
TryLockFail(t) ==
  /\ pc[t] = "cas"
  /\ Goto(t, "idle")
  /\ old' = Forget(old, t, ZeroWord)
  /\ UNCHANGED <<next, serving, ticket, tainted>>

-----------------------------------------------------------------------------
(* SpinlockGuard::drop: a load and, later, a plain store *)

DropLoad(t) ==
  /\ pc[t] = "guard"
  /\ old' = [old EXCEPT ![t] = LockWord]
  /\ Goto(t, "drop")
  /\ UNCHANGED <<next, serving, ticket, tainted>>

\* Mutant: the release forgets to advance the serving half.
DropStoreNoAdvance(t) ==
  /\ pc[t] = "drop"
  /\ SetWord(old[t])
  /\ Goto(t, "idle")
  /\ old' = Forget(old, t, ZeroWord)
  /\ UNCHANGED <<ticket, tainted>>

DropStore(t) ==
  /\ pc[t] = "drop"
  /\ SetWord([old[t] EXCEPT !.serving = (@ + 1) % TICKETS])
  /\ Goto(t, "idle")
  /\ old' = Forget(old, t, ZeroWord)
  /\ UNCHANGED <<ticket, tainted>>

-----------------------------------------------------------------------------
Step(t) ==
  \/ FetchTicket(t) \/ WaitForTicket(t)
  \/ TryLockLoad(t) \/ TryLockClaim(t) \/ TryLockFail(t)
  \/ DropLoad(t) \/ DropStore(t)

Next == \E t \in Threads : Step(t)

Spec == Init /\ [][Next]_vars

\* A thread that holds or waits keeps executing ("Hold time invariant: < 1us",
\* critical sections have no await point); nobody is obliged to start lock().
Fairness ==
  \A t \in Threads : WF_vars(WaitForTicket(t) \/ DropLoad(t) \/ DropStore(t))

FairSpec == Spec /\ Fairness

-----------------------------------------------------------------------------
(* Properties *)

\* The lock word and every loaded copy of it stay within the two halves, and
\* every thread is at a known point.
TypeOK ==
  /\ LockWord \in Word
  /\ pc \in [Threads -> {"idle", "spin", "guard", "cas", "drop"}]
  /\ ticket \in [Threads -> 0 .. TICKETS - 1]
  /\ old \in [Threads -> Word]
  /\ tainted \in BOOLEAN

\* t owns the protected data: its guard exists and has not stored the release.
Holds(t) == pc[t] \in {"guard", "drop"}

\* spinlock.rs:18, "SAFETY: Spinlock provides mutual exclusion": at most one
\* thread has a live guard.
MutualExclusion == \A t, u \in Threads : Holds(t) /\ Holds(u) => t = u

\* Mutual exclusion holds as long as no ticket was taken inside another
\* guard's load-to-store window, no ticket carried out of the low half and no
\* try_lock() succeeded.
MutexUntilTainted == ~tainted => MutualExclusion

\* spinlock.rs:3, "FIFO acquisition order": in the working regime the thread
\* that gets the lock has the oldest ticket of those that spin.
FifoUntilTainted ==
  [][\A t, u \in Threads :
       ~tainted /\ pc[t] = "spin" /\ pc'[t] = "guard" /\ pc[u] = "spin"
         => ticket[t] <= ticket[u]]_vars

\* In the working regime a spinning thread does get the lock: nothing but the
\* three taints can strand it.
LockTerminatesUntilTainted ==
  \A t \in Threads : pc[t] = "spin" ~> (pc[t] = "guard" \/ tainted)

-----------------------------------------------------------------------------
(* What the source's comments say and the code does not keep.  No run      *)
(* checks these; the README gives the counterexamples.                     *)

\* spinlock.rs:3, "prevents starvation": every thread that takes a ticket gets
\* the lock.
LockTerminates == \A t \in Threads : pc[t] = "spin" ~> pc[t] = "guard"
=============================================================================

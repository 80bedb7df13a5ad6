------------------------------- MODULE Oneshot -------------------------------
(***************************************************************************)
(* The oneshot channel of primitives/oneshot.rs: a sender that sends or is *)
(* dropped, a receiver whose future is polled, parked and may be dropped,  *)
(* and the reference count of the allocation they share.  One action per   *)
(* access to a shared field.                                               *)
(***************************************************************************)
EXTENDS Integers

CONSTANT Spurious  \* does the executor poll a parked receiver unasked?

ASSUME OneshotAssumption == Spurious \in BOOLEAN

VARIABLES
  state,       \* "EMPTY", "WAITING", "READY", "CONSUMED" or "CLOSED"
  value,       \* is the value cell full?
  recv_waker,  \* is the waker cell full?
  refcount,
  freed,
  spc,         \* where the sender is
  rpc,         \* where the receiver is
  registered,  \* RecvFuture::registered
  woken,       \* the receiver's waker was called since its last poll
  recvd,       \* what the receiver's future resolved to
  toNobody     \* history: the receiver was gone before send() was called

oneshotVars == <<state, value, recv_waker, refcount, freed, spc, rpc, registered,
          woken, recvd, toNobody>>

shared == <<state, value, recv_waker, refcount, freed>>
receiver == <<rpc, registered, woken, recvd>>

OneshotInit ==
  /\ state = "EMPTY"
  /\ value = FALSE /\ recv_waker = FALSE
  /\ refcount = 2 /\ freed = FALSE
  /\ spc = "fresh" /\ rpc = "fresh"
  /\ registered = FALSE /\ woken = FALSE
  /\ recvd = "nothing"
  /\ toNobody = FALSE

-----------------------------------------------------------------------------
(* Shared::drop *)

\* Mutant: the allocation is freed one reference too early.
ReleaseEarly == refcount' = refcount - 1 /\ freed' = (freed \/ refcount <= 2)

\* The last reference frees the allocation.
Release == refcount' = refcount - 1 /\ freed' = (freed \/ refcount = 1)

-----------------------------------------------------------------------------
(* Sender::send *)

\* Mutant: the value is never put into its cell.
SendStoreNothing ==
  /\ spc = "fresh"
  /\ toNobody' = (rpc = "gone")
  /\ spc' = "load"
  /\ UNCHANGED <<shared, receiver>>

\* The value is stored first.
SendStore ==
  /\ spc = "fresh"
  /\ value' = TRUE
  /\ toNobody' = (rpc = "gone")
  /\ spc' = "load"
  /\ UNCHANGED <<state, recv_waker, refcount, freed, receiver>>

\* The state is loaded; any but EMPTY and WAITING is "unreachable".
SendLoad ==
  /\ spc = "load"
  /\ spc' = CASE state = "EMPTY" -> "cas"
              [] state = "WAITING" -> "ready"
              [] OTHER -> "unreachable"
  /\ UNCHANGED <<shared, receiver, toNobody>>

SendCas ==
  /\ spc = "cas"
  /\ IF state = "EMPTY"
     THEN state' = "READY" /\ spc' = "sent"
     ELSE UNCHANGED state /\ spc' = "load"
  /\ UNCHANGED <<value, recv_waker, refcount, freed, receiver, toNobody>>

SendReady ==
  /\ spc = "ready"
  /\ state' = "READY"
  /\ spc' = "send_wake"
  /\ UNCHANGED <<value, recv_waker, refcount, freed, receiver, toNobody>>

\* The waker is taken and called, by send() and by drop.
TakeWaker(from, to) ==
  /\ spc = from
  /\ woken' = (woken \/ recv_waker)
  /\ recv_waker' = FALSE
  /\ spc' = to
  /\ UNCHANGED <<state, value, refcount, freed, rpc, registered, recvd, toNobody>>

SendWake == TakeWaker("send_wake", "sent")

-----------------------------------------------------------------------------
(* Sender::drop without a send *)

SenderDropLoad ==
  /\ spc = "fresh"
  /\ spc' = CASE state = "WAITING" -> "close"
              [] state = "EMPTY" -> "close_quietly"
              [] OTHER -> "closed"
  /\ UNCHANGED <<shared, receiver, toNobody>>

\* The receiver was seen parked.
SenderClose ==
  /\ spc = "close"
  /\ state' = "CLOSED"
  /\ spc' = "close_wake"
  /\ UNCHANGED <<value, recv_waker, refcount, freed, receiver, toNobody>>

SenderCloseWake == TakeWaker("close_wake", "closed")

\* The receiver was not yet parked when the state was loaded.
SenderCloseQuietly ==
  /\ spc = "close_quietly"
  /\ state' = "CLOSED"
  /\ spc' = "closed"
  /\ UNCHANGED <<value, recv_waker, refcount, freed, receiver, toNobody>>

\* The sender's reference goes at the end of send() or drop.
SenderRelease ==
  /\ spc \in {"sent", "closed"}
  /\ Release
  /\ spc' = IF spc = "sent" THEN "sent_gone" ELSE "closed_gone"
  /\ UNCHANGED <<state, value, recv_waker, receiver, toNobody>>

-----------------------------------------------------------------------------
(* RecvFuture::poll *)

Sender == <<spc, toNobody>>

\* recv() makes the future; the executor polls it, first or again.
Poll ==
  /\ rpc = "fresh" \/ (rpc = "pending" /\ (woken \/ Spurious))
  /\ woken' = FALSE
  /\ rpc' = "load"
  /\ UNCHANGED <<shared, Sender, registered, recvd>>

\* Mutant: a state other than READY is taken for a closed channel.
PollLoadImpatient ==
  /\ rpc = "load"
  /\ rpc' = IF state = "READY" THEN "consume" ELSE "resolved"
  /\ recvd' = IF state = "READY" THEN recvd ELSE "closed"
  /\ UNCHANGED <<shared, Sender, registered, woken>>

PollLoad ==
  /\ rpc = "load"
  /\ rpc' = CASE state = "READY" -> "consume"
              [] state = "CLOSED" -> "resolved"
              [] state \in {"EMPTY", "WAITING"} -> "set_waker"
              [] OTHER -> "unreachable"
  /\ recvd' = IF state = "CLOSED" THEN "closed" ELSE recvd
  /\ UNCHANGED <<shared, Sender, registered, woken>>

SetWaker ==
  /\ rpc = "set_waker"
  /\ recv_waker' = TRUE
  /\ rpc' = IF registered THEN "recheck" ELSE "park"
  /\ UNCHANGED <<state, value, refcount, freed, Sender, registered, woken, recvd>>

\* The exchange EMPTY -> WAITING may fail; its outcome is ignored.
ParkCas ==
  /\ rpc = "park"
  /\ state' = IF state = "EMPTY" THEN "WAITING" ELSE state
  /\ registered' = TRUE
  /\ rpc' = "recheck"
  /\ UNCHANGED <<value, recv_waker, refcount, freed, Sender, woken, recvd>>

\* Mutant: no second look at the state after registering.
NoRecheck ==
  /\ rpc = "recheck"
  /\ rpc' = "pending"
  /\ UNCHANGED <<shared, Sender, registered, woken, recvd>>

Recheck ==
  /\ rpc = "recheck"
  /\ rpc' = CASE state = "READY" -> "consume"
              [] state = "CLOSED" -> "resolved"
              [] OTHER -> "pending"
  /\ recvd' = IF state = "CLOSED" THEN "closed" ELSE recvd
  /\ UNCHANGED <<shared, Sender, registered, woken>>

Consume ==
  /\ rpc = "consume"
  /\ state' = "CONSUMED"
  /\ rpc' = "take"
  /\ UNCHANGED <<value, recv_waker, refcount, freed, Sender, registered, woken, recvd>>

\* READY without a value is "unreachable".
TakeValue ==
  /\ rpc = "take"
  /\ value' = FALSE
  /\ rpc' = IF value THEN "resolved" ELSE "unreachable"
  /\ recvd' = IF value THEN "value" ELSE recvd
  /\ UNCHANGED <<state, recv_waker, refcount, freed, Sender, registered, woken>>

\* The receiver, its pending or its resolved future is dropped.
ReceiverDrop ==
  /\ rpc \in {"fresh", "pending", "resolved"}
  /\ Release
  /\ rpc' = "gone"
  /\ UNCHANGED <<state, value, recv_waker, Sender, registered, woken, recvd>>

-----------------------------------------------------------------------------
SenderStep ==
  \/ SendStore \/ SendLoad \/ SendCas \/ SendReady \/ SendWake
  \/ SenderDropLoad \/ SenderClose \/ SenderCloseWake \/ SenderCloseQuietly
  \/ SenderRelease

PollStep ==
  Poll \/ PollLoad \/ SetWaker \/ ParkCas \/ Recheck \/ Consume \/ TakeValue

OneshotNext == SenderStep \/ PollStep \/ ReceiverDrop

OneshotSpec == OneshotInit /\ [][OneshotNext]_oneshotVars

\* send() and drop run to their end once started, a poll runs to its end, and
\* a woken receiver is polled; nobody has to send or to drop.
OneshotFairness ==
  /\ WF_oneshotVars(spc # "fresh" /\ SenderStep)
  /\ WF_oneshotVars(rpc # "fresh" /\ (rpc = "pending" => woken) /\ PollStep)

OneshotFairSpec == OneshotSpec /\ OneshotFairness

-----------------------------------------------------------------------------
(* Properties *)

SenderPCs == {"fresh", "load", "cas", "ready", "send_wake", "sent", "close",
              "close_wake", "close_quietly", "closed", "sent_gone",
              "closed_gone", "unreachable"}
ReceiverPCs == {"fresh", "load", "set_waker", "park", "recheck", "consume",
                "take", "pending", "resolved", "gone", "unreachable"}

\* State, program counters and the reference count are in their ranges.
OneshotTypeOK ==
  /\ state \in {"EMPTY", "WAITING", "READY", "CONSUMED", "CLOSED"}
  /\ {value, recv_waker, freed, registered, woken, toNobody} \subseteq BOOLEAN
  /\ refcount \in 0 .. 2
  /\ spc \in SenderPCs /\ rpc \in ReceiverPCs
  /\ recvd \in {"nothing", "value", "closed"}

SenderGone == spc \in {"sent_gone", "closed_gone"}

\* oneshot.rs:58, "ptr is valid for the lifetime of all ref-counted holders":
\* the allocation is freed exactly when both sides have let go of it.
FreedWhenUnused == freed <=> SenderGone /\ rpc = "gone"

\* The three unreachable! arms are unreachable: the sender never finds a state
\* it cannot handle and the receiver never finds READY without its value.
NoUnreachable == spc # "unreachable" /\ rpc # "unreachable"

\* oneshot.rs:3, "resolves the receiver's future": a receiver resolves to the
\* value only if it was sent, and to Closed only if the sender was dropped.
ResolvedTruly ==
  /\ recvd = "value" => spc \in {"send_wake", "sent", "sent_gone"}
  /\ recvd = "closed" => spc \in {"close_wake", "closed", "closed_gone"}

\* oneshot.rs:3, once send() has returned, a receiver that is not dropped gets
\* the value, even if it is polled only when woken.
SentIsReceived ==
  spc = "sent_gone" /\ rpc \notin {"fresh", "gone"}
    ~> recvd = "value" \/ rpc = "gone"

-----------------------------------------------------------------------------
(* What the source's comments say and the code does not keep.  No run      *)
(* checks these; the README gives the counterexamples.                     *)

\* oneshot.rs:102, "The sender was dropped without sending a value": a receiver
\* whose sender was dropped learns of it.
DropIsNoticed ==
  spc = "closed_gone" /\ rpc \notin {"fresh", "gone"}
    ~> recvd = "closed" \/ rpc = "gone"

\* oneshot.rs:107, "Returns Err if receiver was dropped": send() does not
\* succeed when the receiver was gone before it was called.
SendReportsDropped == spc \in {"sent", "sent_gone"} => ~toNobody

\* oneshot.rs:135 and 159, "receiver is parked and owns the waker": sender and
\* receiver are never in the waker cell at the same time.
WakerCellExclusive ==
  ~(spc \in {"send_wake", "close_wake"} /\ rpc = "set_waker")
=============================================================================

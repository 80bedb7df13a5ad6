-------------------------------- MODULE Deque --------------------------------
(***************************************************************************)
(* The Chase-Lev work-stealing deque of task/stealer.rs: one owner that    *)
(* pushes and pops at the bottom, thieves that take from the top with      *)
(* steal() or steal_batch().  One action per access to a shared atomic or  *)
(* to a slot; the owner's own reads of bottom and of the buffer, which     *)
(* nobody else writes, share a step with its next shared access.           *)
(***************************************************************************)
EXTENDS Integers, Sequences, FiniteSets

CONSTANTS
  Items,         \* what is pushed, each once
  Thieves,       \* other cores that call steal()
  BatchThieves,  \* other cores that call steal_batch()
  BatchMax,      \* out.len(), 64 in try_steal()
  OwnerPops,     \* does the owner call pop()?
  InitCap,       \* MIN_CAPACITY, 64 in the source
  MaxCap         \* bound on growth: no push that would grow beyond it

ASSUME DequeAssumption ==
  /\ BatchMax \in Nat \ {0}
  /\ InitCap \in Nat \ {0} /\ MaxCap \in Nat
  /\ OwnerPops \in BOOLEAN

Stealers == Thieves \cup BatchThieves
Fields == {"data", "cap"}
None == "none"
NoBuffer == [data |-> 0, cap |-> 1]

VARIABLES
  bottom, top,
  buffer,  \* the slots of the newest allocation, from 0
  cap,     \* and their number
  gen,     \* how many allocations were freed: names the newest one
  struct,  \* the DequeBuffer in place: whose slots it points to, and its cap
  opc,     \* where the owner is
  ob, ot,  \* b and t in push() and pop()
  oval,    \* val in push() and pop()
  spc,     \* where each stealer is
  sb, st,  \* b and t in steal() and steal_batch()
  sbuf,    \* the fields of the DequeBuffer as get() has them
  out,     \* what it has read
  pushed,  \* history: the items pushed
  taken,   \* history: how often each item was handed out
  raced    \* history: one of the three races below has happened

owner == <<opc, ob, ot, oval>>
stealer == <<spc, sb, st, sbuf, out>>
dequeVars == <<bottom, top, buffer, cap, gen, struct, owner, stealer, pushed, taken, raced>>

DequeInit ==
  /\ bottom = 0 /\ top = 0
  /\ buffer = [i \in 0 .. InitCap - 1 |-> None]
  /\ cap = InitCap
  /\ gen = 0 /\ struct = [data |-> 0, cap |-> InitCap]
  /\ opc = "idle" /\ ob = 0 /\ ot = 0 /\ oval = None
  /\ spc = [s \in Stealers |-> "idle"]
  /\ sb = [s \in Stealers |-> 0] /\ st = [s \in Stealers |-> 0]
  /\ sbuf = [s \in Stealers |-> NoBuffer]
  /\ out = [s \in Stealers |-> <<>>]
  /\ pushed = {}
  /\ taken = [v \in Items |-> 0]
  /\ raced = FALSE

get(i) == buffer[i % cap]

\* The DequeBuffer that describes the newest allocation.
new_buf == [data |-> gen, cap |-> cap]

\* How many elements a stealing call wants: one, or to_steal.
Wanted(s) ==
  LET available == sb[s] - st[s]
  IN  IF s \in BatchThieves /\ available < BatchMax THEN available
      ELSE IF s \in BatchThieves THEN BatchMax ELSE 1

\* s has loaded both ends and is about to take, with others, the element at i.
Covers(s, i) ==
  spc[s] \in {"read", "cas"} /\ i \in st[s] .. st[s] + Wanted(s) - 1

\* The items of a sequence are handed to an executor.
HandOut(vs) ==
  taken' = [v \in Items |->
              taken[v] + Cardinality({i \in DOMAIN vs : vs[i] = v})]

-----------------------------------------------------------------------------
(* Worker::push *)

PushLoad(v) ==
  /\ opc = "idle" /\ v \notin pushed
  /\ ob' = bottom /\ ot' = top /\ oval' = v
  /\ IF bottom - top >= cap
     THEN 2 * cap <= MaxCap /\ opc' = "grow"
     ELSE opc' = "put"
  /\ pushed' = pushed \cup {v}
  /\ UNCHANGED <<bottom, top, buffer, cap, gen, struct, stealer, taken, raced>>

\* Mutant: the element at t is not copied.
GrowShort ==
  /\ opc = "grow"
  /\ buffer' = [j \in 0 .. 2 * cap - 1 |->
                  IF \E i \in ot + 1 .. ob - 1 : i % (2 * cap) = j
                  THEN get(CHOOSE i \in ot + 1 .. ob - 1 : i % (2 * cap) = j)
                  ELSE None]
  /\ cap' = 2 * cap
  /\ gen' = gen + 1
  /\ opc' = "replace"
  /\ UNCHANGED <<bottom, top, struct, ob, ot, oval, stealer, pushed, taken, raced>>

\* A copy of t .. b - 1 is made, and the old slots are freed: assigning to the
\* DequeBuffer in place drops the old one first.
Grow ==
  /\ opc = "grow"
  /\ buffer' = [j \in 0 .. 2 * cap - 1 |->
                  IF \E i \in ot .. ob - 1 : i % (2 * cap) = j
                  THEN get(CHOOSE i \in ot .. ob - 1 : i % (2 * cap) = j)
                  ELSE None]
  /\ cap' = 2 * cap
  /\ gen' = gen + 1
  /\ opc' = "replace"
  /\ UNCHANGED <<bottom, top, struct, ob, ot, oval, stealer, pushed, taken, raced>>

\* Then its fields are overwritten, in no particular order, for thieves to see.
Replace(f) ==
  /\ opc = "replace" /\ struct[f] # new_buf[f]
  /\ struct' = [struct EXCEPT ![f] = new_buf[f]]
  /\ opc' = IF struct' = new_buf THEN "put" ELSE "replace"
  /\ UNCHANGED <<bottom, top, buffer, cap, gen, ob, ot, oval, stealer, pushed, taken, raced>>

Put ==
  /\ opc = "put"
  /\ buffer' = [buffer EXCEPT ![ob % cap] = oval]
  /\ opc' = "publish"
  /\ UNCHANGED <<bottom, top, cap, gen, struct, ob, ot, oval, stealer, pushed, taken, raced>>

\* The locals of a finished call are forgotten.
OwnerReturns == opc' = "idle" /\ ob' = 0 /\ ot' = 0 /\ oval' = None

Publish ==
  /\ opc = "publish"
  /\ bottom' = ob + 1
  /\ OwnerReturns
  /\ UNCHANGED <<top, buffer, cap, gen, struct, stealer, pushed, taken, raced>>

-----------------------------------------------------------------------------
(* Worker::pop *)

PopDec ==
  /\ OwnerPops /\ opc = "idle"
  /\ ob' = bottom - 1
  /\ bottom' = bottom - 1
  /\ opc' = "pop"
  /\ UNCHANGED <<top, buffer, cap, gen, struct, ot, oval, stealer, pushed, taken, raced>>

\* More than one element: the bottom one is the owner's without a CAS, even if
\* a batch that covers it is under way (the first race).
PopMany ==
  /\ opc = "pop" /\ top < ob
  /\ HandOut(<<get(ob)>>)
  /\ raced' = (raced \/ \E s \in Stealers : Covers(s, ob))
  /\ OwnerReturns
  /\ UNCHANGED <<bottom, top, buffer, cap, gen, struct, stealer, pushed>>

\* Mutant: the last element is taken without competing for it.
PopLastNoCas ==
  /\ opc = "pop" /\ top = ob
  /\ ot' = top /\ oval' = get(ob)
  /\ HandOut(<<get(ob)>>)
  /\ opc' = "restore"
  /\ UNCHANGED <<bottom, top, buffer, cap, gen, struct, ob, stealer, pushed, raced>>

PopLast ==
  /\ opc = "pop" /\ top = ob
  /\ ot' = top /\ oval' = get(ob)
  /\ opc' = "cas"
  /\ UNCHANGED <<bottom, top, buffer, cap, gen, struct, ob, stealer, pushed, taken, raced>>

PopEmpty ==
  /\ opc = "pop" /\ top > ob
  /\ opc' = "restore"
  /\ UNCHANGED <<bottom, top, buffer, cap, gen, struct, ob, ot, oval, stealer, pushed, taken, raced>>

PopCas ==
  /\ opc = "cas"
  /\ IF top = ot
     THEN top' = ot + 1 /\ HandOut(<<oval>>)
     ELSE UNCHANGED <<top, taken>>
  /\ opc' = "restore"
  /\ UNCHANGED <<bottom, buffer, cap, gen, struct, ob, ot, oval, stealer, pushed, raced>>

PopRestore ==
  /\ opc = "restore"
  /\ bottom' = ob + 1
  /\ OwnerReturns
  /\ UNCHANGED <<top, buffer, cap, gen, struct, stealer, pushed, taken, raced>>

-----------------------------------------------------------------------------
(* Stealer::steal and, for several elements at once, Stealer::steal_batch *)

StealLoadTop(s) ==
  /\ spc[s] = "idle"
  /\ st' = [st EXCEPT ![s] = top]
  /\ spc' = [spc EXCEPT ![s] = "bottom"]
  /\ UNCHANGED <<bottom, top, buffer, cap, gen, struct, owner, sb, sbuf, out, pushed, taken, raced>>

StealerReturns(s) ==
  /\ spc' = [spc EXCEPT ![s] = "idle"]
  /\ st' = [st EXCEPT ![s] = 0] /\ sb' = [sb EXCEPT ![s] = 0]
  /\ sbuf' = [sbuf EXCEPT ![s] = NoBuffer] /\ out' = [out EXCEPT ![s] = <<>>]

StealEmpty(s) ==
  /\ spc[s] = "bottom" /\ bottom <= st[s]
  /\ StealerReturns(s)
  /\ UNCHANGED <<bottom, top, buffer, cap, gen, struct, owner, pushed, taken, raced>>

\* get() takes data and cap from the DequeBuffer in place, each at some moment
\* between the load of the bottom and the read: at the earliest right away ...
StealLoadBottom(s) ==
  /\ spc[s] = "bottom" /\ bottom > st[s]
  /\ sb' = [sb EXCEPT ![s] = bottom]
  /\ sbuf' = [sbuf EXCEPT ![s] = struct]
  /\ spc' = [spc EXCEPT ![s] = "read"]
  /\ UNCHANGED <<bottom, top, buffer, cap, gen, struct, owner, st, out, pushed, taken, raced>>

\* ... or later, which matters when the field has been overwritten since.
StealReload(s, f) ==
  /\ spc[s] = "read" /\ sbuf[s][f] # struct[f]
  /\ sbuf' = [sbuf EXCEPT ![s][f] = struct[f]]
  /\ UNCHANGED <<bottom, top, buffer, cap, gen, struct, owner, spc, sb, st, out, pushed, taken, raced>>

\* One element is read.  Freed slots (the second race) may yield any item that
\* was ever in them, or garbage, which None stands for.  The new data with the
\* old cap (the third race) may yield the slot of another index.
StealRead(s) ==
  /\ spc[s] = "read"
  /\ LET i    == st[s] + Len(out[s])
         slot == i % sbuf[s].cap
         live == sbuf[s].data = gen
     IN  /\ \E val \in IF live THEN {buffer[slot]} ELSE pushed \cup {None} :
              out' = [out EXCEPT ![s] = Append(@, val)]
         /\ raced' = (raced \/ ~live \/ slot # i % cap)
  /\ spc' = [spc EXCEPT ![s] = IF Len(out[s]) + 1 = Wanted(s) THEN "cas" ELSE "read"]
  /\ UNCHANGED <<bottom, top, buffer, cap, gen, struct, owner, sb, st, sbuf, pushed, taken>>

StealCas(s) ==
  /\ spc[s] = "cas"
  /\ IF top = st[s]
     THEN top' = st[s] + Len(out[s]) /\ HandOut(out[s])
     ELSE UNCHANGED <<top, taken>>
  /\ StealerReturns(s)
  /\ UNCHANGED <<bottom, buffer, cap, gen, struct, owner, pushed, raced>>

-----------------------------------------------------------------------------
Owner ==
  \/ \E v \in Items : PushLoad(v)
  \/ Grow \/ Put \/ Publish \/ \E f \in Fields : Replace(f)
  \/ PopDec \/ PopMany \/ PopLast \/ PopEmpty \/ PopCas \/ PopRestore

Steal(s) ==
  \/ StealLoadTop(s) \/ StealEmpty(s) \/ StealLoadBottom(s)
  \/ StealRead(s) \/ StealCas(s) \/ \E f \in Fields : StealReload(s, f)

DequeNext == Owner \/ \E s \in Stealers : Steal(s)

DequeSpec == DequeInit /\ [][DequeNext]_dequeVars

-----------------------------------------------------------------------------
(* Properties *)

Slots == Items \cup {None}
DequeBuffers == [data : 0 .. gen, cap : 1 .. cap]

\* Slots and locals hold items, the buffer has its capacity, and whoever has an
\* old one sees less of it.
DequeTypeOK ==
  /\ {bottom, top, ob, ot} \subseteq Int
  /\ cap \in Nat \ {0} /\ gen \in Nat
  /\ buffer \in [0 .. cap - 1 -> Slots]
  /\ struct \in DequeBuffers
  /\ opc \in {"idle", "grow", "replace", "put", "publish", "pop", "cas", "restore"}
  /\ oval \in Slots
  /\ spc \in [Stealers -> {"idle", "bottom", "read", "cas"}]
  /\ {st, sb} \subseteq [Stealers -> Int] 
  /\ sbuf \in [Stealers -> DequeBuffers]
  /\ out \in [Stealers -> Seq(Slots)]
  /\ pushed \subseteq Items /\ raced \in BOOLEAN
  /\ taken \in [Items -> Nat]

\* stealer.rs:123, "Last element, compete with stealers via CAS": no item is
\* handed out twice.
TakenOnce == \A v \in Items : taken[v] <= 1

\* However pops, single steals, batches and growth interleave, no item is
\* handed out twice, unless the owner popped an element that a batch under way
\* covers, or a stealer read slots that growth had freed, or it read another
\* slot because it saw the replaced buffer's data with the old buffer's cap.
TakenOnceUntilRaced == ~raced => TakenOnce

\* Unless one of these three races happened, nothing is lost: between calls the
\* items pushed and not yet taken are the ones in the slots from top to
\* bottom - 1, once each.
NothingLostUntilRaced ==
  ~raced /\ opc = "idle" /\ (\A s \in Stealers : spc[s] = "idle") =>
    /\ {get(i) : i \in top .. bottom - 1} = {v \in pushed : taken[v] = 0}
    /\ \A i, j \in top .. bottom - 1 : get(i) = get(j) => i = j

-----------------------------------------------------------------------------
(* What the source's comments say and the code does not keep.  No run      *)
(* checks these; the README gives the counterexamples.                     *)

\* stealer.rs:171, "No stealer reads during growth": a stealer about to read a
\* slot has the fields of the live buffer.
ReadsLiveBuffer == \A s \in Stealers : spc[s] = "read" => sbuf[s] = new_buf

\* stealer.rs:4, "it steals half of another core's deque": a successful batch
\* is at most half, rounded up, of what the thief saw.
StealsHalf ==
  \A s \in BatchThieves : spc[s] = "cas" => 2 * Len(out[s]) <= sb[s] - st[s] + 1
=============================================================================

----------------------------- MODULE HandleTable ----------------------------
(***************************************************************************)
(* The per-process handle tables of object/handle.rs and the rights of     *)
(* object/rights.rs.  create(), duplicate() and close() hold one table's   *)
(* spinlock throughout, so each is one step; transfer() takes two locks    *)
(* and is two steps.  get() and count() change nothing: Get below.         *)
(* A table is named by its address.                                        *)
(***************************************************************************)
EXTENDS Integers, FiniteSets

CONSTANTS
  Tables,         \* addresses of the tables
  Capacity,       \* slots of a table
  Generations,    \* number of generations of a slot, 2^32 in the source
  Objects,        \* kernel objects
  AllRights,      \* the rights bits
  CreateRights,   \* rights sets passed to create()
  MaskRights,     \* rights sets passed to duplicate()
  Threads,        \* callers of transfer()
  TransferPairs,  \* the <<self, dest>> of the transfers
  None            \* an absent entry or caller

ASSUME HandleTableAssumption ==
  /\ Tables \subseteq Int
  /\ Capacity \in Nat /\ Generations \in Nat \ {0}
  /\ CreateRights \subseteq SUBSET AllRights
  /\ MaskRights \subseteq SUBSET AllRights
  /\ TransferPairs \subseteq Tables \X Tables

DUPLICATE == "DUPLICATE"
TRANSFER == "TRANSFER"

Slots == 0 .. Capacity - 1
NoSlot == -1
Gen == 0 .. Generations - 1
Entry == [ko : Objects, rights : SUBSET AllRights]

Table == [generation : [Slots -> Gen], entry : [Slots -> Entry \cup {None}],
          next_free : [Slots -> Slots \cup {NoSlot}],
          free_head : Slots \cup {NoSlot}, count : Int]

\* Userspace may pass any value; Capacity stands for an index out of range.
Handle == [index : Slots \cup {Capacity}, generation : Gen]

Call == [self : Tables, dest : Tables, handle : Handle]

ASSUME NoneAssumption == None \notin Entry /\ None \notin Threads

VARIABLES
  tab,      \* the HandleTableInner of each table
  lock,     \* the thread inside a transfer() that holds the table's lock
  pc,
  call,     \* the arguments of each thread's transfer()
  live,     \* history: the handles in use, with what they stand for
  dead,     \* history: the handles closed or transferred away
  granted,  \* history: the rights passed to create() for each object
  wrapped,  \* history: a generation has overflowed
  ret       \* history: the outcome of the last call; valid is whether its
            \* handle argument named an entry of the table it was called on

vars == <<tab, lock, pc, call, live, dead, granted, wrapped, ret>>

NewTable ==
  [generation |-> [i \in Slots |-> 0],
   entry      |-> [i \in Slots |-> None],
   next_free  |-> [i \in Slots |-> IF i + 1 < Capacity THEN i + 1 ELSE NoSlot],
   free_head  |-> 0,
   count      |-> 0]

Init ==
  /\ tab = [t \in Tables |-> NewTable]
  /\ lock = [t \in Tables |-> None]
  /\ pc = [th \in Threads |-> "idle"]
  /\ call = [th \in Threads |-> None]
  /\ live = {} /\ dead = {}
  /\ granted = [o \in Objects |-> {}]
  /\ wrapped = FALSE
  /\ ret = [op |-> "none", ok |-> TRUE, valid |-> TRUE]

-----------------------------------------------------------------------------
(* Lookup and rights *)

\* get(): None if out of range, of another generation, or free.
Get(t, h) ==
  IF h.index \in Slots /\ tab[t].generation[h.index] = h.generation
  THEN tab[t].entry[h.index] ELSE None

\* Mutant: the new handle gets what was asked for.
DowngradeToAllowed(rights, allowed) == allowed

downgrade(rights, allowed) == rights \cap allowed

contains(rights, right) == right \in rights

Unlocked(t) == lock[t] = None

-----------------------------------------------------------------------------
(* The two halves of every operation: taking a slot and giving one back *)

\* Mutant: the allocated slot stays at the head of the free list.
AllocatedStays(T, e) ==
  [T EXCEPT !.entry[T.free_head] = e, !.count = @ + 1]

\* The head of the free list receives an entry.
Allocated(T, e) ==
  [generation |-> T.generation,
   entry      |-> [T.entry EXCEPT ![T.free_head] = e],
   next_free  |-> [T.next_free EXCEPT ![T.free_head] = NoSlot],
   free_head  |-> T.next_free[T.free_head],
   count      |-> T.count + 1]

\* Mutant: the generation is not bumped.
BumpedNever(g) == g

\* fetch_add on an AtomicU32 wraps.
Bumped(g) == (g + 1) % Generations

\* Mutant: the freed slot becomes the whole free list.
FreedDropsRest(T, i) ==
  [T EXCEPT !.entry[i] = None,
            !.generation[i] = Bumped(@),
            !.next_free[i] = NoSlot,
            !.free_head = i,
            !.count = @ - 1]

\* Slot i becomes the head of the free list.
Freed(T, i) ==
  [generation |-> [T.generation EXCEPT ![i] = Bumped(@)],
   entry      |-> [T.entry EXCEPT ![i] = None],
   next_free  |-> [T.next_free EXCEPT ![i] = T.free_head],
   free_head  |-> i,
   count      |-> T.count - 1]

Full(t) == tab[t].free_head = NoSlot

\* The handle that an allocation returns, with its entry.
Issued(t, e) ==
  [table |-> t, index |-> tab[t].free_head,
   generation |-> tab[t].generation[tab[t].free_head], entry |-> e]

InSlot(t, i) == {l \in live : l.table = t /\ l.index = i}

HandleOf(t, i) ==
  [table |-> t, index |-> i, generation |-> tab[t].generation[i]]

\* A slot is given back: its handles die.
Retire(t, i) ==
  /\ dead' = dead \cup {HandleOf(t, i)}
  /\ wrapped' = (wrapped \/ tab[t].generation[i] = Generations - 1)

Return(op, ok, valid) == ret' = [op |-> op, ok |-> ok, valid |-> valid]

-----------------------------------------------------------------------------
(* create(); Err(TableFull) when there is no free slot *)

Create(t, o, r) ==
  LET e == [ko |-> o, rights |-> r] IN
  /\ Unlocked(t) /\ ~Full(t)
  /\ tab' = [tab EXCEPT ![t] = Allocated(@, e)]
  /\ live' = live \cup {Issued(t, e)}
  /\ granted' = [granted EXCEPT ![o] = @ \cup r]
  /\ Return("create", TRUE, TRUE)
  /\ UNCHANGED <<lock, pc, call, dead, wrapped>>

CreateFull(t) ==
  /\ Unlocked(t) /\ Full(t)
  /\ Return("create", FALSE, TRUE)
  /\ UNCHANGED <<tab, lock, pc, call, live, dead, granted, wrapped>>

-----------------------------------------------------------------------------
(* duplicate() *)

MayDuplicate(t, h) ==
  /\ Get(t, h) # None
  /\ contains(Get(t, h).rights, DUPLICATE)
  /\ ~Full(t)

Duplicate(t, h, r) ==
  LET src == Get(t, h)
      e == [ko |-> src.ko, rights |-> downgrade(src.rights, r)] IN
  /\ Unlocked(t) /\ MayDuplicate(t, h)
  /\ tab' = [tab EXCEPT ![t] = Allocated(@, e)]
  /\ live' = live \cup {Issued(t, e)}
  /\ Return("duplicate", TRUE, TRUE)
  /\ UNCHANGED <<lock, pc, call, dead, granted, wrapped>>

\* InvalidHandle, AccessDenied or TableFull.
DuplicateFails(t, h) ==
  /\ Unlocked(t) /\ ~MayDuplicate(t, h)
  /\ Return("duplicate", FALSE, Get(t, h) # None)
  /\ UNCHANGED <<tab, lock, pc, call, live, dead, granted, wrapped>>

-----------------------------------------------------------------------------
(* close() *)

Close(t, h) ==
  /\ Unlocked(t) /\ Get(t, h) # None
  /\ tab' = [tab EXCEPT ![t] = Freed(@, h.index)]
  /\ live' = live \ InSlot(t, h.index)
  /\ Retire(t, h.index)
  /\ Return("close", TRUE, TRUE)
  /\ UNCHANGED <<lock, pc, call, granted>>

\* Only index and generation are checked: closing a free slot returns Ok.
CloseNothing(t, h) ==
  /\ Unlocked(t) /\ Get(t, h) = None
  /\ Return("close",
            h.index \in Slots /\ tab[t].generation[h.index] = h.generation, FALSE)
  /\ UNCHANGED <<tab, lock, pc, call, live, dead, granted, wrapped>>

-----------------------------------------------------------------------------
(* transfer(): the table at the lower address is locked first, and it is   *)
(* also the one in which the handle is looked up                           *)

\* Mutant: each caller locks its own table first.
FirstOfSelf(s, d) == s

First(s, d) == IF s < d THEN s ELSE d

Second(s, d) == IF First(s, d) = s THEN d ELSE s

TransferLock(th, s, d, h) ==
  /\ pc[th] = "idle" /\ Unlocked(First(s, d))
  /\ lock' = [lock EXCEPT ![First(s, d)] = th]
  /\ call' = [call EXCEPT ![th] = [self |-> s, dest |-> d, handle |-> h]]
  /\ pc' = [pc EXCEPT ![th] = "second"]
  /\ UNCHANGED <<tab, live, dead, granted, wrapped, ret>>

FirstOf(th) == First(call[th].self, call[th].dest)
SecondOf(th) == Second(call[th].self, call[th].dest)

\* The second lock is taken and both are released within the step.
LocksSecond(th) ==
  /\ pc[th] = "second" /\ Unlocked(SecondOf(th))
  /\ lock' = [lock EXCEPT ![FirstOf(th)] = None]
  /\ pc' = [pc EXCEPT ![th] = "idle"]
  /\ call' = [call EXCEPT ![th] = None]

MayTransfer(th) ==
  /\ Get(FirstOf(th), call[th].handle) # None
  /\ contains(Get(FirstOf(th), call[th].handle).rights, TRANSFER)
  /\ ~Full(SecondOf(th))

Transfer(th) ==
  LET i == call[th].handle.index
      e == Get(FirstOf(th), call[th].handle) IN
  /\ LocksSecond(th) /\ MayTransfer(th)
  /\ tab' = [tab EXCEPT ![SecondOf(th)] = Allocated(@, e),
                        ![FirstOf(th)] = Freed(@, i)]
  /\ live' = (live \ InSlot(FirstOf(th), i)) \cup {Issued(SecondOf(th), e)}
  /\ Retire(FirstOf(th), i)
  /\ Return("transfer", TRUE,
            FirstOf(th) = call[th].self /\ SecondOf(th) = call[th].dest)
  /\ UNCHANGED granted

\* InvalidHandle, AccessDenied or TableFull.
TransferFails(th) ==
  /\ LocksSecond(th) /\ ~MayTransfer(th)
  /\ Return("transfer", FALSE, Get(call[th].self, call[th].handle) # None)
  /\ UNCHANGED <<tab, live, dead, granted, wrapped>>

-----------------------------------------------------------------------------
TableStep(t) ==
  \/ \E o \in Objects, r \in CreateRights : Create(t, o, r)
  \/ CreateFull(t)
  \/ \E h \in Handle :
       \/ \E r \in MaskRights : Duplicate(t, h, r)
       \/ DuplicateFails(t, h) \/ Close(t, h) \/ CloseNothing(t, h)

TransferStep(th) ==
  \/ \E p \in TransferPairs, h \in Handle : TransferLock(th, p[1], p[2], h)
  \/ Transfer(th) \/ TransferFails(th)

Next == (\E t \in Tables : TableStep(t)) \/ (\E th \in Threads : TransferStep(th))

Spec == Init /\ [][Next]_vars

-----------------------------------------------------------------------------
(* Properties *)

\* Tables, locks and histories have their types.
TypeOK ==
  /\ tab \in [Tables -> Table]
  /\ lock \in [Tables -> Threads \cup {None}]
  /\ pc \in [Threads -> {"idle", "second"}]
  /\ call \in [Threads -> Call \cup {None}]
  /\ \A th \in Threads : pc[th] = "second" =>
       /\ call[th] \in Call
       /\ lock[FirstOf(th)] = th
  /\ live \subseteq [table : Tables, index : Slots, generation : Gen, entry : Entry]
  /\ dead \subseteq [table : Tables, index : Slots, generation : Gen]
  /\ granted \in [Objects -> SUBSET AllRights]
  /\ wrapped \in BOOLEAN
  /\ ret \in [op : {"none", "create", "duplicate", "close", "transfer"},
              ok : BOOLEAN, valid : BOOLEAN]

\* A handle that was issued and neither closed nor transferred still names its
\* entry: no slot is handed out twice and no free list runs into a used slot.
LiveHandlesResolve == \A l \in live : Get(l.table, l) = l.entry

\* handle.rs:4, "Uses generational indices to detect use-after-close": no
\* closed or transferred handle is accepted again, until a generation wraps.
StaleHandlesRejected ==
  ~wrapped => \A d \in dead : Get(d.table, d) = None

\* rights.rs:4, "Rights are monotonically lossy": no handle to an object has a
\* right that create() never granted for it, over any chain of duplicates and
\* transfers.
RightsNeverGrow ==
  \A l \in live : l.entry.rights \subseteq granted[l.entry.ko]

\* The n-th slot of a table's free list.
FreeList(t) ==
  LET nth[n \in 0 .. Capacity] ==
        IF n = 0 THEN tab[t].free_head
        ELSE IF nth[n - 1] = NoSlot THEN NoSlot ELSE tab[t].next_free[nth[n - 1]]
  IN  nth

\* Every slot without an entry can be allocated, and count is the number of
\* the others: the free list visits the free slots once each and ends.
FreeListComplete ==
  \A t \in Tables :
    LET free == {i \in Slots : tab[t].entry[i] = None}
    IN  /\ {FreeList(t)[n] : n \in 0 .. Capacity} \ {NoSlot} = free
        /\ FreeList(t)[Cardinality(free)] = NoSlot
        /\ tab[t].count = Capacity - Cardinality(free)

\* handle.rs:197, "Lock order: lower address first to prevent deadlock": when
\* transfers wait, some transfer can go on.
SomeTransferCanProceed ==
  (\E th \in Threads : pc[th] = "second") =>
    \E th \in Threads : pc[th] = "second" /\ Unlocked(SecondOf(th))

-----------------------------------------------------------------------------
(* What the source's comments say and the code does not keep.  No run      *)
(* checks these; the README gives the counterexamples.                     *)

\* handle.rs:4, "Uses generational indices to detect use-after-close", without
\* the exception for a generation that wraps.
UseAfterCloseDetected == \A d \in dead : Get(d.table, d) = None

\* handle.rs:196, "transfer a handle to another handle table": a transfer that
\* succeeds took its handle from the table it was called on.
TransferMovesOwnHandle == ret.op = "transfer" /\ ret.ok => ret.valid

\* handle.rs:166, "Close a handle. Returns Err if invalid".
CloseRejectsInvalid == ret.op = "close" /\ ret.ok => ret.valid

\* handle.rs:81, "Returns Err if table is full": a table without a free slot
\* has no free-list head, so that create() fails instead of indexing it.
FullHasNoHead ==
  \A t \in Tables : (\A i \in Slots : tab[t].entry[i] # None) => Full(t)
=============================================================================

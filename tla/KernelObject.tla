----------------------------- MODULE KernelObject ---------------------------
(***************************************************************************)
(* The intrusive reference count of object/kernel_object.rs, composed with *)
(* the handle tables whose entries hold references.  The object's creator  *)
(* has the reference the count starts with; everybody else holds a KoRef:  *)
(* an entry of a table, or a caller.  Each call on a table clones, moves   *)
(* or drops KoRefs in the step that changes the table.  Within transfer()  *)
(* a clone and a drop of the same object cancel out under the locks.       *)
(***************************************************************************)
EXTENDS HandleTable

CONSTANT MaxRefs   \* bound on the KoRefs callers hold of one object

ASSUME KernelObjectAssumption == MaxRefs \in Nat

VARIABLES
  refcount,   \* ObjectHeader::refcount
  owned,      \* objects whose creator still has its reference
  refs,       \* KoRefs of each object held by callers
  destroyed   \* objects whose last reference is gone: on_destroy() was called

koVars == <<refcount, owned, refs, destroyed>>

KoInit ==
  /\ Init
  /\ refcount = [o \in Objects |-> 1]
  /\ owned = Objects
  /\ refs = [o \in Objects |-> 0]
  /\ destroyed = {}

AddRef(o) ==
  refcount' = [refcount EXCEPT ![o] = @ + 1] /\ UNCHANGED destroyed

\* release(): whoever finds 1 has dropped the last reference.
Release(o) ==
  /\ refcount' = [refcount EXCEPT ![o] = @ - 1]
  /\ destroyed' = IF refcount[o] = 1 THEN destroyed \cup {o} ELSE destroyed

Gains(o) == refs[o] < MaxRefs /\ refs' = [refs EXCEPT ![o] = @ + 1]
Loses(o) == refs[o] > 0 /\ refs' = [refs EXCEPT ![o] = @ - 1]

-----------------------------------------------------------------------------
(* KoRef::new(), clone() and drop() by callers *)

\* Only through a valid reference.
NewRef(o) ==
  /\ o \in owned \/ refs[o] > 0
  /\ Gains(o) /\ AddRef(o)
  /\ UNCHANGED <<vars, owned>>

DropRef(o) == Loses(o) /\ Release(o) /\ UNCHANGED <<vars, owned>>

\* The creator gives up its reference.
OwnerRelease(o) ==
  /\ o \in owned /\ owned' = owned \ {o}
  /\ Release(o)
  /\ UNCHANGED <<vars, refs>>

-----------------------------------------------------------------------------
(* The tables' calls *)

\* create() moves the caller's KoRef into the entry.
KoCreate(t, o, r) ==
  /\ Create(t, o, r) /\ Loses(o)
  /\ UNCHANGED <<refcount, owned, destroyed>>

\* Err(TableFull) drops it.
KoCreateFull(t, o) ==
  /\ CreateFull(t) /\ Loses(o) /\ Release(o)
  /\ UNCHANGED owned

\* get() clones the entry's KoRef for the caller.
KoGet(t, h) ==
  /\ Unlocked(t) /\ Get(t, h) # None
  /\ Gains(Get(t, h).ko) /\ AddRef(Get(t, h).ko)
  /\ UNCHANGED <<vars, owned>>

\* Mutant: the copy shares the reference.
KoDuplicateShared(t, h, r) ==
  Duplicate(t, h, r) /\ UNCHANGED koVars

KoDuplicate(t, h, r) ==
  /\ Duplicate(t, h, r) /\ AddRef(Get(t, h).ko)
  /\ UNCHANGED <<owned, refs>>

KoClose(t, h) ==
  /\ Close(t, h) /\ Release(Get(t, h).ko)
  /\ UNCHANGED <<owned, refs>>

KoTableStep(t) ==
  \/ \E o \in Objects :
       KoCreateFull(t, o) \/ \E r \in CreateRights : KoCreate(t, o, r)
  \/ \E h \in Handle :
       \/ KoGet(t, h) \/ KoClose(t, h)
       \/ \E r \in MaskRights : KoDuplicate(t, h, r)
       \/ (DuplicateFails(t, h) \/ CloseNothing(t, h)) /\ UNCHANGED koVars

KoNext ==
  \/ \E o \in Objects : NewRef(o) \/ DropRef(o) \/ OwnerRelease(o)
  \/ \E t \in Tables : KoTableStep(t)
  \/ \E th \in Threads : TransferStep(th) /\ UNCHANGED koVars

KoSpec == KoInit /\ [][KoNext]_<<vars, koVars>>

-----------------------------------------------------------------------------
(* Properties *)

Named(o) == \E t \in Tables, i \in Slots :
              tab[t].entry[i] # None /\ tab[t].entry[i].ko = o

\* The counts and sets have their types.
KoTypeOK ==
  /\ refcount \in [Objects -> Nat] /\ refs \in [Objects -> 0 .. MaxRefs]
  /\ owned \subseteq Objects /\ destroyed \subseteq Objects

\* kernel_object.rs:111, "refcount ensures object outlives KoRefs", and line 98,
\* "Called when refcount drops to zero": an object is destroyed exactly when
\* neither its creator, nor a caller, nor an entry of any table refers to it.
DestroyedWhenUnreferenced ==
  \A o \in Objects :
    o \in destroyed <=> o \notin owned /\ refs[o] = 0 /\ ~Named(o)
=============================================================================

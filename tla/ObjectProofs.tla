---------------------------- MODULE ObjectProofs ----------------------------
(***************************************************************************)
(* Proofs about the handle tables and the objects they refer to, for any   *)
(* number of tables, slots, generations, objects and rights, under any     *)
(* interleaving of transfers.  The free list is described slot by slot:    *)
(* FreeListSound says that no pointer leads to a used slot and that no two *)
(* lead to the same one; ListInv adds that the pointers spell a list from  *)
(* free_head to its end.  The tables' theorems carry over to the reference *)
(* counts, whose steps are steps of the tables or leave them alone.        *)
(***************************************************************************)
EXTENDS KernelObject, Sequences, FiniteSetTheorems, WellFoundedInduction, TLAPS

FreeListSound(T) ==
  /\ \A i \in Slots : T.free_head = i => T.entry[i] = None
  /\ \A i, j \in Slots : T.next_free[i] = j =>
       T.entry[i] = None /\ T.entry[j] = None /\ T.free_head # j
  /\ \A i, j \in Slots :
       T.next_free[i] = T.next_free[j] /\ T.next_free[i] # NoSlot => i = j

\* A live handle's slot holds its entry under its generation.
LiveSound ==
  \A l \in live : /\ tab[l.table].generation[l.index] = l.generation
                  /\ tab[l.table].entry[l.index] = l.entry

\* The generation of a slot has passed those of its dead handles.
DeadSound ==
  ~wrapped => \A d \in dead : d.generation < tab[d.table].generation[d.index]

\* No entry has a right that its object was not granted.
RightsSound ==
  \A t \in Tables, i \in Slots :
    LET e == tab[t].entry[i] IN e # None => e.rights \subseteq granted[e.ko]

Inv ==
  /\ Capacity > 0
  /\ TypeOK
  /\ \A t \in Tables : FreeListSound(tab[t])
  /\ LiveSound /\ DeadSound /\ RightsSound

-----------------------------------------------------------------------------
(* Tables *)

LEMMA NewTableSound ==
  ASSUME Capacity > 0
  PROVE  NewTable \in Table /\ FreeListSound(NewTable)
<1> USE HandleTableAssumption
<1>1. NewTable \in Table
  BY DEF NewTable, Table, Slots, NoSlot, Gen
<1>2. FreeListSound(NewTable)
  BY DEF FreeListSound, NewTable, Slots, NoSlot
<1> QED
  BY <1>1, <1>2

\* Taking the head of the free list disturbs no other slot.
LEMMA AllocatedSound ==
  ASSUME NEW T \in Table, FreeListSound(T), T.free_head # NoSlot, NEW e \in Entry
  PROVE  LET U == Allocated(T, e) IN
         /\ U \in Table /\ FreeListSound(U)
         /\ T.free_head \in Slots /\ T.entry[T.free_head] = None
         /\ U.generation = T.generation
         /\ U.entry = [T.entry EXCEPT ![T.free_head] = e]
<1> DEFINE f == T.free_head
           U == Allocated(T, e)
<1>1. f \in Slots /\ T.entry[f] = None
  BY DEF Table, FreeListSound
<1>2. U \in Table
  BY <1>1 DEF Table, Allocated
<1>3. FreeListSound(U)
  BY <1>1, NoneAssumption, HandleTableAssumption
     DEF Table, FreeListSound, NoSlot, Slots, Allocated
<1> QED
  BY <1>1, <1>2, <1>3 DEF Allocated

LEMMA GenRange ==
  ASSUME NEW g \in Gen
  PROVE  /\ Bumped(g) \in Gen
         /\ g # Generations - 1 => Bumped(g) = g + 1
  BY HandleTableAssumption DEF Gen, Bumped

\* Giving back a used slot disturbs no other.
LEMMA FreedSound ==
  ASSUME NEW T \in Table, FreeListSound(T), NEW i \in Slots, T.entry[i] # None
  PROVE  LET U == Freed(T, i) IN
         /\ U \in Table /\ FreeListSound(U)
         /\ U.generation = [T.generation EXCEPT ![i] = Bumped(@)]
         /\ U.entry = [T.entry EXCEPT ![i] = None]
<1> DEFINE U == Freed(T, i)
<1>1. U \in Table
  BY GenRange DEF Table, Freed
<1>2. FreeListSound(U)
  BY HandleTableAssumption DEF Table, FreeListSound, NoSlot, Slots, Freed
<1> QED
  BY <1>1, <1>2 DEF Freed

-----------------------------------------------------------------------------
(* Steps *)

LEMMA InitInv == Init /\ Capacity > 0 => Inv
<1> SUFFICES ASSUME Init, Capacity > 0 PROVE Inv
  OBVIOUS
<1>1. NewTable \in Table /\ FreeListSound(NewTable)
  BY NewTableSound
<1>2. TypeOK
  BY <1>1 DEF Init, TypeOK
<1>3. LiveSound /\ DeadSound
  BY DEF Init, LiveSound, DeadSound
<1>4. RightsSound
  BY DEF Init, RightsSound, NewTable
<1>5. \A t \in Tables : FreeListSound(tab[t])
  BY <1>1 DEF Init
<1> QED
  BY <1>2, <1>3, <1>4, <1>5 DEF Inv

\* What Get returns is the entry of a used slot.
LEMMA GetEntry ==
  ASSUME TypeOK, NEW t \in Tables, NEW h \in Handle, Get(t, h) # None
  PROVE  /\ h.index \in Slots
         /\ Get(t, h) = tab[t].entry[h.index] /\ Get(t, h) \in Entry
  BY DEF Get, TypeOK, Table

\* An allocation of an entry within the granted rights.
LEMMA AllocateStep ==
  ASSUME Inv, NEW t \in Tables, NEW e \in Entry, ~Full(t),
         tab' = [tab EXCEPT ![t] = Allocated(@, e)],
         live' = live \cup {Issued(t, e)},
         UNCHANGED <<dead, wrapped>>,
         granted' \in [Objects -> SUBSET AllRights],
         \A o \in Objects : granted[o] \subseteq granted'[o],
         e.rights \subseteq granted'[e.ko]
  PROVE  /\ tab' \in [Tables -> Table]
         /\ live' \subseteq [table : Tables, index : Slots, generation : Gen,
                             entry : Entry]
         /\ \A u \in Tables : FreeListSound(tab'[u])
         /\ LiveSound' /\ DeadSound' /\ RightsSound'
<1> DEFINE T == tab[t]
           U == Allocated(T, e)
           f == T.free_head
<1>1. T \in Table /\ FreeListSound(T) /\ f # NoSlot
  BY DEF Inv, TypeOK, Full
<1>2. /\ U \in Table /\ FreeListSound(U) /\ f \in Slots /\ T.entry[f] = None
      /\ U.generation = T.generation /\ U.entry = [T.entry EXCEPT ![f] = e]
  BY <1>1, AllocatedSound
<1>3. /\ tab'[t] = U
      /\ \A u \in Tables : u # t => tab'[u] = tab[u]
      /\ tab' \in [Tables -> Table]
  BY <1>2 DEF Inv, TypeOK
<1>4. Issued(t, e) = [table |-> t, index |-> f, generation |-> T.generation[f],
                      entry |-> e]
  BY DEF Issued
<1>5. T.generation[f] \in Gen /\ T.entry \in [Slots -> Entry \cup {None}]
  BY <1>1, <1>2 DEF Table
<1> HIDE DEF T, U, f
<1>6. live' \subseteq [table : Tables, index : Slots, generation : Gen, entry : Entry]
  BY <1>2, <1>4, <1>5 DEF Inv, TypeOK
<1>7. \A u \in Tables : FreeListSound(tab'[u])
  BY <1>2, <1>3 DEF Inv
<1>8. \A u \in Tables, i \in Slots :
        /\ tab'[u].generation[i] = tab[u].generation[i]
        /\ u # t \/ i # f => tab'[u].entry[i] = tab[u].entry[i]
  BY <1>2, <1>3, <1>5 DEF T
<1>9. tab'[t].entry[f] = e /\ tab[t].entry[f] = None
  BY <1>2, <1>3, <1>5 DEF T
<1>10. LiveSound'
  <2> SUFFICES ASSUME NEW l \in live'
               PROVE  /\ tab'[l.table].generation[l.index] = l.generation
                      /\ tab'[l.table].entry[l.index] = l.entry
    BY DEF LiveSound
  <2>1. CASE l = Issued(t, e)
    BY <1>2, <1>4, <1>8, <1>9, <2>1 DEF T
  <2>2. CASE l \in live
    <3>1. /\ l.table \in Tables /\ l.index \in Slots /\ l.entry \in Entry
          /\ tab[l.table].generation[l.index] = l.generation
          /\ tab[l.table].entry[l.index] = l.entry
      BY <2>2 DEF Inv, TypeOK, LiveSound
    <3>2. l.table # t \/ l.index # f
      BY <1>9, <3>1, NoneAssumption
    <3> QED
      BY <1>8, <3>1, <3>2
  <2> QED
    BY <2>1, <2>2
<1>11. DeadSound'
  BY <1>8 DEF Inv, TypeOK, DeadSound
<1>12. RightsSound'
  <2> SUFFICES ASSUME NEW u \in Tables, NEW i \in Slots, tab'[u].entry[i] # None
               PROVE  tab'[u].entry[i].rights \subseteq granted'[tab'[u].entry[i].ko]
    BY DEF RightsSound
  <2>1. CASE u = t /\ i = f
    BY <1>9, <2>1
  <2>2. CASE u # t \/ i # f
    <3>1. tab'[u].entry[i] = tab[u].entry[i] /\ tab[u].entry[i] \in Entry
      BY <1>8, <2>2 DEF Inv, TypeOK, Table
    <3>2. tab[u].entry[i].rights \subseteq granted[tab[u].entry[i].ko]
      BY <3>1, NoneAssumption DEF Inv, RightsSound
    <3>3. tab[u].entry[i].ko \in Objects
      BY <3>1 DEF Entry
    <3> QED
      BY <3>1, <3>2, <3>3
  <2> QED
    BY <2>1, <2>2
<1> QED
  BY <1>3, <1>6, <1>7, <1>10, <1>11, <1>12

LEMMA CreateStep ==
  ASSUME Inv, NEW t \in Tables, NEW o \in Objects, NEW r \in CreateRights,
         Create(t, o, r)
  PROVE  Inv'
<1> DEFINE e == [ko |-> o, rights |-> r]
<1>1. /\ tab' = [tab EXCEPT ![t] = Allocated(@, e)]
      /\ live' = live \cup {Issued(t, e)}
      /\ UNCHANGED <<dead, wrapped>> /\ ~Full(t)
      /\ granted' = [granted EXCEPT ![o] = @ \cup r]
      /\ UNCHANGED <<lock, pc, call>>
      /\ ret' = [op |-> "create", ok |-> TRUE, valid |-> TRUE]
  BY DEF Create, Return
<1>2. e \in Entry /\ e.rights = r /\ e.ko = o /\ r \subseteq AllRights
  BY HandleTableAssumption DEF Entry
<1> HIDE DEF e
<1>3. granted \in [Objects -> SUBSET AllRights]
  BY DEF Inv, TypeOK
<1>4. /\ granted' \in [Objects -> SUBSET AllRights]
      /\ \A p \in Objects : granted[p] \subseteq granted'[p]
      /\ r \subseteq granted'[o]
  BY <1>1, <1>2, <1>3
<1>5. /\ tab' \in [Tables -> Table]
      /\ live' \subseteq [table : Tables, index : Slots, generation : Gen,
                          entry : Entry]
      /\ \A u \in Tables : FreeListSound(tab'[u])
      /\ LiveSound' /\ DeadSound' /\ RightsSound'
  BY <1>1, <1>2, <1>4, AllocateStep
<1>6. TypeOK'
  BY <1>1, <1>4, <1>5 DEF Inv, TypeOK, FirstOf
<1> QED
  BY <1>5, <1>6 DEF Inv

LEMMA DuplicateStep ==
  ASSUME Inv, NEW t \in Tables, NEW h \in Handle, NEW r \in MaskRights,
         Duplicate(t, h, r)
  PROVE  Inv'
<1> DEFINE src == Get(t, h)
           e == [ko |-> src.ko, rights |-> downgrade(src.rights, r)]
<1>1. /\ tab' = [tab EXCEPT ![t] = Allocated(@, e)]
      /\ live' = live \cup {Issued(t, e)}
      /\ UNCHANGED <<dead, wrapped>> /\ ~Full(t) /\ src # None
      /\ UNCHANGED <<lock, pc, call, granted>>
      /\ ret' = [op |-> "duplicate", ok |-> TRUE, valid |-> TRUE]
  BY DEF Duplicate, Return, MayDuplicate
<1>2. h.index \in Slots /\ src = tab[t].entry[h.index] /\ src \in Entry
  BY <1>1, GetEntry DEF Inv
<1> HIDE DEF src
<1>3. src.rights \subseteq granted[src.ko]
  BY <1>1, <1>2 DEF Inv, RightsSound
<1>4. e \in Entry /\ e.ko = src.ko /\ e.rights \subseteq granted[e.ko]
  BY <1>2, <1>3 DEF Entry, downgrade
<1> HIDE DEF e
<1>5. /\ granted' \in [Objects -> SUBSET AllRights]
      /\ \A p \in Objects : granted[p] \subseteq granted'[p]
      /\ e.rights \subseteq granted'[e.ko]
  BY <1>1, <1>4 DEF Inv, TypeOK
<1>6. /\ tab' \in [Tables -> Table]
      /\ live' \subseteq [table : Tables, index : Slots, generation : Gen,
                          entry : Entry]
      /\ \A u \in Tables : FreeListSound(tab'[u])
      /\ LiveSound' /\ DeadSound' /\ RightsSound'
  BY <1>1, <1>4, <1>5, AllocateStep
<1>7. TypeOK'
  BY <1>1, <1>5, <1>6 DEF Inv, TypeOK, FirstOf
<1> QED
  BY <1>6, <1>7 DEF Inv

\* The other slots of all tables keep their generations and their entries.
OthersKept(F, i) ==
  \A u \in Tables, j \in Slots : u # F \/ j # i =>
    /\ tab'[u].generation[j] = tab[u].generation[j]
    /\ tab[u].entry[j] # None => tab'[u].entry[j] = tab[u].entry[j]

\* Handles of other slots survive, and so do new ones that resolve.
LEMMA SurvivorsStep ==
  ASSUME Inv, NEW F \in Tables, NEW i \in Slots, NEW New,
         live' = (live \ InSlot(F, i)) \cup New, OthersKept(F, i),
         \A l \in New : /\ tab'[l.table].generation[l.index] = l.generation
                        /\ tab'[l.table].entry[l.index] = l.entry
  PROVE  LiveSound'
<1> SUFFICES ASSUME NEW l \in live, l \notin InSlot(F, i)
             PROVE  /\ tab'[l.table].generation[l.index] = l.generation
                    /\ tab'[l.table].entry[l.index] = l.entry
  BY DEF LiveSound
<1>1. /\ l.table \in Tables /\ l.index \in Slots /\ l.entry \in Entry
      /\ tab[l.table].generation[l.index] = l.generation
      /\ tab[l.table].entry[l.index] = l.entry
  BY DEF Inv, TypeOK, LiveSound
<1>2. l.table # F \/ l.index # i
  BY DEF InSlot
<1> QED
  BY <1>1, <1>2, NoneAssumption DEF OthersKept

\* The retired slot moves on to a generation none of its handles had.
LEMMA RetireStep ==
  ASSUME Inv, NEW F \in Tables, NEW i \in Slots, Retire(F, i), OthersKept(F, i),
         tab'[F].generation[i] = Bumped(tab[F].generation[i])
  PROVE  /\ DeadSound'
         /\ dead' \subseteq [table : Tables, index : Slots, generation : Gen]
         /\ wrapped' \in BOOLEAN
<1> DEFINE g == tab[F].generation[i]
           new == [table |-> F, index |-> i, generation |-> g]
<1>1. g \in Gen /\ Gen \subseteq Int /\ g \in Int
  BY DEF Inv, TypeOK, Table, Gen
<1>2. dead' = dead \cup {new} /\ wrapped' = (wrapped \/ g = Generations - 1)
  BY DEF Retire, HandleOf
<1>3. dead' \subseteq [table : Tables, index : Slots, generation : Gen]
  BY <1>1, <1>2 DEF Inv, TypeOK
<1>4. wrapped' \in BOOLEAN
  BY <1>2 DEF Inv, TypeOK
<1>5. ASSUME ~wrapped', NEW d \in dead'
      PROVE  d.generation < tab'[d.table].generation[d.index]
  <2>1. ~wrapped /\ g # Generations - 1
    BY <1>2, <1>5
  <2>2. tab'[F].generation[i] = g + 1
    BY <1>1, <2>1, GenRange
  <2> HIDE DEF g
  <2>3. CASE d = new
    <3>1. d.table = F /\ d.index = i /\ d.generation = g
      BY <2>3
    <3>2. g < g + 1
      BY <1>1
    <3>3. tab'[d.table].generation[d.index] = g + 1
      BY <2>2, <3>1, Zenon
    <3> QED
      BY <3>1, <3>2, <3>3, Zenon
  <2>4. CASE d \in dead
    <3>1. /\ d.table \in Tables /\ d.index \in Slots /\ d.generation \in Int
          /\ d.generation < tab[d.table].generation[d.index]
      BY <1>1, <2>1, <2>4 DEF Inv, TypeOK, DeadSound
    <3>2. CASE d.table = F /\ d.index = i
      <4>1. d.generation < g
        BY <3>1, <3>2 DEF g
      <4>2. d.generation < g + 1
        BY <1>1, <3>1, <4>1
      <4>3. tab'[d.table].generation[d.index] = g + 1
        BY <2>2, <3>2, Zenon
      <4> QED
        BY <4>2, <4>3, Zenon
    <3>3. CASE d.table # F \/ d.index # i
      BY <3>1, <3>3 DEF OthersKept
    <3> QED
      BY <3>2, <3>3
  <2> QED
    BY <1>2, <1>5, <2>3, <2>4
<1> QED
  BY <1>3, <1>4, <1>5 DEF DeadSound

LEMMA CloseStep ==
  ASSUME Inv, NEW t \in Tables, NEW h \in Handle, Close(t, h)
  PROVE  Inv'
<1> DEFINE i == h.index
           T == tab[t]
           U == Freed(T, i)
<1>1. /\ tab' = [tab EXCEPT ![t] = Freed(@, i)]
      /\ live' = live \ InSlot(t, i)
      /\ Retire(t, i) /\ Get(t, h) # None
      /\ UNCHANGED <<lock, pc, call, granted>>
      /\ ret' = [op |-> "close", ok |-> TRUE, valid |-> TRUE]
  BY DEF Close, Return
<1>2. i \in Slots /\ T.entry[i] # None /\ T \in Table /\ FreeListSound(T)
  BY <1>1, GetEntry DEF Inv, TypeOK
<1>3. /\ U \in Table /\ FreeListSound(U)
      /\ U.generation = [T.generation EXCEPT ![i] = Bumped(@)]
      /\ U.entry = [T.entry EXCEPT ![i] = None]
  BY <1>2, FreedSound
<1>4. /\ tab' \in [Tables -> Table] /\ tab'[t] = U
      /\ \A u \in Tables : u # t => tab'[u] = tab[u]
  BY <1>1, <1>3 DEF Inv, TypeOK
<1>5. /\ T.generation \in [Slots -> Gen]
      /\ T.entry \in [Slots -> Entry \cup {None}]
  BY <1>2 DEF Table
<1> HIDE DEF U
<1>6. OthersKept(t, i) /\ tab'[t].generation[i] = Bumped(tab[t].generation[i])
  BY <1>2, <1>3, <1>4, <1>5 DEF OthersKept
<1>7. \A u \in Tables, j \in Slots :
        tab'[u].entry[j] # None => tab'[u].entry[j] = tab[u].entry[j]
  BY <1>2, <1>3, <1>4, <1>5
<1> HIDE DEF i, T
<1>8. /\ DeadSound' /\ wrapped' \in BOOLEAN
      /\ dead' \subseteq [table : Tables, index : Slots, generation : Gen]
  BY <1>1, <1>2, <1>6, RetireStep
<1>9. LiveSound'
  <2> DEFINE New == {}
  <2>1. live' = (live \ InSlot(t, i)) \cup New
    BY <1>1
  <2>2. \A l \in New : /\ tab'[l.table].generation[l.index] = l.generation
                      /\ tab'[l.table].entry[l.index] = l.entry
    OBVIOUS
  <2> HIDE DEF New
  <2> QED
    BY <1>2, <1>6, <2>1, <2>2, SurvivorsStep, Zenon
<1>10. RightsSound'
  BY <1>1, <1>7 DEF Inv, RightsSound
<1>11. TypeOK'
  BY <1>1, <1>4, <1>8 DEF Inv, TypeOK, FirstOf
<1>12. \A u \in Tables : FreeListSound(tab'[u])
  BY <1>3, <1>4 DEF Inv
<1> QED
  BY <1>8, <1>9, <1>10, <1>11, <1>12 DEF Inv

LEMMA TransferStepInv ==
  ASSUME Inv, NEW th \in Threads, Transfer(th)
  PROVE  Inv'
<1> DEFINE F == FirstOf(th)
           S == SecondOf(th)
           h == call[th].handle
           i == h.index
           e == Get(F, h)
           TF == tab[F]
           TS == tab[S]
           UF == Freed(TF, i)
           US == Allocated(TS, e)
           f == TS.free_head
<1>1. /\ tab' = [tab EXCEPT ![S] = Allocated(@, e), ![F] = Freed(@, i)]
      /\ live' = (live \ InSlot(F, i)) \cup {Issued(S, e)}
      /\ Retire(F, i) /\ e # None /\ ~Full(S)
      /\ UNCHANGED granted
      /\ ret' = [op |-> "transfer", ok |-> TRUE,
                 valid |-> F = call[th].self /\ S = call[th].dest]
  BY DEF Transfer, Return, MayTransfer
<1>2. /\ pc[th] = "second" /\ lock[S] = None /\ lock[F] = th
      /\ pc' = [pc EXCEPT ![th] = "idle"]
      /\ lock' = [lock EXCEPT ![F] = None]
      /\ call' = [call EXCEPT ![th] = None]
  BY DEF Transfer, LocksSecond, Unlocked, Inv, TypeOK
<1>3. /\ F \in Tables /\ S \in Tables /\ h \in Handle
  BY <1>2 DEF Inv, TypeOK, FirstOf, SecondOf, First, Second, Call
<1>4. F # S
  BY <1>2, NoneAssumption
<1>5. /\ i \in Slots /\ e = TF.entry[i] /\ e \in Entry
      /\ TF \in Table /\ FreeListSound(TF)
      /\ TS \in Table /\ FreeListSound(TS) /\ f # NoSlot
  BY <1>1, <1>3, GetEntry DEF Inv, TypeOK, Full
<1>6. /\ UF \in Table /\ FreeListSound(UF)
      /\ UF.generation = [TF.generation EXCEPT ![i] = Bumped(@)]
      /\ UF.entry = [TF.entry EXCEPT ![i] = None]
  BY <1>1, <1>5, FreedSound
<1>7. /\ US \in Table /\ FreeListSound(US) /\ f \in Slots /\ TS.entry[f] = None
      /\ US.generation = TS.generation /\ US.entry = [TS.entry EXCEPT ![f] = e]
  BY <1>5, AllocatedSound
<1>8. /\ TF.generation \in [Slots -> Gen] /\ TS.generation \in [Slots -> Gen]
      /\ TF.entry \in [Slots -> Entry \cup {None}]
      /\ TS.entry \in [Slots -> Entry \cup {None}]
  BY <1>5 DEF Table
<1>9. Issued(S, e) = [table |-> S, index |-> f, generation |-> TS.generation[f],
                      entry |-> e]
  BY DEF Issued
<1>10. /\ tab' \in [Tables -> Table] /\ tab'[F] = UF /\ tab'[S] = US
       /\ \A u \in Tables : u # F /\ u # S => tab'[u] = tab[u]
  <2>1. tab \in [Tables -> Table]
    BY DEF Inv, TypeOK
  <2> HIDE DEF F, S, h, i, e
  <2> QED
    BY <1>1, <1>3, <1>4, <1>6, <1>7, <2>1
<1> HIDE DEF F, S, h, i, e, UF, US, f
<1>11. OthersKept(F, i) /\ tab'[F].generation[i] = Bumped(tab[F].generation[i])
  BY <1>3, <1>4, <1>5, <1>6, <1>7, <1>8, <1>10 DEF OthersKept
<1>12. /\ tab'[S].entry[f] = e /\ tab'[S].generation[f] = TS.generation[f]
  BY <1>7, <1>8, <1>10
<1>13. \A u \in Tables, j \in Slots : tab'[u].entry[j] # None /\ (u # S \/ j # f)
         => tab'[u].entry[j] = tab[u].entry[j]
  BY <1>3, <1>4, <1>5, <1>6, <1>7, <1>8, <1>10
<1>14. e.rights \subseteq granted[e.ko]
  BY <1>1, <1>3, <1>5 DEF Inv, RightsSound
<1>15. /\ DeadSound' /\ wrapped' \in BOOLEAN
       /\ dead' \subseteq [table : Tables, index : Slots, generation : Gen]
  BY <1>1, <1>3, <1>5, <1>11, RetireStep
<1>16. LiveSound'
  <2> DEFINE New == {Issued(S, e)}
  <2>1. live' = (live \ InSlot(F, i)) \cup New
    BY <1>1
  <2>2. \A l \in New : /\ tab'[l.table].generation[l.index] = l.generation
                      /\ tab'[l.table].entry[l.index] = l.entry
    BY <1>9, <1>12
  <2> HIDE DEF New
  <2> QED
    BY <1>3, <1>5, <1>11, <2>1, <2>2, SurvivorsStep, Zenon
<1>17. RightsSound'
  BY <1>1, <1>12, <1>13, <1>14, ZenonT(30) DEF Inv, RightsSound
<1>18. \A u \in Tables : FreeListSound(tab'[u])
  BY <1>6, <1>7, <1>10 DEF Inv
<1>19. live' \subseteq [table : Tables, index : Slots, generation : Gen,
                        entry : Entry]
  BY <1>1, <1>3, <1>5, <1>7, <1>8, <1>9 DEF Inv, TypeOK
<1>20. /\ lock' \in [Tables -> Threads \cup {None}]
       /\ call' \in [Threads -> Call \cup {None}]
       /\ pc' \in [Threads -> {"idle", "second"}]
       /\ \A u \in Threads : pc'[u] = "second" =>
            /\ call'[u] \in Call
            /\ lock'[FirstOf(u)'] = u
  <2>1. ASSUME NEW u \in Threads, pc'[u] = "second"
        PROVE  /\ call'[u] \in Call
               /\ lock'[FirstOf(u)'] = u
    <3>1. u # th /\ pc[u] = "second"
      BY <1>2, <2>1 DEF Inv, TypeOK
    <3>2. /\ call[u] \in Call
          /\ lock[FirstOf(u)] = u
      BY <3>1 DEF Inv, TypeOK
    <3>3. call'[u] = call[u]
      BY <1>2, <3>1
    <3>4. FirstOf(u)' = FirstOf(u) /\ FirstOf(u) \in Tables
      BY <3>2, <3>3 DEF FirstOf, First, Call
    <3> QED
      BY <1>2, <3>1, <3>2, <3>3, <3>4 DEF Inv, TypeOK
  <2> QED
    BY <1>2, <2>1 DEF Inv, TypeOK
<1>21. TypeOK'
  BY <1>1, <1>10, <1>15, <1>19, <1>20 DEF Inv, TypeOK
<1> QED
  BY <1>15, <1>16, <1>17, <1>18, <1>21 DEF Inv

\* A thread that takes its first lock holds it while it waits for the second.
LEMMA TransferLockStep ==
  ASSUME Inv, NEW th \in Threads, NEW p \in TransferPairs, NEW h \in Handle,
         TransferLock(th, p[1], p[2], h)
  PROVE  Inv'
<1> DEFINE F == First(p[1], p[2])
           c == [self |-> p[1], dest |-> p[2], handle |-> h]
<1>1. p[1] \in Tables /\ p[2] \in Tables
  BY HandleTableAssumption
<1>2. F \in Tables /\ c \in Call
  BY <1>1 DEF First, Call
<1>3. /\ pc[th] = "idle" /\ lock[F] = None
      /\ lock' = [lock EXCEPT ![F] = th]
      /\ call' = [call EXCEPT ![th] = c]
      /\ pc' = [pc EXCEPT ![th] = "second"]
      /\ UNCHANGED <<tab, live, dead, granted, wrapped, ret>>
  BY DEF TransferLock, Unlocked
<1>4. First(c.self, c.dest) = F
  OBVIOUS
<1> HIDE DEF F, c
<1>5. /\ lock' \in [Tables -> Threads \cup {None}]
      /\ call' \in [Threads -> Call \cup {None}]
      /\ pc' \in [Threads -> {"idle", "second"}]
  BY <1>2, <1>3 DEF Inv, TypeOK
<1>6. ASSUME NEW u \in Threads, pc'[u] = "second"
      PROVE  /\ call'[u] \in Call
             /\ lock'[FirstOf(u)'] = u
  <2>1. CASE u = th
    <3>1. call'[u] = c
      BY <1>3, <2>1 DEF Inv, TypeOK
    <3>2. FirstOf(u)' = F
      BY <1>4, <3>1 DEF FirstOf
    <3> QED
      BY <1>2, <1>3, <2>1, <3>1, <3>2 DEF Inv, TypeOK
  <2>2. CASE u # th
    <3>1. pc[u] = "second" /\ call'[u] = call[u]
      BY <1>3, <1>6, <2>2 DEF Inv, TypeOK
    <3>2. /\ call[u] \in Call
          /\ lock[FirstOf(u)] = u
      BY <3>1 DEF Inv, TypeOK
    <3>3. FirstOf(u)' = FirstOf(u) /\ FirstOf(u) \in Tables
      BY <3>1, <3>2 DEF FirstOf, First, Call
    <3>4. FirstOf(u) # F
      BY <1>3, <3>2, NoneAssumption
    <3> QED
      BY <1>2, <1>3, <3>1, <3>2, <3>3, <3>4 DEF Inv, TypeOK
  <2> QED
    BY <2>1, <2>2
<1>7. TypeOK'
  BY <1>3, <1>5, <1>6 DEF Inv, TypeOK
<1> QED
  BY <1>3, <1>7 DEF Inv, LiveSound, DeadSound, RightsSound

LEMMA TransferFailsStep ==
  ASSUME Inv, NEW th \in Threads, TransferFails(th)
  PROVE  Inv'
<1> DEFINE F == FirstOf(th)
<1>1. /\ pc[th] = "second" /\ lock[F] = th
      /\ pc' = [pc EXCEPT ![th] = "idle"]
      /\ lock' = [lock EXCEPT ![F] = None]
      /\ call' = [call EXCEPT ![th] = None]
      /\ UNCHANGED <<tab, live, dead, granted, wrapped>>
      /\ ret' \in [op : {"none", "create", "duplicate", "close", "transfer"},
                   ok : BOOLEAN, valid : BOOLEAN]
  BY DEF TransferFails, LocksSecond, Return, Inv, TypeOK
<1> HIDE DEF F
<1>2. ASSUME NEW u \in Threads, pc'[u] = "second"
      PROVE  /\ call'[u] \in Call
             /\ lock'[FirstOf(u)'] = u
  <2>1. u # th /\ pc[u] = "second" /\ call'[u] = call[u]
    BY <1>1, <1>2 DEF Inv, TypeOK
  <2>2. /\ call[u] \in Call
        /\ lock[FirstOf(u)] = u
    BY <2>1 DEF Inv, TypeOK
  <2>3. FirstOf(u)' = FirstOf(u) /\ FirstOf(u) \in Tables /\ FirstOf(u) # F
    BY <1>1, <2>1, <2>2 DEF FirstOf, First, Call
  <2> QED
    BY <1>1, <2>1, <2>2, <2>3 DEF Inv, TypeOK
<1>3. TypeOK'
  BY <1>1, <1>2 DEF Inv, TypeOK
<1> QED
  BY <1>1, <1>3 DEF Inv, LiveSound, DeadSound, RightsSound

\* Calls that fail, and a close that finds nothing, change no table.
LEMMA FailureStep ==
  ASSUME Inv, UNCHANGED <<tab, lock, pc, call, live, dead, granted, wrapped>>,
         ret' \in [op : {"none", "create", "duplicate", "close", "transfer"},
                   ok : BOOLEAN, valid : BOOLEAN]
  PROVE  Inv'
<1>1. TypeOK'
  BY DEF Inv, TypeOK, FirstOf
<1> QED
  BY <1>1 DEF Inv, LiveSound, DeadSound, RightsSound

\* Every step preserves the invariant.
LEMMA NextStep == Inv /\ [Next]_vars => Inv'
<1> SUFFICES ASSUME Inv, [Next]_vars PROVE Inv'
  OBVIOUS
<1>1. CASE UNCHANGED vars
  BY <1>1, FailureStep DEF vars, Inv, TypeOK
<1>2. ASSUME NEW t \in Tables, CreateFull(t) PROVE Inv'
  BY <1>2, FailureStep DEF CreateFull, Return
<1>3. ASSUME NEW t \in Tables, NEW h \in Handle, DuplicateFails(t, h) PROVE Inv'
  BY <1>3, FailureStep DEF DuplicateFails, Return
<1>4. ASSUME NEW t \in Tables, NEW h \in Handle, CloseNothing(t, h) PROVE Inv'
  BY <1>4, FailureStep DEF CloseNothing, Return
<1>5. ASSUME NEW t \in Tables, TableStep(t) PROVE Inv'
  BY <1>2, <1>3, <1>4, <1>5, CreateStep, DuplicateStep, CloseStep DEF TableStep
<1>6. ASSUME NEW th \in Threads, TransferStep(th) PROVE Inv'
  BY <1>6, TransferLockStep, TransferStepInv, TransferFailsStep DEF TransferStep
<1> QED
  BY <1>1, <1>5, <1>6 DEF Next

-----------------------------------------------------------------------------
\* The inductive invariant holds in every reachable state of tables with at
\* least one slot.
THEOREM Invariance == Spec /\ Capacity > 0 => []Inv
  BY InitInv, NextStep, PTL DEF Spec

\* Tables and locks keep their types.
THEOREM TypeCorrect == Spec /\ Capacity > 0 => []TypeOK
<1>1. Inv => TypeOK
  BY DEF Inv
<1> QED
  BY <1>1, Invariance, PTL

\* A handle that was issued and not given up names its own entry, for any
\* number of tables, slots and concurrent transfers.
THEOREM LiveResolve == Spec /\ Capacity > 0 => []LiveHandlesResolve
<1>1. Inv => LiveHandlesResolve
  BY DEF Inv, TypeOK, LiveSound, LiveHandlesResolve, Get
<1> QED
  BY <1>1, Invariance, PTL

\* A closed or transferred handle is rejected until a generation wraps.
THEOREM StaleRejected == Spec /\ Capacity > 0 => []StaleHandlesRejected
<1>1. ASSUME Inv, ~wrapped, NEW d \in dead PROVE Get(d.table, d) = None
  <2>1. /\ d.generation \in Int /\ tab[d.table].generation[d.index] \in Int
        /\ d.generation < tab[d.table].generation[d.index]
    BY <1>1 DEF Inv, TypeOK, DeadSound, Table, Gen
  <2> QED
    BY <2>1 DEF Get
<1>2. Inv => StaleHandlesRejected
  BY <1>1 DEF StaleHandlesRejected
<1> QED
  BY <1>2, Invariance, PTL

\* No chain of duplicates and transfers adds a right.
THEOREM RightsMonotone == Spec /\ Capacity > 0 => []RightsNeverGrow
<1>1. ASSUME Inv, NEW l \in live
      PROVE  l.entry.rights \subseteq granted[l.entry.ko]
  BY <1>1, NoneAssumption DEF Inv, TypeOK, LiveSound, RightsSound
<1>2. Inv => RightsNeverGrow
  BY <1>1 DEF RightsNeverGrow
<1> QED
  BY <1>2, Invariance, PTL

-----------------------------------------------------------------------------
(* Transfers that wait for each other *)

\* A table's lock belongs to a transfer that took it first.
LocksHeld ==
  \A t \in Tables : lock[t] # None =>
    pc[lock[t]] = "second" /\ FirstOf(lock[t]) = t

\* A transfer is between the tables of one of the pairs.
PairsKept ==
  \A th \in Threads : pc[th] = "second" =>
    <<call[th].self, call[th].dest>> \in TransferPairs

\* No transfer is from a table to itself: its second lock would be its first.
PairsDistinct == \A p \in TransferPairs : p[1] # p[2]

TransfersInv == Inv /\ LocksHeld /\ PairsKept

\* A transfer that ends gives up the lock it took first.
LEMMA TransferEnds ==
  ASSUME TransfersInv, NEW th \in Threads, LocksSecond(th)
  PROVE  LocksHeld' /\ PairsKept'
<1> DEFINE F == FirstOf(th)
<1>1. /\ pc[th] = "second"
      /\ lock' = [lock EXCEPT ![F] = None]
      /\ pc' = [pc EXCEPT ![th] = "idle"]
      /\ call' = [call EXCEPT ![th] = None]
  BY DEF LocksSecond
<1>2. /\ lock \in [Tables -> Threads \cup {None}] /\ None \notin Threads
      /\ pc \in [Threads -> {"idle", "second"}]
      /\ call \in [Threads -> Call \cup {None}]
      /\ LocksHeld /\ PairsKept
  BY NoneAssumption DEF TransfersInv, Inv, TypeOK
<1> HIDE DEF F
<1>3. ASSUME NEW u \in Threads, pc'[u] = "second"
      PROVE  u # th /\ pc[u] = "second" /\ call'[u] = call[u]
  BY <1>1, <1>2, <1>3
<1>4. ASSUME NEW t \in Tables, lock'[t] # None
      PROVE  pc'[lock'[t]] = "second" /\ FirstOf(lock[t])' = t
  <2>1. t # F /\ lock'[t] = lock[t] /\ lock[t] \in Threads
    BY <1>1, <1>2, <1>4
  <2>2. pc[lock[t]] = "second" /\ FirstOf(lock[t]) = t
    BY <1>2, <2>1 DEF LocksHeld
  <2>3. lock[t] # th
    BY <2>1, <2>2 DEF F
  <2> QED
    BY <1>1, <1>2, <2>1, <2>2, <2>3 DEF FirstOf
<1> QED
  BY <1>2, <1>3, <1>4 DEF LocksHeld, PairsKept

LEMMA TransferBegins ==
  ASSUME TransfersInv, NEW th \in Threads, NEW p \in TransferPairs,
         NEW h \in Handle, TransferLock(th, p[1], p[2], h)
  PROVE  LocksHeld' /\ PairsKept'
<1> DEFINE F == First(p[1], p[2])
           c == [self |-> p[1], dest |-> p[2], handle |-> h]
<1>1. /\ pc[th] = "idle" /\ lock[F] = None
      /\ lock' = [lock EXCEPT ![F] = th]
      /\ pc' = [pc EXCEPT ![th] = "second"]
      /\ call' = [call EXCEPT ![th] = c]
  BY DEF TransferLock, Unlocked
<1>2. /\ lock \in [Tables -> Threads \cup {None}] /\ None \notin Threads
      /\ pc \in [Threads -> {"idle", "second"}]
      /\ call \in [Threads -> Call \cup {None}]
      /\ LocksHeld /\ PairsKept
  BY NoneAssumption DEF TransfersInv, Inv, TypeOK
<1>3. /\ c.self = p[1] /\ c.dest = p[2] /\ <<p[1], p[2]>> = p
      /\ p[1] \in Tables /\ p[2] \in Tables
  BY HandleTableAssumption
<1>4. F \in Tables
  BY <1>3 DEF First
<1> HIDE DEF F, c
<1>5. ASSUME NEW u \in Threads, pc'[u] = "second"
      PROVE  <<call'[u].self, call'[u].dest>> \in TransferPairs
  <2>1. CASE u = th
    BY <1>1, <1>2, <1>3, <2>1
  <2>2. CASE u # th
    BY <1>1, <1>2, <1>5, <2>2 DEF PairsKept
  <2> QED
    BY <2>1, <2>2
<1>6. ASSUME NEW t \in Tables, lock'[t] # None
      PROVE  pc'[lock'[t]] = "second" /\ FirstOf(lock[t])' = t
  <2>1. CASE t = F
    <3>1. lock'[t] = th /\ call'[th] = c /\ pc'[th] = "second"
      BY <1>1, <1>2, <1>4, <2>1
    <3> QED
      BY <1>3, <2>1, <3>1 DEF FirstOf, F
  <2>2. CASE t # F
    <3>1. lock'[t] = lock[t] /\ lock[t] \in Threads
      BY <1>1, <1>2, <1>6, <2>2
    <3>2. pc[lock[t]] = "second" /\ FirstOf(lock[t]) = t
      BY <1>2, <1>6, <3>1 DEF LocksHeld
    <3>3. lock[t] # th
      BY <1>1, <3>2
    <3> QED
      BY <1>1, <1>2, <3>1, <3>2, <3>3 DEF FirstOf
  <2> QED
    BY <2>1, <2>2
<1> QED
  BY <1>5, <1>6 DEF LocksHeld, PairsKept

LEMMA TransfersStep == TransfersInv /\ [Next]_vars => TransfersInv'
<1> SUFFICES ASSUME TransfersInv, [Next]_vars PROVE TransfersInv'
  OBVIOUS
<1>1. Inv'
  BY NextStep DEF TransfersInv
<1>2. CASE UNCHANGED <<lock, pc, call>>
  BY <1>1, <1>2 DEF TransfersInv, LocksHeld, PairsKept, FirstOf
<1>3. ASSUME NEW t \in Tables, TableStep(t) PROVE UNCHANGED <<lock, pc, call>>
  BY <1>3 DEF TableStep, Create, CreateFull, Duplicate, DuplicateFails, Close,
              CloseNothing
<1>4. ASSUME NEW th \in Threads, TransferStep(th) PROVE LocksHeld' /\ PairsKept'
  BY <1>4, TransferBegins, TransferEnds DEF TransferStep, Transfer, TransferFails
<1> QED
  BY <1>1, <1>2, <1>3, <1>4 DEF TransfersInv, Next, vars

\* A finite set of addresses has a highest one.
LEMMA HighestOf ==
  ASSUME NEW S \in SUBSET Int, IsFiniteSet(S), S # {}
  PROVE  \E m \in S : \A x \in S : x <= m
<1> DEFINE Above(m) == {x \in S : x > m}
           T == {Above(m) : m \in S}
           R == StrictSubsetOrdering(S)
<1>1. IsWellFoundedOn(R, SUBSET S)
  BY FS_StrictSubsetOrderingWellFounded, FS_FiniteSubsetsOfFinite
<1>2. T \subseteq SUBSET S /\ T # {}
  OBVIOUS
<1>3. PICK A \in T : \A B \in T : ~(<<B, A>> \in R)
  <2> HIDE DEF R, T
  <2> QED
    BY <1>1, <1>2, WFMin
<1>4. PICK m \in S : A = Above(m)
  BY <1>3
<1>5. ASSUME NEW x \in S, x > m PROVE FALSE
  <2>1. Above(x) \subseteq Above(m) /\ x \in Above(m) /\ x \notin Above(x)
    <3>1. x \in Int /\ m \in Int /\ \A y \in S : y \in Int
      OBVIOUS
    <3>2. ~(x > x) /\ \A y \in S : y > x => y > m
      BY <1>5, <3>1
    <3> QED
      BY <1>5, <3>2
  <2>2. <<Above(x), Above(m)>> \in R
    BY <2>1 DEF StrictSubsetOrdering
  <2>3. Above(x) \in T
    BY <1>5
  <2> HIDE DEF Above, T, R
  <2> QED
    BY <1>3, <1>4, <2>2, <2>3
<1> QED
  BY <1>5

\* handle.rs:197, "Lock order: lower address first to prevent deadlock": among
\* any number of transfers between any tables, one can take its second lock.
THEOREM TransfersProceed ==
  Spec /\ Capacity > 0 /\ IsFiniteSet(Tables) /\ PairsDistinct
    => []SomeTransferCanProceed
<1> DEFINE Waiting == {th \in Threads : pc[th] = "second"}
           Firsts == {FirstOf(th) : th \in Waiting}
<1>1. Init /\ Capacity > 0 => TransfersInv
  BY InitInv DEF Init, TransfersInv, LocksHeld, PairsKept
<1>2. ASSUME TransfersInv, IsFiniteSet(Tables), PairsDistinct
      PROVE  SomeTransferCanProceed
  <2> SUFFICES ASSUME Waiting # {}
               PROVE  \E th \in Waiting : lock[SecondOf(th)] = None
    BY DEF SomeTransferCanProceed, Unlocked
  <2>1. ASSUME NEW th \in Waiting
        PROVE  /\ FirstOf(th) \in Tables /\ SecondOf(th) \in Tables
               /\ FirstOf(th) < SecondOf(th)
    <3>1. /\ call[th].self \in Tables /\ call[th].dest \in Tables
          /\ call[th].self # call[th].dest
      BY <1>2, HandleTableAssumption DEF TransfersInv, PairsKept, PairsDistinct
    <3>2. call[th].self \in Int /\ call[th].dest \in Int
      BY <3>1, HandleTableAssumption
    <3> QED
      BY <3>1, <3>2 DEF FirstOf, SecondOf, First, Second
  <2>2. Firsts \subseteq Tables /\ Firsts # {}
    BY <2>1
  <2>3. Firsts \in SUBSET Int /\ IsFiniteSet(Firsts)
    BY <1>2, <2>2, FS_Subset, HandleTableAssumption
  <2>4. PICK m \in Firsts : \A x \in Firsts : x <= m
    BY <2>2, <2>3, HighestOf, Zenon
  <2>5. PICK th \in Waiting : m = FirstOf(th)
    BY <2>4
  <2>6. ASSUME lock[SecondOf(th)] # None PROVE FALSE
    <3> DEFINE s == SecondOf(th)
               u == lock[s]
    <3>1. s \in Tables /\ m < s /\ m \in Int /\ s \in Int
      BY <2>1, <2>3, <2>4, <2>5, HandleTableAssumption
    <3>2. u \in Threads
      BY <1>2, <2>6, <3>1 DEF TransfersInv, Inv, TypeOK
    <3>3. pc[u] = "second" /\ FirstOf(u) = s
      BY <1>2, <2>6, <3>1 DEF TransfersInv, LocksHeld
    <3>4. s \in Firsts
      BY <3>2, <3>3
    <3> HIDE DEF s, Firsts
    <3> QED
      BY <2>4, <3>1, <3>4
  <2> QED
    BY <2>6
<1> DEFINE J == TransfersInv /\ IsFiniteSet(Tables) /\ PairsDistinct
<1>3. Init /\ Capacity > 0 /\ IsFiniteSet(Tables) /\ PairsDistinct => J
  BY <1>1
<1>4. J /\ [Next]_vars => J'
  BY TransfersStep DEF PairsDistinct
<1>5. J => SomeTransferCanProceed
  BY <1>2
<1> HIDE DEF J
<1> QED
  BY <1>3, <1>4, <1>5, PTL DEF Spec

-----------------------------------------------------------------------------
(* The free list as a whole *)

\* The k-th slot of a list of slots, and the end of the list.
SlotAt(q, k) == IF k \in 1 .. Len(q) THEN q[k] ELSE NoSlot

\* The list q names a table's free slots once each, in the order in which the
\* table's pointers lead through them, and count is the number of the others.
ListsFree(T, q) ==
  /\ q \in Seq(Slots)
  /\ \A j, k \in 1 .. Len(q) : q[j] = q[k] => j = k
  /\ \A i \in Slots : T.entry[i] = None <=> \E k \in 1 .. Len(q) : q[k] = i
  /\ T.free_head = SlotAt(q, 1)
  /\ \A k \in 1 .. Len(q) : T.next_free[q[k]] = SlotAt(q, k + 1)
  /\ T.count = Capacity - Len(q)

HasFreeList(T) == \E q : ListsFree(T, q)

ListInv == Inv /\ \A t \in Tables : HasFreeList(tab[t])

LEMMA SeqOfFunction ==
  ASSUME NEW n \in Nat, NEW S, NEW f \in [1 .. n -> S]
  PROVE  f \in Seq(S) /\ Len(f) = n
  OBVIOUS

LEMMA NewTableListed ==
  ASSUME Capacity > 0
  PROVE  HasFreeList(NewTable)
<1> DEFINE q == [k \in 1 .. Capacity |-> k - 1]
<1> USE HandleTableAssumption
<1>1. q \in [1 .. Capacity -> Slots]
  BY DEF Slots
<1>2. q \in Seq(Slots) /\ Len(q) = Capacity
  BY <1>1, SeqOfFunction
<1>3. \A k \in 1 .. Capacity : q[k] = k - 1
  OBVIOUS
<1> HIDE DEF q
<1>4. \A j, k \in 1 .. Len(q) : q[j] = q[k] => j = k
  BY <1>2, <1>3
<1>5. \A i \in Slots : i + 1 \in 1 .. Len(q) /\ q[i + 1] = i
  BY <1>2, <1>3 DEF Slots
<1>6. NewTable.free_head = SlotAt(q, 1)
  BY <1>2, <1>3 DEF NewTable, SlotAt
<1>7. ASSUME NEW k \in 1 .. Len(q)
      PROVE  NewTable.next_free[q[k]] = SlotAt(q, k + 1)
  <2>1. q[k] = k - 1 /\ k - 1 \in Slots /\ k \in Int
    BY <1>2, <1>3 DEF Slots
  <2>2. NewTable.next_free[k - 1] = IF (k - 1) + 1 < Capacity THEN (k - 1) + 1 ELSE NoSlot
    BY <2>1 DEF NewTable
  <2>3. CASE k < Capacity
    BY <1>2, <1>3, <2>1, <2>2, <2>3 DEF SlotAt
  <2>4. CASE ~(k < Capacity)
    BY <1>2, <1>3, <2>1, <2>2, <2>4 DEF SlotAt
  <2> QED
    BY <2>3, <2>4
<1>8. NewTable.count = Capacity - Len(q) /\ \A i \in Slots : NewTable.entry[i] = None
  BY <1>2 DEF NewTable
<1> QED
  BY <1>2, <1>4, <1>5, <1>6, <1>7, <1>8 DEF ListsFree, HasFreeList

\* An allocation takes the head of the list.
LEMMA AllocatedListed ==
  ASSUME NEW T \in Table, HasFreeList(T), T.free_head # NoSlot, NEW e \in Entry
  PROVE  HasFreeList(Allocated(T, e))
<1>1. PICK q : ListsFree(T, q)
  BY DEF HasFreeList
<1> DEFINE n == Len(q)
           f == T.free_head
           U == Allocated(T, e)
           p == [k \in 1 .. n - 1 |-> q[k + 1]]
<1>2. /\ q \in Seq(Slots) /\ n \in Nat /\ q \in [1 .. n -> Slots]
      /\ \A j, k \in 1 .. n : q[j] = q[k] => j = k
      /\ \A i \in Slots : T.entry[i] = None <=> \E k \in 1 .. n : q[k] = i
      /\ f = SlotAt(q, 1)
      /\ \A k \in 1 .. n : T.next_free[q[k]] = SlotAt(q, k + 1)
      /\ T.count = Capacity - n
  BY <1>1 DEF ListsFree
<1>3. n > 0 /\ f = q[1] /\ f \in Slots
  BY <1>2 DEF SlotAt
<1>4. /\ T.entry \in [Slots -> Entry \cup {None}]
      /\ T.next_free \in [Slots -> Slots \cup {NoSlot}]
      /\ e # None
  BY NoneAssumption DEF Table
<1>5. /\ U.entry = [T.entry EXCEPT ![f] = e]
      /\ U.next_free = [T.next_free EXCEPT ![f] = NoSlot]
      /\ U.free_head = T.next_free[f] /\ U.count = T.count + 1
  BY DEF Allocated
<1>6. p \in Seq(Slots) /\ Len(p) = n - 1
  <2>1. p \in [1 .. n - 1 -> Slots] /\ n - 1 \in Nat
    BY <1>2, <1>3
  <2> HIDE DEF p, n
  <2> QED
    BY <2>1, SeqOfFunction
<1>7. \A k \in 1 .. n - 1 : p[k] = q[k + 1] /\ k + 1 \in 1 .. n /\ p[k] \in Slots
  BY <1>2, <1>3
<1> HIDE DEF n, f, U, p
<1>8. \A j, k \in 1 .. n - 1 : p[j] = p[k] => j = k
  BY <1>2, <1>7
<1>9. \A k \in 1 .. n - 1 : p[k] # f
  BY <1>2, <1>3, <1>7
<1>10. ASSUME NEW i \in Slots
       PROVE  U.entry[i] = None <=> \E k \in 1 .. n - 1 : p[k] = i
  <2>1. CASE i = f
    BY <1>3, <1>4, <1>5, <1>9, <2>1
  <2>2. CASE i # f
    <3>1. U.entry[i] = None <=> \E k \in 1 .. n : q[k] = i
      BY <1>2, <1>4, <1>5, <2>2
    <3>2. ASSUME NEW k \in 1 .. n, q[k] = i
          PROVE  k - 1 \in 1 .. n - 1 /\ p[k - 1] = i
      <4>1. k # 1
        BY <1>3, <2>2, <3>2
      <4>2. k - 1 \in 1 .. n - 1 /\ (k - 1) + 1 = k
        BY <1>2, <4>1
      <4> QED
        BY <1>7, <3>2, <4>2
    <3> QED
      BY <1>7, <3>1, <3>2
  <2> QED
    BY <2>1, <2>2
<1>11. \A k \in Nat \ {0} : SlotAt(p, k) = SlotAt(q, k + 1)
  BY <1>2, <1>6, <1>7 DEF SlotAt, n
<1>12. U.free_head = SlotAt(p, 1)
  BY <1>2, <1>3, <1>5, <1>11
<1>13. ASSUME NEW k \in 1 .. n - 1
       PROVE  U.next_free[p[k]] = SlotAt(p, k + 1)
  <2>1. U.next_free[p[k]] = T.next_free[q[k + 1]]
    BY <1>4, <1>5, <1>7, <1>9
  <2>2. T.next_free[q[k + 1]] = SlotAt(q, (k + 1) + 1)
    BY <1>2, <1>7
  <2>3. k + 1 \in Nat \ {0}
    BY <1>2
  <2> QED
    BY <1>11, <2>1, <2>2, <2>3
<1>14. U.count = Capacity - (n - 1)
  BY <1>2, <1>5, HandleTableAssumption
<1>15. ListsFree(U, p)
  BY <1>6, <1>8, <1>10, <1>12, <1>13, <1>14 DEF ListsFree
<1> QED
  BY <1>15 DEF HasFreeList, U

\* A slot given back goes in front of the list.
LEMMA FreedListed ==
  ASSUME NEW T \in Table, HasFreeList(T), NEW i \in Slots, T.entry[i] # None
  PROVE  HasFreeList(Freed(T, i))
<1>1. PICK q : ListsFree(T, q)
  BY DEF HasFreeList
<1> DEFINE n == Len(q)
           U == Freed(T, i)
           p == [k \in 1 .. n + 1 |-> IF k = 1 THEN i ELSE q[k - 1]]
<1>2. /\ q \in Seq(Slots) /\ n \in Nat /\ q \in [1 .. n -> Slots]
      /\ \A j, k \in 1 .. n : q[j] = q[k] => j = k
      /\ \A s \in Slots : T.entry[s] = None <=> \E k \in 1 .. n : q[k] = s
      /\ T.free_head = SlotAt(q, 1)
      /\ \A k \in 1 .. n : T.next_free[q[k]] = SlotAt(q, k + 1)
      /\ T.count = Capacity - n
  BY <1>1 DEF ListsFree
<1>3. /\ T.entry \in [Slots -> Entry \cup {None}]
      /\ T.next_free \in [Slots -> Slots \cup {NoSlot}]
  BY DEF Table
<1>4. /\ U.entry = [T.entry EXCEPT ![i] = None]
      /\ U.next_free = [T.next_free EXCEPT ![i] = T.free_head]
      /\ U.free_head = i /\ U.count = T.count - 1
  BY DEF Freed
<1>5. p \in Seq(Slots) /\ Len(p) = n + 1
  <2>1. p \in [1 .. n + 1 -> Slots] /\ n + 1 \in Nat
    BY <1>2
  <2> HIDE DEF p, n
  <2> QED
    BY <2>1, SeqOfFunction
<1>6. /\ p[1] = i
      /\ \A k \in 1 .. n : p[k + 1] = q[k] /\ k + 1 \in 1 .. n + 1 /\ q[k] \in Slots
      /\ \A k \in 1 .. n + 1 : k = 1 \/ (k - 1 \in 1 .. n /\ p[k] = q[k - 1])
  BY <1>2
<1>7. \A k \in 1 .. n : q[k] # i
  BY <1>2
<1> HIDE DEF n, U, p
<1>8. \A j, k \in 1 .. n + 1 : p[j] = p[k] => j = k
  <2> SUFFICES ASSUME NEW j \in 1 .. n + 1, NEW k \in 1 .. n + 1, p[j] = p[k]
               PROVE  j = k
    OBVIOUS
  <2>1. CASE j = 1
    BY <1>6, <1>7, <2>1
  <2>2. CASE k = 1
    BY <1>6, <1>7, <2>2
  <2>3. CASE j # 1 /\ k # 1
    <3>1. j - 1 = k - 1
      BY <1>2, <1>6, <2>3
    <3> QED
      BY <1>2, <3>1
  <2> QED
    BY <2>1, <2>2, <2>3
<1>9. ASSUME NEW s \in Slots
      PROVE  U.entry[s] = None <=> \E k \in 1 .. n + 1 : p[k] = s
  <2>1. CASE s = i
    <3>1. 1 \in 1 .. n + 1
      BY <1>2
    <3> QED
      BY <1>3, <1>4, <1>6, <2>1, <3>1
  <2>2. CASE s # i
    <3>1. U.entry[s] = None <=> \E k \in 1 .. n : q[k] = s
      BY <1>2, <1>3, <1>4, <2>2
    <3> QED
      BY <1>6, <2>2, <3>1
  <2> QED
    BY <2>1, <2>2
<1>10. \A k \in Nat \ {0} : SlotAt(p, k + 1) = SlotAt(q, k)
  BY <1>2, <1>5, <1>6 DEF SlotAt, n
<1>11. U.free_head = SlotAt(p, 1)
  BY <1>2, <1>4, <1>5, <1>6 DEF SlotAt
<1>12. ASSUME NEW k \in 1 .. n + 1
       PROVE  U.next_free[p[k]] = SlotAt(p, k + 1)
  <2>1. CASE k = 1
    BY <1>2, <1>3, <1>4, <1>6, <1>10, <2>1
  <2>2. CASE k # 1
    <3>1. k - 1 \in 1 .. n /\ p[k] = q[k - 1] /\ k \in Nat \ {0} /\ (k - 1) + 1 = k
      BY <1>2, <1>6, <2>2
    <3>2. U.next_free[p[k]] = T.next_free[q[k - 1]]
      BY <1>3, <1>4, <1>6, <1>7, <3>1
    <3>3. T.next_free[q[k - 1]] = SlotAt(q, k)
      BY <1>2, <3>1
    <3> QED
      BY <1>10, <3>1, <3>2, <3>3
  <2> QED
    BY <2>1, <2>2
<1>13. U.count = Capacity - (n + 1)
  BY <1>2, <1>4, HandleTableAssumption
<1> QED
  BY <1>5, <1>8, <1>9, <1>11, <1>12, <1>13 DEF ListsFree, HasFreeList, U

LEMMA ListStep == ListInv /\ [Next]_vars => ListInv'
<1> SUFFICES ASSUME ListInv, [Next]_vars PROVE ListInv'
  OBVIOUS
<1>1. Inv'
  BY NextStep DEF ListInv
<1>2. /\ tab \in [Tables -> Table] /\ TypeOK
      /\ \A t \in Tables : tab[t] \in Table /\ HasFreeList(tab[t])
  BY DEF ListInv, Inv, TypeOK
<1>3. CASE UNCHANGED tab
  BY <1>1, <1>2, <1>3 DEF ListInv
<1>4. ASSUME NEW t \in Tables, NEW e \in Entry, ~Full(t),
             tab' = [tab EXCEPT ![t] = Allocated(@, e)]
      PROVE  \A u \in Tables : HasFreeList(tab'[u])
  <2>1. HasFreeList(Allocated(tab[t], e))
    BY <1>2, <1>4, AllocatedListed DEF Full
  <2> QED
    BY <1>2, <1>4, <2>1
<1>5. ASSUME NEW t \in Tables, NEW o \in Objects, NEW r \in CreateRights,
             Create(t, o, r)
      PROVE  \A u \in Tables : HasFreeList(tab'[u])
  <2>1. [ko |-> o, rights |-> r] \in Entry
    BY HandleTableAssumption DEF Entry
  <2> QED
    BY <1>4, <1>5, <2>1 DEF Create
<1>6. ASSUME NEW t \in Tables, NEW h \in Handle, NEW r \in MaskRights,
             Duplicate(t, h, r)
      PROVE  \A u \in Tables : HasFreeList(tab'[u])
  <2> DEFINE src == Get(t, h)
             e == [ko |-> src.ko, rights |-> downgrade(src.rights, r)]
  <2>1. /\ src # None /\ ~Full(t)
        /\ tab' = [tab EXCEPT ![t] = Allocated(@, e)]
    BY <1>6 DEF Duplicate, MayDuplicate
  <2>2. src \in Entry
    BY <1>2, <2>1, GetEntry
  <2> HIDE DEF src
  <2>3. e \in Entry
    BY <2>2 DEF Entry, downgrade
  <2> HIDE DEF e
  <2> QED
    BY <1>4, <2>1, <2>3
<1>7. ASSUME NEW t \in Tables, NEW h \in Handle, Close(t, h)
      PROVE  \A u \in Tables : HasFreeList(tab'[u])
  <2>1. /\ Get(t, h) # None
        /\ tab' = [tab EXCEPT ![t] = Freed(@, h.index)]
    BY <1>7 DEF Close
  <2>2. h.index \in Slots /\ tab[t].entry[h.index] # None
    BY <1>2, <2>1, GetEntry
  <2>3. HasFreeList(Freed(tab[t], h.index))
    BY <1>2, <2>2, FreedListed
  <2> QED
    BY <1>2, <2>1, <2>3
<1>8. ASSUME NEW th \in Threads, Transfer(th)
      PROVE  \A u \in Tables : HasFreeList(tab'[u])
  <2> DEFINE F == FirstOf(th)
             S == SecondOf(th)
             h == call[th].handle
             i == h.index
             e == Get(F, h)
  <2>1. /\ tab' = [tab EXCEPT ![S] = Allocated(@, e), ![F] = Freed(@, i)]
        /\ e # None /\ ~Full(S) /\ pc[th] = "second" /\ lock[S] = None
    BY <1>8 DEF Transfer, MayTransfer, LocksSecond, Unlocked
  <2>2. F \in Tables /\ S \in Tables /\ h \in Handle /\ F # S
    BY <1>2, <2>1, NoneAssumption
    DEF TypeOK, FirstOf, SecondOf, First, Second, Call
  <2>3. i \in Slots /\ e = tab[F].entry[i] /\ e \in Entry
    BY <1>2, <2>1, <2>2, GetEntry
  <2> HIDE DEF F, S, h, i, e
  <2>4. HasFreeList(Freed(tab[F], i))
    BY <1>2, <2>1, <2>2, <2>3, FreedListed
  <2>5. HasFreeList(Allocated(tab[S], e))
    BY <1>2, <2>1, <2>2, <2>3, AllocatedListed DEF Full
  <2>6. /\ tab'[F] = Freed(tab[F], i) /\ tab'[S] = Allocated(tab[S], e)
        /\ \A u \in Tables : u # F /\ u # S => tab'[u] = tab[u]
    BY <1>2, <2>1, <2>2
  <2> QED
    BY <1>2, <2>4, <2>5, <2>6
<1>9. ASSUME NEW t \in Tables, TableStep(t)
      PROVE  UNCHANGED tab \/ \A u \in Tables : HasFreeList(tab'[u])
  BY <1>5, <1>6, <1>7, <1>9
  DEF TableStep, CreateFull, DuplicateFails, CloseNothing
<1>10. ASSUME NEW th \in Threads, TransferStep(th)
       PROVE  UNCHANGED tab \/ \A u \in Tables : HasFreeList(tab'[u])
  BY <1>8, <1>10 DEF TransferStep, TransferLock, TransferFails
<1> QED
  BY <1>1, <1>3, <1>9, <1>10 DEF ListInv, Next, vars


\* Of a finite set of numbers one is the least.
LEMMA LeastOf ==
  ASSUME NEW S \in SUBSET Int, IsFiniteSet(S), S # {}
  PROVE  \E m \in S : \A x \in S : m <= x
<1> DEFINE N == {-x : x \in S}
<1>1. N \in SUBSET Int /\ N # {}
  <2>1. \A x \in S : x \in Int /\ -x \in Int
    OBVIOUS
  <2> QED
    BY <2>1
<1>2. IsFiniteSet(N)
  <2> DEFINE f == [x \in S |-> -x]
  <2>1. f \in Surjection(S, N)
    BY DEF Surjection
  <2> QED
    BY <2>1, FS_Surjection
<1>3. PICK m \in N : \A x \in N : x <= m
  <2> HIDE DEF N
  <2> QED
    BY <1>1, <1>2, HighestOf
<1>4. PICK y \in S : m = -y
  BY <1>3
<1>5. ASSUME NEW x \in S PROVE y <= x
  <2>1. -x <= m /\ x \in Int /\ y \in Int
    BY <1>3
  <2> QED
    BY <1>4, <2>1
<1> QED
  BY <1>5

\* The steps along a free list, what they find, and the equation that defines
\* FreeList.
Nth == 0 .. Capacity
Found(q) == [n \in Nth |-> SlotAt(q, n + 1)]
Follows(t, f) ==
  f = [n \in Nth |-> IF n = 0 THEN tab[t].free_head
                     ELSE IF f[n - 1] = NoSlot THEN NoSlot
                          ELSE tab[t].next_free[f[n - 1]]]

LEMMA FoundFollows ==
  ASSUME NEW t, NEW q, ListsFree(tab[t], q)
  PROVE  Follows(t, Found(q))
<1>1. /\ q \in Seq(Slots) /\ Len(q) \in Nat
      /\ tab[t].free_head = SlotAt(q, 1)
      /\ \A k \in 1 .. Len(q) : /\ q[k] \in Slots /\ q[k] # NoSlot
                                /\ tab[t].next_free[q[k]] = SlotAt(q, k + 1)
  BY HandleTableAssumption DEF ListsFree, NoSlot, Slots
<1>2. ASSUME NEW n \in Nth
      PROVE  Found(q)[n] = IF n = 0 THEN tab[t].free_head
                           ELSE IF Found(q)[n - 1] = NoSlot THEN NoSlot
                                ELSE tab[t].next_free[Found(q)[n - 1]]
  <2>1. n \in Int /\ Found(q)[n] = SlotAt(q, n + 1)
    BY HandleTableAssumption DEF Found, Nth
  <2>2. CASE n = 0
    BY <1>1, <2>1, <2>2
  <2>3. CASE n # 0
    <3>1. n - 1 \in Nth /\ (n - 1) + 1 = n
      BY <2>3, HandleTableAssumption DEF Nth
    <3>2. Found(q)[n - 1] = SlotAt(q, n)
      BY <3>1 DEF Found
    <3>3. CASE n \in 1 .. Len(q)
      BY <1>1, <2>1, <2>3, <3>2, <3>3 DEF SlotAt
    <3>4. CASE n \notin 1 .. Len(q)
      <4>1. n + 1 \notin 1 .. Len(q)
        BY <1>1, <2>3, <3>4, HandleTableAssumption DEF Nth
      <4> QED
        BY <2>1, <2>3, <3>2, <3>4, <4>1 DEF SlotAt
    <3> QED
      BY <3>3, <3>4
  <2> QED
    BY <2>2, <2>3
<1>3. Found(q) = [n \in Nth |-> Found(q)[n]]
  BY DEF Found
<1> QED
  BY <1>2, <1>3, Zenon DEF Follows

\* Following the pointers finds the list.
LEMMA FreeListIsFound ==
  ASSUME NEW t, NEW q, ListsFree(tab[t], q)
  PROVE  FreeList(t) = Found(q)
<1>1. Follows(t, Found(q))
  BY FoundFollows
<1>2. FreeList(t) = CHOOSE f : Follows(t, f)
  BY Zenon DEF FreeList, Follows, Nth
<1>3. Follows(t, FreeList(t))
  BY <1>1, <1>2, Zenon
<1> DEFINE W == Found(q)
           V == FreeList(t)
           D == {n \in Nth : V[n] # W[n]}
           After(f, n) == IF n = 0 THEN tab[t].free_head
                          ELSE IF f[n - 1] = NoSlot THEN NoSlot
                               ELSE tab[t].next_free[f[n - 1]]
<1>4. /\ W = [n \in Nth |-> W[n]] /\ V = [n \in Nth |-> V[n]]
      /\ \A n \in Nth : V[n] = After(V, n) /\ W[n] = After(W, n)
  <2>1. \A f : Follows(t, f) =>
          f = [n \in Nth |-> f[n]] /\ \A n \in Nth : f[n] = After(f, n)
    BY DEF Follows
  <2> HIDE DEF After
  <2> QED
    BY <1>1, <1>3, <2>1
<1> HIDE DEF W, V
<1>5. ASSUME D # {} PROVE FALSE
  <2>1. IsFiniteSet(Nth)
    BY HandleTableAssumption, FS_Interval, 0 \in Int DEF Nth
  <2>2. IsFiniteSet(D) /\ D \in SUBSET Int
    <3>1. D \in SUBSET Nth /\ Nth \in SUBSET Int
      BY HandleTableAssumption DEF Nth
    <3> HIDE DEF D
    <3> QED
      BY <2>1, <3>1, FS_Subset
  <2>3. PICK m \in D : \A x \in D : m <= x
    <3> HIDE DEF D
    <3> QED
      BY <1>5, <2>2, LeastOf
  <2>4. m \in Nth /\ V[m] # W[m]
    BY <2>3
  <2>5. CASE m = 0
    BY <1>4, <2>4, <2>5
  <2>6. CASE m # 0
    <3>1. m - 1 \in Nth /\ m \in Int /\ ~(m <= m - 1)
      BY <2>4, <2>6, HandleTableAssumption DEF Nth
    <3>2. V[m - 1] = W[m - 1]
      BY <2>3, <3>1
    <3> QED
      BY <1>4, <2>4, <2>6, <3>2
  <2> QED
    BY <2>5, <2>6
<1>6. \A n \in Nth : V[n] = W[n]
  BY <1>5
<1>7. V = W
  BY <1>4, <1>6
<1> QED
  BY <1>7 DEF V, W

\* A list without repetition is as long as the set of its elements.
LEMMA ListLength ==
  ASSUME NEW q \in Seq(Slots), \A j, k \in 1 .. Len(q) : q[j] = q[k] => j = k,
         NEW S \in SUBSET Slots, \A i \in Slots : i \in S <=> \E k \in 1 .. Len(q) : q[k] = i
  PROVE  /\ Cardinality(S) = Len(q) /\ Len(q) \in Nat /\ Len(q) <= Capacity
<1> DEFINE L == Len(q)
<1>1. L \in Nat /\ q \in [1 .. L -> Slots]
  OBVIOUS
<1>2. q \in Bijection(1 .. L, S)
  BY <1>1 DEF Bijection, Injection, Surjection, IsInjective
<1>3. q \in Injection(1 .. L, Slots)
  BY <1>1 DEF Injection, IsInjective
<1> HIDE DEF L
<1>4. IsFiniteSet(1 .. L) /\ Cardinality(1 .. L) = L
  <2>1. 1 \in Int /\ L \in Int /\ (1 > L => L = 0) /\ (L - 1) + 1 = L
    BY <1>1
  <2>2. /\ IsFiniteSet(1 .. L)
        /\ Cardinality(1 .. L) = IF 1 > L THEN 0 ELSE L - 1 + 1
    BY <2>1, FS_Interval
  <2> QED
    BY <2>1, <2>2
<1>5. Cardinality(S) = L
  <2>1. ExistsBijection(1 .. L, S)
    BY <1>2 DEF ExistsBijection
  <2> QED
    BY <1>4, <2>1, FS_Bijection
<1>6. IsFiniteSet(Slots) /\ Cardinality(Slots) = Capacity
  <2>1. /\ 0 \in Int /\ Capacity - 1 \in Int /\ (0 > Capacity - 1 => Capacity = 0)
        /\ (Capacity - 1) - 0 + 1 = Capacity
    BY HandleTableAssumption
  <2>2. /\ IsFiniteSet(0 .. Capacity - 1)
        /\ Cardinality(0 .. Capacity - 1)
             = IF 0 > Capacity - 1 THEN 0 ELSE (Capacity - 1) - 0 + 1
    BY <2>1, FS_Interval
  <2> QED
    BY <2>1, <2>2 DEF Slots
<1>7. Cardinality(1 .. L) <= Cardinality(Slots)
  BY <1>3, <1>6, FS_Injection
<1> QED
  BY <1>1, <1>4, <1>5, <1>6, <1>7 DEF L

\* Every free slot can be allocated, and count is the number of the others:
\* through any sequence of allocations and releases, free_head and next_free
\* lead through each free slot once and then end.
THEOREM NoSlotIsLost == Spec /\ Capacity > 0 => []FreeListComplete
<1>1. Init /\ Capacity > 0 => ListInv
  BY InitInv, NewTableListed DEF Init, ListInv
<1>2. ASSUME ListInv, NEW t \in Tables
      PROVE  LET free == {i \in Slots : tab[t].entry[i] = None}
             IN  /\ {FreeList(t)[n] : n \in 0 .. Capacity} \ {NoSlot} = free
                 /\ FreeList(t)[Cardinality(free)] = NoSlot
                 /\ tab[t].count = Capacity - Cardinality(free)
  <2> DEFINE free == {i \in Slots : tab[t].entry[i] = None}
  <2>1. PICK q : ListsFree(tab[t], q)
    BY <1>2 DEF ListInv, HasFreeList
  <2> DEFINE L == Len(q)
  <2>2. /\ q \in Seq(Slots) /\ q \in [1 .. L -> Slots]
        /\ \A j, k \in 1 .. L : q[j] = q[k] => j = k
        /\ \A i \in Slots : i \in free <=> \E k \in 1 .. L : q[k] = i
        /\ tab[t].count = Capacity - L
    BY <2>1 DEF ListsFree
  <2>3. free \in SUBSET Slots /\ NoSlot \notin free
    BY HandleTableAssumption DEF Slots, NoSlot
  <2>4. Cardinality(free) = L /\ L \in Nat /\ L <= Capacity
    <3> HIDE DEF free
    <3> QED
      BY <2>2, <2>3, ListLength
  <2>5. \A n \in 0 .. Capacity : FreeList(t)[n] = SlotAt(q, n + 1)
    BY <2>1, FreeListIsFound, ZenonT(30) DEF Found, Nth
  <2> HIDE DEF free, L
  <2>6. ASSUME NEW i \in free PROVE \E n \in 0 .. Capacity : FreeList(t)[n] = i
    <3>1. PICK k \in 1 .. L : q[k] = i
      BY <2>2, <2>3
    <3>2. k - 1 \in 0 .. Capacity /\ (k - 1) + 1 = k
      BY <2>4, HandleTableAssumption
    <3>3. FreeList(t)[k - 1] = i
      BY <2>5, <3>1, <3>2 DEF SlotAt, L
    <3> QED
      BY <3>2, <3>3
  <2>7. ASSUME NEW n \in 0 .. Capacity, FreeList(t)[n] # NoSlot
        PROVE  FreeList(t)[n] \in free
    <3>1. n + 1 \in 1 .. L /\ FreeList(t)[n] = q[n + 1]
      BY <2>5, <2>7 DEF SlotAt, L
    <3> QED
      BY <2>2, <3>1
  <2>8. FreeList(t)[L] = NoSlot
    <3>1. L \in 0 .. Capacity /\ L + 1 \notin 1 .. L
      BY <2>4, HandleTableAssumption
    <3> QED
      BY <2>5, <3>1 DEF SlotAt, L
  <2> QED
    BY <2>2, <2>3, <2>4, <2>6, <2>7, <2>8 DEF free
<1>3. ListInv => FreeListComplete
  BY <1>2, Zenon DEF FreeListComplete
<1> QED
  BY <1>1, <1>3, ListStep, PTL DEF Spec

-----------------------------------------------------------------------------
(* Reference counts *)

\* The places in tables that hold a reference to an object.
Holders(o) == {p \in Tables \X Slots :
                 tab[p[1]].entry[p[2]] # None /\ tab[p[1]].entry[p[2]].ko = o}

Owner(o) == IF o \in owned THEN 1 ELSE 0

\* Every reference is counted.
Counted == \A o \in Objects :
             refcount[o] = Owner(o) + refs[o] + Cardinality(Holders(o))

DestroyedAtZero == \A o \in Objects : o \in destroyed <=> refcount[o] = 0

KoInv == Inv /\ IsFiniteSet(Tables) /\ KoTypeOK /\ Counted /\ DestroyedAtZero

-----------------------------------------------------------------------------
(* The tables *)

LEMMA KoNextIsNext == KoNext => [Next]_vars
<1> SUFFICES ASSUME KoNext PROVE [Next]_vars
  OBVIOUS
<1>1. CASE \E o \in Objects : NewRef(o) \/ DropRef(o) \/ OwnerRelease(o)
  BY <1>1 DEF NewRef, DropRef, OwnerRelease
<1>2. ASSUME NEW t \in Tables, KoTableStep(t) PROVE [Next]_vars
  <2>1. TableStep(t) \/ UNCHANGED vars
    BY <1>2 DEF KoTableStep, TableStep, KoCreate, KoCreateFull, KoGet, KoClose,
                KoDuplicate
  <2> QED
    BY <2>1 DEF Next
<1>3. CASE \E th \in Threads : TransferStep(th) /\ UNCHANGED koVars
  BY <1>3 DEF Next
<1> QED
  BY <1>1, <1>2, <1>3 DEF KoNext

LEMMA StutterOrStep == [KoNext]_<<vars, koVars>> => [Next]_vars
  BY KoNextIsNext

\* kernel_object.rs and handle.rs together do to the tables what handle.rs does.
THEOREM KoImplementsTables == KoSpec => Spec
  BY StutterOrStep, PTL DEF KoSpec, KoInit, Spec

-----------------------------------------------------------------------------
(* The places that hold references *)

LEMMA HoldersFinite ==
  ASSUME IsFiniteSet(Tables), NEW o
  PROVE  IsFiniteSet(Holders(o)) /\ Cardinality(Holders(o)) \in Nat
<1>1. IsFiniteSet(Slots)
  BY FS_Interval, HandleTableAssumption DEF Slots
<1>2. IsFiniteSet(Tables \X Slots)
  BY <1>1, FS_Product
<1>3. Holders(o) \in SUBSET (Tables \X Slots)
  BY DEF Holders
<1> QED
  BY <1>2, <1>3, FS_Subset, FS_CardinalityType

\* What has a holder is named, and conversely.
LEMMA NamedHasHolder ==
  ASSUME NEW o
  PROVE  Named(o) <=> Holders(o) # {}
<1>1. ASSUME NEW t \in Tables, NEW i \in Slots,
             tab[t].entry[i] # None, tab[t].entry[i].ko = o
      PROVE  <<t, i>> \in Holders(o)
  BY <1>1 DEF Holders
<1>2. ASSUME NEW p \in Holders(o) PROVE Named(o)
  BY DEF Holders, Named
<1> QED
  BY <1>1, <1>2 DEF Named

\* A free place that receives an entry.
LEMMA EntryAdded ==
  ASSUME Inv, IsFiniteSet(Tables), NEW t \in Tables, NEW e \in Entry, ~Full(t),
         tab' = [tab EXCEPT ![t] = Allocated(@, e)]
  PROVE  \A o \in Objects : Cardinality(Holders(o))' =
           IF o = e.ko THEN Cardinality(Holders(o)) + 1 ELSE Cardinality(Holders(o))
<1> DEFINE T == tab[t]
           U == Allocated(T, e)
           f == T.free_head
<1>1. T \in Table /\ FreeListSound(T) /\ f # NoSlot
  BY DEF Inv, TypeOK, Full
<1>2. f \in Slots /\ T.entry[f] = None /\ U.entry = [T.entry EXCEPT ![f] = e]
  BY <1>1, AllocatedSound
<1>3. tab'[t] = U /\ \A u \in Tables : u # t => tab'[u] = tab[u]
  BY DEF Inv, TypeOK
<1>4. T.entry \in [Slots -> Entry \cup {None}]
  BY <1>1 DEF Table
<1> HIDE DEF U, f
<1>5. \A u \in Tables, i \in Slots :
        tab'[u].entry[i] = IF u = t /\ i = f THEN e ELSE tab[u].entry[i]
  BY <1>2, <1>3, <1>4
<1> HIDE DEF T
<1>6. ASSUME NEW o \in Objects
      PROVE  /\ Holders(o)' = IF o = e.ko THEN Holders(o) \cup {<<t, f>>}
                              ELSE Holders(o)
             /\ <<t, f>> \notin Holders(o)
  BY <1>2, <1>5, NoneAssumption DEF Holders, T
<1> QED
  BY <1>6, HoldersFinite, FS_AddElement

\* A used place that is freed.
LEMMA EntryRemoved ==
  ASSUME Inv, IsFiniteSet(Tables), NEW t \in Tables, NEW i \in Slots,
         tab[t].entry[i] # None, tab' = [tab EXCEPT ![t] = Freed(@, i)]
  PROVE  \A o \in Objects : Cardinality(Holders(o))' =
           IF o = tab[t].entry[i].ko THEN Cardinality(Holders(o)) - 1
           ELSE Cardinality(Holders(o))
<1> DEFINE T == tab[t]
           U == Freed(T, i)
<1>1. T \in Table /\ FreeListSound(T)
  BY DEF Inv, TypeOK
<1>2. U.entry = [T.entry EXCEPT ![i] = None]
  BY <1>1, FreedSound
<1>3. tab'[t] = U /\ \A u \in Tables : u # t => tab'[u] = tab[u]
  BY DEF Inv, TypeOK
<1>4. T.entry \in [Slots -> Entry \cup {None}]
  BY <1>1 DEF Table
<1> HIDE DEF U
<1>5. \A u \in Tables, j \in Slots :
        tab'[u].entry[j] = IF u = t /\ j = i THEN None ELSE tab[u].entry[j]
  BY <1>2, <1>3, <1>4
<1> HIDE DEF T
<1>6. ASSUME NEW o \in Objects
      PROVE  /\ Holders(o)' = IF o = tab[t].entry[i].ko
                              THEN Holders(o) \ {<<t, i>>} ELSE Holders(o)
             /\ o = tab[t].entry[i].ko => <<t, i>> \in Holders(o)
  BY <1>5 DEF Holders
<1> QED
  BY <1>6, HoldersFinite, FS_RemoveElement

\* A transfer moves its entry's reference.
LEMMA EntryMoved ==
  ASSUME Inv, IsFiniteSet(Tables), NEW th \in Threads, Transfer(th)
  PROVE  \A o \in Objects : Cardinality(Holders(o))' = Cardinality(Holders(o))
<1> DEFINE F == FirstOf(th)
           S == SecondOf(th)
           h == call[th].handle
           i == h.index
           e == Get(F, h)
           f == tab[S].free_head
           UF == Freed(tab[F], i)
           US == Allocated(tab[S], e)
<1>1. /\ tab' = [tab EXCEPT ![S] = US, ![F] = UF]
      /\ e # None /\ ~Full(S) /\ pc[th] = "second" /\ lock[S] = None
  BY DEF Transfer, LocksSecond, MayTransfer, Unlocked
<1>2. F \in Tables /\ S \in Tables /\ h \in Handle /\ lock[F] = th
  BY <1>1 DEF Inv, TypeOK, FirstOf, SecondOf, First, Second, Call
<1>3. F # S
  BY <1>1, <1>2, NoneAssumption
<1>4. /\ i \in Slots /\ e = tab[F].entry[i] /\ e \in Entry
      /\ tab[F] \in Table /\ FreeListSound(tab[F])
      /\ tab[S] \in Table /\ FreeListSound(tab[S]) /\ f # NoSlot
  BY <1>1, <1>2, GetEntry DEF Inv, TypeOK, Full
<1>5. UF.entry = [tab[F].entry EXCEPT ![i] = None]
  BY <1>1, <1>4, FreedSound
<1>6. /\ f \in Slots /\ tab[S].entry[f] = None
      /\ US.entry = [tab[S].entry EXCEPT ![f] = e]
  BY <1>4, AllocatedSound
<1>7. /\ tab[F].entry \in [Slots -> Entry \cup {None}]
      /\ tab[S].entry \in [Slots -> Entry \cup {None}]
  BY <1>4 DEF Table
<1>8. tab \in [Tables -> Table]
  BY DEF Inv, TypeOK
<1> HIDE DEF F, S, h, i, e, f, UF, US
<1>9. /\ tab'[F] = UF /\ tab'[S] = US
      /\ \A u \in Tables : u # F /\ u # S => tab'[u] = tab[u]
  BY <1>1, <1>2, <1>3, <1>8
<1>10. \A u \in Tables, j \in Slots :
         tab'[u].entry[j] = IF u = S /\ j = f THEN e
                            ELSE IF u = F /\ j = i THEN None ELSE tab[u].entry[j]
  BY <1>3, <1>5, <1>6, <1>7, <1>9
<1> DEFINE At(p) == tab[p[1]].entry[p[2]]
           into == <<S, f>>
           from == <<F, i>>
<1>11. /\ \A p \in Tables \X Slots :
            At(p)' = IF p = into THEN e ELSE IF p = from THEN None ELSE At(p)
       /\ into \in Tables \X Slots /\ from \in Tables \X Slots /\ into # from
       /\ At(into) = None /\ At(from) = e
  <2>1. ASSUME NEW u \in Tables, NEW j \in Slots
        PROVE  tab'[u].entry[j] = IF <<u, j>> = into THEN e
                                  ELSE IF <<u, j>> = from THEN None
                                  ELSE tab[u].entry[j]
    BY <1>10
  <2>2. \A p \in Tables \X Slots :
          p[1] \in Tables /\ p[2] \in Slots /\ p = <<p[1], p[2]>>
    OBVIOUS
  <2> QED
    BY <1>2, <1>3, <1>4, <1>6, <2>1, <2>2
<1>12. \A o : /\ Holders(o) = {p \in Tables \X Slots : At(p) # None /\ At(p).ko = o}
              /\ Holders(o)' = {p \in Tables \X Slots : At(p)' # None /\ At(p)'.ko = o}
  BY DEF Holders
<1> HIDE DEF At, into, from
<1>13. ASSUME NEW o \in Objects, o = e.ko
       PROVE  /\ Holders(o)' = (Holders(o) \ {from}) \cup {into}
              /\ from \in Holders(o) /\ into \notin Holders(o)
  BY <1>1, <1>11, <1>12, <1>13
<1>14. ASSUME NEW o \in Objects, o # e.ko
       PROVE  Holders(o)' = Holders(o)
  BY <1>11, <1>12, <1>14
<1> QED
  <2>1. ASSUME NEW o \in Objects, o = e.ko
        PROVE  Cardinality(Holders(o))' = Cardinality(Holders(o))
    <3> DEFINE R == Holders(o) \ {from}
    <3>1. IsFiniteSet(R) /\ Cardinality(R) = Cardinality(Holders(o)) - 1
      BY <1>13, <2>1, HoldersFinite, FS_RemoveElement
    <3>2. into \notin R /\ Holders(o)' = R \cup {into}
      BY <1>13, <2>1
    <3> HIDE DEF R
    <3>3. Cardinality(R \cup {into}) = Cardinality(R) + 1
      BY <3>1, <3>2, FS_AddElement
    <3> QED
      BY <3>1, <3>2, <3>3, HoldersFinite
  <2> QED
    BY <1>14, <2>1

-----------------------------------------------------------------------------
(* Steps *)

\* A reference that is dropped was counted, and the last one destroys.
LEMMA ReleaseStep ==
  ASSUME KoInv, NEW o \in Objects, Release(o), refcount[o] # 0
  PROVE  /\ refcount' = [refcount EXCEPT ![o] = @ - 1]
         /\ refcount' \in [Objects -> Nat] /\ destroyed' \subseteq Objects
         /\ DestroyedAtZero'
<1>1. /\ refcount \in [Objects -> Nat] /\ destroyed \subseteq Objects
      /\ refcount' = [refcount EXCEPT ![o] = @ - 1]
      /\ destroyed' = IF refcount[o] = 1 THEN destroyed \cup {o} ELSE destroyed
  BY DEF KoInv, KoTypeOK, Release
<1>2. refcount' \in [Objects -> Nat] /\ destroyed' \subseteq Objects
  BY <1>1
<1>3. ASSUME NEW p \in Objects PROVE p \in destroyed' <=> refcount'[p] = 0
  BY <1>1 DEF KoInv, DestroyedAtZero
<1> QED
  BY <1>1, <1>2, <1>3 DEF DestroyedAtZero

\* A reference is only added to an object that is alive.
LEMMA AddRefStep ==
  ASSUME KoInv, NEW o \in Objects, AddRef(o), refcount[o] # 0
  PROVE  /\ refcount' = [refcount EXCEPT ![o] = @ + 1]
         /\ refcount' \in [Objects -> Nat] /\ destroyed' \subseteq Objects
         /\ DestroyedAtZero'
<1>1. /\ refcount \in [Objects -> Nat] /\ destroyed \subseteq Objects
      /\ refcount' = [refcount EXCEPT ![o] = @ + 1] /\ destroyed' = destroyed
  BY DEF KoInv, KoTypeOK, AddRef
<1>2. refcount' \in [Objects -> Nat]
  BY <1>1
<1>3. ASSUME NEW p \in Objects PROVE p \in destroyed' <=> refcount'[p] = 0
  BY <1>1 DEF KoInv, DestroyedAtZero
<1> QED
  BY <1>1, <1>2, <1>3 DEF DestroyedAtZero

\* The sum's terms, as numbers.
LEMMA Terms ==
  ASSUME KoInv, NEW o \in Objects
  PROVE  /\ refcount[o] \in Nat /\ refs[o] \in Nat /\ Owner(o) \in {0, 1}
         /\ Cardinality(Holders(o)) \in Nat
         /\ refcount[o] = Owner(o) + refs[o] + Cardinality(Holders(o))
         /\ Holders(o) # {} => Cardinality(Holders(o)) > 0
<1>1. IsFiniteSet(Holders(o)) /\ Cardinality(Holders(o)) \in Nat
  BY HoldersFinite DEF KoInv
<1>2. Holders(o) # {} => Cardinality(Holders(o)) # 0
  BY <1>1, FS_EmptySet
<1> QED
  BY <1>1, <1>2, KernelObjectAssumption DEF KoInv, KoTypeOK, Counted, Owner

LEMMA KoInitInv == KoInit /\ Capacity > 0 /\ IsFiniteSet(Tables) => KoInv
<1> SUFFICES ASSUME KoInit, Capacity > 0, IsFiniteSet(Tables) PROVE KoInv
  OBVIOUS
<1>1. Inv
  BY InitInv DEF KoInit
<1>2. ASSUME NEW o \in Objects PROVE Cardinality(Holders(o)) = 0
  <2>1. Holders(o) = {}
    BY DEF Holders, KoInit, Init, NewTable
  <2> QED
    BY <2>1, FS_EmptySet
<1>3. KoTypeOK
  BY KernelObjectAssumption DEF KoInit, KoTypeOK
<1>4. Counted
  BY <1>2 DEF Counted, KoInit, Owner
<1>5. DestroyedAtZero
  BY DEF DestroyedAtZero, KoInit
<1> QED
  BY <1>1, <1>3, <1>4, <1>5 DEF KoInv

\* What a step has to show: the counts changed as the references did.
LEMMA CountedStep ==
  ASSUME KoInv, Inv', Counted', DestroyedAtZero',
         refcount' \in [Objects -> Nat], refs' \in [Objects -> 0 .. MaxRefs],
         owned' \subseteq Objects, destroyed' \subseteq Objects
  PROVE  KoInv'
  BY DEF KoInv, KoTypeOK

LEMMA SameHolders ==
  ASSUME UNCHANGED tab, NEW o
  PROVE  Cardinality(Holders(o))' = Cardinality(Holders(o))
  BY DEF Holders

\* Callers' references stay within their bound.
LEMMA CallersStep ==
  ASSUME KoInv, NEW o \in Objects, Gains(o) \/ Loses(o)
  PROVE  /\ refs' \in [Objects -> 0 .. MaxRefs]
         /\ \A p \in Objects : p # o => refs'[p] = refs[p]
         /\ Gains(o) => refs'[o] = refs[o] + 1
         /\ Loses(o) => refs[o] > 0 /\ refs'[o] = refs[o] - 1
  BY KernelObjectAssumption DEF KoInv, KoTypeOK, Gains, Loses

LEMMA CallerStep ==
  ASSUME KoInv, Inv', NEW o \in Objects, NewRef(o) \/ DropRef(o) \/ OwnerRelease(o)
  PROVE  KoInv'
<1>1. UNCHANGED tab /\ \A p : Cardinality(Holders(p))' = Cardinality(Holders(p))
  BY SameHolders DEF NewRef, DropRef, OwnerRelease, vars
<1>2. /\ owned \subseteq Objects /\ refcount \in [Objects -> Nat]
      /\ refs \in [Objects -> 0 .. MaxRefs] /\ MaxRefs \in Nat
  BY KernelObjectAssumption DEF KoInv, KoTypeOK
<1>3. CASE NewRef(o)
  <2>1. (o \in owned \/ refs[o] > 0) /\ Gains(o) /\ AddRef(o) /\ owned' = owned
    BY <1>3 DEF NewRef
  <2>2. refcount[o] # 0
    BY <2>1, Terms DEF Owner
  <2>3. ASSUME NEW p \in Objects
        PROVE  refcount'[p] = Owner(p)' + refs'[p] + Cardinality(Holders(p))'
    BY <1>1, <1>2, <2>1, <2>2, AddRefStep, CallersStep, Terms DEF Owner
  <2> QED
    BY <1>2, <2>1, <2>2, <2>3, AddRefStep, CallersStep, CountedStep DEF Counted
<1>4. CASE DropRef(o)
  <2>1. Loses(o) /\ Release(o) /\ owned' = owned
    BY <1>4 DEF DropRef
  <2>2. refcount[o] # 0
    BY <2>1, Terms, CallersStep
  <2>3. ASSUME NEW p \in Objects
        PROVE  refcount'[p] = Owner(p)' + refs'[p] + Cardinality(Holders(p))'
    BY <1>1, <1>2, <2>1, <2>2, ReleaseStep, CallersStep, Terms DEF Owner
  <2> QED
    BY <1>2, <2>1, <2>2, <2>3, ReleaseStep, CallersStep, CountedStep DEF Counted
<1>5. CASE OwnerRelease(o)
  <2>1. o \in owned /\ owned' = owned \ {o} /\ Release(o) /\ refs' = refs
    BY <1>5 DEF OwnerRelease
  <2>2. refcount[o] # 0
    BY <2>1, Terms DEF Owner
  <2>3. ASSUME NEW p \in Objects
        PROVE  refcount'[p] = Owner(p)' + refs'[p] + Cardinality(Holders(p))'
    BY <1>1, <1>2, <2>1, <2>2, ReleaseStep, Terms DEF Owner
  <2> QED
    BY <1>2, <2>1, <2>2, <2>3, ReleaseStep, CountedStep DEF Counted
<1> QED
  BY <1>3, <1>4, <1>5

LEMMA KoTableStepInv ==
  ASSUME KoInv, Inv', NEW t \in Tables, KoTableStep(t)
  PROVE  KoInv'
<1>1. /\ owned \subseteq Objects /\ refcount \in [Objects -> Nat]
      /\ refs \in [Objects -> 0 .. MaxRefs] /\ MaxRefs \in Nat
      /\ destroyed \subseteq Objects /\ DestroyedAtZero
      /\ Inv /\ TypeOK /\ IsFiniteSet(Tables)
  BY KernelObjectAssumption DEF KoInv, KoTypeOK, Inv
<1>2. ASSUME NEW o \in Objects, NEW r \in CreateRights, KoCreate(t, o, r)
      PROVE  KoInv'
  <2> DEFINE e == [ko |-> o, rights |-> r]
  <2>1. /\ Loses(o) /\ ~Full(t) /\ UNCHANGED <<refcount, owned, destroyed>>
        /\ tab' = [tab EXCEPT ![t] = Allocated(@, e)]
    BY <1>2 DEF KoCreate, Create
  <2>2. e \in Entry /\ e.ko = o
    BY HandleTableAssumption DEF Entry
  <2> HIDE DEF e
  <2>3. \A p \in Objects : Cardinality(Holders(p))' =
          IF p = o THEN Cardinality(Holders(p)) + 1 ELSE Cardinality(Holders(p))
    BY <1>1, <2>1, <2>2, EntryAdded
  <2>4. ASSUME NEW p \in Objects
        PROVE  refcount'[p] = Owner(p)' + refs'[p] + Cardinality(Holders(p))'
    BY <1>1, <2>1, <2>3, CallersStep, Terms DEF Owner
  <2> QED
    BY <1>1, <2>1, <2>4, CallersStep, CountedStep DEF Counted, DestroyedAtZero
<1>3. ASSUME NEW o \in Objects, KoCreateFull(t, o)
      PROVE  KoInv'
  <2>1. Loses(o) /\ Release(o) /\ owned' = owned /\ UNCHANGED tab
    BY <1>3 DEF KoCreateFull, CreateFull
  <2>2. refcount[o] # 0
    BY <2>1, Terms, CallersStep
  <2>3. ASSUME NEW p \in Objects
        PROVE  refcount'[p] = Owner(p)' + refs'[p] + Cardinality(Holders(p))'
    BY <1>1, <2>1, <2>2, SameHolders, ReleaseStep, CallersStep, Terms DEF Owner
  <2> QED
    BY <1>1, <2>1, <2>2, <2>3, ReleaseStep, CallersStep, CountedStep DEF Counted
<1>4. ASSUME NEW h \in Handle, Get(t, h) # None
      PROVE  /\ h.index \in Slots /\ Get(t, h) = tab[t].entry[h.index]
             /\ Get(t, h) \in Entry /\ Get(t, h).ko \in Objects
             /\ refcount[Get(t, h).ko] # 0
  <2>1. /\ h.index \in Slots /\ Get(t, h) = tab[t].entry[h.index]
        /\ Get(t, h) \in Entry
    BY <1>1, <1>4, GetEntry
  <2>2. Get(t, h).ko \in Objects
    BY <2>1 DEF Entry
  <2>3. <<t, h.index>> \in Holders(Get(t, h).ko)
    BY <1>4, <2>1 DEF Holders
  <2> QED
    BY <2>1, <2>2, <2>3, Terms
<1>5. ASSUME NEW h \in Handle, KoGet(t, h)
      PROVE  KoInv'
  <2> DEFINE o == Get(t, h).ko
  <2>1. /\ Gains(o) /\ AddRef(o) /\ owned' = owned /\ UNCHANGED tab
        /\ o \in Objects /\ refcount[o] # 0
    BY <1>4, <1>5 DEF KoGet, vars
  <2> HIDE DEF o
  <2>2. ASSUME NEW p \in Objects
        PROVE  refcount'[p] = Owner(p)' + refs'[p] + Cardinality(Holders(p))'
    BY <1>1, <2>1, SameHolders, AddRefStep, CallersStep, Terms DEF Owner
  <2> QED
    BY <1>1, <2>1, <2>2, AddRefStep, CallersStep, CountedStep DEF Counted
<1>6. ASSUME NEW h \in Handle, NEW r \in MaskRights, KoDuplicate(t, h, r)
      PROVE  KoInv'
  <2> DEFINE o == Get(t, h).ko
             e == [ko |-> o, rights |-> downgrade(Get(t, h).rights, r)]
  <2>1. /\ tab' = [tab EXCEPT ![t] = Allocated(@, e)] /\ ~Full(t)
        /\ Get(t, h) # None /\ AddRef(o) /\ UNCHANGED <<owned, refs>>
    BY <1>6 DEF KoDuplicate, Duplicate, MayDuplicate
  <2>2. Get(t, h) \in Entry /\ o \in Objects /\ refcount[o] # 0
    BY <1>4, <2>1
  <2>3. e \in Entry /\ e.ko = o
    BY <2>2 DEF Entry, downgrade
  <2> HIDE DEF o, e
  <2>4. \A p \in Objects : Cardinality(Holders(p))' =
          IF p = o THEN Cardinality(Holders(p)) + 1 ELSE Cardinality(Holders(p))
    BY <1>1, <2>1, <2>3, EntryAdded
  <2>5. ASSUME NEW p \in Objects
        PROVE  refcount'[p] = Owner(p)' + refs'[p] + Cardinality(Holders(p))'
    BY <1>1, <2>1, <2>2, <2>4, AddRefStep, Terms DEF Owner
  <2> QED
    BY <1>1, <2>1, <2>2, <2>5, AddRefStep, CountedStep DEF Counted
<1>7. ASSUME NEW h \in Handle, KoClose(t, h)
      PROVE  KoInv'
  <2> DEFINE o == Get(t, h).ko
             i == h.index
  <2>1. /\ tab' = [tab EXCEPT ![t] = Freed(@, i)]
        /\ Get(t, h) # None /\ Release(o) /\ UNCHANGED <<owned, refs>>
    BY <1>7 DEF KoClose, Close
  <2>2. /\ i \in Slots /\ tab[t].entry[i] # None /\ tab[t].entry[i].ko = o
        /\ o \in Objects /\ refcount[o] # 0
    BY <1>4, <2>1
  <2> HIDE DEF o, i
  <2>3. \A p \in Objects : Cardinality(Holders(p))' =
          IF p = o THEN Cardinality(Holders(p)) - 1 ELSE Cardinality(Holders(p))
    BY <1>1, <2>1, <2>2, EntryRemoved
  <2>4. ASSUME NEW p \in Objects
        PROVE  refcount'[p] = Owner(p)' + refs'[p] + Cardinality(Holders(p))'
    BY <1>1, <2>1, <2>2, <2>3, ReleaseStep, Terms DEF Owner
  <2> QED
    BY <1>1, <2>1, <2>2, <2>4, ReleaseStep, CountedStep DEF Counted
<1>8. ASSUME NEW h \in Handle, DuplicateFails(t, h) \/ CloseNothing(t, h),
             UNCHANGED koVars
      PROVE  KoInv'
  <2>1. UNCHANGED tab /\ UNCHANGED <<refcount, owned, refs, destroyed>>
    BY <1>8 DEF DuplicateFails, CloseNothing, koVars
  <2>2. ASSUME NEW p \in Objects
        PROVE  refcount'[p] = Owner(p)' + refs'[p] + Cardinality(Holders(p))'
    BY <2>1, SameHolders, Terms DEF Owner
  <2> QED
    BY <1>1, <2>1, <2>2, CountedStep DEF Counted, DestroyedAtZero
<1> QED
  BY <1>2, <1>3, <1>5, <1>6, <1>7, <1>8 DEF KoTableStep

LEMMA KoTransferStep ==
  ASSUME KoInv, Inv', NEW th \in Threads, TransferStep(th), UNCHANGED koVars
  PROVE  KoInv'
<1>1. /\ refcount \in [Objects -> Nat] /\ refs \in [Objects -> 0 .. MaxRefs]
      /\ owned \subseteq Objects /\ destroyed \subseteq Objects
      /\ DestroyedAtZero /\ Inv /\ IsFiniteSet(Tables)
  BY DEF KoInv, KoTypeOK
<1>2. UNCHANGED <<refcount, owned, refs, destroyed>>
  BY DEF koVars
<1>3. \A p \in Objects : Cardinality(Holders(p))' = Cardinality(Holders(p))
  <2>1. Transfer(th) \/ UNCHANGED tab
    BY DEF TransferStep, TransferLock, TransferFails
  <2> QED
    BY <1>1, <2>1, EntryMoved, SameHolders
<1>4. ASSUME NEW p \in Objects
      PROVE  refcount'[p] = Owner(p)' + refs'[p] + Cardinality(Holders(p))'
  BY <1>2, <1>3, Terms DEF Owner
<1> QED
  BY <1>1, <1>2, <1>4, CountedStep DEF Counted, DestroyedAtZero

LEMMA KoStep == KoInv /\ [KoNext]_<<vars, koVars>> => KoInv'
<1> SUFFICES ASSUME KoInv, [KoNext]_<<vars, koVars>> PROVE KoInv'
  OBVIOUS
<1>1. Inv'
  BY StutterOrStep, NextStep DEF KoInv
<1>2. CASE UNCHANGED <<vars, koVars>>
  <2>1. UNCHANGED tab /\ UNCHANGED <<refcount, owned, refs, destroyed>>
    BY <1>2 DEF vars, koVars
  <2>2. ASSUME NEW p \in Objects
        PROVE  refcount'[p] = Owner(p)' + refs'[p] + Cardinality(Holders(p))'
    BY <2>1, SameHolders, Terms DEF Owner
  <2> QED
    BY <1>1, <2>1, <2>2, CountedStep DEF Counted, DestroyedAtZero, KoInv, KoTypeOK
<1>3. CASE KoNext
  BY <1>1, <1>3, CallerStep, KoTableStepInv, KoTransferStep DEF KoNext
<1> QED
  BY <1>2, <1>3

-----------------------------------------------------------------------------
\* The count of an object is the number of its references: the creator's, the
\* callers' and those of the entries of all tables.
THEOREM RefcountExact ==
  KoSpec /\ Capacity > 0 /\ IsFiniteSet(Tables) => [](KoTypeOK /\ Counted)
<1>1. KoInv => KoTypeOK /\ Counted
  BY DEF KoInv
<1> QED
  BY <1>1, KoInitInv, KoStep, PTL DEF KoSpec

\* An object is destroyed exactly when its last reference goes.
THEOREM DestroyedExactly ==
  KoSpec /\ Capacity > 0 /\ IsFiniteSet(Tables) => []DestroyedWhenUnreferenced
<1>1. ASSUME KoInv, NEW o \in Objects
      PROVE  o \in destroyed <=> o \notin owned /\ refs[o] = 0 /\ ~Named(o)
  <2>1. o \in destroyed <=> refcount[o] = 0
    BY <1>1 DEF KoInv, DestroyedAtZero
  <2>2. Holders(o) = {} => Cardinality(Holders(o)) = 0
    BY FS_EmptySet
  <2> QED
    BY <1>1, <2>1, <2>2, Terms, NamedHasHolder DEF Owner
<1>2. KoInv => DestroyedWhenUnreferenced
  BY <1>1 DEF DestroyedWhenUnreferenced
<1> QED
  BY <1>2, KoInitInv, KoStep, PTL DEF KoSpec

\* kernel_object.rs:50 and 57, "add_ref on destroyed object" and "release on
\* already-destroyed object": no step does either.
THEOREM DestroyedForGood ==
  KoSpec /\ Capacity > 0 /\ IsFiniteSet(Tables) =>
    [][\A o \in destroyed : refcount[o] = 0 /\ refcount'[o] = 0]_<<vars, koVars>>
<1>1. KoNext => destroyed \subseteq destroyed'
  <2>1. ASSUME NEW o, AddRef(o) \/ Release(o) \/ UNCHANGED destroyed
        PROVE  destroyed \subseteq destroyed'
    BY <2>1 DEF AddRef, Release
  <2>2. ASSUME NEW t \in Tables, KoTableStep(t) PROVE destroyed \subseteq destroyed'
    BY <2>1, <2>2 DEF KoTableStep, KoCreate, KoCreateFull, KoGet, KoDuplicate,
                      KoClose, koVars
  <2> QED
    BY <2>1, <2>2 DEF KoNext, NewRef, DropRef, OwnerRelease, koVars
<1>2. KoInv /\ KoInv' /\ KoNext =>
        \A o \in destroyed : refcount[o] = 0 /\ refcount'[o] = 0
  BY <1>1 DEF KoInv, KoTypeOK, DestroyedAtZero
<1>3. KoInv /\ [KoNext]_<<vars, koVars>> =>
        [\A o \in destroyed : refcount[o] = 0 /\ refcount'[o] = 0]_<<vars, koVars>>
  BY <1>2, KoStep
<1> QED
  BY <1>3, KoInitInv, KoStep, PTL DEF KoSpec

\* The tables' theorems hold of tables whose entries are counted references.
THEOREM ObjectsKeepTheTables ==
  KoSpec /\ Capacity > 0 =>
    [](LiveHandlesResolve /\ StaleHandlesRejected /\ RightsNeverGrow)
  BY KoImplementsTables, LiveResolve, StaleRejected, RightsMonotone, PTL
=============================================================================

---------------------------- MODULE TaskPriority ----------------------------
(***************************************************************************)
(* The two priorities of one task control block, task_control_block.rs:    *)
(* set_priority(), boost_priority() and unboost_priority() called by any   *)
(* threads, and the executor's decay.  Each load, store or exchange of an  *)
(* atomic is a step.                                                       *)
(***************************************************************************)
EXTENDS Integers

CONSTANTS
  Threads,
  Priorities,   \* the arguments of the calls, integers
  MaxDecay      \* how far priority decays below base, 8 in the source

VARIABLES
  base_priority,
  effective_priority,
  pc, arg,   \* per thread: where it is, and the priority passed to its call
  read,      \* per thread: what its last load returned
  overtaken  \* history: threads during whose call another one stored a priority

vars == <<base_priority, effective_priority, pc, arg, read, overtaken>>

Init ==
  /\ base_priority = 0 /\ effective_priority = 0
  /\ pc = [t \in Threads |-> "idle"]
  /\ arg = [t \in Threads |-> 0]
  /\ read = [t \in Threads |-> 0]
  /\ overtaken = {}

At(t, l) == pc[t] = l
Goto(t, l) == pc' = [pc EXCEPT ![t] = l]
Return(t) == Goto(t, "idle")

Call(t, p, l) == At(t, "idle") /\ arg' = [arg EXCEPT ![t] = p] /\ Goto(t, l)

Load(t, priority) ==
  /\ read' = [read EXCEPT ![t] = priority]
  /\ UNCHANGED <<base_priority, effective_priority>>

StoreEffective(t, p) ==
  /\ effective_priority' = p
  /\ overtaken' = overtaken \cup (Threads \ {t})
  /\ Return(t)
  /\ UNCHANGED <<base_priority, arg, read>>

-----------------------------------------------------------------------------
(* set_priority() *)

SetBase(t, p) ==
  /\ Call(t, p, "set_load")
  /\ base_priority' = p
  /\ overtaken' = Threads \ {t}
  /\ UNCHANGED <<effective_priority, read>>

SetLoad(t) ==
  /\ At(t, "set_load")
  /\ Load(t, effective_priority)
  /\ Goto(t, IF effective_priority <= arg[t] THEN "set_store" ELSE "set_compare")
  /\ UNCHANGED <<arg, overtaken>>

\* "or equal to the base priority", which by now is the new one.
SetCompare(t) ==
  /\ At(t, "set_compare")
  /\ Goto(t, IF read[t] = base_priority THEN "set_store" ELSE "idle")
  /\ UNCHANGED <<base_priority, effective_priority, arg, read, overtaken>>

SetEffective(t) == At(t, "set_store") /\ StoreEffective(t, arg[t])

-----------------------------------------------------------------------------
(* boost_priority() and unboost_priority() *)

Boost(t, p) ==
  /\ Call(t, p, "boost_load")
  /\ overtaken' = overtaken \ {t}
  /\ UNCHANGED <<base_priority, effective_priority, read>>

BoostLoad(t) ==
  /\ At(t, "boost_load")
  /\ Load(t, effective_priority)
  /\ Goto(t, IF effective_priority >= arg[t] THEN "idle" ELSE "boost_cas")
  /\ UNCHANGED <<arg, overtaken>>

BoostCas(t) ==
  At(t, "boost_cas") /\ effective_priority = read[t] /\ StoreEffective(t, arg[t])

\* A weak exchange may also fail without a reason.
BoostRetry(t) ==
  /\ At(t, "boost_cas")
  /\ Goto(t, "boost_load")
  /\ UNCHANGED <<base_priority, effective_priority, arg, read, overtaken>>

UnboostLoad(t) ==
  /\ Call(t, 0, "unboost_store")
  /\ Load(t, base_priority)
  /\ overtaken' = overtaken \ {t}

UnboostStore(t) == At(t, "unboost_store") /\ StoreEffective(t, read[t])

-----------------------------------------------------------------------------
(* The executor's decay *)

DecayLoad(t) ==
  /\ Call(t, 0, "decay_compare")
  /\ Load(t, effective_priority)
  /\ overtaken' = overtaken \ {t}

DecayCompare(t) ==
  /\ At(t, "decay_compare")
  /\ Goto(t, IF read[t] > base_priority - MaxDecay THEN "decay_lower" ELSE "idle")
  /\ UNCHANGED <<base_priority, effective_priority, arg, read, overtaken>>

DecayLower(t) ==
  At(t, "decay_lower") /\ StoreEffective(t, effective_priority - 1)

-----------------------------------------------------------------------------
Step(t) ==
  \/ \E p \in Priorities : SetBase(t, p) \/ Boost(t, p)
  \/ SetLoad(t) \/ SetCompare(t) \/ SetEffective(t)
  \/ BoostLoad(t) \/ BoostCas(t) \/ BoostRetry(t)
  \/ UnboostLoad(t) \/ UnboostStore(t)
  \/ DecayLoad(t) \/ DecayCompare(t) \/ DecayLower(t)

Next == \E t \in Threads : Step(t)

Spec == Init /\ [][Next]_vars

-----------------------------------------------------------------------------
(* Properties *)

\* Priorities are integers and threads are at known places.
TypeOK ==
  /\ base_priority \in Int /\ effective_priority \in Int
  /\ pc \in [Threads -> {"idle", "set_load", "set_compare", "set_store",
                         "boost_load", "boost_cas", "unboost_store",
                         "decay_compare", "decay_lower"}]
  /\ arg \in [Threads -> Int] /\ read \in [Threads -> Int]
  /\ overtaken \subseteq Threads

\* task_control_block.rs:137, "Also updates effective if no PI boost is active":
\* set_priority() never lowers the effective priority, boost or not, unless
\* another call stores a priority meanwhile; then it may, and undo a boost.
\* Otherwise only unboost_priority() and decay lower it, a boosted one too.
LoweredOnlyBy ==
  [][effective_priority' < effective_priority =>
       \E t \in Threads :
         \/ UnboostStore(t) \/ DecayLower(t)
         \/ SetEffective(t) /\ t \in overtaken]_vars
=============================================================================

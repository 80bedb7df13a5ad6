----------------------------- MODULE IdleStates -----------------------------
(***************************************************************************)
(* The selection of a C-state in variables/idle_states.rs.  A state is its *)
(* MWAIT hint, as the set of its ones (Bits), and its exit latency in      *)
(* microseconds; a configuration numbers its entries 0 .. Max - 1, from    *)
(* the deepest to C1, and fills up the rest with zeroes.                   *)
(***************************************************************************)
EXTENDS Time, Bits

CONSTANT X86_MAX_CSTATES

IDLE_DURATION_FACTOR == 3
C1_MWAIT_HINT == {}

Entries == 0 .. X86_MAX_CSTATES - 1
State == [mwait_hint : SUBSET Ones(32), exit_latency : Nat]
Config == [Entries -> State]

\* An entry of X86IdleStatesConfig::default() that nobody filled in.
Padding == [mwait_hint |-> C1_MWAIT_HINT, exit_latency |-> 0]

x86_is_base_idle_state(state) == state.mwait_hint = C1_MWAIT_HINT

Bases(states) == {n \in Entries : x86_is_base_idle_state(states[n])}

\* X86IdleStates::new() asks for x86_num_idle_states() and panics on None.
Valid(states) == Bases(states) # {}
x86_num_idle_states(states) == First(Bases(states)) + 1

\* The bit of the mask that state_number_from_mwait_hint() - 1 selects: the
\* value of bits 4 to 8 of the hint.
value(x) == (IF 0 \in x THEN 1 ELSE 0) + (IF 1 \in x THEN 2 ELSE 0)
          + (IF 2 \in x THEN 4 ELSE 0) + (IF 3 \in x THEN 8 ELSE 0)
          + (IF 4 \in x THEN 16 ELSE 0)
mask_bit(state) == value(bits_shift(32, state.mwait_hint, 8, 4))

exit_latency(state) == zx_duration_from(1000, state.exit_latency)

\* set_state_mask() and new(): C1 is always allowed.
StateMask(mask) == mask \cup {0}

\* The states that the loop of pick_idle_state() stops at.  The product would
\* overflow after an idle period of 97 years.
Acceptable(states, mask, last) ==
  {n \in 0 .. x86_num_idle_states(states) - 1 :
     /\ mask_bit(states[n]) \in StateMask(mask)
     /\ exit_latency(states[n]) < IDLE_DURATION_FACTOR * last}

\* The number of the state that is picked; last is the duration of the last
\* idle period.
pick_idle_state(states, mask, last) ==
  IF last = 0 \/ Acceptable(states, mask, last) = {}
  THEN x86_num_idle_states(states) - 1
  ELSE First(Acceptable(states, mask, last))
=============================================================================

\* The receiver may be polled unasked, but only a woken one has to be.
SPECIFICATION OneshotFairSpec
CONSTANT Spurious = TRUE
INVARIANTS
  FreedWhenUnused
  NoUnreachable
  ResolvedTruly
PROPERTY
  SentIsReceived
CHECK_DEADLOCK FALSE

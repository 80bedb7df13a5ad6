\* One thief of each kind; the buffer of two slots grows once.
SPECIFICATION DequeSpec
CONSTANTS
  Items = {a, b, c, d}
  Thieves = {s1}
  BatchThieves = {s2}
  BatchMax = 2
  OwnerPops = TRUE
  InitCap = 2
  MaxCap = 4
SYMMETRY Symmetry
INVARIANTS
  TakenOnceUntilRaced
  NothingLostUntilRaced

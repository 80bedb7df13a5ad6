SPECIFICATION Spec
CONSTANTS
  Capacity = 2
  Positions = 4
  MaxSends = 6
INVARIANTS InOrder NeverSameSlot NeverWaits
CHECK_DEADLOCK FALSE

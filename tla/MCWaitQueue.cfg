\* Three tasks of two priorities, one waker that calls both wake operations.
SPECIFICATION Spec
CONSTANTS
  Nodes = {n1, n2, n3}
  Priorities = {0, 1}
  OneWakers = {w}
  AllWakers = {w}
  WakeBatch = 3
  LenBits = 2
  Null = Null
SYMMETRY Symmetry
INVARIANTS
  WellFormed
  NoWaiterForgotten
PROPERTY
  ImplementsPriorityQueue

SPECIFICATION RunQueueFairSpec
CONSTANTS
  Tasks = {a, b, c}
  Producers = {p1, p2}
  Priorities = {0, 20}
  LenBits = 3
INVARIANT OccupancyUntilRaced
PROPERTIES DequeueTerminatesUntilRaced WorkIsFoundUntilRaced

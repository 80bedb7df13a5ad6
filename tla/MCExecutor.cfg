\* Two cores, two tasks of six and two polls that may park, quanta of two polls,
\* deques that have room for one task before they grow.
SPECIFICATION FairSpec
CONSTANTS
  c1 = c1
  c2 = c2
  a = a
  b = b
  Cores = {c1, c2}
  Tasks = {a, b}
  default_quantum = 2
  BatchMax = 2
  MIN_CAPACITY = 1
  DecayPeriod = 1
  MaxDecay = 1
  PollsNeeded <- Polls
  Parks = TRUE
  Affinity <- AllCores
INVARIANTS
  ExclusivePollUntilRaced
  NoTaskLostUntilRaced
  DecayBounded

  
CHECK_DEADLOCK FALSE

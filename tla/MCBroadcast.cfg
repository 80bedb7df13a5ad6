\* The sender, its receiver and a second one that subscribes; two sends.
SPECIFICATION BroadcastSpec
CONSTANTS
  Receivers = {r1, r2}
  First = r1
  MaxSends = 2
CHECK_DEADLOCK FALSE
INVARIANTS
  AliveForAllButOne
  EveryValueUntilOvertaken
PROPERTIES
  NewsArrivesUntilStale

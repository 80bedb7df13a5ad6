\* Two waiters of one word, one of another in the same bucket, two setters.
SPECIFICATION FutexSpec
CONSTANTS
  a = a
  b = b
  w1 = w1
  w2 = w2
  w3 = w3
  Waiters = {w1, w2, w3}
  Setters = {s1, s2}
  Addrs = {a, b}
  Bucket <- OneBucket
  WordOf <- TwoOnOneWord
  Count = 2
  Free = Free
CHECK_DEADLOCK FALSE
INVARIANTS
  LinkedNodesLive
PROPERTIES
  ChangeIsNoticedUntilMisdirected

SPECIFICATION FairSpec
CONSTANTS
  Lockers = {t1, t2, t3}
  TryLockers = {t3}
  TicketBits = 2
INVARIANT MutexUntilTainted
PROPERTIES FifoUntilTainted LockTerminatesUntilTainted
CHECK_DEADLOCK FALSE

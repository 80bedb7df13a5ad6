\* Two senders, one receiver, a ring of two slots whose positions wrap at two.
SPECIFICATION Spec
CONSTANTS
  Senders = {s1, s2}
  Receiver = r
  Capacity = 2
  Positions = 2
  MaxSends = 2
SYMMETRY Symmetry
INVARIANTS
  WritesFreeSlotUntilCrowded
  InOrderUntilCrowded
  LinkedReceiverIsWoken
  LinkedIsRegistered

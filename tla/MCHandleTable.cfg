\* Two tables of two slots, two generations, two threads that transfer both ways.
SPECIFICATION KoSpec
CONSTANTS
  Tables <- TwoTables
  Capacity = 2
  Generations = 2
  Objects = {o}
  AllRights <- Rights
  CreateRights <- NotRead
  MaskRights <- NotTransfer
  Threads = {a, b}
  TransferPairs <- Distinct
  None = None
  MaxRefs = 1
SYMMETRY Symmetry
VIEW NoOutcome
INVARIANTS
  LiveHandlesResolve
  StaleHandlesRejected
  RightsNeverGrow
  FreeListComplete
  SomeTransferCanProceed
  DestroyedWhenUnreferenced

CONSTANTS
  Clients = {c1, c2}
  Keys <- MCKeys
  Calls <- MCCalls
  InitialItems <- MCInitialItems
  Backends = {"memory", "dynamodb"}
  MaxU64 = 3
  MaxCalls = 3
  MaxResends = 1
  Intact <- PointerMovesWithEpoch
SPECIFICATION Spec
CHECK_DEADLOCK FALSE
INVARIANTS StoreInv TableStaysIntact
PROPERTIES QueryMissesNothing ImplementsContract
SYMMETRY ClientSymmetry

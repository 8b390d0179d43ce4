SPECIFICATION Spec
CONSTANTS
  Key = {k1, k2}
  Stalled = Stalled
  Policies = {1, Stalled}
  InitialLag = 1
  MaxTime = 3
  MaxWrites = 3
  MaxFailures = 1
SYMMETRY KeySymmetry
CHECK_DEADLOCK FALSE
INVARIANTS DeliveryInv PacedHistoryReplicated LocksCarried

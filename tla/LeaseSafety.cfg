CONSTANTS
  Coord = {a, b}
  NoItem = NoItem
  LEASE_TTL = 1
  TAKEOVER_SAFETY_MARGIN = 1
  MaxSkew = 1
  MaxMillis = 100
  MaxEpoch = 2
  MaxTime = 2
  MaxFaults = 2
  MaxLate = 1
  FenceOnLease = TRUE
SPECIFICATION Spec
INVARIANT OneHolderPerEpoch
PROPERTY ImplementsLedger
PROPERTY OnlyDelayOrStepShortens
SYMMETRY CoordSymmetry

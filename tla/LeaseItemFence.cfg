CONSTANTS
  Coord = {a, b}
  NoItem = NoItem
  LEASE_TTL = 1
  TAKEOVER_SAFETY_MARGIN = 1
  MaxSkew = 0
  MaxMillis = 100
  MaxEpoch = 3
  MaxTime = 4
  MaxFaults = 0
  MaxLate = 0
  FenceOnLease = FALSE
SPECIFICATION Spec
PROPERTY StalePrimaryNeverWrites

CONSTANTS
  Coord = {a, b}
  NoItem = NoItem
  LEASE_TTL = 1
  TAKEOVER_SAFETY_MARGIN = 2
  MaxSkew = 1
  MaxMillis = 100
  MaxEpoch = 2
  MaxTime = 3
  MaxFaults = 1
  MaxLate = 0
  FenceOnLease = TRUE
SPECIFICATION FairSpec
PROPERTY ExpiredLeaseChangesHands
PROPERTY TakeoverAfterExpiry

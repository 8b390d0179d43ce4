SPECIFICATION FairSpec
CONSTANTS
  Entry = {e1, e2, e3, e4}
  MaxBatchSize = 3
  Cadence = 2
  MaxIndex = 3
  Abandons = 2
  NoEntry = NoEntry
INVARIANTS IntakeInv IndicesFollowAcceptance
PROPERTIES ShutdownIsCleanCut CadenceFromFirstEntry
PROPERTIES CallsReturn

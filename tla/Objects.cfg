CONSTANTS
  Clients = {c1, c2}
  Keys <- MCKeys
  Calls <- MCCalls
  Configs <- MCConfigs
  Backends = {"memory", "s3"}
  MaxCalls = 3
  MaxResends = 1
  MaxNow = 1
  SECS_PER_DAY = 2
  SECS_PER_MINUTE = 1
  MaxI64 = 9
  MaxTime = 8
  Indefinite = 8
SPECIFICATION Spec
CHECK_DEADLOCK FALSE
INVARIANT StoreInv
PROPERTIES RetentionKept HiddenOnlyByEarlierOverwrite
  AnswersAreTrue
SYMMETRY ClientSymmetry

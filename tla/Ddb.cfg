SPECIFICATION Spec
CONSTANTS
  Region = {"a", "b", "c"}
  Links <- MCLinks
  Key = {k1, k2}
  Content = {c1, c2}
  k1 = k1
  k2 = k2
  c1 = c1
  c2 = c2
  Absent = Absent
  Stalled = Stalled
  Setups <- MCSetups
CHECK_DEADLOCK FALSE
INVARIANTS DeliveryInv CatchesUp LastPutWins

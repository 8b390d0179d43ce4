SPECIFICATION Spec
CONSTANTS
  Requests = {r1, r2, r3}
  Keys = {k1, k2}
  Nonces = {n1, n2}
  Forged = Forged
  Flaws = {"alg", "url"}
  TTL = 0
  MaxTime = 1
SYMMETRY Symmetry
INVARIANTS
  RegistrationIdempotent
  LocationNamesSigner
PROPERTY
  ReplayReadsBadNonce
CHECK_DEADLOCK FALSE

CONSTANTS
  Replicas = {r1, r2}
  KeyIds = {k1, k2}
  FirstKey = k1
  Bindings = {b1, b2}
  TTL = 1
  MaxTime = 3
  MaxStarts = 2
  MaxVersion = 5
  None = none
SYMMETRY Symmetric
SPECIFICATION Spec
CHECK_DEADLOCK FALSE
INVARIANT TypeOK
INVARIANT CeremoniesSurviveRotation
INVARIANT OwnChallenge

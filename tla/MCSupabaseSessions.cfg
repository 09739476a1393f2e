CONSTANTS
  cust = cust
  adm = adm
  k1 = k1
  k2 = k2
  Projects = {cust, adm}
  Surfaces <- MCSurfaces
  Kids = {k1, k2}
  KeySet <- MCKeySet
  InitialKeys <- MCInitialKeys
  Tokens <- MCTokens
  Tasks = {t1, t2}
  TTL = 3
  FLOOR = 1
  HTTP_TIMEOUT = 1
  MaxTime = 4
  MaxRotations = 2
  None = none
SYMMETRY Symmetric
SPECIFICATION Spec
INVARIANT TypeOK
INVARIANT WithdrawnKeyExpires
INVARIANT SurfaceNeedsItsProject
INVARIANT RotationConverges

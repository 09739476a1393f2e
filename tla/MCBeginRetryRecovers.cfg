CONSTANTS
  cer = cer
  Ceremonies = {cer}
  BeginRequests <- OneBegin
  ClaimRequests <- MCClaims
  CompleteRequests <- MCCompletes
  AllowedTenants = {"acme"}
  Tasks = {t1, t2}
  MAX_CAS_ATTEMPTS = 2
  TTL = 2
  MIN_TTL = 1
  MAX_TTL = 3
  Skew = 1
  MaxTime = 3
  MaxOrphans = 1
  None = none
  Nobody = nobody
SYMMETRY Symmetric
SPECIFICATION Spec
INVARIANT BeginRetryRecovers

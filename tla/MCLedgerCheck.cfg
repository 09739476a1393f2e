CONSTANTS
  TokenTarget = tok
  SubjectTarget = sub
  Targets = {tok, sub}
  Requests <- CheckRequests
  Tasks = {w1}
  Checkers = {c1}
  MAX_TRANSITIONS_PER_TARGET = 3
  MAX_CAS_RETRIES = 2
  MAX_ACCESS_TOKEN_TTL_SECS = 3
  MAX_INTERNAL_REVOCATION_TTL_SECS = 3
  Skew = 1
  MaxTime = 1
  MaxOrphans = 0
  Nobody = nobody
SPECIFICATION Spec
INVARIANT CheckSeesStandingRevocation

CONSTANTS
  TokenTarget = tok
  SubjectTarget = sub
  Targets = {tok, sub}
  Requests <- MCRequests
  Tasks = {w1, w2}
  Checkers = {}
  MAX_TRANSITIONS_PER_TARGET = 2
  MAX_CAS_RETRIES = 2
  MAX_ACCESS_TOKEN_TTL_SECS = 3
  MAX_INTERNAL_REVOCATION_TTL_SECS = 3
  Skew = 0
  MaxTime = 1
  MaxOrphans = 1
  Nobody = nobody
SYMMETRY Symmetric
SPECIFICATION Spec
INVARIANT TypeOK
INVARIANT StoredLedgersValid
INVARIANT AckedDurable
INVARIANT AnswersAgree
INVARIANT RetryNotRefused
INVARIANT ExhaustionMeansContention
PROPERTY ImplementsRegister

CONSTANTS
  Ledger = ledger
  Keys = {ledger}
  None = none
  Freshness = 1
  MAX_SEQUENCE = 3
  TTL = 6
  Window = 6
  Capacity = 2
  RequestTimeout = 1
  Delay = 1
  Skew = 1
  Late = 1
  MaxTime = 10
  MaxRefreshes = 2
  MaxInFlight = 2
  MaxRestarts = 1
SPECIFICATION Spec
CHECK_DEADLOCK FALSE
INVARIANT TypeOK
INVARIANT RevokedWithinBound
INVARIANT RevokedKeyDiesOut
PROPERTY EvidenceMovesForward

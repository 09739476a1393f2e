CONSTANTS
  k1 = k1
  k2 = k2
  tok1 = tok1
  sub = sub
  Keys = {k1}
  Targets = {tok1}
  TokenTarget <- MCTokenTarget
  SubjectTarget <- MCTokenTarget
  Tasks = {t1, t2}
  Locks = {l1, l2}
  Budget = 1
  Capacity = 1
  Clear = clear
  None = none
  MaxTime = 2
  MaxSteps = 0
  MaxCancels = 0
SPECIFICATION Spec
INVARIANT NoLeakedLocks

SPECIFICATION Spec
CONSTANTS
  Threads = {t1, t2}
  Makers = {t1, t2}
  Mutexes = {m1, m2}
  RAL_MAX = 2
  None = None
INVARIANTS
  IdentifiedByAddress

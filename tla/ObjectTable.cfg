SPECIFICATION Spec
CONSTANTS
  Threads = {t1, t2, t3}
  Makers = {t1, t2, t3}
  Mutexes = {m1, m2, m3}
  RAL_MAX = 2
  None = None
CONSTRAINT Unclashed
INVARIANTS
  MadeIsFound
  MutexExcludes
  NothingLeaks

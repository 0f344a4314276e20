SPECIFICATION Spec
CONSTANTS
  t1 = t1
  t2 = t2
  t3 = t3
  Threads = {t1, t2, t3}
  Requests <- MCRequests
  Faults = {}
  MaxCrashes = 0
  MaxFailures = 0
CHECK_DEADLOCK FALSE
INVARIANTS
  PausedIsListed

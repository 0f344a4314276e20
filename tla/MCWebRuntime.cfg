SPECIFICATION FairSpec
CONSTANTS
  t1 = t1
  t2 = t2
  t3 = t3
  Threads = {t1, t2, t3}
  Requests <- MCRequests
  Faults = {"register", "delete", "inspect"}
  MaxCrashes = 1
  MaxFailures = 1
CHECK_DEADLOCK FALSE
INVARIANTS
  TypeOK
  OneExecutor
  CardsStayListed
PROPERTIES
  GateHolds
  RegistryDrains

\* Two goroutines, errors and restarts; every request returns.
SPECIFICATION FairSpec
CONSTANTS
  Procs = {p1, p2}
  Tokens = {t1, t2}
  Profiles = {a}
  Lifetime = 2
  TicksPerSecond = 2
  MaxTime = 0
  MaxChanges = 0
  Faults = {"databaseError", "restart"}
  None = None
PROPERTY
  RequestsReturn

\* Two goroutines, two sessions of one second, a second and a half of half seconds.
SPECIFICATION Spec
CONSTANTS
  Procs = {p1, p2}
  Tokens = {t1, t2}
  Profiles = {a, b}
  Lifetime = 2
  TicksPerSecond = 2
  MaxTime = 3
  MaxChanges = 1
  Faults = {"databaseError", "restart"}
  None = None
SYMMETRY Symmetry
INVARIANTS
  IndexIsCurrent
  EveryRowAuthenticates
PROPERTY
  NeverExtended

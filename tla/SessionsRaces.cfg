\* Three goroutines, two sessions, one change of the password; the clock stands.
SPECIFICATION Spec
CONSTANTS
  Procs = {p1, p2, p3}
  Tokens = {t1, t2}
  Profiles = {a, b}
  Lifetime = 2
  TicksPerSecond = 2
  MaxTime = 0
  MaxChanges = 1
  Faults = {"databaseError", "restart"}
  None = None
SYMMETRY Symmetry
INVARIANTS
  EndedStaysEnded
  OnlyCurrentPassword


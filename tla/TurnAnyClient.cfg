SPECIFICATION Spec
CONSTANTS
  N = 2
  Runs = {r1, r2}
  Stops = {s1}
  r1 = r1
  r2 = r2
  s1 = s1
  MaxAsks = 1
  MaxCrashes = 0
  EarlyAnswer = TRUE
  EagerClient = TRUE
  UntrustedHooks = TRUE
  SlowRelease = TRUE
SYMMETRY RunSymmetry
INVARIANTS
  NoStrandedQueue
CHECK_DEADLOCK FALSE

SPECIFICATION Spec
CONSTANTS
  N = 2
  Runs = {r1, r2}
  Stops = {}
  r1 = r1
  r2 = r2
  MaxAsks = 1
  MaxCrashes = 0
  EarlyAnswer = TRUE
  EagerClient = FALSE
  UntrustedHooks = FALSE
  SlowRelease = FALSE
INVARIANTS
  Serial
CHECK_DEADLOCK FALSE

SPECIFICATION FairSpec
CONSTANTS
  N = 2
  Runs = {r1}
  Stops = {s1}
  r1 = r1
  s1 = s1
  MaxAsks = 0
  MaxCrashes = 0
  EarlyAnswer = FALSE
  EagerClient = FALSE
  UntrustedHooks = FALSE
  SlowRelease = FALSE
PROPERTIES
  StopIsAnswered
CHECK_DEADLOCK FALSE

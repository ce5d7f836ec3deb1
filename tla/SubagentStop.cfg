CONSTANTS
  Tasks = {t1, t2}
  GlobalLimit = 1
  ParentLimit = 2
  Hasty = TRUE
  MaxRuns = 2
  MaxSends = 1
  MaxWakes = 2
  MaxCrashes = 0
SPECIFICATION Spec
CHECK_DEADLOCK FALSE
PROPERTY StopIsFinal

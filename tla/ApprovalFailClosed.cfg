SPECIFICATION Spec
CONSTANTS
  Calls = {c1, c2}
  c1 = c1
  c2 = c2
  NoCall = NoCall
  MaxCrashes = 1
PROPERTIES
  FailClosed
CHECK_DEADLOCK FALSE
